----------------------------- MODULE FiltersProofs -----------------------------
(* Filtered sequences, and least elements in place of induction. *)
EXTENDS Filters, SequenceTheorems, WellFoundedInduction, TLAPS

\* The order of the natural numbers as the relation the library speaks of.
LEMMA LessOnNat == \A m, n \in Nat : m < n <=> <<m, n>> \in OpToRel(<, Nat)
  BY DEF OpToRel

\* Every set of natural numbers that is not empty has a least element.
LEMMA LeastOfSet ==
    ASSUME NEW T \in SUBSET Nat, T # {}
    PROVE  \E m \in T : \A n \in T : m <= n
<1>1. PICK m \in T : \A n \in T : ~ (<<n, m>> \in OpToRel(<, Nat))
  BY WFMin, NatLessThanWellFounded
<1>2. \A n \in T : ~ (n < m)
  BY <1>1, LessOnNat
<1>. QED
  BY <1>2

\* Every set of numbers from 1 to n that is not empty has a greatest element.
LEMMA GreatestOfSet ==
    ASSUME NEW n \in Nat, NEW T \in SUBSET (1..n), T # {}
    PROVE  \E m \in T : \A k \in T : m >= k
<1>. DEFINE U == {n - k : k \in T}
<1>1. U \in SUBSET Nat /\ U # {}
  <2>1. \A k \in T : n - k \in Nat
    OBVIOUS
  <2>2. PICK t : t \in T
    OBVIOUS
  <2>3. n - t \in U
    BY <2>2
  <2>. QED
    BY <2>1, <2>3
<1>2. PICK u \in U : \A v \in U : u <= v
  <2>. HIDE DEF U
  <2>. QED
    BY <1>1, LeastOfSet
<1>3. PICK m \in T : u = n - m
  BY <1>2
<1>4. \A k \in T : n - m <= n - k
  BY <1>2, <1>3
<1>5. \A k \in T : m >= k
  BY <1>4
<1>. QED
  BY <1>5

\* A function on the numbers from 1 to n is a sequence.
LEMMA SeqOfFunction ==
    ASSUME NEW S, NEW n \in Nat, NEW f \in [1..n -> S]
    PROVE  f \in Seq(S) /\ Len(f) = n
  OBVIOUS

\* Induction over the natural numbers, stated for the set of those a formula holds for.
LEMMA SetInduction ==
    ASSUME NEW T, 0 \in T, \A n \in Nat : n \in T => n + 1 \in T
    PROVE  \A n \in Nat : n \in T
<1>. SUFFICES ASSUME Nat \ T # {} PROVE FALSE
  OBVIOUS
<1>1. PICK m \in Nat \ T : \A n \in Nat \ T : m <= n
  BY LeastOfSet
<1>2. m - 1 \in Nat /\ m - 1 \notin T
  <2>1. m # 0
    OBVIOUS
  <2>2. m - 1 \in Nat /\ ~ (m <= m - 1)
    BY <2>1
  <2>. QED
    BY <2>2, <1>1
<1>. QED
  BY <1>2, <1>1
-------------------------------------------------------------------------------
\* One turn of the filter.
Turn(s, I, before, n) ==
    IF n = 0 THEN <<>> ELSE IF n \in I THEN Append(before[n-1], s[n]) ELSE before[n-1]

IsFilter(s, I, kept, n) == kept = [k \in 0..n |-> Turn(s, I, kept, k)]

LEMMA FilterExists ==
    ASSUME NEW s, NEW I
    PROVE  \A n \in Nat : \E kept : IsFilter(s, I, kept, n)
<1>. DEFINE T == {n \in Nat : \E kept : IsFilter(s, I, kept, n)}
<1>1. 0 \in T
  <2>. DEFINE kept == [k \in 0..0 |-> <<>>]
  <2>1. IsFilter(s, I, kept, 0)
    BY DEF IsFilter, Turn
  <2>. QED
    BY <2>1
<1>2. ASSUME NEW n \in Nat, n \in T
      PROVE  n + 1 \in T
  <2>1. PICK kept : IsFilter(s, I, kept, n)
    BY <1>2
  <2>. DEFINE more == [k \in 0..(n+1) |-> Turn(s, I, kept, k)]
  <2>2. \A k \in 0..n : more[k] = kept[k]
    BY <2>1 DEF IsFilter
  <2>3. \A k \in 0..(n+1) : Turn(s, I, kept, k) = Turn(s, I, more, k)
    <3>. SUFFICES ASSUME NEW k \in 0..(n+1), k # 0
                  PROVE  kept[k-1] = more[k-1]
      BY DEF Turn
    <3>1. k - 1 \in 0..n
      OBVIOUS
    <3>. QED
      BY <3>1, <2>2
  <2>4. IsFilter(s, I, more, n + 1)
    BY <2>3 DEF IsFilter
  <2>. QED
    BY <2>4
<1>. HIDE DEF T
<1>3. \A n \in Nat : n \in T
  BY <1>1, <1>2, SetInduction
<1>. QED
  BY <1>3 DEF T

LEMMA FilteredByTurns ==
    ASSUME NEW S, NEW s \in Seq(S), NEW I
    PROVE  \E kept : IsFilter(s, I, kept, Len(s)) /\ Filtered(s, I) = kept[Len(s)]
<1>1. Len(s) \in Nat
  OBVIOUS
<1>2. \E kept : IsFilter(s, I, kept, Len(s))
  BY <1>1, FilterExists
<1>. DEFINE chosen == CHOOSE kept : IsFilter(s, I, kept, Len(s))
<1>3. IsFilter(s, I, chosen, Len(s))
  BY <1>2
<1>4. Filtered(s, I) = chosen[Len(s)]
  BY DEF Filtered, IsFilter, Turn
<1>. QED
  BY <1>3, <1>4

\* from[k]: where the k-th element kept comes from.
Embeds(s, I, n, result, from) ==
    /\ from \in [1..Len(result) -> 1..n]
    /\ \A j, k \in 1..Len(result) : j < k => from[j] < from[k]
    /\ \A k \in 1..Len(result) : from[k] \in I /\ result[k] = s[from[k]]
    /\ \A i \in 1..n : i \in I => \E k \in 1..Len(result) : from[k] = i

LEMMA FilteredEmbeds ==
    ASSUME NEW S, NEW s \in Seq(S), NEW I
    PROVE  /\ Filtered(s, I) \in Seq(S)
           /\ \E from : Embeds(s, I, Len(s), Filtered(s, I), from)
<1>1. PICK kept : IsFilter(s, I, kept, Len(s)) /\ Filtered(s, I) = kept[Len(s)]
  BY FilteredByTurns
<1>. DEFINE Good(n) == kept[n] \in Seq(S) /\ \E from : Embeds(s, I, n, kept[n], from)
            T == {n \in Nat : n <= Len(s) => Good(n)}
<1>2. \A n \in 0..Len(s) : kept[n] = Turn(s, I, kept, n)
  BY <1>1 DEF IsFilter
<1>3. 0 \in T
  <2>1. kept[0] = <<>>
    BY <1>2 DEF Turn
  <2>2. Embeds(s, I, 0, <<>>, <<>>)
    BY DEF Embeds
  <2>3. Good(0)
    BY <2>1, <2>2
  <2>. QED
    BY <2>3
<1>4. ASSUME NEW n \in Nat, n \in T
      PROVE  n + 1 \in T
  <2>. SUFFICES ASSUME n + 1 <= Len(s) PROVE Good(n + 1)
    OBVIOUS
  <2>1. n \in 0..Len(s) /\ n + 1 \in 1..Len(s) /\ n + 1 \in 0..Len(s)
    OBVIOUS
  <2>2. kept[n] \in Seq(S)
    BY <1>4, <2>1
  <2>3. PICK from : Embeds(s, I, n, kept[n], from)
    BY <1>4, <2>1
  <2>. DEFINE old == kept[n]
              new == kept[n + 1]
  <2>4. CASE n + 1 \notin I
    <3>1. new = old
      BY <1>2, <2>1, <2>4 DEF Turn
    <3>2. Embeds(s, I, n + 1, old, from)
      BY <2>3, <2>4, <2>2 DEF Embeds
    <3>. QED
      BY <3>1, <3>2, <2>2
  <2>5. CASE n + 1 \in I
    <3>1. new = Append(old, s[n + 1])
      <4>1. n + 1 # 0 /\ (n + 1) - 1 = n
        OBVIOUS
      <4>2. new = Turn(s, I, kept, n + 1)
        BY <1>2, <2>1
      <4>. QED
        BY <4>1, <4>2, <2>5 DEF Turn
    <3>2. s[n + 1] \in S
      BY <2>1
    <3>3. /\ new \in Seq(S)
          /\ Len(new) = Len(old) + 1
          /\ \A k \in 1..Len(old) : new[k] = old[k]
          /\ new[Len(old) + 1] = s[n + 1]
      BY <3>1, <3>2, <2>2, AppendProperties
    <3>. DEFINE more == [k \in 1..Len(new) |-> IF k = Len(new) THEN n + 1 ELSE from[k]]
    <3>. HIDE DEF old, new
    <3>4. Len(old) \in Nat /\ from \in [1..Len(old) -> 1..n]
      BY <2>2, <2>3 DEF Embeds, old
    <3>5. /\ more \in [1..Len(new) -> 1..(n + 1)]
          /\ more[Len(new)] = n + 1
          /\ \A k \in 1..Len(old) : more[k] = from[k] /\ more[k] \in 1..n
      <4>1. Len(new) \in 1..Len(new)
        BY <3>3, <3>4
      <4>2. \A k \in 1..Len(old) : k \in 1..Len(new) /\ k # Len(new) /\ from[k] \in 1..n
        BY <3>3, <3>4
      <4>3. \A k \in 1..Len(new) : k # Len(new) => k \in 1..Len(old)
        BY <3>3, <3>4
      <4>4. \A k \in 1..Len(new) : more[k] \in 1..(n + 1)
        BY <4>2, <4>3
      <4>. QED
        BY <4>1, <4>2, <4>4
    <3>6. \A j, k \in 1..Len(new) : j < k => more[j] < more[k]
      <4>. SUFFICES ASSUME NEW j \in 1..Len(new), NEW k \in 1..Len(new), j < k
                    PROVE  more[j] < more[k]
        OBVIOUS
      <4>1. j \in 1..Len(old)
        BY <3>3, <3>4
      <4>2. CASE k = Len(new)
        <5>1. more[j] \in 1..n /\ more[k] = n + 1
          BY <4>1, <4>2, <3>5
        <5>. QED
          BY <5>1
      <4>3. CASE k # Len(new)
        <5>1. k \in 1..Len(old)
          BY <4>3, <3>3, <3>4
        <5>2. from[j] < from[k]
          BY <5>1, <4>1, <2>3 DEF Embeds, old
        <5>. QED
          BY <5>1, <5>2, <4>1, <3>5
      <4>. QED
        BY <4>2, <4>3
    <3>7. \A k \in 1..Len(new) : more[k] \in I /\ new[k] = s[more[k]]
      <4>. SUFFICES ASSUME NEW k \in 1..Len(new)
                    PROVE  more[k] \in I /\ new[k] = s[more[k]]
        OBVIOUS
      <4>1. CASE k = Len(new)
        BY <4>1, <3>3, <3>5, <2>5
      <4>2. CASE k # Len(new)
        <5>1. k \in 1..Len(old)
          BY <4>2, <3>3, <3>4
        <5>2. from[k] \in I /\ old[k] = s[from[k]]
          BY <5>1, <2>3 DEF Embeds, old
        <5>. QED
          BY <5>1, <5>2, <3>3, <3>5
      <4>. QED
        BY <4>1, <4>2
    <3>8. \A i \in 1..(n + 1) : i \in I => \E k \in 1..Len(new) : more[k] = i
      <4>. SUFFICES ASSUME NEW i \in 1..(n + 1), i \in I
                    PROVE  \E k \in 1..Len(new) : more[k] = i
        OBVIOUS
      <4>1. CASE i = n + 1
        BY <4>1, <3>5, <3>3, <3>4
      <4>2. CASE i # n + 1
        <5>1. PICK k \in 1..Len(old) : from[k] = i
          BY <4>2, <2>3 DEF Embeds, old
        <5>. QED
          BY <5>1, <3>3, <3>4, <3>5
      <4>. QED
        BY <4>1, <4>2
    <3>9. Embeds(s, I, n + 1, new, more)
      BY <3>5, <3>6, <3>7, <3>8 DEF Embeds
    <3>. QED
      BY <3>3, <3>9 DEF new
  <2>. QED
    BY <2>4, <2>5
<1>5. Len(s) \in T
  <2>. HIDE DEF T
  <2>. QED
    BY <1>3, <1>4, SetInduction
<1>. QED
  BY <1>5, <1>1

\* A filter that keeps everything changes nothing.
LEMMA FilteredAll ==
    ASSUME NEW S, NEW s \in Seq(S), NEW I, 1..Len(s) \subseteq I
    PROVE  Filtered(s, I) = s
<1>1. PICK kept : IsFilter(s, I, kept, Len(s)) /\ Filtered(s, I) = kept[Len(s)]
  BY FilteredByTurns
<1>. DEFINE Whole(n) == /\ kept[n] \in Seq(S)
                        /\ Len(kept[n]) = n
                        /\ \A k \in 1..n : kept[n][k] = s[k]
            T == {n \in Nat : n <= Len(s) => Whole(n)}
<1>2. \A n \in 0..Len(s) : kept[n] = Turn(s, I, kept, n)
  BY <1>1 DEF IsFilter
<1>3. 0 \in T
  <2>1. kept[0] = <<>>
    BY <1>2 DEF Turn
  <2>2. Whole(0)
    BY <2>1
  <2>. QED
    BY <2>2
<1>4. ASSUME NEW n \in Nat, n \in T
      PROVE  n + 1 \in T
  <2>. SUFFICES ASSUME n + 1 <= Len(s) PROVE Whole(n + 1)
    OBVIOUS
  <2>1. n \in 0..Len(s) /\ n + 1 \in 1..Len(s) /\ n + 1 \in 0..Len(s)
    OBVIOUS
  <2>2. Whole(n)
    BY <1>4, <2>1
  <2>3. n + 1 # 0 /\ (n + 1) - 1 = n /\ n + 1 \in I /\ s[n + 1] \in S
    BY <2>1
  <2>4. kept[n + 1] = Append(kept[n], s[n + 1])
    <3>1. kept[n + 1] = Turn(s, I, kept, n + 1)
      BY <1>2, <2>1
    <3>. QED
      BY <3>1, <2>3 DEF Turn
  <2>5. /\ kept[n + 1] \in Seq(S)
        /\ Len(kept[n + 1]) = n + 1
        /\ \A k \in 1..n : kept[n + 1][k] = kept[n][k]
        /\ kept[n + 1][n + 1] = s[n + 1]
    BY <2>2, <2>3, <2>4, AppendProperties
  <2>. QED
    BY <2>2, <2>5
<1>5. \A n \in Nat : n \in T
  <2>. HIDE DEF T
  <2>. QED
    BY <1>3, <1>4, SetInduction
<1>6. Whole(Len(s))
  BY <1>5
<1>. QED
  BY <1>6, <1>1, SeqEqual
===============================================================================
