--------------------------- MODULE DocumentProofs -----------------------------
(* An extraction finds what a document says where it says it, and parsers give it *)
(* the pages it has: the windows, candidates and rows of ExtractionPlan, and the  *)
(* pages of DocumentParsers, for every document.                                  *)
EXTENDS ExtractionPlan, DocumentParsers, FiltersProofs, FiniteSetTheorems

(* Windows, candidates and rows (extraction-windows.ts, extraction-enrichment.ts). *)

\* What windows are made of: fragments of pages, at least one.
Fragment == [page: Nat, from: Nat, to: Nat]
Window == Seq(Fragment) \ {<<>>}

\* Blocks that are joined, one and two.
LEMMA JoiningOne ==
    ASSUME NEW s \in Seq(Int), Len(s) = 1
    PROVE  Joining(s) = s[1]
<1>. DEFINE IsSum(f) == f = [n \in 1..Len(s) |->
                               IF n = 1 THEN s[1] ELSE f[n-1] + Separator + s[n]]
            sum == CHOOSE f : IsSum(f)
            lone == [n \in 1..1 |-> s[1]]
<1>1. IsSum(lone)
  OBVIOUS
<1>2. IsSum(sum)
  BY <1>1
<1>3. Joining(s) = sum[Len(s)]
  BY DEF Joining
<1>. HIDE DEF sum
<1>4. sum[1] = s[1]
  BY <1>2
<1>. QED
  BY <1>3, <1>4

\* Two blocks that are joined have a separator between them.
LEMMA JoiningTwo ==
    ASSUME NEW s \in Seq(Int), Len(s) = 2
    PROVE  Joining(s) = s[1] + Separator + s[2]
<1>. DEFINE IsSum(f) == f = [n \in 1..Len(s) |->
                               IF n = 1 THEN s[1] ELSE f[n-1] + Separator + s[n]]
            sum == CHOOSE f : IsSum(f)
            pair == [n \in 1..2 |-> IF n = 1 THEN s[1] ELSE s[1] + Separator + s[2]]
<1>1. IsSum(pair)
  <2>1. \A n \in 1..2 : n # 1 => n = 2 /\ n - 1 = 1
    OBVIOUS
  <2>. QED
    BY <2>1
<1>2. IsSum(sum)
  BY <1>1
<1>3. Joining(s) = sum[Len(s)]
  BY DEF Joining
<1>. HIDE DEF sum
<1>4. sum[1] = s[1] /\ sum[2] = sum[1] + Separator + s[2]
  BY <1>2
<1>. QED
  BY <1>3, <1>4

\* A block is a page and its marker.
LEMMA BlockType ==
    ASSUME Pages \in Seq(Nat), NEW i \in 1..Len(Pages)
    PROVE  Pages[i] \in Nat /\ Block(i) \in Nat /\ Block(i) = Marker + Pages[i]
  BY WindowAssumption DEF Block

\* What one page, and two pages that follow one another, take in a prompt.
LEMMA CharsOfOne ==
    ASSUME Pages \in Seq(Nat), NEW i \in 1..Len(Pages)
    PROVE  Chars(i, i) = Block(i)
<1>. DEFINE s == [n \in 1..(i - i + 1) |-> Block(i + n - 1)]
<1>1. s = [n \in 1..1 |-> Block(i + n - 1)] /\ \A n \in 1..1 : i + n - 1 = i
  OBVIOUS
<1>2. s \in Seq(Int) /\ Len(s) = 1 /\ s[1] = Block(i)
  BY <1>1, BlockType
<1>. HIDE DEF s
<1>3. Joining(s) = Block(i)
  BY <1>2, JoiningOne
<1>. QED
  BY <1>3 DEF Chars, s

\* Two pages that follow one another.
LEMMA CharsOfTwo ==
    ASSUME Pages \in Seq(Nat), NEW i \in 1..Len(Pages)-1
    PROVE  Chars(i, i + 1) = Block(i) + Separator + Block(i + 1)
<1>. DEFINE s == [n \in 1..(i + 1 - i + 1) |-> Block(i + n - 1)]
<1>1. s = [n \in 1..2 |-> Block(i + n - 1)]
  OBVIOUS
<1>2. \A n \in 1..2 : i + n - 1 \in 1..Len(Pages)
  OBVIOUS
<1>3. /\ s \in Seq(Int) /\ Len(s) = 2
      /\ s[1] = Block(i) /\ s[2] = Block(i + 1)
  <2>1. \A n \in 1..2 : Block(i + n - 1) \in Int
    BY <1>2, BlockType
  <2>2. i + 1 - 1 = i /\ i + 2 - 1 = i + 1
    OBVIOUS
  <2>3. s \in [1..2 -> Int]
    BY <1>1, <2>1
  <2>. QED
    BY <1>1, <2>2, <2>3
<1>. HIDE DEF s
<1>4. Joining(s) = Block(i) + Separator + Block(i + 1)
  BY <1>3, JoiningTwo
<1>. QED
  BY <1>4 DEF Chars, s
-------------------------------------------------------------------------------
\* A window has a last page.
LEMMA LastOfPage ==
    ASSUME Pages \in Seq(Nat), NEW i \in 1..Len(Pages)
    PROVE  /\ LastOf(i) \in i..Len(Pages)
           /\ \A k \in i+1..LastOf(i) : HasRoom(i, k)
           /\ LastOf(i) = Len(Pages) \/ ~HasRoom(i, LastOf(i) + 1)
<1>. DEFINE IsLast(j) == /\ \A k \in i+1..j : HasRoom(i, k)
                         /\ j = Len(Pages) \/ ~HasRoom(i, j + 1)
            outside == {k \in i+1..Len(Pages) : ~HasRoom(i, k)}
<1>1. \E j \in i..Len(Pages) : IsLast(j)
  <2>1. CASE outside = {}
    <3>1. Len(Pages) \in i..Len(Pages) /\ IsLast(Len(Pages))
      BY <2>1
    <3>. QED
      BY <3>1
  <2>2. CASE outside # {}
    <3>. HIDE DEF outside
    <3>0. outside \in SUBSET Nat
      BY DEF outside
    <3>1. PICK m \in outside : \A n \in outside : m <= n
      BY <3>0, <2>2, LeastOfSet
    <3>. USE DEF outside
    <3>2. m - 1 \in i..Len(Pages) /\ (m - 1) + 1 = m
      BY <3>1
    <3>3. \A k \in i+1..m-1 : HasRoom(i, k)
      <4>. SUFFICES ASSUME NEW k \in i+1..m-1, ~HasRoom(i, k) PROVE FALSE
        OBVIOUS
      <4>1. k \in outside /\ ~ (m <= k)
        BY <3>1
      <4>. QED
        BY <4>1, <3>1
    <3>4. ~HasRoom(i, m)
      BY <3>1
    <3>5. IsLast(m - 1)
      BY <3>2, <3>3, <3>4
    <3>. QED
      BY <3>2, <3>5
  <2>. QED
    BY <2>1, <2>2
<1>2. LastOf(i) \in i..Len(Pages) /\ IsLast(LastOf(i))
  <2>. HIDE DEF IsLast
  <2>1. LastOf(i) = CHOOSE j \in i..Len(Pages) : IsLast(j)
    BY DEF LastOf, IsLast
  <2>. QED
    BY <1>1, <2>1
<1>. QED
  BY <1>2

\* Fragments of b characters, one every s, reach the end of l and leave nothing out.
LEMMA DivideProperties ==
    ASSUME NEW x \in Nat, NEW s \in Nat \ {0}
    PROVE  /\ x \div s \in Nat
           /\ (x \div s) * s <= x /\ x < (x \div s) * s + s
  OBVIOUS

\* Products with one factor are ordered as the other.
LEMMA ProductOrder ==
    ASSUME NEW m \in Nat, NEW n \in Nat, NEW s \in Nat, m <= n
    PROVE  m * s \in Nat /\ n * s \in Nat /\ m * s <= n * s
  OBVIOUS

\* Fragments of b characters, one every s, leave no character of l out.
LEMMA FragmentsReach ==
    ASSUME NEW l \in Nat, NEW b \in Nat, NEW s \in Nat \ {0}, s <= b, l > b,
           NEW c \in 0..l-1
    PROVE  \E n \in 1..(1 + (l - b + s - 1) \div s) :
               /\ (n - 1) * s <= c
               /\ c + 1 <= (n - 1) * s + b
<1>. DEFINE q == (l - b + s - 1) \div s
            p == c \div s
<1>1. l - b + s - 1 \in Nat /\ c \in Nat
  OBVIOUS
<1>2. q \in Nat /\ q * s <= l - b + s - 1 /\ l - b + s - 1 < q * s + s
  BY <1>1, DivideProperties
<1>3. p \in Nat /\ p * s <= c /\ c < p * s + s
  BY <1>1, DivideProperties
<1>. HIDE DEF q, p
<1>4. p * s \in Nat /\ q * s \in Nat
  BY <1>2, <1>3, ProductOrder
<1>5. CASE p <= q
  <2>1. p + 1 \in 1..(1 + q) /\ (p + 1) - 1 = p
    BY <1>2, <1>3, <1>5
  <2>2. p * s <= c /\ c + 1 <= p * s + b
    BY <1>3, <1>4, <1>1
  <2>. QED
    BY <2>1, <2>2 DEF q
<1>6. CASE ~ (p <= q)
  <2>1. q + 1 \in 1..(1 + q) /\ (q + 1) - 1 = q
    BY <1>2
  <2>2. q * s <= p * s
    BY <1>2, <1>3, <1>6, ProductOrder
  <2>3. q * s <= c /\ c + 1 <= q * s + b
    BY <1>2, <1>3, <1>4, <1>1, <2>2
  <2>. QED
    BY <2>1, <2>3 DEF q
<1>. QED
  BY <1>5, <1>6
\* buildExtractionWindows: the fragments of a page that exceeds a prompt are windows
\* within the limits, and every character of the page is in one.
LEMMA FragmentWindows ==
    ASSUME Pages \in Seq(Nat), NEW i \in 1..Len(Pages), Block(i) > MaxChars
    PROVE  /\ Fragments(i) \in Seq(Window)
           /\ \A w \in 1..Len(Fragments(i)) : WithinLimits(Fragments(i)[w])
           /\ \A c \in 0..Pages[i]-1 : \E w \in 1..Len(Fragments(i)) :
                 /\ Len(Fragments(i)[w]) = 1
                 /\ Fragments(i)[w][1].page = i
                 /\ Fragments(i)[w][1].from <= c /\ c + 1 <= Fragments(i)[w][1].to
<1>. DEFINE b == MaxChars - Marker
            s == b - LongPageOverlap
            count == 1 + (Pages[i] - b + s - 1) \div s
            End(n) == IF (n-1) * s + b < Pages[i] THEN (n-1) * s + b ELSE Pages[i]
            Part(n) == [page |-> i, from |-> (n-1) * s, to |-> End(n)]
<1>1. /\ b \in Nat \ {0} /\ s \in Nat \ {0} /\ s <= b
      /\ Pages[i] \in Nat /\ Pages[i] > b /\ i \in Nat
      /\ Marker \in Nat /\ Marker + b = MaxChars /\ MaxPages \in Nat \ {0}
  BY WindowAssumption, BlockType
<1>2. Fragments(i) = [n \in 1..count |-> <<Part(n)>>]
  BY <1>1 DEF Fragments
<1>. HIDE DEF b, s
<1>3. count \in Nat \ {0}
  BY <1>1, DivideProperties
<1>. HIDE DEF count
<1>4. ASSUME NEW n \in 1..count
      PROVE  (n-1) * s \in Nat /\ End(n) \in Nat /\ End(n) <= (n-1) * s + b
  <2>1. (n-1) * s \in Nat
    BY <1>1, <1>3, ProductOrder
  <2>. QED
    BY <2>1, <1>1
<1>. HIDE DEF End
<1>5. \A n \in 1..count : Part(n) \in Fragment
  BY <1>1, <1>4 DEF Fragment
<1>6. /\ Fragments(i) \in Seq(Window) /\ Len(Fragments(i)) = count
      /\ \A n \in 1..count : Fragments(i)[n] = <<Part(n)>>
  <2>1. \A n \in 1..count : <<Part(n)>> \in Window
    BY <1>5 DEF Window
  <2>. HIDE DEF Part
  <2>2. [n \in 1..count |-> <<Part(n)>>] \in [1..count -> Window]
    BY <2>1
  <2>. QED
    BY <1>2, <1>3, <2>2
<1>7. ASSUME NEW n \in 1..count
      PROVE  WithinLimits(<<Part(n)>>)
  <2>. DEFINE lengths == [k \in 1..Len(<<Part(n)>>) |->
                            Marker + <<Part(n)>>[k].to - <<Part(n)>>[k].from]
  <2>1. lengths = [k \in 1..1 |-> Marker + End(n) - (n-1) * s]
    OBVIOUS
  <2>2. Marker + End(n) - (n-1) * s \in Int /\ Marker + End(n) - (n-1) * s <= MaxChars
    BY <1>1, <1>4
  <2>3. lengths \in Seq(Int) /\ Len(lengths) = 1 /\ lengths[1] = Marker + End(n) - (n-1) * s
    BY <2>1, <2>2
  <2>. HIDE DEF lengths
  <2>4. Joining(lengths) <= MaxChars
    BY <2>2, <2>3, JoiningOne
  <2>5. Len(<<Part(n)>>) = 1
    OBVIOUS
  <2>. QED
    BY <2>4, <2>5, <1>1 DEF WithinLimits, lengths
<1>8. ASSUME NEW c \in 0..Pages[i]-1
      PROVE  \E n \in 1..count : (n-1) * s <= c /\ c + 1 <= End(n)
  <2>1. PICK n \in 1..count : (n-1) * s <= c /\ c + 1 <= (n-1) * s + b
    BY <1>1, FragmentsReach DEF count
  <2>2. c + 1 <= Pages[i]
    BY <1>1
  <2>. QED
    BY <2>1, <2>2 DEF End
<1>9. ASSUME NEW c \in 0..Pages[i]-1
      PROVE  \E w \in 1..Len(Fragments(i)) :
                 /\ Len(Fragments(i)[w]) = 1
                 /\ Fragments(i)[w][1].page = i
                 /\ Fragments(i)[w][1].from <= c /\ c + 1 <= Fragments(i)[w][1].to
  <2>1. PICK n \in 1..count : (n-1) * s <= c /\ c + 1 <= End(n)
    BY <1>8
  <2>2. /\ Len(<<Part(n)>>) = 1 /\ <<Part(n)>>[1].page = i
        /\ <<Part(n)>>[1].from <= c /\ c + 1 <= <<Part(n)>>[1].to
    BY <2>1
  <2>. QED
    BY <1>6, <2>2
<1>. QED
  BY <1>6, <1>7, <1>9
-------------------------------------------------------------------------------
\* The window of whole pages that begins with page i.
WholeWindow(i) == [n \in 1..(LastOf(i) - i + 1) |-> Whole(i + n - 1)]

\* buildExtractionWindows: the window of whole pages has each page up to its last one,
\* and is within the limits.
LEMMA WholeWindowProperties ==
    ASSUME Pages \in Seq(Nat), NEW i \in 1..Len(Pages), ~ (Block(i) > MaxChars)
    PROVE  /\ WholeWindow(i) \in Window
           /\ Len(WholeWindow(i)) = LastOf(i) - i + 1
           /\ \A p \in i..LastOf(i) : WholeWindow(i)[p - i + 1] = Whole(p)
           /\ WithinLimits(WholeWindow(i))
<1>. DEFINE last == LastOf(i)
            size == last - i + 1
<1>1. /\ last \in i..Len(Pages)
      /\ \A k \in i+1..last : HasRoom(i, k)
  BY LastOfPage
<1>. HIDE DEF last
<1>2. size \in Nat \ {0} /\ \A n \in 1..size : i + n - 1 \in 1..Len(Pages)
  BY <1>1
<1>. HIDE DEF size
<1>3. WholeWindow(i) = [n \in 1..size |-> Whole(i + n - 1)]
  BY DEF WholeWindow, size, last
<1>4. \A n \in 1..size : Whole(i + n - 1) \in Fragment
  <2>. SUFFICES ASSUME NEW n \in 1..size PROVE Whole(i + n - 1) \in Fragment
    OBVIOUS
  <2>1. i + n - 1 \in 1..Len(Pages) /\ i + n - 1 \in Nat
    BY <1>2
  <2>2. Pages[i + n - 1] \in Nat
    BY <2>1, BlockType
  <2>. QED
    BY <2>1, <2>2 DEF Whole, Fragment
<1>5. WholeWindow(i) \in Seq(Fragment) /\ Len(WholeWindow(i)) = size
  <2>1. WholeWindow(i) \in [1..size -> Fragment]
    BY <1>3, <1>4
  <2>. QED
    BY <2>1, <1>2
<1>6. \A p \in i..last : WholeWindow(i)[p - i + 1] = Whole(p)
  <2>. SUFFICES ASSUME NEW p \in i..last PROVE WholeWindow(i)[p - i + 1] = Whole(p)
    OBVIOUS
  <2>1. p - i + 1 \in 1..size /\ i + (p - i + 1) - 1 = p
    BY <1>1 DEF size
  <2>. QED
    BY <2>1, <1>3
<1>7. size <= MaxPages
  <2>1. CASE last = i
    BY <2>1, WindowAssumption DEF size
  <2>2. CASE last # i
    <3>1. HasRoom(i, last)
      BY <1>1, <2>2
    <3>. QED
      BY <3>1, <1>1, WindowAssumption DEF HasRoom, size
  <2>. QED
    BY <2>1, <2>2
<1>8. Chars(i, last) <= MaxChars
  <2>1. CASE last = i
    BY <2>1, CharsOfOne, BlockType, WindowAssumption
  <2>2. CASE last # i
    BY <1>1, <2>2 DEF HasRoom
  <2>. QED
    BY <2>1, <2>2
<1>9. [n \in 1..Len(WholeWindow(i)) |-> Marker + WholeWindow(i)[n].to - WholeWindow(i)[n].from]
        = [n \in 1..size |-> Block(i + n - 1)]
  <2>1. ASSUME NEW n \in 1..size
        PROVE  Marker + WholeWindow(i)[n].to - WholeWindow(i)[n].from = Block(i + n - 1)
    <3>1. i + n - 1 \in 1..Len(Pages) /\ WholeWindow(i)[n] = Whole(i + n - 1)
      BY <1>2, <1>3
    <3>2. Pages[i + n - 1] \in Nat /\ Marker \in Nat
      BY <3>1, WindowAssumption
    <3>. QED
      BY <3>1, <3>2 DEF Whole, Block
  <2>. QED
    BY <2>1, <1>5
<1>10. WithinLimits(WholeWindow(i))
  BY <1>5, <1>7, <1>8, <1>9 DEF WithinLimits, Chars, size
<1>. QED
  BY <1>5, <1>6, <1>10, <1>2 DEF Window, size, last
-------------------------------------------------------------------------------
\* What dedupeRecommendations makes of what was found.
Found == [text: Text, start: Nat, end: Nat]

\* What is done of the pages before page c.
CoverBefore(c) ==
    /\ \A i \in 1..Len(Pages) : i < c => \A x \in 0..Pages[i]-1 : Covered(i, x)
    /\ \A i \in 1..Len(Pages)-1 : i < c => Neighbours(i)
    /\ \A w \in 1..Len(windows) : WithinLimits(windows[w])

\* Windows that are added take nothing away.
LEMMA CoverGrows ==
    ASSUME doc' = doc, windows \in Seq(Window), windows' \in Seq(Window),
           Len(windows) <= Len(windows'),
           \A w \in 1..Len(windows) : windows'[w] = windows[w]
    PROVE  /\ \A i, x : Covered(i, x) => Covered(i, x)'
           /\ \A i : Neighbours(i) => Neighbours(i)'
<1>0. \A w \in 1..Len(windows) : w \in 1..Len(windows')
  OBVIOUS
<1>1. ASSUME NEW i, NEW x, Covered(i, x)
      PROVE  Covered(i, x)'
  BY <1>0, <1>1 DEF Covered
<1>2. ASSUME NEW i, Neighbours(i)
      PROVE  Neighbours(i)'
  <2>1. Chars(i, i + 1)' = Chars(i, i + 1)
    BY DEF Chars, Block, Pages
  <2>. QED
    BY <1>0, <1>2, <2>1 DEF Neighbours, PagesOf
<1>. QED
  BY <1>1, <1>2

\* The turn with a page that exceeds a prompt.
LEMMA LongPageTurn ==
    ASSUME Pages \in Seq(Nat), windows \in Seq(Window), NEW p \in 1..Len(Pages),
           CoverBefore(p), doc' = doc, Block(p) > MaxChars,
           windows' = windows \o Fragments(p)
    PROVE  windows' \in Seq(Window) /\ CoverBefore(p + 1)'
<1>1. /\ Fragments(p) \in Seq(Window)
      /\ \A w \in 1..Len(Fragments(p)) : WithinLimits(Fragments(p)[w])
      /\ \A c \in 0..Pages[p]-1 : \E w \in 1..Len(Fragments(p)) :
            /\ Len(Fragments(p)[w]) = 1
            /\ Fragments(p)[w][1].page = p
            /\ Fragments(p)[w][1].from <= c /\ c + 1 <= Fragments(p)[w][1].to
  BY FragmentWindows
<1>. DEFINE more == Fragments(p)
<1>. HIDE DEF more
<1>2. /\ windows' \in Seq(Window)
      /\ Len(windows) \in Nat /\ Len(more) \in Nat
      /\ Len(windows') = Len(windows) + Len(more)
      /\ \A w \in 1..Len(windows) : windows'[w] = windows[w]
      /\ \A w \in 1..Len(more) :
            Len(windows) + w \in 1..Len(windows') /\ windows'[Len(windows) + w] = more[w]
  BY <1>1, ConcatProperties DEF more
<1>3. /\ \A i, x : Covered(i, x) => Covered(i, x)'
      /\ \A i : Neighbours(i) => Neighbours(i)'
  BY <1>2, CoverGrows
<1>4. Pages' = Pages
  BY DEF Pages
<1>5. \A w \in 1..Len(windows') : WithinLimits(windows'[w])
  <2>. SUFFICES ASSUME NEW w \in 1..Len(windows') PROVE WithinLimits(windows'[w])
    OBVIOUS
  <2>1. CASE w <= Len(windows)
    <3>1. w \in 1..Len(windows)
      BY <2>1, <1>2
    <3>. QED
      BY <3>1, <1>2 DEF CoverBefore
  <2>2. CASE ~ (w <= Len(windows))
    <3>1. w - Len(windows) \in 1..Len(more) /\ Len(windows) + (w - Len(windows)) = w
      BY <2>2, <1>2
    <3>. QED
      BY <3>1, <1>1, <1>2 DEF more
  <2>. QED
    BY <2>1, <2>2
<1>6. \A x \in 0..Pages[p]-1 : Covered(p, x)'
  <2>. SUFFICES ASSUME NEW x \in 0..Pages[p]-1 PROVE Covered(p, x)'
    OBVIOUS
  <2>1. PICK v \in 1..Len(more) :
            /\ Len(more[v]) = 1 /\ more[v][1].page = p
            /\ more[v][1].from <= x /\ x + 1 <= more[v][1].to
    BY <1>1 DEF more
  <2>2. PICK w \in 1..Len(windows') : windows'[w] = more[v]
    BY <1>2
  <2>3. 1 \in 1..MaxPages
    BY WindowAssumption
  <2>. QED
    <3>1. /\ 1 <= Len(windows'[w]) /\ windows'[w][1].page = p
          /\ windows'[w][1].from <= x /\ x + 1 <= windows'[w][1].to
      BY <2>1, <2>2
    <3>. QED
      BY <3>1, <2>2, <2>3 DEF Covered
<1>7. \A i \in 1..Len(Pages) : i < p + 1 => \A x \in 0..Pages[i]-1 : Covered(i, x)'
  <2>. SUFFICES ASSUME NEW i \in 1..Len(Pages), i < p + 1, NEW x \in 0..Pages[i]-1
                PROVE  Covered(i, x)'
    OBVIOUS
  <2>1. CASE i = p
    BY <2>1, <1>6
  <2>2. CASE i # p
    <3>1. i < p
      BY <2>2
    <3>2. Covered(i, x)
      BY <3>1 DEF CoverBefore
    <3>. QED
      BY <3>2, <1>3
  <2>. QED
    BY <2>1, <2>2
<1>8. \A i \in 1..Len(Pages)-1 : i < p + 1 => Neighbours(i)'
  <2>. SUFFICES ASSUME NEW i \in 1..Len(Pages)-1, i < p + 1
                PROVE  Neighbours(i)'
    OBVIOUS
  <2>1. CASE i = p
    <3>1. /\ Chars(i, i + 1) = Block(i) + Separator + Block(i + 1)
          /\ Block(i) \in Nat /\ Block(i + 1) \in Nat
      <4>1. i \in 1..Len(Pages) /\ i + 1 \in 1..Len(Pages)
        OBVIOUS
      <4>. QED
        BY <4>1, CharsOfTwo, BlockType
    <3>2. ~ (Chars(i, i + 1) <= MaxChars)
      BY <3>1, <2>1, WindowAssumption DEF Separator
    <3>3. Chars(i, i + 1)' = Chars(i, i + 1)
      BY DEF Chars, Block, Pages
    <3>. QED
      BY <3>2, <3>3 DEF Neighbours
  <2>2. CASE i # p
    <3>1. i < p
      BY <2>2
    <3>2. Neighbours(i)
      BY <3>1 DEF CoverBefore
    <3>. QED
      BY <3>2, <1>3
  <2>. QED
    BY <2>1, <2>2
<1>. QED
  BY <1>2, <1>4, <1>5, <1>7, <1>8 DEF CoverBefore

\* The turn with pages that fit into a prompt.
LEMMA WholePagesTurn ==
    ASSUME Pages \in Seq(Nat), windows \in Seq(Window), NEW p \in 1..Len(Pages),
           CoverBefore(p), doc' = doc, ~ (Block(p) > MaxChars),
           windows' = Append(windows, WholeWindow(p))
    PROVE  /\ windows' \in Seq(Window)
           /\ After(p, LastOf(p)) \in p+1..Len(Pages)+1
           /\ \A c \in Nat : c = After(p, LastOf(p)) => CoverBefore(c)'
<1>. DEFINE last == LastOf(p)
            more == WholeWindow(p)
            next == After(p, last)
<1>1. /\ last \in p..Len(Pages)
      /\ last = Len(Pages) \/ ~HasRoom(p, last + 1)
  BY LastOfPage
<1>2. /\ more \in Window
      /\ Len(more) = last - p + 1
      /\ \A q \in p..last : more[q - p + 1] = Whole(q)
      /\ WithinLimits(more)
  BY WholeWindowProperties
<1>3. /\ next \in p+1..last+1 /\ next \in p+1..Len(Pages)+1
      /\ last # Len(Pages) => next = p + 1 \/ next <= last + 1 - OverlapPages
  BY <1>1, WindowAssumption DEF After
<1>. HIDE DEF last, more, next
<1>4. /\ windows' \in Seq(Window)
      /\ Len(windows) \in Nat /\ Len(windows') = Len(windows) + 1
      /\ \A w \in 1..Len(windows) : windows'[w] = windows[w]
      /\ windows'[Len(windows) + 1] = more
  BY <1>2, AppendProperties DEF more
<1>5. /\ \A i, x : Covered(i, x) => Covered(i, x)'
      /\ \A i : Neighbours(i) => Neighbours(i)'
  BY <1>4, CoverGrows
<1>6. Pages' = Pages
  BY DEF Pages
<1>7. \A w \in 1..Len(windows') : WithinLimits(windows'[w])
  <2>. SUFFICES ASSUME NEW w \in 1..Len(windows') PROVE WithinLimits(windows'[w])
    OBVIOUS
  <2>1. CASE w = Len(windows) + 1
    BY <2>1, <1>2, <1>4
  <2>2. CASE w # Len(windows) + 1
    <3>1. w \in 1..Len(windows)
      BY <2>2, <1>4
    <3>. QED
      BY <3>1, <1>4 DEF CoverBefore
  <2>. QED
    BY <2>1, <2>2
<1>8. ASSUME NEW q \in p..last
      PROVE  /\ q - p + 1 \in 1..Len(more) /\ q - p + 1 \in 1..MaxPages
             /\ more[q - p + 1] = Whole(q)
             /\ Len(windows) + 1 \in 1..Len(windows')
             /\ Pages[q] \in Nat
  <2>1. Len(more) <= MaxPages /\ q \in 1..Len(Pages)
    BY <1>1, <1>2 DEF WithinLimits
  <2>. QED
    BY SMTT(40), <2>1, <1>1, <1>2, <1>4, WindowAssumption
<1>9. ASSUME NEW q \in p..last, NEW x \in 0..Pages[q]-1
      PROVE  Covered(q, x)'
  <2>1. Pages[q] \in Nat
    BY <1>8
  <2>2. 0 <= x /\ x + 1 <= Pages[q]
    BY <2>1
  <2>3. Whole(q).page = q /\ Whole(q).from <= x /\ x + 1 <= Whole(q).to
    BY <2>2 DEF Whole
  <2>. DEFINE w == Len(windows) + 1
              n == q - p + 1
  <2>4. w \in 1..Len(windows') /\ n \in 1..MaxPages /\ windows'[w] = more
    BY <1>8, <1>4
  <2>5. n <= Len(windows'[w]) /\ windows'[w][n] = Whole(q)
    BY <1>8, <2>4
  <2>. HIDE DEF w, n
  <2>. QED
    BY <2>3, <2>4, <2>5 DEF Covered
<1>10. ASSUME NEW q \in p..last, q + 1 \in p..last
       PROVE  Neighbours(q)'
  <2>1. Whole(q).page = q /\ Whole(q + 1).page = q + 1
    BY DEF Whole
  <2>2. {q, q + 1} \subseteq PagesOf(more)
    BY <2>1, <1>8, <1>10 DEF PagesOf
  <2>. QED
    BY <2>2, <1>8, <1>4 DEF Neighbours
<1>11. ASSUME NEW c \in Nat, c = next
       PROVE  CoverBefore(c)'
  <2>1. \A i \in 1..Len(Pages) : i < c => \A x \in 0..Pages[i]-1 : Covered(i, x)'
    <3>. SUFFICES ASSUME NEW i \in 1..Len(Pages), i < c, NEW x \in 0..Pages[i]-1
                  PROVE  Covered(i, x)'
      OBVIOUS
    <3>1. CASE i < p
      BY <3>1, <1>5 DEF CoverBefore
    <3>2. CASE ~ (i < p)
      <4>1. i \in p..last
        BY <3>2, <1>1, <1>3, <1>11
      <4>. QED
        BY <4>1, <1>9
    <3>. QED
      BY <3>1, <3>2
  <2>2. \A i \in 1..Len(Pages)-1 : i < c => Neighbours(i)'
    <3>. SUFFICES ASSUME NEW i \in 1..Len(Pages)-1, i < c
                  PROVE  Neighbours(i)'
      OBVIOUS
    <3>1. CASE i < p
      BY <3>1, <1>5 DEF CoverBefore
    <3>2. CASE ~ (i < p) /\ i + 1 <= last
      <4>1. i \in p..last /\ i + 1 \in p..last
        BY <3>2, <1>1
      <4>. QED
        BY <4>1, <1>10
    <3>3. CASE ~ (i < p) /\ ~ (i + 1 <= last)
      <4>1. i = last /\ last # Len(Pages)
        BY <3>3, <1>1, <1>3, <1>11
      <4>2. CASE OverlapPages > 0
        <5>1. i = p /\ last = p
          BY <4>1, <4>2, <1>1, <1>3, <1>11, WindowAssumption
        <5>2. ~HasRoom(p, p + 1) /\ (p + 1) - p < MaxPages
          BY <5>1, <4>1, <4>2, <1>1, WindowAssumption
        <5>3. ~ (Chars(i, i + 1) <= MaxChars)
          BY <5>1, <5>2 DEF HasRoom
        <5>4. Chars(i, i + 1)' = Chars(i, i + 1)
          BY DEF Chars, Block, Pages
        <5>. QED
          BY <5>3, <5>4 DEF Neighbours
      <4>3. CASE ~ (OverlapPages > 0)
        BY <4>3 DEF Neighbours
      <4>. QED
        BY <4>2, <4>3
    <3>. QED
      BY <3>1, <3>2, <3>3
  <2>. QED
    BY <2>1, <2>2, <1>6, <1>7 DEF CoverBefore
<1>. QED
  BY <1>3, <1>4, <1>11 DEF next, last
-------------------------------------------------------------------------------
\* A span of pages is of none, or goes from one of these pages to a later one.
IsSpan(span, pages) ==
    /\ span \in Nat \X Nat
    /\ \/ span[1] = Null /\ span[2] = Null
       \/ /\ span[1] # Null /\ span[2] # Null
          /\ span[1] <= span[2] /\ {span[1], span[2]} \subseteq pages

\* The pages of a window have a least one.
LEMMA MinOfPages ==
    ASSUME NEW w \in Window
    PROVE  PagesOf(w) \in SUBSET Nat /\ Min(PagesOf(w)) \in PagesOf(w)
<1>1. Len(w) \in Nat \ {0} /\ \A i \in 1..Len(w) : w[i].page \in Nat
  <2>1. w \in Seq(Fragment) /\ w # <<>>
    BY DEF Window
  <2>2. Len(w) \in Nat \ {0} /\ \A i \in 1..Len(w) : w[i] \in Fragment
    BY <2>1, EmptySeq
  <2>. QED
    BY <2>2 DEF Fragment
<1>2. PagesOf(w) \in SUBSET Nat /\ PagesOf(w) # {}
  <2>1. w[1].page \in PagesOf(w)
    BY <1>1 DEF PagesOf
  <2>. QED
    BY <2>1, <1>1 DEF PagesOf
<1>. HIDE DEF PagesOf
<1>3. \E m \in PagesOf(w) : \A n \in PagesOf(w) : m <= n
  BY <1>2, LeastOfSet
<1>. QED
  BY <1>2, <1>3 DEF Min

\* applyWindowProvenance: whatever the model said, the anchors are of pages of the
\* window.
LEMMA AnchoredIsSpan ==
    ASSUME NEW w \in Window, NEW a, NEW b
    PROVE  IsSpan(Anchored(w, a, b), PagesOf(w))
<1>. DEFINE s == IF a \in PagesOf(w) THEN a ELSE Null
            e == IF b \in PagesOf(w) THEN b ELSE Null
            only == IF Cardinality(PagesOf(w)) = 1 THEN Min(PagesOf(w)) ELSE Null
            from == IF s # Null THEN s ELSE IF only # Null THEN only ELSE e
            to == IF e # Null THEN e ELSE IF only # Null THEN only ELSE s
<1>1. /\ s \in PagesOf(w) \cup {Null} /\ e \in PagesOf(w) \cup {Null}
      /\ only \in PagesOf(w) \cup {Null}
      /\ PagesOf(w) \in SUBSET Nat
  BY MinOfPages
<1>2. Anchored(w, a, b) = IF from > to THEN <<to, from>> ELSE <<from, to>>
  BY DEF Anchored
<1>. HIDE DEF s, e, only
<1>3. /\ from \in PagesOf(w) \cup {Null} /\ to \in PagesOf(w) \cup {Null}
      /\ from = Null <=> to = Null
  BY <1>1
<1>. HIDE DEF from, to
<1>4. from \in Nat /\ to \in Nat
  BY <1>1, <1>3 DEF Null
<1>. QED
  BY <1>2, <1>3, <1>4 DEF IsSpan

\* pageMin and pageMax: two spans make a span of the pages of both.
LEMMA SpanningIsSpan ==
    ASSUME NEW P, NEW Q, NEW a, NEW b, IsSpan(a, P), IsSpan(b, Q)
    PROVE  IsSpan(Spanning(a, b), P \cup Q)
<1>1. CASE a[1] = Null \/ b[1] = Null
  BY <1>1 DEF IsSpan, Spanning
<1>2. CASE a[1] # Null /\ b[1] # Null
  <2>1. /\ a[1] \in Nat /\ a[2] \in Nat /\ b[1] \in Nat /\ b[2] \in Nat
        /\ a[1] <= a[2] /\ b[1] <= b[2]
        /\ a[2] # Null /\ b[2] # Null
        /\ a[1] \in P /\ a[2] \in P /\ b[1] \in Q /\ b[2] \in Q
    BY <1>2 DEF IsSpan
  <2>2. PICK m : m = Min({a[1], b[1]}) /\ m \in {a[1], b[1]} /\ m <= a[1] /\ m <= b[1]
    <3>1. \E x \in {a[1], b[1]} : \A y \in {a[1], b[1]} : x <= y
      BY <2>1
    <3>. QED
      BY <3>1 DEF Min
  <2>3. PICK n : n = Max({a[2], b[2]}) /\ n \in {a[2], b[2]} /\ n >= a[2] /\ n >= b[2]
    <3>1. \E x \in {a[2], b[2]} : \A y \in {a[2], b[2]} : x >= y
      BY <2>1
    <3>. QED
      BY <3>1 DEF Max
  <2>4. Spanning(a, b) = <<m, n>>
    BY <1>2, <2>2, <2>3 DEF Spanning
  <2>5. m \in Nat /\ n \in Nat /\ m # Null /\ n # Null /\ m <= n /\ m \in P \cup Q /\ n \in P \cup Q
    BY <1>2, <2>1, <2>2, <2>3
  <2>. QED
    BY <2>4, <2>5 DEF IsSpan
<1>. QED
  BY <1>1, <1>2

\* Every candidate has a text of its own.
TextsDiffer(list) == \A i, j \in 1..Len(list) : list[i].text = list[j].text => i = j

\* Of which pages a candidate with this text was reported.
ReportedPages(text) == UNION {PagesOf(windows[r[1]]) : r \in reports[text]}

\* The anchors of a candidate.
SpanOf(f) == <<f.start, f.end>>

\* What merging leaves of a candidate, and what it makes of a report.
LEMMA MergedProperties ==
    ASSUME NEW list \in Seq(Found), TextsDiffer(list), NEW text \in Text,
           NEW span \in Nat \X Nat,
           \A i \in 1..Len(list) : Spanning(SpanOf(list[i]), span) \in Nat \X Nat
    PROVE  /\ Merged(list, text, span) \in Seq(Found)
           /\ TextsDiffer(Merged(list, text, span))
           /\ Len(list) <= Len(Merged(list, text, span))
           /\ \A i \in 1..Len(Merged(list, text, span)) :
                LET f == Merged(list, text, span)[i] IN
                \/ i \in 1..Len(list) /\ f = list[i] /\ f.text # text
                \/ f.text = text /\ SpanOf(f) = span
                \/ /\ i \in 1..Len(list) /\ list[i].text = text
                   /\ f.text = text /\ SpanOf(f) = Spanning(SpanOf(list[i]), span)
<1>. DEFINE new == Merged(list, text, span)
<1>0. Len(list) \in Nat /\ \A i \in 1..Len(list) : list[i] \in Found
  OBVIOUS
<1>1. CASE \E i \in 1..Len(list) : list[i].text = text
  <2>. DEFINE Wide(i) == [text |-> text, start |-> Spanning(SpanOf(list[i]), span)[1],
                          end |-> Spanning(SpanOf(list[i]), span)[2]]
  <2>1. new = [i \in 1..Len(list) |-> IF list[i].text # text THEN list[i] ELSE Wide(i)]
    BY <1>1 DEF Merged, SpanOf
  <2>2. ASSUME NEW i \in 1..Len(list)
        PROVE  /\ Wide(i) \in Found /\ Wide(i).text = text
               /\ SpanOf(Wide(i)) = Spanning(SpanOf(list[i]), span)
    <3>. DEFINE s == Spanning(SpanOf(list[i]), span)
    <3>1. s \in Nat \X Nat
      BY <1>0
    <3>. HIDE DEF s
    <3>2. s[1] \in Nat /\ s[2] \in Nat /\ s = <<s[1], s[2]>>
      BY <3>1
    <3>. QED
      BY <3>2 DEF Found, SpanOf, s
  <2>. HIDE DEF Wide
  <2>3. /\ new \in Seq(Found) /\ Len(new) = Len(list)
        /\ \A i \in 1..Len(list) :
              new[i] = IF list[i].text # text THEN list[i] ELSE Wide(i)
    <3>1. new \in [1..Len(list) -> Found]
      BY <2>1, <2>2, <1>0
    <3>2. new \in Seq(Found) /\ Len(new) = Len(list)
      BY ONLY <3>1, <1>0, SeqOfFunction
    <3>. QED
      BY <3>2, <2>1
  <2>4. \A i \in 1..Len(list) : new[i].text = list[i].text
    BY <2>2, <2>3
  <2>. HIDE DEF new
  <2>5. TextsDiffer(new)
    BY <2>3, <2>4 DEF TextsDiffer
  <2>6. \A i \in 1..Len(new) :
            \/ i \in 1..Len(list) /\ new[i] = list[i] /\ new[i].text # text
            \/ /\ i \in 1..Len(list) /\ list[i].text = text
               /\ new[i].text = text /\ SpanOf(new[i]) = Spanning(SpanOf(list[i]), span)
    BY <2>2, <2>3
  <2>. QED
    BY <2>3, <2>5, <2>6, <1>0 DEF new
<1>2. CASE ~ \E i \in 1..Len(list) : list[i].text = text
  <2>. DEFINE last == [text |-> text, start |-> span[1], end |-> span[2]]
  <2>1. new = Append(list, last)
    BY <1>2 DEF Merged
  <2>2. /\ last \in Found /\ last.text = text /\ SpanOf(last) = span
    <3>1. span[1] \in Nat /\ span[2] \in Nat /\ span = <<span[1], span[2]>>
      OBVIOUS
    <3>. QED
      BY <3>1 DEF Found, SpanOf
  <2>. HIDE DEF last
  <2>3. /\ new \in Seq(Found) /\ Len(new) = Len(list) + 1
        /\ \A i \in 1..Len(list) : new[i] = list[i]
        /\ new[Len(list) + 1] = last
    BY <2>1, <2>2, AppendProperties
  <2>. HIDE DEF new
  <2>4. \A i \in 1..Len(new) : i # Len(list) + 1 => i \in 1..Len(list)
    BY <2>3, <1>0
  <2>5. TextsDiffer(new)
    BY <2>2, <2>3, <2>4, <1>2 DEF TextsDiffer
  <2>6. \A i \in 1..Len(new) :
            \/ i \in 1..Len(list) /\ new[i] = list[i] /\ new[i].text # text
            \/ new[i].text = text /\ SpanOf(new[i]) = span
    BY <2>2, <2>3, <2>4, <1>2
  <2>. QED
    BY <2>3, <2>5, <2>6, <1>0 DEF new
<1>. QED
  BY <1>1, <1>2
-------------------------------------------------------------------------------
\* What filtering leaves is what was there and fits, each where it was.
LEMMA DistinctProperties ==
    ASSUME NEW S, NEW s \in Seq(S)
    PROVE  /\ Distinct(s) \in Seq(S)
           /\ \A m, n \in 1..Len(Distinct(s)) : Distinct(s)[m] = Distinct(s)[n] => m = n
           /\ \A n \in 1..Len(Distinct(s)) : \E i \in 1..Len(s) : Distinct(s)[n] = s[i]
           /\ \A i \in 1..Len(s) : \E n \in 1..Len(Distinct(s)) : Distinct(s)[n] = s[i]
<1>. DEFINE I == {i \in 1..Len(s) : \A j \in 1..i-1 : s[j] # s[i]}
            d == Distinct(s)
<1>1. d = Filtered(s, I)
  BY DEF Distinct
<1>2. d \in Seq(S) /\ \E from : Embeds(s, I, Len(s), d, from)
  BY <1>1, FilteredEmbeds
<1>3. PICK from : Embeds(s, I, Len(s), d, from)
  BY <1>2
<1>. HIDE DEF d, I
<1>4. /\ from \in [1..Len(d) -> 1..Len(s)]
      /\ \A j, k \in 1..Len(d) : j < k => from[j] < from[k]
      /\ \A k \in 1..Len(d) : from[k] \in I /\ d[k] = s[from[k]]
      /\ \A i \in 1..Len(s) : i \in I => \E k \in 1..Len(d) : from[k] = i
  BY <1>3 DEF Embeds
<1>5. \A i \in I : \A j \in 1..i-1 : s[j] # s[i]
  BY DEF I
<1>6. \A m, n \in 1..Len(d) : m < n => d[m] # d[n]
  <2>. SUFFICES ASSUME NEW m \in 1..Len(d), NEW n \in 1..Len(d), m < n
                PROVE  d[m] # d[n]
    OBVIOUS
  <2>1. from[m] \in 1..from[n]-1
    BY <1>4
  <2>. QED
    BY SMTT(40), <2>1, <1>4, <1>5
<1>7. \A m, n \in 1..Len(d) : d[m] = d[n] => m = n
  <2>1. \A m, n \in 1..Len(d) : m = n \/ m < n \/ n < m
    BY <1>2
  <2>. QED
    BY <2>1, <1>6
<1>8. ASSUME NEW i \in 1..Len(s)
      PROVE  \E n \in 1..Len(d) : d[n] = s[i]
  <2>. DEFINE same == {j \in 1..Len(s) : s[j] = s[i]}
  <2>1. same \in SUBSET Nat /\ same # {}
    OBVIOUS
  <2>. HIDE DEF same
  <2>2. PICK j \in same : \A k \in same : j <= k
    BY <2>1, LeastOfSet
  <2>3. j \in 1..Len(s) /\ s[j] = s[i]
    BY DEF same
  <2>4. \A k \in 1..j-1 : s[k] # s[j]
    <3>. SUFFICES ASSUME NEW k \in 1..j-1, s[k] = s[j] PROVE FALSE
      OBVIOUS
    <3>1. k \in same /\ ~ (j <= k)
      BY <2>3 DEF same
    <3>. QED
      BY <3>1, <2>2
  <2>5. j \in I
    BY <2>3, <2>4 DEF I
  <2>. QED
    BY <2>5, <2>3, <1>4
<1>. QED
  BY <1>2, <1>4, <1>7, <1>8 DEF d

\* Making unique what is unique changes nothing.
LEMMA DistinctOfDistinct ==
    ASSUME NEW S, NEW s \in Seq(S), \A m, n \in 1..Len(s) : s[m] = s[n] => m = n
    PROVE  Distinct(s) = s
<1>. DEFINE I == {i \in 1..Len(s) : \A j \in 1..i-1 : s[j] # s[i]}
<1>1. 1..Len(s) \subseteq I
  <2>. SUFFICES ASSUME NEW i \in 1..Len(s), NEW j \in 1..i-1 PROVE s[j] # s[i]
    OBVIOUS
  <2>1. j \in 1..Len(s) /\ j # i
    OBVIOUS
  <2>. QED
    BY <2>1
<1>. QED
  BY <1>1, FilteredAll DEF Distinct

\* Dropping blank slugs leaves the others, each where it was.
LEMMA NonBlankProperties ==
    ASSUME NEW S, NEW s \in Seq(S)
    PROVE  /\ NonBlank(s) \in Seq(S)
           /\ \A n \in 1..Len(NonBlank(s)) :
                \E i \in 1..Len(s) : NonBlank(s)[n] = s[i] /\ s[i] # NoSlug
           /\ \A i \in 1..Len(s) :
                s[i] # NoSlug => \E n \in 1..Len(NonBlank(s)) : NonBlank(s)[n] = s[i]
<1>. DEFINE I == {i \in 1..Len(s) : s[i] # NoSlug}
            d == NonBlank(s)
<1>1. d = Filtered(s, I)
  BY DEF NonBlank
<1>2. d \in Seq(S) /\ \E from : Embeds(s, I, Len(s), d, from)
  BY <1>1, FilteredEmbeds
<1>3. PICK from : Embeds(s, I, Len(s), d, from)
  BY <1>2
<1>4. \A n \in 1..Len(d) : from[n] \in 1..Len(s) /\ from[n] \in I /\ d[n] = s[from[n]]
  BY <1>3 DEF Embeds
<1>5. \A i \in 1..Len(s) : i \in I => \E n \in 1..Len(d) : d[n] = s[i]
  BY <1>3 DEF Embeds
<1>6. /\ \A n \in 1..Len(d) : \E i \in 1..Len(s) : d[n] = s[i] /\ s[i] # NoSlug
      /\ \A i \in 1..Len(s) : s[i] # NoSlug => \E n \in 1..Len(d) : d[n] = s[i]
  <2>. HIDE DEF d
  <2>. QED
    BY <1>4, <1>5
<1>. HIDE DEF I
<1>. QED
  BY <1>2, <1>6

\* Where no slug is blank none is dropped.
LEMMA NonBlankOfNonBlank ==
    ASSUME NEW S, NEW s \in Seq(S), \A i \in 1..Len(s) : s[i] # NoSlug
    PROVE  NonBlank(s) = s
  BY FilteredAll DEF NonBlank
-------------------------------------------------------------------------------
\* What slugs are normalised to, and what classifications are made of.
Ids == {Normal[x] : x \in DOMAIN Normal}

ClassesTyped ==
    /\ candidates \in Seq(Found)
    /\ \A i \in DOMAIN enriched : enriched[i].class \in Classes

\* A priority is a raw slug, or there is none.
LEMMA ClassType ==
    ASSUME ClassesTyped, NEW i
    PROVE  ClassOf(i).priority \in DOMAIN Normal \cup {NoSlug}
<1>1. \A class \in Classes : class.priority \in DOMAIN Normal \cup {NoSlug}
  BY TextAssumption DEF NoSlug
<1>. QED
  BY <1>1 DEF ClassOf, ClassesTyped, Unclassified

\* What the unique raw slugs are.
LEMMA RawProperties ==
    ASSUME ClassesTyped
    PROVE  /\ Distinct(Raw) \in Seq(DOMAIN Normal)
           /\ \A m, n \in 1..Len(Distinct(Raw)) : Distinct(Raw)[m] = Distinct(Raw)[n] => m = n
           /\ \A n \in 1..Len(Distinct(Raw)) : \E i \in 1..Len(candidates) :
                 Distinct(Raw)[n] = ClassOf(i).priority /\ ClassOf(i).priority # NoSlug
           /\ \A i \in 1..Len(candidates) : ClassOf(i).priority # NoSlug =>
                 \E n \in 1..Len(Distinct(Raw)) : Distinct(Raw)[n] = ClassOf(i).priority
<1>. DEFINE S == DOMAIN Normal \cup {NoSlug}
            all == [j \in 1..Len(candidates) |-> ClassOf(j).priority]
            d == Distinct(Raw)
<1>1. Len(candidates) \in Nat
  BY DEF ClassesTyped
<1>2. all \in Seq(S) /\ Len(all) = Len(candidates)
  <2>1. all \in [1..Len(candidates) -> S]
    BY ClassType
  <2>. HIDE DEF all
  <2>. QED
    BY ONLY <1>1, <2>1, SeqOfFunction
<1>3. \A j \in 1..Len(candidates) : all[j] = ClassOf(j).priority
  OBVIOUS
<1>4. Raw = NonBlank(all)
  BY DEF Raw
<1>. HIDE DEF all
<1>5. /\ Raw \in Seq(S)
      /\ \A n \in 1..Len(Raw) : \E i \in 1..Len(all) : Raw[n] = all[i] /\ all[i] # NoSlug
      /\ \A i \in 1..Len(all) : all[i] # NoSlug => \E n \in 1..Len(Raw) : Raw[n] = all[i]
  BY <1>2, <1>4, NonBlankProperties
<1>6. /\ d \in Seq(S)
      /\ \A m, n \in 1..Len(d) : d[m] = d[n] => m = n
      /\ \A n \in 1..Len(d) : \E i \in 1..Len(Raw) : d[n] = Raw[i]
      /\ \A i \in 1..Len(Raw) : \E n \in 1..Len(d) : d[n] = Raw[i]
  BY <1>5, DistinctProperties
<1>. HIDE DEF d
<1>7. \A n \in 1..Len(d) : \E i \in 1..Len(candidates) :
          d[n] = ClassOf(i).priority /\ ClassOf(i).priority # NoSlug
  BY SMTT(40), <1>2, <1>3, <1>5, <1>6
<1>8. \A i \in 1..Len(candidates) : ClassOf(i).priority # NoSlug =>
          \E n \in 1..Len(d) : d[n] = ClassOf(i).priority
  BY <1>2, <1>3, <1>5, <1>6
<1>9. d \in Seq(DOMAIN Normal)
  <2>1. \A n \in 1..Len(d) : d[n] \in DOMAIN Normal
    BY <1>7, ClassType
  <2>. QED
    BY SMTT(40), <2>1, <1>6
<1>. QED
  BY <1>6, <1>7, <1>8, <1>9 DEF d

\* Raw slugs are normalised one by one.
LEMMA NormalsOf ==
    ASSUME NEW raw \in Seq(DOMAIN Normal)
    PROVE  /\ [i \in 1..Len(raw) |-> Normal[raw[i]]] \in Seq(Ids)
           /\ Len([i \in 1..Len(raw) |-> Normal[raw[i]]]) = Len(raw)
<1>. DEFINE m == [i \in 1..Len(raw) |-> Normal[raw[i]]]
<1>1. Len(raw) \in Nat /\ \A i \in 1..Len(raw) : raw[i] \in DOMAIN Normal
  OBVIOUS
<1>2. m \in [1..Len(raw) -> Ids]
  BY <1>1 DEF Ids
<1>. HIDE DEF m
<1>3. m \in Seq(Ids) /\ Len(m) = Len(raw)
  BY ONLY <1>1, <1>2, SeqOfFunction
<1>. QED
  BY <1>3 DEF m

\* The priority of a row is an id, or none ...
LEMMA PriorityType ==
    ASSUME ClassesTyped, NEW i \in 1..Len(candidates)
    PROVE  Priority(i) \in Ids \cup {NoSlug}
<1>. DEFINE raw == Distinct(Raw)
            slug == ClassOf(i).priority
            ids == ResolvedIds(raw)
            m == [k \in 1..Len(raw) |-> Normal[raw[k]]]
            at == CHOOSE j \in 1..Len(raw) : raw[j] = slug
<1>1. raw \in Seq(DOMAIN Normal)
  BY RawProperties
<1>2. m \in Seq(Ids)
  BY <1>1, NormalsOf
<1>3. ids \in Seq(Ids)
  <2>. HIDE DEF m, raw
  <2>1. Distinct(m) \in Seq(Ids)
    BY <1>2, DistinctProperties
  <2>2. NonBlank(Distinct(m)) \in Seq(Ids)
    BY <2>1, NonBlankProperties
  <2>. QED
    BY <2>2 DEF ResolvedIds, m
<1>4. slug # NoSlug => at \in 1..Len(raw)
  <2>1. slug # NoSlug => \E j \in 1..Len(raw) : raw[j] = slug
    BY RawProperties
  <2>. HIDE DEF raw, slug
  <2>. QED
    BY <2>1
<1>5. Priority(i) = IF slug = NoSlug THEN NoSlug
                    ELSE IF at <= Len(ids) THEN ids[at] ELSE NoSlug
  BY DEF Priority, PriorityIn
<1>. HIDE DEF raw, slug, ids, at
<1>6. slug # NoSlug /\ at <= Len(ids) => ids[at] \in Ids
  <2>. SUFFICES ASSUME slug # NoSlug, at <= Len(ids) PROVE ids[at] \in Ids
    OBVIOUS
  <2>1. at \in 1..Len(ids)
    BY <1>1, <1>3, <1>4
  <2>. QED
    BY <2>1, <1>3
<1>. QED
  BY <1>5, <1>6

\* ... namely that of its own slug, if no spelling shifts the others.
LEMMA PriorityIsOwn ==
    ASSUME ClassesTyped, NEW i \in 1..Len(candidates), ClassOf(i).priority # NoSlug,
           \A j, k \in 1..Len(candidates) :
              LET s == ClassOf(j).priority
                  t == ClassOf(k).priority
              IN s # NoSlug /\ t # NoSlug =>
                    Normal[s] # NoSlug /\ (Normal[s] = Normal[t] => s = t)
    PROVE  Priority(i) = Normal[ClassOf(i).priority]
<1>. DEFINE raw == Distinct(Raw)
            slug == ClassOf(i).priority
            ids == ResolvedIds(raw)
            m == [k \in 1..Len(raw) |-> Normal[raw[k]]]
            at == CHOOSE j \in 1..Len(raw) : raw[j] = slug
<1>1. /\ raw \in Seq(DOMAIN Normal)
      /\ \A k, n \in 1..Len(raw) : raw[k] = raw[n] => k = n
      /\ \A n \in 1..Len(raw) : \E j \in 1..Len(candidates) :
            raw[n] = ClassOf(j).priority /\ ClassOf(j).priority # NoSlug
  BY RawProperties
<1>2. m \in Seq(Ids) /\ Len(m) = Len(raw)
  BY <1>1, NormalsOf
<1>3. \A n \in 1..Len(raw) : m[n] = Normal[raw[n]]
  OBVIOUS
<1>4. at \in 1..Len(raw) /\ raw[at] = slug
  <2>1. \E j \in 1..Len(raw) : raw[j] = slug
    BY RawProperties
  <2>. HIDE DEF raw, slug
  <2>. QED
    BY <2>1
<1>5. ids = NonBlank(Distinct(m))
  BY DEF ResolvedIds
<1>6. Priority(i) = IF at <= Len(ids) THEN ids[at] ELSE NoSlug
  BY DEF Priority, PriorityIn
<1>. HIDE DEF raw, m, ids, at
<1>7. \A k, n \in 1..Len(raw) :
          Normal[raw[k]] # NoSlug /\ (Normal[raw[k]] = Normal[raw[n]] => raw[k] = raw[n])
  BY <1>1
<1>8. Distinct(m) = m
  <2>1. \A k, n \in 1..Len(m) : m[k] = m[n] => k = n
    BY <1>1, <1>2, <1>3, <1>7
  <2>. QED
    BY <2>1, <1>2, DistinctOfDistinct
<1>9. NonBlank(m) = m
  <2>1. \A n \in 1..Len(m) : m[n] # NoSlug
    BY <1>2, <1>3, <1>7
  <2>. QED
    BY <2>1, <1>2, NonBlankOfNonBlank
<1>10. ids[at] = Normal[slug] /\ at <= Len(ids)
  BY <1>1, <1>2, <1>3, <1>4, <1>5, <1>8, <1>9
<1>. QED
  BY <1>6, <1>10
-------------------------------------------------------------------------------
\* What the variables are, beyond PlanTypeOK: windows have fragments, reports have
\* pages.
PlanShape ==
    /\ Pages \in Seq(Nat) /\ windows \in Seq(Window) /\ cursor \in Nat \ {0}
    /\ stage \in {"window", "find", "classify", "insert", "done", "failed"}
    /\ metadata \in {"pending", "done"}
    /\ ClassesTyped /\ DOMAIN enriched \subseteq 1..Len(candidates)
    /\ batch \in Nat /\ tries \in [Pass -> 0..MaxFailures]
    /\ reports \in [Text -> SUBSET (Nat \X (Nat \X Nat))]
    /\ \A i \in 1..Len(recs) : recs[i].priority \in Ids \cup {NoSlug}

\* The pages before some page are done, those before the cursor while windows are built
\* and all pages once they are.
WindowsSoFar ==
    \E c \in 1..Len(Pages)+1 :
        /\ CoverBefore(c)
        /\ stage = "window" => cursor = c /\ candidates = <<>>
        /\ stage = "find" /\ Pages # <<>> => c = Len(Pages) + 1

\* While candidates are found each has the span of the pages it was reported of.
AnchorsSoFar ==
    stage = "find" /\ Pages # <<>> => \A i \in 1..Len(candidates) :
        IsSpan(SpanOf(candidates[i]), ReportedPages(candidates[i].text))

\* The inductive invariant: what the run has built of its windows and candidates so
\* far, which the two invariants only speak of at the end of their stage.
PlanIInv ==
    /\ PlanShape /\ (Pages # <<>> => TextsDiffer(candidates))
    /\ WindowsSoFar /\ AnchorsSoFar /\ RowsAreTheCandidates

\* The shapes of the variables are those of PlanTypeOK.
LEMMA PlanShapeIsTyped == PlanShape => PlanTypeOK
<1>. SUFFICES ASSUME PlanShape PROVE PlanTypeOK
  OBVIOUS
<1>1. ASSUME NEW i \in 1..Len(windows), NEW j \in 1..MaxPages, j <= Len(windows[i])
      PROVE  windows[i][j] \in [page: Nat, from: Nat, to: Nat]
  <2>1. windows[i] \in Seq(Fragment)
    BY DEF PlanShape, Window
  <2>2. j \in 1..Len(windows[i])
    BY <1>1, <2>1, WindowAssumption
  <2>3. windows[i][j] \in Fragment
    BY <2>1, <2>2
  <2>. QED
    BY <2>3 DEF Fragment
<1>2. ASSUME NEW i \in 1..Len(candidates)
      PROVE  candidates[i] \in [text: Text, start: Nat, end: Nat]
  <2>1. candidates[i] \in Found
    BY DEF PlanShape, ClassesTyped
  <2>. QED
    BY <2>1 DEF Found
<1>. QED
  BY <1>1, <1>2 DEF PlanShape, PlanTypeOK, Ids

\* What the inductive invariant gives.
LEMMA PlanInvariants == PlanIInv => PlanTypeOK /\ ProvenanceIsSound /\ RowsAreTheCandidates
<1>. SUFFICES ASSUME PlanIInv PROVE ProvenanceIsSound
  BY PlanShapeIsTyped DEF PlanIInv
<1>1. WindowsCoverDocument
  <2>. SUFFICES ASSUME stage = "find", Pages # <<>>
                PROVE  /\ \A i \in 1..Len(Pages) : \A c \in 0..Pages[i]-1 : Covered(i, c)
                       /\ \A i \in 1..Len(Pages)-1 : Neighbours(i)
                       /\ \A w \in 1..Len(windows) : WithinLimits(windows[w])
    BY DEF WindowsCoverDocument
  <2>1. CoverBefore(Len(Pages) + 1)
    BY DEF PlanIInv, WindowsSoFar
  <2>2. Len(Pages) \in Nat
    BY DEF PlanIInv, PlanShape
  <2>3. \A i \in 1..Len(Pages) : i < Len(Pages) + 1
    BY <2>2
  <2>4. \A i \in 1..Len(Pages)-1 : i < Len(Pages) + 1
    BY <2>2
  <2>. QED
    BY <2>1, <2>3, <2>4 DEF CoverBefore
<1>2. AnchorsAreSound
  <2>. SUFFICES ASSUME stage = "find", Pages # <<>>, NEW i \in 1..Len(candidates)
                PROVE  \/ candidates[i].start = Null /\ candidates[i].end = Null
                       \/ /\ candidates[i].start <= candidates[i].end
                          /\ {candidates[i].start, candidates[i].end}
                                \subseteq ReportedPages(candidates[i].text)
    BY DEF AnchorsAreSound, ReportedPages
  <2>1. IsSpan(SpanOf(candidates[i]), ReportedPages(candidates[i].text))
    BY DEF PlanIInv, AnchorsSoFar
  <2>. HIDE DEF ReportedPages
  <2>. QED
    BY <2>1 DEF IsSpan, SpanOf
<1>. QED
  BY <1>1, <1>2 DEF ProvenanceIsSound

\* It holds of a run that begins.
LEMMA PlanInitIInv == PlanInit => PlanIInv
<1>. SUFFICES ASSUME PlanInit PROVE PlanIInv
  OBVIOUS
<1>1. Pages \in Seq(Nat)
  BY TextAssumption, EmptySeq DEF PlanInit, Pages
<1>2. /\ windows = <<>> /\ candidates = <<>> /\ enriched = <<>> /\ recs = <<>>
      /\ cursor = 1 /\ batch = 0 /\ metadata = "pending"
      /\ stage \in {"window", "find"}
      /\ stage = "find" => Pages = <<>>
  BY DEF PlanInit
<1>3. tries \in [Pass -> 0..MaxFailures] /\ reports \in [Text -> SUBSET (Nat \X (Nat \X Nat))]
  BY DEF PlanInit, MaxFailures
<1>4. Len(windows) = 0 /\ Len(candidates) = 0 /\ Len(recs) = 0 /\ DOMAIN enriched = {}
  BY <1>2
<1>5. PlanShape
  BY <1>1, <1>2, <1>3, <1>4, EmptySeq DEF PlanShape, ClassesTyped
<1>6. CoverBefore(1)
  BY <1>1, <1>4 DEF CoverBefore
<1>7. WindowsSoFar
  BY <1>1, <1>2, <1>6 DEF WindowsSoFar
<1>. QED
  BY <1>2, <1>4, <1>5, <1>7 DEF PlanIInv, TextsDiffer, AnchorsSoFar, RowsAreTheCandidates
\* Pages that are covered stay so while windows are what they are.
LEMMA CoverStays ==
    ASSUME doc' = doc, windows' = windows, windows \in Seq(Window), NEW c, CoverBefore(c)
    PROVE  CoverBefore(c)'
<1>1. Len(windows) \in Nat
  OBVIOUS
<1>2. /\ \A i, x : Covered(i, x) => Covered(i, x)'
      /\ \A i : Neighbours(i) => Neighbours(i)'
  BY <1>1, CoverGrows
<1>3. Pages' = Pages
  BY DEF Pages
<1>. QED
  BY <1>2, <1>3 DEF CoverBefore

\* An answer leaves the count of tries a count.
LEMMA AnsweredType ==
    ASSUME tries \in [Pass -> 0..MaxFailures], NEW p \in Pass, Answered(p)
    PROVE  tries' \in [Pass -> 0..MaxFailures]
<1>1. 0 \in 0..MaxFailures
  BY DEF MaxFailures
<1>. QED
  BY <1>1 DEF Answered

\* Windows stay what they are where only other things change.
LEMMA WindowsStay ==
    ASSUME WindowsSoFar, windows \in Seq(Window), doc' = doc, windows' = windows,
           \/ stage' = stage /\ (stage = "window" => cursor' = cursor /\ candidates' = candidates)
           \/ stage' \notin {"window", "find"}
    PROVE  WindowsSoFar'
<1>1. Pages' = Pages
  BY DEF Pages
<1>2. PICK c \in 1..Len(Pages)+1 :
        /\ CoverBefore(c)
        /\ stage = "window" => cursor = c /\ candidates = <<>>
        /\ stage = "find" /\ Pages # <<>> => c = Len(Pages) + 1
  BY DEF WindowsSoFar
<1>3. CoverBefore(c)'
  BY <1>2, CoverStays
<1>. QED
  BY <1>1, <1>2, <1>3 DEF WindowsSoFar

\* One turn of buildExtractionWindows does the pages it goes beyond.
LEMMA AddWindowIInv == ASSUME PlanIInv, AddWindow PROVE PlanIInv'
<1>1. /\ Pages \in Seq(Nat) /\ windows \in Seq(Window) /\ cursor \in 1..Len(Pages)
      /\ stage = "window" /\ CoverBefore(cursor) /\ candidates = <<>>
      /\ Len(Pages) \in Nat
  BY DEF PlanIInv, PlanShape, AddWindow, WindowsSoFar
<1>2. UNCHANGED <<doc, stage, metadata, reports, candidates, enriched, batch, recs, tries>>
  BY DEF AddWindow
<1>3. Pages' = Pages
  BY <1>2 DEF Pages
<1>4. PICK c \in 1..Len(Pages)+1 :
          windows' \in Seq(Window) /\ cursor' = c /\ CoverBefore(c)'
  <2>1. PICK p \in 1..Len(Pages) : p = cursor
    BY <1>1
  <2>2. CoverBefore(p)
    BY <1>1, <2>1
  <2>3. CASE Block(p) > MaxChars
    <3>1. windows' = windows \o Fragments(p) /\ cursor' = p + 1
      BY <2>1, <2>3 DEF AddWindow
    <3>2. windows' \in Seq(Window) /\ CoverBefore(p + 1)'
      BY <1>1, <1>2, <2>2, <2>3, <3>1, LongPageTurn
    <3>. QED
      BY <3>1, <3>2
  <2>4. CASE ~ (Block(p) > MaxChars)
    <3>1. /\ windows' = Append(windows, WholeWindow(p))
          /\ cursor' = After(p, LastOf(p))
      BY <2>1, <2>4 DEF AddWindow, WholeWindow
    <3>2. /\ windows' \in Seq(Window)
          /\ After(p, LastOf(p)) \in p+1..Len(Pages)+1
          /\ \A c \in Nat : c = After(p, LastOf(p)) => CoverBefore(c)'
      BY <1>1, <1>2, <2>2, <2>4, <3>1, WholePagesTurn
    <3>3. PICK c \in p+1..Len(Pages)+1 : c = After(p, LastOf(p))
      BY <3>2
    <3>. QED
      BY <3>1, <3>2, <3>3
  <2>. QED
    BY <2>3, <2>4
<1>5. PlanShape'
  BY <1>1, <1>2, <1>3, <1>4 DEF PlanIInv, PlanShape, ClassesTyped
<1>6. WindowsSoFar'
  BY <1>1, <1>2, <1>3, <1>4 DEF WindowsSoFar
<1>. QED
  BY <1>1, <1>2, <1>5, <1>6 DEF PlanIInv, TextsDiffer, AnchorsSoFar, RowsAreTheCandidates

\* The cursor is past the last page: all pages are done.
LEMMA WindowsBuiltIInv == ASSUME PlanIInv, WindowsBuilt PROVE PlanIInv'
<1>1. /\ stage = "window" /\ stage' = "find" /\ cursor' = 1
      /\ UNCHANGED <<doc, metadata, windows, reports, candidates, enriched, batch, recs, tries>>
  BY DEF WindowsBuilt
<1>2. Pages' = Pages
  BY <1>1 DEF Pages
<1>3. PICK c \in 1..Len(Pages)+1 : CoverBefore(c) /\ cursor = c /\ candidates = <<>>
  BY <1>1 DEF PlanIInv, WindowsSoFar
<1>4. c = Len(Pages) + 1
  BY <1>3 DEF WindowsBuilt, PlanIInv, PlanShape
<1>5. CoverBefore(c)'
  BY <1>1, <1>3, CoverStays DEF PlanIInv, PlanShape
<1>6. WindowsSoFar'
  BY <1>1, <1>2, <1>3, <1>4, <1>5 DEF WindowsSoFar
<1>7. PlanShape'
  BY <1>1, <1>2 DEF PlanIInv, PlanShape, ClassesTyped
<1>. QED
  BY <1>1, <1>3, <1>6, <1>7 DEF PlanIInv, TextsDiffer, AnchorsSoFar, RowsAreTheCandidates

\* One more of an answer: dedupeRecommendations adds a candidate or widens the
\* anchors of one, within the pages it is now reported of.
LEMMA FindInWindowIInv == ASSUME PlanIInv, FindInWindow PROVE PlanIInv'
<1>1. /\ stage = "find" /\ Pages # <<>> /\ cursor \in 1..Len(windows)
      /\ cursor \in Nat \ {0}
      /\ UNCHANGED <<doc, stage, metadata, cursor, windows, enriched, batch, recs, tries>>
  BY DEF FindInWindow, PlanIInv, PlanShape
<1>2. tries' \in [Pass -> 0..MaxFailures]
  BY <1>1 DEF PlanIInv, PlanShape
<1>3. Pages' = Pages
  BY <1>1 DEF Pages
<1>4. WindowsSoFar'
  BY <1>1, WindowsStay DEF PlanIInv, PlanShape
<1>5. /\ candidates' \in Seq(Found) /\ TextsDiffer(candidates)'
      /\ Len(candidates) <= Len(candidates')
      /\ reports' \in [Text -> SUBSET (Nat \X (Nat \X Nat))]
      /\ \A i \in 1..Len(candidates') :
            (IsSpan(SpanOf(candidates[i]), ReportedPages(candidates[i].text)))'
  <2>1. PICK k \in 1..Len(windows) : k = cursor
    BY <1>1
  <2>2. /\ candidates \in Seq(Found) /\ TextsDiffer(candidates)
        /\ windows[k] \in Window /\ k \in Nat
        /\ reports \in [Text -> SUBSET (Nat \X (Nat \X Nat))]
        /\ \A i \in 1..Len(candidates) :
              IsSpan(SpanOf(candidates[i]), ReportedPages(candidates[i].text))
    BY <1>1 DEF PlanIInv, PlanShape, ClassesTyped, AnchorsSoFar
  <2>4. ASSUME NEW text \in Text, NEW a \in Anchors,
               candidates' = Merged(candidates, text, Anchored(windows[k], a[1], a[2])),
               reports' = [reports EXCEPT ![text] =
                              @ \cup {<<k, Anchored(windows[k], a[1], a[2])>>}]
        PROVE  /\ candidates' \in Seq(Found) /\ TextsDiffer(candidates)'
               /\ Len(candidates) <= Len(candidates')
               /\ reports' \in [Text -> SUBSET (Nat \X (Nat \X Nat))]
               /\ \A i \in 1..Len(candidates') :
                     (IsSpan(SpanOf(candidates[i]), ReportedPages(candidates[i].text)))'
    <3>. DEFINE span == Anchored(windows[k], a[1], a[2])
    <3>1. IsSpan(span, PagesOf(windows[k]))
      BY <2>2, AnchoredIsSpan
    <3>. HIDE DEF span
    <3>2. span \in Nat \X Nat
      BY <3>1 DEF IsSpan
    <3>3. /\ reports' \in [Text -> SUBSET (Nat \X (Nat \X Nat))]
          /\ reports'[text] = reports[text] \cup {<<k, span>>}
          /\ \A s \in Text : s # text => reports'[s] = reports[s]
      BY <2>2, <2>4, <3>2 DEF span
    <3>4. /\ \A s \in Text : s # text => ReportedPages(s)' = ReportedPages(s)
          /\ ReportedPages(text)' = ReportedPages(text) \cup PagesOf(windows[k])
      <4>1. \A s \in Text : s # text => ReportedPages(s)' = ReportedPages(s)
        BY <1>1, <3>3 DEF ReportedPages
      <4>2. \A x : x \in ReportedPages(text)' <=>
                      \E r \in reports'[text] : x \in PagesOf(windows[r[1]])
        BY <1>1 DEF ReportedPages
      <4>3. \A x : x \in ReportedPages(text) <=>
                      \E r \in reports[text] : x \in PagesOf(windows[r[1]])
        BY DEF ReportedPages
      <4>4. \A x : x \in ReportedPages(text)' <=> x \in ReportedPages(text) \cup PagesOf(windows[k])
        <5>1. <<k, span>> \in reports'[text] /\ <<k, span>>[1] = k
          BY <3>3
        <5>2. \A r \in reports'[text] : r \in reports[text] \/ r = <<k, span>>
          BY <3>3
        <5>3. \A r \in reports[text] : r \in reports'[text]
          BY <3>3
        <5>4. ASSUME NEW x, x \in PagesOf(windows[k])
              PROVE  x \in ReportedPages(text)'
          BY <5>1, <5>4, <4>2
        <5>5. ASSUME NEW x, x \in ReportedPages(text)
              PROVE  x \in ReportedPages(text)'
          BY <5>3, <5>5, <4>2, <4>3
        <5>6. ASSUME NEW x, x \in ReportedPages(text)', x \notin PagesOf(windows[k])
              PROVE  x \in ReportedPages(text)
          BY <5>1, <5>2, <5>6, <4>2, <4>3
        <5>. QED
          BY <5>4, <5>5, <5>6
      <4>. QED
        BY <4>1, <4>4
    <3>5. /\ \A i \in 1..Len(candidates) : Spanning(SpanOf(candidates[i]), span) \in Nat \X Nat
          /\ \A i \in 1..Len(candidates) : candidates[i].text = text =>
                IsSpan(Spanning(SpanOf(candidates[i]), span), ReportedPages(text)')
      <4>. SUFFICES ASSUME NEW i \in 1..Len(candidates)
                    PROVE  /\ Spanning(SpanOf(candidates[i]), span) \in Nat \X Nat
                           /\ candidates[i].text = text =>
                                IsSpan(Spanning(SpanOf(candidates[i]), span), ReportedPages(text)')
        OBVIOUS
      <4>1. IsSpan(SpanOf(candidates[i]), ReportedPages(candidates[i].text))
        BY <2>2
      <4>2. IsSpan(Spanning(SpanOf(candidates[i]), span),
                   ReportedPages(candidates[i].text) \cup PagesOf(windows[k]))
        BY <4>1, <3>1, SpanningIsSpan
      <4>. QED
        BY <4>2, <3>4 DEF IsSpan
    <3>6. candidates' = Merged(candidates, text, span)
      BY <2>4 DEF span
    <3>7. /\ candidates' \in Seq(Found) /\ TextsDiffer(candidates)'
          /\ Len(candidates) <= Len(candidates')
          /\ \A i \in 1..Len(candidates') :
                \/ /\ i \in 1..Len(candidates) /\ candidates'[i] = candidates[i]
                   /\ candidates'[i].text # text
                \/ candidates'[i].text = text /\ SpanOf(candidates'[i]) = span
                \/ /\ i \in 1..Len(candidates) /\ candidates[i].text = text
                   /\ candidates'[i].text = text
                   /\ SpanOf(candidates'[i]) = Spanning(SpanOf(candidates[i]), span)
      <4>1. \A new : new = Merged(candidates, text, span) =>
              /\ new \in Seq(Found) /\ TextsDiffer(new)
              /\ Len(candidates) <= Len(new)
              /\ \A i \in 1..Len(new) :
                    \/ /\ i \in 1..Len(candidates) /\ new[i] = candidates[i]
                       /\ new[i].text # text
                    \/ new[i].text = text /\ SpanOf(new[i]) = span
                    \/ /\ i \in 1..Len(candidates) /\ candidates[i].text = text
                       /\ new[i].text = text
                       /\ SpanOf(new[i]) = Spanning(SpanOf(candidates[i]), span)
        BY <2>2, <3>2, <3>5, MergedProperties
      <4>. QED
        BY <4>1, <3>6
    <3>8. ASSUME NEW i \in 1..Len(candidates')
          PROVE  (IsSpan(SpanOf(candidates[i]), ReportedPages(candidates[i].text)))'
      <4>1. CASE /\ i \in 1..Len(candidates) /\ candidates'[i] = candidates[i]
                 /\ candidates'[i].text # text
        <5>0. candidates[i] \in Found
          BY <2>2, <4>1
        <5>1. candidates[i].text \in Text /\ candidates[i].text # text
          BY <5>0, <4>1 DEF Found
        <5>2. ReportedPages(candidates[i].text)' = ReportedPages(candidates[i].text)
          BY <5>1, <3>4, <4>1, <1>1, <3>3 DEF ReportedPages
        <5>. QED
          BY <5>2, <4>1, <2>2
      <4>2. CASE candidates'[i].text = text /\ SpanOf(candidates'[i]) = span
        <5>1. ReportedPages(candidates[i].text)' = ReportedPages(text)'
          BY <4>2 DEF ReportedPages
        <5>2. IsSpan(span, ReportedPages(text)')
          BY <3>1, <3>4 DEF IsSpan
        <5>. QED
          BY <5>1, <5>2, <4>2
      <4>3. CASE /\ i \in 1..Len(candidates) /\ candidates[i].text = text
                 /\ candidates'[i].text = text
                 /\ SpanOf(candidates'[i]) = Spanning(SpanOf(candidates[i]), span)
        <5>1. ReportedPages(candidates[i].text)' = ReportedPages(text)'
          BY <4>3 DEF ReportedPages
        <5>. QED
          BY <5>1, <4>3, <3>5
      <4>. QED
        BY <3>7, <4>1, <4>2, <4>3
    <3>. QED
      BY <3>3, <3>7, <3>8
  <2>. QED
    BY <2>1, <2>4 DEF FindInWindow
<1>6. PlanShape'
  <2>1. DOMAIN enriched \subseteq 1..Len(candidates')
    BY <1>5 DEF PlanIInv, PlanShape, ClassesTyped
  <2>. QED
    BY <2>1, <1>1, <1>2, <1>3, <1>5 DEF PlanIInv, PlanShape, ClassesTyped
<1>7. AnchorsSoFar'
  BY <1>5 DEF AnchorsSoFar
<1>. QED
  BY <1>1, <1>4, <1>5, <1>6, <1>7 DEF PlanIInv, RowsAreTheCandidates

\* The next window is asked about.
LEMMA NextWindowIInv == ASSUME PlanIInv, NextWindow PROVE PlanIInv'
<1>1. /\ stage = "find" /\ cursor \in Nat \ {0} /\ cursor' = cursor + 1
      /\ UNCHANGED <<doc, stage, metadata, windows, reports, candidates, enriched, batch, recs>>
  BY DEF NextWindow, PlanIInv, PlanShape
<1>2. tries' \in [Pass -> 0..MaxFailures]
  BY AnsweredType DEF NextWindow, PlanIInv, PlanShape, Pass
<1>3. Pages' = Pages /\ \A i : ReportedPages(candidates[i].text)' = ReportedPages(candidates[i].text)
  BY <1>1 DEF Pages, ReportedPages
<1>4. WindowsSoFar'
  BY <1>1, WindowsStay DEF PlanIInv, PlanShape
<1>5. PlanShape'
  BY <1>1, <1>2, <1>3 DEF PlanIInv, PlanShape, ClassesTyped
<1>6. AnchorsSoFar'
  BY <1>1, <1>3 DEF PlanIInv, AnchorsSoFar
<1>. QED
  BY <1>1, <1>3, <1>4, <1>5, <1>6 DEF PlanIInv, TextsDiffer, RowsAreTheCandidates

\* Finding ends, and what windows said is not looked at again.
LEMMA FindingDoneIInv == ASSUME PlanIInv, FindingDone PROVE PlanIInv'
<1>1. /\ stage' \in {"insert", "classify"} /\ windows' = <<>> /\ cursor' = 1
      /\ reports' = [t \in Text |-> {}]
      /\ UNCHANGED <<doc, metadata, candidates, enriched, batch, recs, tries>>
  BY DEF FindingDone
<1>2. Pages' = Pages /\ Pages \in Seq(Nat)
  BY <1>1 DEF Pages, PlanIInv, PlanShape
<1>3. CoverBefore(1)'
  <2>1. Len(windows') = 0
    BY <1>1
  <2>2. \A i \in 1..Len(Pages) : ~ (i < 1)
    BY <1>2
  <2>3. \A i \in 1..Len(Pages)-1 : ~ (i < 1)
    BY <1>2
  <2>. QED
    BY <1>2, <2>1, <2>2, <2>3 DEF CoverBefore
<1>4. WindowsSoFar'
  BY <1>1, <1>2, <1>3 DEF WindowsSoFar
<1>5. PlanShape'
  BY <1>1, <1>2, EmptySeq DEF PlanIInv, PlanShape, ClassesTyped
<1>. QED
  BY <1>1, <1>2, <1>4, <1>5 DEF PlanIInv, TextsDiffer, AnchorsSoFar, RowsAreTheCandidates

\* The legacy pass finds one more, and classifies it.
LEMMA FindInSectionsIInv == ASSUME PlanIInv, FindInSections PROVE PlanIInv'
<1>1. /\ stage = "find" /\ Pages = <<>>
      /\ UNCHANGED <<doc, stage, metadata, cursor, windows, reports, batch, recs, tries>>
  BY DEF FindInSections
<1>2. Pages' = Pages
  BY <1>1 DEF Pages
<1>3. PICK text \in Text, a \in Anchors, class \in Classes :
         /\ candidates' = Append(candidates, [text |-> text, start |-> a[1], end |-> a[2]])
         /\ enriched' = Classified(Len(candidates) + 1, class, 1)
  BY DEF FindInSections
<1>4. ClassesTyped' /\ DOMAIN enriched' \subseteq 1..Len(candidates')
  <2>1. PICK n \in Nat : n = Len(candidates)
    BY DEF PlanIInv, PlanShape, ClassesTyped
  <2>2. [text |-> text, start |-> a[1], end |-> a[2]] \in Found
    BY TextAssumption DEF Found
  <2>3. candidates' \in Seq(Found) /\ Len(candidates') = n + 1
    BY <1>3, <2>1, <2>2 DEF PlanIInv, PlanShape, ClassesTyped
  <2>4. /\ DOMAIN enriched' = DOMAIN enriched \cup {n + 1}
        /\ \A i \in DOMAIN enriched' : enriched'[i].class \in Classes
    BY <1>3, <2>1 DEF Classified, PlanIInv, PlanShape, ClassesTyped
  <2>5. DOMAIN enriched \subseteq 1..n
    BY <2>1 DEF PlanIInv, PlanShape
  <2>. QED
    BY <2>1, <2>3, <2>4, <2>5 DEF ClassesTyped
<1>5. WindowsSoFar'
  BY <1>1, WindowsStay DEF PlanIInv, PlanShape
<1>6. PlanShape'
  BY <1>1, <1>2, <1>4 DEF PlanIInv, PlanShape
<1>. QED
  BY <1>1, <1>2, <1>5, <1>6 DEF PlanIInv, AnchorsSoFar, RowsAreTheCandidates

LEMMA SectionsReadIInv == ASSUME PlanIInv, SectionsRead PROVE PlanIInv'
<1>1. /\ stage' = "insert" /\ Pages = <<>>
      /\ UNCHANGED <<doc, metadata, cursor, windows, reports, candidates, enriched, batch, recs>>
      /\ tries' \in [Pass -> 0..MaxFailures]
  BY AnsweredType DEF SectionsRead, PlanIInv, PlanShape, Pass
<1>2. Pages' = Pages
  BY <1>1 DEF Pages
<1>3. WindowsSoFar'
  BY <1>1, WindowsStay DEF PlanIInv, PlanShape
<1>4. PlanShape'
  BY <1>1, <1>2 DEF PlanIInv, PlanShape, ClassesTyped
<1>. QED
  BY <1>1, <1>2, <1>3, <1>4 DEF PlanIInv, AnchorsSoFar, RowsAreTheCandidates

\* Where neither rows nor what they are made of change, and the handler is not done.
LEMMA ClassifyIInv == ASSUME PlanIInv, Classify PROVE PlanIInv'
<1>1. /\ stage = "classify"
      /\ UNCHANGED <<doc, stage, metadata, cursor, windows, reports, candidates, batch, recs, tries>>
  BY DEF Classify
<1>2. Pages' = Pages
  BY <1>1 DEF Pages
<1>3. PICK index \in 1..Len(candidates)+1, class \in Classes :
         enriched' = Joined(index, class, batch + 1)
  BY DEF Classify
<1>4. /\ DOMAIN enriched' \subseteq 1..Len(candidates)
      /\ \A i \in DOMAIN enriched' : enriched'[i].class \in Classes
  BY <1>3 DEF Joined, Classified, PlanIInv, PlanShape, ClassesTyped
<1>5. PlanShape'
  BY <1>1, <1>2, <1>4 DEF PlanIInv, PlanShape, ClassesTyped
<1>6. WindowsSoFar'
  BY <1>1, WindowsStay DEF PlanIInv, PlanShape
<1>. QED
  BY <1>1, <1>2, <1>5, <1>6 DEF PlanIInv, TextsDiffer, AnchorsSoFar, RowsAreTheCandidates

\* The next batch changes no candidate.
LEMMA NextBatchIInv == ASSUME PlanIInv, NextBatch PROVE PlanIInv'
<1>1. /\ stage' \in {"classify", "insert"}
      /\ UNCHANGED <<doc, metadata, cursor, windows, reports, candidates, enriched, recs>>
  BY DEF NextBatch
<1>2. Pages' = Pages
  BY <1>1 DEF Pages
<1>3. batch' \in Nat
  BY DEF NextBatch, PlanIInv, PlanShape
<1>4. tries' \in [Pass -> 0..MaxFailures]
  BY AnsweredType DEF NextBatch, PlanIInv, PlanShape, Pass
<1>5. PlanShape'
  BY <1>1, <1>2, <1>3, <1>4 DEF PlanIInv, PlanShape, ClassesTyped
<1>6. WindowsSoFar'
  BY <1>1, WindowsStay DEF PlanIInv, PlanShape
<1>. QED
  BY <1>1, <1>2, <1>5, <1>6 DEF PlanIInv, TextsDiffer, AnchorsSoFar, RowsAreTheCandidates

\* The other pass changes none either.
LEMMA ReadMetadataIInv == ASSUME PlanIInv, ReadMetadata PROVE PlanIInv'
<1>1. /\ stage \in {"find", "classify", "insert"} /\ metadata' = "done"
      /\ UNCHANGED <<doc, stage, cursor, windows, reports, candidates, enriched, batch, recs>>
  BY DEF ReadMetadata
<1>2. Pages' = Pages
  BY <1>1 DEF Pages
<1>3. tries' \in [Pass -> 0..MaxFailures]
  BY AnsweredType DEF ReadMetadata, PlanIInv, PlanShape, Pass
<1>4. PlanShape'
  BY <1>1, <1>2, <1>3 DEF PlanIInv, PlanShape, ClassesTyped
<1>5. WindowsSoFar'
  BY <1>1, WindowsStay DEF PlanIInv, PlanShape
<1>6. AnchorsSoFar'
  <2>1. \A i : ReportedPages(candidates[i].text)' = ReportedPages(candidates[i].text)
    BY <1>1 DEF ReportedPages
  <2>. QED
    BY <1>1, <1>2, <2>1 DEF PlanIInv, AnchorsSoFar
<1>. QED
  BY <1>1, <1>2, <1>4, <1>5, <1>6 DEF PlanIInv, TextsDiffer, RowsAreTheCandidates

\* Neither does a call to the model that fails.
LEMMA AttemptIInv ==
    ASSUME PlanIInv, NEW p \in Pass, AttemptFails(p) \/ ModelThrows(p)
    PROVE  PlanIInv'
<1>1. /\ (stage' = stage /\ stage \in {"find", "classify", "insert"}) \/ stage' = "failed"
      /\ UNCHANGED <<doc, metadata, cursor, windows, reports, candidates, enriched, batch, recs>>
  BY DEF AttemptFails, ModelThrows, Asked
<1>2. Pages' = Pages
  BY <1>1 DEF Pages
<1>3. tries' \in [Pass -> 0..MaxFailures]
  <2>1. CASE AttemptFails(p)
    <3>1. /\ tries \in [Pass -> 0..MaxFailures] /\ tries[p] < MaxFailures
          /\ tries' = [tries EXCEPT ![p] = @ + 1]
      BY <2>1 DEF AttemptFails, PlanIInv, PlanShape
    <3>2. tries[p] + 1 \in 0..MaxFailures
      BY <3>1 DEF MaxFailures
    <3>. QED
      BY <3>1, <3>2
  <2>2. CASE ModelThrows(p)
    BY <2>2 DEF ModelThrows, PlanIInv, PlanShape
  <2>. QED
    BY <2>1, <2>2
<1>4. PlanShape'
  BY <1>1, <1>2, <1>3 DEF PlanIInv, PlanShape, ClassesTyped
<1>5. WindowsSoFar'
  BY <1>1, WindowsStay DEF PlanIInv, PlanShape
<1>6. AnchorsSoFar'
  <2>1. \A i : ReportedPages(candidates[i].text)' = ReportedPages(candidates[i].text)
    BY <1>1 DEF ReportedPages
  <2>. QED
    BY <1>1, <1>2, <2>1 DEF PlanIInv, AnchorsSoFar
<1>. QED
  BY <1>1, <1>2, <1>4, <1>5, <1>6 DEF PlanIInv, TextsDiffer, RowsAreTheCandidates

\* The transaction: the rows it inserts are the candidates, with their own priorities.
LEMMA InsertIInv == ASSUME PlanIInv, Insert PROVE PlanIInv'
<1>1. /\ stage' \in {"done", "failed"}
      /\ UNCHANGED <<doc, metadata, cursor, windows, reports, candidates, enriched, batch, tries>>
  BY DEF Insert
<1>2. Pages' = Pages
  BY <1>1 DEF Pages
<1>3. CASE stage' = "failed"
  <2>1. recs' = recs
    BY <1>3 DEF Insert
  <2>2. PlanShape'
    BY <1>1, <1>2, <2>1 DEF PlanIInv, PlanShape, ClassesTyped
  <2>3. WindowsSoFar'
    BY <1>1, WindowsStay DEF PlanIInv, PlanShape
  <2>. QED
    BY <1>1, <1>2, <1>3, <2>2, <2>3 DEF PlanIInv, TextsDiffer, AnchorsSoFar, RowsAreTheCandidates
<1>4. CASE stage' = "done"
  <2>1. recs' = [i \in 1..Len(candidates) |->
                   [text |-> candidates[i].text, page |-> candidates[i].start,
                    priority |-> Priority(i), themes |-> Themes(i)]]
    BY <1>4 DEF Insert
  <2>2. ClassesTyped /\ Len(candidates) \in Nat
    BY DEF PlanIInv, PlanShape, ClassesTyped
  <2>3. /\ Len(recs') = Len(candidates)
        /\ \A i \in 1..Len(candidates) : recs'[i].text = candidates[i].text
        /\ \A i \in 1..Len(candidates) : recs'[i].priority = Priority(i)
    BY <2>1, <2>2
  <2>4. PlanShape'
    BY <1>1, <1>2, <2>2, <2>3, PriorityType DEF PlanIInv, PlanShape, ClassesTyped
  <2>5. WindowsSoFar'
    BY <1>1, WindowsStay DEF PlanIInv, PlanShape
  <2>6. \A i : ClassOf(i)' = ClassOf(i)
    BY <1>1 DEF ClassOf
  <2>7. Pages # <<>> => \A i, j \in 1..Len(recs') : recs'[i].text = recs'[j].text => i = j
    BY <2>3 DEF PlanIInv, TextsDiffer
  <2>8. LET given == {ClassOf(i).priority : i \in 1..Len(candidates)} \ {NoSlug} IN
           (\A s, t \in given : Normal[s] # NoSlug /\ (Normal[s] = Normal[t] => s = t)) =>
                \A i \in 1..Len(candidates) :
                    ClassOf(i).priority # NoSlug => Priority(i) = Normal[ClassOf(i).priority]
    BY <2>2, PriorityIsOwn
  <2>9. RowsAreTheCandidates'
    BY <1>1, <1>2, <2>3, <2>6, <2>7, <2>8 DEF RowsAreTheCandidates
  <2>. QED
    BY <1>1, <1>2, <1>4, <2>4, <2>5, <2>9 DEF PlanIInv, TextsDiffer, AnchorsSoFar
<1>. QED
  BY <1>1, <1>3, <1>4

\* Every step keeps the inductive invariant.
LEMMA PlanNextIInv == PlanIInv /\ [PlanNext]_planVars => PlanIInv'
<1>1. ASSUME PlanIInv, UNCHANGED planVars
      PROVE  PlanIInv'
  <2>1. UNCHANGED <<doc, stage, metadata, cursor, windows, reports, candidates, enriched,
                    batch, recs, tries>>
    BY <1>1 DEF planVars
  <2>2. Pages' = Pages /\ \A i : ReportedPages(candidates[i].text)' = ReportedPages(candidates[i].text)
    BY <2>1 DEF Pages, ReportedPages
  <2>3. Pages' = Pages /\ \A i : ClassOf(i)' = ClassOf(i)
    BY <2>1 DEF Pages, ClassOf
  <2>4. PlanShape'
    BY <1>1, <2>1, <2>2 DEF PlanIInv, PlanShape, ClassesTyped
  <2>5. WindowsSoFar'
    BY <1>1, <2>1, WindowsStay DEF PlanIInv, PlanShape
  <2>6. AnchorsSoFar'
    BY <1>1, <2>1, <2>2 DEF PlanIInv, AnchorsSoFar
  <2>7. RowsAreTheCandidates'
    <3>1. RowsAreTheCandidates
      BY <1>1 DEF PlanIInv
    <3>. QED
      BY <2>1, <2>3, <3>1 DEF RowsAreTheCandidates
  <2>. QED
    BY <1>1, <2>1, <2>2, <2>4, <2>5, <2>6, <2>7 DEF PlanIInv, TextsDiffer
<1>. QED
  BY <1>1, AddWindowIInv, WindowsBuiltIInv, FindInWindowIInv, NextWindowIInv, FindingDoneIInv,
     FindInSectionsIInv, SectionsReadIInv, ClassifyIInv, NextBatchIInv, ReadMetadataIInv, InsertIInv, AttemptIInv
     DEF PlanNext

\* So it always holds.
LEMMA PlanAlways == PlanSpec => []PlanIInv
<1>. QED
  BY PlanInitIInv, PlanNextIInv, PTL DEF PlanSpec

\* Whatever document, limits and answers of the model: no character of a document is
\* left out of the windows, and no anchor of a candidate names a page it was not found
\* on (buildExtractionWindows, applyWindowProvenance, dedupeRecommendations).
THEOREM ProvenanceAlwaysSound == PlanSpec => []ProvenanceIsSound
  BY PlanAlways, PlanInvariants, PTL

\* Whatever the model finds and classifies: the rows the extraction inserts are its
\* candidates in order, each text once where windows were merged, and where no two spellings collide each has its
\* own priority (extractHandler, resolveOrCreateAxis).
THEOREM RowsAlwaysTheCandidates == PlanSpec => []RowsAreTheCandidates
  BY PlanAlways, PlanInvariants, PTL

\* What the variables of the extraction are.
THEOREM PlanTypes == PlanSpec => []PlanTypeOK
  BY PlanAlways, PlanInvariants, PTL

-------------------------------------------------------------------------------
(* Pages (docling.ts, tesseract-pdf.ts, mistral.ts). *)

\* What the joining of texts is built from: one turn of it, and all of them.
JoinTurn(texts, before, k) ==
    IF k = 0 THEN <<>>
    ELSE IF k = 1 THEN texts[1]
    ELSE before[k-1] \o <<NL, MARK, NL>> \o texts[k]

\* All turns up to the n-th.
IsJoining(texts, joined, n) == joined = [k \in 0..n |-> JoinTurn(texts, joined, k)]

\* The turns are there, however many texts there are.
LEMMA JoiningExists ==
    ASSUME NEW texts
    PROVE  \A n \in Nat : \E joined : IsJoining(texts, joined, n)
<1>. DEFINE T == {n \in Nat : \E joined : IsJoining(texts, joined, n)}
<1>1. 0 \in T
  <2>. DEFINE joined == [k \in 0..0 |-> <<>>]
  <2>1. IsJoining(texts, joined, 0)
    BY DEF IsJoining, JoinTurn
  <2>. QED
    BY <2>1
<1>2. ASSUME NEW n \in Nat, n \in T
      PROVE  n + 1 \in T
  <2>1. PICK joined : IsJoining(texts, joined, n)
    BY <1>2
  <2>. DEFINE more == [k \in 0..(n+1) |-> JoinTurn(texts, joined, k)]
  <2>2. \A k \in 0..n : more[k] = joined[k]
    BY <2>1 DEF IsJoining
  <2>3. \A k \in 0..(n+1) : JoinTurn(texts, joined, k) = JoinTurn(texts, more, k)
    <3>. SUFFICES ASSUME NEW k \in 0..(n+1), k # 0
                  PROVE  joined[k-1] = more[k-1]
      BY DEF JoinTurn
    <3>1. k - 1 \in 0..n
      OBVIOUS
    <3>. QED
      BY <3>1, <2>2
  <2>4. IsJoining(texts, more, n + 1)
    BY <2>3 DEF IsJoining
  <2>. QED
    BY <2>4
<1>. HIDE DEF T
<1>3. \A n \in Nat : n \in T
  BY <1>1, <1>2, SetInduction
<1>. QED
  BY <1>3 DEF T

\* JoinedPages is what the last turn leaves.
LEMMA JoinedByTurns ==
    ASSUME NEW S, NEW texts \in Seq(S)
    PROVE  \E joined : IsJoining(texts, joined, Len(texts)) /\ JoinedPages(texts) = joined[Len(texts)]
<1>1. Len(texts) \in Nat
  OBVIOUS
<1>2. \E joined : IsJoining(texts, joined, Len(texts))
  BY <1>1, JoiningExists
<1>. DEFINE chosen == CHOOSE joined : IsJoining(texts, joined, Len(texts))
<1>3. IsJoining(texts, chosen, Len(texts))
  BY <1>2
<1>4. JoinedPages(texts) = chosen[Len(texts)]
  BY DEF JoinedPages, IsJoining, JoinTurn
<1>. QED
  BY <1>3, <1>4

\* One text is its own joining.
LEMMA JoinedOne ==
    ASSUME NEW S, NEW texts \in Seq(S), Len(texts) = 1
    PROVE  JoinedPages(texts) = texts[1]
<1>1. PICK joined : IsJoining(texts, joined, Len(texts)) /\ JoinedPages(texts) = joined[Len(texts)]
  BY JoinedByTurns
<1>2. joined[1] = JoinTurn(texts, joined, 1)
  BY <1>1 DEF IsJoining
<1>. QED
  BY <1>1, <1>2 DEF JoinTurn

\* One more text is joined to the others by a marker.
LEMMA JoinedMore ==
    ASSUME NEW S, NEW texts \in Seq(S), texts # <<>>, NEW x \in S
    PROVE  JoinedPages(Append(texts, x)) = JoinedPages(texts) \o <<NL, MARK, NL>> \o x
<1>. DEFINE more == Append(texts, x)
            n == Len(texts)
<1>1. /\ more \in Seq(S) /\ Len(more) = n + 1 /\ n \in Nat /\ n # 0
      /\ \A k \in 1..n : more[k] = texts[k]
      /\ more[n + 1] = x
  BY AppendProperties, EmptySeq
<1>. HIDE DEF more
<1>2. PICK f : IsJoining(texts, f, n) /\ JoinedPages(texts) = f[n]
  BY JoinedByTurns
<1>3. PICK g : IsJoining(more, g, n + 1) /\ JoinedPages(more) = g[n + 1]
  BY JoinedByTurns, <1>1
<1>. HIDE DEF n
<1>4. \A k \in 0..n : f[k] = JoinTurn(texts, f, k)
  BY <1>2 DEF IsJoining
<1>5. \A k \in 0..(n+1) : g[k] = JoinTurn(more, g, k)
  BY <1>3 DEF IsJoining
<1>. DEFINE T == {k \in Nat : k <= n => g[k] = f[k]}
<1>6. 0 \in T
  BY <1>4, <1>5, <1>1 DEF JoinTurn
<1>7. ASSUME NEW k \in Nat, k \in T
      PROVE  k + 1 \in T
  <2>. SUFFICES ASSUME k + 1 <= n PROVE g[k + 1] = f[k + 1]
    OBVIOUS
  <2>1. k + 1 \in 0..n /\ k + 1 \in 0..(n+1) /\ k + 1 \in 1..n /\ 1 \in 1..n
    BY <1>1
  <2>2. (k + 1) - 1 = k /\ g[k] = f[k]
    BY <1>7, <2>1, <1>1
  <2>3. more[k + 1] = texts[k + 1] /\ more[1] = texts[1]
    BY <2>1, <1>1
  <2>4. JoinTurn(more, g, k + 1) = JoinTurn(texts, f, k + 1)
    BY <2>2, <2>3 DEF JoinTurn
  <2>. QED
    BY <2>4, <2>1, <1>4, <1>5
<1>8. g[n] = f[n]
  <2>. HIDE DEF T
  <2>1. n \in T
    BY <1>6, <1>7, <1>1, SetInduction
  <2>. QED
    BY <2>1, <1>1 DEF T
<1>9. g[n + 1] = g[n] \o <<NL, MARK, NL>> \o x
  <2>1. n + 1 \in 0..(n+1) /\ n + 1 # 0 /\ n + 1 # 1 /\ (n + 1) - 1 = n
    BY <1>1
  <2>. QED
    BY <2>1, <1>5, <1>1 DEF JoinTurn
<1>. QED
  BY <1>2, <1>3, <1>8, <1>9 DEF more
-------------------------------------------------------------------------------
\* Where one of two texts ends, the other being put after it.
LEMMA Sums ==
    /\ \A x, y, l, o, w \in Nat : x + y = l + 1 /\ w = o + l => o + x + y = w + 1
    /\ \A x, y, l, o, w \in Nat : x + y <= l + 1 /\ w = o + l => o + x + y <= w + 1
  OBVIOUS

\* A page marker on a line of its own, at i.
MarkAt(text, i) ==
    /\ i + 2 <= Len(text)
    /\ text[i] = NL /\ text[i + 1] = MARK /\ text[i + 2] = NL

\* The text begins with the pages, page k at at[k], with markers between them.
Laid(text, pages, at) ==
    /\ at[1] = 1
    /\ \A k \in 1..Len(pages) :
        /\ at[k] \in Nat \ {0}
        /\ at[k] + Len(pages[k]) <= Len(text) + 1
        /\ \A j \in 1..Len(pages[k]) : text[at[k] + j - 1] = pages[k][j]
        /\ k # Len(pages) => /\ MarkAt(text, at[k] + Len(pages[k]))
                             /\ at[k + 1] = at[k] + Len(pages[k]) + 3

\* Where the last of them ends.
EndOf(pages, at) == at[Len(pages)] + Len(pages[Len(pages)])

\* The text is the pages, and nothing else; or they are followed by another marker.
WholeText(text, pages) == \E at : Laid(text, pages, at) /\ EndOf(pages, at) = Len(text) + 1
\* The text begins with the pages and has another marker after them.
Begun(text, pages) == \E at : Laid(text, pages, at) /\ MarkAt(text, EndOf(pages, at))

\* Two texts with a marker between them.
Glued(both, text, more) ==
    /\ Len(both) = Len(text) + 3 + Len(more)
    /\ \A i \in 1..Len(text) : both[i] = text[i]
    /\ MarkAt(both, Len(text) + 1)
    /\ \A j \in 1..Len(more) : both[Len(text) + 3 + j] = more[j]

\* What two texts with a marker between them are made of.
LEMMA MarkedConcat ==
    ASSUME NEW S, NL \in S, MARK \in S, NEW text \in Seq(S), NEW more \in Seq(S)
    PROVE  /\ text \o <<NL, MARK, NL>> \o more \in Seq(S)
           /\ Glued(text \o <<NL, MARK, NL>> \o more, text, more)
<1>. DEFINE sep == <<NL, MARK, NL>>
            head == text \o sep
            both == head \o more
<1>1. /\ sep \in Seq(S) /\ Len(sep) = 3
      /\ sep[1] = NL /\ sep[2] = MARK /\ sep[3] = NL
  OBVIOUS
<1>. HIDE DEF sep
<1>2. /\ head \in Seq(S) /\ Len(head) = Len(text) + 3
      /\ \A i \in 1..Len(text) : head[i] = text[i]
      /\ head[Len(text) + 1] = NL /\ head[Len(text) + 2] = MARK /\ head[Len(text) + 3] = NL
  <2>1. /\ head \in Seq(S) /\ Len(head) = Len(text) + Len(sep)
        /\ \A i \in 1..(Len(text) + Len(sep)) :
              head[i] = IF i <= Len(text) THEN text[i] ELSE sep[i - Len(text)]
    BY <1>1, ConcatProperties
  <2>2. Len(text) \in Nat
    OBVIOUS
  <2>. QED
    BY <2>1, <2>2, <1>1
<1>. HIDE DEF head
<1>3. /\ both \in Seq(S) /\ Len(both) = Len(head) + Len(more)
      /\ \A i \in 1..(Len(head) + Len(more)) :
            both[i] = IF i <= Len(head) THEN head[i] ELSE more[i - Len(head)]
  BY <1>2, ConcatProperties
<1>4. Len(text) \in Nat /\ Len(more) \in Nat
  OBVIOUS
<1>. HIDE DEF both
<1>5. \A i \in 1..Len(text) : both[i] = text[i]
  BY <1>2, <1>3, <1>4
<1>6. MarkAt(both, Len(text) + 1)
  BY <1>2, <1>3, <1>4 DEF MarkAt
<1>7. \A j \in 1..Len(more) : both[Len(text) + 3 + j] = more[j]
  <2>. SUFFICES ASSUME NEW j \in 1..Len(more)
                PROVE  both[Len(text) + 3 + j] = more[j]
    OBVIOUS
  <2>. DEFINE i == Len(text) + 3 + j
  <2>1. i \in 1..(Len(head) + Len(more)) /\ ~(i <= Len(head)) /\ i - Len(head) = j
    BY <1>2, <1>4
  <2>2. both[i] = more[i - Len(head)]
    BY <2>1, <1>3
  <2>. QED
    BY <2>1, <2>2
<1>. QED
  <2>1. Len(both) = Len(text) + 3 + Len(more)
    BY <1>2, <1>3, <1>4
  <2>2. Glued(both, text, more)
    BY <2>1, <1>5, <1>6, <1>7 DEF Glued
  <2>. QED
    BY <2>2, <1>3 DEF both, head, sep

\* What follows a text does not move its pages.
LEMMA LaidLonger ==
    ASSUME NEW S, NEW text \in Seq(S), NEW longer \in Seq(S),
           Len(text) <= Len(longer), \A i \in 1..Len(text) : longer[i] = text[i],
           NEW pages \in Seq(Seq(S)), NEW at, Laid(text, pages, at)
    PROVE  Laid(longer, pages, at)
<1>1. Len(text) \in Nat /\ Len(longer) \in Nat
  OBVIOUS
<1>2. at[1] = 1
  BY DEF Laid
<1>3. ASSUME NEW k \in 1..Len(pages)
      PROVE  /\ at[k] \in Nat \ {0}
             /\ at[k] + Len(pages[k]) <= Len(longer) + 1
             /\ \A j \in 1..Len(pages[k]) : longer[at[k] + j - 1] = pages[k][j]
             /\ k # Len(pages) => /\ MarkAt(longer, at[k] + Len(pages[k]))
                                  /\ at[k + 1] = at[k] + Len(pages[k]) + 3
  <2>. DEFINE p == pages[k]
  <2>1. p \in Seq(S) /\ Len(p) \in Nat
    OBVIOUS
  <2>2. /\ at[k] \in Nat \ {0} /\ at[k] + Len(p) <= Len(text) + 1
        /\ \A j \in 1..Len(p) : text[at[k] + j - 1] = p[j]
        /\ k # Len(pages) => /\ MarkAt(text, at[k] + Len(p))
                             /\ at[k + 1] = at[k] + Len(p) + 3
    BY DEF Laid
  <2>. HIDE DEF p
  <2>3. ASSUME NEW j \in 1..Len(p)
        PROVE  longer[at[k] + j - 1] = p[j]
    <3>1. at[k] + j - 1 \in 1..Len(text)
      BY <2>1, <2>2, <1>1
    <3>. QED
      BY <3>1, <2>2
  <2>4. ASSUME k # Len(pages)
        PROVE  MarkAt(longer, at[k] + Len(p))
    <3>. DEFINE i == at[k] + Len(p)
    <3>1. MarkAt(text, i)
      BY <2>4, <2>2
    <3>0. i \in Nat \ {0}
      BY <2>2, <2>1
    <3>. HIDE DEF i
    <3>2. i \in 1..Len(text) /\ i + 1 \in 1..Len(text) /\ i + 2 \in 1..Len(text)
      BY <3>0, <3>1, <1>1 DEF MarkAt
    <3>3. MarkAt(longer, i)
      BY <3>0, <3>1, <3>2, <1>1 DEF MarkAt
    <3>. QED
      BY <3>3 DEF i
  <2>5. at[k] + Len(p) <= Len(longer) + 1
    BY <2>1, <2>2, <1>1
  <2>. QED
    BY <2>2, <2>3, <2>4, <2>5 DEF p
<1>. QED
  BY <1>2, <1>3 DEF Laid

\* What follows a text does not undo the pages it begins with.
LEMMA BegunLonger ==
    ASSUME NEW S, NL \in S, MARK \in S, NEW text \in Seq(S), NEW more \in Seq(S),
           NEW pages \in Seq(Seq(S)), pages # <<>>,
           WholeText(text, pages) \/ Begun(text, pages)
    PROVE  Begun(text \o <<NL, MARK, NL>> \o more, pages)
<1>. DEFINE both == text \o <<NL, MARK, NL>> \o more
<1>0. both \in Seq(S) /\ Glued(both, text, more)
  BY MarkedConcat
<1>1. /\ both \in Seq(S) /\ Len(both) = Len(text) + 3 + Len(more)
      /\ \A i \in 1..Len(text) : both[i] = text[i]
      /\ MarkAt(both, Len(text) + 1)
  <2>. HIDE DEF both
  <2>. QED
    BY <1>0 DEF Glued
<1>2. Len(text) \in Nat /\ Len(more) \in Nat
  OBVIOUS
<1>. HIDE DEF both
<1>3. CASE WholeText(text, pages)
  <2>1. PICK at : Laid(text, pages, at) /\ EndOf(pages, at) = Len(text) + 1
    BY <1>3 DEF WholeText
  <2>2. Laid(both, pages, at)
    <3>1. Len(text) <= Len(both)
      BY <1>1, <1>2
    <3>2. Laid(text, pages, at)
      BY <2>1
    <3>. QED
      BY <3>1, <3>2, <1>1, LaidLonger
  <2>. QED
    BY <2>1, <2>2, <1>1 DEF Begun, both
<1>4. CASE Begun(text, pages)
  <2>1. PICK at : Laid(text, pages, at) /\ MarkAt(text, EndOf(pages, at))
    BY <1>4 DEF Begun
  <2>2. Laid(both, pages, at)
    <3>1. Len(text) <= Len(both)
      BY <1>1, <1>2
    <3>2. Laid(text, pages, at)
      BY <2>1
    <3>. QED
      BY <3>1, <3>2, <1>1, LaidLonger
  <2>. DEFINE i == EndOf(pages, at)
  <2>3. i \in Nat \ {0}
    <3>1. Len(pages) \in 1..Len(pages)
      BY EmptySeq
    <3>2. at[Len(pages)] \in Nat \ {0} /\ pages[Len(pages)] \in Seq(S)
      BY <3>1, <2>1 DEF Laid
    <3>. QED
      BY <3>2 DEF EndOf
  <2>. HIDE DEF i
  <2>4. MarkAt(text, i)
    BY <2>1 DEF i
  <2>5. i \in 1..Len(text) /\ i + 1 \in 1..Len(text) /\ i + 2 \in 1..Len(text)
    BY <2>3, <2>4, <1>2 DEF MarkAt
  <2>6. MarkAt(both, i)
    BY <2>4, <2>5, <1>1, <1>2 DEF MarkAt
  <2>. QED
    BY <2>2, <2>6 DEF Begun, both, i
<1>. QED
  BY <1>3, <1>4

\* A text by itself is one page.
LEMMA WholeOne ==
    ASSUME NEW S, NEW text \in Seq(S)
    PROVE  WholeText(text, <<text>>)
<1>. DEFINE at == <<1>>
<1>1. Len(text) \in Nat /\ Len(<<text>>) = 1 /\ <<text>>[1] = text /\ at[1] = 1
  OBVIOUS
<1>. HIDE DEF at
<1>2. Laid(text, <<text>>, at)
  <2>1. \A j \in 1..Len(text) : text[1 + j - 1] = text[j]
    BY <1>1
  <2>. QED
    BY <1>1, <2>1 DEF Laid
<1>3. EndOf(<<text>>, at) = Len(text) + 1
  BY <1>1 DEF EndOf
<1>. QED
  BY <1>2, <1>3 DEF WholeText

\* Two texts that are their pages, joined by a marker, are the pages of both.
LEMMA WholeConcat ==
    ASSUME NEW S, NL \in S, MARK \in S, NEW text \in Seq(S), NEW more \in Seq(S),
           NEW p \in Seq(Seq(S)), p # <<>>, NEW q \in Seq(Seq(S)), q # <<>>,
           WholeText(text, p), WholeText(more, q)
    PROVE  WholeText(text \o <<NL, MARK, NL>> \o more, p \o q)
<1>. DEFINE both == text \o <<NL, MARK, NL>> \o more
            pages == p \o q
            m == Len(p)
            n == Len(q)
            off == Len(text) + 3
<1>0. both \in Seq(S) /\ Glued(both, text, more)
  BY MarkedConcat
<1>1. /\ both \in Seq(S) /\ Len(both) = Len(text) + 3 + Len(more)
      /\ \A i \in 1..Len(text) : both[i] = text[i]
      /\ MarkAt(both, Len(text) + 1)
      /\ \A j \in 1..Len(more) : both[Len(text) + 3 + j] = more[j]
  <2>. HIDE DEF both
  <2>. QED
    BY <1>0 DEF Glued
<1>2. Len(text) \in Nat /\ Len(more) \in Nat /\ m \in Nat \ {0} /\ n \in Nat \ {0} /\ off \in Nat
  BY EmptySeq
<1>3. /\ pages \in Seq(Seq(S)) /\ Len(pages) = m + n
      /\ \A k \in 1..(m + n) : pages[k] = IF k <= m THEN p[k] ELSE q[k - m]
  BY ConcatProperties
<1>4. PICK at : Laid(text, p, at) /\ EndOf(p, at) = Len(text) + 1
  BY DEF WholeText
<1>5. PICK to : Laid(more, q, to) /\ EndOf(q, to) = Len(more) + 1
  BY DEF WholeText
<1>. DEFINE new == [k \in 1..(m + n) |-> IF k <= m THEN at[k] ELSE off + to[k - m]]
<1>6. /\ \A k \in 1..m : p[k] \in Seq(S) /\ Len(p[k]) \in Nat
      /\ \A k \in 1..n : q[k] \in Seq(S) /\ Len(q[k]) \in Nat
  OBVIOUS
<1>7. at[m] + Len(p[m]) = Len(text) + 1 /\ to[n] + Len(q[n]) = Len(more) + 1 /\ to[1] = 1 /\ at[1] = 1
  BY <1>4, <1>5 DEF EndOf, Laid
<1>8. Laid(both, p, at)
  <2>1. Len(text) <= Len(both)
    BY <1>1, <1>2
  <2>. QED
    BY <2>1, <1>1, <1>4, LaidLonger
<1>9. \A k \in 1..m :
        /\ at[k] \in Nat \ {0} /\ at[k] + Len(p[k]) <= Len(both) + 1
        /\ \A j \in 1..Len(p[k]) : both[at[k] + j - 1] = p[k][j]
        /\ k # m => MarkAt(both, at[k] + Len(p[k])) /\ at[k + 1] = at[k] + Len(p[k]) + 3
  BY <1>8 DEF Laid
<1>10. \A k \in 1..n :
        /\ to[k] \in Nat \ {0} /\ to[k] + Len(q[k]) <= Len(more) + 1
        /\ \A j \in 1..Len(q[k]) : more[to[k] + j - 1] = q[k][j]
        /\ k # n => MarkAt(more, to[k] + Len(q[k])) /\ to[k + 1] = to[k] + Len(q[k]) + 3
  BY <1>5 DEF Laid
<1>. HIDE DEF both, pages, m, n, off
<1>11. off = Len(text) + 3
  BY DEF off
<1>17. Len(both) = off + Len(more) /\ Len(both) \in Nat
  <2>1. Len(both) = Len(text) + 3 + Len(more)
    BY <1>1
  <2>. QED
    BY <2>1, <1>2, <1>11
<1>12. /\ \A k \in 1..m : k \in 1..(m + n) /\ new[k] = at[k] /\ pages[k] = p[k]
       /\ \A k \in 1..n : m + k \in 1..(m + n) /\ new[m + k] = off + to[k] /\ pages[m + k] = q[k]
  <2>1. ASSUME NEW k \in 1..n
        PROVE  m + k \in 1..(m + n) /\ ~(m + k <= m) /\ (m + k) - m = k
    BY <1>2
  <2>2. ASSUME NEW k \in 1..m
        PROVE  k \in 1..(m + n) /\ k <= m
    BY <1>2
  <2>. QED
    BY <2>1, <2>2, <1>3
<1>. HIDE DEF new
<1>13. ASSUME NEW k \in 1..m
       PROVE  /\ new[k] \in Nat \ {0}
              /\ new[k] + Len(pages[k]) <= Len(both) + 1
              /\ \A j \in 1..Len(pages[k]) : both[new[k] + j - 1] = pages[k][j]
              /\ k # m + n => /\ MarkAt(both, new[k] + Len(pages[k]))
                              /\ new[k + 1] = new[k] + Len(pages[k]) + 3
  <2>1. new[k] = at[k] /\ pages[k] = p[k]
    BY <1>12
  <2>2. CASE k # m
    <3>1. k + 1 \in 1..m
      BY <2>2, <1>2
    <3>2. new[k + 1] = at[k + 1]
      BY <3>1, <1>12
    <3>. QED
      BY <2>1, <2>2, <3>2, <1>9
  <2>3. CASE k = m
    <3>1. at[k] + Len(p[k]) = Len(text) + 1
      BY <2>3, <1>7
    <3>2. new[k + 1] = off + 1
      <4>1. 1 \in 1..n
        BY <1>2
      <4>. QED
        BY <4>1, <1>12, <1>7, <2>3
    <3>3. new[k + 1] = new[k] + Len(pages[k]) + 3
      <4>1. at[k] \in Nat /\ Len(p[k]) \in Nat
        BY <1>9, <1>6
      <4>. QED
        BY <4>1, <3>1, <3>2, <2>1, <1>11, <1>2
    <3>. QED
      BY <2>1, <3>1, <3>3, <1>1, <1>9
  <2>. QED
    BY <2>2, <2>3
<1>14. ASSUME NEW i \in 1..n
       PROVE  /\ new[m + i] \in Nat \ {0}
              /\ new[m + i] + Len(pages[m + i]) <= Len(both) + 1
              /\ \A j \in 1..Len(pages[m + i]) : both[new[m + i] + j - 1] = pages[m + i][j]
              /\ m + i # m + n => /\ MarkAt(both, new[m + i] + Len(pages[m + i]))
                                  /\ new[m + i + 1] = new[m + i] + Len(pages[m + i]) + 3
  <2>1. new[m + i] = off + to[i] /\ pages[m + i] = q[i]
    BY <1>12
  <2>2. to[i] \in Nat \ {0} /\ to[i] + Len(q[i]) <= Len(more) + 1 /\ Len(q[i]) \in Nat
    BY <1>10, <1>6
  <2>3. new[m + i] \in Nat \ {0} /\ new[m + i] + Len(pages[m + i]) <= Len(both) + 1
    <3>1. Len(pages[m + i]) = Len(q[i])
      BY <2>1
    <3>. QED
      <4>1. off + to[i] + Len(q[i]) <= Len(both) + 1
        BY <2>2, <1>2, <1>17, Sums, Zenon
      <4>2. off + to[i] \in Nat \ {0}
        BY SMTT(40), <2>2, <1>2
      <4>. QED
        BY <4>1, <4>2, <3>1, <2>1
  <2>4. ASSUME NEW j \in 1..Len(q[i])
        PROVE  both[new[m + i] + j - 1] = q[i][j]
    <3>. DEFINE x == to[i] + j - 1
    <3>1. x \in 1..Len(more) /\ new[m + i] + j - 1 = Len(text) + 3 + x
      <4>1. x \in 1..Len(more)
        BY SMTT(40), <2>2, <1>2
      <4>2. new[m + i] + j - 1 = off + x
        BY <2>1, <2>2, <1>2
      <4>3. x \in Nat
        BY <4>1
      <4>. HIDE DEF x
      <4>. QED
        BY <4>1, <4>2, <4>3, <1>2, <1>11
    <3>2. more[x] = q[i][j]
      BY <1>10
    <3>. HIDE DEF x
    <3>. QED
      BY <3>1, <3>2, <1>1
  <2>5. ASSUME m + i # m + n
        PROVE  MarkAt(both, new[m + i] + Len(q[i])) /\ new[m + i + 1] = new[m + i] + Len(q[i]) + 3
    <3>. DEFINE x == to[i] + Len(q[i])
    <3>1. i # n /\ i + 1 \in 1..n
      BY <2>5, <1>2
    <3>2. MarkAt(more, x) /\ to[i + 1] = x + 3
      BY <3>1, <1>10
    <3>3. x \in Nat \ {0} /\ new[m + i] + Len(q[i]) = off + x
      <4>1. new[m + i] = off + to[i]
        BY <2>1
      <4>2. off + to[i] + Len(q[i]) = off + x
        BY <2>2, <1>2
      <4>. QED
        BY SMTT(40), <4>1, <4>2, <2>2
    <3>. HIDE DEF x
    <3>4. /\ x \in 1..Len(more) /\ x + 1 \in 1..Len(more) /\ x + 2 \in 1..Len(more)
          /\ more[x] = NL /\ more[x + 1] = MARK /\ more[x + 2] = NL
      BY SMTT(40), <3>2, <3>3, <1>2 DEF MarkAt
    <3>5. both[off + x] = NL /\ both[off + (x + 1)] = MARK /\ both[off + (x + 2)] = NL
      BY <3>4, <1>1, <1>11
    <3>6. MarkAt(both, off + x)
      <4>1. off + x + 1 = off + (x + 1) /\ off + x + 2 = off + (x + 2)
        BY <3>3, <1>2
      <4>2. off + x + 2 <= Len(both)
        BY <3>4, <1>1, <1>2, <1>11
      <4>. QED
        BY <3>5, <4>1, <4>2 DEF MarkAt
    <3>7. new[m + i + 1] = off + x + 3
      <4>1. m + i + 1 = m + (i + 1)
        BY <1>2
      <4>2. new[m + (i + 1)] = off + to[i + 1]
        BY <3>1, <1>12
      <4>. QED
        BY <4>1, <4>2, <3>2, <3>3, <1>2
    <3>. QED
      BY <3>3, <3>6, <3>7, <1>2
  <2>. QED
    BY <2>1, <2>3, <2>4, <2>5
<1>15. Laid(both, pages, new)
  <2>1. new[1] = 1
    BY SMTT(40), <1>2, <1>7, <1>12
  <2>2. ASSUME NEW k \in 1..(m + n), ~(k \in 1..m)
        PROVE  k - m \in 1..n /\ m + (k - m) = k
    BY <2>2, <1>2
  <2>3. ASSUME NEW k \in 1..(m + n)
        PROVE  /\ new[k] \in Nat \ {0}
               /\ new[k] + Len(pages[k]) <= Len(both) + 1
               /\ \A j \in 1..Len(pages[k]) : both[new[k] + j - 1] = pages[k][j]
               /\ k # m + n => /\ MarkAt(both, new[k] + Len(pages[k]))
                               /\ new[k + 1] = new[k] + Len(pages[k]) + 3
    <3>1. CASE k \in 1..m
      BY <3>1, <1>13
    <3>2. CASE ~(k \in 1..m)
      <4>1. PICK i \in 1..n : m + i = k
        BY <3>2, <2>2
      <4>. QED
        BY <4>1, <1>14
    <3>. QED
      BY <3>1, <3>2
  <2>4. Len(pages) = m + n
    BY <1>3 DEF pages
  <2>. QED
    BY <2>1, <2>3, <2>4 DEF Laid
<1>16. EndOf(pages, new) = Len(both) + 1
  <2>1. Len(pages) = m + n /\ n \in 1..n
    BY <1>2, <1>3 DEF pages
  <2>2. new[m + n] = off + to[n] /\ pages[m + n] = q[n]
    BY <2>1, <1>12
  <2>3. to[n] \in Nat /\ Len(q[n]) \in Nat
    BY <2>1, <1>6, <1>10
  <2>4. EndOf(pages, new) = off + to[n] + Len(q[n])
    BY <2>1, <2>2 DEF EndOf
  <2>. QED
    <3>1. to[n] + Len(q[n]) = Len(more) + 1
      BY <1>7
    <3>. QED
      <4>1. PICK l \in Nat : l = Len(more)
        BY <1>2
      <4>2. PICK w \in Nat : w = Len(both)
        BY <1>17
      <4>3. PICK y \in Nat : y = Len(q[n])
        BY <2>3
      <4>5. PICK x \in Nat : x = to[n]
        BY <2>3
      <4>4. off + x + y = w + 1
        <5>1. w = off + l
          BY <1>17, <4>1, <4>2
        <5>2. x + y = l + 1
          BY <3>1, <4>1, <4>3, <4>5
        <5>3. off \in Nat
          BY <1>2
        <5>. QED
          BY <5>1, <5>2, <5>3
      <4>. QED
        BY <4>2, <4>3, <4>4, <4>5, <2>4
<1>. QED
  BY <1>15, <1>16 DEF WholeText, both, pages

\* All but the last of a sequence, and the last.
Split(list, front, x) ==
    /\ Len(list) = Len(front) + 1
    /\ list = Append(front, x)
    /\ x = list[Len(list)]
    /\ \A k \in 1..Len(front) : front[k] = list[k]

\* Every sequence that is not empty has them.
LEMMA FrontAndLast ==
    ASSUME NEW T, NEW list \in Seq(T), list # <<>>
    PROVE  \E front \in Seq(T), x \in T : Split(list, front, x)
<1>0. PICK n \in Nat : Len(list) = n + 1
  <2>1. Len(list) - 1 \in Nat /\ Len(list) = (Len(list) - 1) + 1
    BY EmptySeq
  <2>. QED
    BY <2>1
<1>. DEFINE front == [k \in 1..n |-> list[k]]
<1>1. \A k \in 1..(n + 1) : list[k] \in T
  BY <1>0
<1>2. front \in Seq(T) /\ Len(front) = n /\ \A k \in 1..n : front[k] = list[k]
  <2>1. \A k \in 1..n : list[k] \in T
    BY <1>1
  <2>2. front \in [1..n -> T]
    BY <2>1
  <2>. QED
    BY <2>2
<1>. HIDE DEF front
<1>3. list[n + 1] \in T
  BY <1>1
<1>. DEFINE again == Append(front, list[n + 1])
<1>4. /\ again \in Seq(T) /\ Len(again) = n + 1
      /\ \A k \in 1..n : again[k] = front[k]
      /\ again[n + 1] = list[n + 1]
  BY <1>2, <1>3, AppendProperties
<1>. HIDE DEF again
<1>5. \A k \in 1..(n + 1) : again[k] = list[k]
  <2>. SUFFICES ASSUME NEW k \in 1..(n + 1) PROVE again[k] = list[k]
    OBVIOUS
  <2>1. CASE k = n + 1
    BY <2>1, <1>4
  <2>2. CASE k # n + 1
    <3>1. k \in 1..n
      BY <2>2
    <3>. QED
      BY <3>1, <1>2, <1>4
  <2>. QED
    BY <2>1, <2>2
<1>6. list = again
  BY <1>0, <1>4, <1>5, SeqEqual
<1>7. Split(list, front, list[n + 1])
  BY <1>0, <1>2, <1>6 DEF again, Split
<1>. QED
  BY <1>2, <1>3, <1>7

\* The texts that adapters join are the joined text.
LEMMA JoinedWhole ==
    ASSUME NEW S, NL \in S, MARK \in S
    PROVE  \A pages \in Seq(Seq(S)) :
              pages # <<>> => JoinedPages(pages) \in Seq(S) /\ WholeText(JoinedPages(pages), pages)
<1>. DEFINE Good(pages) == JoinedPages(pages) \in Seq(S) /\ WholeText(JoinedPages(pages), pages)
            T == {n \in Nat : \A pages \in Seq(Seq(S)) : Len(pages) = n + 1 => Good(pages)}
<1>1. 0 \in T
  <2>. SUFFICES ASSUME NEW pages \in Seq(Seq(S)), Len(pages) = 1 PROVE Good(pages)
    OBVIOUS
  <2>1. JoinedPages(pages) = pages[1]
    BY JoinedOne
  <2>2. pages[1] \in Seq(S) /\ pages = <<pages[1]>>
    OBVIOUS
  <2>. QED
    BY <2>1, <2>2, WholeOne
<1>2. ASSUME NEW n \in Nat, n \in T
      PROVE  n + 1 \in T
  <2>. SUFFICES ASSUME NEW pages \in Seq(Seq(S)), Len(pages) = (n + 1) + 1 PROVE Good(pages)
    OBVIOUS
  <2>0. PICK front \in Seq(Seq(S)), x \in Seq(S) : Split(pages, front, x)
    <3>1. pages # <<>>
      OBVIOUS
    <3>. QED
      BY <3>1, FrontAndLast
  <2>1. Len(front) = n + 1
    BY <2>0 DEF Split
  <2>2. x \in Seq(S) /\ pages = Append(front, x)
    BY <2>0 DEF Split
  <2>3. Good(front)
    BY <1>2, <2>1
  <2>4. front # <<>>
    BY <2>1
  <2>5. JoinedPages(pages) = JoinedPages(front) \o <<NL, MARK, NL>> \o x
    BY <2>2, <2>4, JoinedMore
  <2>6. WholeText(x, <<x>>)
    BY <2>2, WholeOne
  <2>7. Append(front, x) = front \o <<x>>
    BY <2>2
  <2>8. <<x>> \in Seq(Seq(S)) /\ <<x>> # <<>>
    BY <2>2
  <2>. DEFINE before == JoinedPages(front)
  <2>9. before \in Seq(S) /\ WholeText(before, front)
    BY <2>3
  <2>. HIDE DEF before
  <2>10. WholeText(before \o <<NL, MARK, NL>> \o x, front \o <<x>>)
    BY <2>2, <2>4, <2>6, <2>8, <2>9, WholeConcat
  <2>11. before \o <<NL, MARK, NL>> \o x \in Seq(S)
    BY <2>2, <2>9, MarkedConcat
  <2>. QED
    BY <2>2, <2>5, <2>7, <2>10, <2>11 DEF before
<1>3. \A n \in Nat : n \in T
  <2>. HIDE DEF T
  <2>. QED
    BY <1>1, <1>2, SetInduction
<1>. SUFFICES ASSUME NEW pages \in Seq(Seq(S)), pages # <<>> PROVE Good(pages)
  OBVIOUS
<1>4. Len(pages) - 1 \in Nat /\ Len(pages) = (Len(pages) - 1) + 1
  BY EmptySeq
<1>. QED
  BY <1>3, <1>4

\* Pages without a marker in them have one marker less than there are pages.
LEMMA MarksOfJoined ==
    ASSUME NEW S, NL \in S, MARK \in S
    PROVE  \A pages \in Seq(Seq(S)) :
              /\ pages # <<>>
              /\ \A k \in 1..Len(pages) : \A j \in 1..Len(pages[k]) : pages[k][j] # MARK
              => Count(JoinedPages(pages), MARK) = Len(pages) - 1
<1>. DEFINE Marks(text) == {i \in DOMAIN text : text[i] = MARK}
            Clean(pages) == \A k \in 1..Len(pages) : \A j \in 1..Len(pages[k]) : pages[k][j] # MARK
            Good(pages) == /\ IsFiniteSet(Marks(JoinedPages(pages)))
                           /\ Cardinality(Marks(JoinedPages(pages))) = Len(pages) - 1
            T == {n \in Nat : \A pages \in Seq(Seq(S)) :
                                 Len(pages) = n + 1 /\ Clean(pages) => Good(pages)}
<1>1. 0 \in T
  <2>. SUFFICES ASSUME NEW pages \in Seq(Seq(S)), Len(pages) = 1, Clean(pages) PROVE Good(pages)
    BY SMTT(40)
  <2>1. JoinedPages(pages) = pages[1]
    BY JoinedOne
  <2>2. DOMAIN pages[1] = 1..Len(pages[1])
    OBVIOUS
  <2>3. Marks(pages[1]) = {}
    BY <2>2
  <2>. HIDE DEF Marks
  <2>. QED
    BY <2>1, <2>3, FS_EmptySet
<1>2. ASSUME NEW n \in Nat, n \in T
      PROVE  n + 1 \in T
  <2>. SUFFICES ASSUME NEW pages \in Seq(Seq(S)), Len(pages) = (n + 1) + 1, Clean(pages)
                PROVE  Good(pages)
    <3>. HIDE DEF Clean, Good
    <3>. QED
      OBVIOUS
  <2>0. PICK front \in Seq(Seq(S)), x \in Seq(S) : Split(pages, front, x)
    <3>1. pages # <<>>
      OBVIOUS
    <3>. QED
      BY <3>1, FrontAndLast
  <2>1. Len(front) = n + 1 /\ \A k \in 1..(n + 1) : front[k] = pages[k]
    BY <2>0 DEF Split
  <2>. DEFINE before == JoinedPages(front)
              both == before \o <<NL, MARK, NL>> \o x
  <2>2. x \in Seq(S) /\ pages = Append(front, x) /\ \A j \in 1..Len(x) : x[j] # MARK
    <3>1. Len(pages) \in 1..Len(pages)
      OBVIOUS
    <3>. QED
      BY <3>1, <2>0 DEF Split
  <2>3. Clean(front)
    <3>1. \A k \in 1..(n + 1) : k \in 1..Len(pages)
      OBVIOUS
    <3>. QED
      BY <3>1, <2>1
  <2>4. Good(front) /\ front # <<>>
    <3>. HIDE DEF Clean, Good
    <3>. QED
      BY <1>2, <2>1, <2>3
  <2>5. JoinedPages(pages) = both
    BY <2>2, <2>4, JoinedMore
  <2>6. before \in Seq(S)
    BY <2>4, JoinedWhole
  <2>. HIDE DEF before
  <2>7. both \in Seq(S) /\ Glued(both, before, x)
    BY <2>2, <2>6, MarkedConcat
  <2>. HIDE DEF both
  <2>8. PICK l \in Nat, m \in Nat : l = Len(before) /\ m = Len(x)
    BY <2>2, <2>6
  <2>9. /\ Len(both) = l + 3 + m
        /\ \A i \in 1..l : both[i] = before[i]
        /\ both[l + 1] = NL /\ both[l + 2] = MARK /\ both[l + 3] = NL
        /\ \A j \in 1..m : both[l + 3 + j] = x[j]
    <3>1. (l + 1) + 1 = l + 2 /\ (l + 1) + 2 = l + 3
      OBVIOUS
    <3>. QED
      BY <2>7, <2>8, <3>1 DEF Glued, MarkAt
  <2>10. DOMAIN both = 1..(l + 3 + m) /\ DOMAIN before = 1..l
    BY <2>6, <2>7, <2>8, <2>9
  <2>11. Marks(both) = Marks(before) \cup {l + 2}
    <3>1. ASSUME NEW i \in 1..(l + 3 + m), both[i] = MARK
          PROVE  i = l + 2 \/ (i \in 1..l /\ before[i] = MARK)
      <4>1. NL # MARK
        BY DEF NL, MARK
      <4>2. CASE i \in 1..l
        BY <4>2, <3>1, <2>9
      <4>3. CASE i > l + 3
        <5>1. i - (l + 3) \in 1..m /\ (l + 3) + (i - (l + 3)) = i
          BY <4>3
        <5>2. both[i] = x[i - (l + 3)]
          BY <5>1, <2>9
        <5>. QED
          BY <5>1, <5>2, <3>1, <2>2, <2>8
      <4>4. CASE i = l + 1 \/ i = l + 3
        BY <4>1, <4>4, <3>1, <2>9
      <4>5. i \in 1..l \/ i > l + 3 \/ (i = l + 1 \/ i = l + 3) \/ i = l + 2
        OBVIOUS
      <4>. QED
        BY <4>2, <4>3, <4>4, <4>5
    <3>2. l + 2 \in 1..(l + 3 + m) /\ 1..l \subseteq 1..(l + 3 + m)
      OBVIOUS
    <3>. QED
      BY <3>1, <3>2, <2>9, <2>10
  <2>12. l + 2 \notin Marks(before)
    BY <2>10
  <2>13. IsFiniteSet(Marks(before)) /\ Cardinality(Marks(before)) = n
    BY <2>4, <2>1 DEF before
  <2>. HIDE DEF Marks
  <2>14. IsFiniteSet(Marks(both)) /\ Cardinality(Marks(both)) = n + 1
    <3>1. PICK y : y = l + 2
      OBVIOUS
    <3>2. Marks(both) = Marks(before) \cup {y} /\ y \notin Marks(before)
      BY <3>1, <2>11, <2>12
    <3>3. PICK M : M = Marks(before)
      OBVIOUS
    <3>4. IsFiniteSet(M) /\ Cardinality(M) = n /\ y \notin M
      BY <3>2, <3>3, <2>13
    <3>5. IsFiniteSet(M \cup {y}) /\ Cardinality(M \cup {y}) = Cardinality(M) + 1
      BY ONLY <3>4, FS_AddElement
    <3>. QED
      BY ONLY <3>2, <3>3, <3>4, <3>5
  <2>. QED
    BY <2>5, <2>14
<1>3. \A n \in Nat : n \in T
  <2>. HIDE DEF T
  <2>. QED
    BY <1>1, <1>2, SetInduction
<1>. SUFFICES ASSUME NEW pages \in Seq(Seq(S)), pages # <<>>, Clean(pages)
              PROVE  Count(JoinedPages(pages), MARK) = Len(pages) - 1
  OBVIOUS
<1>4. Len(pages) - 1 \in Nat /\ Len(pages) = (Len(pages) - 1) + 1
  BY EmptySeq
<1>5. Good(pages)
  BY <1>3, <1>4
<1>. QED
  BY <1>5 DEF Count
-------------------------------------------------------------------------------
\* A text that neither begins nor ends with a line break.
Solid(text) == text = <<>> \/ (text[1] # NL /\ text[Len(text)] # NL)

\* Trimming changes nothing of a text that has nothing to trim.
LEMMA TrimProperties ==
    ASSUME NEW S, NEW text \in Seq(S)
    PROVE  Trim(text) \in Seq(S) /\ (Solid(text) => Trim(text) = text)
<1>. DEFINE solid == {i \in DOMAIN text : text[i] # NL}
<1>1. PICK n \in Nat : n = Len(text)
  OBVIOUS
<1>2. solid \in SUBSET (1..n) /\ solid \in SUBSET Nat
  BY <1>1
<1>3. CASE solid = {}
  <2>1. Trim(text) = <<>>
    BY <1>3 DEF Trim
  <2>2. Solid(text) => text = <<>>
    <3>. SUFFICES ASSUME text # <<>>, text[1] # NL PROVE FALSE
      BY DEF Solid
    <3>1. 1 \in DOMAIN text
      BY EmptySeq
    <3>. QED
      BY <1>3, <3>1
  <2>. QED
    BY <2>1, <2>2
<1>4. CASE solid # {}
  <2>1. Trim(text) = SubSeq(text, Min(solid), Max(solid))
    BY <1>4 DEF Trim
  <2>2. \E m \in solid : \A k \in solid : m <= k
    <3>. HIDE DEF solid
    <3>. QED
      BY <1>2, <1>4, LeastOfSet
  <2>3. \E m \in solid : \A k \in solid : m >= k
    <3>. HIDE DEF solid
    <3>. QED
      BY <1>2, <1>4, GreatestOfSet
  <2>4. PICK l : l = Min(solid) /\ l \in solid /\ \A k \in solid : l <= k
    <3>. HIDE DEF solid
    <3>. QED
      BY <2>2 DEF Min
  <2>5. PICK g : g = Max(solid) /\ g \in solid /\ \A k \in solid : g >= k
    <3>. HIDE DEF solid
    <3>. QED
      BY <2>3 DEF Max
  <2>6. l \in 1..n /\ g \in 1..n
    BY <1>2, <2>4, <2>5
  <2>7. Trim(text) = SubSeq(text, l, g)
    BY <2>1, <2>4, <2>5
  <2>8. \A i \in l..g : text[i] \in S
    BY <1>1, <2>6
  <2>9. /\ SubSeq(text, l, g) \in Seq(S)
        /\ Len(SubSeq(text, l, g)) = IF l <= g THEN g - l + 1 ELSE 0
        /\ \A i \in 1..(g - l + 1) : SubSeq(text, l, g)[i] = text[l + i - 1]
    BY <2>6, <2>8, SubSeqProperties
  <2>10. ASSUME Solid(text)
         PROVE  Trim(text) = text
    <3>1. text # <<>>
      BY <1>4
    <3>2. 1 \in solid /\ n \in solid
      BY <2>10, <3>1, <1>1, EmptySeq DEF Solid
    <3>. HIDE DEF solid
    <3>3. l = 1 /\ g = n
      <4>1. l <= 1 /\ g >= n
        BY <3>2, <2>4, <2>5
      <4>. QED
        BY <4>1, <2>6
    <3>4. Len(SubSeq(text, 1, n)) = n /\ \A i \in 1..n : SubSeq(text, 1, n)[i] = text[i]
      <4>1. 1 <= n /\ n - 1 + 1 = n /\ \A i \in 1..n : 1 + i - 1 = i
        BY <2>6
      <4>. QED
        BY <4>1, <3>3, <2>9
    <3>. QED
      BY <3>3, <3>4, <2>7, <2>9, <1>1, SeqEqual
  <2>. QED
    BY <2>7, <2>9, <2>10
<1>. QED
  BY <1>3, <1>4

\* What the splitting of a text is built from: one turn of it, and all of them.
SplitTurn(text, before, i) ==
    IF i = 0 THEN [pages |-> <<>>, from |-> 1]
    ELSE LET seen == before[i-1] IN
         IF seen.from <= i /\ BreakAt(text, i)
         THEN [pages |-> Append(seen.pages, Trim(SubSeq(text, seen.from, i - 1))), from |-> i + 3]
         ELSE seen

\* All turns up to the n-th.
IsSplitting(text, split, n) == split = [i \in 0..n |-> SplitTurn(text, split, i)]

\* The turns are there, however long the text is.
LEMMA SplittingExists ==
    ASSUME NEW text
    PROVE  \A n \in Nat : \E split : IsSplitting(text, split, n)
<1>. DEFINE T == {n \in Nat : \E split : IsSplitting(text, split, n)}
<1>1. 0 \in T
  <2>. DEFINE split == [i \in 0..0 |-> [pages |-> <<>>, from |-> 1]]
  <2>1. IsSplitting(text, split, 0)
    BY DEF IsSplitting, SplitTurn
  <2>. QED
    BY <2>1
<1>2. ASSUME NEW n \in Nat, n \in T
      PROVE  n + 1 \in T
  <2>1. PICK split : IsSplitting(text, split, n)
    BY <1>2
  <2>. DEFINE more == [i \in 0..(n+1) |-> SplitTurn(text, split, i)]
  <2>2. \A i \in 0..n : more[i] = split[i]
    BY <2>1 DEF IsSplitting
  <2>3. \A i \in 0..(n+1) : SplitTurn(text, split, i) = SplitTurn(text, more, i)
    <3>. SUFFICES ASSUME NEW i \in 0..(n+1), i # 0
                  PROVE  split[i-1] = more[i-1]
      BY DEF SplitTurn
    <3>1. i - 1 \in 0..n
      OBVIOUS
    <3>. QED
      BY <3>1, <2>2
  <2>4. IsSplitting(text, more, n + 1)
    BY <2>3 DEF IsSplitting
  <2>. QED
    BY <2>4
<1>. HIDE DEF T
<1>3. \A n \in Nat : n \in T
  BY <1>1, <1>2, SetInduction
<1>. QED
  BY <1>3 DEF T

\* What has been read at i, and how one more token changes it.
Reads(split, i, pages, from) == split[i].pages = pages /\ split[i].from = from

\* One more token: a break ends a page, or nothing changes.
Advances(text, split, i) ==
    IF split[i-1].from <= i /\ BreakAt(text, i)
    THEN Reads(split, i, Append(split[i-1].pages, Trim(SubSeq(text, split[i-1].from, i - 1))), i + 3)
    ELSE split[i] = split[i-1]

\* SplitIntoPages is what the last turn leaves, and the rest of the text.
LEMMA SplitByTurns ==
    ASSUME NEW S, NEW text \in Seq(S)
    PROVE  \E split :
              /\ Reads(split, 0, <<>>, 1)
              /\ \A i \in 1..Len(text) : Advances(text, split, i)
              /\ SplitIntoPages(text) =
                    Append(split[Len(text)].pages,
                           Trim(SubSeq(text, split[Len(text)].from, Len(text))))
<1>1. Len(text) \in Nat
  OBVIOUS
<1>2. \E split : IsSplitting(text, split, Len(text))
  BY <1>1, SplittingExists
<1>. DEFINE split == CHOOSE f : IsSplitting(text, f, Len(text))
<1>3. IsSplitting(text, split, Len(text))
  BY <1>2
<1>4. SplitIntoPages(text) = Append(split[Len(text)].pages,
                                    Trim(SubSeq(text, split[Len(text)].from, Len(text))))
  BY DEF SplitIntoPages, IsSplitting, SplitTurn
<1>. HIDE DEF split
<1>5. \A i \in 0..Len(text) : split[i] = SplitTurn(text, split, i)
  BY <1>3 DEF IsSplitting
<1>6. Reads(split, 0, <<>>, 1)
  <2>1. split[0] = [pages |-> <<>>, from |-> 1]
    <3>1. 0 \in 0..Len(text)
      BY <1>1
    <3>2. split[0] = SplitTurn(text, split, 0)
      BY <1>5, <3>1
    <3>. QED
      BY <3>2 DEF SplitTurn
  <2>. QED
    BY <2>1 DEF Reads
<1>7. ASSUME NEW i \in 1..Len(text)
      PROVE  Advances(text, split, i)
  <2>1. split[i] = SplitTurn(text, split, i) /\ i # 0
    BY <1>5
  <2>. DEFINE seen == split[i-1]
  <2>2. CASE seen.from <= i /\ BreakAt(text, i)
    <3>1. split[i] = [pages |-> Append(seen.pages, Trim(SubSeq(text, seen.from, i - 1))),
                      from |-> i + 3]
      BY <2>1, <2>2 DEF SplitTurn
    <3>. QED
      BY <3>1, <2>2 DEF Advances, Reads
  <2>3. CASE ~(seen.from <= i /\ BreakAt(text, i))
    <3>1. split[i] = seen
      BY <2>1, <2>3 DEF SplitTurn
    <3>. QED
      BY <3>1, <2>3 DEF Advances
  <2>. QED
    BY <2>2, <2>3
<1>. QED
  BY <1>4, <1>6, <1>7

\* No break begins after m up to n.
Unbroken(text, split, m, n) ==
    \A i \in (m + 1)..n :
        Advances(text, split, i) /\ ~ (split[m].from <= i /\ BreakAt(text, i))

\* Nothing is read from m to n.
Still(split, m, n) == \A i \in m..n : split[i] = split[m]

\* Without a break in between nothing is split off.
LEMMA SplitStays ==
    ASSUME NEW text, NEW split, NEW m \in Nat, NEW n \in Nat, Unbroken(text, split, m, n)
    PROVE  Still(split, m, n)
<1>. DEFINE T == {d \in Nat : m + d <= n => split[m + d] = split[m]}
<1>1. 0 \in T
  BY m + 0 = m
<1>2. ASSUME NEW d \in Nat, d \in T
      PROVE  d + 1 \in T
  <2>. SUFFICES ASSUME m + (d + 1) <= n PROVE split[m + (d + 1)] = split[m]
    OBVIOUS
  <2>1. PICK i \in (m + 1)..n : i = m + (d + 1) /\ i - 1 = m + d
    BY m + (d + 1) \in (m + 1)..n, (m + (d + 1)) - 1 = m + d
  <2>2. split[i-1] = split[m]
    BY <1>2, <2>1
  <2>3. split[i] = split[i-1]
    BY <2>2 DEF Unbroken, Advances
  <2>. QED
    BY <2>1, <2>2, <2>3
<1>3. \A d \in Nat : d \in T
  <2>. HIDE DEF T
  <2>. QED
    BY <1>1, <1>2, SetInduction
<1>. SUFFICES ASSUME NEW i \in m..n PROVE split[i] = split[m]
  BY DEF Still
<1>4. i - m \in Nat /\ m + (i - m) = i
  OBVIOUS
<1>. QED
  BY <1>3, <1>4

\* The turns that read a text of n tokens.
Splits(text, split, n) ==
    n = Len(text) /\ Reads(split, 0, <<>>, 1) /\ \A i \in 1..n : Advances(text, split, i)

\* They split off texts.
LEMMA SplitTypes ==
    ASSUME NEW S, NEW text \in Seq(S), NEW n \in Nat, NEW split, Splits(text, split, n)
    PROVE  \A i \in 0..n : split[i].pages \in Seq(Seq(S)) /\ split[i].from \in Nat \ {0}
<1>0. n = Len(text) /\ Reads(split, 0, <<>>, 1) /\ \A i \in 1..n : Advances(text, split, i)
  BY DEF Splits
<1>. DEFINE Typed(i) == split[i].pages \in Seq(Seq(S)) /\ split[i].from \in Nat \ {0}
            T == {i \in Nat : i <= n => Typed(i)}
<1>1. 0 \in T
  <2>1. split[0].pages = <<>> /\ split[0].from = 1
    BY <1>0 DEF Reads
  <2>2. <<>> \in Seq(Seq(S))
    OBVIOUS
  <2>3. Typed(0)
    BY <2>1, <2>2
  <2>. QED
    BY <2>3
<1>2. ASSUME NEW k \in Nat, k \in T
      PROVE  k + 1 \in T
  <2>. SUFFICES ASSUME k + 1 <= n PROVE Typed(k + 1)
    OBVIOUS
  <2>1. PICK i \in 1..n : i = k + 1 /\ i - 1 = k
    BY k + 1 \in 1..n, (k + 1) - 1 = k
  <2>2. Typed(k)
    BY <1>2
  <2>3. PICK pages, from : pages = split[k].pages /\ from = split[k].from
    OBVIOUS
  <2>4. pages \in Seq(Seq(S)) /\ from \in Nat \ {0}
    BY <2>2, <2>3
  <2>5. Trim(SubSeq(text, from, k)) \in Seq(S)
    <3>1. \A j \in from..k : text[j] \in S
      <4>. SUFFICES ASSUME NEW j \in from..k PROVE text[j] \in S
        OBVIOUS
      <4>1. j \in 1..n
        BY <2>4
      <4>. QED
        BY <4>1, <1>0
    <3>2. SubSeq(text, from, k) \in Seq(S)
      BY <3>1, <2>4, SubSeqProperties
    <3>. QED
      BY <3>2, TrimProperties
  <2>6. CASE from <= i /\ BreakAt(text, i)
    <3>1. Reads(split, i, Append(pages, Trim(SubSeq(text, from, k))), i + 3)
      BY <1>0, <2>1, <2>3, <2>6 DEF Advances
    <3>2. Append(pages, Trim(SubSeq(text, from, k))) \in Seq(Seq(S))
      BY <2>4, <2>5, AppendProperties
    <3>3. i + 3 \in Nat \ {0}
      OBVIOUS
    <3>4. Typed(i)
      <4>1. PICK more, next : /\ more = Append(pages, Trim(SubSeq(text, from, k)))
                              /\ next = i + 3
        OBVIOUS
      <4>2. split[i].pages = more /\ split[i].from = next
        BY <3>1, <4>1 DEF Reads
      <4>. QED
        BY <4>1, <4>2, <3>2, <3>3
    <3>. QED
      BY <3>4, <2>1
  <2>7. CASE ~(from <= i /\ BreakAt(text, i))
    <3>1. split[i] = split[k]
      BY <1>0, <2>1, <2>3, <2>7 DEF Advances
    <3>. QED
      BY <3>1, <2>2, <2>1
  <2>. QED
    BY <2>6, <2>7
<1>3. \A i \in Nat : i \in T
  <2>. HIDE DEF T
  <2>. QED
    BY <1>1, <1>2, SetInduction
<1>. QED
  BY <1>3

\* new begins with old.
Prolongs(new, old) == Len(old) <= Len(new) /\ \A k \in 1..Len(old) : new[k] = old[k]

\* What has been split off stays as it is.
LEMMA SplitGrows ==
    ASSUME NEW S, NEW text \in Seq(S), NEW n \in Nat, NEW split, Splits(text, split, n),
           NEW m \in 0..n
    PROVE  Prolongs(split[n].pages, split[m].pages)
<1>. DEFINE Grown(i) == /\ Len(split[m].pages) <= Len(split[i].pages)
                        /\ \A k \in 1..Len(split[m].pages) : split[i].pages[k] = split[m].pages[k]
            T == {d \in Nat : m + d <= n => Grown(m + d)}
<1>0. \A i \in 0..n : split[i].pages \in Seq(Seq(S)) /\ split[i].from \in Nat \ {0}
  BY SplitTypes
<1>1. 0 \in T
  <2>1. m + 0 = m /\ split[m].pages \in Seq(Seq(S))
    BY <1>0
  <2>2. Len(split[m].pages) \in Nat
    BY <2>1
  <2>. QED
    BY <2>1, <2>2
<1>2. ASSUME NEW d \in Nat, d \in T
      PROVE  d + 1 \in T
  <2>. SUFFICES ASSUME m + (d + 1) <= n PROVE Grown(m + (d + 1))
    BY SMTT(40)
  <2>1. PICK i \in 1..n : i = m + (d + 1) /\ i - 1 = m + d
    BY m + (d + 1) \in 1..n, (m + (d + 1)) - 1 = m + d
  <2>2. Grown(i - 1) /\ i - 1 \in 0..n
    BY <1>2, <2>1
  <2>3. PICK seen, old : seen = split[i-1].pages /\ old = split[m].pages
    OBVIOUS
  <2>4. seen \in Seq(Seq(S)) /\ old \in Seq(Seq(S))
    BY <2>2, <2>3, <1>0
  <2>5. Len(old) <= Len(seen) /\ \A k \in 1..Len(old) : seen[k] = old[k]
    BY <2>2, <2>3
  <2>6. CASE split[i-1].from <= i /\ BreakAt(text, i)
    <3>1. PICK x : split[i].pages = Append(seen, x)
      BY <2>3, <2>6 DEF Splits, Advances, Reads
    <3>2. /\ Len(Append(seen, x)) = Len(seen) + 1
          /\ \A k \in 1..Len(seen) : Append(seen, x)[k] = seen[k]
      BY <2>4
    <3>3. PICK l \in Nat, g \in Nat : l = Len(old) /\ g = Len(seen)
      BY <2>4
    <3>4. l <= g + 1 /\ 1..l \subseteq 1..g
      BY <3>3, <2>5
    <3>. QED
      BY <3>1, <3>2, <3>3, <3>4, <2>5, <2>1, <2>3
  <2>7. CASE ~(split[i-1].from <= i /\ BreakAt(text, i))
    <3>1. split[i] = split[i-1]
      BY <2>7 DEF Splits, Advances
    <3>. QED
      BY <3>1, <2>2, <2>1
  <2>. QED
    BY <2>6, <2>7
<1>3. \A d \in Nat : d \in T
  <2>. HIDE DEF T
  <2>. QED
    BY <1>1, <1>2, SetInduction
<1>4. PICK d \in Nat : m + d = n
  BY n - m \in Nat, m + (n - m) = n
<1>5. Grown(n)
  <2>1. m + d <= n => Grown(m + d)
    BY <1>3
  <2>. HIDE DEF Grown
  <2>. QED
    BY <1>4, <2>1
<1>. QED
  BY <1>5 DEF Prolongs

\* Reading a page of a text whose breaks are markers: nothing is split off before its
\* end, and there the page is, if a marker follows.
PageAt(text, n, a, page, l) ==
    /\ a \in Nat \ {0} /\ l \in Nat /\ l = Len(page)
    /\ a + l <= n + 1
    /\ \A j \in 1..l : text[a + j - 1] = page[j]
    /\ \A j \in 1..l : page[j] # MARK
    /\ Solid(page)
    /\ a + l = n + 1 \/ MarkAt(text, a + l)

\* The page is read: nothing before its end, and all of it if a marker follows.
PageRead(text, split, a, page, l) ==
    /\ split[a + l - 1] = split[a - 1]
    /\ Trim(SubSeq(text, a, a + l - 1)) = page
    /\ MarkAt(text, a + l) =>
          Reads(split, a + l + 2, Append(split[a - 1].pages, page), a + l + 3)

\* splitMarkdownIntoPages reads a page that begins where the last one ended.
LEMMA PageIsRead ==
    ASSUME NEW S, NEW text \in Seq(S), NEW n \in Nat, Contains(text, MARK),
           NEW split, Splits(text, split, n),
           NEW a \in Nat \ {0}, NEW page \in Seq(S), NEW l \in Nat, PageAt(text, n, a, page, l),
           split[a - 1].from = a
    PROVE  PageRead(text, split, a, page, l)
<1>0. /\ n = Len(text) /\ \A i \in 1..n : Advances(text, split, i)
      /\ a \in Nat \ {0} /\ l \in Nat /\ l = Len(page)
      /\ a + l <= n + 1
      /\ \A j \in 1..l : text[a + j - 1] = page[j]
      /\ \A j \in 1..l : page[j] # MARK
      /\ Solid(page)
      /\ a + l = n + 1 \/ MarkAt(text, a + l)
  BY DEF Splits, PageAt
<1>. DEFINE e == a + l
<1>1. /\ e \in Nat \ {0} /\ e <= n + 1 /\ a <= e /\ e - 1 \in Nat
      /\ a - 1 \in Nat /\ (a - 1) + 1 = a
  BY <1>0
<1>2. \A i : BreakAt(text, i) = MarkAt(text, i)
  BY DEF BreakAt, MarkAt
<1>3. ASSUME NEW i \in a..(e - 1), MarkAt(text, i)
      PROVE  FALSE
  <2>1. text[i + 1] = MARK /\ i + 2 <= n
    BY <1>0, <1>3 DEF MarkAt
  <2>2. CASE i + 1 < e
    <3>. DEFINE j == i + 2 - a
    <3>1. j \in 1..l /\ a + j - 1 = i + 1
      BY <1>0, <2>2
    <3>. HIDE DEF j
    <3>. QED
      BY <1>0, <3>1, <2>1
  <2>3. CASE i + 1 = e
    <3>1. e # n + 1
      BY <1>0, <2>1, <2>3
    <3>2. text[e] = NL
      BY <1>0, <3>1 DEF MarkAt
    <3>. QED
      BY <2>1, <2>3, <3>2 DEF NL, MARK
  <2>. QED
    BY <2>2, <2>3, <1>0
<1>4. \A i \in (a - 1)..(e - 1) : split[i] = split[a - 1]
  <2>1. \A i \in ((a - 1) + 1)..(e - 1) :
            Advances(text, split, i) /\ ~(split[a - 1].from <= i /\ BreakAt(text, i))
    <3>. SUFFICES ASSUME NEW i \in a..(e - 1)
                  PROVE  Advances(text, split, i) /\ ~BreakAt(text, i)
      BY <1>1
    <3>1. i \in 1..n
      BY <1>0
    <3>. QED
      BY <1>0, <3>1, <1>2, <1>3
  <2>2. PICK m \in Nat, u \in Nat : m = a - 1 /\ u = e - 1
    BY <1>1
  <2>4. \A i \in (m + 1)..u :
            Advances(text, split, i) /\ ~(split[m].from <= i /\ BreakAt(text, i))
    BY <2>1, <2>2
  <2>5. Unbroken(text, split, m, u)
    BY <2>4 DEF Unbroken
  <2>6. Still(split, m, u)
    BY <2>5, SplitStays
  <2>3. \A i \in m..u : split[i] = split[m]
    BY <2>6 DEF Still
  <2>. QED
    BY <2>2, <2>3
<1>5. split[e - 1] = split[a - 1]
  <2>1. e - 1 \in (a - 1)..(e - 1)
    BY <1>1
  <2>. QED
    BY <2>1, <1>4
<1>6. SubSeq(text, a, e - 1) = page
  <2>1. \A i \in a..(e - 1) : text[i] \in S
    <3>. SUFFICES ASSUME NEW i \in a..(e - 1) PROVE text[i] \in S
      OBVIOUS
    <3>1. i \in 1..n
      BY <1>0
    <3>. QED
      BY <1>0, <3>1
  <2>. DEFINE s == SubSeq(text, a, e - 1)
  <2>2. /\ s \in Seq(S)
        /\ Len(s) = IF a <= e - 1 THEN (e - 1) - a + 1 ELSE 0
        /\ \A i \in 1..((e - 1) - a + 1) : s[i] = text[a + i - 1]
    BY <2>1, <1>0, <1>1, SubSeqProperties
  <2>. HIDE DEF s
  <2>3. (e - 1) - a + 1 = l /\ (a <= e - 1 <=> l # 0)
    BY <1>0
  <2>4. Len(s) = l /\ \A i \in 1..l : s[i] = page[i]
    BY <1>0, <2>2, <2>3
  <2>5. s = page
    BY <1>0, <2>2, <2>4, SeqEqual
  <2>. QED
    BY <2>5 DEF s
<1>7. Trim(SubSeq(text, a, e - 1)) = page
  BY <1>0, <1>6, TrimProperties
<1>8. ASSUME MarkAt(text, e)
      PROVE  Reads(split, e + 2, Append(split[a - 1].pages, page), e + 3)
  <2>1. e \in 1..n /\ e + 2 <= n
    BY <1>0, <1>8, <1>1 DEF MarkAt
  <2>2. split[e - 1].from <= e /\ BreakAt(text, e) /\ split[e - 1].from = a
    BY <1>1, <1>2, <1>5, <1>8
  <2>3. Advances(text, split, e)
    BY <1>0, <2>1
  <2>4. Reads(split, e, Append(split[a - 1].pages, page), e + 3)
    BY <2>2, <2>3, <1>5, <1>7 DEF Advances
  <2>5. split[e].from = e + 3
    BY <2>4 DEF Reads
  <2>. HIDE DEF e
  <2>6. PICK m \in Nat, u \in Nat : m = e /\ u = e + 2
    BY <1>1
  <2>7. \A i \in (m + 1)..u : Advances(text, split, i) /\ ~(split[m].from <= i /\ BreakAt(text, i))
    <3>. SUFFICES ASSUME NEW i \in (m + 1)..u
                  PROVE  Advances(text, split, i) /\ ~(split[m].from <= i)
      OBVIOUS
    <3>1. i \in 1..n /\ ~(e + 3 <= i)
      BY <2>1, <2>6, <1>1
    <3>. QED
      BY <1>0, <3>1, <2>5, <2>6
  <2>10. Unbroken(text, split, m, u)
    BY <2>7 DEF Unbroken
  <2>11. Still(split, m, u)
    BY <2>10, SplitStays
  <2>8. \A i \in m..u : split[i] = split[m]
    BY <2>11 DEF Still
  <2>9. u \in m..u
    BY <2>6, <1>1
  <2>. QED
    BY <2>4, <2>6, <2>8, <2>9 DEF Reads
<1>. QED
  BY <1>5, <1>7, <1>8 DEF PageRead

\* Pages as the adapter takes them to be: no marker in them, no line break at their ends.
Neat(pages) ==
    \A k \in 1..Len(pages) :
        Solid(pages[k]) /\ \A j \in 1..Len(pages[k]) : pages[k][j] # MARK

\* Before page k, which begins at from, the pages up to it have been split off.
SoFar(seen, pages, k, from) ==
    /\ Len(seen.pages) = k - 1
    /\ \A j \in 1..(k - 1) : seen.pages[j] = pages[j]
    /\ seen.from = from

\* Page k, from a up to e: what the text is split into before its end and after it.
PageSplit(text, split, pages, k, a, e) ==
    /\ SoFar(split[e - 1], pages, k, a)
    /\ Trim(SubSeq(text, a, e - 1)) = pages[k]
    /\ MarkAt(text, e) => SoFar(split[e + 2], pages, k + 1, e + 3)

\* It reads one page after another of a text that is laid out with markers.
LEMMA PageOfLaid ==
    ASSUME NEW S, NEW text \in Seq(S), NEW n \in Nat, Contains(text, MARK),
           NEW split, Splits(text, split, n),
           NEW pages \in Seq(Seq(S)), Neat(pages), NEW at, Laid(text, pages, at),
           EndOf(pages, at) = n + 1 \/ MarkAt(text, EndOf(pages, at)),
           NEW k \in 1..Len(pages), SoFar(split[at[k] - 1], pages, k, at[k])
    PROVE  PageSplit(text, split, pages, k, at[k], at[k] + Len(pages[k]))
<1>11. PICK page \in Seq(S) : page = pages[k]
  OBVIOUS
<1>12. PICK a \in Nat \ {0} : a = at[k]
  BY DEF Laid
<1>13. PICK l \in Nat : l = Len(page)
  OBVIOUS
<1>1. a = at[k] /\ page = pages[k] /\ l = Len(page)
  BY <1>11, <1>12, <1>13
<1>2. /\ a \in Nat \ {0} /\ page \in Seq(S) /\ l \in Nat
      /\ a + l <= n + 1 /\ \A j \in 1..l : text[a + j - 1] = page[j]
      /\ k # Len(pages) => MarkAt(text, a + l)
  <2>1. a \in Nat \ {0} /\ page \in Seq(S)
    BY <1>1 DEF Laid
  <2>2. /\ \A j \in 1..l : text[a + j - 1] = page[j]
        /\ k # Len(pages) => MarkAt(text, a + l)
    BY <1>1 DEF Laid
  <2>3. a + l <= n + 1
    BY <1>1 DEF Laid, Splits
  <2>. QED
    BY <2>1, <2>2, <2>3, <1>1
<1>3. Solid(page) /\ \A j \in 1..l : page[j] # MARK
  BY <1>1 DEF Neat
<1>4. a + l = n + 1 \/ MarkAt(text, a + l)
  <2>1. CASE k # Len(pages)
    BY <2>1, <1>2
  <2>2. CASE k = Len(pages)
    BY <2>2, <1>1 DEF EndOf
  <2>. QED
    BY <2>1, <2>2
<1>5. split[a - 1].from = a
  BY <1>1 DEF SoFar
<1>6. /\ split[a + l - 1] = split[a - 1]
      /\ Trim(SubSeq(text, a, a + l - 1)) = page
      /\ MarkAt(text, a + l) =>
            Reads(split, a + l + 2, Append(split[a - 1].pages, page), a + l + 3)
  <2>1. PageAt(text, n, a, page, l)
    BY <1>1, <1>2, <1>3, <1>4 DEF PageAt
  <2>2. PageRead(text, split, a, page, l)
    BY <2>1, <1>2, <1>5, PageIsRead
  <2>. QED
    BY <2>2 DEF PageRead
<1>7. SoFar(split[a + l - 1], pages, k, a)
  BY <1>1, <1>6
<1>8. ASSUME MarkAt(text, a + l)
      PROVE  SoFar(split[a + l + 2], pages, k + 1, a + l + 3)
  <2>1. PICK old : old = split[a - 1].pages
    OBVIOUS
  <2>2. PICK new : new = split[a + l + 2]
    OBVIOUS
  <2>3. new.pages = Append(old, page) /\ new.from = a + l + 3
    BY <1>6, <1>8, <2>1, <2>2 DEF Reads
  <2>4. old \in Seq(Seq(S))
    <3>1. a - 1 \in 0..n
      BY <1>2
    <3>2. \A i \in 0..n : split[i].pages \in Seq(Seq(S)) /\ split[i].from \in Nat \ {0}
      BY SplitTypes
    <3>. QED
      BY <3>1, <3>2, <2>1
  <2>5. Len(old) = k - 1 /\ \A j \in 1..(k - 1) : old[j] = pages[j]
    BY <1>1, <2>1 DEF SoFar
  <2>6. /\ Len(Append(old, page)) = k
        /\ \A j \in 1..(k - 1) : Append(old, page)[j] = old[j]
        /\ Append(old, page)[k] = page
    <3>1. k \in Nat /\ (k - 1) + 1 = k
      OBVIOUS
    <3>. QED
      BY <2>4, <2>5, <3>1, <1>2, AppendProperties
  <2>7. \A j \in 1..k : Append(old, page)[j] = pages[j]
    <3>. SUFFICES ASSUME NEW j \in 1..k PROVE Append(old, page)[j] = pages[j]
      OBVIOUS
    <3>1. CASE j = k
      BY <3>1, <2>6, <1>1
    <3>2. CASE j # k
      <4>1. j \in 1..(k - 1)
        BY <3>2
      <4>. QED
        BY <4>1, <2>5, <2>6
    <3>. QED
      BY <3>1, <3>2
  <2>8. (k + 1) - 1 = k
    OBVIOUS
  <2>9. SoFar(new, pages, k + 1, a + l + 3)
    BY <2>3, <2>6, <2>7, <2>8 DEF SoFar
  <2>. QED
    BY <2>9, <2>2
<1>9. PageSplit(text, split, pages, k, a, a + l)
  <2>1. Trim(SubSeq(text, a, a + l - 1)) = pages[k]
    BY <1>1, <1>6
  <2>2. MarkAt(text, a + l) => SoFar(split[a + l + 2], pages, k + 1, a + l + 3)
    BY <1>8
  <2>. QED
    BY <2>1, <2>2, <1>7, SMTT(30) DEF PageSplit
<1>. QED
  BY <1>1, <1>9

\* So before each page it has split off those before it.
LEMMA SplitOfLaid ==
    ASSUME NEW S, NEW text \in Seq(S), NEW n \in Nat, Contains(text, MARK),
           NEW split, Splits(text, split, n),
           NEW pages \in Seq(Seq(S)), Neat(pages), NEW at, Laid(text, pages, at),
           EndOf(pages, at) = n + 1 \/ MarkAt(text, EndOf(pages, at))
    PROVE  \A k \in 1..Len(pages) : SoFar(split[at[k] - 1], pages, k, at[k])
<1>0. PICK m \in Nat : m = Len(pages)
  OBVIOUS
<1>. DEFINE T == {d \in Nat : d + 1 <= m => SoFar(split[at[d + 1] - 1], pages, d + 1, at[d + 1])}
<1>1. 0 \in T
  <2>1. at[1] = 1 /\ 0 + 1 = 1 /\ 1 - 1 = 0
    BY DEF Laid
  <2>2. SoFar(split[0], pages, 1, 1)
    BY DEF Splits, SoFar, Reads
  <2>3. SoFar(split[at[0 + 1] - 1], pages, 0 + 1, at[0 + 1])
    BY <2>1, <2>2
  <2>. QED
    BY <2>3
<1>2. ASSUME NEW d \in Nat, d \in T
      PROVE  d + 1 \in T
  <2>. SUFFICES ASSUME (d + 1) + 1 <= m
                PROVE  SoFar(split[at[(d + 1) + 1] - 1], pages, (d + 1) + 1, at[(d + 1) + 1])
    OBVIOUS
  <2>1. PICK k \in 1..m : k = d + 1 /\ k # m
    BY d + 1 \in 1..m, d + 1 # m
  <2>2. SoFar(split[at[k] - 1], pages, k, at[k])
    BY <1>2, <2>1
  <2>3. PICK e : e = at[k] + Len(pages[k])
    OBVIOUS
  <2>4. MarkAt(text, e) /\ at[k + 1] = e + 3 /\ e \in Nat
    <3>1. /\ MarkAt(text, e) /\ at[k + 1] = e + 3
          /\ at[k] \in Nat
      BY <1>0, <2>1, <2>3 DEF Laid
    <3>2. Len(pages[k]) \in Nat
      BY <1>0
    <3>. QED
      BY <3>1, <3>2, <2>3
  <2>5. SoFar(split[e + 2], pages, k + 1, e + 3)
    <3>1. k \in 1..Len(pages)
      BY <1>0
    <3>2. PageSplit(text, split, pages, k, at[k], at[k] + Len(pages[k]))
      BY <3>1, <2>2, PageOfLaid
    <3>. QED
      BY <3>2, <2>3, <2>4 DEF PageSplit
  <2>6. at[k + 1] - 1 = e + 2
    BY <2>4
  <2>. QED
    BY <2>1, <2>4, <2>5, <2>6
<1>3. \A d \in Nat : d \in T
  <2>. HIDE DEF T
  <2>. QED
    BY <1>1, <1>2, SetInduction
<1>. SUFFICES ASSUME NEW k \in 1..m PROVE SoFar(split[at[k] - 1], pages, k, at[k])
  BY <1>0
<1>4. k - 1 \in Nat /\ (k - 1) + 1 = k
  OBVIOUS
<1>5. PICK d \in Nat : d = k - 1 /\ d + 1 = k
  BY <1>4
<1>6. d \in T
  <2>. HIDE DEF T
  <2>. QED
    BY <1>3
<1>. QED
  BY <1>5, <1>6

\* The splitting of a text, and the states of reading it that it comes from.
SplitBy(text, split, n) ==
    /\ Splits(text, split, n)
    /\ SplitIntoPages(text) =
          Append(split[n].pages, Trim(SubSeq(text, split[n].from, n)))

\* Every text has a splitting.
LEMMA SplitExists ==
    ASSUME NEW S, NEW text \in Seq(S), NEW n \in Nat, n = Len(text)
    PROVE  \E split : SplitBy(text, split, n)
<1>1. PICK split :
              /\ Reads(split, 0, <<>>, 1)
              /\ \A i \in 1..Len(text) : Advances(text, split, i)
              /\ SplitIntoPages(text) =
                    Append(split[Len(text)].pages,
                           Trim(SubSeq(text, split[Len(text)].from, Len(text))))
  BY SplitByTurns
<1>2. SplitBy(text, split, n)
  BY <1>1 DEF SplitBy, Splits
<1>. QED
  BY <1>2

\* The last page of a text: whatever it is, it is a text.
LEMMA LastPiece ==
    ASSUME NEW S, NEW text \in Seq(S), NEW n \in Nat, n = Len(text), NEW split,
           Splits(text, split, n)
    PROVE  Trim(SubSeq(text, split[n].from, n)) \in Seq(S)
<1>1. PICK from \in Nat \ {0} : from = split[n].from
  <2>1. split[n].from \in Nat \ {0}
    BY SplitTypes, n \in 0..n
  <2>. QED
    BY <2>1
<1>2. \A j \in from..n : text[j] \in S
  <2>. SUFFICES ASSUME NEW j \in from..n PROVE text[j] \in S
    OBVIOUS
  <2>1. j \in 1..n
    OBVIOUS
  <2>. QED
    BY <2>1
<1>3. SubSeq(text, from, n) \in Seq(S)
  BY <1>2, SubSeqProperties
<1>. QED
  BY <1>1, <1>3, TrimProperties

\* What a text is split into are texts.
LEMMA SplitTyped ==
    ASSUME NEW S, NEW text \in Seq(S)
    PROVE  SplitIntoPages(text) \in Seq(Seq(S))
<1>0. PICK n \in Nat : n = Len(text)
  OBVIOUS
<1>1. PICK split : n = Len(text) /\ SplitBy(text, split, n)
  BY <1>0, SplitExists
<1>2. Splits(text, split, n) /\ n \in 0..n
  BY <1>1 DEF SplitBy
<1>3. split[n].pages \in Seq(Seq(S))
  BY <1>2, SplitTypes
<1>4. Trim(SubSeq(text, split[n].from, n)) \in Seq(S)
  BY <1>1, <1>2, LastPiece
<1>5. PICK old, x : old = split[n].pages /\ x = Trim(SubSeq(text, split[n].from, n))
  OBVIOUS
<1>6. SplitIntoPages(text) = Append(old, x) /\ old \in Seq(Seq(S)) /\ x \in Seq(S)
  BY <1>1, <1>3, <1>4, <1>5 DEF SplitBy
<1>. QED
  BY <1>6, AppendProperties

\* A text that is neat pages with markers between them is split into these pages.
LEMMA SplitWhole ==
    ASSUME NEW S, NEW text \in Seq(S), Contains(text, MARK),
           NEW pages \in Seq(Seq(S)), pages # <<>>, Neat(pages), WholeText(text, pages)
    PROVE  SplitIntoPages(text) = pages
<1>0. PICK n \in Nat : n = Len(text)
  OBVIOUS
<1>1. PICK split : n = Len(text) /\ SplitBy(text, split, n)
  BY <1>0, SplitExists
<1>2. PICK at : Laid(text, pages, at) /\ EndOf(pages, at) = n + 1
  BY <1>1 DEF WholeText
<1>3. PICK m \in Nat \ {0} : m = Len(pages)
  BY EmptySeq
<1>4. Splits(text, split, n) /\ m \in 1..Len(pages)
  BY <1>1, <1>3 DEF SplitBy
<1>5. SoFar(split[at[m] - 1], pages, m, at[m])
  <2>1. \A k \in 1..Len(pages) : SoFar(split[at[k] - 1], pages, k, at[k])
    BY <1>1, <1>2, <1>4, SplitOfLaid
  <2>. QED
    BY <2>1, <1>4
<1>6. PageSplit(text, split, pages, m, at[m], at[m] + Len(pages[m]))
  BY <1>1, <1>2, <1>4, <1>5, PageOfLaid
<1>7. at[m] + Len(pages[m]) = n + 1
  BY <1>2, <1>3 DEF EndOf
<1>8. SoFar(split[n], pages, m, at[m]) /\ Trim(SubSeq(text, at[m], n)) = pages[m]
  <2>1. PageSplit(text, split, pages, m, at[m], n + 1) /\ (n + 1) - 1 = n
    BY <1>6, <1>7
  <2>. QED
    BY <2>1 DEF PageSplit
<1>9. split[n].pages \in Seq(Seq(S))
  BY <1>4, SplitTypes, n \in 0..n
<1>10. PICK old, page : old = split[n].pages /\ page = pages[m]
  OBVIOUS
<1>11. /\ old \in Seq(Seq(S)) /\ Len(old) = m - 1 /\ \A j \in 1..(m - 1) : old[j] = pages[j]
       /\ page \in Seq(S)
  BY <1>3, <1>8, <1>9, <1>10 DEF SoFar
<1>12. SplitIntoPages(text) = Append(old, page)
  BY <1>1, <1>8, <1>10 DEF SplitBy, SoFar
<1>13. /\ Append(old, page) \in Seq(Seq(S))
       /\ Len(Append(old, page)) = m
       /\ \A j \in 1..(m - 1) : Append(old, page)[j] = old[j]
       /\ Append(old, page)[m] = page
  <2>1. (m - 1) + 1 = m
    OBVIOUS
  <2>. QED
    BY <1>11, <2>1, AppendProperties
<1>14. \A j \in 1..m : Append(old, page)[j] = pages[j]
  <2>. SUFFICES ASSUME NEW j \in 1..m PROVE Append(old, page)[j] = pages[j]
    OBVIOUS
  <2>1. CASE j = m
    BY <2>1, <1>10, <1>13
  <2>2. CASE j # m
    <3>1. j \in 1..(m - 1)
      BY <2>2
    <3>. QED
      BY <3>1, <1>11, <1>13
  <2>. QED
    BY <2>1, <2>2
<1>. QED
  BY <1>3, <1>12, <1>13, <1>14, SeqEqual

\* If more follows them, they are the first pages it is split into.
LEMMA SplitBegun ==
    ASSUME NEW S, NEW text \in Seq(S), Contains(text, MARK),
           NEW pages \in Seq(Seq(S)), pages # <<>>, Neat(pages), Begun(text, pages)
    PROVE  /\ Len(pages) <= Len(SplitIntoPages(text))
           /\ \A k \in 1..Len(pages) : SplitIntoPages(text)[k] = pages[k]
<1>0. PICK n \in Nat : n = Len(text)
  OBVIOUS
<1>1. PICK split : n = Len(text) /\ SplitBy(text, split, n)
  BY <1>0, SplitExists
<1>2. PICK at : Laid(text, pages, at) /\ MarkAt(text, EndOf(pages, at))
  BY <1>1 DEF Begun
<1>3. PICK m \in Nat \ {0} : m = Len(pages)
  BY EmptySeq
<1>4. Splits(text, split, n) /\ m \in 1..Len(pages)
  BY <1>1, <1>3 DEF SplitBy
<1>5. SoFar(split[at[m] - 1], pages, m, at[m])
  <2>1. \A k \in 1..Len(pages) : SoFar(split[at[k] - 1], pages, k, at[k])
    BY <1>1, <1>2, <1>4, SplitOfLaid
  <2>. QED
    BY <2>1, <1>4
<1>6. PageSplit(text, split, pages, m, at[m], at[m] + Len(pages[m]))
  BY <1>1, <1>2, <1>4, <1>5, PageOfLaid
<1>7. PICK e \in Nat : e = at[m] + Len(pages[m])
  <2>1. at[m] \in Nat /\ pages[m] \in Seq(S)
    BY <1>2, <1>4 DEF Laid
  <2>2. Len(pages[m]) \in Nat
    BY <2>1
  <2>. QED
    BY <2>1, <2>2
<1>8. MarkAt(text, e) /\ e + 2 \in 0..n
  <2>1. MarkAt(text, e)
    BY <1>2, <1>3, <1>7 DEF EndOf
  <2>. QED
    BY <2>1, <1>1 DEF MarkAt
<1>9. SoFar(split[e + 2], pages, m + 1, e + 3)
  BY <1>6, <1>7, <1>8 DEF PageSplit
<1>10. PICK old, new, x : /\ old = split[e + 2].pages /\ new = split[n].pages
                          /\ x = Trim(SubSeq(text, split[n].from, n))
  OBVIOUS
<1>11. Len(old) = m /\ \A j \in 1..m : old[j] = pages[j]
  <2>1. (m + 1) - 1 = m
    OBVIOUS
  <2>. QED
    BY <2>1, <1>9, <1>10 DEF SoFar
<1>12. Len(old) <= Len(new) /\ \A k \in 1..Len(old) : new[k] = old[k]
  <2>1. PICK i \in 0..n : i = e + 2
    BY <1>8
  <2>2. Prolongs(split[n].pages, split[i].pages)
    BY <1>4, SplitGrows
  <2>. QED
    BY <2>1, <2>2, <1>10 DEF Prolongs
<1>13. new \in Seq(Seq(S)) /\ x \in Seq(S)
  <2>1. split[n].pages \in Seq(Seq(S))
    BY <1>4, SplitTypes, n \in 0..n
  <2>2. Trim(SubSeq(text, split[n].from, n)) \in Seq(S)
    BY <1>1, <1>4, LastPiece
  <2>. QED
    BY <2>1, <2>2, <1>10
<1>14. SplitIntoPages(text) = Append(new, x)
  BY <1>1, <1>10 DEF SplitBy
<1>15. PICK g \in Nat : g = Len(new)
  BY <1>13
<1>16. /\ Len(Append(new, x)) = g + 1
       /\ \A k \in 1..g : Append(new, x)[k] = new[k]
  BY <1>13, <1>15, AppendProperties
<1>17. m <= g /\ 1..m \subseteq 1..g
  BY <1>11, <1>12, <1>15
<1>18. \A k \in 1..m : Append(new, x)[k] = pages[k]
  BY <1>11, <1>12, <1>16, <1>17
<1>. QED
  BY <1>3, <1>14, <1>16, <1>17, <1>18

\* A text without a marker and without a rule is one page.
LEMMA SplitUnmarked ==
    ASSUME NEW S, NEW text \in Seq(S), Solid(text),
           \A i \in 1..Len(text) : text[i] # MARK /\ text[i] # RULE
    PROVE  SplitIntoPages(text) = <<text>>
<1>0. PICK n \in Nat : n = Len(text)
  OBVIOUS
<1>1. PICK split : n = Len(text) /\ SplitBy(text, split, n)
  BY <1>0, SplitExists
<1>2. Reads(split, 0, <<>>, 1) /\ \A i \in 1..n : Advances(text, split, i)
  BY <1>1 DEF SplitBy, Splits
<1>3. ASSUME NEW i \in 1..n
      PROVE  ~BreakAt(text, i)
  <2>. SUFFICES ASSUME BreakAt(text, i) PROVE FALSE
    OBVIOUS
  <2>1. i + 1 \in 1..n
    BY <1>1 DEF BreakAt
  <2>2. text[i + 1] = MARK \/ text[i + 1] = RULE
    BY DEF BreakAt
  <2>. QED
    BY <1>1, <2>1, <2>2
<1>4. Unbroken(text, split, 0, n)
  BY <1>2, <1>3 DEF Unbroken
<1>5. Still(split, 0, n)
  BY <1>4, SplitStays
<1>6. split[n].pages = <<>> /\ split[n].from = 1
  BY <1>2, <1>5, n \in 0..n DEF Still, Reads
<1>7. Trim(SubSeq(text, 1, n)) = text
  <2>. DEFINE s == SubSeq(text, 1, n)
  <2>1. \A i \in 1..n : text[i] \in S
    BY <1>1
  <2>2. /\ s \in Seq(S)
        /\ Len(s) = IF 1 <= n THEN n - 1 + 1 ELSE 0
        /\ \A i \in 1..(n - 1 + 1) : s[i] = text[1 + i - 1]
    BY <2>1, SubSeqProperties
  <2>. HIDE DEF s
  <2>3. Len(s) = n /\ \A i \in 1..n : s[i] = text[i]
    BY <2>2
  <2>4. s = text
    BY <1>1, <2>2, <2>3, SeqEqual
  <2>. QED
    BY <2>4, TrimProperties DEF s
<1>. QED
  BY <1>1, <1>6, <1>7 DEF SplitBy
-------------------------------------------------------------------------------
\* Elements of a sequence.
LEMMA ElementType ==
    ASSUME NEW T, NEW s \in Seq(T), NEW i \in 1..Len(s)
    PROVE  s[i] \in T
  OBVIOUS

\* Joined texts are a text.
LEMMA JoinedType ==
    ASSUME NEW S, NL \in S, MARK \in S, NEW texts \in Seq(Seq(S))
    PROVE  JoinedPages(texts) \in Seq(S)
<1>1. CASE texts = <<>>
  <2>1. PICK joined : IsJoining(texts, joined, Len(texts)) /\ JoinedPages(texts) = joined[Len(texts)]
    BY JoinedByTurns
  <2>2. Len(texts) = 0
    BY <1>1
  <2>3. JoinedPages(texts) = <<>>
    BY <2>1, <2>2 DEF IsJoining, JoinTurn
  <2>. QED
    BY <2>3
<1>2. CASE texts # <<>>
  BY <1>2, JoinedWhole
<1>. QED
  BY <1>1, <1>2

\* A text that is one page is that page.
LEMMA WholeOfOne ==
    ASSUME NEW S, NEW text \in Seq(S), NEW pages \in Seq(Seq(S)), Len(pages) = 1,
           WholeText(text, pages)
    PROVE  text = pages[1]
<1>1. PICK at : Laid(text, pages, at) /\ EndOf(pages, at) = Len(text) + 1
  BY DEF WholeText
<1>2. PICK page \in Seq(S) : page = pages[1]
  <2>1. pages[1] \in Seq(S)
    BY 1 \in 1..Len(pages), ElementType
  <2>. QED
    BY <2>1
<1>3. PICK l \in Nat : l = Len(page)
  OBVIOUS
<1>4. PICK n \in Nat : n = Len(text)
  OBVIOUS
<1>5. 1 + l = n + 1
  BY <1>1, <1>2, <1>3, <1>4 DEF Laid, EndOf
<1>6. \A j \in 1..l : text[1 + j - 1] = page[j]
  BY <1>1, <1>2, <1>3 DEF Laid
<1>7. n = l /\ \A j \in 1..l : 1 + j - 1 = j
  BY <1>5
<1>8. \A j \in 1..l : text[j] = page[j]
  BY <1>6, <1>7
<1>9. text = page
  BY <1>3, <1>4, <1>7, <1>8, SeqEqual
<1>. QED
  BY <1>2, <1>9

\* Two pages have a marker between them.
LEMMA WholeOfMore ==
    ASSUME NEW S, NEW text \in Seq(S), NEW pages \in Seq(Seq(S)), pages # <<>>,
           (WholeText(text, pages) /\ Len(pages) # 1) \/ Begun(text, pages)
    PROVE  Contains(text, MARK)
<1>1. ASSUME NEW i \in Nat \ {0}, MarkAt(text, i)
      PROVE  Contains(text, MARK)
  <2>1. PICK n \in Nat : n = Len(text)
    OBVIOUS
  <2>2. i + 1 \in 1..n /\ text[i + 1] = MARK
    BY <1>1, <2>1 DEF MarkAt
  <2>. QED
    BY <2>1, <2>2 DEF Contains
<1>2. ASSUME NEW at, Laid(text, pages, at), NEW k \in 1..Len(pages)
      PROVE  at[k] + Len(pages[k]) \in Nat \ {0}
  <2>1. PICK a \in Nat \ {0} : a = at[k]
    BY <1>2 DEF Laid
  <2>2. PICK l \in Nat : l = Len(pages[k])
    <3>1. pages[k] \in Seq(S)
      OBVIOUS
    <3>. QED
      BY <3>1
  <2>3. a + l \in Nat \ {0}
    OBVIOUS
  <2>. QED
    BY <2>1, <2>2, <2>3
<1>3. PICK m \in Nat \ {0} : m = Len(pages)
  BY EmptySeq
<1>4. CASE WholeText(text, pages) /\ Len(pages) # 1
  <2>1. PICK at : Laid(text, pages, at)
    BY <1>4 DEF WholeText
  <2>2. 1 \in 1..Len(pages) /\ 1 # Len(pages)
    BY <1>3, <1>4
  <2>3. MarkAt(text, at[1] + Len(pages[1]))
    BY <2>1, <2>2 DEF Laid
  <2>. QED
    BY <2>1, <2>2, <2>3, <1>1, <1>2
<1>5. CASE Begun(text, pages)
  <2>1. PICK at : Laid(text, pages, at) /\ MarkAt(text, EndOf(pages, at))
    BY <1>5 DEF Begun
  <2>2. m \in 1..Len(pages) /\ EndOf(pages, at) = at[m] + Len(pages[m])
    BY <1>3 DEF EndOf
  <2>. QED
    BY <2>1, <2>2, <1>1, <1>2
<1>. QED
  BY <1>4, <1>5

\* Where the first page and the last are solid texts, the whole is.
LEMMA WholeIsSolid ==
    ASSUME NEW S, NEW text \in Seq(S), NEW pages \in Seq(Seq(S)), NEW m \in Nat \ {0},
           m = Len(pages), WholeText(text, pages), Neat(pages), pages[1] # <<>>, pages[m] # <<>>
    PROVE  Solid(text) /\ text # <<>>
<1>1. PICK at : Laid(text, pages, at) /\ EndOf(pages, at) = Len(text) + 1
  BY DEF WholeText
<1>2. PICK n \in Nat : n = Len(text)
  OBVIOUS
<1>3. 1 \in 1..m /\ m \in 1..m
  OBVIOUS
<1>4. PICK p \in Seq(S), q \in Seq(S) : p = pages[1] /\ q = pages[m]
  BY <1>3
<1>5. PICK l \in Nat, g \in Nat : l = Len(p) /\ g = Len(q)
  OBVIOUS
<1>6. l # 0 /\ g # 0 /\ p[1] # NL /\ q[g] # NL
  <2>1. p # <<>> /\ q # <<>>
    BY <1>4
  <2>2. Solid(p) /\ Solid(q)
    BY <1>3, <1>4 DEF Neat
  <2>. QED
    BY <2>1, <2>2, <1>5, EmptySeq DEF Solid
<1>7. at[1] = 1
  BY <1>1 DEF Laid
<1>8. PICK a \in Nat \ {0} : a = at[m]
  BY <1>1, <1>3 DEF Laid
<1>9. \A j \in 1..l : text[1 + j - 1] = p[j]
  BY <1>1, <1>3, <1>4, <1>5, <1>7 DEF Laid
<1>10. \A j \in 1..g : text[a + j - 1] = q[j]
  BY <1>1, <1>3, <1>4, <1>5, <1>8 DEF Laid
<1>11. a + g = n + 1
  BY <1>1, <1>2, <1>4, <1>5, <1>8 DEF EndOf
<1>12. text[1] = p[1]
  BY <1>6, <1>9, 1 + 1 - 1 = 1, 1 \in 1..l
<1>13. text[n] = q[g]
  BY <1>6, <1>10, <1>11, a + g - 1 = n, g \in 1..g
<1>14. n # 0
  BY <1>6, <1>11
<1>. QED
  BY <1>2, <1>6, <1>12, <1>13, <1>14 DEF Solid
-------------------------------------------------------------------------------
(* Docling, chunk by chunk.  Page numbers only: pages are a document's, m of them. *)

\* The pages before chunk c (from 0), and the last page in it.
Upto(c) == c * PAGE_CHUNK_SIZE
\* The last page of call c of a document of m pages.
LastIn(m, c) == IF Upto(c + 1) <= m THEN Upto(c + 1) ELSE m

\* No chunk up to c has an empty page first or last.
Good(pages, m, c) ==
    \A d \in 0..c : pages[Upto(d) + 1] # <<>> /\ pages[LastIn(m, d)] # <<>>

\* The pages after a, up to e.
Between(pages, a, e) == [k \in 1..(e - a) |-> pages[a + k]]

\* What a text is, that n answers were joined to: of the chunks up to a good one, it is
\* the pages, or begins with them.
ReadTo(pages, m, n, text) ==
    \A c \in Nat :
        Upto(c) < m /\ Good(pages, m, c) =>
            /\ c + 1 = n => WholeText(text, Between(pages, 0, LastIn(m, c)))
            /\ c + 1 < n => Begun(text, Between(pages, 0, LastIn(m, c)))

\* Every good chunk is among the n.
ReadAll(pages, m, n) == \A c \in Nat : Upto(c) < m /\ Good(pages, m, c) => c < n

\* Calls end later the later they are, by PAGE_CHUNK_SIZE pages.
LEMMA UptoProperties ==
    /\ Upto(0) = 0
    /\ \A c \in Nat : Upto(c) \in Nat /\ Upto(c + 1) = Upto(c) + PAGE_CHUNK_SIZE
    /\ \A c, d \in Nat : c <= d => Upto(c) <= Upto(d)
<1>. USE ChunkAssumption
<1>1. \A c \in Nat : Upto(c) \in Nat /\ Upto(c + 1) = Upto(c) + PAGE_CHUNK_SIZE
  BY DEF Upto
<1>2. \A c, d \in Nat : c <= d => Upto(c) <= Upto(d)
  BY ProductOrder DEF Upto
<1>. QED
  BY <1>1, <1>2 DEF Upto

\* A call is for the pages after the last call, up to as many, or up to the end.
LEMMA LastInProperties ==
    ASSUME NEW m \in Nat, NEW c \in Nat, Upto(c) < m
    PROVE  /\ LastIn(m, c) \in Nat /\ Upto(c) < LastIn(m, c) /\ LastIn(m, c) <= m
           /\ LastIn(m, c) <= Upto(c + 1)
           /\ Upto(c + 1) < m => LastIn(m, c) = Upto(c) + PAGE_CHUNK_SIZE
           /\ m <= Upto(c + 1) => LastIn(m, c) = m
<1>1. PICK a \in Nat : a = Upto(c)
  BY UptoProperties
<1>2. PICK b \in Nat : b = Upto(c + 1) /\ b = a + PAGE_CHUNK_SIZE
  BY <1>1, UptoProperties
<1>. QED
  BY <1>1, <1>2, ChunkAssumption DEF LastIn

\* A run of a document's pages, and what it is.
IsRun(S, pages, a, e) ==
    pages \in Seq(S) /\ a \in Nat /\ e \in Nat /\ a < e /\ e <= Len(pages)

\* The chunk is n pages, those after page a.
RunIs(S, chunk, pages, a, n) ==
    /\ n \in Nat \ {0} /\ chunk \in Seq(S) /\ Len(chunk) = n /\ chunk # <<>>
    /\ \A k \in 1..n : chunk[k] = pages[a + k]

\* The pages between two are a run of them.
LEMMA BetweenProperties ==
    ASSUME NEW S, NEW pages, NEW a, NEW e, IsRun(S, pages, a, e)
    PROVE  RunIs(S, Between(pages, a, e), pages, a, e - a)
<1>0. /\ pages \in Seq(S) /\ a \in Nat /\ e \in Nat /\ a < e
      /\ \E m \in Nat : m = Len(pages) /\ e <= m
  BY DEF IsRun
<1>00. PICK m \in Nat : m = Len(pages) /\ e <= m
  BY <1>0
<1>1. PICK n \in Nat \ {0} : n = e - a
  BY <1>0
<1>2. PICK chunk : chunk = Between(pages, a, e)
  OBVIOUS
<1>3. chunk = [k \in 1..n |-> pages[a + k]]
  BY <1>1, <1>2 DEF Between
<1>4. \A k \in 1..n : pages[a + k] \in S
  <2>. SUFFICES ASSUME NEW k \in 1..n PROVE pages[a + k] \in S
    OBVIOUS
  <2>1. a + k \in 1..m
    BY <1>0, <1>00, <1>1
  <2>. QED
    BY <2>1, <1>0, <1>00, ElementType
<1>5. chunk \in [1..n -> S]
  BY <1>3, <1>4
<1>6. chunk \in Seq(S) /\ Len(chunk) = n /\ \A k \in 1..n : chunk[k] = pages[a + k]
  BY <1>3, <1>5, SeqOfFunction
<1>7. chunk # <<>>
  BY <1>6, EmptySeq
<1>. QED
  BY <1>1, <1>2, <1>6, <1>7 DEF RunIs

\* A chunk whose first and last page are not empty is answered with these pages.
LEMMA ChunkIsRead ==
    ASSUME NEW S, NL \in S, MARK \in S, NEW pages \in Seq(Seq(S)), Neat(pages),
           NEW m \in Nat, m = Len(pages), NEW c \in Nat, Upto(c) < m, Good(pages, m, c),
           NEW chunk, chunk = Between(pages, Upto(c), LastIn(m, c))
    PROVE  /\ Trim(JoinedPages(chunk)) \in Seq(S)
           /\ Trim(JoinedPages(chunk)) # <<>>
           /\ WholeText(Trim(JoinedPages(chunk)), chunk)
           /\ Upto(c + 1) < m => ~FewerPages(Trim(JoinedPages(chunk)))
<1>1. PICK a \in Nat : a = Upto(c)
  BY UptoProperties
<1>2. PICK e \in Nat : /\ e = LastIn(m, c) /\ a < e /\ e <= m
                       /\ Upto(c + 1) < m => e = a + PAGE_CHUNK_SIZE
  BY <1>1, LastInProperties
<1>3. PICK n \in Nat \ {0} : n = e - a
  BY <1>2
<1>4. /\ chunk \in Seq(Seq(S)) /\ Len(chunk) = n /\ chunk # <<>>
      /\ \A k \in 1..n : chunk[k] = pages[a + k]
  <2>1. IsRun(Seq(S), pages, a, e) /\ chunk = Between(pages, a, e)
    BY <1>1, <1>2 DEF IsRun
  <2>2. RunIs(Seq(S), chunk, pages, a, n)
    BY <1>3, <2>1, BetweenProperties
  <2>. QED
    BY <2>2 DEF RunIs
<1>5. \A k \in 1..n : a + k \in 1..m
  BY <1>2, <1>3
<1>6. Neat(chunk)
  <2>. SUFFICES ASSUME NEW k \in 1..n
                PROVE  Solid(chunk[k]) /\ \A j \in 1..Len(chunk[k]) : chunk[k][j] # MARK
    BY <1>4 DEF Neat
  <2>1. chunk[k] = pages[a + k] /\ a + k \in 1..m
    BY <1>4, <1>5
  <2>. QED
    BY <2>1 DEF Neat
<1>7. chunk[1] # <<>> /\ chunk[n] # <<>>
  <2>1. pages[a + 1] # <<>> /\ pages[e] # <<>>
    BY <1>1, <1>2, c \in 0..c DEF Good
  <2>2. a + n = e /\ 1 \in 1..n /\ n \in 1..n
    BY <1>3, <1>2
  <2>. QED
    BY <2>1, <2>2, <1>4
<1>8. JoinedPages(chunk) \in Seq(S) /\ WholeText(JoinedPages(chunk), chunk)
  BY <1>4, JoinedWhole
<1>9. Solid(JoinedPages(chunk)) /\ JoinedPages(chunk) # <<>>
  BY <1>4, <1>6, <1>7, <1>8, WholeIsSolid
<1>10. Trim(JoinedPages(chunk)) = JoinedPages(chunk)
  BY <1>8, <1>9, TrimProperties
<1>11. Count(JoinedPages(chunk), MARK) = n - 1
  <2>1. \A k \in 1..Len(chunk) : \A j \in 1..Len(chunk[k]) : chunk[k][j] # MARK
    BY <1>6 DEF Neat
  <2>. QED
    BY <2>1, <1>4, MarksOfJoined
<1>12. Upto(c + 1) < m => ~FewerPages(JoinedPages(chunk))
  BY <1>2, <1>3, <1>11, ChunkAssumption DEF FewerPages
<1>. QED
  BY <1>8, <1>9, <1>10, <1>12

\* The pages up to one, and those after it up to another.
RunsUpTo(T, before, chunk, pages, a, e) ==
    /\ a \in Nat \ {0} /\ e \in Nat /\ a < e
    /\ RunIs(T, before, pages, 0, a) /\ RunIs(T, chunk, pages, a, e - a)

\* A run that goes on where another ends makes one run of both.
LEMMA RunsJoin ==
    ASSUME NEW T, NEW pages, NEW a, NEW e, NEW before, NEW chunk,
           RunsUpTo(T, before, chunk, pages, a, e)
    PROVE  RunIs(T, before \o chunk, pages, 0, e)
<1>0. /\ a \in Nat \ {0} /\ e \in Nat /\ a < e
      /\ RunIs(T, before, pages, 0, a) /\ RunIs(T, chunk, pages, a, e - a)
  BY DEF RunsUpTo
<1>1. PICK n \in Nat : n = e - a /\ a + n = e
  BY <1>0
<1>2. /\ before \in Seq(T) /\ Len(before) = a /\ chunk \in Seq(T) /\ Len(chunk) = n
      /\ \A k \in 1..a : before[k] = pages[0 + k]
      /\ \A k \in 1..n : chunk[k] = pages[a + k]
  BY <1>0, <1>1 DEF RunIs
<1>3. PICK both : both = before \o chunk
  OBVIOUS
<1>4. /\ both \in Seq(T) /\ Len(both) = e
      /\ \A k \in 1..e : both[k] = IF k <= a THEN before[k] ELSE chunk[k - a]
  <2>1. /\ both \in Seq(T) /\ Len(both) = Len(before) + Len(chunk)
        /\ \A k \in 1..(Len(before) + Len(chunk)) :
              both[k] = IF k <= Len(before) THEN before[k] ELSE chunk[k - Len(before)]
    BY <1>2, <1>3, ConcatProperties
  <2>2. Len(before) + Len(chunk) = e
    BY <1>1, <1>2
  <2>. QED
    BY <2>1, <2>2, <1>2
<1>5. \A k \in 1..e : both[k] = pages[0 + k]
  <2>. SUFFICES ASSUME NEW k \in 1..e PROVE both[k] = pages[0 + k]
    OBVIOUS
  <2>1. CASE k <= a
    BY <2>1, <1>0, <1>2, <1>4
  <2>2. CASE ~(k <= a)
    <3>1. k - a \in 1..n /\ a + (k - a) = k /\ 0 + k = k
      BY <1>0, <1>1, <2>2
    <3>. QED
      BY <2>2, <3>1, <1>2, <1>4
  <2>. QED
    BY <2>1, <2>2
<1>6. e \in Nat \ {0} /\ both # <<>>
  BY <1>0, <1>4, EmptySeq
<1>. QED
  BY <1>3, <1>4, <1>5, <1>6 DEF RunIs

\* There is one such run.
LEMMA SameRun ==
    ASSUME NEW T, NEW x, NEW y, NEW pages, NEW a, NEW n,
           RunIs(T, x, pages, a, n), RunIs(T, y, pages, a, n)
    PROVE  x = y
<1>1. /\ x \in Seq(T) /\ y \in Seq(T) /\ Len(x) = n /\ Len(y) = n
      /\ \A k \in 1..n : x[k] = pages[a + k] /\ y[k] = pages[a + k]
  BY DEF RunIs
<1>2. Len(x) = Len(y) /\ \A k \in 1..Len(x) : x[k] = y[k]
  BY <1>1
<1>. QED
  BY <1>1, <1>2, SeqEqual

\* The pages up to the end of a call are a run from the first page on.
LEMMA FirstPages ==
    ASSUME NEW S, NEW pages \in Seq(S), NEW m \in Nat, m = Len(pages),
           NEW c \in Nat, Upto(c) < m
    PROVE  /\ Between(pages, 0, LastIn(m, c)) \in Seq(S)
           /\ Between(pages, 0, LastIn(m, c)) # <<>>
           /\ Len(Between(pages, 0, LastIn(m, c))) = LastIn(m, c)
           /\ \A k \in 1..LastIn(m, c) : Between(pages, 0, LastIn(m, c))[k] = pages[k]
<1>1. PICK e \in Nat : e = LastIn(m, c) /\ 0 < e /\ e <= m /\ e - 0 = e
  <2>1. PICK u \in Nat : u = Upto(c)
    BY UptoProperties
  <2>. QED
    BY <2>1, LastInProperties
<1>2. IsRun(S, pages, 0, e)
  BY <1>1 DEF IsRun
<1>3. RunIs(S, Between(pages, 0, e), pages, 0, e)
  BY <1>1, <1>2, BetweenProperties
<1>. QED
  BY <1>1, <1>3 DEF RunIs

\* What a chunk's answer adds to the text.
LEMMA ReadOn ==
    ASSUME NEW S, NL \in S, MARK \in S, NEW pages \in Seq(Seq(S)), Neat(pages),
           NEW m \in Nat, m = Len(pages), NEW n \in Nat, Upto(n) < m,
           NEW text \in Seq(S), n # 0 => ReadTo(pages, m, n, text),
           NEW chunk, chunk = Between(pages, Upto(n), LastIn(m, n)),
           NEW md \in Seq(S), md = Trim(JoinedPages(chunk)),
           NEW new, new = IF n = 0 THEN md ELSE text \o <<NL, MARK, NL>> \o md
    PROVE  /\ ReadTo(pages, m, n + 1, new)
           /\ FewerPages(md) \/ md = <<>> => ReadAll(pages, m, n + 1)
<1>1. PICK a \in Nat : a = Upto(n)
  BY UptoProperties
<1>2. PICK e \in Nat : e = LastIn(m, n) /\ a < e /\ e <= m
  BY <1>1, LastInProperties
<1>3. RunIs(Seq(S), chunk, pages, a, e - a)
  <2>1. IsRun(Seq(S), pages, a, e)
    BY <1>2 DEF IsRun
  <2>. QED
    BY <1>1, <1>2, <2>1, BetweenProperties
<1>4. ASSUME NEW c \in Nat, Upto(c) < m, Good(pages, m, c), c + 1 = n + 1
      PROVE  WholeText(new, Between(pages, 0, LastIn(m, c)))
  <2>1. c = n
    BY <1>4
  <2>2. WholeText(md, chunk)
    BY <1>4, <2>1, ChunkIsRead
  <2>3. CASE n = 0
    BY <1>1, <2>1, <2>2, <2>3, UptoProperties
  <2>4. CASE n # 0
    <3>1. PICK b \in Nat : b = n - 1 /\ b + 1 = n /\ b <= n
      BY <2>4
    <3>2. Upto(b) < m /\ LastIn(m, b) = a
      <4>1. PICK u \in Nat : u = Upto(b) /\ a = u + PAGE_CHUNK_SIZE /\ a = Upto(b + 1)
        BY <1>1, <3>1, UptoProperties
      <4>2. Upto(b) < m /\ a < m
        BY <1>1, <4>1, ChunkAssumption
      <4>. QED
        BY <1>1, <4>1, <4>2 DEF LastIn
    <3>3. Good(pages, m, b)
      BY <1>4, <2>1, <3>1 DEF Good
    <3>4. WholeText(text, Between(pages, 0, a))
      BY <2>4, <3>1, <3>2, <3>3 DEF ReadTo
    <3>5. 0 < a
      <4>1. Upto(b) \in Nat /\ Upto(b) < LastIn(m, b)
        BY <3>1, <3>2, UptoProperties, LastInProperties
      <4>. QED
        BY <3>2, <4>1
    <3>6. PICK before : before = Between(pages, 0, a)
      OBVIOUS
    <3>7. RunIs(Seq(S), before, pages, 0, a)
      <4>1. IsRun(Seq(S), pages, 0, a) /\ a - 0 = a
        BY <1>2, <3>5 DEF IsRun
      <4>. QED
        BY <3>6, <4>1, BetweenProperties
    <3>8. /\ before \in Seq(Seq(S)) /\ before # <<>> /\ WholeText(text, before)
          /\ chunk \in Seq(Seq(S)) /\ chunk # <<>>
      BY <1>3, <3>4, <3>6, <3>7 DEF RunIs
    <3>9. WholeText(text \o <<NL, MARK, NL>> \o md, before \o chunk)
      BY <2>2, <3>8, WholeConcat
    <3>10. before \o chunk = Between(pages, 0, e)
      <4>1. RunsUpTo(Seq(S), before, chunk, pages, a, e)
        BY <1>2, <1>3, <3>5, <3>7 DEF RunsUpTo
      <4>2. PICK both : both = before \o chunk /\ RunIs(Seq(S), both, pages, 0, e)
        BY <4>1, RunsJoin
      <4>3. IsRun(Seq(S), pages, 0, e) /\ e - 0 = e
        BY <1>2 DEF IsRun
      <4>4. PICK all : all = Between(pages, 0, e) /\ RunIs(Seq(S), all, pages, 0, e)
        BY <4>3, BetweenProperties
      <4>5. both = all
        BY <4>2, <4>4, SameRun
      <4>. QED
        BY <4>2, <4>4, <4>5
    <3>. QED
      BY <1>2, <2>1, <2>4, <3>9, <3>10
  <2>. QED
    BY <2>3, <2>4
<1>5. ASSUME NEW c \in Nat, Upto(c) < m, Good(pages, m, c), c + 1 < n + 1
      PROVE  Begun(new, Between(pages, 0, LastIn(m, c)))
  <2>1. n # 0 /\ (c + 1 = n \/ c + 1 < n)
    BY <1>5
  <2>2. PICK before : before = Between(pages, 0, LastIn(m, c))
    OBVIOUS
  <2>3. WholeText(text, before) \/ Begun(text, before)
    BY <1>5, <2>1, <2>2 DEF ReadTo
  <2>4. before \in Seq(Seq(S)) /\ before # <<>>
    BY <1>5, <2>2, FirstPages
  <2>5. Begun(text \o <<NL, MARK, NL>> \o md, before)
    BY <2>3, <2>4, BegunLonger
  <2>. QED
    BY <2>1, <2>2, <2>5
<1>6. ReadTo(pages, m, n + 1, new)
  BY <1>4, <1>5 DEF ReadTo
<1>7. ASSUME FewerPages(md) \/ md = <<>>, NEW c \in Nat, Upto(c) < m, Good(pages, m, c)
      PROVE  c < n + 1
  <2>. SUFFICES ASSUME n + 1 <= c PROVE FALSE
    OBVIOUS
  <2>1. Good(pages, m, n)
    BY <1>7 DEF Good
  <2>2. Upto(n + 1) < m
    <3>1. PICK d \in Nat : d = n + 1 /\ d <= c
      OBVIOUS
    <3>2. Upto(d) \in Nat /\ Upto(c) \in Nat /\ Upto(d) <= Upto(c)
      BY <1>7, <3>1, UptoProperties
    <3>. QED
      BY <1>7, <3>1, <3>2
  <2>3. md # <<>> /\ ~FewerPages(md)
    BY <2>1, <2>2, ChunkIsRead
  <2>. QED
    BY <1>7, <2>3
<1>. QED
  BY <1>6, <1>7 DEF ReadAll

\* When there are no more answers, every good chunk has been answered.
LEMMA ReadOut ==
    ASSUME NEW S, NL \in S, MARK \in S, NEW pages \in Seq(Seq(S)), Neat(pages),
           NEW m \in Nat, m = Len(pages), NEW n \in Nat,
           NEW chunk, chunk = Between(pages, Upto(n), LastIn(m, n)),
           ~(Upto(n) < m) \/ Trim(JoinedPages(chunk)) = <<>>
    PROVE  ReadAll(pages, m, n)
<1>. SUFFICES ASSUME NEW c \in Nat, Upto(c) < m, Good(pages, m, c), n <= c
              PROVE  FALSE
  BY DEF ReadAll
<1>1. Upto(n) < m
  <2>1. Upto(n) \in Nat /\ Upto(c) \in Nat /\ Upto(n) <= Upto(c)
    BY UptoProperties
  <2>. QED
    BY <2>1
<1>2. Good(pages, m, n)
  BY DEF Good
<1>3. Trim(JoinedPages(chunk)) # <<>>
  BY <1>1, <1>2, ChunkIsRead
<1>. QED
  BY <1>1, <1>3
-------------------------------------------------------------------------------
(* The parsers. *)

\* The tokens of texts, and the text layer of the document.
Tokens == -2..Len(pdf)
Layer == [i \in DOMAIN pdf |-> InLayer(i)]

\* What page i is, in the text layer and when it is read as an image.
PageIs(i) ==
    /\ InLayer(i) \in Seq(Tokens) /\ OnPage(i) \in Seq(Tokens)
    /\ InLayer(i) # <<>> => InLayer(i) = OnPage(i)
    /\ Solid(InLayer(i))
    /\ \A j \in 1..Len(InLayer(i)) : InLayer(i)[j] # MARK
    /\ pdf[i] # "ruled" => \A j \in 1..Len(InLayer(i)) : InLayer(i)[j] # RULE

\* A document has pages.
LEMMA PdfShape ==
    ASSUME pdf \in Document
    PROVE  /\ pdf \in Seq(PageKind) /\ Len(pdf) \in Nat \ {0} /\ DOMAIN pdf = 1..Len(pdf)
           /\ \A i \in 1..Len(pdf) : pdf[i] \in PageKind
           /\ NL \in Tokens /\ MARK \in Tokens
<1>1. pdf \in Seq(PageKind) /\ pdf # <<>>
  BY DocumentAssumption
<1>2. Len(pdf) \in Nat \ {0}
  BY <1>1, EmptySeq
<1>3. \A i \in 1..Len(pdf) : pdf[i] \in PageKind
  BY <1>1, ElementType
<1>. QED
  BY <1>1, <1>2, <1>3 DEF Tokens, NL, MARK

\* What a page is, on paper and in the text layer.
LEMMA PageShape ==
    ASSUME pdf \in Document, NEW i \in 1..Len(pdf)
    PROVE  PageIs(i)
<1>1. PICK m \in Nat \ {0} : m = Len(pdf)
  BY PdfShape
<1>2. pdf[i] \in PageKind /\ Tokens = -2..m /\ i \in 1..m
  BY <1>1, PdfShape DEF Tokens
<1>3. CASE pdf[i] = "blank"
  BY <1>3 DEF PageIs, InLayer, OnPage, Solid
<1>4. CASE pdf[i] = "ruled"
  <2>1. InLayer(i) = <<i, NL, RULE, NL, i>> /\ OnPage(i) = <<i, NL, RULE, NL, i>>
    BY <1>4 DEF InLayer, OnPage
  <2>2. <<i, NL, RULE, NL, i>> \in Seq(Tokens)
    BY <1>2 DEF NL, RULE
  <2>3. Solid(<<i, NL, RULE, NL, i>>)
    BY <1>2 DEF Solid, NL
  <2>4. \A j \in 1..Len(<<i, NL, RULE, NL, i>>) : <<i, NL, RULE, NL, i>>[j] # MARK
    BY <1>2 DEF NL, RULE, MARK
  <2>. QED
    BY <1>4, <2>1, <2>2, <2>3, <2>4 DEF PageIs
<1>5. CASE pdf[i] \in {"text", "scan"}
  <2>1. OnPage(i) = <<i>> /\ (InLayer(i) = <<i>> \/ InLayer(i) = <<>>)
    BY <1>5 DEF InLayer, OnPage
  <2>2. <<i>> \in Seq(Tokens) /\ <<>> \in Seq(Tokens)
    BY <1>2
  <2>3. Solid(<<i>>) /\ Solid(<<>>)
    BY <1>2 DEF Solid, NL
  <2>4. /\ \A j \in 1..Len(<<i>>) : <<i>>[j] # MARK /\ <<i>>[j] # RULE
        /\ \A j \in 1..Len(<<>>) : <<>>[j] # MARK /\ <<>>[j] # RULE
    BY <1>2 DEF MARK, RULE
  <2>. QED
    BY <2>1, <2>2, <2>3, <2>4 DEF PageIs
<1>. QED
  BY <1>2, <1>3, <1>4, <1>5 DEF PageKind

\* The text layer is the pages that docling and pdftotext read.
LEMMA LayerShape ==
    ASSUME pdf \in Document
    PROVE  /\ Layer \in Seq(Seq(Tokens)) /\ Len(Layer) = Len(pdf) /\ Neat(Layer) /\ Layer # <<>>
           /\ \A i \in 1..Len(pdf) : Layer[i] = InLayer(i)
<1>1. PICK m \in Nat \ {0} : m = Len(pdf) /\ DOMAIN pdf = 1..m
  BY PdfShape
<1>2. Layer = [i \in 1..m |-> InLayer(i)]
  BY <1>1 DEF Layer
<1>3. \A i \in 1..m : PageIs(i)
  BY <1>1, PageShape
<1>4. Layer \in [1..m -> Seq(Tokens)]
  BY <1>2, <1>3 DEF PageIs
<1>5. Layer \in Seq(Seq(Tokens)) /\ Len(Layer) = m /\ \A i \in 1..m : Layer[i] = InLayer(i)
  <2>. HIDE DEF Layer
  <2>. QED
    BY <1>2, <1>4, SeqOfFunction
<1>6. Neat(Layer)
  <2>. HIDE DEF Layer
  <2>. SUFFICES ASSUME NEW k \in 1..m
                PROVE  Solid(Layer[k]) /\ \A j \in 1..Len(Layer[k]) : Layer[k][j] # MARK
    BY <1>5 DEF Neat
  <2>. QED
    BY <1>3, <1>5 DEF PageIs
<1>7. Layer # <<>>
  BY <1>5, EmptySeq
<1>. QED
  BY <1>1, <1>5, <1>6, <1>7

\* The empty rest after the last page break is dropped.
LEMMA EmptyRestDropped ==
    ASSUME NEW S, NEW texts \in Seq(Seq(S)), texts # <<>>
    PROVE  PagesFromPdftotext(texts) = texts
<1>1. PICK n \in Nat \ {0} : n = Len(texts)
  BY EmptySeq
<1>2. PICK all : all = Append(texts, <<>>)
  OBVIOUS
<1>3. /\ all \in Seq(Seq(S)) /\ Len(all) = n + 1
      /\ \A k \in 1..n : all[k] = texts[k]
      /\ all[n + 1] = <<>>
  BY <1>1, <1>2, AppendProperties
<1>4. Last(all) = <<>> /\ Len(all) > 1
  BY <1>3 DEF Last
<1>5. Front(all) = SubSeq(all, 1, n)
  BY <1>3 DEF Front
<1>6. \A k \in 1..n : all[k] \in Seq(S)
  <2>. SUFFICES ASSUME NEW k \in 1..n PROVE all[k] \in Seq(S)
    OBVIOUS
  <2>1. k \in 1..Len(all)
    BY <1>3
  <2>. QED
    BY <2>1, <1>3, ElementType
<1>7. /\ SubSeq(all, 1, n) \in Seq(Seq(S))
      /\ Len(SubSeq(all, 1, n)) = IF 1 <= n THEN n - 1 + 1 ELSE 0
      /\ \A i \in 1..(n - 1 + 1) : SubSeq(all, 1, n)[i] = all[1 + i - 1]
  BY <1>6, SubSeqProperties
<1>8. Len(SubSeq(all, 1, n)) = n /\ \A i \in 1..n : SubSeq(all, 1, n)[i] = texts[i]
  <2>1. n - 1 + 1 = n /\ 1 <= n /\ \A i \in 1..n : 1 + i - 1 = i
    OBVIOUS
  <2>. QED
    BY <1>3, <1>7, <2>1
<1>9. SubSeq(all, 1, n) = texts
  BY <1>1, <1>7, <1>8, SeqEqual
<1>. QED
  BY <1>2, <1>4, <1>5, <1>9 DEF PagesFromPdftotext

\* What the pages up to a good chunk are when the text is split again.
CanRead(S, pages, m, c, n, text) ==
    /\ NL \in S /\ MARK \in S /\ Neat(pages) /\ m = Len(pages)
    /\ Upto(c) < m /\ Good(pages, m, c) /\ c < n /\ ReadTo(pages, m, n, text)
    /\ LastIn(m, c) = 1 => \A j \in 1..Len(pages[1]) : pages[1][j] # RULE

\* The pages up to the end of call c are the first of the list.
IsRead(S, pages, m, c, n, list) ==
    /\ list \in Seq(Seq(S))
    /\ LastIn(m, c) <= Len(list)
    /\ \A k \in 1..LastIn(m, c) : list[k] = pages[k]
    /\ c + 1 = n => Len(list) = LastIn(m, c)

\* docling: if the pages of the calls so far can be read, they are the pages the joined
\* answers are split into.
LEMMA PagesRead ==
    ASSUME NEW S, NEW pages \in Seq(Seq(S)), NEW text \in Seq(S),
           NEW m \in Nat, NEW c \in Nat, NEW n \in Nat, CanRead(S, pages, m, c, n, text)
    PROVE  IsRead(S, pages, m, c, n, SplitIntoPages(text))
<1>0. /\ NL \in S /\ MARK \in S /\ Neat(pages) /\ m = Len(pages)
      /\ Upto(c) < m /\ Good(pages, m, c) /\ c < n /\ ReadTo(pages, m, n, text)
      /\ LastIn(m, c) = 1 => \A j \in 1..Len(pages[1]) : pages[1][j] # RULE
  BY DEF CanRead
<1>1. PICK e \in Nat \ {0} : e = LastIn(m, c) /\ e <= m
  <2>1. PICK u \in Nat : u = Upto(c)
    BY UptoProperties
  <2>. QED
    BY <2>1, <1>0, LastInProperties
<1>2. PICK first \in Seq(Seq(S)) :
          /\ first = Between(pages, 0, LastIn(m, c))
          /\ first # <<>> /\ Len(first) = e /\ \A k \in 1..e : first[k] = pages[k]
  <2>1. PICK T : T = Seq(S)
    OBVIOUS
  <2>2. pages \in Seq(T)
    BY <2>1
  <2>3. /\ Between(pages, 0, LastIn(m, c)) \in Seq(T)
        /\ Between(pages, 0, LastIn(m, c)) # <<>>
        /\ Len(Between(pages, 0, LastIn(m, c))) = LastIn(m, c)
        /\ \A k \in 1..LastIn(m, c) : Between(pages, 0, LastIn(m, c))[k] = pages[k]
    BY <2>2, <1>0, FirstPages
  <2>. QED
    BY <1>1, <2>1, <2>3
<1>3. Neat(first)
  <2>. SUFFICES ASSUME NEW k \in 1..e
                PROVE  Solid(first[k]) /\ \A j \in 1..Len(first[k]) : first[k][j] # MARK
    BY <1>2 DEF Neat
  <2>1. first[k] = pages[k] /\ k \in 1..m
    BY <1>0, <1>1, <1>2
  <2>. QED
    BY <1>0, <2>1 DEF Neat
<1>4. /\ c + 1 = n => WholeText(text, first)
      /\ c + 1 # n => Begun(text, first)
  BY SMTT(40), <1>0, <1>2 DEF ReadTo
<1>5. PICK result1 : result1 = SplitIntoPages(text) /\ result1 \in Seq(Seq(S))
  BY SplitTyped
<1>. SUFFICES /\ e <= Len(result1) /\ \A k \in 1..e : result1[k] = pages[k]
              /\ c + 1 = n => Len(result1) = e
  BY <1>1, <1>5 DEF IsRead
<1>6. CASE c + 1 = n /\ e # 1
  <2>1. Contains(text, MARK)
    BY <1>2, <1>4, <1>6, WholeOfMore
  <2>2. result1 = first
    BY <1>2, <1>3, <1>4, <1>5, <1>6, <2>1, SplitWhole
  <2>. QED
    BY <1>1, <1>2, <1>5, <2>2
<1>7. CASE c + 1 = n /\ e = 1
  <2>1. text = first[1] /\ first[1] = pages[1] /\ 1 \in 1..m
    BY <1>0, <1>1, <1>2, <1>4, <1>7, WholeOfOne
  <2>2. Solid(text) /\ \A i \in 1..Len(text) : text[i] # MARK /\ text[i] # RULE
    BY <1>0, <1>1, <1>7, <2>1 DEF Neat
  <2>3. result1 = <<text>>
    BY <1>5, <2>2, SplitUnmarked
  <2>4. Len(result1) = 1 /\ \A k \in 1..1 : result1[k] = pages[k]
    BY <2>1, <2>3
  <2>. QED
    BY <1>1, <1>5, <1>7, <2>4
<1>8. CASE c + 1 # n
  <2>1. Contains(text, MARK)
    BY <1>2, <1>4, <1>8, WholeOfMore
  <2>2. Len(first) <= Len(result1) /\ \A k \in 1..Len(first) : result1[k] = first[k]
    BY <1>2, <1>3, <1>4, <1>5, <1>8, <2>1, SplitBegun
  <2>. QED
    BY <1>1, <1>2, <1>5, <1>8, <2>2
<1>. QED
  BY <1>6, <1>7, <1>8

\* The chunk a page is in.
LEMMA ChunkOfPage ==
    ASSUME NEW m \in Nat, NEW i \in 1..m
    PROVE  /\ ChunkOf(i) \in Nat /\ Upto(ChunkOf(i)) < i /\ Upto(ChunkOf(i)) < m
           /\ i <= LastIn(m, ChunkOf(i))
           /\ i = m => LastIn(m, ChunkOf(i)) = m /\ m <= Upto(ChunkOf(i) + 1)
<1>1. PICK x \in Nat : x = i - 1
  OBVIOUS
<1>2. PICK c \in Nat : c = ChunkOf(i) /\ c * PAGE_CHUNK_SIZE <= x
                    /\ x < c * PAGE_CHUNK_SIZE + PAGE_CHUNK_SIZE
  <2>1. PICK s \in Nat \ {0} : s = PAGE_CHUNK_SIZE
    BY ChunkAssumption
  <2>2. x \div s \in Nat /\ (x \div s) * s <= x /\ x < (x \div s) * s + s
    BY DivideProperties
  <2>. QED
    BY <1>1, <2>1, <2>2 DEF ChunkOf
<1>3. PICK u \in Nat, v \in Nat : u = Upto(c) /\ v = Upto(c + 1) /\ v = u + PAGE_CHUNK_SIZE
  BY UptoProperties
<1>4. u <= x /\ x < v
  BY <1>2, <1>3 DEF Upto
<1>. QED
  BY <1>1, <1>2, <1>3, <1>4 DEF LastIn

\* Where a call ends, as the code has it.
LEMMA LastInIsMin ==
    ASSUME NEW m \in Nat, NEW c \in Nat
    PROVE  Min({(c + 1) * PAGE_CHUNK_SIZE, m}) = LastIn(m, c)
<1>1. PICK v \in Nat : v = Upto(c + 1) /\ v = (c + 1) * PAGE_CHUNK_SIZE
  BY UptoProperties DEF Upto
<1>2. PICK e \in {v, m} : e = LastIn(m, c) /\ \A x \in {v, m} : e <= x
  BY <1>1 DEF LastIn
<1>3. Min({v, m}) = e
  BY <1>2 DEF Min
<1>. QED
  BY <1>1, <1>2, <1>3

\* What BreaksKept means for the chunks.
LEMMA GoodChunks ==
    ASSUME pdf \in Document, parser = "docling", NEW i \in 1..Len(pdf), BreaksKept(i)
    PROVE  /\ Good(Layer, Len(pdf), ChunkOf(i))
           /\ LastIn(Len(pdf), ChunkOf(i)) = 1 =>
                  \A j \in 1..Len(Layer[1]) : Layer[1][j] # RULE
<1>1. PICK m \in Nat \ {0} : m = Len(pdf)
  BY PdfShape
<1>2. PICK b \in Nat : b = ChunkOf(i) /\ Upto(b) < m
  BY <1>1, ChunkOfPage
<1>3. \A k \in 1..m : Layer[k] = InLayer(k)
  BY <1>1, LayerShape
<1>4. ASSUME NEW d \in 0..b
      PROVE  Layer[Upto(d) + 1] # <<>> /\ Layer[LastIn(m, d)] # <<>>
  <2>1. PICK u \in Nat : u = Upto(d) /\ u < m
    <3>1. d \in Nat /\ b \in Nat /\ d <= b
      OBVIOUS
    <3>2. Upto(d) \in Nat /\ Upto(b) \in Nat /\ Upto(d) <= Upto(b)
      BY <3>1, UptoProperties
    <3>. QED
      BY <1>2, <3>2
  <2>2. PICK e \in Nat : e = LastIn(m, d) /\ u < e /\ e <= m
    BY <2>1, LastInProperties
  <2>3. u + 1 \in 1..m /\ e \in 1..m
    BY <2>1, <2>2
  <2>4. InLayer(d * PAGE_CHUNK_SIZE + 1) # <<>>
    BY <1>2 DEF BreaksKept
  <2>5. InLayer(Min({(d + 1) * PAGE_CHUNK_SIZE, m})) # <<>>
    BY <1>1, <1>2 DEF BreaksKept
  <2>6. Min({(d + 1) * PAGE_CHUNK_SIZE, m}) = e
    BY <2>2, LastInIsMin
  <2>. QED
    BY <1>3, <2>1, <2>2, <2>3, <2>4, <2>5, <2>6 DEF Upto
<1>5. Good(Layer, m, b)
  BY <1>4 DEF Good
<1>6. ASSUME LastIn(m, b) = 1
      PROVE  \A j \in 1..Len(Layer[1]) : Layer[1][j] # RULE
  <2>1. m = 1
    <3>1. Upto(b) \in Nat /\ Upto(b + 1) = Upto(b) + PAGE_CHUNK_SIZE
      BY <1>2, UptoProperties
    <3>2. PICK u \in Nat, v \in Nat : u = Upto(b) /\ v = Upto(b + 1) /\ v = u + PAGE_CHUNK_SIZE
      BY <3>1, ChunkAssumption
    <3>. QED
      BY <1>6, <3>2, ChunkAssumption DEF LastIn
  <2>2. pdf[1] # "ruled" /\ 1 \in 1..m
    BY <1>1, <2>1 DEF BreaksKept
  <2>3. PageIs(1)
    BY <1>1, <2>2, PageShape
  <2>. QED
    BY <1>3, <2>2, <2>3 DEF PageIs
<1>. QED
  BY <1>1, <1>2, <1>5, <1>6
-------------------------------------------------------------------------------
\* Which phases are whose; what docling has read; what tesseract-pdf has.
Read ==
    Len(bodies) # 0 =>
        /\ Upto(Len(bodies) - 1) < Len(pdf)
        /\ ReadTo(Layer, Len(pdf), Len(bodies), JoinedPages(bodies))

\* Docling failed on the pages after those it has read.
Stopped ==
    /\ cutAt = Upto(Len(bodies)) + 1
    /\ Len(bodies) # 0 /\ Upto(Len(bodies)) < Len(pdf)

\* The inductive invariant: docling has read the pages up to the end of the last call,
\* which was the last one it has pages for unless a call failed, and the text layer is
\* what pdftotext gave.
ParsersIInv ==
    /\ ParsersTypeOK
    /\ phase \in {"convert", "join"} => parser = "docling" /\ Read
    /\ phase \in {"read", "ocr", "reread"} => parser = "tesseract-pdf"
    /\ phase \in {"upload", "recognise"} => parser = "mistral"
    /\ phase = "convert" => start = Upto(Len(bodies)) + 1 /\ cutAt = 0
    /\ phase = "join" => ReadAll(Layer, Len(pdf), Len(bodies)) \/ Stopped
    /\ phase \in {"ocr", "reread"} => layer = Layer
    /\ PagesAreTrue

\* It holds of a document that has not been read.
LEMMA ParsersInitIInv == ParsersInit => ParsersIInv
<1>. SUFFICES ASSUME ParsersInit PROVE ParsersIInv
  OBVIOUS
<1>0. \/ parser = "docling" /\ phase = "convert"
      \/ parser = "tesseract-pdf" /\ phase = "read"
      \/ parser = "mistral" /\ phase = "upload"
  <2>1. CASE parser = "docling"
    BY <2>1 DEF ParsersInit
  <2>2. CASE parser = "tesseract-pdf"
    BY <2>2 DEF ParsersInit
  <2>3. CASE parser = "mistral"
    BY <2>3 DEF ParsersInit
  <2>. QED
    BY <2>1, <2>2, <2>3 DEF ParsersInit, Parser
<1>1. /\ parser \in Parser /\ pdf \in Document /\ start = 1
      /\ bodies = <<>> /\ layer = <<>> /\ result = <<>> /\ cutAt = 0
  BY DEF ParsersInit
<1>2. ParsersTypeOK
  BY <1>0, <1>1 DEF ParsersTypeOK
<1>3. Len(bodies) = 0 /\ start = Upto(Len(bodies)) + 1
  BY <1>1, UptoProperties
<1>. QED
  BY <1>0, <1>1, <1>2, <1>3 DEF ParsersIInv, Read, PagesAreTrue

\* A step changes neither the document nor the parser, so what they say stays.
Same == parser' = parser /\ pdf' = pdf

\* The text layer is that of the document.
LEMMA SameLayer ==
    ASSUME Same
    PROVE  Layer' = Layer /\ Tokens' = Tokens
  BY DEF Same, Layer, InLayer, OnPage, Tokens

\* What PagesAreTrue says of the pages.
True(pages) ==
    /\ BreaksKept(Len(pdf)) => Len(pages) <= Len(pdf)
    /\ \A i \in DOMAIN pdf :
        Sees(i) # <<>> /\ BreaksKept(i) /\ PageAsked(i)
            => i \in DOMAIN pages /\ pages[i] = Sees(i)

\* What was true of the pages is true of them.
LEMMA SameTruth ==
    ASSUME Same, NEW pages, result' = pages,
           phase' = "done" => True(pages) /\ cutAt' = cutAt
    PROVE  PagesAreTrue'
  BY DEF Same, True, PagesAreTrue, PageAsked, BreaksKept, Sees, InLayer, OnPage, ChunkOf

\* The step of any action, put together.
LEMMA StepIInv ==
    ASSUME ParsersIInv, Same, ParsersTypeOK',
           phase' \in {"convert", "join"} => /\ phase \in {"convert", "join"}
                                            /\ Read',
           phase' \in {"read", "ocr", "reread"} => phase \in {"read", "ocr", "reread"},
           phase' \in {"upload", "recognise"} => phase \in {"upload", "recognise"},
           phase' = "convert" => start' = Upto(Len(bodies')) + 1 /\ cutAt' = 0,
           phase' = "join" => ReadAll(Layer, Len(pdf), Len(bodies')) \/ Stopped',
           phase' \in {"ocr", "reread"} => layer' = Layer,
           NEW pages, pages = result',
           phase' = "done" => True(pages) /\ cutAt' = cutAt
    PROVE  ParsersIInv'
<1>1. PagesAreTrue'
  BY SameTruth
<1>2. Layer' = Layer /\ Len(pdf)' = Len(pdf)
  BY SameLayer DEF Same
<1>3. (phase = "join" => ReadAll(Layer, Len(pdf), Len(bodies)) \/ Stopped)'
  BY <1>2
<1>. QED
  BY <1>1, <1>2, <1>3 DEF ParsersIInv, Same

\* A call that fails gives no pages.
LEMMA ThrownIInv ==
    ASSUME ParsersIInv, Same, Throws
    PROVE  ParsersIInv'
<1>1. ParsersTypeOK'
  BY DEF ParsersIInv, ParsersTypeOK, Same, Throws
<1>. QED
  BY <1>1, StepIInv DEF Throws, ParsersIInv

\* Docling fails on pages the document has.
LEMMA ChunkFailsIInv ==
    ASSUME ParsersIInv, ChunkFails
    PROVE  ParsersIInv'
<1>1. PICK m \in Nat \ {0} : m = Len(pdf)
  BY PdfShape DEF ParsersIInv, ParsersTypeOK
<1>2. PICK n \in Nat : n = Len(bodies)
  BY DEF ParsersIInv, ParsersTypeOK
<1>3. PICK a \in Nat : a = Upto(n)
  BY UptoProperties
<1>4. /\ Same /\ parser = "docling" /\ phase = "convert" /\ phase' = "join"
      /\ cutAt' = start /\ UNCHANGED <<start, bodies, layer, result>>
  BY DEF ChunkFails, Same, ParsersIInv
<1>5. start = a + 1 /\ start > 1 /\ start <= m
  BY <1>1, <1>2, <1>3 DEF ChunkFails, ParsersIInv
<1>6. Stopped'
  <2>1. n # 0
    BY <1>3, <1>5, UptoProperties
  <2>2. start' = a + 1 /\ Len(bodies') = n /\ Len(pdf') = m /\ cutAt' = a + 1
    BY <1>1, <1>2, <1>4, <1>5 DEF Same
  <2>. QED
    BY <1>3, <1>5, <2>1, <2>2 DEF Stopped
<1>7. Read'
  BY <1>4, SameLayer DEF ParsersIInv, Read, Same
<1>8. ParsersTypeOK'
  BY <1>4 DEF ParsersIInv, ParsersTypeOK, Same
<1>. QED
  BY <1>4, <1>6, <1>7, <1>8, StepIInv

\* Docling has answered, or has no more pages.
LEMMA ConvertIInv ==
    ASSUME ParsersIInv, Convert
    PROVE  ParsersIInv'
<1>1. PICK m \in Nat \ {0} : m = Len(pdf)
  BY PdfShape DEF ParsersIInv, ParsersTypeOK
<1>2. PICK T : T = Tokens
  OBVIOUS
<1>3. PICK old \in Seq(Seq(T)) : old = bodies
  BY <1>2 DEF ParsersIInv, ParsersTypeOK, Tokens
<1>4. PICK n \in Nat : n = Len(old)
  OBVIOUS
<1>5. PICK pages \in Seq(Seq(T)) :
          /\ pages = Layer /\ Len(pages) = m /\ Neat(pages)
          /\ \A i \in 1..m : pages[i] = InLayer(i)
  BY <1>1, <1>2, LayerShape DEF ParsersIInv, ParsersTypeOK
<1>6. NL \in T /\ MARK \in T
  BY <1>2, PdfShape DEF ParsersIInv, ParsersTypeOK
<1>7. PICK a \in Nat : a = Upto(n) /\ Upto(n + 1) = a + PAGE_CHUNK_SIZE
  BY UptoProperties
<1>8. /\ start = a + 1 /\ Same /\ phase = "convert" /\ parser = "docling"
      /\ cutAt' = cutAt /\ cutAt = 0
  BY <1>3, <1>4, <1>7 DEF ParsersIInv, Convert, Same
<1>9. PICK text \in Seq(T) : text = JoinedPages(old)
  BY <1>3, <1>6, JoinedType
<1>10. n # 0 => ReadTo(pages, m, n, text)
  BY <1>1, <1>3, <1>4, <1>5, <1>8, <1>9 DEF ParsersIInv, Read
<1>11. PICK chunk : chunk = Between(pages, Upto(n), LastIn(m, n))
  OBVIOUS
<1>12. PICK md : md = Trim(JoinedPages(chunk))
  OBVIOUS
<1>13. ASSUME Upto(n) < m
       PROVE  Converted(start) = md /\ md \in Seq(T)
  <2>1. PICK e \in Nat : e = LastIn(m, n) /\ a < e /\ e <= m
    BY <1>7, <1>13, LastInProperties
  <2>2. Min({start + PAGE_CHUNK_SIZE - 1, Len(pdf)}) = e
    <3>1. start + PAGE_CHUNK_SIZE - 1 = (n + 1) * PAGE_CHUNK_SIZE
      BY <1>7, <1>8, ChunkAssumption DEF Upto
    <3>. QED
      BY <3>1, <1>1, <2>1, LastInIsMin
  <2>3. e - start + 1 = e - a /\ \A k \in 1..(e - a) : start + k - 1 = a + k
    BY <1>8
  <2>4. \A k \in 1..(e - a) : pages[a + k] = InLayer(a + k)
    <3>. SUFFICES ASSUME NEW k \in 1..(e - a) PROVE a + k \in 1..m
      BY <1>5
    <3>. QED
      BY <2>1
  <2>5. [k \in 1..(e - start + 1) |-> InLayer(start + k - 1)] = chunk
    BY <1>7, <1>11, <2>1, <2>3, <2>4 DEF Between
  <2>6. Converted(start) = md
    BY <1>12, <2>2, <2>5 DEF Converted
  <2>7. IsRun(Seq(T), pages, a, e)
    BY <1>5, <2>1 DEF IsRun
  <2>8. RunIs(Seq(T), chunk, pages, a, e - a)
    BY <1>7, <1>11, <2>1, <2>7, BetweenProperties
  <2>9. chunk \in Seq(Seq(T))
    BY <2>8 DEF RunIs
  <2>10. JoinedPages(chunk) \in Seq(T)
    BY <1>6, <2>9, JoinedType
  <2>. QED
    BY <1>12, <2>6, <2>10, TrimProperties
<1>14. CASE ~(Upto(n) < m) \/ (Upto(n) < m /\ md = <<>>)
  <2>1. phase' = "join" /\ UNCHANGED <<start, bodies, layer, result>>
    <3>1. CASE ~(Upto(n) < m)
      <4>1. start > Len(pdf)
        BY <1>1, <1>7, <1>8, <3>1
      <4>. QED
        BY <4>1 DEF Convert
    <3>2. CASE Upto(n) < m /\ md = <<>>
      <4>1. ~(start > Len(pdf)) /\ Converted(start) = <<>>
        BY <1>1, <1>7, <1>8, <1>13, <3>2
      <4>. QED
        BY <4>1 DEF Convert
    <3>. QED
      BY <3>1, <3>2, <1>14
  <2>2. ReadAll(pages, m, n)
    BY <1>5, <1>6, <1>11, <1>12, <1>14, ReadOut
  <2>3. Read'
    BY <2>1, <1>8, SameLayer DEF ParsersIInv, Read, Same
  <2>4. ParsersTypeOK'
    BY <2>1, <1>8 DEF ParsersIInv, ParsersTypeOK, Same
  <2>. QED
    BY <1>1, <1>3, <1>4, <1>5, <1>8, <2>1, <2>2, <2>3, <2>4, StepIInv
<1>15. CASE Upto(n) < m /\ md # <<>>
  <2>1. /\ bodies' = Append(old, md) /\ UNCHANGED <<layer, result>>
        /\ IF FewerPages(md) THEN phase' = "join" /\ start' = start
           ELSE phase' = "convert" /\ start' = start + PAGE_CHUNK_SIZE
    <3>1. ~(start > Len(pdf)) /\ Converted(start) = md
      BY <1>1, <1>7, <1>8, <1>13, <1>15
    <3>. QED
      BY <1>3, <1>8, <1>15, <3>1 DEF Convert
  <2>2. PICK now \in Seq(Seq(T)) : now = Append(old, md) /\ Len(now) = n + 1 /\ md \in Seq(T)
    BY <1>4, <1>13, <1>15, AppendProperties
  <2>3. JoinedPages(now) = IF n = 0 THEN md ELSE text \o <<NL, MARK, NL>> \o md
    <3>1. CASE n = 0
      <4>1. Len(now) = 1 /\ now[1] = md
        BY <1>4, <2>2, <3>1
      <4>. QED
        BY <3>1, <4>1, JoinedOne
    <3>2. CASE n # 0
      <4>1. old # <<>>
        BY <1>4, <3>2
      <4>. QED
        BY <3>2, <4>1, <1>9, <2>2, JoinedMore
    <3>. QED
      BY <3>1, <3>2
  <2>4. /\ ReadTo(pages, m, n + 1, JoinedPages(now))
        /\ FewerPages(md) => ReadAll(pages, m, n + 1)
    BY <1>5, <1>6, <1>10, <1>11, <1>12, <1>15, <2>2, <2>3, ReadOn
  <2>5. Read'
    <3>1. Layer' = pages /\ Len(pdf)' = m /\ bodies' = now
      BY <1>1, <1>5, <1>8, <2>1, <2>2, SameLayer DEF Same
    <3>2. Len(now) - 1 = n
      BY <2>2
    <3>. QED
      BY <1>15, <2>2, <2>4, <3>1, <3>2 DEF Read
  <2>6. ParsersTypeOK'
    <3>1. bodies' \in Seq(Seq(T)) /\ T = -2..Len(pdf') /\ pdf' = pdf /\ parser' = parser
      BY <1>2, <1>8, <2>1, <2>2 DEF Same, Tokens
    <3>2. start' \in Nat /\ phase' \in {"convert", "join"}
      BY <1>8, <2>1, ChunkAssumption
    <3>. QED
      BY <1>8, <2>1, <3>1, <3>2 DEF ParsersIInv, ParsersTypeOK
  <2>7. phase' = "convert" => start' = Upto(Len(bodies')) + 1
    BY <1>7, <1>8, <2>1, <2>2, ChunkAssumption
  <2>8. phase' = "join" => ReadAll(Layer, Len(pdf), Len(bodies'))
    BY <1>1, <1>5, <2>1, <2>2, <2>4
  <2>9. phase' \in {"convert", "join"}
    BY <2>1
  <2>. QED
    BY <1>8, <2>5, <2>6, <2>7, <2>8, <2>9, StepIInv
<1>. QED
  BY <1>14, <1>15

\* Where the page breaks are kept up to the last page they are kept up to any.
LEMMA KeptBefore ==
    ASSUME NEW m \in Nat, BreaksKept(m), NEW i \in 1..m
    PROVE  BreaksKept(i)
<1>1. ChunkOf(i) \in Nat /\ ChunkOf(m) \in Nat /\ ChunkOf(i) <= ChunkOf(m)
  <2>1. /\ ChunkOf(i) \in Nat /\ Upto(ChunkOf(i)) < i
        /\ ChunkOf(m) \in Nat /\ m <= Upto(ChunkOf(m) + 1)
    BY ChunkOfPage, m \in 1..m
  <2>2. PICK c \in Nat, d \in Nat : c = ChunkOf(i) /\ d = ChunkOf(m)
    BY <2>1
  <2>3. CASE d < c
    <3>1. d + 1 \in Nat /\ d + 1 <= c
      BY <2>3
    <3>2. Upto(d + 1) \in Nat /\ Upto(c) \in Nat /\ Upto(d + 1) <= Upto(c)
      BY <3>1, UptoProperties
    <3>. QED
      BY <2>1, <2>2, <3>2
  <2>. QED
    BY <2>2, <2>3
<1>2. \A c \in 0..ChunkOf(i) : c \in 0..ChunkOf(m)
  BY <1>1
<1>. QED
  BY <1>2 DEF BreaksKept

\* Docling's answers are joined and split into pages again.
LEMMA JoinIInv ==
    ASSUME ParsersIInv, Join
    PROVE  ParsersIInv'
<1>1. PICK m \in Nat \ {0} : m = Len(pdf) /\ DOMAIN pdf = 1..m
  BY PdfShape DEF ParsersIInv, ParsersTypeOK
<1>2. PICK T : T = Tokens /\ NL \in T /\ MARK \in T
  BY PdfShape DEF ParsersIInv, ParsersTypeOK
<1>3. PICK n \in Nat : n = Len(bodies)
  BY DEF ParsersIInv, ParsersTypeOK
<1>4. PICK pages \in Seq(Seq(T)) :
          /\ pages = Layer /\ Len(pages) = m /\ Neat(pages)
          /\ \A i \in 1..m : pages[i] = InLayer(i)
  BY <1>1, <1>2, LayerShape DEF ParsersIInv, ParsersTypeOK
<1>5. /\ Same /\ phase = "join" /\ phase' = "done" /\ parser = "docling"
      /\ cutAt' = cutAt
  BY DEF Join, Same, ParsersIInv
<1>6. PICK text \in Seq(T) : text = JoinedPages(bodies)
  <2>1. bodies \in Seq(Seq(T))
    BY <1>2 DEF ParsersIInv, ParsersTypeOK, Tokens
  <2>. QED
    BY <1>2, <2>1, JoinedType
<1>7. /\ n # 0 => Upto(n - 1) < m /\ ReadTo(pages, m, n, text)
      /\ ReadAll(pages, m, n) \/ (n # 0 /\ cutAt = Upto(n) + 1 /\ Upto(n) < m)
  BY <1>1, <1>3, <1>4, <1>5, <1>6 DEF ParsersIInv, Read, Stopped
<1>a. PICK end \in 0..m : /\ ReadAll(pages, m, n) => end = m
                          /\ ~ReadAll(pages, m, n) =>
                                /\ n # 0 /\ cutAt = Upto(n) + 1
                                /\ Upto(n) < m /\ end = Upto(n)
  <2>1. CASE ReadAll(pages, m, n)
    BY <2>1, m \in 0..m
  <2>2. CASE ~ReadAll(pages, m, n)
    <3>1. PICK u \in Nat : u = Upto(n)
      BY UptoProperties
    <3>2. u \in 0..m
      BY <1>7, <2>2, <3>1
    <3>. QED
      BY <1>7, <2>2, <3>1, <3>2
  <2>. QED
    BY <2>1, <2>2
<1>8. PICK list \in Seq(Seq(T)) : list = SplitIntoPages(text) /\ result' = list
  BY <1>6, SplitTyped DEF Join
<1>9. ASSUME NEW i \in 1..m, i <= end, BreaksKept(i)
      PROVE  /\ i \in 1..Len(list) /\ list[i] = pages[i]
             /\ i = end => Len(list) = end
  <2>0. /\ Good(pages, m, ChunkOf(i))
        /\ LastIn(m, ChunkOf(i)) = 1 => \A j \in 1..Len(pages[1]) : pages[1][j] # RULE
    BY <1>1, <1>4, <1>5, <1>9, GoodChunks DEF ParsersIInv, ParsersTypeOK
  <2>1. PICK c \in Nat :
              /\ Upto(c) < i /\ Upto(c) < m /\ i <= LastIn(m, c)
              /\ i = m => LastIn(m, c) = m /\ m <= Upto(c + 1)
              /\ Good(pages, m, c)
              /\ LastIn(m, c) = 1 => \A j \in 1..Len(pages[1]) : pages[1][j] # RULE
    BY <2>0, ChunkOfPage
  <2>3. c < n
    <3>1. CASE ReadAll(pages, m, n)
      BY <2>1, <3>1 DEF ReadAll
    <3>2. CASE ~ReadAll(pages, m, n)
      <4>1. Upto(c) \in Nat /\ Upto(n) \in Nat /\ (n <= c => Upto(n) <= Upto(c))
        BY UptoProperties
      <4>2. Upto(c) < Upto(n)
        BY <1>9, <1>a, <2>1, <3>2, <4>1
      <4>. QED
        BY <4>1, <4>2
    <3>. QED
      BY <3>1, <3>2
  <2>4. ReadTo(pages, m, n, text)
    BY <1>7, <2>3
  <2>5. /\ LastIn(m, c) <= Len(list)
        /\ \A k \in 1..LastIn(m, c) : list[k] = pages[k]
        /\ c + 1 = n => Len(list) = LastIn(m, c)
    <3>1. CanRead(T, pages, m, c, n, text)
      BY <1>2, <1>4, <2>1, <2>3, <2>4 DEF CanRead
    <3>2. IsRead(T, pages, m, c, n, list)
      BY <1>8, <3>1, PagesRead
    <3>. QED
      BY <3>2 DEF IsRead
  <2>6. PICK e \in Nat : e = LastIn(m, c) /\ e <= m
    <3>1. PICK u \in Nat : u = Upto(c)
      BY UptoProperties
    <3>. QED
      BY <2>1, LastInProperties
  <2>7. i \in 1..e /\ i \in 1..Len(list)
    BY <2>1, <2>5, <2>6
  <2>8. ASSUME i = end
        PROVE  c + 1 = n /\ LastIn(m, c) = end
    <3>0. PICK d \in Nat : d = c + 1 /\ d <= n
      BY <2>3
    <3>1. CASE ReadAll(pages, m, n)
      <4>0. i = m
        BY <1>a, <2>8, <3>1
      <4>1. CASE d < n
        <5>1. PICK b \in Nat : b = n - 1 /\ d <= b
          BY <3>0, <4>1
        <5>2. Upto(d) \in Nat /\ Upto(b) \in Nat /\ Upto(d) <= Upto(b)
          BY <3>0, <5>1, UptoProperties
        <5>3. Upto(b) < m /\ m <= Upto(d)
          BY <1>7, <2>1, <3>0, <4>0, <4>1, <5>1
        <5>. QED
          BY <5>2, <5>3
      <4>2. LastIn(m, c) = end
        BY <2>1, <2>8, <4>0
      <4>. QED
        BY <3>0, <4>1, <4>2
    <3>2. CASE ~ReadAll(pages, m, n)
      <4>1. end = Upto(n) /\ Upto(n) < m
        BY <1>a, <3>2
      <4>2. Upto(d) \in Nat /\ Upto(n) \in Nat /\ Upto(d) <= Upto(n)
        BY <3>0, UptoProperties
      <4>3. i <= Upto(d)
        <5>1. Upto(d) < m
          BY <4>1, <4>2
        <5>2. PICK u \in Nat, v \in Nat : u = Upto(c) /\ v = Upto(d) /\ v = u + PAGE_CHUNK_SIZE
          BY <3>0, UptoProperties
        <5>3. LastIn(m, c) <= v
          BY <2>1, <3>0, <5>2, LastInProperties
        <5>4. LastIn(m, c) \in Nat
          BY <2>1, LastInProperties
        <5>. QED
          BY <2>1, <5>2, <5>3, <5>4
      <4>4. Upto(d) = Upto(n)
        BY <2>8, <4>1, <4>2, <4>3
      <4>5. d = n
        <5>1. CASE d < n
          <6>1. d + 1 \in Nat /\ d + 1 <= n
            BY <5>1
          <6>2. Upto(d + 1) = Upto(d) + PAGE_CHUNK_SIZE /\ Upto(d + 1) <= Upto(n)
            BY <6>1, UptoProperties
          <6>. QED
            BY <4>2, <4>4, <6>2, ChunkAssumption
        <5>. QED
          BY <3>0, <5>1
      <4>6. LastIn(m, c) = Upto(d)
        <5>1. PICK u \in Nat, v \in Nat : u = Upto(c) /\ v = Upto(d) /\ v = u + PAGE_CHUNK_SIZE
          BY <3>0, UptoProperties
        <5>2. v < m
          BY <4>1, <4>4, <5>1
        <5>3. LastIn(m, c) = u + PAGE_CHUNK_SIZE
          BY <2>1, <3>0, <5>1, <5>2, LastInProperties
        <5>. QED
          BY <5>1, <5>3
      <4>. QED
        BY <3>0, <4>1, <4>4, <4>5, <4>6
    <3>. QED
      BY <3>1, <3>2
  <2>. QED
    BY <2>1, <2>5, <2>6, <2>7, <2>8
<1>10. True(list)
  <2>1. BreaksKept(Len(pdf)) => Len(list) <= Len(pdf)
    <3>. SUFFICES ASSUME BreaksKept(m) PROVE Len(list) <= m
      BY <1>1
    <3>1. end # 0
      <4>1. CASE ReadAll(pages, m, n)
        BY <1>a, <4>1
      <4>2. CASE ~ReadAll(pages, m, n)
        <5>1. PICK b \in Nat : b = n - 1 /\ b + 1 = n
          BY <1>a, <4>2
        <5>2. Upto(n) = Upto(b) + PAGE_CHUNK_SIZE /\ Upto(b) \in Nat
          BY <5>1, UptoProperties
        <5>. QED
          BY <1>a, <4>2, <5>2, ChunkAssumption
      <4>. QED
        BY <4>1, <4>2
    <3>2. end \in 1..m
      BY <3>1
    <3>3. BreaksKept(end)
      BY <1>1, <3>2, KeptBefore
    <3>4. Len(list) = end
      BY <1>9, <3>2, <3>3
    <3>. QED
      BY <3>2, <3>4
  <2>2. \A i \in 1..m : Sees(i) = pages[i]
    BY <1>4, <1>5 DEF Sees
  <2>3. DOMAIN list = 1..Len(list)
    OBVIOUS
  <2>4. ASSUME NEW i \in 1..m, PageAsked(i)
        PROVE  i <= end
    <3>1. CASE ReadAll(pages, m, n)
      BY <1>a, <3>1
    <3>2. CASE ~ReadAll(pages, m, n)
      BY <1>a, <2>4, <3>2 DEF PageAsked
    <3>. QED
      BY <3>1, <3>2
  <2>. QED
    BY <1>1, <1>9, <2>1, <2>2, <2>3, <2>4 DEF True
<1>11. ParsersTypeOK'
  <2>1. result' \in Seq(Seq(-2..Len(pdf')))
    BY <1>2, <1>5, <1>8 DEF Same, Tokens
  <2>. QED
    BY <1>5, <2>1 DEF ParsersIInv, ParsersTypeOK, Join
<1>. QED
  BY <1>5, <1>8, <1>10, <1>11, StepIInv

\* Where every page is what the parser sees, the pages are true.
LEMMA AllTrue ==
    ASSUME pdf \in Document, NEW pages, NEW T, pages \in Seq(T), Len(pages) = Len(pdf),
           \A i \in 1..Len(pdf) : Sees(i) # <<>> => pages[i] = Sees(i)
    PROVE  True(pages)
<1>1. PICK m \in Nat \ {0} : m = Len(pdf) /\ DOMAIN pdf = 1..m
  BY PdfShape
<1>2. DOMAIN pages = 1..m
  BY <1>1
<1>. QED
  BY <1>1, <1>2 DEF True

\* The text layer is enough where each page has text in it.
LEMMA ReadLayerIInv ==
    ASSUME ParsersIInv, ReadLayer
    PROVE  ParsersIInv'
<1>1. PICK m \in Nat \ {0} : m = Len(pdf)
  BY PdfShape DEF ParsersIInv, ParsersTypeOK
<1>2. PICK T : T = Tokens
  OBVIOUS
<1>3. PICK pages \in Seq(Seq(T)) :
          /\ pages = Layer /\ Len(pages) = m /\ pages # <<>>
          /\ \A i \in 1..m : pages[i] = InLayer(i)
  BY <1>1, <1>2, LayerShape DEF ParsersIInv, ParsersTypeOK
<1>4. layer' = pages
  BY <1>3, EmptyRestDropped DEF ReadLayer, Layer
<1>5. Same /\ parser = "tesseract-pdf" /\ phase = "read" /\ cutAt' = cutAt
  BY DEF ReadLayer, Same, ParsersIInv
<1>6. T = -2..Len(pdf')
  BY <1>2, <1>5 DEF Tokens, Same
<1>7. CASE \A i \in DOMAIN pages : Usable(pages[i])
  <2>1. phase' = "done" /\ result' = pages
    BY <1>4, <1>7 DEF ReadLayer
  <2>2. \A i \in 1..m : pages[i] # <<>> /\ pages[i] = InLayer(i)
    BY SMTT(40), <1>3, <1>7 DEF Usable
  <2>3. \A i \in 1..m : PageIs(i)
    BY <1>1, PageShape DEF ParsersIInv, ParsersTypeOK
  <2>4. \A i \in 1..m : pages[i] = Sees(i)
    BY <1>5, <2>2, <2>3 DEF PageIs, Sees
  <2>5. True(pages)
    BY <1>1, <1>3, <2>4, AllTrue DEF ParsersIInv, ParsersTypeOK
  <2>6. ParsersTypeOK'
    BY <1>4, <1>5, <1>6, <2>1 DEF ParsersIInv, ParsersTypeOK, ReadLayer
  <2>. QED
    BY <1>5, <2>1, <2>5, <2>6, StepIInv
<1>8. CASE ~(\A i \in DOMAIN pages : Usable(pages[i]))
  <2>1. phase' = "ocr" /\ result' = result
    BY <1>4, <1>8 DEF ReadLayer
  <2>2. ParsersTypeOK'
    BY <1>4, <1>5, <1>6, <2>1 DEF ParsersIInv, ParsersTypeOK, ReadLayer
  <2>. QED
    BY <1>3, <1>4, <1>5, <2>1, <2>2, StepIInv
<1>. QED
  BY <1>7, <1>8

\* The pages without usable text are read from the images made of them.
LEMMA RereadIInv ==
    ASSUME ParsersIInv, Reread
    PROVE  ParsersIInv'
<1>1. PICK m \in Nat \ {0} : m = Len(pdf) /\ DOMAIN pdf = 1..m
  BY PdfShape DEF ParsersIInv, ParsersTypeOK
<1>2. PICK T : T = Tokens
  OBVIOUS
<1>3. \A i \in 1..m : layer[i] = InLayer(i)
  BY <1>1, LayerShape DEF ParsersIInv, ParsersTypeOK, Reread
<1>4. \A i \in 1..m : PageIs(i)
  BY <1>1, PageShape DEF ParsersIInv, ParsersTypeOK
<1>5. PICK pages : pages = [i \in 1..m |-> IF Usable(layer[i]) THEN InLayer(i) ELSE OnPage(i)]
  OBVIOUS
<1>6. \A i \in 1..m : pages[i] = OnPage(i) /\ OnPage(i) \in Seq(T)
  BY <1>2, <1>3, <1>4, <1>5 DEF PageIs, Usable
<1>7. pages \in [1..m -> Seq(T)]
  BY <1>5, <1>6
<1>8. pages \in Seq(Seq(T)) /\ Len(pages) = m /\ pages # <<>>
  BY <1>7, SeqOfFunction, EmptySeq
<1>9. PagesFromPdftotext(pages) = pages
  BY <1>8, EmptyRestDropped
<1>10. Same /\ phase = "reread" /\ parser = "tesseract-pdf"
  BY DEF Reread, Same, ParsersIInv
<1>11. CASE \E i \in DOMAIN pages : pages[i] # <<>>
  <2>1. phase' = "done" /\ result' = pages /\ UNCHANGED <<start, bodies, cutAt, layer>>
    BY <1>1, <1>5, <1>9, <1>11 DEF Reread
  <2>2. \A i \in 1..m : pages[i] = Sees(i)
    BY <1>6, <1>10 DEF Sees
  <2>3. True(pages)
    BY <1>1, <1>8, <2>2, AllTrue DEF ParsersIInv, ParsersTypeOK
  <2>4. ParsersTypeOK'
    BY <1>2, <1>8, <1>10, <2>1 DEF ParsersIInv, ParsersTypeOK, Same, Tokens
  <2>. QED
    BY <1>10, <2>1, <2>3, <2>4, StepIInv
<1>12. CASE ~(\E i \in DOMAIN pages : pages[i] # <<>>)
  <2>1. Throws
    BY <1>1, <1>5, <1>9, <1>12 DEF Reread
  <2>. QED
    BY <1>10, <2>1, ThrownIInv
<1>. QED
  BY <1>11, <1>12

\* mistral reads each page.
LEMMA RecogniseIInv ==
    ASSUME ParsersIInv, Recognise
    PROVE  ParsersIInv'
<1>1. PICK m \in Nat \ {0} : m = Len(pdf) /\ DOMAIN pdf = 1..m
  BY PdfShape DEF ParsersIInv, ParsersTypeOK
<1>2. PICK T : T = Tokens
  OBVIOUS
<1>3. \A i \in 1..m : PageIs(i)
  BY <1>1, PageShape DEF ParsersIInv, ParsersTypeOK
<1>4. PICK pages : pages = [i \in 1..m |-> OnPage(i)]
  OBVIOUS
<1>5. pages \in [1..m -> Seq(T)]
  BY <1>2, <1>3, <1>4 DEF PageIs
<1>6. pages \in Seq(Seq(T)) /\ Len(pages) = m
  BY <1>5, SeqOfFunction
<1>7. /\ Same /\ parser = "mistral"
      /\ result' = pages /\ phase' = "done" /\ UNCHANGED <<start, bodies, cutAt, layer>>
  BY <1>1, <1>4 DEF Recognise, Same, ParsersIInv
<1>8. True(pages)
  <2>1. \A i \in 1..m : pages[i] = Sees(i)
    BY <1>4, <1>7 DEF Sees
  <2>. QED
    BY <1>1, <1>6, <2>1, AllTrue DEF ParsersIInv, ParsersTypeOK
<1>9. ParsersTypeOK'
  BY <1>2, <1>6, <1>7 DEF ParsersIInv, ParsersTypeOK, Same, Tokens
<1>. QED
  BY <1>7, <1>8, <1>9, StepIInv

\* Every step keeps the inductive invariant.
LEMMA ParsersNextIInv == ParsersIInv /\ [ParsersNext]_parserVars => ParsersIInv'
<1>. SUFFICES ASSUME ParsersIInv, [ParsersNext]_parserVars PROVE ParsersIInv'
  OBVIOUS
<1>1. CASE CallFails
  BY <1>1, ThrownIInv DEF CallFails, Same
<1>2. CASE Ocr \/ UploadFile
  <2>1. Same /\ UNCHANGED <<start, bodies, cutAt, layer, result>> /\ phase' \in {"reread", "recognise"}
    BY <1>2 DEF Ocr, UploadFile, Same
  <2>2. ParsersTypeOK'
    BY <2>1 DEF ParsersIInv, ParsersTypeOK, Same
  <2>3. /\ phase' = "reread" => phase = "ocr"
        /\ phase' = "recognise" => phase = "upload"
    BY <1>2 DEF Ocr, UploadFile
  <2>4. phase' = "reread" => layer' = Layer
    BY <2>1, <2>3 DEF ParsersIInv
  <2>. QED
    BY <2>1, <2>2, <2>3, <2>4, StepIInv
<1>3. CASE UNCHANGED parserVars
  <2>1. Same /\ UNCHANGED <<phase, start, bodies, cutAt, layer, result>>
    BY <1>3 DEF parserVars, Same
  <2>2. ParsersTypeOK' /\ PagesAreTrue' /\ Layer' = Layer
    <3>1. ParsersTypeOK'
      BY <2>1 DEF ParsersIInv, ParsersTypeOK, Same
    <3>2. PICK pages : pages = result
      OBVIOUS
    <3>3. phase = "done" => True(pages)
      BY <3>2 DEF ParsersIInv, PagesAreTrue, True
    <3>. QED
      BY <2>1, <3>1, <3>2, <3>3, SameTruth, SameLayer
  <2>3. Read' = Read
    BY <2>1, <2>2 DEF Read, Same
  <2>4. Stopped' = Stopped
    BY <2>1 DEF Stopped, Same
  <2>. QED
    BY <2>1, <2>2, <2>3, <2>4 DEF ParsersIInv, Same
<1>. QED
  BY <1>1, <1>2, <1>3, ChunkFailsIInv, ConvertIInv, JoinIInv, ReadLayerIInv, RereadIInv, RecogniseIInv
     DEF ParsersNext

\* Whatever the document and the size of a call: docling, whose answers are joined and
\* split again, tesseract-pdf and mistral give the pages of the document, each as a whole
\* and under its own number, where the calls' page breaks are kept; of a document docling
\* failed on after its first call, those of the pages before.
THEOREM PagesAlwaysTrue == ParsersSpec => []PagesAreTrue
<1>1. ParsersIInv => PagesAreTrue
  BY DEF ParsersIInv
<1>. QED
  BY <1>1, ParsersInitIInv, ParsersNextIInv, PTL DEF ParsersSpec

\* What the variables of the parsers are.
THEOREM ParsersTypes == ParsersSpec => []ParsersTypeOK
<1>1. ParsersIInv => ParsersTypeOK
  BY DEF ParsersIInv
<1>. QED
  BY <1>1, ParsersInitIInv, ParsersNextIInv, PTL DEF ParsersSpec
===============================================================================
