------------------------ MODULE PipelineAttemptsProofs ------------------------
(***************************************************************************)
(* The attempt history is sound for any number of handlers, keys and       *)
(* locks, and whatever keys collide in the hash.  Everything rests on two  *)
(* facts about the lock: a handler inside its transaction holds the lock   *)
(* of its key, and while a handler has read the maximum and not yet        *)
(* inserted, that maximum is still the last number of its key's table.     *)
(***************************************************************************)
EXTENDS PipelineAttempts, TLAPS

\* Every handler inside the transaction holds the lock of its key.
LockHeld == \A c \in Caller : InTransaction(c) => holder[LockOf[key[c]]] = c

\* What a handler read under the lock stays true until it inserts.
CountIsCurrent ==
    \A c \in Caller : pc[c] = "counted" => DOMAIN rows[key[c]] = 1..count[c]

\* A row belongs to the handler that inserted it, and to that one only.
OwnerKnowsRow ==
    \A k \in Key : \A n \in DOMAIN rows[k] :
        LET c == rows[k][n].owner IN
        /\ key[c] = k
        /\ count[c] = n
        /\ pc[c] \in {"open", "closed", "finished", "dead"}

\* A handler past Succeed has recorded it.
ClosedIsRecorded ==
    \A c \in Caller : pc[c] = "closed" => rows[key[c]][count[c]].status # "running"

\* The inductive invariant.
IInv ==
    /\ TypeOK
    /\ ContiguousAttempts
    /\ LockHeld
    /\ CountIsCurrent
    /\ OwnerKnowsRow
    /\ HandleOwnsRow
    /\ ClosedIsRecorded
    /\ NoAttemptConflict

-------------------------------------------------------------------------------
\* On a table numbered 1..n, coalesce(max(attempt), 0) is n.
LEMMA MaxOfContiguous ==
    ASSUME NEW table, NEW n \in Nat, DOMAIN table = 1..n
    PROVE  MaxAttempt(table) = n
<1>1. CASE n = 0
  BY <1>1 DEF MaxAttempt
<1>2. CASE n > 0
  <2>1. n \in DOMAIN table /\ \A i \in DOMAIN table : i <= n
    BY <1>2
  <2>2. \A m \in DOMAIN table : (\A i \in DOMAIN table : i <= m) => m = n
    BY <2>1
  <2>3. DOMAIN table # {}
    BY <2>1
  <2>. QED
    BY <2>1, <2>2, <2>3 DEF MaxAttempt
<1>. QED
  BY <1>1, <1>2

\* The bound of a contiguous table is a natural number.
LEMMA ContiguousBound ==
    ASSUME TypeOK, ContiguousAttempts, NEW k \in Key
    PROVE  \E n \in Nat : DOMAIN rows[k] = 1..n
BY DEF TypeOK, ContiguousAttempts

\* With no rows, every caller idle and every lock free the invariant holds.
LEMMA InitIInv == Init => IInv
<1>. SUFFICES ASSUME Init PROVE IInv
  OBVIOUS
<1>1. TypeOK
  BY DEF Init, TypeOK, PC
<1>2. \A k \in Key : DOMAIN rows[k] = {}
  BY DEF Init
<1>3. ContiguousAttempts
  <2>. SUFFICES ASSUME NEW k \in Key
                PROVE  \E n \in {0} \cup DOMAIN rows[k] : DOMAIN rows[k] = 1..n
    BY DEF ContiguousAttempts
  <2>1. DOMAIN rows[k] = 1..0
    BY <1>2
  <2>. QED
    BY <2>1
<1>4. OwnerKnowsRow
  BY <1>2 DEF OwnerKnowsRow
<1>5. LockHeld /\ CountIsCurrent /\ HandleOwnsRow /\ ClosedIsRecorded /\ NoAttemptConflict
  BY DEF Init, LockHeld, InTransaction, CountIsCurrent, HandleOwnsRow, ClosedIsRecorded,
         NoAttemptConflict
<1>. QED
  BY <1>1, <1>3, <1>4, <1>5 DEF IInv

-------------------------------------------------------------------------------
\* The steps before the insert leave the rows alone: the start, ...
LEMMA BeginStartIInv ==
    ASSUME IInv, NEW c \in Caller, BeginStart(c) PROVE IInv'
<1>1. TypeOK'
  BY DEF IInv, BeginStart, TypeOK, PC
<1>2. OwnerKnowsRow'
  BY DEF IInv, BeginStart, TypeOK, OwnerKnowsRow
<1>3. (ContiguousAttempts /\ LockHeld /\ CountIsCurrent /\ HandleOwnsRow
        /\ ClosedIsRecorded /\ NoAttemptConflict)'
  BY DEF IInv, BeginStart, TypeOK, ContiguousAttempts, LockHeld, InTransaction,
         CountIsCurrent, HandleOwnsRow, ClosedIsRecorded, NoAttemptConflict
<1>. QED
  BY <1>1, <1>2, <1>3 DEF IInv

\* A caller that gets a free lock becomes its only holder.
LEMMA AcquireLockIInv ==
    ASSUME IInv, NEW c \in Caller, AcquireLock(c) PROVE IInv'
<1>1. TypeOK'
  BY LockOfAssumption DEF IInv, AcquireLock, TypeOK, PC
<1>2. LockHeld'
  <2>. SUFFICES ASSUME NEW d \in Caller, InTransaction(d)'
                PROVE  holder'[LockOf[key'[d]]] = d
    BY DEF LockHeld
  <2>1. CASE d = c
    BY <2>1, LockOfAssumption DEF IInv, AcquireLock, TypeOK
  <2>2. CASE d # c
    \* d already holds its lock, so the lock c takes is another one.
    <3>1. holder[LockOf[key[d]]] = d
      BY <2>2 DEF IInv, AcquireLock, TypeOK, LockHeld, InTransaction
    <3>2. LockOf[key[d]] # LockOf[key[c]]
      BY <3>1, NoCallerAssumption DEF AcquireLock
    <3>. QED
      BY <3>1, <3>2, LockOfAssumption DEF IInv, AcquireLock, TypeOK
  <2>. QED
    BY <2>1, <2>2
<1>3. OwnerKnowsRow'
  BY DEF IInv, AcquireLock, TypeOK, OwnerKnowsRow
<1>4. (ContiguousAttempts /\ CountIsCurrent /\ HandleOwnsRow /\ ClosedIsRecorded
        /\ NoAttemptConflict)'
  BY DEF IInv, AcquireLock, TypeOK, ContiguousAttempts, CountIsCurrent, HandleOwnsRow,
         ClosedIsRecorded, NoAttemptConflict
<1>. QED
  BY <1>1, <1>2, <1>3, <1>4 DEF IInv

\* What is read under the lock stays the maximum: nobody else can insert.
LEMMA ReadMaxIInv ==
    ASSUME IInv, NEW c \in Caller, ReadMax(c) PROVE IInv'
<1>1. PICK n \in Nat : DOMAIN rows[key[c]] = 1..n
  BY ContiguousBound DEF IInv, TypeOK
<1>2. MaxAttempt(rows[key[c]]) = n
  BY <1>1, MaxOfContiguous
<1>3. TypeOK'
  BY <1>2 DEF IInv, ReadMax, TypeOK, PC
<1>4. CountIsCurrent'
  BY <1>1, <1>2 DEF IInv, ReadMax, TypeOK, CountIsCurrent
<1>5. OwnerKnowsRow'
  BY DEF IInv, ReadMax, TypeOK, OwnerKnowsRow
<1>6. (ContiguousAttempts /\ LockHeld /\ HandleOwnsRow /\ ClosedIsRecorded
        /\ NoAttemptConflict)'
  BY DEF IInv, ReadMax, TypeOK, ContiguousAttempts, LockHeld, InTransaction,
         HandleOwnsRow, ClosedIsRecorded, NoAttemptConflict
<1>. QED
  BY <1>3, <1>4, <1>5, <1>6 DEF IInv
-------------------------------------------------------------------------------
\* Under the lock the number read is still free: the insert goes through and
\* extends the table by one row.
Appends(c) ==
    /\ DOMAIN rows[key[c]] = 1..count[c]
    /\ DOMAIN rows'[key[c]] = 1..(count[c] + 1)
    /\ rows'[key[c]][count[c] + 1] = [status |-> "running", owner |-> c]
    /\ \A n \in DOMAIN rows[key[c]] : rows'[key[c]][n] = rows[key[c]][n]
    /\ \A k \in Key : k # key[c] => rows'[k] = rows[k]
    /\ rows' = [k \in Key |-> rows'[k]]
    /\ rows'[key[c]] \in [DOMAIN rows'[key[c]] -> Row]
    /\ pc' = [pc EXCEPT ![c] = "open"]
    /\ count' = [count EXCEPT ![c] = count[c] + 1]

\* The number a caller inserts is the one after the last: no conflict.
LEMMA InsertAppends ==
    ASSUME IInv, NEW c \in Caller, InsertAttempt(c)
    PROVE  Appends(c)
<1>. DEFINE k == key[c]
            n == count[c] + 1
            old == rows[k]
            new == [i \in DOMAIN old \cup {n} |->
                      IF i = n THEN [status |-> "running", owner |-> c] ELSE old[i]]
<1>1. DOMAIN old = 1..count[c] /\ count[c] \in Nat /\ k \in Key
  BY DEF IInv, InsertAttempt, TypeOK, CountIsCurrent
<1>2. n \notin DOMAIN old /\ DOMAIN old \cup {n} = 1..n
  BY <1>1
<1>3. rows' = [rows EXCEPT ![k] = new] /\ pc' = [pc EXCEPT ![c] = "open"]
      /\ count' = [count EXCEPT ![c] = n]
  BY <1>2 DEF InsertAttempt
<1>4. rows'[k] = new /\ (\A j \in Key : j # k => rows'[j] = rows[j])
      /\ rows' = [j \in Key |-> rows'[j]]
  BY <1>1, <1>3 DEF IInv, TypeOK
<1>5. old \in [DOMAIN old -> Row]
  BY <1>1 DEF IInv, TypeOK
<1>6. new \in [1..n -> Row] /\ DOMAIN new = 1..n
  BY <1>2, <1>5 DEF Row, Status
<1>. QED
  BY <1>1, <1>2, <1>3, <1>4, <1>6 DEF Appends

\* The insert and the release of the lock preserve the invariant.
LEMMA InsertAttemptIInv ==
    ASSUME IInv, NEW c \in Caller, InsertAttempt(c) PROVE IInv'
<1>0. Appends(c)
  BY InsertAppends
<1>1. TypeOK'
  <2>1. (\A k \in Key : DOMAIN rows[k] \subseteq Nat /\ rows[k] \in [DOMAIN rows[k] -> Row])'
    BY <1>0 DEF Appends, IInv, TypeOK, InsertAttempt
  <2>2. (holder \in [LockId -> Caller \cup {NoCaller}] /\ key \in [Caller -> Key])'
    BY DEF Appends, IInv, TypeOK, InsertAttempt, Release
  <2>3. (pc \in [Caller -> PC] /\ count \in [Caller -> Nat])'
    BY <1>0 DEF Appends, IInv, TypeOK, PC
  <2>. QED
    BY <2>1, <2>2, <2>3, <1>0 DEF Appends, TypeOK
<1>2. ContiguousAttempts'
  <2>. SUFFICES ASSUME NEW k \in Key
                PROVE  \E n \in {0} \cup DOMAIN rows'[k] : DOMAIN rows'[k] = 1..n
    BY DEF ContiguousAttempts
  <2>1. CASE k = key[c]
    BY <2>1, <1>0 DEF Appends, IInv, TypeOK
  <2>2. CASE k # key[c]
    BY <2>2, <1>0 DEF Appends, IInv, ContiguousAttempts
  <2>. QED
    BY <2>1, <2>2
<1>3. LockHeld'
  <2>. SUFFICES ASSUME NEW d \in Caller, InTransaction(d)'
                PROVE  holder'[LockOf[key'[d]]] = d
    BY DEF LockHeld
  <2>1. d # c /\ InTransaction(d)
    BY <1>0 DEF Appends, IInv, TypeOK, InTransaction
  <2>. QED
    BY <2>1, LockOfAssumption DEF Appends, IInv, TypeOK, LockHeld, InsertAttempt, Release
<1>4. CountIsCurrent'
  <2>. SUFFICES ASSUME NEW d \in Caller, pc'[d] = "counted"
                PROVE  DOMAIN rows'[key'[d]] = 1..count'[d]
    BY DEF CountIsCurrent
  <2>1. d # c /\ pc[d] = "counted" /\ count'[d] = count[d] /\ key'[d] = key[d]
    BY <1>0 DEF Appends, IInv, TypeOK, InsertAttempt
  \* c and d hold different locks, so they work on different keys.
  <2>2. key[d] # key[c]
    BY <2>1 DEF Appends, IInv, LockHeld, InTransaction, InsertAttempt
  <2>. QED
    BY ZenonT(40), <2>1, <2>2, <1>0 DEF Appends, IInv, TypeOK, CountIsCurrent
<1>5. OwnerKnowsRow'
  <2>. SUFFICES ASSUME NEW k \in Key, NEW n \in DOMAIN rows'[k]
                PROVE  LET o == rows'[k][n].owner IN
                       /\ key'[o] = k
                       /\ count'[o] = n
                       /\ pc'[o] \in {"open", "closed", "finished", "dead"}
    BY DEF OwnerKnowsRow
  <2>1. CASE k = key[c] /\ n = count[c] + 1
    BY ZenonT(40), <2>1, <1>0 DEF Appends, IInv, TypeOK, InsertAttempt
  <2>2. CASE ~(k = key[c] /\ n = count[c] + 1)
    <3>1. n \in DOMAIN rows[k] /\ rows'[k][n] = rows[k][n]
      <4>1. CASE k # key[c]
        BY <4>1, <1>0 DEF Appends
      <4>2. CASE k = key[c]
        <5>1. n \in 1..(count[c] + 1) /\ n # count[c] + 1 /\ count[c] \in Nat
          BY <4>2, <2>2, <1>0 DEF Appends, IInv, TypeOK
        <5>2. n \in DOMAIN rows[key[c]]
          BY <5>1, <1>0 DEF Appends
        <5>. QED
          BY <5>2, <4>2, <1>0 DEF Appends
      <4>. QED
        BY <4>1, <4>2
    <3>2. rows[k][n].owner \in Caller
      BY <3>1 DEF Appends, IInv, TypeOK, Row
    <3>3. rows[k][n].owner # c
      BY <3>1 DEF Appends, IInv, OwnerKnowsRow, InsertAttempt
    <3>. DEFINE o == rows[k][n].owner
    <3>4. key[o] = k /\ count[o] = n /\ pc[o] \in {"open", "closed", "finished", "dead"}
      BY <3>1 DEF IInv, OwnerKnowsRow
    <3>5. key' = key /\ count'[o] = count[o] /\ pc'[o] = pc[o]
      BY <3>2, <3>3, <1>0 DEF Appends, IInv, TypeOK, InsertAttempt
    <3>. QED
      BY <3>1, <3>4, <3>5
  <2>. QED
    BY <2>1, <2>2
<1>6. HandleOwnsRow' /\ ClosedIsRecorded'
  <2>1. ASSUME NEW d \in Caller, pc'[d] \in {"open", "closed"}, d # c
        PROVE  /\ pc'[d] = pc[d] /\ key'[d] = key[d] /\ count'[d] = count[d]
               /\ count[d] \in DOMAIN rows[key[d]]
               /\ count[d] \in DOMAIN rows'[key[d]]
               /\ rows'[key[d]][count[d]] = rows[key[d]][count[d]]
    <3>1. pc'[d] = pc[d] /\ key'[d] = key[d] /\ count'[d] = count[d] /\ key[d] \in Key
      BY <2>1, <1>0 DEF Appends, IInv, TypeOK, InsertAttempt
    <3>2. count[d] \in DOMAIN rows[key[d]]
      BY <2>1, <3>1 DEF Appends, IInv, HandleOwnsRow
    <3>3. CASE key[d] = key[c]
      <4>1. count[d] \in 1..count[c] /\ count[c] \in Nat
        BY <3>2, <3>3, <1>0 DEF Appends, IInv, TypeOK
      <4>2. count[d] \in DOMAIN rows'[key[c]]
        BY <4>1, <1>0 DEF Appends
      <4>3. rows'[key[c]][count[d]] = rows[key[c]][count[d]]
        BY <3>2, <3>3, <1>0 DEF Appends
      <4>. QED
        BY <3>1, <3>2, <3>3, <4>2, <4>3
    <3>4. CASE key[d] # key[c]
      BY <3>1, <3>2, <3>4, <1>0 DEF Appends
    <3>. QED
      BY <3>3, <3>4
  <2>2. pc'[c] = "open" /\ key'[c] = key[c] /\ count'[c] = count[c] + 1
    BY <1>0 DEF Appends, IInv, TypeOK, InsertAttempt
  <2>3. HandleOwnsRow'
    <3>. SUFFICES ASSUME NEW d \in Caller, pc'[d] \in {"open", "closed"}
                  PROVE  /\ count'[d] \in DOMAIN rows'[key'[d]]
                         /\ rows'[key'[d]][count'[d]].owner = d
      BY DEF HandleOwnsRow
    <3>1. CASE d # c
      <4>1. rows[key[d]][count[d]].owner = d
        BY <2>1, <3>1 DEF IInv, HandleOwnsRow
      <4>. QED
        BY <2>1, <3>1, <4>1
    <3>2. CASE d = c
      <4>1. count[c] + 1 \in DOMAIN rows'[key[c]]
        BY <1>0 DEF Appends, IInv, TypeOK
      <4>. QED
        BY <2>2, <3>2, <4>1, <1>0 DEF Appends
    <3>. QED
      BY <3>1, <3>2
  <2>4. ClosedIsRecorded'
    BY <2>1, <2>2 DEF Appends, IInv, ClosedIsRecorded
  <2>. QED
    BY <2>3, <2>4
<1>7. NoAttemptConflict'
  BY <1>0 DEF Appends, IInv, NoAttemptConflict, TypeOK
<1>. QED
  BY <1>1, <1>2, <1>3, <1>4, <1>5, <1>6, <1>7 DEF Appends, IInv
-------------------------------------------------------------------------------
\* Closing an attempt changes one status and nothing else of the table.
Closes(c, outcome) ==
    /\ rows' = [k \in Key |-> rows'[k]]
    /\ \A k \in Key : /\ DOMAIN rows'[k] = DOMAIN rows[k]
                      /\ rows'[k] \in [DOMAIN rows[k] -> Row]
                      /\ \A n \in DOMAIN rows[k] :
                           /\ rows'[k][n].owner = rows[k][n].owner
                           /\ ~(k = key[c] /\ n = count[c]) => rows'[k][n] = rows[k][n]
    /\ rows'[key[c]][count[c]].status = outcome

\* The UPDATE by id changes one row, in nothing but its status.
LEMMA SetOutcomeCloses ==
    ASSUME IInv, NEW c \in Caller, NEW outcome \in Status,
           pc[c] \in {"open", "closed"}, SetOutcome(c, outcome)
    PROVE  Closes(c, outcome)
<1>. DEFINE k == key[c]
            n == count[c]
            old == rows[k]
            row == [old[n] EXCEPT !.status = outcome]
            new == [old EXCEPT ![n] = row]
<1>1. k \in Key /\ n \in DOMAIN old /\ old \in [DOMAIN old -> Row]
  BY DEF IInv, TypeOK, HandleOwnsRow
<1>2. row \in Row /\ row.owner = old[n].owner /\ row.status = outcome
  BY <1>1 DEF Row
<1>3. new \in [DOMAIN old -> Row] /\ DOMAIN new = DOMAIN old /\ new[n] = row
      /\ \A i \in DOMAIN old : i # n => new[i] = old[i]
  BY <1>1, <1>2
<1>4. rows' = [rows EXCEPT ![k] = new]
  BY DEF SetOutcome
<1>5. rows'[k] = new /\ (\A j \in Key : j # k => rows'[j] = rows[j])
      /\ rows' = [j \in Key |-> rows'[j]]
  BY <1>1, <1>4 DEF IInv, TypeOK
<1>6. ASSUME NEW j \in Key
      PROVE  /\ DOMAIN rows'[j] = DOMAIN rows[j]
             /\ rows'[j] \in [DOMAIN rows[j] -> Row]
             /\ \A i \in DOMAIN rows[j] :
                  /\ rows'[j][i].owner = rows[j][i].owner
                  /\ ~(j = k /\ i = n) => rows'[j][i] = rows[j][i]
  <2>1. CASE j = k
    BY <2>1, <1>2, <1>3, <1>5
  <2>2. CASE j # k
    BY <2>2, <1>5 DEF IInv, TypeOK
  <2>. QED
    BY <2>1, <2>2
<1>. QED
  BY <1>2, <1>3, <1>5, <1>6 DEF Closes

\* What every step after the insert has in common: only c moves, it moves to a
\* later place, and it keeps its key and its number.
LEMMA ClosingIInv ==
    ASSUME IInv, NEW c \in Caller, NEW outcome \in {"succeeded", "failed"},
           NEW place \in {"closed", "finished"},
           pc[c] \in {"open", "closed"}, Closes(c, outcome),
           pc' = [pc EXCEPT ![c] = place], UNCHANGED <<holder, key, count>>
    PROVE  IInv'
<1>1. TypeOK'
  <2>1. (\A k \in Key : DOMAIN rows[k] \subseteq Nat /\ rows[k] \in [DOMAIN rows[k] -> Row])'
    BY DEF Closes, IInv, TypeOK
  <2>. QED
    BY <2>1 DEF Closes, IInv, TypeOK, PC
<1>2. ContiguousAttempts'
  BY DEF Closes, IInv, ContiguousAttempts
<1>3. LockHeld' /\ CountIsCurrent' /\ NoAttemptConflict'
  BY DEF Closes, IInv, TypeOK, LockHeld, InTransaction, CountIsCurrent, NoAttemptConflict
<1>4. OwnerKnowsRow'
  <2>. SUFFICES ASSUME NEW k \in Key, NEW n \in DOMAIN rows'[k]
                PROVE  LET o == rows'[k][n].owner IN
                       /\ key'[o] = k
                       /\ count'[o] = n
                       /\ pc'[o] \in {"open", "closed", "finished", "dead"}
    BY DEF OwnerKnowsRow
  <2>1. n \in DOMAIN rows[k] /\ rows'[k][n].owner = rows[k][n].owner
    BY DEF Closes
  <2>2. rows[k][n].owner \in Caller
    BY <2>1 DEF IInv, TypeOK, Row
  <2>. QED
    BY <2>1, <2>2 DEF IInv, TypeOK, OwnerKnowsRow
<1>5. HandleOwnsRow'
  BY DEF Closes, IInv, TypeOK, HandleOwnsRow
<1>6. ClosedIsRecorded'
  <2>. SUFFICES ASSUME NEW d \in Caller, pc'[d] = "closed"
                PROVE  rows'[key[d]][count[d]].status # "running"
    BY DEF ClosedIsRecorded
  <2>1. CASE key[d] = key[c] /\ count[d] = count[c]
    BY <2>1 DEF Closes
  <2>2. CASE ~(key[d] = key[c] /\ count[d] = count[c])
    <3>1. pc[d] \in {"open", "closed"} /\ d # c
      BY <2>2 DEF IInv, TypeOK
    <3>2. pc[d] = "closed" /\ key[d] \in Key /\ count[d] \in DOMAIN rows[key[d]]
      BY <3>1 DEF IInv, TypeOK, HandleOwnsRow
    <3>. QED
      BY <2>2, <3>2 DEF Closes, IInv, ClosedIsRecorded
  <2>. QED
    BY <2>1, <2>2
<1>. QED
  BY <1>1, <1>2, <1>3, <1>4, <1>5, <1>6 DEF IInv

\* Closing an attempt as succeeded is such a step ...
LEMMA SucceedIInv ==
    ASSUME IInv, NEW c \in Caller, Succeed(c) PROVE IInv'
<1>1. Closes(c, "succeeded")
  BY SetOutcomeCloses DEF Succeed, Status
<1>. QED
  BY <1>1, ClosingIInv DEF Succeed

\* ... and so is closing it as failed.
LEMMA FailIInv ==
    ASSUME IInv, NEW c \in Caller, Fail(c) PROVE IInv'
<1>1. Closes(c, "failed")
  BY SetOutcomeCloses DEF Fail, Status
<1>. QED
  BY <1>1, ClosingIInv DEF Fail

\* A lost bookkeeping write and a crash change no row.
LEMMA LeavesIInv ==
    ASSUME IInv, NEW c \in Caller, FailSwallowed(c) \/ Crash(c) PROVE IInv'
<1>1. PICK place \in {"finished", "dead"} :
        /\ pc' = [pc EXCEPT ![c] = place]
        /\ UNCHANGED <<rows, key, count>>
        /\ holder' \in {holder, Release(c)}
  BY DEF FailSwallowed, Crash
<1>2. TypeOK'
  BY <1>1 DEF IInv, TypeOK, PC, Release
<1>3. LockHeld'
  <2>. SUFFICES ASSUME NEW d \in Caller, InTransaction(d)'
                PROVE  holder'[LockOf[key[d]]] = d
    BY <1>1 DEF LockHeld
  <2>1. d # c /\ InTransaction(d)
    BY <1>1 DEF IInv, TypeOK, InTransaction
  <2>. QED
    BY <1>1, <2>1, LockOfAssumption DEF IInv, TypeOK, LockHeld, Release
<1>4. OwnerKnowsRow'
  BY <1>1 DEF IInv, TypeOK, OwnerKnowsRow
<1>5. (ContiguousAttempts /\ CountIsCurrent /\ HandleOwnsRow /\ ClosedIsRecorded
        /\ NoAttemptConflict)'
  BY <1>1 DEF IInv, TypeOK, ContiguousAttempts, CountIsCurrent, HandleOwnsRow,
              ClosedIsRecorded, NoAttemptConflict
<1>. QED
  BY <1>2, <1>3, <1>4, <1>5 DEF IInv

-------------------------------------------------------------------------------
\* The invariant is inductive.
LEMMA NextIInv == IInv /\ [Next]_vars => IInv'
<1>. SUFFICES ASSUME IInv, [Next]_vars PROVE IInv'
  OBVIOUS
<1>1. CASE Next
  <2>. PICK c \in Caller :
         \/ BeginStart(c) \/ Step(c)
         \/ Succeed(c) \/ Fail(c) \/ FailSwallowed(c) \/ Crash(c)
    BY <1>1 DEF Next
  <2>1. CASE BeginStart(c)
    BY <2>1, BeginStartIInv
  <2>2. CASE Step(c)
    BY <2>2, AcquireLockIInv, ReadMaxIInv, InsertAttemptIInv DEF Step
  <2>3. CASE Succeed(c)
    BY <2>3, SucceedIInv
  <2>4. CASE Fail(c)
    BY <2>4, FailIInv
  <2>5. CASE FailSwallowed(c) \/ Crash(c)
    BY <2>5, LeavesIInv
  <2>. QED
    BY <2>1, <2>2, <2>3, <2>4, <2>5
<1>2. CASE UNCHANGED vars
  <2>1. TypeOK' /\ OwnerKnowsRow'
    BY <1>2 DEF vars, IInv, TypeOK, OwnerKnowsRow
  <2>2. ContiguousAttempts' /\ LockHeld' /\ CountIsCurrent'
    BY <1>2 DEF vars, IInv, ContiguousAttempts, LockHeld, InTransaction, CountIsCurrent
  <2>3. HandleOwnsRow' /\ ClosedIsRecorded' /\ NoAttemptConflict'
    BY <1>2 DEF vars, IInv, HandleOwnsRow, ClosedIsRecorded, NoAttemptConflict
  <2>. QED
    BY <2>1, <2>2, <2>3 DEF IInv
<1>. QED
  BY <1>1, <1>2

\* The invariant holds in every reachable state.
THEOREM AlwaysIInv == Spec => []IInv
BY InitIInv, NextIInv, PTL DEF Spec

\* The types are right in every reachable state of startSourcePipelineAttempt
\* and its callers.
THEOREM TypeCorrect == Spec => []TypeOK
<1>1. IInv => TypeOK
  BY DEF IInv
<1>. QED
  BY <1>1, AlwaysIInv, PTL

\* The advisory lock does what its comment says: the unique index on
\* (source, stage, attempt) is never violated, for any number of handlers.
THEOREM NeverConflicts == Spec => []NoAttemptConflict
<1>1. IInv => NoAttemptConflict
  BY DEF IInv
<1>. QED
  BY <1>1, AlwaysIInv, PTL

\* The attempts of a source and stage are always numbered 1, 2, ..., n.
THEOREM AlwaysContiguous == Spec => []ContiguousAttempts
<1>1. IInv => ContiguousAttempts
  BY DEF IInv
<1>. QED
  BY <1>1, AlwaysIInv, PTL

\* The UPDATE by row id only ever closes the handler's own attempt.
THEOREM AlwaysOwnsRow == Spec => []HandleOwnsRow
<1>1. IInv => HandleOwnsRow
  BY DEF IInv
<1>. QED
  BY <1>1, AlwaysIInv, PTL

\* A "running" attempt is never left over except by a crash, by a lost
\* bookkeeping write or by a handler still at work.
THEOREM AlwaysAccountedFor == Spec => []RunningIsAccountedFor
<1>1. IInv => RunningIsAccountedFor
  <2>. SUFFICES ASSUME IInv, NEW k \in Key, NEW n \in DOMAIN rows[k],
                       rows[k][n].status = "running"
                PROVE  pc[rows[k][n].owner] \in {"open", "dead", "finished"}
    BY DEF RunningIsAccountedFor
  <2>. DEFINE o == rows[k][n].owner
  <2>1. o \in Caller
    BY DEF IInv, TypeOK, Row
  <2>2. key[o] = k /\ count[o] = n /\ pc[o] \in {"open", "closed", "finished", "dead"}
    BY DEF IInv, OwnerKnowsRow
  <2>3. pc[o] # "closed"
    BY <2>1, <2>2 DEF IInv, ClosedIsRecorded
  <2>. QED
    BY <2>2, <2>3
<1>. QED
  BY <1>1, AlwaysIInv, PTL

\* Handlers with the same advisory lock never overlap in their transactions.
THEOREM AlwaysExclusive == Spec => []LockExcludes
<1>1. IInv => LockExcludes
  BY DEF IInv, LockHeld, LockExcludes
<1>. QED
  BY <1>1, AlwaysIInv, PTL
-------------------------------------------------------------------------------
\* Every step either leaves the rows alone, appends one, or closes one.
LEMMA RowsStep ==
    ASSUME IInv, [Next]_vars
    PROVE  \/ UNCHANGED rows
           \/ \E c \in Caller : Appends(c)
           \/ \E c \in Caller : \E outcome \in {"succeeded", "failed"} :
                /\ pc[c] \in {"open", "closed"}
                /\ Closes(c, outcome)
<1>1. CASE UNCHANGED vars
  BY <1>1 DEF vars
<1>2. CASE Next
  <2>. PICK c \in Caller :
         \/ BeginStart(c) \/ Step(c)
         \/ Succeed(c) \/ Fail(c) \/ FailSwallowed(c) \/ Crash(c)
    BY <1>2 DEF Next
  <2>1. CASE InsertAttempt(c)
    BY <2>1, InsertAppends
  <2>2. CASE Succeed(c)
    BY <2>2, SetOutcomeCloses DEF Succeed, Status
  <2>3. CASE Fail(c)
    BY <2>3, SetOutcomeCloses DEF Fail, Status
  <2>4. CASE BeginStart(c) \/ AcquireLock(c) \/ ReadMax(c) \/ FailSwallowed(c) \/ Crash(c)
    BY <2>4 DEF BeginStart, AcquireLock, ReadMax, FailSwallowed, Crash
  <2>. QED
    BY <2>1, <2>2, <2>3, <2>4 DEF Step
<1>. QED
  BY <1>1, <1>2

\* The history is sound whatever the handlers do at the same time: no refused
\* number, no gap, no handle on a row of another, no orphan, no shared lock.
THEOREM AttemptsAlwaysSound == Spec => []AttemptsAreSound
BY NeverConflicts, AlwaysContiguous, AlwaysOwnsRow, AlwaysAccountedFor, AlwaysExclusive,
   PTL DEF AttemptsAreSound

\* Attempts are never removed, handed over or reopened, and numbers only go up.
THEOREM HistoryGrows == Spec => HistoryOnlyGrows
<1>. DEFINE Grows(k) ==
         /\ \A n \in DOMAIN rows[k] :
              /\ n \in DOMAIN rows'[k]
              /\ rows'[k][n].owner = rows[k][n].owner
              /\ rows'[k][n].status = "running" => rows[k][n].status = "running"
         /\ \A n \in DOMAIN rows'[k] \ DOMAIN rows[k] :
              \A m \in DOMAIN rows[k] : m < n
<1>1. IInv /\ [Next]_vars => [\A k \in Key : Grows(k)]_rows
  <2>. SUFFICES ASSUME IInv, [Next]_vars, rows' # rows, NEW k \in Key
                PROVE  Grows(k)
    OBVIOUS
  <2>1. CASE \E c \in Caller : Appends(c)
    <3>. PICK c \in Caller : Appends(c)
      BY <2>1
    <3>1. CASE k # key[c]
      BY <3>1 DEF Appends
    <3>2. CASE k = key[c]
      <4>1. count[c] \in Nat /\ DOMAIN rows[k] = 1..count[c] /\ DOMAIN rows'[k] = 1..(count[c] + 1)
        BY <3>2 DEF Appends, IInv, TypeOK
      <4>2. \A n \in DOMAIN rows[k] : n \in DOMAIN rows'[k] /\ rows'[k][n] = rows[k][n]
        BY <3>2, <4>1 DEF Appends
      <4>3. \A n \in DOMAIN rows'[k] \ DOMAIN rows[k] : \A m \in DOMAIN rows[k] : m < n
        BY <4>1
      <4>. QED
        BY <4>2, <4>3
    <3>. QED
      BY <3>1, <3>2
  <2>2. CASE \E c \in Caller : \E outcome \in {"succeeded", "failed"} :
               pc[c] \in {"open", "closed"} /\ Closes(c, outcome)
    <3>. PICK c \in Caller, outcome \in {"succeeded", "failed"} : Closes(c, outcome)
      BY <2>2
    <3>1. DOMAIN rows'[k] = DOMAIN rows[k]
      BY DEF Closes
    <3>2. ASSUME NEW n \in DOMAIN rows[k]
          PROVE  /\ rows'[k][n].owner = rows[k][n].owner
                 /\ rows'[k][n].status = "running" => rows[k][n].status = "running"
      <4>1. CASE k = key[c] /\ n = count[c]
        BY <4>1 DEF Closes
      <4>2. CASE ~(k = key[c] /\ n = count[c])
        BY <4>2 DEF Closes
      <4>. QED
        BY <4>1, <4>2
    <3>. QED
      BY <3>1, <3>2
  <2>. QED
    BY <2>1, <2>2, RowsStep
<1>. QED
  BY <1>1, AlwaysIInv, PTL DEF Spec, HistoryOnlyGrows

-------------------------------------------------------------------------------
\* Lock, read and insert implement the indivisible allocation of AttemptLedger.
THEOREM RefinesLedger == Spec => ImplementsLedger
<1>1. Init => Ledger!Init
  <2>. SUFFICES ASSUME Init PROVE Statuses = [k \in Key |-> [n \in 1..0 |-> "running"]]
    BY DEF Ledger!Init
  <2>1. ASSUME NEW k \in Key
        PROVE  [n \in DOMAIN rows[k] |-> rows[k][n].status] = [n \in 1..0 |-> "running"]
    <3>1. DOMAIN rows[k] = {} /\ 1..0 = {}
      BY DEF Init
    <3>. QED
      BY <3>1
  <2>. QED
    BY <2>1 DEF Statuses
<1>2. IInv /\ [Next]_vars => [Ledger!Next]_Statuses
  <2>. SUFFICES ASSUME IInv, [Next]_vars, rows' # rows
                PROVE  Ledger!Next
    BY DEF Statuses
  <2>1. CASE \E c \in Caller : Appends(c)
    <3>. PICK c \in Caller : Appends(c)
      BY <2>1
    <3>. DEFINE k == key[c]
                n == count[c]
    <3>1. k \in Key /\ n \in Nat /\ DOMAIN Statuses[k] = 1..n /\ n \in {0} \cup DOMAIN Statuses[k]
      BY DEF Appends, IInv, TypeOK, Statuses
    <3>2. Statuses'[k] = [i \in 1..(n + 1) |-> IF i = n + 1 THEN "running" ELSE Statuses[k][i]]
      <4>1. \A i \in 1..(n + 1) :
              rows'[k][i].status = IF i = n + 1 THEN "running" ELSE rows[k][i].status
        BY SMTT(40), <3>1 DEF Appends
      <4>2. Statuses'[k] = [i \in 1..(n + 1) |-> rows'[k][i].status]
        BY <3>1 DEF Appends, Statuses
      <4>3. \A i \in 1..n : Statuses[k][i] = rows[k][i].status
        BY <3>1 DEF Statuses
      <4>. QED
        BY <3>1, <4>1, <4>2, <4>3
    <3>3. Statuses' = [Statuses EXCEPT ![k] = Statuses'[k]]
      BY <3>1 DEF Appends, Statuses
    <3>4. Ledger!Open(k)
      BY <3>1, <3>2, <3>3 DEF Ledger!Open, Ledger!Numbered
    <3>. QED
      BY <3>1, <3>4 DEF Ledger!Next
  <2>2. CASE \E c \in Caller : \E outcome \in {"succeeded", "failed"} :
               pc[c] \in {"open", "closed"} /\ Closes(c, outcome)
    <3>. PICK c \in Caller, outcome \in {"succeeded", "failed"} :
           pc[c] \in {"open", "closed"} /\ Closes(c, outcome)
      BY <2>2
    <3>. DEFINE k == key[c]
                n == count[c]
    <3>1. k \in Key /\ n \in DOMAIN rows[k] /\ n \in DOMAIN Statuses[k]
      BY DEF IInv, TypeOK, HandleOwnsRow, Statuses
    <3>2. \A j \in Key : j # k => Statuses'[j] = Statuses[j]
      BY DEF Closes, Statuses
    <3>3. Statuses'[k] = [Statuses[k] EXCEPT ![n] = outcome]
      BY <3>1 DEF Closes, Statuses
    <3>4. Statuses' = [Statuses EXCEPT ![k] = [Statuses[k] EXCEPT ![n] = outcome]]
      BY <3>1, <3>2, <3>3 DEF Statuses
    <3>5. Ledger!Close(k)
      BY <3>1, <3>4 DEF Ledger!Close
    <3>. QED
      BY <3>1, <3>5 DEF Ledger!Next
  <2>. QED
    BY <2>1, <2>2, RowsStep
<1>. QED
  BY <1>1, <1>2, AlwaysIInv, PTL DEF Spec, ImplementsLedger, Ledger!Spec
===============================================================================
