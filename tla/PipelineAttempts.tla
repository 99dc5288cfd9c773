--------------------------- MODULE PipelineAttempts ---------------------------
(***************************************************************************)
(* The durable attempt history of src/lib/repositories/                    *)
(* source-pipeline-attempt.ts, as handlers running at once use it.         *)
(*                                                                         *)
(* Opening an attempt is a READ COMMITTED transaction of three statements: *)
(* take an advisory lock derived from the key by a hash, read              *)
(* max(attempt), insert max + 1.  The lock is held until the transaction   *)
(* ends.  The table has a unique index on (source, stage, attempt), so an  *)
(* insert of a number already taken throws.                                *)
(* Closing an attempt is a single UPDATE by row id with no check of the    *)
(* row's present status: a handler that closed its attempt "succeeded" and *)
(* then fails to enqueue the next stage overwrites it with "failed".       *)
(***************************************************************************)
EXTENDS Integers

CONSTANTS
    Key,            \* (source, stage) pairs
    Caller,         \* handler invocations, each opening one attempt
    LockId,         \* advisory lock identifiers, the range of the hash
    LockOf,         \* hashtext pair of a key; different keys may collide
    NoCaller        \* "nobody": a value that is not a Caller

ASSUME LockOfAssumption == LockOf \in [Key -> LockId]
ASSUME NoCallerAssumption == NoCaller \notin Caller

VARIABLES
    rows,           \* rows[k][n] = [status, owner]: committed attempts of key k
    holder,         \* holder[l]: the caller whose transaction holds lock l
    pc,             \* where each caller stands
    key,            \* the key a caller works on
    count           \* local: max(attempt) as read, then the attempt's number

vars == <<rows, holder, pc, key, count>>

Status == {"running", "succeeded", "failed"}
Row == [status: Status, owner: Caller]
PC == {"idle", "waiting", "locked", "counted", "open", "closed", "finished",
       "conflict", "dead"}

InTransaction(c) == pc[c] \in {"locked", "counted"}

\* Faulty variant: attempts counted from 0.
MaxAttemptFromZero(table) ==
    IF DOMAIN table = {} THEN -1
    ELSE CHOOSE m \in DOMAIN table : \A n \in DOMAIN table : n <= m

\* select coalesce(max(attempt), 0) over the committed rows of one key
MaxAttempt(table) ==
    IF DOMAIN table = {} THEN 0
    ELSE CHOOSE m \in DOMAIN table : \A n \in DOMAIN table : n <= m

TypeOK ==
    /\ rows = [k \in Key |-> rows[k]]
    /\ \A k \in Key : /\ DOMAIN rows[k] \subseteq Nat
                      /\ rows[k] \in [DOMAIN rows[k] -> Row]
    /\ holder \in [LockId -> Caller \cup {NoCaller}]
    /\ pc \in [Caller -> PC]
    /\ key \in [Caller -> Key]
    /\ count \in [Caller -> Nat]

Init ==
    /\ rows = [k \in Key |-> [n \in {} |-> "none"]]
    /\ holder = [l \in LockId |-> NoCaller]
    /\ pc = [c \in Caller |-> "idle"]
    /\ key \in [Caller -> Key]
    /\ count = [c \in Caller |-> 0]

-------------------------------------------------------------------------------
\* startSourcePipelineAttempt: the transaction begins and asks for the lock.
BeginStart(c) ==
    /\ pc[c] = "idle"
    /\ pc' = [pc EXCEPT ![c] = "waiting"]
    /\ UNCHANGED <<rows, holder, key, count>>

\* Faulty variant: the two starts are not serialised.
AcquireLockUnserialised(c) ==
    /\ pc[c] = "waiting"
    /\ holder' = [holder EXCEPT ![LockOf[key[c]]] = c]
    /\ pc' = [pc EXCEPT ![c] = "locked"]
    /\ UNCHANGED <<rows, key, count>>

\* pg_advisory_xact_lock returns once nobody else holds the lock.
AcquireLock(c) ==
    /\ pc[c] = "waiting"
    /\ holder[LockOf[key[c]]] = NoCaller
    /\ holder' = [holder EXCEPT ![LockOf[key[c]]] = c]
    /\ pc' = [pc EXCEPT ![c] = "locked"]
    /\ UNCHANGED <<rows, key, count>>

\* The select has a snapshot of its own, later than the lock's.
ReadMax(c) ==
    /\ pc[c] = "locked"
    /\ count' = [count EXCEPT ![c] = MaxAttempt(rows[key[c]])]
    /\ pc' = [pc EXCEPT ![c] = "counted"]
    /\ UNCHANGED <<rows, holder, key>>

\* Faulty variant: the lock outlives the transaction, as a session lock does.
KeepLock(c) == IF pc[c] = "counted" THEN holder ELSE [l \in LockId |->
                    IF holder[l] = c THEN NoCaller ELSE holder[l]]

Release(c) == [l \in LockId |-> IF holder[l] = c THEN NoCaller ELSE holder[l]]

\* Faulty variant: an upsert, which takes over the row of a number in use.
InsertOrReplace(c) ==
    LET k == key[c]
        n == IF count[c] = 0 THEN 1 ELSE count[c] IN
    /\ pc[c] = "counted"
    /\ rows' = [rows EXCEPT ![k] =
                  [i \in DOMAIN rows[k] \cup {n} |->
                     IF i = n THEN [status |-> "running", owner |-> c] ELSE rows[k][i]]]
    /\ holder' = Release(c)
    /\ pc' = [pc EXCEPT ![c] = "open"]
    /\ count' = [count EXCEPT ![c] = n]
    /\ UNCHANGED key

\* The insert and the commit, which makes the row visible and frees the lock.
\* If the unique index refuses the number the insert throws and the job fails.
InsertAttempt(c) ==
    LET k == key[c]
        n == count[c] + 1
        taken == n \in DOMAIN rows[k] IN
    /\ pc[c] = "counted"
    /\ rows' = IF taken THEN rows ELSE
                [rows EXCEPT ![k] =
                  [i \in DOMAIN rows[k] \cup {n} |->
                     IF i = n THEN [status |-> "running", owner |-> c] ELSE rows[k][i]]]
    /\ count' = [count EXCEPT ![c] = n]
    /\ pc' = [pc EXCEPT ![c] = IF taken THEN "conflict" ELSE "open"]
    /\ holder' = Release(c)
    /\ UNCHANGED key

\* UPDATE ... SET status WHERE id = handle.id
SetOutcome(c, outcome) ==
    rows' = [rows EXCEPT ![key[c]] =
               [rows[key[c]] EXCEPT ![count[c]] = [@ EXCEPT !.status = outcome]]]

Succeed(c) ==
    /\ pc[c] = "open"
    /\ SetOutcome(c, "succeeded")
    /\ pc' = [pc EXCEPT ![c] = "closed"]
    /\ UNCHANGED <<holder, key, count>>

\* A throw anywhere in the handler's try, the hand-off after Succeed included.
Fail(c) ==
    /\ pc[c] \in {"open", "closed"}
    /\ SetOutcome(c, "failed")
    /\ pc' = [pc EXCEPT ![c] = "finished"]
    /\ UNCHANGED <<holder, key, count>>

\* The same throw when the bookkeeping UPDATE itself fails: the handler
\* swallows it (.catch(() => {})) and the row keeps the status it had.
FailSwallowed(c) ==
    /\ pc[c] \in {"open", "closed"}
    /\ pc' = [pc EXCEPT ![c] = "finished"]
    /\ UNCHANGED <<rows, holder, key, count>>

\* The worker process dies: Postgres rolls the open transaction back and
\* releases its locks.
Crash(c) ==
    /\ pc[c] \in {"waiting", "locked", "counted", "open", "closed"}
    /\ holder' = Release(c)
    /\ pc' = [pc EXCEPT ![c] = "dead"]
    /\ UNCHANGED <<rows, key, count>>

Step(c) == AcquireLock(c) \/ ReadMax(c) \/ InsertAttempt(c)

Next == \E c \in Caller :
    \/ BeginStart(c) \/ Step(c)
    \/ Succeed(c) \/ Fail(c) \/ FailSwallowed(c) \/ Crash(c)

Spec == Init /\ [][Next]_vars

\* Postgres runs an open transaction on: it reads, inserts and commits or is
\* rolled back, and it grants a lock that stays free.
FairSpec == Spec /\ \A c \in Caller : WF_vars(Step(c))
-------------------------------------------------------------------------------
\* "The advisory transaction lock prevents two pg-boss retries from both
\* observing the same max(attempt) before either insert commits": the unique
\* index never has to refuse an attempt number.
NoAttemptConflict == \A c \in Caller : pc[c] # "conflict"

\* Attempt numbers of a key are 1, 2, ... without a gap, whatever crashes and
\* rollbacks happen between reading the maximum and inserting.
ContiguousAttempts ==
    \A k \in Key : \E n \in {0} \cup DOMAIN rows[k] : DOMAIN rows[k] = 1..n

\* A handler that was handed attempt n of its key is the one that opened row n,
\* so that the UPDATE by id closes its own attempt and nobody else's.
HandleOwnsRow ==
    \A c \in Caller :
        pc[c] \in {"open", "closed"} =>
            /\ count[c] \in DOMAIN rows[key[c]]
            /\ rows[key[c]][count[c]].owner = c

\* The history accounts for itself: an attempt still "running" belongs to a
\* handler that is at work on it, that died with it open, or whose failure
\* bookkeeping was lost.  Nothing else is left behind.
RunningIsAccountedFor ==
    \A k \in Key : \A n \in DOMAIN rows[k] :
        rows[k][n].status = "running" =>
            pc[rows[k][n].owner] \in {"open", "dead", "finished"}

\* No step removes an attempt, gives it to another handler or reopens it, and
\* a new attempt is numbered above every attempt of its key.
HistoryOnlyGrows ==
    [][\A k \in Key :
         /\ \A n \in DOMAIN rows[k] :
              /\ n \in DOMAIN rows'[k]
              /\ rows'[k][n].owner = rows[k][n].owner
              /\ rows'[k][n].status = "running" => rows[k][n].status = "running"
         /\ \A n \in DOMAIN rows'[k] \ DOMAIN rows[k] :
              \A m \in DOMAIN rows[k] : m < n]_rows

\* Two handlers whose keys hash to the same lock exclude each other from the
\* whole of read-then-insert.
LockExcludes ==
    \A c, d \in Caller :
        /\ InTransaction(c)
        /\ InTransaction(d)
        /\ LockOf[key[c]] = LockOf[key[d]]
        => c = d

\* The history is sound whatever the handlers of a key do at the same time.
AttemptsAreSound ==
    /\ NoAttemptConflict
    /\ ContiguousAttempts
    /\ HandleOwnsRow
    /\ RunningIsAccountedFor
    /\ LockExcludes

\* The lock is never held for ever: a handler waiting to open an attempt gets
\* its number or dies.
StartCompletes ==
    \A c \in Caller : pc[c] = "waiting" ~> pc[c] \notin {"waiting", "locked", "counted"}

\* What readers of the history see: the statuses alone.
Statuses == [k \in Key |-> [n \in DOMAIN rows[k] |-> rows[k][n].status]]

Ledger == INSTANCE AttemptLedger WITH ledger <- Statuses

\* Lock, read and insert together are one indivisible allocation.
ImplementsLedger == Ledger!Spec
===============================================================================
