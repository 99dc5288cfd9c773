----------------------------- MODULE RateLimiter -----------------------------
(***************************************************************************)
(* The token bucket in front of the chat (src/lib/middleware/             *)
(* rate-limit.ts).  Tokens are counted in parts: by its rate a bucket     *)
(* gains Refill parts a tick, and a request takes Unit of them.  In the   *)
(* code tokens are doubles: what is computed from a time may be off by up *)
(* to Rounding parts, either way.  Taking one token of a double that      *)
(* holds one, keeping to the capacity and adding nothing are exact.       *)
(*                                                                         *)
(* The clock is Date.now(), which may be set back (not forward: every     *)
(* bucket would gain what was skipped).  For the bound on the rate a      *)
(* window of true time is watched that begins at any moment.              *)
(***************************************************************************)
EXTENDS Integers

CONSTANTS
    Key,            \* client addresses
    Capacity,       \* tokens of a full bucket
    Unit,           \* parts of a token
    Refill,         \* parts gained in a tick
    Rounding,       \* parts by which a computed amount may be off
    Second,         \* ticks of a second
    MaxTime         \* bound: ticks of a behaviour

ASSUME LimiterAssumption ==
    /\ Capacity \in Nat \ {0} /\ Unit \in Nat \ {0} /\ Refill \in Nat \ {0}
    /\ Second \in Nat \ {0} /\ MaxTime \in Nat

\* Three roundings weigh less than what a second gains.
ASSUME RoundingAssumption == Rounding \in Nat /\ 3 * Rounding <= Refill * Second

VARIABLES
    elapsed,    \* ghost: true time
    now,        \* what the clock says
    buckets,    \* buckets[k]: parts and time of its last update; NoBucket before the first
    opened,     \* ghost: when, in true time, the window watched began
    passed      \* ghost: passed[k]: how often k was let through in it

limiterVars == <<elapsed, now, buckets, opened, passed>>

Full == Capacity * Unit
NoBucket == [parts |-> -1, updatedAt |-> 0]
Bucket == [parts: 0..Full, updatedAt: 0..MaxTime]

LimiterTypeOK ==
    /\ elapsed \in 0..MaxTime
    /\ now \in 0..MaxTime
    /\ buckets \in [Key -> Bucket \cup {NoBucket}]
    /\ opened \in 0..MaxTime
    /\ passed \in [Key -> Nat]

LimiterInit ==
    /\ elapsed = 0
    /\ now = 0
    /\ buckets = [k \in Key |-> NoBucket]
    /\ opened = 0
    /\ passed = [k \in Key |-> 0]
-------------------------------------------------------------------------------
Lesser(m, n) == IF m < n THEN m ELSE n
Greater(m, n) == IF m > n THEN m ELSE n

\* What the bucket of k would hold at a time by exact reckoning and without a capacity;
\* a clock that has been set back gains nothing.
Reckoned(k, at) == buckets[k].parts + Refill * Greater(0, at - buckets[k].updatedAt)

\* Faulty variant: what was gained is added beyond the capacity.
RefilledUncapped(k, at) == {Reckoned(k, at)}

\* refill: the amounts the bucket of k may be found to hold at a time, once it has been
\* updated: a sum is not less than what was added to, and not more than the capacity.
Refilled(k, at) ==
    IF at <= buckets[k].updatedAt THEN {buckets[k].parts}
    ELSE {Lesser(Full, Greater(buckets[k].parts, Reckoned(k, at) + e)) : e \in -Rounding..Rounding}

\* tryConsume: a new key starts with a full bucket.
TryConsume(k) ==
    \E held \in IF buckets[k] = NoBucket THEN {Full} ELSE Refilled(k, now) :
        LET allowed == held >= Unit
        IN /\ buckets' = [buckets EXCEPT ![k] =
                            [parts |-> IF allowed THEN held - Unit ELSE held, updatedAt |-> now]]
           /\ passed' = IF allowed THEN [passed EXCEPT ![k] = @ + 1] ELSE passed
           /\ UNCHANGED <<elapsed, now, opened>>

Tock ==
    /\ elapsed < MaxTime
    /\ elapsed' = elapsed + 1
    /\ now' = now + 1
    /\ UNCHANGED <<buckets, opened, passed>>

SetBack ==
    /\ \E t \in 0..now : now' = t
    /\ UNCHANGED <<elapsed, buckets, opened, passed>>

\* A window begins.
Watch ==
    /\ opened' = elapsed
    /\ passed' = [k \in Key |-> 0]
    /\ UNCHANGED <<elapsed, now, buckets>>

LimiterNext == Tock \/ SetBack \/ Watch \/ \E k \in Key : TryConsume(k)

LimiterSpec == LimiterInit /\ [][LimiterNext]_limiterVars
-------------------------------------------------------------------------------
\* In no window does a key get more through than a full bucket, what was gained meanwhile
\* and a rounding a tick, whatever was spent before and however often the clock is set back.
RateIsBounded ==
    \A k \in Key : passed[k] * Unit <= Full + (Refill + Rounding) * (elapsed - opened)

CeilDiv(a, b) == (a + b - 1) \div b

\* secondsUntilRefill: what Retry-After may say, at least a second.
SecondsUntilRefill(k) ==
    IF buckets[k] = NoBucket THEN {0}
    ELSE UNION {IF held >= Unit THEN {0}
                ELSE {Greater(1, CeilDiv(Unit - held + e, Refill * Second)) : e \in -Rounding..Rounding} :
                held \in Refilled(k, now)}

\* Retry-After is right to a second in spite of rounding: who waits a second longer than
\* it says gets through, if no one else of the same address has asked, and who waits two
\* seconds less does not.  To wait just as long may be a rounding too short.  (The route
\* asks for it at once after a refusal, so that the clock has not been set back since the
\* bucket was updated.)
RetryAfterIsClose ==
    \A k \in Key : \A s \in SecondsUntilRefill(k) :
        buckets[k] # NoBucket /\ s > 0 /\ buckets[k].updatedAt <= now =>
            /\ \A held \in Refilled(k, now + (s + 1) * Second) : held >= Unit
            /\ s > 2 => \A held \in Refilled(k, now + (s - 2) * Second) : held < Unit

\* A client gets what it is promised, and no more, up to rounding.
LimitIsKept == RateIsBounded /\ RetryAfterIsClose
===============================================================================
