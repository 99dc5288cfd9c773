---------------------------- MODULE ProviderCache ----------------------------
(***************************************************************************)
(* The in-process cache of provider settings (src/lib/providers/config.ts) *)
(* of one process, the worker or the web server.  An admin's save is an    *)
(* upsert and, as a statement of its own, a NOTIFY; a process that listens *)
(* clears its cache on it.  The worker listens; the web server's listener  *)
(* exists but nothing starts it, so all its NOTIFYs are lost.  An entry    *)
(* also expires CACHE_TTL_MS after the call that loaded it began.          *)
(*                                                                         *)
(* getProviders and getProviderConfig share the cache.  A call that misses *)
(* reads the settings and fills the cache when the answer is there; calls  *)
(* that miss at the same time each do so, in any order.                    *)
(*                                                                         *)
(* Settings are abstracted to a version number.  Time is counted in ticks  *)
(* and only as ages, which stop counting at Ttl.                           *)
(***************************************************************************)
EXTENDS Integers

CONSTANTS
    Loader,         \* jobs or requests that resolve the providers, over and over
    Ttl,            \* CACHE_TTL_MS, in ticks
    MaxVersion      \* bound: how many times the settings are saved

ASSUME TtlAssumption == Ttl \in Nat
ASSUME MaxVersionAssumption == MaxVersion \in Nat

VARIABLES
    setting,        \* version of the settings in the table
    unsent,         \* saves whose NOTIFY has not been sent
    inFlight,       \* saves whose NOTIFY has been sent and not been handled
    heard,          \* the latest save whose NOTIFY the process has handled
    replaced,       \* replaced[v]: ticks since version v was superseded
    cache,          \* version and age of the entry; version -1 for no entry
    load, got, age  \* of each caller: its place, version read, ticks since its call

cacheVars == <<setting, unsent, inFlight, heard, replaced, cache, load, got, age>>
db == <<setting, unsent, inFlight, replaced>>
locals == <<load, got, age>>

Version == 0..MaxVersion
Empty == [version |-> -1, age |-> 0]
Older(a) == IF a < Ttl THEN a + 1 ELSE Ttl

CacheTypeOK ==
    /\ setting \in Version
    /\ unsent \subseteq Version
    /\ inFlight \subseteq Version
    /\ heard \in Version
    /\ replaced \in [Version -> 0..Ttl]
    /\ cache \in [version: Version \cup {-1}, age: 0..Ttl]
    /\ load \in [Loader -> {"idle", "select", "fill"}]
    /\ got \in [Loader -> Version]
    /\ age \in [Loader -> 0..Ttl]

CacheInit ==
    /\ setting = 0
    /\ unsent = {}
    /\ inFlight = {}
    /\ heard = 0
    /\ replaced = [v \in Version |-> 0]
    /\ cache = Empty
    /\ load = [c \in Loader |-> "idle"]
    /\ got = [c \in Loader |-> 0]
    /\ age = [c \in Loader |-> 0]
-------------------------------------------------------------------------------
\* upsertProviderSetting, its first statement.
Save ==
    /\ setting < MaxVersion
    /\ setting' = setting + 1
    /\ unsent' = unsent \cup {setting + 1}
    /\ replaced' = [replaced EXCEPT ![setting] = 0]
    /\ UNCHANGED <<inFlight, heard, cache, locals>>

\* Its second statement: pg_notify.
Notify(v) ==
    /\ v \in unsent
    /\ unsent' = unsent \ {v}
    /\ inFlight' = inFlight \cup {v}
    /\ UNCHANGED <<setting, replaced, heard, cache, locals>>

\* The saving process dies, or the listening connection is down: no NOTIFY.
LoseNotify(v) ==
    /\ v \in unsent \cup inFlight
    /\ unsent' = unsent \ {v}
    /\ inFlight' = inFlight \ {v}
    /\ UNCHANGED <<setting, replaced, heard, cache, locals>>

\* The listener's callback: clearProviderCache.
Hear(v) ==
    /\ v \in inFlight
    /\ inFlight' = inFlight \ {v}
    /\ heard' = IF v > heard THEN v ELSE heard
    /\ cache' = Empty
    /\ UNCHANGED <<setting, unsent, replaced, locals>>

-------------------------------------------------------------------------------
Goto(c, place) == load' = [load EXCEPT ![c] = place]

\* The call is over and its locals are gone.
LoadOver(c) ==
    /\ Goto(c, "idle")
    /\ got' = [got EXCEPT ![c] = 0]
    /\ age' = [age EXCEPT ![c] = 0]

\* Faulty variant: an entry does not expire.
ValidForever == cache.version # -1

\* A call that finds a valid entry is served its version and changes nothing.
Valid == cache.version # -1 /\ cache.age < Ttl

\* A call that does not find one notes the time.
Miss(c) ==
    /\ load[c] = "idle"
    /\ ~Valid
    /\ Goto(c, "select")
    /\ age' = [age EXCEPT ![c] = 0]
    /\ UNCHANGED <<db, heard, cache, got>>

\* loadProviderConfig: the rows are read; the answer is under way.
Select(c) ==
    /\ load[c] = "select"
    /\ got' = [got EXCEPT ![c] = setting]
    /\ Goto(c, "fill")
    /\ UNCHANGED <<db, heard, cache, age>>

\* Faulty variant: the entry is dated when the answer comes in.
FillDatedNow(c) ==
    /\ load[c] = "fill"
    /\ cache' = [version |-> got[c], age |-> 0]
    /\ LoadOver(c)
    /\ UNCHANGED <<db, heard>>

\* The answer is in: providers are built, and cached as of the call's beginning.
Fill(c) ==
    /\ load[c] = "fill"
    /\ cache' = [version |-> got[c], age |-> age[c]]
    /\ LoadOver(c)
    /\ UNCHANGED <<db, heard>>

\* The query, the decryption of a key or the building of a provider throws.
LoadFails(c) ==
    /\ load[c] \in {"select", "fill"}
    /\ LoadOver(c)
    /\ UNCHANGED <<db, heard, cache>>

Tick ==
    /\ replaced' = [v \in Version |-> Older(replaced[v])]
    /\ cache' = [cache EXCEPT !.age = Older(@)]
    /\ age' = [c \in Loader |-> Older(age[c])]
    /\ UNCHANGED <<setting, unsent, inFlight, heard, load, got>>

Call(c) == Miss(c) \/ Select(c) \/ Fill(c)

CacheNext ==
    \/ Save \/ Tick
    \/ \E v \in Version : Notify(v) \/ LoseNotify(v) \/ Hear(v)
    \/ \E c \in Loader : Call(c) \/ LoadFails(c)

CacheSpec == CacheInit /\ [][CacheNext]_cacheVars

\* Time passes and a query is answered in the end, with rows or an error.
\* Nothing is assumed about how often anyone calls or saves.
FairCacheSpec ==
    /\ CacheSpec
    /\ WF_cacheVars(Tick)
    /\ \A c \in Loader : WF_cacheVars(Select(c) \/ Fill(c) \/ LoadFails(c))
-------------------------------------------------------------------------------
\* "The TTL is the safety net": what a hit serves has been superseded for less
\* than the TTL, even if every NOTIFY is lost, loads overlap and answers are slow.
BoundedStaleness ==
    Valid /\ cache.version < setting => replaced[cache.version] < Ttl

\* "Invalidate the in-process provider cache the moment a provider setting
\* changes, so DB-config edits take effect on the next job": once the process
\* has handled the NOTIFY of a save, no hit serves older settings.
HeardIsServed == Valid => cache.version >= heard

\* Without a NOTIFY, too, the last save is served in the end: from some time on
\* no hit serves anything older.
EventuallyCurrent ==
    (setting = MaxVersion) ~> [](Valid => cache.version = MaxVersion)
===============================================================================
