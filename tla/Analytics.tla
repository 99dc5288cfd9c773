------------------------------ MODULE Analytics ------------------------------
(***************************************************************************)
(* The aggregates over recommendations and their cache: the queries       *)
(* (src/lib/services/analytics-sql.ts), getOrCompute and the nightly      *)
(* refresh (src/lib/services/analytics.ts), the table that caches them    *)
(* (src/lib/repositories/analytics-cache.ts) and the pages that read it.  *)
(*                                                                         *)
(* A page whose row is missing or CACHE_TTL_MS old computes it under its  *)
(* own viewer and writes it for everybody, dated when it is written.      *)
(* Pages and the refresh overlap as they like; a computation may take up  *)
(* to Slow ticks between the read of the tables and the write of the row. *)
(***************************************************************************)
EXTENDS Integers, Sequences, FiniteSets, Functions, FiniteSetsExt, SequencesExt

CONSTANTS
    Page,                   \* page requests at work, over and over
    Reader, System,         \* admins and owners; the refresh's context
    Source, Private,        \* sources, and those that are private
    OwnerOf,                \* OwnerOf[s]: its owner
    Granted,                \* <<reader, source>>: access requests that were approved
    Rec, SourceOf, ThemesOf,    \* recommendations, SourceOf[r] and ThemesOf[r]
    RecStatus,
    Months,                 \* length of the charts, DEFAULT_MONTHS
    BornIn,                 \* BornIn[s]: age of the source in months
    CacheTtl, Slow,         \* in ticks
    MaxChanges,             \* bound: how often the tables change
    KindMixes               \* bound: aggregates one behaviour may look at

ASSUME TicksAssumption ==
    /\ CacheTtl \in Nat /\ Slow \in Nat /\ MaxChanges \in Nat /\ Months \in Nat \ {0}
ASSUME TablesAssumption ==
    /\ IsFiniteSet(Source) /\ "open" \in RecStatus
    /\ KindMixes \subseteq
         SUBSET {"recs-per-status", "recs-per-theme", "progress-cadence", "source-timeline"}

VARIABLES
    kinds,      \* the aggregates this behaviour looks at
    written,    \* latest status of each recommendation, months it was reported on
    version,    \* counts the changes of the tables
    outdated,   \* outdated[v]: ticks since version v was superseded
    rows,       \* analytics_cache: for each key present its value, version and age
    task        \* task[t]: what a page or the refresh is at

analyticsVars == <<kinds, written, version, outdated, rows, task>>

RefreshView == "refresh"
Task == Page \cup {RefreshView}
Versions == 0..MaxChanges
Kind == {"recs-per-status", "recs-per-theme", "progress-cadence", "source-timeline"}
SourceKind == {"recs-per-status", "progress-cadence"}
Global == "global"
CacheKey == (Kind \X {Global}) \cup (SourceKind \X Source)
Limit == CacheTtl + Slow
Aged(a) == IF a < Limit THEN a + 1 ELSE Limit
Idle == [todo |-> <<>>, viewer |-> System, read |-> FALSE, value |-> <<>>, asOf |-> 0, age |-> 0]
-------------------------------------------------------------------------------
\* composeAuthFilter: roles do not matter, an admin sees no more than others.
CountedFor(viewer, s) == viewer = System \/ s \notin Private \/ OwnerOf[s] = viewer

\* composeSourcePredicate: the recommendations of one source, or all there are.
CountedRecs(viewer, S) == {r \in Rec : SourceOf[r] \in S /\ CountedFor(viewer, SourceOf[r])}

\* The keys of f that are not zero, as GROUP BY leaves them.
NonZero(f) == [k \in {j \in DOMAIN f : f[j] > 0} |-> f[k]]

RecsPerStatus(viewer, S) ==
    NonZero([st \in RecStatus |->
        Cardinality({r \in CountedRecs(viewer, S) : written.status[r] = st})])

RecsPerThematicArea(viewer, S) ==
    NonZero([t \in UNION {ThemesOf[r] : r \in Rec} |->
        Cardinality({r \in CountedRecs(viewer, S) : t \in ThemesOf[r]})])

\* A month without an update counts zero.
ProgressCadence(viewer, S) ==
    [m \in 0..Months-1 |->
        Cardinality({r \in CountedRecs(viewer, S) : m \in written.reported[r]})]

SourceTimeline(viewer) ==
    [m \in 0..Months-1 |->
        Cardinality({s \in Source : CountedFor(viewer, s) /\ BornIn[s] = m})]

\* The aggregate behind each key.
Aggregate(key, viewer) ==
    LET S == IF key[2] = Global THEN Source ELSE {key[2]} IN
    CASE key[1] = "recs-per-status" -> RecsPerStatus(viewer, S)
      [] key[1] = "recs-per-theme" -> RecsPerThematicArea(viewer, S)
      [] key[1] = "progress-cadence" -> ProgressCadence(viewer, S)
      [] key[1] = "source-timeline" -> SourceTimeline(viewer)
-------------------------------------------------------------------------------
AnalyticsTypeOK ==
    /\ kinds \in KindMixes
    /\ written \in [status: [Rec -> RecStatus], reported: [Rec -> SUBSET (0..Months-1)]]
    /\ version \in Versions
    /\ outdated \in [Versions -> 0..Limit]
    /\ DOMAIN rows \subseteq CacheKey
    /\ \A k \in DOMAIN rows : rows[k].asOf \in Versions /\ rows[k].age \in 0..Limit
    /\ \A t \in Task : /\ task[t].todo \in Seq(CacheKey)
                       /\ task[t].asOf \in Versions /\ task[t].age \in 0..Slow

AnalyticsInit ==
    /\ kinds \in KindMixes
    /\ written = [status |-> [r \in Rec |-> "open"], reported |-> [r \in Rec |-> {}]]
    /\ version = 0
    /\ outdated = [v \in Versions |-> 0]
    /\ rows = [k \in {} |-> 0]
    /\ task = [t \in Task |-> Idle]

\* A status is recorded, or the first progress report of a month.
ChangeTables ==
    /\ version < MaxChanges
    /\ \E r \in Rec :
          \/ \E st \in RecStatus : written' = [written EXCEPT !.status[r] = st]
          \/ written' = [written EXCEPT !.reported[r] = @ \cup {0}]
    /\ written' # written
    /\ version' = version + 1
    /\ outdated' = [outdated EXCEPT ![version] = 0]
    /\ UNCHANGED <<kinds, rows, task>>
-------------------------------------------------------------------------------
\* Faulty variant: a row is served for as long as there is one.
HitOfAnyAge(k) == k \in DOMAIN rows

\* getCached and the test of its age: a hit is served and changes nothing.
Hit(k) == k \in DOMAIN rows /\ rows[k].age < CacheTtl

\* describeSourceAccess: a source's page is for who may see the source, by an
\* approved request, too.
MayOpen(viewer, s) == CountedFor(viewer, s) \/ <<viewer, s>> \in Granted

\* A page misses its row.  A global page is an admin's.
Visit(p, k, viewer) ==
    /\ task[p] = Idle /\ ~Hit(k)
    /\ k[1] \in kinds
    /\ k[2] \in Source => MayOpen(viewer, k[2])
    /\ task' = [task EXCEPT ![p] = [Idle EXCEPT !.todo = <<k>>, !.viewer = viewer]]
    /\ UNCHANGED <<kinds, written, version, outdated, rows>>

\* The runners of computeAll: the global keys, then those of each source.
Runners ==
    SetToSeq(kinds \X {Global}) \o SetToSeq((kinds \cap SourceKind) \X Source)

\* computeAll begins, under the system's context.
StartRefresh ==
    /\ task[RefreshView] = Idle
    /\ task' = [task EXCEPT ![RefreshView].todo = Runners]
    /\ UNCHANGED <<kinds, written, version, outdated, rows>>

\* compute(): one statement reads the tables.
Compute(t) ==
    /\ task[t].todo # <<>> /\ ~task[t].read
    /\ task' = [task EXCEPT ![t].read = TRUE, ![t].asOf = version, ![t].age = 0,
                            ![t].value = Aggregate(Head(task[t].todo), task[t].viewer)]
    /\ UNCHANGED <<kinds, written, version, outdated, rows>>

\* On to the next key, or done.
NextKey(t) ==
    IF Len(task[t].todo) = 1 THEN Idle
    ELSE [Idle EXCEPT !.todo = Tail(task[t].todo), !.viewer = task[t].viewer]

\* setCached: an upsert.
Write(t) ==
    /\ task[t].todo # <<>> /\ task[t].read
    /\ LET k == Head(task[t].todo) IN
       rows' = [j \in DOMAIN rows \cup {k} |->
                   IF j = k THEN [value |-> task[t].value, asOf |-> task[t].asOf, age |-> 0]
                   ELSE rows[j]]
    /\ task' = [task EXCEPT ![t] = NextKey(t)]
    /\ UNCHANGED <<kinds, written, version, outdated>>

\* A query fails: the page is an error page, the refresh notes the key and goes on.
ComputeFails(t) ==
    /\ task[t].todo # <<>>
    /\ task' = [task EXCEPT ![t] = NextKey(t)]
    /\ UNCHANGED <<kinds, written, version, outdated, rows>>

AnalyticsTick ==
    /\ \A t \in Task : task[t].age < Slow
    /\ outdated' = [v \in Versions |-> Aged(outdated[v])]
    /\ rows' = [k \in DOMAIN rows |-> [rows[k] EXCEPT !.age = Aged(@)]]
    /\ task' = [t \in Task |-> IF task[t].read THEN [task[t] EXCEPT !.age = @ + 1] ELSE task[t]]
    /\ UNCHANGED <<kinds, written, version>>

AnalyticsNext ==
    \/ ChangeTables \/ StartRefresh \/ AnalyticsTick
    \/ \E p \in Page, k \in CacheKey, v \in Reader : Visit(p, k, v)
    \/ \E t \in Task : Compute(t) \/ Write(t) \/ ComputeFails(t)

AnalyticsSpec == AnalyticsInit /\ [][AnalyticsNext]_analyticsVars
-------------------------------------------------------------------------------
\* Whatever pages and refreshes overlap, and however often a slow one overwrites a
\* later one's row, what a hit serves was true within the TTL and the time one
\* computation may take.
ServedIsRecent ==
    \A k \in DOMAIN rows :
        Hit(k) /\ rows[k].asOf < version => outdated[rows[k].asOf] < Limit
===============================================================================
