------------------------------- MODULE Search -------------------------------
(***************************************************************************)
(* Search requests, keyword and hybrid, for recommendations and for       *)
(* source pages: the service (src/lib/services/search.ts), the cache of   *)
(* query embeddings all requests of the web server share                  *)
(* (src/lib/services/query-embedding-cache.ts) and the ranking SQL        *)
(* (src/lib/services/search-sql.ts).                                      *)
(*                                                                         *)
(* What text search and vector distance make of a row is external: each   *)
(* query gets any two rankings of the rows it may see, of which the model *)
(* watches a few among the PerCteLimit the SQL keeps.  Scores are exact.  *)
(***************************************************************************)
EXTENDS Integers, Sequences, FiniteSets, Filters

CONSTANTS
    SearchRequest,            \* search requests at work, over and over
    Model, Query,       \* embedding models and query texts
    Row,                \* recommendations, or pages
    VisibleTo,          \* VisibleTo[v]: rows composeAuthFilter and the filters let v see
    AgeOf,              \* AgeOf[r]: order of equals, newest first; for pages, first page first
    PerCteLimit,        \* rows each ranking keeps
    WatchedRank,        \* bound: the ranks watched rows may have, 0 for unranked
    K, MissingRank,     \* 60 and 1000 in the SQL
    QueryTtl, MaxEntries    \* options of the cache; ttl in ticks

ASSUME RankAssumption ==
    /\ IsFiniteSet(Row) /\ DOMAIN VisibleTo # {}
    /\ PerCteLimit \in Nat /\ WatchedRank \subseteq 0..PerCteLimit
    /\ K = 60 /\ MissingRank = 1000
ASSUME CacheAssumption == QueryTtl \in Nat /\ MaxEntries \in Nat \ {0}

VARIABLES
    store,      \* the cache: entries in insertion order, as a Map keeps them
    search      \* search[q]: what a request is at

searchVars == <<store, search>>

Viewer == DOMAIN VisibleTo
NoVector == <<>>
Quiet == [pc |-> "idle", mode |-> "keyword", viewer |-> CHOOSE v \in Viewer : TRUE,
          key |-> <<>>, vector |-> NoVector, age |-> 0, keyword |-> <<>>, near |-> <<>>, hits |-> <<>>]

\* A request that is answered, with no hits or an error, keeps what it found until the next.
SearchTypeOK ==
    /\ \A i \in 1..Len(store) : store[i].key \in Model \X Query /\ store[i].age \in 0..QueryTtl
    /\ \A q \in SearchRequest :
          /\ search[q].pc \in {"idle", "embed", "load", "sql"}
          /\ search[q].mode \in {"keyword", "hybrid"}
          /\ search[q].viewer \in Viewer
          /\ search[q].age \in 0..QueryTtl
          /\ search[q].hits \in Seq(Row)

SearchInit ==
    /\ store = <<>>
    /\ search = [q \in SearchRequest |-> Quiet]
-------------------------------------------------------------------------------
\* What a ranking makes of the rows: distinct ranks for those of a subset S, 0 for others.
Rankings(S) ==
    {f \in [Row -> WatchedRank] :
        /\ \A r \in Row \ S : f[r] = 0
        /\ \A r, s \in S : f[r] = f[s] /\ r # s => f[r] = 0}

\* Faulty variant: a missing rank counts as 0.
DenominatorOfNull(f, r) == K + f[r]

\* coalesce(rank, 1000), in the denominator of a reciprocal rank.
Denominator(f, r) == K + (IF f[r] = 0 THEN MissingRank ELSE f[r])

\* 1/(k + rank) summed over both rankings, compared without division.
ScoresHigher(kw, near, r, s) ==
    LET kr == Denominator(kw, r)  nr == Denominator(near, r)
        ks == Denominator(kw, s)  ns == Denominator(near, s)
    IN (kr + nr) * ks * ns > (ks + ns) * kr * nr

\* What ORDER BY may make of the rows in S: no row stands below one it is before.
Orders(S, before) ==
    {h \in [1..Cardinality(S) -> S] :
        \A i, j \in DOMAIN h : i < j => h[i] # h[j] /\ <<h[j], h[i]>> \notin before}

\* Reciprocal rank fusion: the rows of either ranking, best score first, then newest.
Fused(kw, near) ==
    Orders({r \in Row : kw[r] > 0 \/ near[r] > 0},
           {p \in Row \X Row :
               \/ ScoresHigher(kw, near, p[1], p[2])
               \/ ~ScoresHigher(kw, near, p[2], p[1]) /\ AgeOf[p[1]] > AgeOf[p[2]]})

\* runRecommendationsKeyword: the one ranking as it is.
ByKeyword(kw) ==
    Orders({r \in Row : kw[r] > 0}, {p \in Row \X Row : kw[p[1]] < kw[p[2]]})
-------------------------------------------------------------------------------
Become(q, change) == search' = [search EXCEPT ![q] = change]

\* A valid request arrives.  Hybrid mode without an embedding provider is keyword mode.
Receive(q, mode, model, text, viewer) ==
    /\ search[q].pc = "idle"
    /\ Become(q, [Quiet EXCEPT !.pc = IF mode = "hybrid" THEN "embed" ELSE "sql",
                              !.mode = mode, !.key = <<model, text>>, !.viewer = viewer])
    /\ UNCHANGED store

\* Faulty variant: the model is not part of the key.
EntryOfQuery(key) == {i \in 1..Len(store) : store[i].key[2] = key[2]}

Entry(key) == {i \in 1..Len(store) : store[i].key = key}

\* get: a hit that has not expired is used; an expired one is deleted and loaded anew.
Lookup(q) ==
    /\ search[q].pc = "embed"
    /\ LET found == Entry(search[q].key) IN
       IF \E i \in found : store[i].age < QueryTtl
       THEN /\ Become(q, [search[q] EXCEPT !.pc = "sql", !.age = 0,
                             !.vector = store[CHOOSE i \in found : TRUE].value])
            /\ UNCHANGED store
       ELSE /\ store' = Filtered(store, 1..Len(store) \ found)
            /\ Become(q, [search[q] EXCEPT !.pc = "load", !.age = 0])

\* set, then eviction of the oldest: a key that is there keeps its place.
WithEntry(entries, e) ==
    LET all == IF \E i \in 1..Len(entries) : entries[i].key = e.key
               THEN [i \in 1..Len(entries) |-> IF entries[i].key = e.key THEN e ELSE entries[i]]
               ELSE Append(entries, e)
    IN IF Len(all) > MaxEntries THEN Tail(all) ELSE all

\* The loader is answered: the entry is dated at the call of get.
Loaded(q) ==
    /\ search[q].pc = "load"
    /\ store' = WithEntry(store, [key |-> search[q].key, value |-> search[q].key,
                                  age |-> search[q].age])
    /\ Become(q, [search[q] EXCEPT !.pc = "sql", !.vector = search[q].key, !.age = 0])

\* The provider fails, or returns no vector.
LoadThrows(q) ==
    /\ search[q].pc = "load"
    /\ Become(q, Quiet)
    /\ UNCHANGED store

\* The statement is run and its rows returned.
RunSql(q) ==
    /\ search[q].pc = "sql"
    /\ \E kw \in Rankings(VisibleTo[search[q].viewer]) :
          IF search[q].mode = "keyword"
          THEN \E hits \in ByKeyword(kw) :
                  Become(q, [search[q] EXCEPT !.pc = "idle", !.keyword = kw,
                                              !.near = [r \in Row |-> 0], !.hits = hits])
          ELSE \E near \in Rankings(VisibleTo[search[q].viewer]) : \E hits \in Fused(kw, near) :
                  Become(q, [search[q] EXCEPT !.pc = "idle", !.keyword = kw, !.near = near,
                                              !.hits = hits])
    /\ UNCHANGED store

SearchTick ==
    /\ store' = [i \in 1..Len(store) |->
                    [store[i] EXCEPT !.age = IF @ < QueryTtl THEN @ + 1 ELSE QueryTtl]]
    /\ search' = [q \in SearchRequest |->
                    IF search[q].pc = "load" /\ search[q].age < QueryTtl
                    THEN [search[q] EXCEPT !.age = @ + 1] ELSE search[q]]

SearchNext ==
    \/ SearchTick
    \/ \E q \in SearchRequest :
        \/ \E mode \in {"keyword", "hybrid"}, m \in Model, t \in Query, v \in Viewer :
              Receive(q, mode, m, t, v)
        \/ Lookup(q) \/ Loaded(q) \/ LoadThrows(q) \/ RunSql(q)

SearchSpec == SearchInit /\ [][SearchNext]_searchVars
-------------------------------------------------------------------------------
\* However requests of several models and queries overlap, expire and evict each
\* other's entries: the cache stays within its limit, keeps one entry of a key, and a
\* request searches with the vector its own model makes of its own query.
VectorsFit ==
    /\ Len(store) <= MaxEntries
    /\ \A i, j \in 1..Len(store) : store[i].key = store[j].key => i = j
    /\ \A q \in SearchRequest :
          search[q].vector # NoVector => search[q].vector = search[q].key

\* The last rank at which 2/(60+r) exceeds 1/61 + 1/1060.
SafeRank == 55

\* "A row missing from one side never beats a row present in both": it does beat one
\* whose ranks are worse than SafeRank; up to there the claim holds, and a row that is
\* ranked better on both sides is always before the other.
FusionIsFair ==
    \A q \in SearchRequest :
        LET kw == search[q].keyword  near == search[q].near  hits == search[q].hits IN
        search[q].mode = "hybrid" => \A i, j \in 1..Len(hits) :
            (/\ kw[hits[i]] \in 1..SafeRank /\ near[hits[i]] \in 1..SafeRank
             /\ \/ kw[hits[j]] = 0 \/ near[hits[j]] = 0
                \/ kw[hits[i]] < kw[hits[j]] /\ near[hits[i]] < near[hits[j]]) => i < j
===============================================================================
