-------------------------- MODULE TaxonomyTagsProofs --------------------------
(***************************************************************************)
(* A replacement and a merge that commit have their whole effect, but for  *)
(* the links others changed meanwhile, for any number of requests, slugs,  *)
(* parents and join tables.  The argument needs nothing of the locks.      *)
(* since[q] holds every link that has changed since q first looked, so a   *)
(* link q reasons about is either as it was or in since[q].  What a        *)
(* request has found, deleted and inserted is then described up to         *)
(* since[q]: that is the inductive invariant, and other requests' commits  *)
(* preserve it because they only add to since[q].                          *)
(***************************************************************************)
EXTENDS TaxonomyTags, TLAPS

InReplace == {"delete", "deleteLock", "insert"}
InMerge == {"dedupe", "dedupeLock", "rewrite", "rewriteLock", "drop"}

\* A request is where its operation may bring it.
RightPlace(q) ==
    /\ pc[q] \in InReplace \cup {"create", "read"} => req[q].op = "tag"
    /\ pc[q] \in InMerge => req[q].op = "merge" /\ req[q].from # req[q].to
    /\ pc[q] \in {"idle", "create", "read", "delete", "deleteLock"} => gone[q] = {}
    /\ pc[q] \in {"idle", "create", "read"} \cup InReplace => new[q] = {}
    /\ pc[q] = "idle" => join[q] = 1
    /\ pc[q] \in InMerge \ {"drop"} => join[q] \in 1..Len(Joins)
    /\ pc[q] = "drop" => join[q] = Len(Joins) + 1

\* Whatever has changed since the first look of q is in since[q].
Tracked(q) == InTransaction(q) => Differing(links, base[q]) \subseteq since[q]

\* The links a replacement is to delete.
Unwanted(q) == {req[q].parent} \X (Existing(q) \ ids[q])

\* A replacement has found, and then deleted, the unwanted links.
Removing(q) ==
    /\ pc[q] = "deleteLock" =>
         found[q] \subseteq Unwanted(q) /\ Unwanted(q) \cap links \subseteq found[q] \cup since[q]
    /\ pc[q] = "insert" =>
         gone[q] \subseteq Unwanted(q) /\ Unwanted(q) \cap links \subseteq gone[q] \cup since[q]

\* The link that takes the place of a link to the tag merged away.
Heir(q, row) == <<row[1], req[q].to>>

\* The parent of a link to the tag merged away has the other tag as well, or its
\* links have been changed.
Carried(q, row) == Heir(q, row) \in links \cup new[q] \cup since[q]

\* A merge has inserted, deleted and found links for which it accounts.
Moving(q) ==
    pc[q] \in InMerge =>
        /\ \A row \in new[q] :
              \E old \in base[q] \cup since[q] : old[2] = req[q].from /\ row = Heir(q, old)
        /\ \A row \in gone[q] : row[2] = req[q].from /\ Carried(q, row)
        /\ pc[q] = "dedupeLock" =>
             \A row \in found[q] : row[2] = req[q].from /\ Carried(q, row)
        /\ pc[q] = "rewriteLock" =>
             /\ \A row \in found[q] : row[2] = req[q].from
             /\ \A row \in base[q] :
                  row[1] \in Joins[join[q]] /\ row[2] = req[q].from =>
                      row \in found[q] \cup since[q] \/ Carried(q, row)
        /\ \A i \in 1..Len(Joins) : i < join[q] =>
             \A row \in base[q] :
                 row[1] \in Joins[i] /\ row[2] = req[q].from =>
                     row \in since[q] \/ Carried(q, row)

\* If nobody has changed a link, a merge has found and deleted all duplicates.
Deduped(q) ==
    since[q] = {} =>
        /\ pc[q] = "dedupeLock" =>
             \A row \in Rows(q) : Heir(q, row) \in View(q) => row \in found[q]
        /\ pc[q] = "rewrite" =>
             \A row \in Rows(q) : Heir(q, row) \notin View(q)

\* What holds of each request.
Sound(q) == RightPlace(q) /\ Tracked(q) /\ Removing(q) /\ Moving(q) /\ Deduped(q)

\* The inductive invariant.
IInv == TypeOK /\ \A q \in Request : Sound(q)

-------------------------------------------------------------------------------
\* A link is the pair of its parent and its tag.
LEMMA LinkIsPair ==
    ASSUME NEW row \in Link
    PROVE  row = <<row[1], row[2]>> /\ row[1] \in Parent /\ row[2] \in Tag
BY DEF Link

\* What the fields of a demand are.
LEMMA DemandFields ==
    ASSUME TypeOK, NEW q \in Request
    PROVE  /\ req[q].op = "tag" => req[q].parent \in Parent /\ req[q].slugs \subseteq Slug
           /\ req[q].op = "merge" => req[q].from \in Tag /\ req[q].to \in Tag
           /\ req[q].op = "delete" => req[q].from \in Tag
<1>1. req[q] \in Tagging \cup Merging \cup Deleting
  BY DEF TypeOK
<1>. QED
  BY <1>1 DEF Tagging, Merging, Deleting

\* What a request sees are links.
LEMMA ViewIsLinks ==
    ASSUME TypeOK, NEW q \in Request
    PROVE  View(q) \subseteq Link
BY DEF TypeOK, View

\* A transaction that leaves links behind keeps the types.
LEMMA FinishType ==
    ASSUME TypeOK, NEW q \in Request, NEW now \in SUBSET Link, Finish(q, now),
           tags' \subseteq Tag, UNCHANGED <<created, req, ids, base, join>>
    PROVE  TypeOK'
<1>1. since' \in [Request -> SUBSET Link]
  BY DEF Finish, TypeOK
<1>2. links' \subseteq Link
  BY DEF Finish
<1>3. /\ pc' \in [Request -> Open \cup {"idle", "create", "read", "done", "failed"}]
      /\ found' \in [Request -> SUBSET Link]
      /\ gone' \in [Request -> SUBSET Link]
      /\ new' \in [Request -> SUBSET Link]
  BY DEF Finish, TypeOK, Goto
<1>. QED
  BY <1>1, <1>2, <1>3 DEF TypeOK

\* The steps of a tagging keep the types.
LEMMA ReplacingType ==
    ASSUME TypeOK, NEW q \in Request, RightPlace(q), Replacing(q)
    PROVE  TypeOK'
<1>. USE DEF tables, tx
<1>1. CASE Resolve(q)
  BY <1>1 DEF TypeOK, Resolve, Goto
<1>2. CASE Create(q)
  <2>1. req[q].slugs \subseteq Slug
    BY <1>2, DemandFields DEF RightPlace, Create
  <2>. DEFINE missing == {s \in req[q].slugs : \A t \in ids[q] : t[1] # s}
              fresh == {<<s, created[s] + 1>> : s \in missing}
  <2>2. fresh \subseteq Tag
    BY <2>1 DEF TypeOK, Tag
  <2>3. created' \in [Slug -> Nat]
    BY <1>2 DEF TypeOK, Create
  <2>4. tags' = tags \cup fresh /\ ids' = [ids EXCEPT ![q] = @ \cup fresh]
    BY <1>2 DEF Create
  <2>5. ids' \in [Request -> SUBSET Tag]
    BY <2>2, <2>4 DEF TypeOK
  <2>. HIDE DEF fresh
  <2>. QED
    BY <1>2, <2>2, <2>3, <2>4, <2>5 DEF TypeOK, Create, Goto
<1>3. CASE Read(q)
  BY <1>3 DEF TypeOK, Read, Goto, Open
<1>4. CASE Delete(q)
  BY <1>4 DEF TypeOK, Delete, Goto, Open
<1>5. CASE DeleteLock(q)
  BY <1>5 DEF TypeOK, DeleteLock, Goto, Open
<1>6. CASE Insert(q)
  <2>1. req[q].parent \in Parent
    BY <1>6, DemandFields DEF RightPlace, Insert, InReplace
  <2>. DEFINE rows == {req[q].parent} \X (ids[q] \ Existing(q))
  <2>2. rows \subseteq Link
    BY <2>1 DEF TypeOK, Link
  <2>3. View(q) \cup rows \in SUBSET Link
    BY <2>2, ViewIsLinks
  <2>4. Finish(q, View(q) \cup rows)
    BY <1>6 DEF Insert
  <2>. QED
    BY <1>6, <2>3, <2>4, FinishType DEF Insert, TypeOK
<1>. QED
  BY <1>1, <1>2, <1>3, <1>4, <1>5, <1>6 DEF Replacing

\* The steps of a merge, a deletion and a failure keep the types.
LEMMA MergingType ==
    ASSUME TypeOK, NEW q \in Request, RightPlace(q), MergingStep(q) \/ DeleteTag(q) \/ Abort(q)
    PROVE  TypeOK'
<1>. USE DEF tables
<1>0. Rows(q) \subseteq Link
  BY ViewIsLinks DEF Rows
<1>1. CASE BeginMerge(q)
  BY <1>1 DEF TypeOK, BeginMerge, Goto, Open
<1>2. CASE Dedupe(q)
  BY <1>0, <1>2 DEF TypeOK, Dedupe, Goto, Open
<1>3. CASE DedupeLock(q)
  BY <1>3 DEF TypeOK, DedupeLock, Goto, Open
<1>4. CASE Rewrite(q)
  BY <1>0, <1>4 DEF TypeOK, Rewrite, Goto, Open
<1>5. CASE RewriteLock(q)
  <2>1. req[q].to \in Tag /\ join[q] \in 1..Len(Joins)
    BY <1>5, DemandFields DEF RightPlace, RewriteLock, InMerge
  <2>. DEFINE old == found[q] \cap links
              rows == {<<row[1], req[q].to>> : row \in old}
  <2>2. old \subseteq Link
    BY DEF TypeOK
  <2>3. rows \subseteq Link
    BY <2>1, <2>2 DEF Link
  <2>4. join' \in [Request -> 1..Len(Joins) + 1]
    BY <1>5, <2>1, JoinsAssumption DEF TypeOK, RewriteLock
  <2>5. /\ gone' = [gone EXCEPT ![q] = @ \cup old]
        /\ new' = [new EXCEPT ![q] = @ \cup rows]
    BY <1>5 DEF RewriteLock
  <2>. HIDE DEF old, rows
  <2>6. gone' \in [Request -> SUBSET Link] /\ new' \in [Request -> SUBSET Link]
    BY <2>2, <2>3, <2>5 DEF TypeOK
  <2>. QED
    BY <1>5, <2>4, <2>6 DEF TypeOK, RewriteLock, Goto, Open
<1>6. CASE Drop(q)
  <2>1. {row \in View(q) : row[2] # req[q].from} \in SUBSET Link
    BY ViewIsLinks
  <2>. QED
    BY <1>6, <2>1, FinishType DEF Drop, TypeOK
<1>7. CASE DeleteTag(q)
  <2>1. {row \in links : row[2] # req[q].from} \in SUBSET Link
    BY DEF TypeOK
  <2>. QED
    BY <1>7, <2>1, FinishType DEF DeleteTag, TypeOK
<1>8. CASE Abort(q)
  BY <1>8 DEF TypeOK, Abort, Goto
<1>. QED
  BY <1>1, <1>2, <1>3, <1>4, <1>5, <1>6, <1>7, <1>8 DEF MergingStep

-------------------------------------------------------------------------------
\* A request is left alone, and told of every link that changes meanwhile.
Drift(q) ==
    /\ pc'[q] = pc[q] /\ ids'[q] = ids[q] /\ req'[q] = req[q] /\ join'[q] = join[q]
    /\ base'[q] = base[q] /\ found'[q] = found[q]
    /\ gone'[q] = gone[q] /\ new'[q] = new[q]
    /\ since[q] \subseteq since'[q]
    /\ InTransaction(q) => Differing(links, links') \subseteq since'[q]

\* The step of one request lets the others drift.
LEMMA OthersDrift ==
    ASSUME TypeOK, NEW r \in Request, NEW q \in Request \ {r},
           Replacing(r) \/ MergingStep(r) \/ DeleteTag(r) \/ Abort(r)
    PROVE  Drift(q)
<1>. USE DEF tables, tx
<1>1. ASSUME NEW now, Finish(r, now), UNCHANGED <<req, ids, base, join>>
      PROVE  Drift(q)
  BY <1>1 DEF TypeOK, Finish, Goto, Drift, Differing
<1>2. CASE Resolve(r) \/ Create(r) \/ Read(r)
  BY <1>2 DEF TypeOK, Resolve, Create, Read, Goto, Drift, Differing
<1>3. CASE Delete(r) \/ DeleteLock(r)
  BY <1>3 DEF TypeOK, Delete, DeleteLock, Goto, Drift, Differing
<1>4. CASE Insert(r)
  BY <1>1, <1>4 DEF Insert
<1>5. CASE BeginMerge(r) \/ Dedupe(r) \/ DedupeLock(r)
  BY <1>5 DEF TypeOK, BeginMerge, Dedupe, DedupeLock, Goto, Drift, Differing
<1>6. CASE Rewrite(r) \/ RewriteLock(r)
  BY <1>6 DEF TypeOK, Rewrite, RewriteLock, Goto, Drift, Differing
<1>7. CASE Drop(r)
  BY <1>1, <1>7 DEF Drop
<1>8. CASE DeleteTag(r)
  BY <1>1, <1>8 DEF DeleteTag
<1>9. CASE Abort(r)
  BY <1>9 DEF TypeOK, Abort, Goto, Drift, Differing
<1>. QED
  BY <1>2, <1>3, <1>4, <1>5, <1>6, <1>7, <1>8, <1>9 DEF Replacing, MergingStep

\* What holds of a request goes on to hold while it drifts.
LEMMA DriftSound ==
    ASSUME NEW q \in Request, Sound(q), Drift(q)
    PROVE  Sound(q)'
<1>. USE DEF Drift
<1>1. RightPlace(q)'
  BY DEF Sound, RightPlace
<1>2. Tracked(q)'
  BY DEF Sound, Tracked, InTransaction, Differing
<1>3. Removing(q)'
  <2>1. Unwanted(q)' = Unwanted(q)
    BY DEF Unwanted, Existing
  <2>. QED
    BY <2>1 DEF Sound, Removing, InTransaction, Open, Differing
<1>4. Moving(q)'
  <2>. SUFFICES ASSUME pc[q] \in InMerge
                PROVE  Moving(q)'
    BY DEF Moving
  <2>1. Differing(links, links') \subseteq since'[q]
    BY DEF InTransaction, InMerge, Open
  <2>2. \A row : Carried(q, row) => Carried(q, row)'
    BY <2>1 DEF Carried, Heir, Differing
  <2>. QED
    BY <2>2 DEF Sound, Moving, Heir
<1>5. Deduped(q)'
  <2>. SUFFICES ASSUME pc[q] \in {"dedupeLock", "rewrite"}, since'[q] = {}
                PROVE  Deduped(q)'
    BY DEF Deduped
  <2>1. links' = links /\ since[q] = {}
    BY DEF InTransaction, Open, Differing
  <2>2. View(q)' = View(q) /\ Rows(q)' = Rows(q)
    BY <2>1 DEF View, Rows
  <2>. QED
    BY <2>1, <2>2 DEF Sound, Deduped, Heir
<1>. QED
  BY <1>1, <1>2, <1>3, <1>4, <1>5 DEF Sound

-------------------------------------------------------------------------------
\* A request that is not in a transaction has little to keep.
LEMMA OutsideSound ==
    ASSUME NEW q \in Request, pc'[q] \in {"done", "failed"}
    PROVE  Sound(q)'
BY DEF Sound, RightPlace, Tracked, Removing, Moving, Deduped, InReplace, InMerge,
       InTransaction, Open

\* A tagging brings itself from one sound place to the next.
LEMMA ReplacingSound ==
    ASSUME TypeOK, NEW q \in Request, Sound(q), Replacing(q)
    PROVE  Sound(q)'
<1>. USE DEF tables, tx
<1>0. ASSUME pc'[q] \in {"create", "read"}, req'[q].op = "tag",
             gone'[q] = {}, new'[q] = {}
      PROVE  Sound(q)'
  BY <1>0 DEF Sound, RightPlace, Tracked, Removing, Moving, Deduped, InReplace, InMerge,
              InTransaction, Open
<1>1. CASE Resolve(q)
  BY <1>0, <1>1 DEF Sound, RightPlace, Resolve, Goto, TypeOK
<1>2. CASE Create(q)
  BY <1>0, <1>2 DEF Sound, RightPlace, Create, Goto, TypeOK
<1>3. CASE Read(q)
  <2>1. pc'[q] = "delete" /\ base'[q] = links /\ links' = links /\ gone' = gone /\ new' = new
    BY <1>3 DEF Read, Goto, TypeOK
  <2>2. RightPlace(q)' /\ Tracked(q)'
    BY <1>3, <2>1 DEF Read, Sound, RightPlace, Tracked, InReplace, InMerge, Differing
  <2>. QED
    BY <2>1, <2>2 DEF Sound, Removing, Moving, Deduped, InMerge
<1>4. CASE Delete(q)
  <2>1. /\ pc[q] = "delete" /\ pc'[q] = "deleteLock"
        /\ UNCHANGED <<links, req, ids, since, base, join, gone, new>>
        /\ found'[q] = {row \in links : row[1] = req[q].parent /\ row[2] \in Existing(q) \ ids[q]}
    BY <1>4 DEF Delete, Goto, TypeOK
  <2>2. RightPlace(q)' /\ Tracked(q)'
    BY <2>1 DEF Sound, RightPlace, Tracked, InReplace, InMerge, InTransaction, Open
  <2>3. Unwanted(q)' = Unwanted(q)
    BY <2>1 DEF Unwanted, Existing
  <2>4. found'[q] = Unwanted(q) \cap links
    <3>1. \A row \in links : row = <<row[1], row[2]>>
      BY LinkIsPair DEF TypeOK
    <3>. QED
      BY <2>1, <3>1 DEF Unwanted
  <2>. QED
    BY <2>1, <2>2, <2>3, <2>4 DEF Sound, Removing, Moving, Deduped, InMerge
<1>5. CASE DeleteLock(q)
  <2>1. /\ pc[q] = "deleteLock" /\ pc'[q] = "insert"
        /\ UNCHANGED <<links, req, ids, since, base, join, new>>
        /\ gone'[q] = found[q] \cap links
    BY <1>5 DEF DeleteLock, Goto, TypeOK
  <2>2. RightPlace(q)' /\ Tracked(q)'
    BY <2>1 DEF Sound, RightPlace, Tracked, InReplace, InMerge, InTransaction, Open
  <2>3. Unwanted(q)' = Unwanted(q)
    BY <2>1 DEF Unwanted, Existing
  <2>. QED
    BY <2>1, <2>2, <2>3 DEF Sound, Removing, Moving, Deduped, InMerge
<1>6. CASE Insert(q)
  BY <1>6, OutsideSound DEF Insert, Finish, Goto, TypeOK
<1>. QED
  BY <1>1, <1>2, <1>3, <1>4, <1>5, <1>6 DEF Replacing

\* So does a merge, from join table to join table.
LEMMA MergingSound ==
    ASSUME TypeOK, NEW q \in Request, Sound(q), MergingStep(q) \/ DeleteTag(q) \/ Abort(q)
    PROVE  Sound(q)'
<1>. USE DEF tables
<1>1. CASE BeginMerge(q)
  <2>1. CASE req[q].from = req[q].to
    BY <1>1, <2>1, OutsideSound DEF BeginMerge, Goto, TypeOK
  <2>2. CASE req[q].from # req[q].to
    <3>1. /\ pc[q] = "idle" /\ pc'[q] = "dedupe" /\ req[q].op = "merge"
          /\ base'[q] = links
          /\ UNCHANGED <<links, req, ids, since, join, found, gone, new>>
          /\ gone[q] = {} /\ new[q] = {} /\ join[q] = 1
      BY <1>1, <2>2 DEF BeginMerge, Goto, TypeOK, Sound, RightPlace
    <3>2. RightPlace(q)' /\ Tracked(q)'
      BY <2>2, <3>1, JoinsAssumption
      DEF RightPlace, Tracked, Differing, InReplace, InMerge
    <3>. QED
      BY <3>1, <3>2, JoinsAssumption DEF Sound, Removing, Moving, Deduped
  <2>. QED
    BY <2>1, <2>2
<1>2. CASE Dedupe(q)
  <2>1. /\ pc[q] = "dedupe" /\ pc'[q] = "dedupeLock"
        /\ UNCHANGED <<links, req, ids, since, base, join, gone, new>>
        /\ found'[q] = {row \in Rows(q) : Heir(q, row) \in View(q)}
    BY <1>2 DEF Dedupe, Goto, TypeOK, Heir
  <2>2. RightPlace(q)' /\ Tracked(q)'
    BY <2>1 DEF Sound, RightPlace, Tracked, InReplace, InMerge, InTransaction, Open
  <2>3. \A row \in found'[q] : row[2] = req[q].from /\ Carried(q, row)
    BY <2>1 DEF Rows, Carried, View
  <2>4. Moving(q)'
    BY <2>1, <2>3 DEF Sound, Moving, Carried, Heir, InMerge
  <2>5. Deduped(q)'
    <3>1. View(q)' = View(q) /\ Rows(q)' = Rows(q)
      BY <2>1 DEF View, Rows
    <3>. QED
      BY <2>1, <3>1 DEF Deduped, Heir
  <2>. QED
    BY <2>1, <2>2, <2>4, <2>5 DEF Sound, Removing
<1>3. CASE DedupeLock(q)
  <2>1. /\ pc[q] = "dedupeLock" /\ pc'[q] = "rewrite"
        /\ UNCHANGED <<links, req, ids, since, base, join, found, new>>
        /\ gone'[q] = gone[q] \cup (found[q] \cap links)
    BY <1>3 DEF DedupeLock, Goto, TypeOK
  <2>2. RightPlace(q)' /\ Tracked(q)'
    BY <2>1 DEF Sound, RightPlace, Tracked, InReplace, InMerge, InTransaction, Open
  <2>3. Moving(q)'
    BY <2>1 DEF Sound, Moving, Carried, Heir, InMerge
  <2>4. Deduped(q)'
    <3>. SUFFICES ASSUME since[q] = {}, NEW row \in Rows(q)'
                  PROVE  Heir(q, row) \notin View(q)'
      BY <2>1 DEF Deduped, Heir
    <3>1. (row \in Rows(q) /\ row \notin gone'[q]) \/ row \in new[q]
      BY <2>1 DEF Rows, View
    <3>2. row[2] = req[q].from /\ req[q].from # req[q].to
      BY <2>1 DEF Rows, Sound, RightPlace, InMerge
    <3>3. \A old \in new[q] : old[2] = req[q].to
      BY <2>1 DEF Sound, Moving, Heir, InMerge
    <3>4. row \in Rows(q) /\ row \notin found[q]
      BY <2>1, <3>1, <3>2, <3>3 DEF Rows, View
    <3>5. Heir(q, row) \notin View(q)
      BY <2>1, <3>4 DEF Sound, Deduped
    <3>. QED
      BY <2>1, <3>5 DEF View
  <2>. QED
    BY <2>1, <2>2, <2>3, <2>4 DEF Sound, Removing
<1>4. CASE Rewrite(q)
  <2>1. /\ pc[q] = "rewrite" /\ pc'[q] = "rewriteLock"
        /\ UNCHANGED <<links, req, ids, since, base, join, gone, new>>
        /\ found'[q] = Rows(q)
    BY <1>4 DEF Rewrite, Goto, TypeOK
  <2>2. RightPlace(q)' /\ Tracked(q)'
    BY <2>1 DEF Sound, RightPlace, Tracked, InReplace, InMerge, InTransaction, Open
  <2>3. ASSUME NEW row \in base[q], row[1] \in Joins[join[q]], row[2] = req[q].from
        PROVE  row \in found'[q] \cup since[q] \/ Carried(q, row)
    <3>1. CASE row \notin links
      BY <2>1, <3>1 DEF Sound, Tracked, InTransaction, Open, Differing
    <3>2. CASE row \in gone[q]
      BY <2>1, <3>2 DEF Sound, Moving, InMerge
    <3>3. CASE row \in links \ gone[q]
      BY <2>1, <2>3, <3>3 DEF Rows, View
    <3>. QED
      BY <3>1, <3>2, <3>3
  <2>4. \A row \in found'[q] : row[2] = req[q].from
    BY <2>1 DEF Rows
  <2>5. Moving(q)'
    BY <2>1, <2>3, <2>4 DEF Sound, Moving, Carried, Heir, InMerge
  <2>. QED
    BY <2>1, <2>2, <2>5 DEF Sound, Removing, Deduped
<1>5. CASE RewriteLock(q)
  <2>. DEFINE old == found[q] \cap links
              rows == {Heir(q, row) : row \in old}
              next == IF join[q] < Len(Joins) THEN "dedupe" ELSE "drop"
  <2>1. /\ pc[q] = "rewriteLock" /\ pc'[q] = next
        /\ UNCHANGED <<links, req, ids, since, base, found>>
        /\ gone'[q] = gone[q] \cup old
        /\ new'[q] = new[q] \cup rows
        /\ join'[q] = join[q] + 1
    BY <1>5 DEF RewriteLock, Goto, TypeOK, Heir
  <2>2. /\ req[q].op = "merge" /\ req[q].from # req[q].to
        /\ join[q] \in 1..Len(Joins)
    BY <2>1 DEF Sound, RightPlace, InMerge
  <2>3. RightPlace(q)'
    BY <2>1, <2>2, JoinsAssumption DEF RightPlace, InReplace, InMerge
  <2>4. Tracked(q)' /\ Differing(links, base[q]) \subseteq since[q]
    BY <2>1 DEF Sound, Tracked, InTransaction, Open
  <2>5. \A row : Carried(q, row) => Carried(q, row)'
    BY <2>1 DEF Carried, Heir
  <2>6. \A row \in old : row[2] = req[q].from /\ Carried(q, row)' /\ row \in base[q] \cup since[q]
    BY <2>1, <2>4 DEF Sound, Moving, InMerge, Carried, Heir, Differing
  <2>7. \A row \in new'[q] :
           \E x \in base[q] \cup since[q] : x[2] = req[q].from /\ row = Heir(q, x)
    BY <2>1, <2>6 DEF Sound, Moving, InMerge
  <2>8. \A row \in gone'[q] : row[2] = req[q].from /\ Carried(q, row)'
    BY <2>1, <2>5, <2>6 DEF Sound, Moving, InMerge
  <2>9. ASSUME NEW i \in 1..Len(Joins), i < join'[q],
               NEW row \in base[q], row[1] \in Joins[i], row[2] = req[q].from
        PROVE  row \in since[q] \/ Carried(q, row)'
    <3>1. CASE i < join[q]
      BY <2>1, <2>5, <2>9, <3>1 DEF Sound, Moving, InMerge
    <3>2. CASE i = join[q]
      <4>1. row \in found[q] \cup since[q] \/ Carried(q, row)
        BY <2>1, <2>9, <3>2 DEF Sound, Moving, InMerge
      <4>2. CASE row \in found[q]
        BY <2>4, <2>6, <4>2 DEF Differing
      <4>. QED
        BY <2>5, <4>1, <4>2
    <3>. QED
      BY <2>1, <2>2, <2>9, <3>1, <3>2, JoinsAssumption
  <2>. HIDE DEF old, rows
  <2>10. Moving(q)'
    BY <2>1, <2>7, <2>8, <2>9 DEF Moving, Heir
  <2>. QED
    BY <2>1, <2>3, <2>4, <2>10 DEF Sound, Removing, Deduped
<1>6. CASE Drop(q)
  BY <1>6, OutsideSound DEF Drop, Finish, Goto, TypeOK
<1>7. CASE DeleteTag(q)
  BY <1>7, OutsideSound DEF DeleteTag, Finish, Goto, TypeOK
<1>8. CASE Abort(q)
  BY <1>8, OutsideSound DEF Abort, Goto, TypeOK
<1>. QED
  BY <1>1, <1>2, <1>3, <1>4, <1>5, <1>6, <1>7, <1>8 DEF MergingStep

-------------------------------------------------------------------------------
\* In the beginning nobody has looked at anything.
LEMMA InitIInv == Init => IInv
<1>. SUFFICES ASSUME Init PROVE IInv
  OBVIOUS
<1>1. tags \subseteq Tag
  <2>1. \A s \in Slug : <<s, 1>> \in Tag
    BY DEF Tag
  <2>. QED
    BY <2>1 DEF Init
<1>2. links \subseteq Link
  BY <1>1 DEF Init, Link
<1>3. created \in [Slug -> Nat]
  BY DEF Init
<1>4. req \in [Request -> Tagging \cup Merging \cup Deleting]
  BY DemandAssumption DEF Init
<1>5. join \in [Request -> 1..Len(Joins) + 1]
  BY JoinsAssumption DEF Init
<1>6. TypeOK
  BY <1>1, <1>2, <1>3, <1>4, <1>5 DEF Init, TypeOK, NoRows
<1>7. ASSUME NEW q \in Request PROVE Sound(q)
  BY DEF Init, NoRows, Sound, RightPlace, Tracked, Removing, Moving, Deduped, InReplace,
         InMerge, InTransaction, Open
<1>. QED
  BY <1>6, <1>7 DEF IInv

\* The invariant is inductive.
LEMMA NextIInv == IInv /\ [Next]_vars => IInv'
<1>. SUFFICES ASSUME IInv, [Next]_vars PROVE IInv'
  OBVIOUS
<1>1. CASE UNCHANGED vars
  <2>1. TypeOK'
    BY <1>1 DEF IInv, TypeOK, vars, tables, tx
  <2>2. ASSUME NEW q \in Request PROVE Drift(q)
    BY <1>1 DEF Drift, Differing, vars, tables, tx
  <2>. QED
    BY <2>1, <2>2, DriftSound DEF IInv
<1>2. CASE Next
  <2>1. PICK r \in Request : Replacing(r) \/ MergingStep(r) \/ DeleteTag(r) \/ Abort(r)
    BY <1>2 DEF Next
  <2>2. TypeOK /\ Sound(r) /\ RightPlace(r)
    BY DEF IInv, Sound
  <2>3. TypeOK'
    BY <2>1, <2>2, ReplacingType, MergingType
  <2>4. Sound(r)'
    BY <2>1, <2>2, ReplacingSound, MergingSound
  <2>5. ASSUME NEW q \in Request \ {r} PROVE Sound(q)'
    BY <2>1, <2>2, OthersDrift, DriftSound DEF IInv
  <2>. QED
    BY <2>3, <2>4, <2>5 DEF IInv
<1>. QED
  BY <1>1, <1>2

\* The invariant holds in every reachable state.
THEOREM AlwaysIInv == Spec => []IInv
  BY InitIInv, NextIInv, PTL DEF Spec

\* Tables, requests and what transactions have written are of their types.
THEOREM TypeCorrect == Spec => []TypeOK
  BY AlwaysIInv, PTL DEF IInv

\* A merge undisturbed by others never runs into its own duplicates.
THEOREM DedupeIsSufficient == Spec => []DedupeSuffices
<1>1. IInv => DedupeSuffices
  BY DEF IInv, Sound, Deduped, Heir, DedupeSuffices
<1>. QED
  BY <1>1, AlwaysIInv, PTL

\* Only its last statement and COMMIT brings a request to its end from there.
LEMMA OnlyInsertEnds ==
    ASSUME TypeOK, Next, NEW q \in Request, pc[q] = "insert", pc'[q] = "done"
    PROVE  Insert(q)
<1>1. PICK r \in Request : Replacing(r) \/ MergingStep(r) \/ DeleteTag(r) \/ Abort(r)
  BY DEF Next
<1>2. r = q
  BY <1>1, OthersDrift DEF Drift
<1>. QED
  BY <1>1, <1>2 DEF Replacing, MergingStep, Resolve, Create, Read, Delete, DeleteLock,
     BeginMerge, Dedupe, DedupeLock, Rewrite, RewriteLock, Drop, DeleteTag, Abort, Goto, TypeOK

\* Likewise for a merge.
LEMMA OnlyDropEnds ==
    ASSUME TypeOK, Next, NEW q \in Request, pc[q] = "drop", pc'[q] = "done"
    PROVE  Drop(q)
<1>1. PICK r \in Request : Replacing(r) \/ MergingStep(r) \/ DeleteTag(r) \/ Abort(r)
  BY DEF Next
<1>2. r = q
  BY <1>1, OthersDrift DEF Drift
<1>. QED
  BY <1>1, <1>2 DEF Replacing, MergingStep, Resolve, Create, Read, Delete, DeleteLock, Insert,
     BeginMerge, Dedupe, DedupeLock, Rewrite, RewriteLock, DeleteTag, Abort, Goto, TypeOK

\* The tags of a source or recommendation after replaceMembership are those asked
\* for, whatever other requests do, but for the links they changed meanwhile.
THEOREM ReplacementTakesEffect == Spec => ReplaceTakesEffect
<1>1. ASSUME IInv, Next, NEW q \in Request, pc[q] = "insert", pc'[q] = "done"
      PROVE  LET intended == {row \in base[q] : row[1] # req[q].parent}
                               \cup ({req[q].parent} \X ids[q])
             IN  Differing(links', intended) \subseteq since[q]
  <2>. DEFINE p == req[q].parent
              intended == {row \in base[q] : row[1] # p} \cup ({p} \X ids[q])
              rows == {p} \X (ids[q] \ Existing(q))
  <2>1. Insert(q)
    BY <1>1, OnlyInsertEnds DEF IInv
  <2>2. links' = (links \ gone[q]) \cup rows
    BY <1>1, <2>1 DEF Insert, Finish, View, IInv, Sound, RightPlace, InReplace
  <2>3. Differing(links, base[q]) \subseteq since[q]
    BY <1>1 DEF IInv, Sound, Tracked, InTransaction, Open
  <2>4. /\ gone[q] \subseteq Unwanted(q)
        /\ Unwanted(q) \cap links \subseteq gone[q] \cup since[q]
    BY <1>1 DEF IInv, Sound, Removing
  <2>5. \A row \in links \cup base[q] : row = <<row[1], row[2]>>
    BY <1>1, LinkIsPair DEF IInv, TypeOK
  <2>6. \A row \in base[q] : row[1] = p => row[2] \in Existing(q)
    BY DEF Existing
  <2>7. ASSUME NEW row \in links', row \notin intended PROVE row \in since[q]
    <3>1. row \in links \ gone[q]
      BY <2>2, <2>7
    <3>2. CASE row \notin base[q]
      BY <2>3, <3>1, <3>2 DEF Differing
    <3>3. CASE row \in base[q]
      <4>1. row[1] = p /\ row[2] \notin ids[q] /\ row[2] \in Existing(q)
        BY <2>5, <2>6, <2>7, <3>1, <3>3
      <4>2. row \in Unwanted(q)
        BY <2>5, <3>1, <4>1 DEF Unwanted
      <4>. QED
        BY <2>4, <3>1, <4>2
    <3>. QED
      BY <3>2, <3>3
  <2>8. ASSUME NEW row \in intended, row \notin links' PROVE row \in since[q]
    <3>1. CASE row \in base[q] /\ row[1] # p
      <4>1. row \notin gone[q]
        BY <2>4, <3>1 DEF Unwanted
      <4>. QED
        BY <2>2, <2>3, <2>8, <3>1, <4>1 DEF Differing
    <3>2. CASE row \in {p} \X ids[q]
      <4>1. row[1] = p /\ row[2] \in ids[q] /\ row = <<p, row[2]>>
        BY <3>2
      <4>2. row[2] \in Existing(q)
        BY <2>2, <2>8, <4>1
      <4>3. PICK old \in base[q] : old[1] = p /\ old[2] = row[2]
        BY <4>2 DEF Existing
      <4>4. row \in base[q]
        BY <2>5, <4>1, <4>3
      <4>5. row \notin gone[q]
        BY <2>4, <4>1 DEF Unwanted
      <4>. QED
        BY <2>2, <2>3, <2>8, <4>4, <4>5 DEF Differing
    <3>. QED
      BY <2>8, <3>1, <3>2
  <2>. QED
    BY <2>7, <2>8 DEF Differing
<1>2. IInv /\ [Next]_vars =>
        [\A q \in Request :
           pc[q] = "insert" /\ pc'[q] = "done" =>
              LET intended == {row \in base[q] : row[1] # req[q].parent}
                                \cup ({req[q].parent} \X ids[q])
              IN  Differing(links', intended) \subseteq since[q]]_vars
  BY <1>1
<1>. QED
  BY <1>2, AlwaysIInv, PTL DEF Spec, ReplaceTakesEffect

\* After mergeTag the tag is gone and whoever had it has the other one, whatever
\* other requests do, but for the links they changed meanwhile.
THEOREM MergeLosesNoTag == Spec => MergeTakesEffect
<1>1. ASSUME IInv, Next, NEW q \in Request, pc[q] = "drop", pc'[q] = "done"
      PROVE  LET moved(row) == IF row[2] = req[q].from THEN <<row[1], req[q].to>> ELSE row
                 intended == {moved(row) : row \in base[q]}
             IN  /\ Differing(links', intended)
                      \subseteq since[q] \cup {moved(row) : row \in since[q]}
                 /\ req[q].from \notin tags'
  <2>. DEFINE from == req[q].from
              moved(row) == IF row[2] = from THEN Heir(q, row) ELSE row
              intended == {moved(row) : row \in base[q]}
              allowed == since[q] \cup {moved(row) : row \in since[q]}
  <2>1. Drop(q)
    BY <1>1, OnlyDropEnds DEF IInv
  <2>2. links' = {row \in (links \ gone[q]) \cup new[q] : row[2] # from} /\ from \notin tags'
    BY <2>1 DEF Drop, Finish, View
  <2>3. Differing(links, base[q]) \subseteq since[q]
    BY <1>1 DEF IInv, Sound, Tracked, InTransaction, Open
  <2>4. from # req[q].to /\ join[q] = Len(Joins) + 1
    BY <1>1 DEF IInv, Sound, RightPlace, InMerge
  <2>5. Moving(q) /\ pc[q] \in InMerge
    BY <1>1 DEF IInv, Sound, InMerge
  <2>6. ASSUME NEW row \in links', row \notin intended PROVE row \in allowed
    <3>1. CASE row \in new[q]
      <4>1. PICK old \in base[q] \cup since[q] : old[2] = from /\ row = Heir(q, old)
        BY <2>5, <3>1 DEF Moving
      <4>2. row = moved(old)
        BY <4>1
      <4>. QED
        BY <2>6, <4>1, <4>2
    <3>2. CASE row \in links
      <4>1. row[2] # from /\ row = moved(row)
        BY <2>2
      <4>2. row \notin base[q]
        BY <2>6, <4>1
      <4>. QED
        BY <2>3, <3>2, <4>2 DEF Differing
    <3>. QED
      BY <2>2, <3>1, <3>2
  <2>7. ASSUME NEW row \in intended, row \notin links' PROVE row \in allowed
    <3>1. PICK old \in base[q] : row = moved(old)
      BY <2>7
    <3>2. CASE old[2] # from
      <4>1. row = old /\ old \notin gone[q]
        BY <2>5, <3>1, <3>2 DEF Moving
      <4>. QED
        BY <2>2, <2>3, <2>7, <3>2, <4>1 DEF Differing
    <3>3. CASE old[2] = from
      <4>1. PICK i \in DOMAIN Joins : old[1] \in Joins[i]
        BY <1>1, LinkIsPair DEF IInv, TypeOK, Parent
      <4>2. i \in 1..Len(Joins) /\ i < join[q]
        BY <2>4, JoinsAssumption
      <4>3. old \in since[q] \/ Carried(q, old)
        BY <2>5, <3>3, <4>1, <4>2 DEF Moving
      <4>4. row = Heir(q, old) /\ row[2] = req[q].to
        BY <3>1, <3>3 DEF Heir
      <4>5. CASE old \in since[q]
        BY <3>1, <4>5
      <4>6. CASE Carried(q, old)
        <5>1. row \notin gone[q] /\ row[2] # from
          BY <2>4, <2>5, <4>4 DEF Moving
        <5>. QED
          BY <2>2, <2>7, <4>4, <4>6, <5>1 DEF Carried
      <4>. QED
        BY <4>3, <4>5, <4>6
    <3>. QED
      BY <3>2, <3>3
  <2>8. Differing(links', intended) \subseteq allowed
    BY <2>6, <2>7 DEF Differing
  <2>. QED
    BY <2>2, <2>8 DEF Heir
<1>2. IInv /\ [Next]_vars =>
        [\A q \in Request :
           pc[q] = "drop" /\ pc'[q] = "done" =>
              LET moved(row) == IF row[2] = req[q].from THEN <<row[1], req[q].to>> ELSE row
                  intended == {moved(row) : row \in base[q]}
              IN  /\ Differing(links', intended)
                       \subseteq since[q] \cup {moved(row) : row \in since[q]}
                  /\ req[q].from \notin tags']_vars
  BY <1>1
<1>. QED
  BY <1>2, AlwaysIInv, PTL DEF Spec, MergeTakesEffect
===============================================================================
