----------------------------- MODULE TaxonomyTags -----------------------------
(***************************************************************************)
(* The tags of one taxonomy axis and who carries them: tags are resolved   *)
(* or created and put on a source or recommendation (resolveOrCreateAxis   *)
(* in src/lib/repositories/taxonomy.ts, replaceMembership in               *)
(* source-tags.ts and recommendation-tags.ts), and an admin merges or      *)
(* deletes tags (mergeTag, deleteTag), as requests served at once run      *)
(* them.  Names, colours and the unverified flag are left out.             *)
(*                                                                         *)
(* Transactions are READ COMMITTED: a statement sees what was committed    *)
(* when it began and what its own transaction wrote.  A DELETE or UPDATE   *)
(* first finds its rows and then locks them, waiting for a transaction     *)
(* that holds one; a row gone by then is skipped.  A key another           *)
(* transaction is inserting or deleting is waited for.  A tag is deleted   *)
(* together with the links to it (ON DELETE CASCADE), after every          *)
(* transaction that wrote such a link is over.                             *)
(*                                                                         *)
(* The last statement of a transaction and its COMMIT are one step: the    *)
(* locks taken by the one are held until the other.                        *)
(***************************************************************************)
EXTENDS Naturals, Sequences

CONSTANTS
    Slug,
    Joins,          \* the axis's join tables in merge order, each the set of its parents
    Request,        \* requests and handlers, each served once
    Demand          \* what they may ask for

Parent == UNION {Joins[k] : k \in DOMAIN Joins}

\* A tag's id: its slug and the how-many-th tag of that slug it is.
Tag == Slug \X (Nat \ {0})
Link == Parent \X Tag

Tagging == [op: {"tag"}, parent: Parent, slugs: SUBSET Slug]
Merging == [op: {"merge"}, from: Tag, to: Tag]
Deleting == [op: {"delete"}, from: Tag]

ASSUME JoinsAssumption == Joins \in Seq(SUBSET Parent) /\ Len(Joins) > 0
ASSUME DemandAssumption == Demand \subseteq Tagging \cup Merging \cup Deleting

VARIABLES
    tags,           \* rows of the axis table
    created,        \* how many tags each slug has had
    links,          \* committed rows of the join tables: <<parent, tag>>
    req,            \* what each request asks for
    pc,             \* where it stands
    ids,            \* the tags its slugs were resolved to
    base,           \* the links when its transaction first looked
    since,          \* links others have added or removed after that
    join,           \* the join table a merge is at
    found,          \* rows its DELETE or UPDATE has found
    gone, new       \* rows its open transaction has deleted and inserted

tables == <<tags, created, links>>
tx == <<base, join, found, gone, new>>
vars == <<tables, req, pc, ids, since, tx>>

Open == {"delete", "deleteLock", "insert", "dedupe", "dedupeLock", "rewrite",
         "rewriteLock", "drop"}

InTransaction(q) == pc[q] \in Open

TypeOK ==
    /\ tags \subseteq Tag
    /\ created \in [Slug -> Nat]
    /\ links \subseteq Link
    /\ req \in [Request -> Tagging \cup Merging \cup Deleting]
    /\ pc \in [Request -> Open \cup {"idle", "create", "read", "done", "failed"}]
    /\ ids \in [Request -> SUBSET Tag]
    /\ join \in [Request -> 1..Len(Joins) + 1]
    /\ base \in [Request -> SUBSET Link]
    /\ since \in [Request -> SUBSET Link]
    /\ found \in [Request -> SUBSET Link]
    /\ gone \in [Request -> SUBSET Link]
    /\ new \in [Request -> SUBSET Link]

NoRows == [q \in Request |-> {}]

Init ==
    /\ created \in [Slug -> {0, 1}]
    /\ tags = {<<s, 1>> : s \in {x \in Slug : created[x] = 1}}
    /\ links \in SUBSET (Parent \X tags)
    /\ req \in [Request -> Demand]
    /\ pc = [q \in Request |-> "idle"]
    /\ ids = NoRows /\ base = NoRows /\ since = NoRows
    /\ join = [q \in Request |-> 1]
    /\ found = NoRows /\ gone = NoRows /\ new = NoRows
-------------------------------------------------------------------------------
Goto(q, place) == pc' = [pc EXCEPT ![q] = place]

\* What a statement of q sees of the join tables.
View(q) == (links \ gone[q]) \cup new[q]

\* Nobody else's open transaction has written one of these rows.
Unlocked(q, rows) == \A r \in Request \ {q} : rows \cap (gone[r] \cup new[r]) = {}

\* Nobody else's open transaction has written a link to the tag.
Unreferenced(q, tag) ==
    \A r \in Request \ {q} : \A row \in gone[r] \cup new[r] : row[2] # tag

\* The transaction of q ends and the join tables are now as given.
Finish(q, now) ==
    /\ links' = now
    /\ since' = [r \in Request |->
                    IF r # q /\ InTransaction(r)
                    THEN since[r] \cup (links \ now) \cup (now \ links) ELSE since[r]]
    /\ gone' = [gone EXCEPT ![q] = {}]
    /\ new' = [new EXCEPT ![q] = {}]
    /\ found' = [found EXCEPT ![q] = {}]
    /\ Goto(q, "done")

\* A constraint is violated, a deadlock is broken or the connection is lost: the
\* transaction is rolled back.
Abort(q) ==
    /\ InTransaction(q) \/ pc[q] \in {"create", "read"}
    /\ gone' = [gone EXCEPT ![q] = {}]
    /\ new' = [new EXCEPT ![q] = {}]
    /\ found' = [found EXCEPT ![q] = {}]
    /\ Goto(q, "failed")
    /\ UNCHANGED <<tables, req, ids, since, base, join>>

-------------------------------------------------------------------------------
(* Tagging: resolve or create the tags, then replace the parent's. *)

\* Faulty variant: a slug that has no tag is taken for one.
ResolveUnchecked(q) ==
    /\ pc[q] = "idle" /\ req[q].op = "tag"
    /\ ids' = [ids EXCEPT ![q] = {<<s, created[s]>> : s \in req[q].slugs}]
    /\ Goto(q, "read")
    /\ UNCHANGED <<tables, req, since, tx>>

\* resolveOrCreateAxis: the tags that exist are looked up.
Resolve(q) ==
    LET known == {t \in tags : t[1] \in req[q].slugs} IN
    /\ pc[q] = "idle" /\ req[q].op = "tag"
    /\ ids' = [ids EXCEPT ![q] = known]
    /\ Goto(q, IF \A s \in req[q].slugs : \E t \in known : t[1] = s THEN "read" ELSE "create")
    /\ UNCHANGED <<tables, req, since, tx>>

\* The missing ones are inserted, if nobody has inserted one of them since.
Create(q) ==
    LET missing == {s \in req[q].slugs : \A t \in ids[q] : t[1] # s}
        fresh == {<<s, created[s] + 1>> : s \in missing} IN
    /\ pc[q] = "create"
    /\ \A t \in tags : t[1] \notin missing
    /\ tags' = tags \cup fresh
    /\ created' = [s \in Slug |-> IF s \in missing THEN created[s] + 1 ELSE created[s]]
    /\ ids' = [ids EXCEPT ![q] = @ \cup fresh]
    /\ Goto(q, "read")
    /\ UNCHANGED <<links, req, since, tx>>

\* replaceMembership: the parent's present tags are read.
Read(q) ==
    /\ pc[q] = "read"
    /\ base' = [base EXCEPT ![q] = links]
    /\ Goto(q, "delete")
    /\ UNCHANGED <<tables, req, ids, since, join, found, gone, new>>

Existing(q) == {row[2] : row \in {l \in base[q] : l[1] = req[q].parent}}

\* Faulty variant: tags are added and none is taken away.
DeleteNone(q) ==
    /\ pc[q] = "delete"
    /\ found' = [found EXCEPT ![q] = {}]
    /\ Goto(q, "deleteLock")
    /\ UNCHANGED <<tables, req, ids, since, base, join, gone, new>>

\* DELETE of the links that are not desired any more, if there are any.
Delete(q) ==
    LET toRemove == Existing(q) \ ids[q] IN
    /\ pc[q] = "delete"
    /\ found' = [found EXCEPT ![q] = {row \in links : row[1] = req[q].parent /\ row[2] \in toRemove}]
    /\ Goto(q, "deleteLock")
    /\ UNCHANGED <<tables, req, ids, since, base, join, gone, new>>

DeleteLock(q) ==
    /\ pc[q] = "deleteLock"
    /\ Unlocked(q, found[q])
    /\ gone' = [gone EXCEPT ![q] = found[q] \cap links]
    /\ Goto(q, "insert")
    /\ UNCHANGED <<tables, req, ids, since, base, join, found, new>>

\* INSERT of the new links and COMMIT, unless a link exists or a tag does not.
Insert(q) ==
    LET toAdd == ids[q] \ Existing(q)
        rows == {req[q].parent} \X toAdd IN
    /\ pc[q] = "insert"
    /\ Unlocked(q, rows)
    /\ rows \cap links = {} /\ toAdd \subseteq tags
    /\ Finish(q, View(q) \cup rows)
    /\ UNCHANGED <<tags, created, req, ids, base, join>>

-------------------------------------------------------------------------------
(* Merging and deleting a tag. *)

\* mergeTag: a tag merged into itself is left alone.
BeginMerge(q) ==
    /\ pc[q] = "idle" /\ req[q].op = "merge"
    /\ Goto(q, IF req[q].from = req[q].to THEN "done" ELSE "dedupe")
    /\ base' = [base EXCEPT ![q] = links]
    /\ UNCHANGED <<tables, req, ids, since, join, found, gone, new>>

\* The rows of the present join table that link to the tag merged away.
Rows(q) == {row \in View(q) : row[1] \in Joins[join[q]] /\ row[2] = req[q].from}

\* Faulty variant: the test for a duplicate is missing.
DedupeAll(q) ==
    /\ pc[q] = "dedupe"
    /\ found' = [found EXCEPT ![q] = Rows(q)]
    /\ Goto(q, "dedupeLock")
    /\ UNCHANGED <<tables, req, ids, since, base, join, gone, new>>

\* Faulty variant: no duplicate is found.
DedupeNone(q) ==
    /\ pc[q] = "dedupe"
    /\ found' = [found EXCEPT ![q] = {}]
    /\ Goto(q, "dedupeLock")
    /\ UNCHANGED <<tables, req, ids, since, base, join, gone, new>>

\* DELETE of links whose parent carries the other tag already.
Dedupe(q) ==
    /\ pc[q] = "dedupe"
    /\ found' = [found EXCEPT ![q] = {row \in Rows(q) : <<row[1], req[q].to>> \in View(q)}]
    /\ Goto(q, "dedupeLock")
    /\ UNCHANGED <<tables, req, ids, since, base, join, gone, new>>

DedupeLock(q) ==
    /\ pc[q] = "dedupeLock"
    /\ Unlocked(q, found[q])
    /\ gone' = [gone EXCEPT ![q] = @ \cup (found[q] \cap links)]
    /\ Goto(q, "rewrite")
    /\ UNCHANGED <<tables, req, ids, since, base, join, found, new>>

\* UPDATE of the remaining links.
Rewrite(q) ==
    /\ pc[q] = "rewrite"
    /\ found' = [found EXCEPT ![q] = Rows(q)]
    /\ Goto(q, "rewriteLock")
    /\ UNCHANGED <<tables, req, ids, since, base, join, gone, new>>

\* They are rewritten, unless a link exists or the other tag does not.
RewriteLock(q) ==
    LET old == found[q] \cap links
        rows == {<<row[1], req[q].to>> : row \in old} IN
    /\ pc[q] = "rewriteLock"
    /\ Unlocked(q, found[q] \cup rows)
    /\ rows \cap links = {} /\ (rows # {} => req[q].to \in tags)
    /\ gone' = [gone EXCEPT ![q] = @ \cup old]
    /\ new' = [new EXCEPT ![q] = @ \cup rows]
    /\ join' = [join EXCEPT ![q] = @ + 1]
    /\ Goto(q, IF join[q] < Len(Joins) THEN "dedupe" ELSE "drop")
    /\ UNCHANGED <<tables, req, ids, since, base, found>>

\* DELETE of the tag, with every link to it there is by now, and COMMIT.
Drop(q) ==
    /\ pc[q] = "drop"
    /\ Unreferenced(q, req[q].from)
    /\ tags' = tags \ {req[q].from}
    /\ Finish(q, {row \in View(q) : row[2] # req[q].from})
    /\ UNCHANGED <<created, req, ids, base, join>>

\* deleteTag.
DeleteTag(q) ==
    /\ pc[q] = "idle" /\ req[q].op = "delete"
    /\ Unreferenced(q, req[q].from)
    /\ tags' = tags \ {req[q].from}
    /\ Finish(q, {row \in links : row[2] # req[q].from})
    /\ UNCHANGED <<created, req, ids, base, join>>

Replacing(q) == Resolve(q) \/ Create(q) \/ Read(q) \/ Delete(q) \/ DeleteLock(q) \/ Insert(q)

MergingStep(q) ==
    BeginMerge(q) \/ Dedupe(q) \/ DedupeLock(q) \/ Rewrite(q) \/ RewriteLock(q) \/ Drop(q)

Next == \E q \in Request : Replacing(q) \/ MergingStep(q) \/ DeleteTag(q) \/ Abort(q)

Spec == Init /\ [][Next]_vars
-------------------------------------------------------------------------------
\* The two sets of links differ in these rows.
Differing(x, y) == (x \ y) \cup (y \ x)

\* A replacement that commits gives its parent exactly the tags asked for and
\* touches no other parent; only what others changed after it had read the
\* parent's tags shows through, however the two interleave.
ReplaceTakesEffect ==
    [][\A q \in Request :
         pc[q] = "insert" /\ pc'[q] = "done" =>
            LET intended == {row \in base[q] : row[1] # req[q].parent}
                              \cup ({req[q].parent} \X ids[q])
            IN  Differing(links', intended) \subseteq since[q]]_vars

\* "Rewrites every M2M row that points at fromId to point at toId": whoever had
\* the tag merged away carries the other one once the merge commits, and nothing
\* else has changed, but for the links others changed during the merge.
MergeTakesEffect ==
    [][\A q \in Request :
         pc[q] = "drop" /\ pc'[q] = "done" =>
            LET moved(row) == IF row[2] = req[q].from THEN <<row[1], req[q].to>> ELSE row
                intended == {moved(row) : row \in base[q]}
            IN  /\ Differing(links', intended)
                     \subseteq since[q] \cup {moved(row) : row \in since[q]}
                /\ req[q].from \notin tags']_vars

\* "Those would become primary-key duplicates after the UPDATE": a merge during
\* which nobody else changed a link does not fail on a duplicate key.
DedupeSuffices ==
    \A q \in Request :
        pc[q] = "rewrite" /\ since[q] = {} =>
            \A row \in Rows(q) : <<row[1], req[q].to>> \notin View(q)
===============================================================================
