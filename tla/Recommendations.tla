---------------------------- MODULE Recommendations ----------------------------
(***************************************************************************)
(* The recommendations of the sources: pages that show them with their     *)
(* status (src/lib/repositories/recommendation.ts,                         *)
(* recommendation-status.ts), status changes and progress updates, the     *)
(* save of an edit (app/(app)/recommendations/[id]/actions.ts), the merge  *)
(* of two priority timescales (taxonomy.ts), and re-extractions, which     *)
(* write a source's columns and axes and replace its recommendations while *)
(* all this goes on (lib/jobs/handlers/extract.ts).                        *)
(*                                                                         *)
(* A source has one recommendation at most; a re-extraction deletes it     *)
(* with all that hangs on it and inserts another, or none.                 *)
(***************************************************************************)
EXTENDS SourceAccess

CONSTANTS
    RecStatus,          \* "open" and others
    Slug,               \* the priority timescales' slugs
    FirstScale,         \* the slug of the timescale every recommendation starts with
    RecAxes,            \* in the order the save replaces them
    MaxGenerations      \* bound: extractions of a source

ASSUME StatusAssumption == "open" \in RecStatus
ASSUME ScaleAssumption == FirstScale \in Slug
ASSUME RecAxesAssumption == RecAxes \in Seq(STRING) /\ Len(RecAxes) > 0
ASSUME GenerationsAssumption == MaxGenerations \in Nat \ {0}

Rec == Source \X (1..MaxGenerations)
\* A timescale's id: its slug and the how-many-th row of that slug it is.
Scale == Slug \X Nat
NoScale == <<>>
RecParts == {"columns"} \cup {RecAxes[k] : k \in DOMAIN RecAxes}

VARIABLES
    recs,       \* rows of recommendations
    extracted,  \* how many extractions have replaced a source's recommendations
    content,    \* per recommendation: the request or job that wrote each part last
    scale,      \* recommendations.priority_timescale_id
    scales,     \* rows of priority_timescales
    coined,     \* how many rows each slug has had
    history,    \* recommendation_statuses, oldest first
    updates     \* progress_updates

recVars == <<recs, extracted, content, scale, scales, coined, history, updates>>

RecDemand ==
    [op: {"index"}, user: User]
    \cup [op: {"openRec", "progress"}, user: User, rec: Rec]
    \cup [op: {"status"}, user: User, rec: Rec, status: RecStatus]
    \cup [op: {"saveRec"}, user: User, rec: Rec, slug: Slug \cup {Absent}, tagged: BOOLEAN]
    \cup [op: {"mergeScale"}, user: User, from: Scale, to: Scale]
    \cup [op: {"extract"}, source: Source]

\* done: the axes of the source an extraction has replaced.
NothingGot == [sources |-> {}, recs |-> {}, status |-> <<>>, scale |-> NoScale, done |-> {}]

RecInit ==
    /\ recs = {<<s, 1>> : s \in Source}
    /\ extracted = [s \in Source |-> 1]
    /\ content = [r \in Rec |-> [p \in RecParts |-> 0]]
    /\ coined = [x \in Slug |-> 1]
    /\ scales = {<<x, 1>> : x \in Slug}
    /\ scale = [r \in Rec |-> IF r \in recs THEN <<FirstScale, 1>> ELSE NoScale]
    /\ history = [r \in Rec |-> IF r \in recs THEN <<"open">> ELSE <<>>]
    /\ updates = [r \in Rec |-> 0]
-------------------------------------------------------------------------------
(* What a page shows *)

\* A recommendation without history is open.
StatusOf(r) == IF r \in recs /\ history[r] # <<>> THEN history[r][Len(history[r])] ELSE "open"

Visible(u) == {r \in recs : RecsShown(u, r[1])}

\* getLatestStatuses: only what the viewer may see has a status.
LatestStatuses(u, rows) ==
    [r \in rows |-> IF r \in Visible(u) THEN StatusOf(r) ELSE "open"]

Keep(c, what) == got' = [got EXCEPT ![c] = what]

\* The index: listRecentRecommendations (or a search), then their statuses.
ListRecs(c) ==
    /\ At(c, "index")
    /\ Keep(c, [got[c] EXCEPT !.recs = Visible(Usr(c))])
    /\ Goto(c, "indexStatuses")
    /\ UNCHANGED <<sourceVars, clientVars, axis, recVars>>

ListStatuses(c) ==
    /\ At(c, "indexStatuses")
    /\ Reply(c, "rows")
    /\ Keep(c, [got[c] EXCEPT !.status = LatestStatuses(Usr(c), got[c].recs)])
    /\ UNCHANGED <<sourceVars, clientVars, axis, recVars>>

\* The detail page: eleven reads at once, of which two matter here.
ReadRec(c) ==
    /\ At(c, "openRec") \/ At(c, "openRecStatus")
    /\ Keep(c, [got[c] EXCEPT !.recs = {req[c].rec} \cap Visible(Usr(c))])
    /\ Goto(c, IF At(c, "openRec") THEN "openRecLate" ELSE "openRecRender")
    /\ UNCHANGED <<sourceVars, clientVars, axis, recVars>>

ReadStatus(c) ==
    /\ At(c, "openRec") \/ At(c, "openRecLate")
    /\ Keep(c, [got[c] EXCEPT !.status = LatestStatuses(Usr(c), {req[c].rec})])
    /\ Goto(c, IF At(c, "openRec") THEN "openRecStatus" ELSE "openRecRender")
    /\ UNCHANGED <<sourceVars, clientVars, axis, recVars>>

RenderRec(c) ==
    /\ At(c, "openRecRender")
    /\ Reply(c, IF got[c].recs = {} THEN "notFound" ELSE "rows")
    /\ UNCHANGED <<sourceVars, clientVars, axis, recVars, got>>

-------------------------------------------------------------------------------
(* appendStatus, createProgressUpdate: findRecommendationById, then an INSERT. *)

\* Faulty variant: the recommendation is looked up without the filter.
FindAny(c) ==
    /\ At(c, "status") \/ At(c, "progress")
    /\ IF req[c].rec \in recs THEN Goto(c, "insert")
       ELSE Reply(c, "notFound")
    /\ UNCHANGED <<sourceVars, clientVars, axis, recVars, got>>

Find(c) ==
    /\ At(c, "status") \/ At(c, "progress")
    /\ IF req[c].rec \in Visible(Usr(c)) THEN Goto(c, "insert") ELSE Reply(c, "notFound")
    /\ UNCHANGED <<sourceVars, clientVars, axis, recVars, got>>

\* The foreign key fails if the recommendation has been replaced: the action throws.
InsertStatus(c) ==
    LET r == req[c].rec IN
    /\ At(c, "insert") /\ req[c].op = "status"
    /\ IF r \notin recs THEN Reply(c, "error") /\ UNCHANGED history
       ELSE /\ history' = [history EXCEPT ![r] = Append(@, req[c].status)]
            /\ Reply(c, "ok")
    /\ UNCHANGED <<sourceVars, clientVars, axis, recs, extracted, content, scale, scales,
                   coined, updates, got>>

InsertUpdate(c) ==
    LET r == req[c].rec IN
    /\ At(c, "insert") /\ req[c].op = "progress"
    /\ IF r \notin recs THEN Reply(c, "error") /\ UNCHANGED updates
       ELSE /\ updates' = [updates EXCEPT ![r] = @ + 1]
            /\ Reply(c, "ok")
    /\ UNCHANGED <<sourceVars, clientVars, axis, recs, extracted, content, scale, scales,
                   coined, history, got>>

-------------------------------------------------------------------------------
(* updateRecommendation *)

FindForEdit(c) ==
    /\ At(c, "saveRec")
    /\ IF req[c].rec \notin Visible(Usr(c)) THEN Reply(c, "notFound")
       ELSE Goto(c, IF req[c].slug = Absent THEN "columns" ELSE "resolve")
    /\ UNCHANGED <<sourceVars, clientVars, axis, recVars, got>>

\* The timescale of a slug; one that is missing is created, unverified.
Resolved(c, slug) ==
    LET found == {x \in scales : x[1] = slug} IN
    IF found # {}
    THEN /\ \E x \in found : Keep(c, [got[c] EXCEPT !.scale = x])
         /\ UNCHANGED <<scales, coined>>
    ELSE LET fresh == <<slug, coined[slug] + 1>> IN
         /\ Keep(c, [got[c] EXCEPT !.scale = fresh])
         /\ scales' = scales \cup {fresh}
         /\ coined' = [coined EXCEPT ![slug] = @ + 1]

ResolveScale(c) ==
    /\ At(c, "resolve")
    /\ Resolved(c, req[c].slug)
    /\ Goto(c, "columns")
    /\ UNCHANGED <<sourceVars, clientVars, axis, recs, extracted, content, scale, history, updates>>

\* The UPDATE of the columns: no row, no foreign key to check, and no error.
SaveRecColumns(c) ==
    LET r == req[c].rec
        x == got[c].scale IN
    /\ At(c, "columns")
    /\ IF r \notin recs THEN Goto(c, "recAxes") /\ UNCHANGED <<content, scale>>
       ELSE IF x \notin scales \cup {NoScale} THEN Reply(c, "error") /\ UNCHANGED <<content, scale>>
       ELSE /\ content' = [content EXCEPT ![r]["columns"] = num[c]]
            /\ scale' = [scale EXCEPT ![r] = x]
            /\ Goto(c, "recAxes")
    /\ axis' = [axis EXCEPT ![c] = 1]
    /\ UNCHANGED <<sourceVars, clientVars, recs, extracted, scales, coined, history, updates, got>>

\* An axis: links to a recommendation that is gone fail, their absence does not.
SaveRecAxis(c) ==
    LET r == req[c].rec IN
    /\ At(c, "recAxes")
    /\ IF r \in recs
       THEN content' = [content EXCEPT ![r][RecAxes[axis[c]]] = num[c]]
       ELSE UNCHANGED content
    /\ IF r \notin recs /\ req[c].tagged THEN Reply(c, "error")
       ELSE IF axis[c] = Len(RecAxes) THEN Reply(c, "ok")
       ELSE Goto(c, "recAxes")
    /\ axis' = [axis EXCEPT ![c] = @ + 1]
    /\ UNCHANGED <<sourceVars, clientVars, recs, extracted, scale, scales, coined, history, updates, got>>

SaveRecFails(c) ==
    /\ req[c].op = "saveRec"
    /\ pc[c] \in {"resolve", "columns", "recAxes"}
    /\ Reply(c, "error")
    /\ UNCHANGED <<sourceVars, clientVars, axis, recVars, got>>

-------------------------------------------------------------------------------
(* mergeTag of priority timescales: an UPDATE, then a DELETE of its own. *)

\* Faulty variant: the foreign key is left to ON DELETE SET NULL.
MoveToNowhere(c) ==
    /\ At(c, "mergeScale")
    /\ IF ~IsAdmin(Usr(c)) THEN Reply(c, "unauthorized")
       ELSE IF req[c].from = req[c].to THEN Reply(c, "ok")
       ELSE Goto(c, "dropScale")
    /\ UNCHANGED <<sourceVars, clientVars, axis, recVars, got>>

MoveToScale(c) ==
    LET from == req[c].from
        to == req[c].to
        moved == {r \in recs : scale[r] = from} IN
    /\ At(c, "mergeScale")
    /\ IF ~IsAdmin(Usr(c)) THEN Reply(c, "unauthorized") /\ UNCHANGED scale
       ELSE IF from = to THEN Reply(c, "ok") /\ UNCHANGED scale
       ELSE IF moved # {} /\ to \notin scales THEN Reply(c, "error") /\ UNCHANGED scale
       ELSE /\ scale' = [r \in Rec |-> IF r \in moved THEN to ELSE scale[r]]
            /\ Goto(c, "dropScale")
    /\ UNCHANGED <<sourceVars, clientVars, axis, recs, extracted, content, scales, coined,
                   history, updates, got>>

\* Faulty variant: the recommendations keep the timescale that is gone.
DropScaleOnly(c) ==
    /\ At(c, "dropScale")
    /\ scales' = scales \ {req[c].from}
    /\ Reply(c, "ok")
    /\ UNCHANGED <<sourceVars, clientVars, axis, recs, extracted, content, scale, coined,
                   history, updates, got>>

\* deleteTag: ON DELETE SET NULL.
DropScale(c) ==
    /\ At(c, "dropScale")
    /\ scales' = scales \ {req[c].from}
    /\ scale' = [r \in Rec |-> IF scale[r] = req[c].from THEN NoScale ELSE scale[r]]
    /\ Reply(c, "ok")
    /\ UNCHANGED <<sourceVars, clientVars, axis, recs, extracted, content, coined, history,
                   updates, got>>

-------------------------------------------------------------------------------
(* extractHandler, as far as it is seen here (IngestPipeline has all of it).  The parts *)
(* of the source are written one by one, and not undone when a later statement throws.  *)

ExtractColumns(c) ==
    /\ At(c, "extract")
    /\ fields' = [fields EXCEPT ![Src(c)]["columns"] = num[c]]
    /\ Goto(c, "extractAxes")
    /\ UNCHANGED <<private, owner, accounts, asks, clientVars, axis, recVars, got>>

\* Promise.all: the five axes are replaced in any order.
ExtractAxis(c) ==
    /\ At(c, "extractAxes")
    /\ \E p \in SourceParts \ ({"columns"} \cup got[c].done) :
          /\ fields' = [fields EXCEPT ![Src(c)][p] = num[c]]
          /\ Keep(c, [got[c] EXCEPT !.done = @ \cup {p}])
    /\ UNCHANGED <<private, owner, accounts, asks, clientVars, axis, pc, answer, recVars>>

\* The timescale of the recommendation, if the model has named one.
ExtractScale(c) ==
    /\ At(c, "extractAxes")
    /\ got[c].done = SourceParts \ {"columns"}
    /\ \/ \E slug \in Slug : Resolved(c, slug)
       \/ UNCHANGED <<scales, coined, got>>
    /\ Goto(c, "extractRecs")
    /\ UNCHANGED <<sourceVars, clientVars, axis, recs, extracted, content, scale, history, updates>>

\* The transaction: the recommendation goes with all that hangs on it, and another, open,
\* takes its place, or none; the foreign key fails if the timescale has gone meanwhile.
ExtractRecs(c) ==
    LET src == Src(c)
        x == got[c].scale
        fresh == <<src, extracted[src] + 1>> IN
    /\ At(c, "extractRecs")
    /\ x \in scales \cup {NoScale}
    /\ extracted[src] < MaxGenerations
    /\ \E found \in BOOLEAN :
          LET Replace(f, new, none) ==
                  [r \in Rec |-> IF r[1] # src THEN f[r]
                                 ELSE IF found /\ r = fresh THEN new ELSE none] IN
          /\ recs' = {r \in recs : r[1] # src} \cup (IF found THEN {fresh} ELSE {})
          /\ scale' = Replace(scale, x, NoScale)
          /\ content' = Replace(content, [p \in RecParts |-> num[c]], [p \in RecParts |-> 0])
          /\ history' = Replace(history, <<"open">>, <<>>)
          /\ updates' = Replace(updates, 0, 0)
    /\ extracted' = [extracted EXCEPT ![src] = @ + 1]
    /\ Reply(c, "ok")
    /\ UNCHANGED <<sourceVars, clientVars, axis, scales, coined, got>>

\* A statement throws, the transaction's or one of those before; the axes that were being
\* replaced at the same time may be replaced still before this is over.
ExtractFails(c) ==
    /\ At(c, "extract") \/ At(c, "extractAxes") \/ At(c, "extractRecs")
    /\ Reply(c, "error")
    /\ UNCHANGED <<sourceVars, clientVars, axis, recVars, got>>

RecStep(c) ==
    \/ ListRecs(c) \/ ListStatuses(c) \/ ReadRec(c) \/ ReadStatus(c) \/ RenderRec(c)
    \/ Find(c) \/ InsertStatus(c) \/ InsertUpdate(c)
    \/ FindForEdit(c) \/ ResolveScale(c) \/ SaveRecColumns(c) \/ SaveRecAxis(c) \/ SaveRecFails(c)
    \/ MoveToScale(c) \/ DropScale(c)
    \/ ExtractColumns(c) \/ ExtractAxis(c) \/ ExtractScale(c) \/ ExtractRecs(c) \/ ExtractFails(c)
===============================================================================
