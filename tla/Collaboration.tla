----------------------------- MODULE Collaboration -----------------------------
(***************************************************************************)
(* The requests of SourceAccess and Recommendations served at once over    *)
(* one database, with the worker re-extracting and accounts being closed.  *)
(***************************************************************************)
EXTENDS Recommendations

VARIABLE given  \* since it moved the others, a recommendation got the timescale it merges

vars == <<sourceVars, recVars, clientVars, axis, pc, answer, got, seen, given>>

Demand == SourceDemand \cup RecDemand
Event == [op: {"close"}, user: User]

ASSUME MixesAssumption == Mixes \subseteq SUBSET (Demand \cup Event)

Place == {"idle", "answered", "load", "describeGrants", "loadGrants", "findFile", "fileGrants",
          "editGrants", "approveFound", "sourceAxes", "indexStatuses", "openRecStatus",
          "openRecLate", "openRecRender", "insert", "resolve", "columns", "recAxes", "dropScale",
          "extractAxes", "extractRecs"}
         \cup {"open", "file", "edit", "ask", "list", "approve", "reject", "withdraw", "saveSource",
               "index", "openRec", "status", "progress", "saveRec", "mergeScale",
               "extract"}

Nothing == [op |-> "nothing"]

Active(c) == pc[c] \notin {"idle", "answered"}

\* How things stand for the request of c, as far as its answer speaks of it.
Sight(c) ==
    CASE req[c].op \in {"open", "file", "edit"} ->
            [readable |-> CanRead(Usr(c), Src(c)), pending |-> Pending(Usr(c), Src(c)) # {}]
      [] req[c].op \in {"index", "openRec", "status", "progress"} ->
            [shown |-> Visible(Usr(c)), status |-> [r \in Rec |-> StatusOf(r)]]
      [] OTHER -> <<>>

TypeOK ==
    /\ private \in [Source -> BOOLEAN]
    /\ owner \in [Source -> accounts \cup {Nobody}]
    /\ accounts \subseteq SignedIn
    /\ asks \in Seq(Ask) /\ Len(asks) <= MaxAsks
    /\ fields \in [Source -> [SourceParts -> 0..served]]
    /\ mix \in Mixes /\ served \in 0..MaxServed
    /\ req \in [Client -> mix \cup {Nothing}] /\ num \in [Client -> 0..served]
    /\ pc \in [Client -> Place]
    /\ alone \in [Client -> BOOLEAN] /\ given \in [Client -> BOOLEAN]
    /\ recs \subseteq {<<s, extracted[s]>> : s \in Source}
    /\ content \in [Rec -> [RecParts -> 0..served]]
    /\ \A x \in scales : x \in Scale /\ x[2] \in 1..coined[x[1]]
    /\ \A r \in Rec : /\ scale[r] \in scales \cup {NoScale}
                      /\ history[r] \in Seq(RecStatus) /\ updates[r] \in Nat
                      /\ r \notin recs => history[r] = <<>> /\ updates[r] = 0

Init ==
    /\ SourceInit /\ RecInit
    /\ served = 0
    /\ mix \in Mixes
    /\ req = [c \in Client |-> Nothing]
    /\ num = [c \in Client |-> 0]
    /\ pc = [c \in Client |-> "idle"]
    /\ axis = [c \in Client |-> 1]
    /\ alone = [c \in Client |-> TRUE]
    /\ answer = [c \in Client |-> "none"]
    /\ got = [c \in Client |-> NothingGot]
    /\ seen = [c \in Client |-> {}]
    /\ given = [c \in Client |-> FALSE]

\* Both write the same thing.
Conflict(d, e) ==
    \/ /\ d.op \in {"saveSource", "extract"} /\ e.op \in {"saveSource", "extract"}
       /\ d.source = e.source
    \/ d.op = "saveRec" /\ e.op = "saveRec" /\ d.rec = e.rec

\* A request comes in, or the worker takes up a job.
Begin(c, d) ==
    LET others == {b \in Client \ {c} : Active(b) /\ Conflict(req[b], d)} IN
    /\ ~Active(c)
    /\ served < MaxServed
    /\ served' = served + 1
    /\ num' = [num EXCEPT ![c] = served + 1]
    /\ req' = [req EXCEPT ![c] = d]
    /\ pc' = [pc EXCEPT ![c] = d.op]
    /\ answer' = [answer EXCEPT ![c] = "none"]
    /\ got' = [got EXCEPT ![c] = NothingGot]
    /\ alone' = [b \in Client |-> IF b = c THEN others = {} ELSE alone[b] /\ b \notin others]
    /\ UNCHANGED <<mix, sourceVars, recVars, axis>>

\* Whatever happens, who is being served remembers how things stood, and a merge between
\* its UPDATE and its DELETE whether a recommendation got the timescale meanwhile.
Observe ==
    /\ seen' = [c \in Client |-> IF ~Active(c)' THEN seen[c]
                                 ELSE IF ~Active(c) THEN {Sight(c)'}
                                 ELSE seen[c] \cup {Sight(c)'}]
    /\ given' = [c \in Client |->
                    /\ At(c, "dropScale") /\ At(c, "dropScale")'
                    /\ \/ given[c]
                       \/ \E r \in Rec : scale[r] # req[c].from /\ scale'[r] = req[c].from]

Next ==
    \/ \E c \in Client, d \in mix \cap Demand : Begin(c, d) /\ Observe
    \/ \E c \in Client : SourceStep(c) /\ UNCHANGED recVars /\ Observe
    \/ \E c \in Client : RecStep(c) /\ Observe
    \/ \E u \in User : CloseAccount(u) /\ UNCHANGED recVars /\ Observe

Spec == Init /\ [][Next]_vars
-------------------------------------------------------------------------------
\* "One pending request per (source, requester) pair", and what has been answered
\* stays answered: only a pending row changes, and a grant is for ever.
OnePendingPerRequester ==
    \A i, j \in DOMAIN asks :
        /\ asks[i].status = "pending" /\ asks[j].status = "pending"
        /\ asks[i].by = asks[j].by /\ asks[i].source = asks[j].source
        => i = j

ResolvedForGood ==
    [][\A i \in DOMAIN asks : asks[i].status # "pending" => asks'[i] = asks[i]]_vars

\* No answer is built from two moments into something that never was: a source
\* page, form or file was readable (and its refusal right, its pending request
\* pending), a recommendation visible, a status current at some moment of the request
\* -- but for a status read while the recommendation was hidden.
AnswersWereTrue ==
    \A c \in Client :
        LET d == req[c]
            w == seen[c] IN
        pc[c] = "answered" =>
            /\ d.op = "open" =>
                /\ \E x \in w : x.readable <=> answer[c] = "pages"
                /\ answer[c] = "formPending" => \E x \in w : x.pending
                /\ answer[c] = "form" => \E x \in w : ~x.pending
            /\ d.op \in {"file", "edit"} /\ answer[c] \in {"file", "editForm", "notFound"} =>
                \E x \in w : x.readable <=> answer[c] # "notFound"
            /\ d.op \in {"status", "progress"} /\ answer[c] \in {"ok", "notFound"} =>
                \E x \in w : d.rec \in x.shown <=> answer[c] = "ok"
            /\ d.op \in {"index", "openRec"} /\ answer[c] = "rows" =>
                \A r \in got[c].recs :
                    /\ \E x \in w : r \in x.shown
                    /\ \E x \in w : r \notin x.shown \/ x.status[r] = got[c].status[r]

\* A save that is answered "ok", and while which no other save of the same thing and no
\* extraction of the source was under way, has written the columns and every axis (of a
\* recommendation still there).  What was under way at the same time is excepted, as
\* nothing is locked: a save and an extraction may each overwrite parts of the other's.
SaveIsWhole ==
    \A c \in Client :
        pc[c] = "answered" /\ answer[c] = "ok" /\ alone[c] =>
            /\ req[c].op = "saveSource" =>
                 \A p \in SourceParts : fields[req[c].source][p] >= num[c]
            /\ req[c].op = "saveRec" /\ req[c].rec \in recs =>
                 \A p \in RecParts : content[req[c].rec][p] >= num[c]

\* The DELETE that ends the merge of a timescale takes it from no recommendation, unless
\* one was given it since the UPDATE: by a save or an extraction that had resolved its
\* slug, or by another merge, into the timescale that is merged here.
MergeKeepsScales ==
    [][\A c \in Client :
         At(c, "dropScale") /\ pc'[c] = "answered" /\ ~given[c] => scale' = scale]_vars
===============================================================================
