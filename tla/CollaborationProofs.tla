-------------------------- MODULE CollaborationProofs --------------------------
(***************************************************************************)
(* Proofs about requests served at once, statement by statement: any       *)
(* number of clients, users, sources and axes, any demands, and no bound   *)
(* on the requests but that they are finitely many.                        *)
(***************************************************************************)
EXTENDS Collaboration, TLAPS

SourceOps == {"open", "file", "edit", "list", "ask", "approve", "reject", "withdraw", "saveSource"}
RecOps == {"index", "openRec", "progress", "status", "saveRec", "mergeScale", "extract"}

\* What a demand is made of.
LEMMA DemandFields ==
    ASSUME NEW d \in Demand
    PROVE  /\ d.op \in SourceOps \cup RecOps
           /\ d.op # "extract" => d.user \in User
           /\ d.op \in {"open", "file", "edit", "ask", "saveSource", "extract"} => d.source \in Source
           /\ d.op \in {"approve", "reject", "withdraw"} => d.id \in 1..MaxAsks
           /\ d.op = "saveSource" => d.privacy \in {"private", "public", Absent}
           /\ d.op \in {"openRec", "progress", "status", "saveRec"} => d.rec \in Rec
           /\ d.op = "status" => d.status \in RecStatus
           /\ d.op = "saveRec" => d.slug \in Slug \cup {Absent}
           /\ d.op = "mergeScale" => d.from \in Scale /\ d.to \in Scale
<1>1. CASE d \in SourceDemand
  BY <1>1 DEF SourceDemand, SourceOps
<1>2. CASE d \in RecDemand
  BY <1>2 DEF RecDemand, RecOps
<1>. QED
  BY <1>1, <1>2 DEF Demand

\* Which request a place belongs to.
OpAt(place) ==
    CASE place \in {"describeGrants", "load", "loadGrants"} -> {"open"}
      [] place \in {"findFile", "fileGrants"} -> {"file"}
      [] place = "editGrants" -> {"edit"}
      [] place = "approveFound" -> {"approve"}
      [] place = "sourceAxes" -> {"saveSource"}
      [] place = "indexStatuses" -> {"index"}
      [] place \in {"openRecStatus", "openRecLate", "openRecRender"} -> {"openRec"}
      [] place = "insert" -> {"status", "progress"}
      [] place \in {"resolve", "columns", "recAxes"} -> {"saveRec"}
      [] place = "dropScale" -> {"mergeScale"}
      [] place \in {"extractAxes", "extractRecs"} -> {"extract"}
      [] place = "answered" -> SourceOps \cup RecOps
      [] OTHER -> {place}

\* A client that is or has been served has a demand, and stands at a place of it.
ClientShape ==
    /\ pc \in [Client -> Place]
    /\ served \in Nat
    /\ num \in [Client -> 0..served]
    /\ alone \in [Client -> BOOLEAN]
    /\ DOMAIN req = Client /\ DOMAIN axis = Client /\ DOMAIN answer = Client /\ DOMAIN got = Client
    /\ DOMAIN seen = Client /\ given \in [Client -> BOOLEAN]
    /\ \A c \in Client : pc[c] # "idle" => req[c] \in Demand /\ req[c].op \in OpAt(pc[c])

\* The client does nothing in a step, but may be overlapped by a request that begins.
Rests(c) ==
    /\ pc'[c] = pc[c] /\ answer'[c] = answer[c] /\ got'[c] = got[c] /\ axis'[c] = axis[c]
    /\ req'[c] = req[c] /\ num'[c] = num[c]
    /\ alone'[c] => alone[c]

Moves(c) == (\E d \in Demand : Begin(c, d)) \/ (SourceStep(c) /\ UNCHANGED recVars) \/ RecStep(c)

\* What else may happen.
Happens == \E u \in User : CloseAccount(u) /\ UNCHANGED recVars

LEMMA NextCases ==
    ASSUME Next
    PROVE  Observe /\ (Happens \/ \E c \in Client : Moves(c))
  BY DEF Next, Happens, Moves

\* A step of one client's request: nothing of another client's changes.
Turn(c) ==
    /\ UNCHANGED clientVars
    /\ pc[c] # "idle" /\ req[c] \in Demand
    /\ pc'[c] \in Place \ {"idle"} /\ req[c].op \in OpAt(pc'[c])
    /\ pc' = [pc EXCEPT ![c] = pc'[c]]
    /\ DOMAIN axis' = Client /\ DOMAIN answer' = Client /\ DOMAIN got' = Client
    /\ \A b \in Client \ {c} : /\ answer'[b] = answer[b] /\ axis'[b] = axis[b]
                               /\ got'[b] = got[b]

LEMMA GotoTurn ==
    ASSUME ClientShape, NEW c \in Client, NEW from \in Place \ {"idle"}, NEW to \in Place \ {"idle"},
           At(c, from), Goto(c, to), req[c].op \in OpAt(to),
           UNCHANGED clientVars,
           axis' = axis \/ (\E k : axis' = [axis EXCEPT ![c] = k]),
           got' = got \/ (\E g : got' = [got EXCEPT ![c] = g])
    PROVE  Turn(c)
<1>1. req[c] \in Demand /\ pc[c] # "idle"
  BY DEF ClientShape, At
<1>2. pc' = [pc EXCEPT ![c] = to] /\ answer' = answer
  BY DEF Goto
<1>. QED
  BY <1>1, <1>2 DEF ClientShape, Turn

LEMMA ReplyTurn ==
    ASSUME ClientShape, NEW c \in Client, pc[c] # "idle", NEW text, Reply(c, text),
           UNCHANGED clientVars,
           axis' = axis \/ (\E k : axis' = [axis EXCEPT ![c] = k]),
           got' = got \/ (\E g : got' = [got EXCEPT ![c] = g])
    PROVE  Turn(c)
<1>1. req[c] \in Demand
  BY DEF ClientShape
<1>2. /\ pc' = [pc EXCEPT ![c] = "answered"]
      /\ answer' = [answer EXCEPT ![c] = text]
  BY DEF Reply
<1>3. req[c].op \in OpAt("answered") /\ "answered" \in Place \ {"idle"}
  BY <1>1, DemandFields DEF OpAt, Place
<1>. QED
  BY <1>1, <1>2, <1>3 DEF ClientShape, Turn

LEMMA SourceTurn ==
    ASSUME ClientShape, NEW c \in Client, SourceStep(c)
    PROVE  Turn(c)
<1>1. CASE Describe(c) \/ DescribeGrants(c) \/ Load(c) \/ LoadGrants(c)
  BY <1>1, GotoTurn, ReplyTurn DEF Describe, DescribeGrants, Load, LoadGrants, At, ClientShape, OpAt, Place
<1>2. CASE FollowLink(c) \/ FindFile(c) \/ FileGrants(c)
  BY <1>2, GotoTurn, ReplyTurn DEF FollowLink, FindFile, FileGrants, Serve, At, ClientShape, OpAt, Place
<1>3. CASE EditForm(c) \/ EditGrants(c) \/ ListSources(c)
  BY <1>3, GotoTurn, ReplyTurn DEF EditForm, EditGrants, ListSources, At, ClientShape, OpAt, Place
<1>4. CASE AskForAccess(c) \/ FindPending(c) \/ Approve(c)
  BY <1>4, GotoTurn, ReplyTurn DEF AskForAccess, FindPending, Approve, At, ClientShape, OpAt, Place
<1>5. CASE Reject(c) \/ Withdraw(c)
  BY <1>5, ReplyTurn DEF Reject, Withdraw, At
<1>6. CASE SaveSourceColumns(c) \/ SaveSourceAxis(c)
  BY <1>6, GotoTurn, ReplyTurn DEF SaveSourceColumns, SaveSourceAxis, At, ClientShape, OpAt, Place
<1>7. CASE SaveSourceFails(c)
  BY <1>7, ReplyTurn DEF SaveSourceFails, At
<1>. QED
  BY <1>1, <1>2, <1>3, <1>4, <1>5, <1>6, <1>7 DEF SourceStep

LEMMA RecTurn ==
    ASSUME ClientShape, NEW c \in Client, RecStep(c)
    PROVE  Turn(c)
<1>1. CASE ListRecs(c) \/ ListStatuses(c)
  BY <1>1, GotoTurn, ReplyTurn DEF ListRecs, ListStatuses, Keep, At, ClientShape, OpAt, Place
<1>2. CASE ReadRec(c) \/ ReadStatus(c) \/ RenderRec(c)
  BY <1>2, GotoTurn, ReplyTurn DEF ReadRec, ReadStatus, RenderRec, Keep, At, ClientShape, OpAt, Place
<1>3. CASE Find(c) \/ InsertStatus(c) \/ InsertUpdate(c)
  BY <1>3, GotoTurn, ReplyTurn DEF Find, InsertStatus, InsertUpdate, At, ClientShape, OpAt, Place
<1>4. CASE FindForEdit(c) \/ SaveRecFails(c)
  BY <1>4, GotoTurn, ReplyTurn DEF FindForEdit, SaveRecFails, At, ClientShape, OpAt, Place
<1>5. CASE ResolveScale(c) \/ SaveRecColumns(c)
  BY <1>5, GotoTurn, ReplyTurn DEF ResolveScale, Resolved, SaveRecColumns, Keep, At, ClientShape, OpAt, Place
<1>6. CASE SaveRecAxis(c)
  BY <1>6, GotoTurn, ReplyTurn DEF SaveRecAxis, At, ClientShape, OpAt, Place
<1>7. CASE MoveToScale(c) \/ DropScale(c)
  BY <1>7, GotoTurn, ReplyTurn DEF MoveToScale, DropScale, At, ClientShape, OpAt, Place
<1>8. CASE ExtractColumns(c) \/ ExtractScale(c)
  BY <1>8, GotoTurn DEF ExtractColumns, ExtractScale, Resolved, Keep, At, ClientShape, OpAt, Place
<1>9. CASE ExtractRecs(c) \/ ExtractFails(c)
  BY <1>9, ReplyTurn DEF ExtractRecs, ExtractFails, At
<1>10. CASE ExtractAxis(c)
  <2>1. /\ UNCHANGED <<clientVars, axis, pc, answer>> /\ pc[c] = "extractAxes"
        /\ \E g : got' = [got EXCEPT ![c] = g]
    BY <1>10 DEF ExtractAxis, Keep, At
  <2>2. pc' = [pc EXCEPT ![c] = pc'[c]] /\ "extractAxes" \in Place \ {"idle"}
    BY <2>1 DEF ClientShape, Place
  <2>. QED
    BY <2>1, <2>2 DEF ClientShape, Turn
<1>. QED
  BY <1>1, <1>2, <1>3, <1>4, <1>5, <1>6, <1>7, <1>8, <1>9, <1>10 DEF RecStep

LEMMA TurnShape ==
    ASSUME ClientShape, NEW c \in Client, Turn(c), Observe
    PROVE  ClientShape' /\ \A b \in Client \ {c} : Rests(b)
<1>1. UNCHANGED <<req, num, alone, served>>
  BY DEF Turn, clientVars
<1>2. pc' \in [Client -> Place] /\ pc'[c] # "idle" /\ \A b \in Client \ {c} : pc'[b] = pc[b]
  BY DEF Turn, ClientShape
<1>3. given' \in [Client -> BOOLEAN] /\ DOMAIN seen' = Client
  BY DEF Observe, ClientShape
<1>5. ClientShape'
  BY <1>1, <1>2, <1>3 DEF Turn, ClientShape
<1>4. \A b \in Client \ {c} : Rests(b)
  BY <1>1 DEF ClientShape, Turn, Rests
<1>. QED
  BY <1>4, <1>5

LEMMA BeginShape ==
    ASSUME ClientShape, NEW c \in Client, NEW d \in Demand, Begin(c, d), Observe
    PROVE  ClientShape' /\ \A b \in Client \ {c} : Rests(b)
<1>1. d.op \in Place /\ d.op \in OpAt(d.op) /\ d.op # "idle"
  BY DemandFields DEF Place, OpAt, SourceOps, RecOps
<1>2. /\ served' = served + 1 /\ num' = [num EXCEPT ![c] = served + 1]
      /\ req' = [req EXCEPT ![c] = d] /\ pc' = [pc EXCEPT ![c] = d.op]
      /\ answer' = [answer EXCEPT ![c] = "none"] /\ got' = [got EXCEPT ![c] = NothingGot]
      /\ axis' = axis
  BY DEF Begin
<1>3. DOMAIN alone' = Client /\ \A b \in Client \ {c} : alone'[b] => alone[b]
  BY DEF Begin
<1>4. alone' \in [Client -> BOOLEAN]
  BY DEF Begin, ClientShape
<1>5. \A b \in Client \ {c} : Rests(b)
  BY <1>2, <1>3 DEF ClientShape, Rests
<1>6. num' \in [Client -> 0..served'] /\ served' \in Nat
  BY <1>2 DEF ClientShape
<1>7. \A b \in Client : pc'[b] # "idle" => req'[b] \in Demand /\ req'[b].op \in OpAt(pc'[b])
  BY <1>1, <1>2 DEF ClientShape
<1>8. pc' \in [Client -> Place]
  BY <1>1, <1>2 DEF ClientShape
<1>9. DOMAIN seen' = Client /\ given' \in [Client -> BOOLEAN]
  BY DEF Observe, ClientShape
<1>. QED
  BY <1>2, <1>4, <1>5, <1>6, <1>7, <1>8, <1>9 DEF ClientShape

\* Between the requests' steps accounts are closed.
LEMMA HappensShape ==
    ASSUME ClientShape, Happens, Observe
    PROVE  ClientShape' /\ \A b \in Client : Rests(b)
<1>1. UNCHANGED <<req, num, served, pc, axis, answer, got, alone>>
  BY DEF Happens, CloseAccount, clientVars
<1>2. given' \in [Client -> BOOLEAN] /\ DOMAIN seen' = Client
  BY DEF Observe, ClientShape
<1>. QED
  BY <1>1, <1>2 DEF ClientShape, Rests
-------------------------------------------------------------------------------
\* The rows the visibility of a source is read from.
DataShape ==
    /\ accounts \subseteq SignedIn
    /\ owner \in [Source -> accounts \cup {Nobody}]
    /\ private \in [Source -> BOOLEAN]
    /\ asks \in Seq(Ask)

\* Requests are added, and change while they are pending only.
AsksGrow ==
    \A i \in DOMAIN asks :
        /\ i \in DOMAIN asks'
        /\ asks'[i].by = asks[i].by /\ asks'[i].source = asks[i].source
        /\ asks[i].status # "pending" => asks'[i] = asks[i]

AsksStep == asks' \in Seq(Ask) /\ AsksGrow /\ OnePendingPerRequester'

LEMMA UnchangedAsks ==
    ASSUME DataShape, OnePendingPerRequester, UNCHANGED asks
    PROVE  AsksStep
  BY DEF DataShape, OnePendingPerRequester, AsksStep, AsksGrow

\* A request that is pending is resolved.
LEMMA ResolveStep ==
    ASSUME DataShape, OnePendingPerRequester, NEW id, IsPending(id),
           NEW status \in AskStatus \ {"pending"}, Resolve(id, status)
    PROVE  AsksStep
<1>1. id \in DOMAIN asks /\ asks' = [asks EXCEPT ![id].status = status]
  BY DEF IsPending, Resolve
<1>2. DOMAIN asks' = DOMAIN asks /\ DOMAIN asks = 1..Len(asks)
  BY <1>1 DEF DataShape
<1>3. \A i \in DOMAIN asks : asks[i] \in Ask
  BY DEF DataShape
<1>4. \A i \in DOMAIN asks : asks'[i] = IF i = id THEN [asks[i] EXCEPT !.status = status] ELSE asks[i]
  BY <1>1
<1>5. asks' \in Seq(Ask)
  BY <1>1, <1>2, <1>3, <1>4 DEF DataShape, Ask
<1>6. AsksGrow
  BY <1>1, <1>2, <1>3, <1>4 DEF AsksGrow, Ask, IsPending
<1>7. OnePendingPerRequester'
  BY <1>2, <1>3, <1>4 DEF OnePendingPerRequester, Ask
<1>. QED
  BY <1>5, <1>6, <1>7 DEF AsksStep

\* A row is appended for who has none pending.
LEMMA AskStep ==
    ASSUME DataShape, OnePendingPerRequester, NEW u \in SignedIn, NEW s \in Source,
           Pending(u, s) = {},
           asks' = Append(asks, [source |-> s, by |-> u, status |-> "pending"])
    PROVE  AsksStep
<1>. DEFINE ask == [source |-> s, by |-> u, status |-> "pending"]
<1>1. ask \in Ask
  BY DEF Ask, AskStatus
<1>2. \A i \in DOMAIN asks : asks[i] \in Ask
  BY DEF DataShape
<1>3. /\ asks' \in Seq(Ask) /\ DOMAIN asks = 1..Len(asks) /\ DOMAIN asks' = 1..Len(asks) + 1
      /\ Len(asks) \in Nat
      /\ asks'[Len(asks) + 1] = ask
      /\ \A i \in DOMAIN asks : asks'[i] = asks[i]
  BY <1>1 DEF DataShape
<1>4. \A i \in DOMAIN asks :
          ~(asks[i].status = "pending" /\ asks[i].by = u /\ asks[i].source = s)
  BY <1>2 DEF Pending, Ask
<1>5. AsksGrow
  BY <1>3 DEF AsksGrow
<1>6. OnePendingPerRequester'
  BY <1>3, <1>4 DEF OnePendingPerRequester
<1>. QED
  BY <1>3, <1>5, <1>6 DEF AsksStep

\* What the steps of one client do to the requests.
LEMMA SourceAsks ==
    ASSUME ClientShape, DataShape, OnePendingPerRequester, NEW c \in Client, SourceStep(c)
    PROVE  AsksStep
<1>1. CASE AskForAccess(c)
  <2>1. req[c] \in Demand /\ req[c].op = "ask"
    BY <1>1 DEF AskForAccess, At, ClientShape, OpAt
  <2>2. Src(c) \in Source
    BY <2>1, DemandFields DEF Src
  <2>. QED
    BY <1>1, <2>2, UnchangedAsks, AskStep DEF AskForAccess
<1>2. CASE Approve(c) \/ Reject(c) \/ Withdraw(c)
  BY <1>2, UnchangedAsks, ResolveStep DEF Approve, Reject, Withdraw, AskStatus
<1>3. CASE ~(AskForAccess(c) \/ Approve(c) \/ Reject(c) \/ Withdraw(c))
  <2>1. UNCHANGED asks
    BY <1>3 DEF SourceStep, sourceVars, Describe, DescribeGrants, Load, LoadGrants, ListSources,
          FollowLink, FindFile, FileGrants, EditForm, EditGrants, FindPending,
          SaveSourceColumns, SaveSourceAxis, SaveSourceFails
  <2>. QED
    BY <2>1, UnchangedAsks
<1>. QED
  BY <1>1, <1>2, <1>3

\* The other requests, and extractions, leave alone who may see the sources.
LEMMA RecKeepsSources ==
    ASSUME NEW c \in Client, RecStep(c)
    PROVE  /\ UNCHANGED <<private, owner, accounts, asks>>
           /\ ExtractColumns(c) \/ ExtractAxis(c) \/ UNCHANGED sourceVars
<1>1. CASE ExtractColumns(c) \/ ExtractAxis(c)
  BY <1>1 DEF ExtractColumns, ExtractAxis
<1>2. CASE ~(ExtractColumns(c) \/ ExtractAxis(c))
  <2>1. UNCHANGED sourceVars
    BY <1>2 DEF RecStep, ListRecs, ListStatuses, ReadRec, ReadStatus, RenderRec, Find,
           InsertStatus, InsertUpdate, FindForEdit, ResolveScale, SaveRecColumns, SaveRecAxis,
           SaveRecFails, MoveToScale, DropScale, ExtractScale, ExtractRecs, ExtractFails
  <2>. QED
    BY <2>1 DEF sourceVars
<1>. QED
  BY <1>1, <1>2

LEMMA NextAsks ==
    ASSUME ClientShape, DataShape, OnePendingPerRequester, Next
    PROVE  AsksStep
<1>1. ASSUME NEW c \in Client, Moves(c)
      PROVE  AsksStep
  <2>1. CASE \E d \in Demand : Begin(c, d)
    BY <2>1, UnchangedAsks DEF Begin, sourceVars
  <2>2. CASE SourceStep(c)
    BY <2>2, SourceAsks
  <2>3. CASE RecStep(c)
    BY <2>3, RecKeepsSources, UnchangedAsks DEF sourceVars
  <2>. QED
    BY <1>1, <2>1, <2>2, <2>3 DEF Moves
<1>2. CASE Happens
  BY <1>2, UnchangedAsks DEF Happens, CloseAccount
<1>. QED
  BY <1>1, <1>2, NextCases

LEMMA NextData ==
    ASSUME ClientShape, DataShape, OnePendingPerRequester, Next
    PROVE  DataShape'
<1>0. asks' \in Seq(Ask)
  BY NextAsks DEF AsksStep
<1>1. ASSUME NEW c \in Client, Moves(c)
      PROVE  DataShape'
  <2>1. CASE SourceStep(c)
    <3>1. CASE SaveSourceColumns(c)
      <4>1. UNCHANGED <<owner, accounts>> /\ private' \in [Source -> BOOLEAN]
        BY <3>1 DEF SaveSourceColumns, DataShape
      <4>. QED
        BY <1>0, <4>1 DEF DataShape
    <3>2. CASE ~SaveSourceColumns(c)
      <4>1. UNCHANGED <<owner, accounts, private>>
        BY <2>1, <3>2 DEF SourceStep, sourceVars, Describe, DescribeGrants, Load, LoadGrants, ListSources,
          FollowLink, FindFile, FileGrants, EditForm, EditGrants, AskForAccess, FindPending, Approve,
          Reject, Withdraw, SaveSourceAxis, SaveSourceFails
      <4>. QED
        BY <1>0, <4>1 DEF DataShape
    <3>. QED
      BY <3>1, <3>2
  <2>2. CASE RecStep(c) \/ \E d \in Demand : Begin(c, d)
    BY <1>0, <2>2, RecKeepsSources DEF Begin, sourceVars, DataShape
  <2>. QED
    BY <1>1, <2>1, <2>2 DEF Moves
<1>2. CASE Happens
  <2>1. PICK u \in User : CloseAccount(u)
    BY <1>2 DEF Happens
  <2>. QED
    BY <1>0, <2>1 DEF CloseAccount, DataShape
<1>. QED
  BY <1>1, <1>2, NextCases
-------------------------------------------------------------------------------
(* What a client being served has been told was so at some moment it has seen. *)

SeesNow(c) == Active(c) => Sight(c) \in seen[c]

\* Who is asked for his grants could not read the source by its row; if he has none
\* now, he had none then, as a grant is for ever.
GrantsTold(c) ==
    pc[c] \in {"describeGrants", "loadGrants", "fileGrants", "editGrants"} =>
        /\ Usr(c) \in SignedIn
        /\ Approved(Usr(c), Src(c)) \/ \E x \in seen[c] : ~x.readable

FoundTold(c) == pc[c] = "insert" => \E x \in seen[c] : req[c].rec \in x.shown

RowsTold(c) ==
    /\ pc[c] \in {"indexStatuses", "openRecLate", "openRecRender"} =>
          \A r \in got[c].recs : \E x \in seen[c] : r \in x.shown
    /\ pc[c] \in {"openRecLate", "openRecRender"} => got[c].recs \subseteq {req[c].rec}
    /\ pc[c] = "indexStatuses" => got[c].recs \subseteq Rec

StatusWas(c, r) == \E x \in seen[c] : r \notin x.shown \/ x.status[r] = got[c].status[r]

StatusTold(c) ==
    pc[c] \in {"openRecStatus", "openRecRender"} => StatusWas(c, req[c].rec)

AnswerWasTrue(c) ==
    LET d == req[c]
        w == seen[c] IN
    /\ d.op = "open" =>
        /\ \E x \in w : x.readable <=> answer[c] = "pages"
        /\ answer[c] = "formPending" => \E x \in w : x.pending
        /\ answer[c] = "form" => \E x \in w : ~x.pending
    /\ d.op \in {"file", "edit"} /\ answer[c] \in {"file", "editForm", "notFound"} =>
        \E x \in w : x.readable <=> answer[c] # "notFound"
    /\ d.op \in {"status", "progress"} /\ answer[c] \in {"ok", "notFound"} =>
        \E x \in w : d.rec \in x.shown <=> answer[c] = "ok"
    /\ d.op \in {"index", "openRec"} /\ answer[c] = "rows" =>
        \A r \in got[c].recs : /\ \E x \in w : r \in x.shown
                               /\ StatusWas(c, r)

Told(c) ==
    /\ SeesNow(c) /\ GrantsTold(c) /\ FoundTold(c) /\ RowsTold(c) /\ StatusTold(c)
    /\ pc[c] = "answered" => AnswerWasTrue(c)

\* A grant is for ever.
LEMMA ApprovedForGood ==
    ASSUME AsksGrow, NEW u, NEW s, Approved(u, s)
    PROVE  Approved(u, s)'
<1>1. PICK i \in DOMAIN asks : asks[i] = [source |-> s, by |-> u, status |-> "approved"]
  BY DEF Approved
<1>2. i \in DOMAIN asks' /\ asks'[i] = asks[i]
  BY <1>1 DEF AsksGrow
<1>. QED
  BY <1>1, <1>2 DEF Approved

\* Who rests sees more, and forgets nothing.
LEMMA RestsTold ==
    ASSUME ClientShape, AsksGrow, Observe, NEW c \in Client, Rests(c), Told(c)
    PROVE  Told(c)'
<1>1. /\ pc'[c] = pc[c] /\ answer'[c] = answer[c] /\ got'[c] = got[c] /\ req'[c] = req[c]
      /\ Usr(c)' = Usr(c) /\ Src(c)' = Src(c) /\ Active(c)' = Active(c)
  BY DEF Rests, Usr, Src, Active
<1>2. seen'[c] = IF Active(c) THEN seen[c] \cup {Sight(c)'} ELSE seen[c]
  BY <1>1 DEF Observe
<1>3. seen[c] \subseteq seen'[c]
  BY <1>2
<1>4. SeesNow(c)'
  BY <1>1, <1>2 DEF SeesNow
<1>5. GrantsTold(c)'
  BY <1>1, <1>3, ApprovedForGood DEF Told, GrantsTold
<1>6. FoundTold(c)' /\ RowsTold(c)' /\ StatusTold(c)'
  BY <1>1, <1>3 DEF Told, FoundTold, RowsTold, StatusTold, StatusWas
<1>7. pc[c] = "answered" => seen'[c] = seen[c]
  BY <1>2 DEF Active
<1>8. pc'[c] = "answered" => AnswerWasTrue(c)'
  BY <1>1, <1>7 DEF Told, AnswerWasTrue, StatusWas
<1>. QED
  BY <1>4, <1>5, <1>6, <1>8 DEF Told

LEMMA BeginTold ==
    ASSUME ClientShape, NEW c \in Client, NEW d \in Demand, Begin(c, d), Observe
    PROVE  Told(c)'
<1>1. pc'[c] = d.op /\ ~Active(c)
  BY DEF Begin, ClientShape
<1>2. d.op \in SourceOps \cup RecOps
  BY DemandFields
<1>3. Active(c)'
  BY <1>1, <1>2 DEF Active, SourceOps, RecOps
<1>4. seen'[c] = {Sight(c)'}
  BY <1>1, <1>3 DEF Observe
<1>. QED
  BY <1>1, <1>2, <1>4 DEF Told, SeesNow, GrantsTold, FoundTold, RowsTold, StatusTold, SourceOps, RecOps

\* Who takes a step has seen what stood before it.
LEMMA ActorSees ==
    ASSUME ClientShape, NEW c \in Client, Active(c), Told(c), Turn(c), Observe
    PROVE  /\ seen[c] \subseteq seen'[c] /\ Sight(c) \in seen'[c]
           /\ SeesNow(c)'
           /\ req'[c] = req[c] /\ Usr(c)' = Usr(c) /\ Src(c)' = Src(c)
<1>1. seen'[c] = IF Active(c)' THEN seen[c] \cup {Sight(c)'} ELSE seen[c]
  BY DEF Observe
<1>. QED
  BY <1>1 DEF Told, SeesNow, Turn, clientVars, Usr, Src

LEMMA SightOfSource ==
    ASSUME NEW c \in Client, req[c].op \in {"open", "file", "edit"}
    PROVE  /\ Sight(c).readable <=> CanRead(Usr(c), Src(c))
           /\ Sight(c).pending <=> Pending(Usr(c), Src(c)) # {}
  BY DEF Sight

LEMMA SightOfRecs ==
    ASSUME NEW c \in Client, req[c].op \in {"index", "openRec", "status", "progress"}
    PROVE  /\ Sight(c).shown = Visible(Usr(c))
           /\ Sight(c).status = [r \in Rec |-> StatusOf(r)]
  BY DEF Sight

\* The steps that read the row of a source, and those that read the grants.
LEMMA PageTold ==
    ASSUME ClientShape, NEW c \in Client, Told(c), Observe,
           Describe(c) \/ DescribeGrants(c) \/ Load(c) \/ LoadGrants(c)
    PROVE  Told(c)'
<1>1. req[c].op = "open" /\ Active(c)
  BY DEF Describe, DescribeGrants, Load, LoadGrants, At, ClientShape, OpAt, Active
<1>2. Turn(c) /\ asks' = asks
  BY SourceTurn DEF SourceStep, Describe, DescribeGrants, Load, LoadGrants, sourceVars
<1>3. /\ seen[c] \subseteq seen'[c] /\ Sight(c) \in seen'[c] /\ SeesNow(c)' /\ req'[c] = req[c]
      /\ Usr(c)' = Usr(c) /\ Src(c)' = Src(c)
  BY <1>1, <1>2, ActorSees
<1>4. Approved(Usr(c), Src(c))' <=> Approved(Usr(c), Src(c))
  BY <1>2, <1>3 DEF Approved
<1>5. /\ Sight(c).readable <=> CanRead(Usr(c), Src(c))
      /\ Sight(c).pending <=> Pending(Usr(c), Src(c)) # {}
  BY <1>1, SightOfSource
<1>6. CASE Describe(c)
  <2>1. \/ pc'[c] = "load"
        \/ /\ pc'[c] = "describeGrants" /\ Usr(c) \in SignedIn
           /\ ~RowReadable(Usr(c), Src(c))
        \/ /\ pc'[c] = "answered" /\ answer'[c] = "notFound" /\ ~CanRead(Usr(c), Src(c))
    BY <1>6 DEF Describe, Goto, Reply, ClientShape, RowVisible, RowReadable, CanRead
  <2>. QED
    BY <1>1, <1>3, <1>4, <1>5, <2>1 DEF Told, GrantsTold, FoundTold, RowsTold, StatusTold, AnswerWasTrue, CanRead
<1>7. CASE DescribeGrants(c)
  <2>1. Usr(c) \in SignedIn /\ (Approved(Usr(c), Src(c)) \/ \E x \in seen[c] : ~x.readable)
    BY <1>7 DEF Told, GrantsTold, DescribeGrants, At
  <2>2. \/ pc'[c] = "load"
        \/ /\ pc'[c] = "answered" /\ ~Approved(Usr(c), Src(c))
           /\ \/ answer'[c] = "form" /\ Pending(Usr(c), Src(c)) = {}
              \/ answer'[c] = "formPending" /\ Pending(Usr(c), Src(c)) # {}
    BY <1>7 DEF DescribeGrants, Goto, Reply, ClientShape
  <2>. QED
    BY <1>1, <1>3, <1>5, <2>1, <2>2 DEF Told, GrantsTold, FoundTold, RowsTold, StatusTold, AnswerWasTrue
<1>8. CASE Load(c)
  <2>1. \/ pc'[c] = "answered" /\ answer'[c] = "pages" /\ CanRead(Usr(c), Src(c))
        \/ /\ pc'[c] = "loadGrants" /\ Usr(c) \in SignedIn
           /\ ~RowReadable(Usr(c), Src(c))
        \/ /\ pc'[c] = "answered" /\ answer'[c] = "notFound" /\ ~CanRead(Usr(c), Src(c))
    BY <1>8 DEF Load, Goto, Reply, ClientShape, RowReadable, CanRead
  <2>. QED
    BY <1>1, <1>3, <1>4, <1>5, <2>1 DEF Told, GrantsTold, FoundTold, RowsTold, StatusTold, AnswerWasTrue, CanRead
<1>9. CASE LoadGrants(c)
  <2>1. Usr(c) \in SignedIn /\ (Approved(Usr(c), Src(c)) \/ \E x \in seen[c] : ~x.readable)
    BY <1>9 DEF Told, GrantsTold, LoadGrants, At
  <2>2. /\ pc'[c] = "answered"
        /\ \/ answer'[c] = "pages" /\ CanRead(Usr(c), Src(c))
           \/ answer'[c] = "notFound" /\ ~Approved(Usr(c), Src(c))
    BY <1>9, <2>1 DEF LoadGrants, Reply, ClientShape, CanRead
  <2>. QED
    BY <1>1, <1>3, <1>5, <2>1, <2>2 DEF Told, GrantsTold, FoundTold, RowsTold, StatusTold, AnswerWasTrue
<1>. QED
  BY <1>6, <1>7, <1>8, <1>9

LEMMA FileOrEditTold ==
    ASSUME ClientShape, NEW c \in Client, Told(c), Observe,
           FollowLink(c) \/ FindFile(c) \/ FileGrants(c) \/ EditForm(c) \/ EditGrants(c)
    PROVE  Told(c)'
<1>1. req[c].op \in {"file", "edit"} /\ Active(c)
  BY DEF FollowLink, FindFile, FileGrants, EditForm, EditGrants, At, ClientShape, OpAt, Active
<1>2. Turn(c) /\ asks' = asks
  BY SourceTurn DEF SourceStep, FollowLink, FindFile, FileGrants, EditForm, EditGrants, sourceVars
<1>3. /\ seen[c] \subseteq seen'[c] /\ Sight(c) \in seen'[c] /\ SeesNow(c)' /\ req'[c] = req[c]
      /\ Usr(c)' = Usr(c) /\ Src(c)' = Src(c)
  BY <1>1, <1>2, ActorSees
<1>4. Approved(Usr(c), Src(c))' <=> Approved(Usr(c), Src(c))
  BY <1>2, <1>3 DEF Approved
<1>5. Sight(c).readable <=> CanRead(Usr(c), Src(c))
  BY <1>1, SightOfSource
<1>6. CASE FollowLink(c)
  <2>1. pc'[c] = "findFile" \/ (pc'[c] = "answered" /\ answer'[c] = "expired")
    BY <1>6 DEF FollowLink, Goto, Reply, ClientShape
  <2>. QED
    BY <1>1, <1>3, <2>1 DEF Told, GrantsTold, FoundTold, RowsTold, StatusTold, AnswerWasTrue
<1>7. CASE FindFile(c) \/ EditForm(c)
  <2>1. \/ pc'[c] = "answered" /\ answer'[c] = "error"
        \/ pc'[c] = "answered" /\ answer'[c] \in {"file", "editForm"} /\ CanRead(Usr(c), Src(c))
        \/ /\ pc'[c] \in {"fileGrants", "editGrants"} /\ Usr(c) \in SignedIn
           /\ ~RowReadable(Usr(c), Src(c))
        \/ pc'[c] = "answered" /\ answer'[c] = "notFound" /\ ~CanRead(Usr(c), Src(c))
    BY <1>7 DEF FindFile, EditForm, Serve, Goto, Reply, ClientShape, RowReadable, CanRead
  <2>. QED
    BY <1>1, <1>3, <1>4, <1>5, <2>1 DEF Told, GrantsTold, FoundTold, RowsTold, StatusTold, AnswerWasTrue, CanRead
<1>8. CASE FileGrants(c) \/ EditGrants(c)
  <2>1. Usr(c) \in SignedIn /\ (Approved(Usr(c), Src(c)) \/ \E x \in seen[c] : ~x.readable)
    BY <1>8 DEF Told, GrantsTold, FileGrants, EditGrants, At
  <2>2. /\ pc'[c] = "answered"
        /\ \/ answer'[c] = "error"
           \/ answer'[c] \in {"file", "editForm"} /\ CanRead(Usr(c), Src(c))
           \/ answer'[c] = "notFound" /\ ~Approved(Usr(c), Src(c))
    BY <1>8, <2>1 DEF FileGrants, EditGrants, Serve, Reply, ClientShape, CanRead
  <2>. QED
    BY <1>1, <1>3, <1>5, <2>1, <2>2 DEF Told, GrantsTold, FoundTold, RowsTold, StatusTold, AnswerWasTrue
<1>. QED
  BY <1>6, <1>7, <1>8

\* Of the other requests only that they have been answered is remembered, or where.
LEMMA OtherTold ==
    ASSUME ClientShape, NEW c \in Client, Told(c), Observe, Turn(c), Active(c),
           req[c].op \notin {"open", "file", "edit", "index", "openRec", "status", "progress"}
    PROVE  Told(c)'
<1>1. SeesNow(c)' /\ req'[c] = req[c] /\ req[c].op \in OpAt(pc'[c])
  BY ActorSees DEF Turn
<1>2. /\ pc'[c] \notin {"describeGrants", "load", "loadGrants", "findFile", "fileGrants", "editGrants"}
      /\ pc'[c] \notin {"insert", "indexStatuses", "openRecLate", "openRecStatus", "openRecRender"}
  BY <1>1 DEF OpAt
<1>. QED
  BY <1>1, <1>2 DEF Told, GrantsTold, FoundTold, RowsTold, StatusTold, AnswerWasTrue

LEMMA SourceStepTold ==
    ASSUME ClientShape, NEW c \in Client, Told(c), Observe, SourceStep(c)
    PROVE  Told(c)'
<1>1. CASE \/ Describe(c) \/ DescribeGrants(c) \/ Load(c) \/ LoadGrants(c)
           \/ FollowLink(c) \/ FindFile(c) \/ FileGrants(c) \/ EditForm(c) \/ EditGrants(c)
  BY <1>1, PageTold, FileOrEditTold
<1>2. CASE ListSources(c) \/ AskForAccess(c) \/ FindPending(c) \/ Approve(c) \/ Reject(c) \/ Withdraw(c)
  <2>1. /\ Active(c)
        /\ req[c].op \notin {"open", "file", "edit", "index", "openRec", "status", "progress"}
    BY <1>2 DEF ListSources, AskForAccess, FindPending, Approve, Reject, Withdraw, At, Active,
                ClientShape, OpAt
  <2>. QED
    BY <2>1, SourceTurn, OtherTold
<1>3. CASE SaveSourceColumns(c) \/ SaveSourceAxis(c) \/ SaveSourceFails(c)
  <2>1. /\ Active(c)
        /\ req[c].op \notin {"open", "file", "edit", "index", "openRec", "status", "progress"}
    BY <1>3 DEF SaveSourceColumns, SaveSourceAxis, SaveSourceFails, At, Active, ClientShape, OpAt
  <2>. QED
    BY <2>1, SourceTurn, OtherTold
<1>. QED
  BY <1>1, <1>2, <1>3 DEF SourceStep

\* Got is a record, and what is visible are recommendations.
GotShape ==
    /\ \A c \in Client : got[c] = [sources |-> got[c].sources, recs |-> got[c].recs,
                                   status |-> got[c].status, scale |-> got[c].scale,
                                   done |-> got[c].done]
    /\ recs \subseteq Rec

LEMMA RowsStepTold ==
    ASSUME ClientShape, GotShape, NEW c \in Client, Told(c), Observe,
           ListRecs(c) \/ ListStatuses(c) \/ ReadRec(c) \/ ReadStatus(c) \/ RenderRec(c)
    PROVE  Told(c)'
<1>1. req[c].op \in {"index", "openRec"} /\ Active(c)
  BY DEF ListRecs, ListStatuses, ReadRec, ReadStatus, RenderRec, At, ClientShape, OpAt, Active
<1>2. Turn(c)
  BY RecTurn DEF RecStep
<1>3. seen[c] \subseteq seen'[c] /\ Sight(c) \in seen'[c] /\ SeesNow(c)' /\ req'[c] = req[c]
  BY <1>1, <1>2, ActorSees
<1>4. /\ Sight(c).shown = Visible(Usr(c))
      /\ Sight(c).status = [r \in Rec |-> StatusOf(r)]
  BY <1>1, SightOfRecs
<1>5. Visible(Usr(c)) \subseteq Rec
  BY DEF Visible, GotShape
<1>6. \A r \in Rec : r \notin Sight(c).shown \/ Sight(c).status[r] = StatusOf(r)
  BY <1>4
<1>7. CASE ListRecs(c)
  <2>1. pc'[c] = "indexStatuses" /\ got'[c].recs = Visible(Usr(c))
    BY <1>7 DEF ListRecs, Keep, Goto, ClientShape, GotShape
  <2>. QED
    BY <1>3, <1>4, <1>5, <2>1 DEF Told, GrantsTold, FoundTold, RowsTold, StatusTold
<1>8. CASE ListStatuses(c)
  <2>1. /\ pc[c] = "indexStatuses" /\ pc'[c] = "answered"
        /\ got'[c].recs = got[c].recs
        /\ got'[c].status = LatestStatuses(Usr(c), got[c].recs)
    BY <1>8 DEF ListStatuses, Keep, Reply, At, ClientShape, GotShape
  <2>2. \A r \in got[c].recs : r \in Rec /\ \E x \in seen[c] : r \in x.shown
    BY <2>1 DEF Told, RowsTold
  <2>3. \A r \in got[c].recs :
            r \notin Sight(c).shown \/ Sight(c).status[r] = got'[c].status[r]
    BY <1>4, <1>6, <2>1, <2>2 DEF LatestStatuses
  <2>. QED
    BY <1>1, <1>3, <2>1, <2>2, <2>3 DEF Told, GrantsTold, FoundTold, RowsTold, StatusTold, AnswerWasTrue, StatusWas
<1>9. CASE ReadRec(c)
  <2>1. /\ \/ pc[c] = "openRec" /\ pc'[c] = "openRecLate"
           \/ pc[c] = "openRecStatus" /\ pc'[c] = "openRecRender"
        /\ got'[c].recs = {req[c].rec} \cap Visible(Usr(c))
        /\ got'[c].status = got[c].status
    BY <1>9 DEF ReadRec, Keep, Goto, At, ClientShape, GotShape
  <2>2. pc[c] = "openRecStatus" => StatusWas(c, req[c].rec)
    BY DEF Told, StatusTold
  <2>. QED
    BY <1>3, <1>4, <2>1, <2>2 DEF Told, GrantsTold, FoundTold, RowsTold, StatusTold, StatusWas
<1>10. CASE ReadStatus(c)
  <2>1. /\ \/ pc[c] = "openRec" /\ pc'[c] = "openRecStatus"
           \/ pc[c] = "openRecLate" /\ pc'[c] = "openRecRender"
        /\ got'[c].status = LatestStatuses(Usr(c), {req[c].rec})
        /\ got'[c].recs = got[c].recs
    BY <1>10 DEF ReadStatus, Keep, Goto, At, ClientShape, GotShape
  <2>2. req[c].rec \in Rec
    <3>1. req[c] \in Demand /\ req[c].op = "openRec"
      BY <2>1 DEF ClientShape, OpAt
    <3>. QED
      BY <3>1, DemandFields
  <2>3. req[c].rec \notin Sight(c).shown \/ Sight(c).status[req[c].rec] = got'[c].status[req[c].rec]
    BY <1>4, <1>6, <2>1, <2>2 DEF LatestStatuses
  <2>. QED
    BY <1>3, <2>1, <2>3 DEF Told, GrantsTold, FoundTold, RowsTold, StatusTold, StatusWas
<1>11. CASE RenderRec(c)
  <2>1. pc[c] = "openRecRender" /\ pc'[c] = "answered" /\ got'[c] = got[c]
    BY <1>11 DEF RenderRec, Reply, At, ClientShape
  <2>2. /\ \A r \in got[c].recs : r = req[c].rec /\ \E x \in seen[c] : r \in x.shown
        /\ StatusWas(c, req[c].rec)
    BY <2>1 DEF Told, RowsTold, StatusTold
  <2>. QED
    BY <1>1, <1>3, <2>1, <2>2 DEF Told, GrantsTold, FoundTold, RowsTold, StatusTold, AnswerWasTrue, StatusWas
<1>. QED
  BY <1>7, <1>8, <1>9, <1>10, <1>11

LEMMA InsertStepTold ==
    ASSUME ClientShape, NEW c \in Client, Told(c), Observe,
           Find(c) \/ InsertStatus(c) \/ InsertUpdate(c)
    PROVE  Told(c)'
<1>1. req[c].op \in {"status", "progress"} /\ Active(c)
  BY DEF Find, InsertStatus, InsertUpdate, At, ClientShape, OpAt, Active
<1>2. Turn(c)
  BY RecTurn DEF RecStep
<1>3. seen[c] \subseteq seen'[c] /\ Sight(c) \in seen'[c] /\ SeesNow(c)' /\ req'[c] = req[c]
  BY <1>1, <1>2, ActorSees
<1>4. Sight(c).shown = Visible(Usr(c))
  BY <1>1, SightOfRecs
<1>5. CASE Find(c)
  <2>1. \/ pc'[c] = "insert" /\ req[c].rec \in Visible(Usr(c))
        \/ pc'[c] = "answered" /\ answer'[c] = "notFound" /\ req[c].rec \notin Visible(Usr(c))
    BY <1>5 DEF Find, Goto, Reply, ClientShape
  <2>. QED
    BY <1>1, <1>3, <1>4, <2>1 DEF Told, GrantsTold, FoundTold, RowsTold, StatusTold, AnswerWasTrue
<1>6. CASE InsertStatus(c) \/ InsertUpdate(c)
  <2>1. pc[c] = "insert" /\ pc'[c] = "answered" /\ answer'[c] \in {"ok", "error"}
    BY <1>6 DEF InsertStatus, InsertUpdate, Reply, At, ClientShape
  <2>2. \E x \in seen[c] : req[c].rec \in x.shown
    BY <2>1 DEF Told, FoundTold
  <2>. QED
    BY <1>1, <1>3, <2>1, <2>2 DEF Told, GrantsTold, FoundTold, RowsTold, StatusTold, AnswerWasTrue
<1>. QED
  BY <1>5, <1>6

LEMMA RecStepTold ==
    ASSUME ClientShape, GotShape, NEW c \in Client, Told(c), Observe, RecStep(c)
    PROVE  Told(c)'
<1>1. CASE \/ ListRecs(c) \/ ListStatuses(c) \/ ReadRec(c) \/ ReadStatus(c) \/ RenderRec(c)
           \/ Find(c) \/ InsertStatus(c) \/ InsertUpdate(c)
  BY <1>1, RowsStepTold, InsertStepTold
<1>2. CASE \/ FindForEdit(c) \/ ResolveScale(c) \/ SaveRecColumns(c) \/ SaveRecAxis(c) \/ SaveRecFails(c)
           \/ MoveToScale(c) \/ DropScale(c)
           \/ ExtractColumns(c) \/ ExtractAxis(c) \/ ExtractScale(c) \/ ExtractRecs(c) \/ ExtractFails(c)
  <2>1. /\ Active(c)
        /\ req[c].op \notin {"open", "file", "edit", "index", "openRec", "status", "progress"}
    BY <1>2 DEF FindForEdit, ResolveScale, SaveRecColumns, SaveRecAxis, SaveRecFails, MoveToScale,
                DropScale, ExtractColumns, ExtractAxis, ExtractScale, ExtractRecs, ExtractFails,
                At, Active, ClientShape, OpAt
  <2>. QED
    BY <2>1, RecTurn, OtherTold
<1>. QED
  BY <1>1, <1>2 DEF RecStep
-------------------------------------------------------------------------------
\* The recommendations of a source are of its last extraction.
RecShape ==
    /\ extracted \in [Source -> 1..MaxGenerations]
    /\ \A r \in recs : r[1] \in Source /\ r = <<r[1], extracted[r[1]]>>

LEMMA TurnGot ==
    ASSUME ClientShape, GotShape, NEW c \in Client, SourceStep(c) \/ RecStep(c)
    PROVE  \A b \in Client : got'[b] = [sources |-> got'[b].sources, recs |-> got'[b].recs,
                                        status |-> got'[b].status, scale |-> got'[b].scale,
                                        done |-> got'[b].done]
<1>1. CASE \/ ListSources(c) \/ ListRecs(c) \/ ListStatuses(c) \/ ReadRec(c) \/ ReadStatus(c)
           \/ (ResolveScale(c) /\ got' # got) \/ ExtractAxis(c) \/ (ExtractScale(c) /\ got' # got)
  <2>1. \E k \in {"sources", "recs", "status", "scale", "done"} : \E v :
            got' = [got EXCEPT ![c] = [got[c] EXCEPT ![k] = v]]
    BY <1>1 DEF ListSources, ListRecs, ListStatuses, ReadRec, ReadStatus, ResolveScale, ExtractAxis,
                ExtractScale, Resolved, Keep
  <2>. QED
    BY <2>1 DEF ClientShape, GotShape
<1>2. CASE ~(\/ ListSources(c) \/ ListRecs(c) \/ ListStatuses(c) \/ ReadRec(c) \/ ReadStatus(c)
             \/ ResolveScale(c) \/ ExtractAxis(c) \/ ExtractScale(c)) \/ got' = got
  <2>1. got' = got
    BY <1>2 DEF SourceStep, RecStep, Describe, DescribeGrants, Load, LoadGrants, FollowLink, FindFile,
          FileGrants, EditForm, EditGrants, AskForAccess, FindPending, Approve, Reject, Withdraw,
          SaveSourceColumns, SaveSourceAxis, SaveSourceFails, RenderRec, Find, InsertStatus,
          InsertUpdate, FindForEdit, SaveRecColumns, SaveRecAxis, SaveRecFails, MoveToScale, DropScale,
          ExtractColumns, ExtractRecs, ExtractFails
  <2>. QED
    BY <2>1 DEF GotShape
<1>. QED
  BY <1>1, <1>2

LEMMA TurnRecs ==
    ASSUME NEW c \in Client, RecStep(c), ~ExtractRecs(c)
    PROVE  UNCHANGED <<recs, extracted>>
  BY DEF RecStep, recVars, ListRecs, ListStatuses, ReadRec, ReadStatus, RenderRec, Find, InsertStatus,
         InsertUpdate, FindForEdit, ResolveScale, SaveRecColumns, SaveRecAxis, SaveRecFails,
         MoveToScale, DropScale, ExtractColumns, ExtractAxis, ExtractScale, ExtractFails

\* Which source an extraction is of.
LEMMA ExtractedSource ==
    ASSUME ClientShape, NEW c \in Client, pc[c] \in {"extract", "extractAxes", "extractRecs"}
    PROVE  req[c] \in Demand /\ req[c].op = "extract" /\ Src(c) \in Source
<1>1. req[c] \in Demand /\ req[c].op = "extract"
  BY DEF ClientShape, OpAt
<1>. QED
  BY <1>1, DemandFields DEF Src

LEMMA ReplaceShape ==
    ASSUME ClientShape, RecShape, NEW c \in Client, ExtractRecs(c)
    PROVE  RecShape'
<1>. DEFINE s == Src(c)
<1>1. /\ s \in Source /\ extracted[s] < MaxGenerations
      /\ extracted' = [extracted EXCEPT ![s] = @ + 1]
      /\ recs' \subseteq {r \in recs : r[1] # s} \cup {<<s, extracted[s] + 1>>}
  BY ExtractedSource DEF ExtractRecs, At
<1>2. extracted[s] \in 1..MaxGenerations
  BY <1>1 DEF RecShape
<1>3. extracted' \in [Source -> 1..MaxGenerations] /\ extracted'[s] = extracted[s] + 1
  BY <1>1, <1>2, GenerationsAssumption DEF RecShape
<1>4. \A t \in Source \ {s} : extracted'[t] = extracted[t]
  BY <1>1
<1>5. \A r \in recs' : r[1] \in Source /\ r = <<r[1], extracted'[r[1]]>>
  BY <1>1, <1>3, <1>4 DEF RecShape
<1>. QED
  BY <1>3, <1>5 DEF RecShape

LEMMA NextShapes ==
    ASSUME ClientShape, GotShape, RecShape, Next
    PROVE  GotShape' /\ RecShape'
<1>1. RecShape => recs \subseteq Rec
  <2>. SUFFICES ASSUME RecShape, NEW r \in recs
                PROVE  r \in Rec
    OBVIOUS
  <2>. QED
    BY DEF RecShape, Rec
<1>2. RecShape' => recs' \subseteq Rec
  <2>. SUFFICES ASSUME RecShape', NEW r \in recs'
                PROVE  r \in Rec
    OBVIOUS
  <2>. QED
    BY DEF RecShape, Rec
<1>3. RecShape'
  <2>1. CASE UNCHANGED <<recs, extracted>>
    BY <2>1 DEF RecShape
  <2>2. ASSUME NEW c \in Client, Moves(c)
        PROVE  UNCHANGED <<recs, extracted>> \/ ExtractRecs(c)
    BY <2>2, TurnRecs DEF Moves, Begin, recVars
  <2>3. ASSUME NEW u \in User, CloseAccount(u) /\ UNCHANGED recVars
        PROVE  UNCHANGED <<recs, extracted>>
    BY <2>3 DEF recVars
  <2>. QED
    BY <2>1, <2>2, <2>3, ReplaceShape, NextCases DEF Happens
<1>4. \A b \in Client : got'[b] = [sources |-> got'[b].sources, recs |-> got'[b].recs,
                                   status |-> got'[b].status, scale |-> got'[b].scale,
                                   done |-> got'[b].done]
  <2>1. CASE got' = got
    BY <2>1 DEF GotShape
  <2>2. ASSUME NEW c \in Client, NEW d \in Demand, Begin(c, d)
        PROVE  got' = [got EXCEPT ![c] = NothingGot]
    BY <2>2 DEF Begin
  <2>3. ASSUME NEW c \in Client, got' = [got EXCEPT ![c] = NothingGot]
        PROVE  \A b \in Client : got'[b] = [sources |-> got'[b].sources, recs |-> got'[b].recs,
                                            status |-> got'[b].status, scale |-> got'[b].scale,
                                            done |-> got'[b].done]
    BY <2>3 DEF GotShape, ClientShape, NothingGot
  <2>4. Happens => got' = got
    BY DEF Happens, CloseAccount
  <2>. QED
    BY <2>1, <2>2, <2>3, <2>4, TurnGot, NextCases DEF Moves
<1>. QED
  BY <1>2, <1>3, <1>4 DEF GotShape
-------------------------------------------------------------------------------
(* The inductive invariant *)

IInv ==
    /\ ClientShape /\ DataShape /\ OnePendingPerRequester
    /\ GotShape /\ RecShape
    /\ \A c \in Client : Told(c)

LEMMA InitIInv ==
    ASSUME Init
    PROVE  IInv
<1>1. ClientShape
  BY DEF Init, ClientShape, Place
<1>2. DataShape
  BY UsersAssumption DEF Init, SourceInit, DataShape
<1>3. OnePendingPerRequester
  BY DEF Init, SourceInit, OnePendingPerRequester
<1>4. RecShape
  <2>1. extracted = [s \in Source |-> 1] /\ recs = {<<s, 1>> : s \in Source}
    BY DEF Init, RecInit
  <2>2. \A r \in recs : r[1] \in Source /\ r = <<r[1], 1>>
    BY <2>1
  <2>. QED
    BY <2>1, <2>2, GenerationsAssumption DEF RecShape
<1>5. recs \subseteq Rec
  BY GenerationsAssumption DEF Init, RecInit, Rec
<1>6. GotShape
  BY <1>5 DEF Init, GotShape, NothingGot
<1>7. \A c \in Client : Told(c)
  BY DEF Init, Told, SeesNow, Active, GrantsTold, FoundTold, RowsTold, StatusTold
<1>. QED
  BY <1>1, <1>2, <1>3, <1>4, <1>6, <1>7 DEF IInv

LEMMA NextIInv ==
    ASSUME IInv, Next
    PROVE  IInv'
<1>1. ClientShape /\ DataShape /\ OnePendingPerRequester /\ GotShape /\ RecShape /\ Observe /\ AsksStep
  BY NextAsks, NextCases DEF IInv
<1>2. ASSUME NEW c \in Client, Moves(c)
      PROVE  ClientShape' /\ (\A b \in Client \ {c} : Rests(b)) /\ Told(c)'
  <2>1. Told(c)
    BY DEF IInv
  <2>2. CASE SourceStep(c) \/ RecStep(c)
    BY <1>1, <2>1, <2>2, SourceTurn, RecTurn, TurnShape, SourceStepTold, RecStepTold
  <2>3. CASE \E d \in Demand : Begin(c, d)
    BY <1>1, <2>3, BeginShape, BeginTold
  <2>. QED
    BY <1>2, <2>2, <2>3 DEF Moves
<1>3. ClientShape'
  BY <1>1, <1>2, HappensShape, NextCases
<1>4. \A b \in Client : Told(b)'
  <2>1. \A b \in Client : Rests(b) => Told(b)'
    BY <1>1, RestsTold DEF IInv, AsksStep
  <2>. QED
    BY <1>1, <1>2, <2>1, HappensShape, NextCases
<1>5. DataShape' /\ OnePendingPerRequester' /\ GotShape' /\ RecShape'
  BY <1>1, NextData, NextShapes DEF AsksStep
<1>. QED
  BY <1>3, <1>4, <1>5 DEF IInv

LEMMA StutterIInv ==
    ASSUME IInv, UNCHANGED vars
    PROVE  IInv'
<1>1. UNCHANGED <<private, owner, accounts, asks, recs, extracted, history>>
  BY DEF vars, sourceVars, recVars
<1>2. UNCHANGED <<served, req, num, alone, axis, pc, answer, got, seen, given>>
  BY DEF vars, clientVars
<1>3. ClientShape' /\ DataShape' /\ OnePendingPerRequester' /\ GotShape' /\ RecShape'
  BY <1>1, <1>2 DEF IInv, ClientShape, DataShape, OnePendingPerRequester, GotShape, RecShape
<1>4. ASSUME NEW c \in Client
      PROVE  Told(c)'
  <2>1. Usr(c)' = Usr(c) /\ Src(c)' = Src(c) /\ Active(c)' = Active(c)
    BY <1>2 DEF Usr, Src, Active
  <2>2. Sight(c)' = Sight(c)
    BY <1>1, <1>2, <2>1 DEF Sight, CanRead, RowReadable, Owns, Approved, Pending, Visible, RecsShown, StatusOf
  <2>3. Approved(Usr(c), Src(c))' = Approved(Usr(c), Src(c))
    BY <1>1, <2>1 DEF Approved
  <2>4. SeesNow(c)' /\ GrantsTold(c)' /\ FoundTold(c)' /\ RowsTold(c)' /\ StatusTold(c)'
    BY <1>2, <2>1, <2>2, <2>3 DEF IInv, Told, SeesNow, GrantsTold, FoundTold, RowsTold, StatusTold, StatusWas
  <2>5. pc'[c] = "answered" => AnswerWasTrue(c)'
    BY <1>2 DEF IInv, Told, AnswerWasTrue, StatusWas
  <2>. QED
    BY <2>4, <2>5 DEF Told
<1>. QED
  BY <1>3, <1>4 DEF IInv

LEMMA AlwaysIInv == Spec => []IInv
<1>1. IInv /\ [Next]_vars => IInv'
  BY NextIInv, StutterIInv
<1>. QED
  BY InitIInv, <1>1, PTL DEF Spec
-------------------------------------------------------------------------------
\* A requester has one pending request for a source at a time (the partial unique
\* index of ownership_requests, and the guarded UPDATEs of ownership-request.ts).
THEOREM OnlyOnePending == Spec => []OnePendingPerRequester
<1>1. IInv => OnePendingPerRequester
  BY DEF IInv
<1>. QED
  BY AlwaysIInv, <1>1, PTL

\* A request that has been approved, rejected or withdrawn is never touched again,
\* whoever else resolves it at the same time.
THEOREM ResolvedStays == Spec => ResolvedForGood
<1>1. IInv /\ [Next]_vars => [\A i \in DOMAIN asks : asks[i].status # "pending" => asks'[i] = asks[i]]_vars
  BY NextAsks DEF IInv, AsksStep, AsksGrow
<1>. QED
  BY AlwaysIInv, <1>1, PTL DEF Spec, ResolvedForGood

\* No answer is put together from two moments into something that never was: what a
\* page, a form, a file or a list of recommendations told was so while it was served.
THEOREM AnswersAlwaysTrue == Spec => []AnswersWereTrue
<1>1. IInv => AnswersWereTrue
  BY DEF IInv, Told, AnswerWasTrue, StatusWas, AnswersWereTrue
<1>. QED
  BY AlwaysIInv, <1>1, PTL

-------------------------------------------------------------------------------
(* Saves and merges: what is written statement by statement is whole in the *)
(* end, unless somebody else who writes the same thing comes between.       *)

\* Who conflicts with a client that is alone still has come after it was answered.
Overlap ==
    \A b, c \in Client :
        b # c /\ Active(b) /\ pc[c] # "idle" /\ Conflict(req[b], req[c]) /\ alone[c]
            => ~Active(c) /\ num[b] > num[c]

LEMMA ConflictIsMutual ==
    ASSUME NEW d, NEW e
    PROVE  Conflict(d, e) <=> Conflict(e, d)
  BY DEF Conflict

LEMMA OverlapBegin ==
    ASSUME ClientShape, Overlap, NEW a \in Client, NEW d \in Demand, Begin(a, d)
    PROVE  Overlap'
<1>. DEFINE others == {b \in Client \ {a} : Active(b) /\ Conflict(req[b], d)}
<1>1. /\ ~Active(a) /\ served \in Nat
      /\ num' = [num EXCEPT ![a] = served + 1]
      /\ req' = [req EXCEPT ![a] = d] /\ pc' = [pc EXCEPT ![a] = d.op]
      /\ alone' = [b \in Client |-> IF b = a THEN others = {} ELSE alone[b] /\ b \notin others]
  BY DEF Begin, ClientShape
<1>. HIDE DEF others
<1>2. \A b \in Client \ {a} : /\ num'[b] = num[b] /\ req'[b] = req[b] /\ pc'[b] = pc[b]
                              /\ alone'[b] => alone[b] /\ b \notin others
                              /\ Active(b)' <=> Active(b)
  BY <1>1 DEF ClientShape, Active
<1>3. num'[a] = served + 1 /\ req'[a] = d /\ (alone'[a] => others = {})
  BY <1>1 DEF ClientShape
<1>4. \A b \in Client : num[b] \in 0..served
  BY DEF ClientShape
<1>. SUFFICES ASSUME NEW b \in Client, NEW c \in Client, b # c, Active(b)', pc'[c] # "idle",
                     Conflict(req[b], req[c])', alone'[c]
              PROVE  ~Active(c)' /\ num'[b] > num'[c]
  BY DEF Overlap
<1>5. Conflict(req'[b], req'[c])
  BY DEF Conflict
<1>6. CASE c = a
  <2>1. b \in others
    BY <1>2, <1>3, <1>5, <1>6 DEF others
  <2>. QED
    BY <1>3, <1>6, <2>1
<1>7. CASE b = a
  <2>1. Conflict(req[c], d) /\ c \notin others /\ c # a
    BY <1>2, <1>3, <1>5, <1>7, ConflictIsMutual
  <2>2. ~Active(c)
    BY <2>1 DEF others
  <2>3. num'[b] = served + 1 /\ num'[c] = num[c] /\ num[c] \in 0..served /\ ~Active(c)'
    BY <1>2, <1>3, <1>4, <1>7, <2>1, <2>2
  <2>. QED
    BY <1>1, <2>3
<1>8. CASE b # a /\ c # a
  BY <1>2, <1>5, <1>8 DEF Overlap
<1>. QED
  BY <1>6, <1>7, <1>8

\* Only a client that is being served takes a step.
LEMMA ActorActive ==
    ASSUME NEW c \in Client, SourceStep(c) \/ RecStep(c)
    PROVE  Active(c)
<1>1. ASSUME SourceStep(c)
      PROVE  Active(c)
  BY <1>1 DEF SourceStep, Active, At, Describe, DescribeGrants, Load, LoadGrants, FollowLink, FindFile,
          FileGrants, EditForm, EditGrants, ListSources, AskForAccess, FindPending, Approve, Reject,
          Withdraw, SaveSourceColumns, SaveSourceAxis, SaveSourceFails
<1>2. ASSUME RecStep(c)
      PROVE  Active(c)
  BY <1>2 DEF RecStep, Active, At, ListRecs, ListStatuses, ReadRec, ReadStatus, RenderRec, Find,
          InsertStatus, InsertUpdate, FindForEdit, ResolveScale, SaveRecColumns, SaveRecAxis,
          SaveRecFails, MoveToScale, DropScale, ExtractColumns, ExtractAxis, ExtractScale,
          ExtractRecs, ExtractFails
<1>. QED
  BY <1>1, <1>2

LEMMA OverlapNext ==
    ASSUME ClientShape, Overlap, Next
    PROVE  Overlap'
<1>1. ASSUME NEW a \in Client, Turn(a), Active(a)
      PROVE  Overlap'
  <2>1. UNCHANGED <<num, req, alone>> /\ \A b \in Client : Active(b)' => Active(b)
    BY <1>1 DEF Turn, clientVars, Active, ClientShape
  <2>2. \A b \in Client : pc'[b] # "idle" => pc[b] # "idle"
    BY <1>1 DEF Turn, ClientShape
  <2>. QED
    BY <2>1, <2>2 DEF Overlap
<1>2. CASE Happens
  <2>1. UNCHANGED <<num, req, pc, alone>>
    BY <1>2 DEF Happens, CloseAccount, clientVars
  <2>2. \A b \in Client : Active(b)' <=> Active(b)
    BY <2>1 DEF Active
  <2>. QED
    BY <2>1, <2>2 DEF Overlap
<1>. QED
  BY <1>1, <1>2, OverlapBegin, ActorActive, SourceTurn, RecTurn, NextCases DEF Moves
-------------------------------------------------------------------------------
(* The saves of a source *)

FieldsShape ==
    /\ fields \in [Source -> [SourceParts -> Nat]]
    /\ \A c \in Client : pc[c] = "sourceAxes" => axis[c] \in 1..Len(SourceAxes)

\* What has been written of a source by a save that is alone, and stays.
SourceSaved(c) ==
    req[c].op = "saveSource" /\ alone[c] =>
        /\ pc[c] = "sourceAxes" =>
              /\ fields[Src(c)]["columns"] >= num[c]
              /\ \A k \in 1..(axis[c] - 1) : fields[Src(c)][SourceAxes[k]] >= num[c]
        /\ pc[c] = "answered" /\ answer[c] = "ok" =>
              \A p \in SourceParts : fields[Src(c)][p] >= num[c]

\* A part of a source changes only as a client writes its number there.
FieldsChange ==
    \A s \in Source, p \in SourceParts :
        \/ fields'[s][p] = fields[s][p]
        \/ \E b \in Client : /\ Active(b) /\ req[b].op \in {"saveSource", "extract"} /\ Src(b) = s
                             /\ fields'[s][p] = num[b]

LEMMA AxisPart ==
    /\ \A k \in 1..Len(SourceAxes) : SourceAxes[k] \in SourceParts
    /\ \A p \in SourceParts : p = "columns" \/ \E k \in 1..Len(SourceAxes) : p = SourceAxes[k]
    /\ "columns" \in SourceParts
    /\ Len(SourceAxes) \in Nat \ {0}
  BY AxesAssumption DEF SourceParts

LEMMA WriteOnePart ==
    ASSUME NEW Row, NEW Part, NEW f \in [Row -> [Part -> Nat]], NEW s \in Row, NEW p \in Part,
           NEW n \in Nat, NEW g, g = [f EXCEPT ![s][p] = n]
    PROVE  /\ g \in [Row -> [Part -> Nat]]
           /\ \A t \in Row, q \in Part : g[t][q] = IF t = s /\ q = p THEN n ELSE f[t][q]
  OBVIOUS

LEMMA FieldsColumns ==
    ASSUME ClientShape, FieldsShape, NEW c \in Client, SaveSourceColumns(c)
    PROVE  FieldsShape' /\ FieldsChange
<1>1. req[c] \in Demand /\ req[c].op = "saveSource" /\ Active(c)
  BY DEF SaveSourceColumns, At, Active, ClientShape, OpAt
<1>2. Src(c) \in Source /\ num[c] \in Nat
  BY <1>1, DemandFields DEF Src, ClientShape
<1>3. /\ axis' = [axis EXCEPT ![c] = 1]
      /\ fields' = fields \/ fields' = [fields EXCEPT ![Src(c)]["columns"] = num[c]]
      /\ \E place : pc' = [pc EXCEPT ![c] = place]
  BY DEF SaveSourceColumns, Reply, Goto
<1>4. /\ fields' \in [Source -> [SourceParts -> Nat]]
      /\ \A t \in Source, q \in SourceParts :
            fields'[t][q] = fields[t][q] \/ (t = Src(c) /\ fields'[t][q] = num[c])
  <2>1. CASE fields' = fields
    BY <2>1 DEF FieldsShape
  <2>2. CASE fields' = [fields EXCEPT ![Src(c)]["columns"] = num[c]]
    BY <1>2, <2>2, AxisPart, WriteOnePart, Zenon DEF FieldsShape
  <2>. QED
    BY <1>3, <2>1, <2>2
<1>5. \A b \in Client : pc'[b] = "sourceAxes" => axis'[b] \in 1..Len(SourceAxes)
  BY <1>3, AxisPart DEF FieldsShape, ClientShape
<1>6. FieldsChange
  BY <1>1, <1>4 DEF FieldsChange
<1>. QED
  BY <1>4, <1>5, <1>6 DEF FieldsShape

LEMMA FieldsAxis ==
    ASSUME ClientShape, FieldsShape, NEW c \in Client, SaveSourceAxis(c)
    PROVE  FieldsShape' /\ FieldsChange
<1>1. req[c] \in Demand /\ req[c].op = "saveSource" /\ Active(c) /\ axis[c] \in 1..Len(SourceAxes)
  BY DEF SaveSourceAxis, At, Active, ClientShape, FieldsShape, OpAt
<1>2. Src(c) \in Source /\ num[c] \in Nat /\ SourceAxes[axis[c]] \in SourceParts
  BY <1>1, DemandFields, AxisPart DEF Src, ClientShape
<1>3. /\ axis' = [axis EXCEPT ![c] = @ + 1]
      /\ fields' = [fields EXCEPT ![Src(c)][SourceAxes[axis[c]]] = num[c]]
      /\ \/ axis[c] = Len(SourceAxes) /\ pc' = [pc EXCEPT ![c] = "answered"]
         \/ axis[c] # Len(SourceAxes) /\ pc' = [pc EXCEPT ![c] = "sourceAxes"]
  BY DEF SaveSourceAxis, Reply, Goto
<1>4. /\ fields' \in [Source -> [SourceParts -> Nat]]
      /\ \A t \in Source, q \in SourceParts :
            fields'[t][q] = fields[t][q] \/ (t = Src(c) /\ fields'[t][q] = num[c])
  BY <1>2, <1>3, WriteOnePart, Zenon DEF FieldsShape
<1>5. \A b \in Client : pc'[b] = "sourceAxes" => axis'[b] \in 1..Len(SourceAxes)
  BY <1>1, <1>3, AxisPart DEF FieldsShape, ClientShape
<1>6. FieldsChange
  BY <1>1, <1>4 DEF FieldsChange
<1>. QED
  BY <1>4, <1>5, <1>6 DEF FieldsShape

\* An extraction writes one part after the other, too.
LEMMA FieldsExtract ==
    ASSUME ClientShape, FieldsShape, NEW c \in Client, ExtractColumns(c) \/ ExtractAxis(c)
    PROVE  FieldsShape' /\ FieldsChange
<1>1. pc[c] \in {"extract", "extractAxes"} /\ Active(c)
  BY DEF ExtractColumns, ExtractAxis, At, Active
<1>2. req[c].op = "extract" /\ Src(c) \in Source /\ num[c] \in Nat
  BY <1>1, ExtractedSource DEF ClientShape
<1>3. PICK p \in SourceParts : fields' = [fields EXCEPT ![Src(c)][p] = num[c]]
  BY AxisPart DEF ExtractColumns, ExtractAxis
<1>4. /\ fields' \in [Source -> [SourceParts -> Nat]]
      /\ \A t \in Source, q \in SourceParts :
            fields'[t][q] = fields[t][q] \/ (t = Src(c) /\ fields'[t][q] = num[c])
  BY <1>2, <1>3, WriteOnePart, Zenon DEF FieldsShape
<1>5. \A b \in Client : pc'[b] = "sourceAxes" => pc[b] = "sourceAxes" /\ axis'[b] = axis[b]
  <2>1. axis' = axis /\ (pc' = pc \/ pc' = [pc EXCEPT ![c] = "extractAxes"])
    BY DEF ExtractColumns, ExtractAxis, Goto
  <2>. QED
    BY <2>1 DEF ClientShape
<1>6. FieldsChange
  BY <1>1, <1>2, <1>4 DEF FieldsChange
<1>. QED
  BY <1>4, <1>5, <1>6 DEF FieldsShape

\* Every other step leaves the parts alone, and sends nobody to the axes of a source.
LEMMA FieldsOther ==
    ASSUME ClientShape, FieldsShape, Next,
           \A c \in Client : /\ ~SaveSourceColumns(c) /\ ~SaveSourceAxis(c)
                             /\ ~ExtractColumns(c) /\ ~ExtractAxis(c)
    PROVE  FieldsShape' /\ FieldsChange
<1>1. fields' = fields
  <2>1. ASSUME NEW c \in Client, Moves(c)
        PROVE  fields' = fields
    <3>1. CASE SourceStep(c)
      BY <3>1 DEF SourceStep, sourceVars, Describe, DescribeGrants, Load, LoadGrants, FollowLink, FindFile,
          FileGrants, EditForm, EditGrants, ListSources, AskForAccess, FindPending, Approve, Reject,
          Withdraw, SaveSourceFails
    <3>2. CASE RecStep(c) \/ \E d \in Demand : Begin(c, d)
      BY <3>2, RecKeepsSources DEF Begin, sourceVars
    <3>. QED
      BY <2>1, <3>1, <3>2 DEF Moves
  <2>2. Happens => fields' = fields
    BY DEF Happens, CloseAccount
  <2>. QED
    BY <2>1, <2>2, NextCases
<1>2. \A b \in Client : pc'[b] = "sourceAxes" => pc[b] = "sourceAxes" /\ axis'[b] = axis[b]
  <2>1. ASSUME NEW c \in Client, SourceStep(c) \/ RecStep(c)
        PROVE  pc'[c] # "sourceAxes"
    <3>1. CASE SourceStep(c)
      BY <3>1 DEF SourceStep, ClientShape, Goto, Reply, Serve, Describe, DescribeGrants, Load, LoadGrants,
          FollowLink, FindFile, FileGrants, EditForm, EditGrants, ListSources, AskForAccess,
          FindPending, Approve, Reject, Withdraw, SaveSourceFails
    <3>2. CASE RecStep(c)
      BY <3>2 DEF RecStep, ClientShape, Goto, Reply, ListRecs, ListStatuses, ReadRec, ReadStatus, RenderRec,
          Find, InsertStatus, InsertUpdate, FindForEdit, ResolveScale, SaveRecColumns, SaveRecAxis,
          SaveRecFails, MoveToScale, DropScale, ExtractScale, ExtractRecs, ExtractFails
    <3>. QED
      BY <2>1, <3>1, <3>2
  <2>2. ASSUME NEW c \in Client, NEW d \in Demand, Begin(c, d)
        PROVE  pc'[c] # "sourceAxes"
    BY <2>2, DemandFields DEF Begin, ClientShape, SourceOps, RecOps
  <2>3. \A b \in Client : Rests(b) => pc'[b] = pc[b] /\ axis'[b] = axis[b]
    BY DEF Rests
  <2>. QED
    BY <2>1, <2>2, <2>3, NextCases, BeginShape, HappensShape, TurnShape, SourceTurn, RecTurn DEF Moves
<1>. QED
  BY <1>1, <1>2 DEF FieldsShape, FieldsChange

LEMMA FieldsNext ==
    ASSUME ClientShape, FieldsShape, Next
    PROVE  FieldsShape' /\ FieldsChange
  BY FieldsColumns, FieldsAxis, FieldsExtract, FieldsOther

\* Whoever writes a part that a save that is alone has written came after it.
LEMMA SourceKept ==
    ASSUME ClientShape, FieldsShape, FieldsShape', FieldsChange, Overlap,
           NEW c \in Client, pc[c] # "idle", req[c].op = "saveSource", alone[c],
           NEW p \in SourceParts, fields[Src(c)][p] >= num[c]
    PROVE  fields'[Src(c)][p] >= num[c]
<1>1. req[c] \in Demand /\ num[c] \in Nat
  BY DEF ClientShape
<1>2. Src(c) \in Source
  BY <1>1, DemandFields DEF Src
<1>3. ASSUME NEW b \in Client, Active(b), req[b].op \in {"saveSource", "extract"}, Src(b) = Src(c),
             fields'[Src(c)][p] = num[b]
      PROVE  fields'[Src(c)][p] >= num[c]
  <2>1. CASE b = c
    BY <1>1, <1>3, <2>1
  <2>2. CASE b # c
    <3>1. Conflict(req[b], req[c])
      BY <1>3 DEF Conflict, Src
    <3>2. num[b] > num[c]
      BY <1>3, <2>2, <3>1 DEF Overlap
    <3>3. num[b] \in Nat
      BY DEF ClientShape
    <3>. QED
      BY <1>1, <1>3, <3>2, <3>3
  <2>. QED
    BY <2>1, <2>2
<1>. QED
  BY <1>2, <1>3 DEF FieldsChange

LEMMA SourceSavedRests ==
    ASSUME ClientShape, FieldsShape, FieldsShape', FieldsChange, Overlap,
           NEW c \in Client, Rests(c), SourceSaved(c)
    PROVE  SourceSaved(c)'
<1>1. /\ pc'[c] = pc[c] /\ answer'[c] = answer[c] /\ axis'[c] = axis[c] /\ req'[c] = req[c]
      /\ num'[c] = num[c] /\ Src(c)' = Src(c)
      /\ alone'[c] => alone[c]
  BY DEF Rests, Src
<1>. SUFFICES ASSUME req[c].op = "saveSource", alone'[c]
              PROVE  SourceSaved(c)'
  BY <1>1 DEF SourceSaved
<1>2. alone[c]
  BY DEF Rests
<1>3. CASE pc[c] = "sourceAxes"
  <2>1. axis[c] \in 1..Len(SourceAxes)
    BY <1>3 DEF FieldsShape
  <2>2. \A k \in 1..(axis[c] - 1) : SourceAxes[k] \in SourceParts
    BY <2>1, AxisPart
  <2>3. /\ fields'[Src(c)]["columns"] >= num[c]
        /\ \A k \in 1..(axis[c] - 1) : fields'[Src(c)][SourceAxes[k]] >= num[c]
    BY <1>2, <1>3, <2>2, AxisPart, SourceKept DEF SourceSaved
  <2>. QED
    BY <1>1, <1>3, <2>3 DEF SourceSaved, Src
<1>4. CASE pc[c] = "answered"
  <2>1. answer[c] = "ok" => \A p \in SourceParts : fields'[Src(c)][p] >= num[c]
    BY <1>2, <1>4, SourceKept DEF SourceSaved
  <2>. QED
    BY <1>1, <1>4, <2>1 DEF SourceSaved, Src
<1>5. CASE pc[c] \notin {"sourceAxes", "answered"}
  BY <1>1, <1>5 DEF SourceSaved
<1>. QED
  BY <1>3, <1>4, <1>5

\* The save's own steps.
LEMMA SourceSavedMoves ==
    ASSUME ClientShape, FieldsShape, FieldsShape', FieldsChange, Overlap,
           NEW c \in Client, Moves(c), SourceSaved(c)
    PROVE  SourceSaved(c)'
<1>1. ASSUME NEW d \in Demand, Begin(c, d)
      PROVE  SourceSaved(c)'
  <2>1. pc'[c] \notin {"sourceAxes", "answered"}
    BY <1>1, DemandFields DEF Begin, ClientShape, SourceOps, RecOps
  <2>. QED
    BY <2>1 DEF SourceSaved
<1>2. ASSUME SourceStep(c) \/ RecStep(c), req[c].op = "saveSource"
      PROVE  SourceSaved(c)'
  <2>1. UNCHANGED <<num, req, alone>> /\ pc[c] # "idle" /\ req[c] \in Demand /\ num[c] \in Nat
    BY <1>2, SourceTurn, RecTurn DEF Turn, clientVars, ClientShape
  <2>2. Src(c) \in Source /\ Src(c)' = Src(c)
    BY <1>2, <2>1, DemandFields DEF Src
  <2>3. CASE SaveSourceColumns(c)
    <3>1. \/ pc'[c] = "answered" /\ answer'[c] = "unauthorized"
          \/ /\ pc'[c] = "sourceAxes" /\ axis'[c] = 1
             /\ fields' = [fields EXCEPT ![Src(c)]["columns"] = num[c]]
      BY <2>3 DEF SaveSourceColumns, Reply, Goto, ClientShape
    <3>2. fields' = [fields EXCEPT ![Src(c)]["columns"] = num[c]] => fields'[Src(c)]["columns"] = num[c]
      BY <2>1, <2>2, AxisPart DEF FieldsShape
    <3>. QED
      BY <2>1, <2>2, <3>1, <3>2 DEF SourceSaved
  <2>4. CASE SaveSourceAxis(c)
    <3>1. axis[c] \in 1..Len(SourceAxes) /\ SourceAxes[axis[c]] \in SourceParts /\ pc[c] = "sourceAxes"
      BY <2>4, AxisPart DEF SaveSourceAxis, At, FieldsShape
    <3>2. /\ axis'[c] = axis[c] + 1
          /\ fields' = [fields EXCEPT ![Src(c)][SourceAxes[axis[c]]] = num[c]]
          /\ \/ axis[c] = Len(SourceAxes) /\ pc'[c] = "answered"
             \/ pc'[c] = "sourceAxes"
      BY <2>4 DEF SaveSourceAxis, Reply, Goto, ClientShape
    <3>3. fields'[Src(c)][SourceAxes[axis[c]]] = num[c]
      BY <2>1, <2>2, <3>1, <3>2 DEF FieldsShape
    <3>. SUFFICES ASSUME alone[c]
                  PROVE  SourceSaved(c)'
      BY <2>1 DEF SourceSaved
    <3>4. /\ fields[Src(c)]["columns"] >= num[c]
          /\ \A k \in 1..(axis[c] - 1) : fields[Src(c)][SourceAxes[k]] >= num[c]
      BY <1>2, <3>1 DEF SourceSaved
    <3>5. \A k \in 1..(axis[c] - 1) : SourceAxes[k] \in SourceParts
      BY <3>1, AxisPart
    <3>6. /\ fields'[Src(c)]["columns"] >= num[c]
          /\ \A k \in 1..(axis[c] - 1) : fields'[Src(c)][SourceAxes[k]] >= num[c]
      BY <1>2, <2>1, <3>4, <3>5, AxisPart, SourceKept
    <3>7. \A k \in 1..axis[c] : fields'[Src(c)][SourceAxes[k]] >= num[c]
      BY <2>1, <3>1, <3>3, <3>6
    <3>8. axis[c] = Len(SourceAxes) => \A p \in SourceParts : fields'[Src(c)][p] >= num[c]
      BY <3>6, <3>7, AxisPart
    <3>. QED
      BY <2>1, <2>2, <3>1, <3>2, <3>6, <3>7, <3>8 DEF SourceSaved
  <2>5. CASE SaveSourceFails(c)
    BY <2>5 DEF SaveSourceFails, Reply, ClientShape, SourceSaved
  <2>6. CASE ~(SaveSourceColumns(c) \/ SaveSourceAxis(c) \/ SaveSourceFails(c))
    <3>1. ~SourceStep(c)
      BY <1>2, <2>1, <2>6 DEF ClientShape, OpAt, At, SourceStep, Describe, DescribeGrants, Load, LoadGrants, FollowLink, FindFile,
          FileGrants, EditForm, EditGrants, ListSources, AskForAccess, FindPending, Approve, Reject,
          Withdraw
    <3>2. ~RecStep(c)
      BY <1>2, <2>1 DEF ClientShape, OpAt, At, RecStep, ListRecs, ListStatuses, ReadRec, ReadStatus, RenderRec,
          Find, InsertStatus, InsertUpdate, FindForEdit, ResolveScale, SaveRecColumns, SaveRecAxis,
          SaveRecFails, MoveToScale, DropScale, ExtractColumns, ExtractAxis, ExtractScale,
          ExtractRecs, ExtractFails
    <3>. QED
      BY <1>2, <3>1, <3>2
  <2>. QED
    BY <2>3, <2>4, <2>5, <2>6
<1>3. ASSUME SourceStep(c) \/ RecStep(c), req[c].op # "saveSource"
      PROVE  SourceSaved(c)'
  BY <1>3, SourceTurn, RecTurn DEF Turn, clientVars, SourceSaved
<1>. QED
  BY <1>1, <1>2, <1>3 DEF Moves
-------------------------------------------------------------------------------
(* The saves of a recommendation *)

Rid(c) == req[c].rec

ContentShape ==
    /\ content \in [Rec -> [RecParts -> Nat]]
    /\ \A c \in Client : pc[c] = "recAxes" => axis[c] \in 1..Len(RecAxes)

\* A recommendation that a save has found does not come back once it is gone.
Known(c) ==
    /\ req[c].op = "saveRec"
    /\ \/ pc[c] \in {"resolve", "columns", "recAxes"}
       \/ pc[c] = "answered" /\ answer[c] = "ok"
    => Rid(c)[2] <= extracted[Rid(c)[1]]

RecSaved(c) ==
    req[c].op = "saveRec" /\ alone[c] /\ Rid(c) \in recs =>
        /\ pc[c] = "recAxes" =>
              /\ content[Rid(c)]["columns"] >= num[c]
              /\ \A k \in 1..(axis[c] - 1) : content[Rid(c)][RecAxes[k]] >= num[c]
        /\ pc[c] = "answered" /\ answer[c] = "ok" =>
              \A p \in RecParts : content[Rid(c)][p] >= num[c]

ContentChange ==
    \A r \in Rec, p \in RecParts :
        \/ content'[r][p] = content[r][p]
        \/ r \notin recs \/ r \notin recs'
        \/ \E b \in Client : /\ Active(b) /\ req[b].op = "saveRec" /\ Rid(b) = r
                             /\ content'[r][p] = num[b]

RecsChange ==
    /\ \A s \in Source : extracted'[s] >= extracted[s]
    /\ \A r \in recs' : r \in recs \/ r[2] > extracted[r[1]]

LEMMA RecAxisPart ==
    /\ \A k \in 1..Len(RecAxes) : RecAxes[k] \in RecParts
    /\ \A p \in RecParts : p = "columns" \/ \E k \in 1..Len(RecAxes) : p = RecAxes[k]
    /\ "columns" \in RecParts
    /\ Len(RecAxes) \in Nat \ {0}
  BY RecAxesAssumption DEF RecParts

LEMMA RecsNext ==
    ASSUME ClientShape, RecShape, Next
    PROVE  RecsChange
<1>1. CASE UNCHANGED <<recs, extracted>>
  BY <1>1 DEF RecsChange, RecShape
<1>2. \A t \in Source : extracted[t] \in Nat
  BY GenerationsAssumption DEF RecShape
<1>3. ASSUME NEW c \in Client, ExtractRecs(c)
      PROVE  RecsChange
  <2>1. /\ extracted' = [extracted EXCEPT ![Src(c)] = @ + 1]
        /\ recs' \subseteq recs \cup {<<Src(c), extracted[Src(c)] + 1>>}
        /\ Src(c) \in Source
    BY <1>3, ExtractedSource DEF ExtractRecs, At
  <2>2. \A t \in Source : extracted'[t] >= extracted[t]
    BY <1>2, <2>1 DEF RecShape
  <2>3. \A r \in recs' : r \in recs \/ r[2] > extracted[r[1]]
    BY <1>2, <2>1
  <2>. QED
    BY <2>2, <2>3 DEF RecsChange
<1>4. ASSUME NEW c \in Client, Moves(c)
      PROVE  UNCHANGED <<recs, extracted>> \/ ExtractRecs(c)
  BY <1>4, TurnRecs DEF Moves, Begin, recVars
<1>5. ASSUME NEW u \in User, CloseAccount(u) /\ UNCHANGED recVars
      PROVE  UNCHANGED <<recs, extracted>>
  BY <1>5 DEF recVars
<1>. QED
  BY <1>1, <1>3, <1>4, <1>5, NextCases DEF Happens

LEMMA ContentColumns ==
    ASSUME ClientShape, ContentShape, NEW c \in Client, SaveRecColumns(c)
    PROVE  ContentShape' /\ ContentChange
<1>1. req[c] \in Demand /\ req[c].op = "saveRec" /\ Active(c)
  BY DEF SaveRecColumns, At, Active, ClientShape, OpAt
<1>2. Rid(c) \in Rec /\ num[c] \in Nat
  BY <1>1, DemandFields DEF Rid, ClientShape
<1>3. /\ axis' = [axis EXCEPT ![c] = 1]
      /\ content' = content \/ content' = [content EXCEPT ![Rid(c)]["columns"] = num[c]]
      /\ \E place : pc' = [pc EXCEPT ![c] = place]
  BY DEF SaveRecColumns, Reply, Goto, Rid
<1>4. /\ content' \in [Rec -> [RecParts -> Nat]]
      /\ \A t \in Rec, q \in RecParts :
            content'[t][q] = content[t][q] \/ (t = Rid(c) /\ content'[t][q] = num[c])
  <2>1. CASE content' = content
    BY <2>1 DEF ContentShape
  <2>2. CASE content' = [content EXCEPT ![Rid(c)]["columns"] = num[c]]
    BY <1>2, <2>2, RecAxisPart, WriteOnePart, Zenon DEF ContentShape
  <2>. QED
    BY <1>3, <2>1, <2>2
<1>5. \A b \in Client : pc'[b] = "recAxes" => axis'[b] \in 1..Len(RecAxes)
  BY <1>3, RecAxisPart DEF ContentShape, ClientShape
<1>6. ContentChange
  BY <1>1, <1>4 DEF ContentChange
<1>. QED
  BY <1>4, <1>5, <1>6 DEF ContentShape

LEMMA ContentAxis ==
    ASSUME ClientShape, ContentShape, NEW c \in Client, SaveRecAxis(c)
    PROVE  ContentShape' /\ ContentChange
<1>1. req[c] \in Demand /\ req[c].op = "saveRec" /\ Active(c) /\ axis[c] \in 1..Len(RecAxes)
  BY DEF SaveRecAxis, At, Active, ClientShape, ContentShape, OpAt
<1>2. Rid(c) \in Rec /\ num[c] \in Nat /\ RecAxes[axis[c]] \in RecParts
  BY <1>1, DemandFields, RecAxisPart DEF Rid, ClientShape
<1>3. /\ axis' = [axis EXCEPT ![c] = @ + 1]
      /\ content' = content \/ content' = [content EXCEPT ![Rid(c)][RecAxes[axis[c]]] = num[c]]
      /\ \/ pc' = [pc EXCEPT ![c] = "answered"]
         \/ axis[c] # Len(RecAxes) /\ pc' = [pc EXCEPT ![c] = "recAxes"]
  BY DEF SaveRecAxis, Reply, Goto, Rid
<1>4. /\ content' \in [Rec -> [RecParts -> Nat]]
      /\ \A t \in Rec, q \in RecParts :
            content'[t][q] = content[t][q] \/ (t = Rid(c) /\ content'[t][q] = num[c])
  <2>1. CASE content' = content
    BY <2>1 DEF ContentShape
  <2>2. CASE content' = [content EXCEPT ![Rid(c)][RecAxes[axis[c]]] = num[c]]
    BY <1>2, <2>2, WriteOnePart, Zenon DEF ContentShape
  <2>. QED
    BY <1>3, <2>1, <2>2
<1>5. \A b \in Client : pc'[b] = "recAxes" => axis'[b] \in 1..Len(RecAxes)
  BY <1>1, <1>3, RecAxisPart DEF ContentShape, ClientShape
<1>6. ContentChange
  BY <1>1, <1>4 DEF ContentChange
<1>. QED
  BY <1>4, <1>5, <1>6 DEF ContentShape

\* What an extraction writes are recommendations that are new or gone.
LEMMA ContentReplaced ==
    ASSUME ClientShape, ContentShape, RecShape, NEW c \in Client, ExtractRecs(c)
    PROVE  ContentShape' /\ ContentChange
<1>. DEFINE s == Src(c)
            fresh == <<s, extracted[s] + 1>>
<1>1. s \in Source /\ num[c] \in Nat /\ extracted[s] \in Nat
  BY ExtractedSource, GenerationsAssumption DEF ExtractRecs, At, RecShape, ClientShape
<1>2. PICK found \in BOOLEAN :
         /\ recs' = {r \in recs : r[1] # s} \cup (IF found THEN {fresh} ELSE {})
         /\ content' = [r \in Rec |-> IF r[1] # s THEN content[r]
                                     ELSE IF found /\ r = fresh THEN [p \in RecParts |-> num[c]]
                                     ELSE [p \in RecParts |-> 0]]
  BY Zenon DEF ExtractRecs
<1>3. fresh \notin recs
  <2>1. fresh[1] = s /\ fresh[2] = extracted[s] + 1
    OBVIOUS
  <2>2. fresh \in recs => fresh[2] = extracted[s]
    BY <2>1 DEF RecShape
  <2>. QED
    BY <1>1, <2>1, <2>2
<1>. HIDE DEF s, fresh
<1>4. content' \in [Rec -> [RecParts -> Nat]]
  <2>1. [p \in RecParts |-> num[c]] \in [RecParts -> Nat] /\ [p \in RecParts |-> 0] \in [RecParts -> Nat]
    BY <1>1
  <2>. QED
    BY <1>2, <2>1 DEF ContentShape
<1>5. \A r \in Rec : content'[r] = content[r] \/ r \notin recs \/ r \notin recs'
  <2>. SUFFICES ASSUME NEW r \in Rec, content'[r] # content[r], r \in recs
                PROVE  r \notin recs'
    OBVIOUS
  <2>. QED
    BY <1>2, <1>3
<1>6. \A b \in Client : pc'[b] = "recAxes" => pc[b] = "recAxes" /\ axis'[b] = axis[b]
  BY DEF ExtractRecs, Reply, ClientShape
<1>. QED
  BY <1>4, <1>5, <1>6 DEF ContentShape, ContentChange

LEMMA ContentOther ==
    ASSUME ClientShape, ContentShape, Next,
           \A c \in Client : ~SaveRecColumns(c) /\ ~SaveRecAxis(c) /\ ~ExtractRecs(c)
    PROVE  ContentShape' /\ ContentChange
<1>1. content' = content
  <2>1. ASSUME NEW c \in Client, Moves(c)
        PROVE  content' = content
    <3>1. CASE RecStep(c)
      BY <3>1 DEF RecStep, recVars, ListRecs, ListStatuses, ReadRec, ReadStatus, RenderRec, Find,
          InsertStatus, InsertUpdate, FindForEdit, ResolveScale, SaveRecFails, MoveToScale, DropScale,
          ExtractColumns, ExtractAxis, ExtractScale, ExtractFails
    <3>2. CASE UNCHANGED recVars \/ \E d \in Demand : Begin(c, d)
      BY <3>2 DEF Begin, recVars
    <3>. QED
      BY <2>1, <3>1, <3>2 DEF Moves
  <2>2. Happens => content' = content
    BY DEF Happens, recVars
  <2>. QED
    BY <2>1, <2>2, NextCases
<1>2. \A b \in Client : pc'[b] = "recAxes" => pc[b] = "recAxes" /\ axis'[b] = axis[b]
  <2>1. ASSUME NEW c \in Client, SourceStep(c) \/ RecStep(c)
        PROVE  pc'[c] # "recAxes"
    <3>1. CASE SourceStep(c)
      BY <3>1 DEF SourceStep, ClientShape, Goto, Reply, Serve, Describe, DescribeGrants, Load, LoadGrants,
          FollowLink, FindFile, FileGrants, EditForm, EditGrants, ListSources, AskForAccess,
          FindPending, Approve, Reject, Withdraw, SaveSourceColumns, SaveSourceAxis, SaveSourceFails
    <3>2. CASE ExtractColumns(c) \/ ExtractAxis(c) \/ ExtractScale(c) \/ ExtractFails(c)
      BY <3>2 DEF ClientShape, Goto, Reply, At, ExtractColumns, ExtractAxis, ExtractScale,
          ExtractFails
    <3>3. CASE ListRecs(c) \/ ListStatuses(c) \/ ReadRec(c) \/ ReadStatus(c) \/ RenderRec(c) \/ Find(c)
               \/ InsertStatus(c) \/ InsertUpdate(c)
      BY <3>3 DEF ClientShape, Goto, Reply, ListRecs, ListStatuses, ReadRec, ReadStatus, RenderRec,
          Find, InsertStatus, InsertUpdate
    <3>4. CASE FindForEdit(c) \/ ResolveScale(c) \/ SaveRecFails(c) \/ MoveToScale(c) \/ DropScale(c)
      BY <3>4 DEF ClientShape, Goto, Reply, FindForEdit, ResolveScale, SaveRecFails, MoveToScale, DropScale
    <3>. QED
      BY <2>1, <3>1, <3>2, <3>3, <3>4 DEF RecStep
  <2>2. ASSUME NEW c \in Client, NEW d \in Demand, Begin(c, d)
        PROVE  pc'[c] # "recAxes"
    BY <2>2, DemandFields DEF Begin, ClientShape, SourceOps, RecOps
  <2>3. \A b \in Client : Rests(b) => pc'[b] = pc[b] /\ axis'[b] = axis[b]
    BY DEF Rests
  <2>. QED
    BY <2>1, <2>2, <2>3, NextCases, BeginShape, HappensShape, TurnShape, SourceTurn, RecTurn DEF Moves
<1>. QED
  BY <1>1, <1>2 DEF ContentShape, ContentChange

LEMMA ContentNext ==
    ASSUME ClientShape, ContentShape, RecShape, Next
    PROVE  ContentShape' /\ ContentChange
  BY ContentColumns, ContentAxis, ContentReplaced, ContentOther

\* What the save has found.
LEMMA KnownRests ==
    ASSUME ClientShape, RecShape, RecShape', RecsChange, NEW c \in Client, Rests(c), Known(c)
    PROVE  Known(c)'
<1>. SUFFICES ASSUME req'[c].op = "saveRec",
                     \/ pc'[c] \in {"resolve", "columns", "recAxes"}
                     \/ pc'[c] = "answered" /\ answer'[c] = "ok"
              PROVE  Rid(c)'[2] <= extracted'[Rid(c)'[1]]
  BY DEF Known
<1>1. pc'[c] = pc[c] /\ answer'[c] = answer[c] /\ req'[c] = req[c] /\ Rid(c)' = Rid(c)
  BY DEF Rests, Rid
<1>2. req[c] \in Demand
  BY <1>1 DEF ClientShape
<1>3. Rid(c) \in Rec
  BY <1>1, <1>2, DemandFields DEF Rid
<1>4. Rid(c)[1] \in Source /\ Rid(c)[2] \in 1..MaxGenerations
  BY <1>3 DEF Rec
<1>5. Rid(c)[2] <= extracted[Rid(c)[1]]
  BY <1>1 DEF Known
<1>6. extracted[Rid(c)[1]] \in Nat /\ extracted'[Rid(c)[1]] \in Nat
  BY <1>4, GenerationsAssumption DEF RecShape
<1>7. extracted'[Rid(c)[1]] >= extracted[Rid(c)[1]]
  BY <1>4 DEF RecsChange
<1>. QED
  BY <1>1, <1>4, <1>5, <1>6, <1>7

\* The steps of a save of a recommendation.
LEMMA SaveRecSteps ==
    ASSUME ClientShape, NEW c \in Client, SourceStep(c) \/ RecStep(c), req[c].op = "saveRec"
    PROVE  /\ \/ FindForEdit(c) \/ ResolveScale(c) \/ SaveRecColumns(c) \/ SaveRecAxis(c)
              \/ SaveRecFails(c)
           /\ UNCHANGED <<recs, extracted, req, num, alone>> /\ Rid(c)' = Rid(c)
           /\ req[c] \in Demand /\ Rid(c) \in Rec /\ num[c] \in Nat /\ Active(c)
<1>1. Turn(c) /\ Active(c)
  BY SourceTurn, RecTurn, ActorActive
<1>2. req[c] \in Demand /\ UNCHANGED <<req, num, alone>> /\ num[c] \in Nat
  BY <1>1 DEF Turn, clientVars, ClientShape
<1>3. ~SourceStep(c)
  BY <1>1 DEF ClientShape, Active, OpAt, At, SourceStep, Describe, DescribeGrants, Load, LoadGrants,
     FollowLink, FindFile, FileGrants, EditForm, EditGrants, ListSources, AskForAccess, FindPending,
     Approve, Reject, Withdraw, SaveSourceColumns, SaveSourceAxis, SaveSourceFails
<1>4. RecStep(c)
  BY <1>3
<1>5. UNCHANGED <<recs, extracted>>
  <2>1. ~ExtractRecs(c)
    BY ExtractedSource DEF ExtractRecs, At
  <2>. QED
    BY <1>4, <2>1, TurnRecs
<1>6. \/ FindForEdit(c) \/ ResolveScale(c) \/ SaveRecColumns(c) \/ SaveRecAxis(c) \/ SaveRecFails(c)
  BY <1>1, <1>4 DEF ClientShape, Active, OpAt, At, RecStep, ListRecs, ListStatuses, ReadRec, ReadStatus,
     RenderRec, Find, InsertStatus, InsertUpdate, MoveToScale, DropScale,
     ExtractColumns, ExtractAxis, ExtractScale, ExtractRecs, ExtractFails
<1>7. Rid(c) \in Rec /\ Rid(c)' = Rid(c)
  BY <1>2, DemandFields DEF Rid
<1>. QED
  BY <1>1, <1>2, <1>5, <1>6, <1>7

LEMMA KnownMoves ==
    ASSUME ClientShape, RecShape, NEW c \in Client, Moves(c), Known(c)
    PROVE  Known(c)'
<1>1. ASSUME NEW d \in Demand, Begin(c, d)
      PROVE  Known(c)'
  <2>1. pc'[c] \notin {"resolve", "columns", "recAxes", "answered"}
    BY <1>1, DemandFields DEF Begin, ClientShape, SourceOps, RecOps
  <2>. QED
    BY <2>1 DEF Known
<1>2. ASSUME SourceStep(c) \/ RecStep(c), req[c].op = "saveRec"
      PROVE  Known(c)'
  <2>1. /\ \/ FindForEdit(c) \/ ResolveScale(c) \/ SaveRecColumns(c) \/ SaveRecAxis(c)
           \/ SaveRecFails(c)
        /\ UNCHANGED <<recs, extracted, req>> /\ Rid(c)' = Rid(c) /\ Rid(c) \in Rec
    BY <1>2, SaveRecSteps
  <2>2. CASE FindForEdit(c)
    <3>1. Rid(c) \in recs \/ (pc'[c] = "answered" /\ answer'[c] = "notFound")
      BY <2>2 DEF FindForEdit, Reply, ClientShape, Visible, Rid
    <3>2. Rid(c) \in recs => Rid(c)[2] = extracted[Rid(c)[1]] /\ extracted[Rid(c)[1]] \in Nat
      BY GenerationsAssumption DEF RecShape
    <3>. QED
      BY <2>1, <3>1, <3>2 DEF Known
  <2>3. CASE ~FindForEdit(c)
    <3>1. \/ pc[c] \in {"resolve", "columns", "recAxes"}
          \/ pc'[c] = "answered" /\ answer'[c] = "error"
      BY <2>1, <2>3 DEF ResolveScale, SaveRecColumns, SaveRecAxis, SaveRecFails, At, Reply, ClientShape
    <3>. QED
      BY <1>2, <2>1, <3>1 DEF Known
  <2>. QED
    BY <2>2, <2>3
<1>3. ASSUME SourceStep(c) \/ RecStep(c), req[c].op # "saveRec"
      PROVE  Known(c)'
  BY <1>3, SourceTurn, RecTurn DEF Turn, clientVars, Known
<1>. QED
  BY <1>1, <1>2, <1>3 DEF Moves

LEMMA RecKept ==
    ASSUME ClientShape, ContentShape, ContentShape', ContentChange, RecsChange, RecShape, Overlap,
           NEW c \in Client, pc[c] # "idle", req[c].op = "saveRec", alone[c],
           Rid(c)[2] <= extracted[Rid(c)[1]], Rid(c) \in recs'
    PROVE  /\ Rid(c) \in recs
           /\ \A p \in RecParts : content[Rid(c)][p] >= num[c] => content'[Rid(c)][p] >= num[c]
<1>1. req[c] \in Demand /\ num[c] \in Nat
  BY DEF ClientShape
<1>2. Rid(c) \in Rec
  BY <1>1, DemandFields DEF Rid
<1>3. Rid(c) \in recs
  <2>1. Rid(c)[1] \in Source /\ Rid(c)[2] \in Nat /\ extracted[Rid(c)[1]] \in Nat
    BY <1>2, GenerationsAssumption DEF Rec, RecShape
  <2>. QED
    BY <2>1 DEF RecsChange
<1>4. ASSUME NEW p \in RecParts, content[Rid(c)][p] >= num[c],
             NEW b \in Client, Active(b), req[b].op = "saveRec", Rid(b) = Rid(c),
             content'[Rid(c)][p] = num[b]
      PROVE  content'[Rid(c)][p] >= num[c]
  <2>1. CASE b = c
    BY <1>1, <1>4, <2>1
  <2>2. CASE b # c
    <3>1. Conflict(req[b], req[c])
      BY <1>4 DEF Conflict, Rid
    <3>2. num[b] > num[c] /\ num[b] \in Nat
      BY <1>4, <2>2, <3>1 DEF Overlap, ClientShape
    <3>. QED
      BY <1>1, <1>4, <3>2
  <2>. QED
    BY <2>1, <2>2
<1>. QED
  BY <1>2, <1>3, <1>4 DEF ContentChange

LEMMA RecSavedRests ==
    ASSUME ClientShape, ContentShape, ContentShape', ContentChange, RecsChange, RecShape, Overlap,
           NEW c \in Client, Rests(c), Known(c), RecSaved(c)
    PROVE  RecSaved(c)'
<1>1. /\ pc'[c] = pc[c] /\ answer'[c] = answer[c] /\ axis'[c] = axis[c] /\ req'[c] = req[c]
      /\ num'[c] = num[c] /\ Rid(c)' = Rid(c)
  BY DEF Rests, Rid
<1>. SUFFICES ASSUME req[c].op = "saveRec", alone'[c], Rid(c) \in recs'
              PROVE  RecSaved(c)'
  BY <1>1 DEF RecSaved
<1>2. alone[c]
  BY DEF Rests
<1>3. CASE pc[c] = "recAxes"
  <2>1. axis[c] \in 1..Len(RecAxes) /\ Rid(c)[2] <= extracted[Rid(c)[1]]
    BY <1>3 DEF ContentShape, Known
  <2>2. \A k \in 1..(axis[c] - 1) : RecAxes[k] \in RecParts
    BY <2>1, RecAxisPart
  <2>3. /\ content'[Rid(c)]["columns"] >= num[c]
        /\ \A k \in 1..(axis[c] - 1) : content'[Rid(c)][RecAxes[k]] >= num[c]
    BY <1>2, <1>3, <2>1, <2>2, RecAxisPart, RecKept DEF RecSaved
  <2>. QED
    BY <1>1, <1>3, <2>3 DEF RecSaved, Rid
<1>4. CASE pc[c] = "answered" /\ answer[c] = "ok"
  <2>1. Rid(c)[2] <= extracted[Rid(c)[1]]
    BY <1>4 DEF Known
  <2>2. \A p \in RecParts : content'[Rid(c)][p] >= num[c]
    BY <1>2, <1>4, <2>1, RecKept DEF RecSaved
  <2>. QED
    BY <1>1, <1>4, <2>2 DEF RecSaved, Rid
<1>5. CASE pc[c] # "recAxes" /\ ~(pc[c] = "answered" /\ answer[c] = "ok")
  BY <1>1, <1>5 DEF RecSaved
<1>. QED
  BY <1>3, <1>4, <1>5

LEMMA RecSavedMoves ==
    ASSUME ClientShape, ContentShape, ContentShape', ContentChange, RecsChange, RecShape, Overlap,
           NEW c \in Client, Moves(c), Known(c), RecSaved(c)
    PROVE  RecSaved(c)'
<1>1. ASSUME NEW d \in Demand, Begin(c, d)
      PROVE  RecSaved(c)'
  <2>1. pc'[c] \notin {"recAxes", "answered"}
    BY <1>1, DemandFields DEF Begin, ClientShape, SourceOps, RecOps
  <2>. QED
    BY <2>1 DEF RecSaved
<1>2. ASSUME SourceStep(c) \/ RecStep(c), req[c].op = "saveRec"
      PROVE  RecSaved(c)'
  <2>1. /\ \/ FindForEdit(c) \/ ResolveScale(c) \/ SaveRecColumns(c) \/ SaveRecAxis(c)
           \/ SaveRecFails(c)
        /\ UNCHANGED <<recs, extracted, req, num, alone>> /\ Rid(c)' = Rid(c)
        /\ Rid(c) \in Rec /\ num[c] \in Nat /\ Active(c)
    BY <1>2, SaveRecSteps
  <2>2. CASE FindForEdit(c) \/ ResolveScale(c) \/ SaveRecFails(c)
    <3>1. \/ pc'[c] \notin {"recAxes", "answered"}
          \/ pc'[c] = "answered" /\ answer'[c] # "ok"
      BY <2>2 DEF FindForEdit, ResolveScale, SaveRecFails, Reply, Goto, ClientShape
    <3>. QED
      BY <3>1 DEF RecSaved
  <2>3. CASE SaveRecColumns(c)
    <3>1. Rid(c) \in recs =>
            \/ pc'[c] = "answered" /\ answer'[c] = "error"
            \/ /\ pc'[c] = "recAxes" /\ axis'[c] = 1
               /\ content' = [content EXCEPT ![Rid(c)]["columns"] = num[c]]
      BY <2>3 DEF SaveRecColumns, Reply, Goto, ClientShape, Rid
    <3>2. content' = [content EXCEPT ![Rid(c)]["columns"] = num[c]] => content'[Rid(c)]["columns"] = num[c]
      BY <2>1, RecAxisPart DEF ContentShape
    <3>. QED
      BY <2>1, <3>1, <3>2 DEF RecSaved, Rid
  <2>4. CASE SaveRecAxis(c)
    <3>1. axis[c] \in 1..Len(RecAxes) /\ RecAxes[axis[c]] \in RecParts /\ pc[c] = "recAxes"
      BY <2>4, RecAxisPart DEF SaveRecAxis, At, ContentShape
    <3>. SUFFICES ASSUME alone[c], Rid(c) \in recs
                  PROVE  RecSaved(c)'
      BY <2>1 DEF RecSaved
    <3>2. /\ axis'[c] = axis[c] + 1
          /\ content' = [content EXCEPT ![Rid(c)][RecAxes[axis[c]]] = num[c]]
          /\ \/ axis[c] = Len(RecAxes) /\ pc'[c] = "answered"
             \/ pc'[c] = "recAxes"
      BY <2>4 DEF SaveRecAxis, Reply, Goto, ClientShape, Rid
    <3>3. content'[Rid(c)][RecAxes[axis[c]]] = num[c]
      BY <2>1, <3>1, <3>2 DEF ContentShape
    <3>4. /\ content[Rid(c)]["columns"] >= num[c]
          /\ \A k \in 1..(axis[c] - 1) : content[Rid(c)][RecAxes[k]] >= num[c]
      BY <1>2, <3>1 DEF RecSaved
    <3>5. \A k \in 1..(axis[c] - 1) : RecAxes[k] \in RecParts
      BY <3>1, RecAxisPart
    <3>6. Rid(c)[2] <= extracted[Rid(c)[1]]
      BY <1>2, <3>1 DEF Known
    <3>7. /\ content'[Rid(c)]["columns"] >= num[c]
          /\ \A k \in 1..(axis[c] - 1) : content'[Rid(c)][RecAxes[k]] >= num[c]
      BY <1>2, <2>1, <3>1, <3>4, <3>5, <3>6, RecAxisPart, RecKept
    <3>8. \A k \in 1..axis[c] : content'[Rid(c)][RecAxes[k]] >= num[c]
      BY <2>1, <3>1, <3>3, <3>7
    <3>9. axis[c] = Len(RecAxes) => \A p \in RecParts : content'[Rid(c)][p] >= num[c]
      BY <3>7, <3>8, RecAxisPart
    <3>. QED
      BY <2>1, <3>1, <3>2, <3>7, <3>8, <3>9 DEF RecSaved, Rid
  <2>. QED
    BY <2>1, <2>2, <2>3, <2>4
<1>3. ASSUME SourceStep(c) \/ RecStep(c), req[c].op # "saveRec"
      PROVE  RecSaved(c)'
  BY <1>3, SourceTurn, RecTurn DEF Turn, clientVars, RecSaved
<1>. QED
  BY <1>1, <1>2, <1>3 DEF Moves
-------------------------------------------------------------------------------
(* The merge of a timescale *)

ScaleShape ==
    /\ scale = [r \in Rec |-> scale[r]]
    /\ \A r \in Rec : r \notin recs => scale[r] = NoScale

\* After the UPDATE of a merge nothing has the timescale but what was given it since.
Moved(c) == pc[c] = "dropScale" /\ ~given[c] => \A r \in Rec : scale[r] # req[c].from

LEMMA ScaleIsSome ==
    ASSUME NEW x \in Scale
    PROVE  x # NoScale
  BY DEF Scale, NoScale

LEMMA ScaleStep ==
    ASSUME ClientShape, ScaleShape, NEW c \in Client, RecStep(c), ~ExtractRecs(c)
    PROVE  ScaleShape'
<1>1. recs' = recs
  BY TurnRecs
<1>2. CASE SaveRecColumns(c)
  <2>1. \/ scale' = scale
        \/ req[c].rec \in recs /\ scale' = [scale EXCEPT ![req[c].rec] = got[c].scale]
    BY <1>2 DEF SaveRecColumns
  <2>. QED
    BY <1>1, <2>1 DEF ScaleShape
<1>3. CASE MoveToScale(c)
  <2>1. /\ scale' = [r \in Rec |-> scale'[r]]
        /\ \A r \in Rec : r \notin recs => scale'[r] = scale[r]
    BY <1>3 DEF MoveToScale, ScaleShape
  <2>. QED
    BY <1>1, <2>1 DEF ScaleShape
<1>4. CASE DropScale(c)
  BY <1>1, <1>4 DEF DropScale, ScaleShape
<1>5. CASE ~(SaveRecColumns(c) \/ MoveToScale(c) \/ DropScale(c))
  <2>1. scale' = scale
    BY <1>5 DEF RecStep, recVars, ListRecs, ListStatuses, ReadRec, ReadStatus, RenderRec, Find,
          InsertStatus, InsertUpdate, FindForEdit, ResolveScale, SaveRecAxis, SaveRecFails,
          ExtractColumns, ExtractAxis, ExtractScale, ExtractFails
  <2>. QED
    BY <1>1, <2>1 DEF ScaleShape
<1>. QED
  BY <1>2, <1>3, <1>4, <1>5

LEMMA ScaleReplaced ==
    ASSUME ScaleShape, RecShape, NEW c \in Client, ExtractRecs(c)
    PROVE  ScaleShape'
<1>. DEFINE s == Src(c)
            fresh == <<s, extracted[s] + 1>>
<1>1. PICK found \in BOOLEAN :
         /\ recs' = {r \in recs : r[1] # s} \cup (IF found THEN {fresh} ELSE {})
         /\ scale' = [r \in Rec |-> IF r[1] # s THEN scale[r]
                                   ELSE IF found /\ r = fresh THEN got[c].scale ELSE NoScale]
  BY Zenon DEF ExtractRecs
<1>. HIDE DEF s, fresh
<1>2. scale' = [r \in Rec |-> scale'[r]]
  BY <1>1
<1>3. \A r \in Rec : r \notin recs' => scale'[r] = NoScale
  BY <1>1 DEF ScaleShape
<1>. QED
  BY <1>2, <1>3 DEF ScaleShape

LEMMA ScaleNext ==
    ASSUME ClientShape, ScaleShape, RecShape, Next
    PROVE  ScaleShape'
<1>1. CASE UNCHANGED <<recs, scale>>
  BY <1>1 DEF ScaleShape
<1>2. ASSUME NEW c \in Client, Moves(c)
      PROVE  RecStep(c) \/ UNCHANGED <<recs, scale>>
  BY <1>2 DEF Moves, Begin, recVars
<1>3. ASSUME NEW u \in User, CloseAccount(u) /\ UNCHANGED recVars
      PROVE  UNCHANGED <<recs, scale>>
  BY <1>3 DEF recVars
<1>. QED
  BY <1>1, <1>2, <1>3, ScaleStep, ScaleReplaced, NextCases DEF Happens

\* Who gives a recommendation the timescale that is merged is seen to do so.
LEMMA MovedRests ==
    ASSUME Observe, NEW c \in Client, Rests(c), Moved(c)
    PROVE  Moved(c)'
<1>. SUFFICES ASSUME pc'[c] = "dropScale", ~given'[c], NEW r \in Rec
              PROVE  scale'[r] # req'[c].from
  BY DEF Moved
<1>1. pc[c] = "dropScale" /\ req'[c] = req[c]
  BY DEF Rests
<1>2. ~given[c] /\ ~(scale[r] # req[c].from /\ scale'[r] = req[c].from)
  BY <1>1 DEF Observe, At
<1>. QED
  BY <1>1, <1>2 DEF Moved

LEMMA MovedMoves ==
    ASSUME ClientShape, ScaleShape, NEW c \in Client, Moves(c)
    PROVE  Moved(c)'
<1>1. CASE MoveToScale(c)
  <2>1. req[c].op = "mergeScale" /\ req[c] \in Demand /\ req' = req
    BY <1>1 DEF MoveToScale, At, ClientShape, OpAt, clientVars
  <2>2. req[c].from # NoScale
    BY <2>1, DemandFields, ScaleIsSome
  <2>3. pc'[c] = "dropScale" => \A r \in Rec : scale'[r] # req[c].from
    <3>1. pc'[c] = "dropScale" =>
            /\ req[c].from # req[c].to
            /\ scale' = [r \in Rec |-> IF r \in recs /\ scale[r] = req[c].from THEN req[c].to ELSE scale[r]]
      BY <1>1 DEF MoveToScale, Reply, ClientShape
    <3>. QED
      BY <2>2, <3>1 DEF ScaleShape
  <2>. QED
    BY <2>1, <2>3 DEF Moved
<1>2. CASE ~MoveToScale(c)
  <2>1. ASSUME NEW d \in Demand, Begin(c, d)
        PROVE  pc'[c] # "dropScale"
    BY <2>1, DemandFields DEF Begin, ClientShape, SourceOps, RecOps
  <2>2. CASE SourceStep(c)
    BY <2>2 DEF Moved, SourceStep, ClientShape, Goto, Reply, Serve, Describe, DescribeGrants, Load, LoadGrants,
          FollowLink, FindFile, FileGrants, EditForm, EditGrants, ListSources, AskForAccess,
          FindPending, Approve, Reject, Withdraw, SaveSourceColumns, SaveSourceAxis, SaveSourceFails
  <2>3. ASSUME RecStep(c)
        PROVE  pc'[c] # "dropScale"
    <3>1. CASE ExtractColumns(c) \/ ExtractAxis(c) \/ ExtractScale(c) \/ ExtractRecs(c) \/ ExtractFails(c)
      BY <3>1 DEF ClientShape, Goto, Reply, At, ExtractColumns, ExtractAxis, ExtractScale, ExtractRecs,
          ExtractFails
    <3>2. CASE ListRecs(c) \/ ListStatuses(c) \/ ReadRec(c) \/ ReadStatus(c) \/ RenderRec(c) \/ Find(c)
               \/ InsertStatus(c) \/ InsertUpdate(c)
      BY <3>2 DEF ClientShape, Goto, Reply, ListRecs, ListStatuses, ReadRec, ReadStatus, RenderRec,
          Find, InsertStatus, InsertUpdate
    <3>3. CASE FindForEdit(c) \/ ResolveScale(c) \/ SaveRecColumns(c) \/ SaveRecAxis(c)
               \/ SaveRecFails(c) \/ DropScale(c)
      BY <3>3 DEF ClientShape, Goto, Reply, FindForEdit, ResolveScale, SaveRecColumns, SaveRecAxis,
          SaveRecFails, DropScale
    <3>. QED
      BY <1>2, <2>3, <3>1, <3>2, <3>3 DEF RecStep
  <2>. QED
    BY <2>1, <2>2, <2>3 DEF Moves, Moved
<1>. QED
  BY <1>1, <1>2
-------------------------------------------------------------------------------
(* The inductive invariant *)

SInv ==
    /\ Overlap /\ FieldsShape /\ ContentShape /\ ScaleShape
    /\ \A c \in Client : SourceSaved(c) /\ Known(c) /\ RecSaved(c) /\ Moved(c)

LEMMA InitSInv ==
    ASSUME Init
    PROVE  SInv
<1>1. \A c \in Client : pc[c] = "idle"
  BY DEF Init
<1>2. Overlap
  BY <1>1 DEF Overlap
<1>3. FieldsShape /\ ContentShape
  BY <1>1 DEF Init, SourceInit, RecInit, FieldsShape, ContentShape
<1>4. ScaleShape
  BY DEF Init, RecInit, ScaleShape
<1>. QED
  BY <1>1, <1>2, <1>3, <1>4 DEF SInv, SourceSaved, Known, RecSaved, Moved

LEMMA NextSInv ==
    ASSUME IInv, SInv, Next
    PROVE  SInv'
<1>1. /\ ClientShape /\ GotShape /\ RecShape /\ Overlap /\ FieldsShape /\ ContentShape /\ ScaleShape
      /\ Observe
  BY NextCases DEF IInv, SInv
<1>2. RecShape' /\ RecsChange
  BY <1>1, NextShapes, RecsNext
<1>3. /\ Overlap' /\ FieldsShape' /\ FieldsChange /\ ContentShape' /\ ContentChange
      /\ ScaleShape'
  BY <1>1, OverlapNext, FieldsNext, ContentNext, ScaleNext
<1>. DEFINE Kept(c) == SourceSaved(c) /\ Known(c) /\ RecSaved(c) /\ Moved(c)
<1>4. \A c \in Client : Kept(c)
  BY DEF SInv
<1>5. ASSUME NEW c \in Client, Rests(c)
      PROVE  Kept(c)'
  <2>1. SourceSaved(c)' /\ Known(c)' /\ RecSaved(c)'
    BY <1>1, <1>2, <1>3, <1>4, <1>5, SourceSavedRests, KnownRests, RecSavedRests
  <2>2. Moved(c)'
    BY <1>1, <1>4, <1>5, MovedRests
  <2>. QED
    BY <2>1, <2>2
<1>6. ASSUME NEW c \in Client, Moves(c)
      PROVE  Kept(c)'
  BY <1>1, <1>2, <1>3, <1>4, <1>6, SourceSavedMoves, KnownMoves, RecSavedMoves, MovedMoves
<1>7. ASSUME NEW c \in Client, Moves(c)
      PROVE  \A b \in Client \ {c} : Rests(b)
  BY <1>1, <1>7, SourceTurn, RecTurn, TurnShape, BeginShape DEF Moves
<1>8. \A c \in Client : Kept(c)'
  <2>. HIDE DEF Kept
  <2>. QED
    BY <1>1, <1>5, <1>6, <1>7, NextCases, HappensShape
<1>. QED
  BY <1>3, <1>8 DEF SInv

LEMMA StutterSInv ==
    ASSUME SInv, UNCHANGED vars
    PROVE  SInv'
<1>1. UNCHANGED <<fields, recs, extracted, content, scale, req, num, alone, axis, pc, answer, given>>
  BY DEF vars, sourceVars, recVars, clientVars
<1>2. Overlap'
  BY <1>1 DEF SInv, Overlap, Active, Conflict
<1>3. FieldsShape' /\ ContentShape' /\ ScaleShape'
  BY <1>1 DEF SInv, FieldsShape, ContentShape, ScaleShape
<1>4. ASSUME NEW c \in Client
      PROVE  (SourceSaved(c) /\ Known(c) /\ RecSaved(c) /\ Moved(c))'
  <2>1. SourceSaved(c)'
    BY <1>1 DEF SInv, SourceSaved, Src
  <2>2. Known(c)' /\ RecSaved(c)'
    BY <1>1 DEF SInv, Known, RecSaved, Rid
  <2>3. Moved(c)'
    BY <1>1 DEF SInv, Moved
  <2>. QED
    BY <2>1, <2>2, <2>3
<1>. QED
  BY <1>2, <1>3, <1>4 DEF SInv

LEMMA AlwaysSInv == Spec => []SInv
<1>1. IInv /\ SInv /\ [Next]_vars => SInv'
  BY NextSInv, StutterSInv
<1>. QED
  BY InitSInv, AlwaysIInv, <1>1, PTL DEF Spec
-------------------------------------------------------------------------------
\* A save answered "ok" that no other save of the same thing, and no extraction of the
\* source, overlapped has written the columns and every axis: updateSource and updateRecommendation write them statement by
\* statement, without a transaction (sources/[slug]/actions.ts, recommendations/[id]/actions.ts).
THEOREM SavesAreWhole == Spec => []SaveIsWhole
<1>1. SInv => SaveIsWhole
  <2>. SUFFICES ASSUME SInv, NEW c \in Client, pc[c] = "answered", answer[c] = "ok", alone[c]
                PROVE  /\ req[c].op = "saveSource" =>
                            \A p \in SourceParts : fields[req[c].source][p] >= num[c]
                       /\ req[c].op = "saveRec" /\ req[c].rec \in recs =>
                            \A p \in RecParts : content[req[c].rec][p] >= num[c]
    BY DEF SaveIsWhole
  <2>. QED
    BY DEF SInv, SourceSaved, RecSaved, Src, Rid
<1>. QED
  BY AlwaysSInv, <1>1, PTL

\* The DELETE of a merged timescale (repositories/taxonomy.ts, mergeTag) takes it from no
\* recommendation but one that was given it since the UPDATE: by a save or an extraction
\* that had resolved its slug, or by another merge.
THEOREM MergesKeepScales == Spec => MergeKeepsScales
<1>1. IInv /\ SInv /\ [Next]_vars =>
        [\A c \in Client : At(c, "dropScale") /\ pc'[c] = "answered" /\ ~given[c] => scale' = scale]_vars
  <2>. SUFFICES ASSUME ClientShape, SInv, Next, NEW c \in Client, pc[c] = "dropScale",
                       pc'[c] = "answered", ~given[c]
                PROVE  scale' = scale
    BY DEF IInv, At
  <2>1. Observe /\ ~Rests(c) /\ Active(c) /\ req[c].op = "mergeScale"
    BY NextCases DEF Rests, Active, ClientShape, OpAt
  <2>2. Moves(c)
    BY <2>1, NextCases, SourceTurn, RecTurn, TurnShape, BeginShape, HappensShape DEF Moves
  <2>3. DropScale(c)
    <3>1. ~\E d \in Demand : Begin(c, d)
      BY <2>1 DEF Begin
    <3>2. ~SourceStep(c)
      BY <2>1 DEF SourceStep, At, Describe, DescribeGrants, Load, LoadGrants, FollowLink, FindFile, FileGrants,
          EditForm, EditGrants, ListSources, AskForAccess, FindPending, Approve, Reject, Withdraw,
          SaveSourceColumns, SaveSourceAxis, SaveSourceFails
    <3>. QED
      BY <2>1, <2>2, <3>1, <3>2 DEF Moves, RecStep, At, ListRecs, ListStatuses, ReadRec, ReadStatus, RenderRec,
          Find, InsertStatus, InsertUpdate, FindForEdit, ResolveScale, SaveRecColumns, SaveRecAxis,
          SaveRecFails, MoveToScale, ExtractColumns, ExtractAxis, ExtractScale, ExtractRecs,
          ExtractFails
  <2>4. \A r \in Rec : scale[r] # req[c].from
    BY DEF SInv, Moved
  <2>5. scale' = [r \in Rec |-> IF scale[r] = req[c].from THEN NoScale ELSE scale[r]]
    BY <2>3 DEF DropScale
  <2>6. scale = [r \in Rec |-> scale[r]]
    BY DEF SInv, ScaleShape
  <2>. QED
    BY <2>4, <2>5, <2>6
<1>. QED
  BY AlwaysIInv, AlwaysSInv, <1>1, PTL DEF Spec, MergeKeepsScales

-------------------------------------------------------------------------------
(* The types of the tables and of every request. *)

\* What the bounds bound, and who is asked for what.
RequestShape ==
    /\ mix \in Mixes
    /\ served \in 0..MaxServed
    /\ req \in [Client -> mix \cup {Nothing}]
    /\ \A c \in Client : pc[c] = "resolve" => req[c].slug # Absent

\* What has been written was written by a request.
WrittenShape ==
    /\ \A s \in Source, p \in SourceParts : fields[s][p] <= served
    /\ \A r \in Rec, p \in RecParts : content[r][p] <= served

\* A timescale's number is one its slug has had; recommendations have timescales that
\* are there.
TimescaleShape ==
    /\ coined \in [Slug -> Nat \ {0}]
    /\ \A x \in scales : x \in Scale /\ x[2] \in 1..coined[x[1]]
    /\ \A r \in Rec : scale[r] \in scales \cup {NoScale}

\* What hangs on a recommendation is gone with it.
HistoryShape ==
    /\ history \in [Rec -> Seq(RecStatus)] /\ updates \in [Rec -> Nat]
    /\ \A r \in Rec : r \notin recs => history[r] = <<>> /\ updates[r] = 0

\* With IInv and SInv: what TypeOK says, and what keeps it true.
TInv == RequestShape /\ WrittenShape /\ TimescaleShape /\ HistoryShape /\ Len(asks) <= MaxAsks

\* It holds of the sources, recommendations and timescales there are first.
LEMMA InitTInv ==
    ASSUME Init
    PROVE  TInv
<1>1. RequestShape
  BY BoundsAssumption DEF Init, RequestShape
<1>2. WrittenShape
  BY DEF Init, SourceInit, RecInit, WrittenShape
<1>3. TimescaleShape
  <2>1. /\ coined = [x \in Slug |-> 1] /\ scales = {<<x, 1>> : x \in Slug}
        /\ scale = [r \in Rec |-> IF r \in recs THEN <<FirstScale, 1>> ELSE NoScale]
    BY DEF Init, RecInit
  <2>2. \A x \in scales : x \in Scale /\ x[2] \in 1..coined[x[1]]
    BY <2>1 DEF Scale
  <2>3. <<FirstScale, 1>> \in scales
    BY <2>1, ScaleAssumption
  <2>. QED
    BY <2>1, <2>2, <2>3 DEF TimescaleShape
<1>4. HistoryShape
  <2>1. <<"open">> \in Seq(RecStatus) /\ <<>> \in Seq(RecStatus)
    BY StatusAssumption
  <2>. QED
    BY <2>1 DEF Init, RecInit, HistoryShape
<1>5. Len(asks) <= MaxAsks
  BY BoundsAssumption DEF Init, SourceInit
<1>. QED
  BY <1>1, <1>2, <1>3, <1>4, <1>5 DEF TInv

\* Requests of access are appended up to the bound, and none is lost.
LEMMA AsksBound ==
    ASSUME ClientShape, DataShape, Next, Len(asks) <= MaxAsks
    PROVE  Len(asks') <= MaxAsks
<1>1. ASSUME NEW id, NEW status, IsPending(id), Resolve(id, status)
      PROVE  Len(asks') = Len(asks)
  BY <1>1 DEF IsPending, Resolve, DataShape
<1>2. ASSUME NEW c \in Client, SourceStep(c)
      PROVE  Len(asks') <= MaxAsks
  <2>1. CASE AskForAccess(c)
    <3>1. CASE UNCHANGED asks
      BY <3>1
    <3>2. CASE Len(asks) < MaxAsks /\ \E a : asks' = Append(asks, a)
      <4>1. PICK n \in Nat : n = Len(asks)
        BY DEF DataShape
      <4>2. Len(asks') = n + 1
        BY <3>2, <4>1 DEF DataShape
      <4>. QED
        BY <3>2, <4>1, <4>2, BoundsAssumption
    <3>. QED
      BY <2>1, <3>1, <3>2 DEF AskForAccess
  <2>2. CASE Approve(c) \/ Reject(c) \/ Withdraw(c)
    BY <1>1, <2>2 DEF Approve, Reject, Withdraw
  <2>3. CASE ~(AskForAccess(c) \/ Approve(c) \/ Reject(c) \/ Withdraw(c))
    <3>1. UNCHANGED asks
      BY <1>2, <2>3 DEF SourceStep, sourceVars, Describe, DescribeGrants, Load, LoadGrants, ListSources,
            FollowLink, FindFile, FileGrants, EditForm, EditGrants, FindPending,
            SaveSourceColumns, SaveSourceAxis, SaveSourceFails
    <3>. QED
      BY <3>1
  <2>. QED
    BY <2>1, <2>2, <2>3
<1>3. ASSUME NEW c \in Client, RecStep(c) \/ \E d \in Demand : Begin(c, d)
      PROVE  UNCHANGED asks
  BY <1>3, RecKeepsSources DEF Begin, sourceVars
<1>4. Happens => UNCHANGED asks
  BY DEF Happens, CloseAccount, sourceVars
<1>. QED
  BY <1>2, <1>3, <1>4, NextCases DEF Moves

\* What is asked for is in the mix; a step of a request asks for nothing else.
LEMMA RequestNext ==
    ASSUME ClientShape, RequestShape, Next
    PROVE  RequestShape'
<1>1. ASSUME NEW c \in Client, NEW d \in mix \cap Demand, Begin(c, d)
      PROVE  RequestShape'
  <2>1. /\ served < MaxServed /\ served' = served + 1 /\ mix' = mix
        /\ req' = [req EXCEPT ![c] = d] /\ pc' = [pc EXCEPT ![c] = d.op]
    BY <1>1 DEF Begin
  <2>2. served' \in 0..MaxServed
    BY <2>1, BoundsAssumption DEF RequestShape
  <2>3. d.op # "resolve"
    BY DemandFields DEF SourceOps, RecOps
  <2>4. \A b \in Client : req'[b] = (IF b = c THEN d ELSE req[b]) /\ (b # c => pc'[b] = pc[b])
    BY <2>1 DEF ClientShape
  <2>5. pc'[c] = d.op
    BY <2>1 DEF ClientShape
  <2>6. req' \in [Client -> mix' \cup {Nothing}]
    BY <2>1 DEF RequestShape
  <2>. QED
    BY <2>1, <2>2, <2>3, <2>4, <2>5, <2>6 DEF RequestShape
<1>2. ASSUME UNCHANGED <<mix, served, req>>,
             \A c \in Client : pc'[c] = "resolve" => req[c].slug # Absent
      PROVE  RequestShape'
  BY <1>2 DEF RequestShape
<1>3. ASSUME NEW c \in Client, SourceStep(c)
      PROVE  RequestShape'
  <2>1. UNCHANGED <<mix, served, req>> /\ \A b \in Client \ {c} : pc'[b] = pc[b]
    BY <1>3, SourceTurn DEF Turn, clientVars, ClientShape
  <2>2. pc'[c] # "resolve"
    BY <1>3 DEF SourceStep, ClientShape, Goto, Reply, Serve, Describe, DescribeGrants, Load, LoadGrants,
        FollowLink, FindFile, FileGrants, EditForm, EditGrants, ListSources, AskForAccess,
        FindPending, Approve, Reject, Withdraw, SaveSourceColumns, SaveSourceAxis, SaveSourceFails
  <2>. QED
    BY <1>2, <2>1, <2>2 DEF RequestShape
<1>4. ASSUME NEW c \in Client, RecStep(c)
      PROVE  RequestShape'
  <2>1. UNCHANGED <<mix, served, req>> /\ \A b \in Client \ {c} : pc'[b] = pc[b]
    BY <1>4, RecTurn DEF Turn, clientVars, ClientShape
  <2>2. pc'[c] = "resolve" => req[c].slug # Absent
    <3>1. CASE FindForEdit(c)
      BY <3>1 DEF FindForEdit, Goto, Reply, ClientShape
    <3>2. CASE ~FindForEdit(c)
      BY <1>4, <3>2 DEF RecStep, ClientShape, Goto, Reply, ListRecs, ListStatuses, ReadRec, ReadStatus,
          RenderRec, Find, InsertStatus, InsertUpdate, ResolveScale, SaveRecColumns, SaveRecAxis,
          SaveRecFails, MoveToScale, DropScale, At, ExtractColumns, ExtractAxis, ExtractScale,
          ExtractRecs, ExtractFails
    <3>. QED
      BY <3>1, <3>2
  <2>. QED
    BY <1>2, <2>1, <2>2 DEF RequestShape
<1>5. Happens => UNCHANGED <<mix, served, req, pc>>
  BY DEF Happens, CloseAccount, clientVars
<1>. QED
  BY <1>1, <1>2, <1>3, <1>4, <1>5 DEF Next, Happens, RequestShape

\* A step writes the number of a request that has begun, or clears a recommendation.
LEMMA ContentWritten ==
    ASSUME ClientShape, ContentShape, RecShape, Next
    PROVE  \A r \in Rec, p \in RecParts :
              \/ content'[r][p] = content[r][p] \/ content'[r][p] = 0
              \/ \E b \in Client : content'[r][p] = num[b]
<1>1. CASE content' = content
  BY <1>1
<1>2. ASSUME NEW c \in Client, SaveRecColumns(c) \/ SaveRecAxis(c)
      PROVE  \/ content' = content
             \/ \E p \in RecParts : content' = [content EXCEPT ![Rid(c)][p] = num[c]]
  <2>1. CASE SaveRecColumns(c)
    BY <2>1, RecAxisPart DEF SaveRecColumns, Rid
  <2>2. CASE SaveRecAxis(c)
    <3>1. RecAxes[axis[c]] \in RecParts
      BY <2>2, RecAxisPart DEF SaveRecAxis, ContentShape, At
    <3>. QED
      BY <2>2, <3>1 DEF SaveRecAxis, Rid
  <2>. QED
    BY <1>2, <2>1, <2>2
<1>3. ASSUME NEW c \in Client, SaveRecColumns(c) \/ SaveRecAxis(c), NEW r \in Rec, NEW p \in RecParts
      PROVE  content'[r][p] = content[r][p] \/ content'[r][p] = num[c]
  <2>0. req[c] \in Demand /\ req[c].op = "saveRec"
    <3>1. CASE SaveRecColumns(c)
      BY <3>1 DEF SaveRecColumns, At, ClientShape, OpAt
    <3>2. CASE SaveRecAxis(c)
      BY <3>2 DEF SaveRecAxis, At, ClientShape, OpAt
    <3>. QED
      BY <1>3, <3>1, <3>2
  <2>1. Rid(c) \in Rec /\ num[c] \in Nat
    BY <2>0, DemandFields DEF Rid, ClientShape
  <2>2. ASSUME NEW q \in RecParts, content' = [content EXCEPT ![Rid(c)][q] = num[c]]
        PROVE  content'[r][p] = content[r][p] \/ content'[r][p] = num[c]
    BY <2>1, <2>2, WriteOnePart, Zenon DEF ContentShape
  <2>. QED
    BY <1>2, <1>3, <2>2
<1>4. ASSUME NEW c \in Client, ExtractRecs(c), NEW r \in Rec, NEW p \in RecParts
      PROVE  \/ content'[r][p] = content[r][p] \/ content'[r][p] = 0
             \/ content'[r][p] = num[c]
  <2>. DEFINE s == Src(c)
              fresh == <<s, extracted[s] + 1>>
  <2>1. PICK found \in BOOLEAN :
           content' = [q \in Rec |-> IF q[1] # s THEN content[q]
                                     ELSE IF found /\ q = fresh THEN [t \in RecParts |-> num[c]]
                                     ELSE [t \in RecParts |-> 0]]
    BY <1>4, Zenon DEF ExtractRecs
  <2>. HIDE DEF s, fresh
  <2>. QED
    BY <2>1
<1>5. ASSUME \A c \in Client : ~SaveRecColumns(c) /\ ~SaveRecAxis(c) /\ ~ExtractRecs(c)
      PROVE  content' = content
  <2>1. ASSUME NEW c \in Client, Moves(c)
        PROVE  content' = content
    <3>1. CASE RecStep(c)
      BY <1>5, <3>1 DEF RecStep, recVars, ListRecs, ListStatuses, ReadRec, ReadStatus, RenderRec, Find,
          InsertStatus, InsertUpdate, FindForEdit, ResolveScale, SaveRecFails, MoveToScale, DropScale,
          ExtractColumns, ExtractAxis, ExtractScale, ExtractFails
    <3>2. CASE UNCHANGED recVars \/ \E d \in Demand : Begin(c, d)
      BY <3>2 DEF Begin, recVars
    <3>. QED
      BY <2>1, <3>1, <3>2 DEF Moves
  <2>2. Happens => content' = content
    BY DEF Happens, recVars
  <2>. QED
    BY <2>1, <2>2, NextCases
<1>. QED
  BY <1>1, <1>3, <1>4, <1>5

\* So what has been written is the number of a request that has begun.
LEMMA WrittenNext ==
    ASSUME ClientShape, ClientShape', FieldsShape, ContentShape, RecShape, WrittenShape, Next
    PROVE  WrittenShape'
<1>1. served' \in Nat /\ served \in Nat /\ served <= served'
  <2>1. served' = served \/ served' = served + 1
    <3>1. ASSUME NEW c \in Client, Moves(c)
          PROVE  served' = served \/ served' = served + 1
      BY <3>1, SourceTurn, RecTurn DEF Moves, Begin, Turn, clientVars
    <3>2. Happens => served' = served
      BY DEF Happens, CloseAccount, clientVars
    <3>. QED
      BY <3>1, <3>2, NextCases
  <2>. QED
    BY <2>1 DEF ClientShape
<1>2. \A b \in Client : num[b] \in 0..served
  BY DEF ClientShape
<1>3. ASSUME NEW s \in Source, NEW p \in SourceParts
      PROVE  fields'[s][p] <= served'
  <2>1. PICK o \in Nat : o = fields[s][p] /\ o <= served
    BY DEF FieldsShape, WrittenShape
  <2>2. fields'[s][p] = o \/ \E b \in Client : fields'[s][p] = num[b]
    BY <2>1, FieldsNext DEF FieldsChange
  <2>. QED
    BY <1>1, <1>2, <2>1, <2>2
<1>4. ASSUME NEW r \in Rec, NEW p \in RecParts
      PROVE  content'[r][p] <= served'
  <2>1. PICK o \in Nat : o = content[r][p] /\ o <= served
    BY DEF ContentShape, WrittenShape
  <2>2. content'[r][p] = o \/ content'[r][p] = 0 \/ \E b \in Client : content'[r][p] = num[b]
    BY <2>1, ContentWritten
  <2>. QED
    BY <1>1, <1>2, <2>1, <2>2
<1>. QED
  BY <1>3, <1>4 DEF WrittenShape

\* A missing timescale is created under a number its slug has not had.
LEMMA ResolveTimescale ==
    ASSUME TimescaleShape, NEW c, NEW slug \in Slug, Resolved(c, slug), scale' = scale
    PROVE  TimescaleShape'
<1>2. scale' = scale
  OBVIOUS
<1>3. CASE UNCHANGED <<scales, coined>>
  BY <1>2, <1>3 DEF TimescaleShape
<1>4. CASE /\ scales' = scales \cup {<<slug, coined[slug] + 1>>}
           /\ coined' = [coined EXCEPT ![slug] = @ + 1]
  <2>1. PICK n \in Nat \ {0} : n = coined[slug]
    BY DEF TimescaleShape
  <2>2. /\ scales' = scales \cup {<<slug, n + 1>>} /\ coined' = [coined EXCEPT ![slug] = n + 1]
        /\ coined' \in [Slug -> Nat \ {0}] /\ coined'[slug] = n + 1
        /\ \A t \in Slug \ {slug} : coined'[t] = coined[t]
    BY <1>4, <2>1 DEF TimescaleShape
  <2>3. ASSUME NEW x \in scales'
        PROVE  x \in Scale /\ x[2] \in 1..coined'[x[1]]
    <3>1. CASE x = <<slug, n + 1>>
      BY <2>2, <3>1 DEF Scale
    <3>2. CASE x \in scales
      <4>1. x \in Scale /\ x[2] \in 1..coined[x[1]] /\ x[1] \in Slug
        BY <3>2 DEF TimescaleShape, Scale
      <4>2. CASE x[1] = slug
        BY <2>1, <2>2, <4>1, <4>2
      <4>3. CASE x[1] # slug
        BY <2>2, <4>1, <4>3
      <4>. QED
        BY <4>1, <4>2, <4>3
    <3>. QED
      BY <2>2, <3>1, <3>2
  <2>. QED
    BY <1>2, <2>2, <2>3 DEF TimescaleShape
<1>. QED
  BY <1>3, <1>4 DEF Resolved

\* Recommendations have timescales that are there: one is given only where it is, and
\* one that is dropped is taken from all of them.
LEMMA TimescaleNext ==
    ASSUME ClientShape, RequestShape, RecShape, ScaleShape, TimescaleShape, Next
    PROVE  TimescaleShape'
<1>1. ASSUME UNCHANGED <<scales, coined>>, DOMAIN scale' = Rec,
             \A r \in Rec : scale'[r] = scale[r] \/ scale'[r] \in scales \cup {NoScale}
      PROVE  TimescaleShape'
  BY <1>1 DEF TimescaleShape
<1>2. DOMAIN scale = Rec
  BY DEF ScaleShape
<1>3. ASSUME NEW c \in Client, RecStep(c)
      PROVE  TimescaleShape'
  <2>1. CASE SaveRecColumns(c)
    <3>1. UNCHANGED <<scales, coined>>
      BY <2>1 DEF SaveRecColumns
    <3>2. \/ scale' = scale
          \/ \E x \in scales \cup {NoScale} : scale' = [scale EXCEPT ![req[c].rec] = x]
      BY <2>1 DEF SaveRecColumns
    <3>. QED
      BY <1>1, <1>2, <3>1, <3>2
  <2>2. CASE MoveToScale(c)
    <3>1. UNCHANGED <<scales, coined>>
      BY <2>2 DEF MoveToScale
    <3>2. CASE scale' = scale
      BY <1>1, <1>2, <3>1, <3>2
    <3>3. ASSUME NEW moved, NEW to, moved # {} => to \in scales, moved \subseteq Rec,
                 scale' = [r \in Rec |-> IF r \in moved THEN to ELSE scale[r]]
          PROVE  TimescaleShape'
      BY <1>1, <1>2, <3>1, <3>3
    <3>4. \/ scale' = scale
          \/ \E moved, to : /\ moved # {} => to \in scales
                            /\ scale' = [r \in Rec |-> IF r \in moved THEN to ELSE scale[r]]
                            /\ moved \subseteq recs
      BY <2>2 DEF MoveToScale
    <3>. QED
      BY <1>1, <1>2, <3>1, <3>4
  <2>3. CASE DropScale(c)
    <3>1. /\ scales' = scales \ {req[c].from} /\ coined' = coined
          /\ scale' = [r \in Rec |-> IF scale[r] = req[c].from THEN NoScale ELSE scale[r]]
      BY <2>3 DEF DropScale
    <3>. QED
      BY <3>1 DEF TimescaleShape
  <2>4. CASE ResolveScale(c)
    <3>1. req[c] \in Demand /\ req[c].op = "saveRec" /\ req[c].slug # Absent
      BY <2>4 DEF ResolveScale, At, ClientShape, OpAt, RequestShape
    <3>2. req[c].slug \in Slug
      BY <3>1, DemandFields
    <3>. QED
      BY <2>4, <3>2, ResolveTimescale DEF ResolveScale
  <2>5. CASE ExtractScale(c)
    <3>1. scale' = scale
      BY <2>5 DEF ExtractScale
    <3>2. CASE \E slug \in Slug : Resolved(c, slug)
      BY <3>1, <3>2, ResolveTimescale
    <3>3. CASE UNCHANGED <<scales, coined>>
      BY <1>1, <1>2, <3>1, <3>3
    <3>. QED
      BY <2>5, <3>2, <3>3 DEF ExtractScale
  <2>6. CASE ExtractRecs(c)
    <3>1. UNCHANGED <<scales, coined>> /\ got[c].scale \in scales \cup {NoScale}
      BY <2>6 DEF ExtractRecs
    <3>. DEFINE s == Src(c)
                fresh == <<s, extracted[s] + 1>>
    <3>2. PICK found \in BOOLEAN :
             scale' = [q \in Rec |-> IF q[1] # s THEN scale[q]
                                     ELSE IF found /\ q = fresh THEN got[c].scale ELSE NoScale]
      BY <2>6, Zenon DEF ExtractRecs
    <3>. HIDE DEF s, fresh
    <3>. QED
      BY <1>1, <3>1, <3>2
  <2>7. CASE ~(\/ SaveRecColumns(c) \/ MoveToScale(c) \/ DropScale(c) \/ ResolveScale(c)
              \/ ExtractScale(c) \/ ExtractRecs(c))
    <3>1. UNCHANGED <<scale, scales, coined>>
      BY <1>3, <2>7 DEF RecStep, recVars, ListRecs, ListStatuses, ReadRec, ReadStatus, RenderRec, Find,
          InsertStatus, InsertUpdate, FindForEdit, SaveRecAxis, SaveRecFails, ExtractColumns,
          ExtractAxis, ExtractFails
    <3>. QED
      BY <1>1, <1>2, <3>1
  <2>. QED
    BY <2>1, <2>2, <2>3, <2>4, <2>5, <2>6, <2>7
<1>5. ASSUME NEW c \in Client, Moves(c)
      PROVE  RecStep(c) \/ UNCHANGED <<scale, scales, coined>>
  BY <1>5 DEF Moves, Begin, recVars
<1>6. ASSUME NEW u \in User, CloseAccount(u) /\ UNCHANGED recVars
      PROVE  UNCHANGED <<scale, scales, coined>>
  BY <1>6 DEF recVars
<1>. QED
  BY <1>1, <1>2, <1>3, <1>5, <1>6, NextCases DEF Happens

\* Statuses and updates are inserted for a recommendation that is there, and those of one
\* that is replaced go with it.
LEMMA HistoryNext ==
    ASSUME ClientShape, HistoryShape, Next
    PROVE  HistoryShape'
<1>1. CASE UNCHANGED <<recs, history, updates>>
  BY <1>1 DEF HistoryShape
<1>2. ASSUME NEW c \in Client, RecStep(c), ~ExtractRecs(c)
      PROVE  HistoryShape'
  <2>0. recs' = recs
    BY <1>2, TurnRecs
  <2>1. CASE InsertStatus(c)
    <3>1. req[c] \in Demand /\ req[c].op = "status"
      BY <2>1 DEF InsertStatus, At, ClientShape
    <3>2. PICK r \in Rec, st \in RecStatus : r = req[c].rec /\ st = req[c].status
      BY <3>1, DemandFields
    <3>3. updates' = updates /\ (history' = history \/
             (r \in recs /\ history' = [history EXCEPT ![r] = Append(history[r], st)]))
      BY <2>1, <3>2 DEF InsertStatus
    <3>4. history[r] \in Seq(RecStatus)
      BY DEF HistoryShape
    <3>5. Append(history[r], st) \in Seq(RecStatus)
      BY <3>4
    <3>6. CASE history' = history
      BY <2>0, <3>3, <3>6 DEF HistoryShape
    <3>7. CASE r \in recs /\ history' = [history EXCEPT ![r] = Append(history[r], st)]
      <4>1. history' \in [Rec -> Seq(RecStatus)] /\ \A q \in Rec : q # r => history'[q] = history[q]
        BY <3>2, <3>5, <3>7 DEF HistoryShape
      <4>. QED
        BY <2>0, <3>3, <3>7, <4>1 DEF HistoryShape
    <3>. QED
      BY <3>3, <3>6, <3>7
  <2>2. CASE InsertUpdate(c)
    <3>1. req[c] \in Demand /\ req[c].op = "progress"
      BY <2>2 DEF InsertUpdate, At, ClientShape
    <3>2. PICK r \in Rec : r = req[c].rec
      BY <3>1, DemandFields
    <3>3. history' = history /\ (updates' = updates \/
             (r \in recs /\ updates' = [updates EXCEPT ![r] = @ + 1]))
      BY <2>2, <3>2 DEF InsertUpdate
    <3>. QED
      BY <2>0, <3>3 DEF HistoryShape
  <2>3. CASE ~(InsertStatus(c) \/ InsertUpdate(c))
    <3>1. UNCHANGED <<history, updates>>
      BY <1>2, <2>3 DEF RecStep, recVars, ListRecs, ListStatuses, ReadRec, ReadStatus, RenderRec, Find,
          FindForEdit, ResolveScale, SaveRecColumns, SaveRecAxis, SaveRecFails, MoveToScale, DropScale,
          ExtractColumns, ExtractAxis, ExtractScale, ExtractFails
    <3>. QED
      BY <1>1, <2>0, <3>1
  <2>. QED
    BY <2>1, <2>2, <2>3
<1>3. ASSUME NEW c \in Client, ExtractRecs(c)
      PROVE  HistoryShape'
  <2>. DEFINE s == Src(c)
              fresh == <<s, extracted[s] + 1>>
  <2>1. PICK found \in BOOLEAN :
           /\ recs' = {r \in recs : r[1] # s} \cup (IF found THEN {fresh} ELSE {})
           /\ history' = [r \in Rec |-> IF r[1] # s THEN history[r]
                                       ELSE IF found /\ r = fresh THEN <<"open">> ELSE <<>>]
           /\ updates' = [r \in Rec |-> IF r[1] # s THEN updates[r]
                                       ELSE IF found /\ r = fresh THEN 0 ELSE 0]
    BY <1>3, Zenon DEF ExtractRecs
  <2>2. <<"open">> \in Seq(RecStatus) /\ <<>> \in Seq(RecStatus)
    BY StatusAssumption
  <2>. HIDE DEF s, fresh
  <2>3. history' \in [Rec -> Seq(RecStatus)] /\ updates' \in [Rec -> Nat]
    BY <2>1, <2>2 DEF HistoryShape
  <2>4. \A r \in Rec : r \notin recs' => history'[r] = <<>> /\ updates'[r] = 0
    BY <2>1 DEF HistoryShape
  <2>. QED
    BY <2>3, <2>4 DEF HistoryShape
<1>5. ASSUME NEW c \in Client, Moves(c)
      PROVE  RecStep(c) \/ UNCHANGED <<recs, history, updates>>
  BY <1>5 DEF Moves, Begin, recVars
<1>6. ASSUME NEW u \in User, CloseAccount(u) /\ UNCHANGED recVars
      PROVE  UNCHANGED <<recs, history, updates>>
  BY <1>6 DEF recVars
<1>. QED
  BY <1>1, <1>2, <1>3, <1>5, <1>6, NextCases DEF Happens

\* Every step keeps these.
LEMMA NextTInv ==
    ASSUME IInv, SInv, TInv, Next
    PROVE  TInv'
<1>1. /\ ClientShape /\ DataShape /\ GotShape /\ FieldsShape /\ ContentShape /\ ScaleShape
      /\ RecShape /\ ClientShape'
  BY NextIInv DEF IInv, SInv
<1>. QED
  BY <1>1, AsksBound, RequestNext, WrittenNext, TimescaleNext, HistoryNext DEF TInv

\* So does a step of something else.
LEMMA StutterTInv ==
    ASSUME TInv, UNCHANGED vars
    PROVE  TInv'
  BY DEF TInv, vars, sourceVars, recVars, clientVars, RequestShape, WrittenShape, TimescaleShape,
         HistoryShape

\* So they always hold.
LEMMA AlwaysTInv == Spec => []TInv
<1>1. IInv /\ SInv /\ TInv /\ [Next]_vars => TInv'
  BY NextTInv, StutterTInv
<1>. QED
  BY InitTInv, AlwaysIInv, AlwaysSInv, <1>1, PTL DEF Spec

\* What the variables are, and how they hang together: nothing is recorded of a
\* recommendation that is gone, nor kept of a timescale that is.
THEOREM CollaborationTypes == Spec => []TypeOK
<1>1. IInv /\ SInv /\ TInv => TypeOK
  <2>. SUFFICES ASSUME IInv, SInv, TInv PROVE TypeOK
    OBVIOUS
  <2>1. /\ ClientShape /\ DataShape /\ RecShape /\ FieldsShape /\ ContentShape
        /\ RequestShape /\ WrittenShape /\ TimescaleShape /\ HistoryShape /\ Len(asks) <= MaxAsks
    BY DEF IInv, SInv, TInv
  <2>2. \A s \in Source, p \in SourceParts : fields[s][p] \in 0..served
    BY <2>1 DEF FieldsShape, WrittenShape, ClientShape
  <2>3. fields \in [Source -> [SourceParts -> 0..served]]
    BY <2>1, <2>2 DEF FieldsShape
  <2>4. \A r \in Rec, p \in RecParts : content[r][p] \in 0..served
    BY <2>1 DEF ContentShape, WrittenShape, ClientShape
  <2>5. content \in [Rec -> [RecParts -> 0..served]]
    BY <2>1, <2>4 DEF ContentShape
  <2>6. recs \subseteq {<<s, extracted[s]>> : s \in Source}
    BY <2>1 DEF RecShape
  <2>7. req \in [Client -> mix \cup {Nothing}]
    BY <2>1 DEF ClientShape, RequestShape
  <2>8. \A r \in Rec : /\ scale[r] \in scales \cup {NoScale}
                       /\ history[r] \in Seq(RecStatus) /\ updates[r] \in Nat
                       /\ r \notin recs => history[r] = <<>> /\ updates[r] = 0
    BY <2>1 DEF TimescaleShape, HistoryShape
  <2>. QED
    BY <2>1, <2>3, <2>5, <2>6, <2>7, <2>8 DEF TypeOK, ClientShape, DataShape, RequestShape, TimescaleShape
<1>. QED
  BY AlwaysIInv, AlwaysSInv, AlwaysTInv, <1>1, PTL
===============================================================================
