----------------------------- MODULE SourceAccess -----------------------------
(***************************************************************************)
(* Who may see a source, and the requests that change it: a viewer opens   *)
(* or lists sources and asks for access to a private one                   *)
(* (src/lib/repositories/source.ts, jobs-list.ts, ownership-request.ts),   *)
(* follows links to its files (src/lib/files/sign.ts, api/files/[token]),  *)
(* an admin approves or rejects, the requester withdraws, an editor saves  *)
(* the source's metadata, tags and privacy (app/(app)/sources/[slug]).     *)
(*                                                                         *)
(* Every SQL statement is one step and commits by itself: none of these    *)
(* server actions opens a transaction around its statements.  What tags a  *)
(* replaced axis ends up with is TaxonomyTags' concern; here an axis holds *)
(* the number of the request that replaced it last.                        *)
(***************************************************************************)
EXTENDS Naturals, Sequences, FiniteSets

CONSTANTS
    User, Source,
    SignedIn,           \* the users with an e-mail address (and a UUID)
    Admin, Editor,      \* the users with these roles
    System,             \* local mode's one user, for whom no filter holds
    Owner,              \* who a source belongs to at first
    Nobody,
    SourceAxes,         \* in the order the save replaces them
    Client,             \* requests, and jobs of the worker, served at the same time
    Mixes,              \* bound: what is asked for, and happens, in one behaviour
    MaxServed,          \* bound: requests begun in all
    MaxAsks             \* bound: rows of ownership_requests

Absent == "absent"

ASSUME UsersAssumption ==
    /\ SignedIn \subseteq User /\ Admin \subseteq User /\ Editor \subseteq User
    /\ System \subseteq User \ SignedIn
    /\ Nobody \notin User
    /\ Owner \in [Source -> SignedIn \cup {Nobody}]
ASSUME BoundsAssumption == MaxServed \in Nat /\ MaxAsks \in Nat
ASSUME AxesAssumption == SourceAxes \in Seq(STRING) /\ Len(SourceAxes) > 0

VARIABLES
    mix,        \* the requests and events of this behaviour
    private,    \* sources.is_private
    owner,      \* sources.owner_user_id
    accounts,   \* rows of users
    asks,       \* rows of ownership_requests, in order of creation
    fields,     \* per source: the request or job that wrote the columns and each axis last
    served,     \* how many requests have been begun
    req,        \* what a client asks for
    num,        \* the number of its request
    pc,         \* where it stands
    axis,       \* the axis its save is at
    got,        \* what its statements have returned
    alone,      \* nothing else that writes the same has run since its request began
    answer,     \* what it was answered
    seen        \* how things stood at the moments since its request began

sourceVars == <<private, owner, accounts, asks, fields>>
clientVars == <<mix, served, req, num, alone>>

AskStatus == {"pending", "approved", "rejected", "withdrawn"}
Ask == [source: Source, by: SignedIn, status: AskStatus]
SourceParts == {"columns"} \cup {SourceAxes[k] : k \in DOMAIN SourceAxes}

SourceDemand ==
    [op: {"open", "file", "edit", "ask"}, user: User, source: Source]
    \cup [op: {"list"}, user: User]
    \cup [op: {"approve", "reject", "withdraw"}, user: User, id: 1..MaxAsks]
    \cup [op: {"saveSource"}, user: User, source: Source, privacy: {"private", "public", Absent}]

SourceInit ==
    /\ private \in [Source -> BOOLEAN]
    /\ owner = Owner
    /\ accounts = SignedIn
    /\ asks = <<>>
    /\ fields = [s \in Source |-> [p \in SourceParts |-> 0]]
-------------------------------------------------------------------------------
(* Who may see what.  The same question is answered in four places. *)

Approved(u, s) ==
    \E i \in DOMAIN asks : asks[i] = [source |-> s, by |-> u, status |-> "approved"]

Pending(u, s) ==
    {i \in DOMAIN asks : asks[i] = [source |-> s, by |-> u, status |-> "pending"]}

Owns(u, s) == u = owner[s]

\* What the row alone says, before the grants are read.
RowReadable(u, s) == ~private[s] \/ u \in System \/ Owns(u, s)
CanRead(u, s) == RowReadable(u, s) \/ (u \in SignedIn /\ Approved(u, s))

RowVisible(u, s) == ~private[s] \/ Owns(u, s) \/ u \in System
DescribedVisible(u, s) == RowVisible(u, s) \/ (u \in SignedIn /\ Approved(u, s))

\* listRecentSources: one statement.
Listed(u, s) ==
    \/ u \in System
    \/ ~private[s]
    \/ u \in SignedIn /\ (Owns(u, s) \/ Approved(u, s))

\* The recommendations, their statuses and updates, search: grants do not count.
RecsShown(u, s) == u \in System \/ ~private[s] \/ (u \in SignedIn /\ Owns(u, s))

CanWrite(u) == u \in System \cup Admin \cup Editor
IsAdmin(u) == u \in System \cup Admin
-------------------------------------------------------------------------------
Goto(c, place) == pc' = [pc EXCEPT ![c] = place] /\ UNCHANGED answer

Reply(c, text) ==
    /\ pc' = [pc EXCEPT ![c] = "answered"]
    /\ answer' = [answer EXCEPT ![c] = text]

At(c, place) == pc[c] = place
Usr(c) == req[c].user
Src(c) == req[c].source
-------------------------------------------------------------------------------
(* The source page: describeSourceAccess, then getSourceWithPagesBySlug. *)

Describe(c) ==
    LET u == Usr(c) IN
    /\ At(c, "open")
    /\ IF RowVisible(u, Src(c)) THEN Goto(c, "load")
       ELSE IF u \in SignedIn THEN Goto(c, "describeGrants")
       ELSE Reply(c, "notFound")
    /\ UNCHANGED <<sourceVars, clientVars, axis, got>>

\* One query: an approved request makes it visible, a pending one is shown in the form.
DescribeGrants(c) ==
    /\ At(c, "describeGrants")
    /\ IF Approved(Usr(c), Src(c)) THEN Goto(c, "load")
       ELSE Reply(c, IF Pending(Usr(c), Src(c)) = {} THEN "form" ELSE "formPending")
    /\ UNCHANGED <<sourceVars, clientVars, axis, got>>

Load(c) ==
    LET u == Usr(c) IN
    /\ At(c, "load")
    /\ IF RowReadable(u, Src(c)) THEN Reply(c, "pages")
       ELSE IF u \in SignedIn THEN Goto(c, "loadGrants")
       ELSE Reply(c, "notFound")
    /\ UNCHANGED <<sourceVars, clientVars, axis, got>>

LoadGrants(c) ==
    /\ At(c, "loadGrants")
    /\ Reply(c, IF Approved(Usr(c), Src(c)) THEN "pages" ELSE "notFound")
    /\ UNCHANGED <<sourceVars, clientVars, axis, got>>

\* The files of a source are served by links its page signs for five minutes.  A link
\* that has been passed on or has outlived the page tells nothing of who may see the
\* source: verifyFileToken only finds it in force still, or expired.
FollowLink(c) ==
    /\ At(c, "file")
    /\ Goto(c, "findFile") \/ Reply(c, "expired")
    /\ UNCHANGED <<sourceVars, clientVars, axis, got>>

\* The bytes are fetched from the storage, which may fail.
Serve(c) == Reply(c, "file") \/ Reply(c, "error")

\* findSourceFileByKey: the file and the row of its source, then as for the page.
FindFile(c) ==
    LET u == Usr(c) IN
    /\ At(c, "findFile")
    /\ IF RowReadable(u, Src(c)) THEN Serve(c)
       ELSE IF u \in SignedIn THEN Goto(c, "fileGrants")
       ELSE Reply(c, "notFound")
    /\ UNCHANGED <<sourceVars, clientVars, axis, got>>

FileGrants(c) ==
    /\ At(c, "fileGrants")
    /\ IF Approved(Usr(c), Src(c)) THEN Serve(c) ELSE Reply(c, "notFound")
    /\ UNCHANGED <<sourceVars, clientVars, axis, got>>

\* The edit page: findSourceBySlugWithMetadata, likewise; who may only read it gets the
\* form, too, and is refused when he saves.
EditForm(c) ==
    LET u == Usr(c) IN
    /\ At(c, "edit")
    /\ IF RowReadable(u, Src(c)) THEN Reply(c, "editForm")
       ELSE IF u \in SignedIn THEN Goto(c, "editGrants")
       ELSE Reply(c, "notFound")
    /\ UNCHANGED <<sourceVars, clientVars, axis, got>>

EditGrants(c) ==
    /\ At(c, "editGrants")
    /\ Reply(c, IF Approved(Usr(c), Src(c)) THEN "editForm" ELSE "notFound")
    /\ UNCHANGED <<sourceVars, clientVars, axis, got>>

\* The sources page.
ListSources(c) ==
    /\ At(c, "list")
    /\ Reply(c, "listed")
    /\ got' = [got EXCEPT ![c].sources = {s \in Source : Listed(Usr(c), s)}]
    /\ UNCHANGED <<sourceVars, clientVars, axis>>

-------------------------------------------------------------------------------
(* Asking for access, and the answers to it *)

\* Faulty variant: without the partial unique index.
AskAgain(c) ==
    /\ At(c, "ask") /\ Usr(c) \in SignedIn
    /\ Len(asks) < MaxAsks
    /\ asks' = Append(asks, [source |-> Src(c), by |-> Usr(c), status |-> "pending"])
    /\ Reply(c, "ok")
    /\ UNCHANGED <<private, owner, accounts, fields, clientVars, axis, got>>

\* createOwnershipRequest: an INSERT the partial unique index may refuse.
AskForAccess(c) ==
    LET u == Usr(c) IN
    /\ At(c, "ask")
    /\ IF u \notin SignedIn THEN Reply(c, "unauthenticated") /\ UNCHANGED asks
       ELSE IF Pending(u, Src(c)) # {} THEN Reply(c, "duplicate") /\ UNCHANGED asks
       ELSE /\ Len(asks) < MaxAsks
            /\ asks' = Append(asks, [source |-> Src(c), by |-> u, status |-> "pending"])
            /\ Reply(c, "ok")
    /\ UNCHANGED <<private, owner, accounts, fields, clientVars, axis, got>>

IsPending(id) == id \in DOMAIN asks /\ asks[id].status = "pending"
Resolve(id, status) == asks' = [asks EXCEPT ![id].status = status]

\* approveOwnershipRequest: first a SELECT of the pending request and its user,
FindPending(c) ==
    LET id == req[c].id IN
    /\ At(c, "approve")
    /\ IF ~IsAdmin(Usr(c)) THEN Reply(c, "unauthorized")
       ELSE IF ~IsPending(id) THEN Reply(c, "notFound")
       ELSE IF asks[id].by \notin accounts THEN Reply(c, "noUser")
       ELSE Goto(c, "approveFound")
    /\ UNCHANGED <<sourceVars, clientVars, axis, got>>

\* Faulty variant: the UPDATE trusts the SELECT.
ApproveFound(c) ==
    /\ At(c, "approveFound")
    /\ Resolve(req[c].id, "approved")
    /\ Reply(c, "ok")
    /\ UNCHANGED <<private, owner, accounts, fields, clientVars, axis, got>>

\* then the UPDATE of a request still pending; ok is answered if it is not, too.
Approve(c) ==
    /\ At(c, "approveFound")
    /\ IF IsPending(req[c].id) THEN Resolve(req[c].id, "approved") ELSE UNCHANGED asks
    /\ Reply(c, "ok")
    /\ UNCHANGED <<private, owner, accounts, fields, clientVars, axis, got>>

\* rejectOwnershipRequest: one UPDATE ... RETURNING.
Reject(c) ==
    LET id == req[c].id IN
    /\ At(c, "reject")
    /\ IF ~IsAdmin(Usr(c)) THEN Reply(c, "unauthorized") /\ UNCHANGED asks
       ELSE IF ~IsPending(id) THEN Reply(c, "notFound") /\ UNCHANGED asks
       ELSE Reply(c, "ok") /\ Resolve(id, "rejected")
    /\ UNCHANGED <<private, owner, accounts, fields, clientVars, axis, got>>

\* withdrawOwnershipRequest: likewise, of the requester's own.
Withdraw(c) ==
    LET id == req[c].id IN
    /\ At(c, "withdraw")
    /\ IF Usr(c) \notin SignedIn THEN Reply(c, "unauthenticated") /\ UNCHANGED asks
       ELSE IF ~(IsPending(id) /\ asks[id].by = Usr(c))
            THEN Reply(c, "notFound") /\ UNCHANGED asks
       ELSE Reply(c, "ok") /\ Resolve(id, "withdrawn")
    /\ UNCHANGED <<private, owner, accounts, fields, clientVars, axis, got>>

-------------------------------------------------------------------------------
(* updateSource: the columns, then the axes one after the other. *)

SaveSourceColumns(c) ==
    /\ At(c, "saveSource")
    /\ axis' = [axis EXCEPT ![c] = 1]
    /\ IF ~CanWrite(Usr(c)) THEN Reply(c, "unauthorized") /\ UNCHANGED <<private, fields>>
       ELSE /\ fields' = [fields EXCEPT ![Src(c)]["columns"] = num[c]]
            /\ private' = IF req[c].privacy = Absent THEN private
                          ELSE [private EXCEPT ![Src(c)] = req[c].privacy = "private"]
            /\ Goto(c, "sourceAxes")
    /\ UNCHANGED <<owner, accounts, asks, clientVars, got>>

\* Faulty variant: the replacement of the last axis is not awaited.
SaveSourceAxisUnawaited(c) ==
    /\ At(c, "sourceAxes")
    /\ IF axis[c] = Len(SourceAxes) THEN Reply(c, "ok") /\ UNCHANGED fields
       ELSE /\ fields' = [fields EXCEPT ![Src(c)][SourceAxes[axis[c]]] = num[c]]
            /\ Goto(c, "sourceAxes")
    /\ axis' = [axis EXCEPT ![c] = @ + 1]
    /\ UNCHANGED <<private, owner, accounts, asks, clientVars, got>>

SaveSourceAxis(c) ==
    /\ At(c, "sourceAxes")
    /\ fields' = [fields EXCEPT ![Src(c)][SourceAxes[axis[c]]] = num[c]]
    /\ axis' = [axis EXCEPT ![c] = @ + 1]
    /\ IF axis[c] = Len(SourceAxes) THEN Reply(c, "ok") ELSE Goto(c, "sourceAxes")
    /\ UNCHANGED <<private, owner, accounts, asks, clientVars, got>>

\* A statement throws: the error is answered, nothing is undone.
SaveSourceFails(c) ==
    /\ req[c].op = "saveSource" /\ CanWrite(Usr(c))
    /\ ~At(c, "idle") /\ ~At(c, "answered")
    /\ Reply(c, "error")
    /\ UNCHANGED <<sourceVars, clientVars, axis, got>>

-------------------------------------------------------------------------------
\* An account is closed: its sources belong to nobody (ON DELETE SET NULL).
CloseAccount(u) ==
    /\ u \in accounts
    /\ [op |-> "close", user |-> u] \in mix
    /\ accounts' = accounts \ {u}
    /\ owner' = [s \in Source |-> IF owner[s] = u THEN Nobody ELSE owner[s]]
    /\ UNCHANGED <<private, asks, fields, clientVars, axis, pc, answer, got>>

\* The page of one viewer, the request or the resolution of one client.
SourceStep(c) ==
    \/ Describe(c) \/ DescribeGrants(c) \/ Load(c) \/ LoadGrants(c) \/ ListSources(c)
    \/ FollowLink(c) \/ FindFile(c) \/ FileGrants(c) \/ EditForm(c) \/ EditGrants(c)
    \/ AskForAccess(c) \/ FindPending(c) \/ Approve(c) \/ Reject(c) \/ Withdraw(c)
    \/ SaveSourceColumns(c) \/ SaveSourceAxis(c) \/ SaveSourceFails(c)
===============================================================================
