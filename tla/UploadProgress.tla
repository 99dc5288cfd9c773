--------------------------- MODULE UploadProgress ---------------------------
(***************************************************************************)
(* What the uploader sees of a source's way through the pipeline: the     *)
(* worker's events (src/lib/jobs/events.ts), the route that turns them    *)
(* into a stream (src/app/api/jobs/[id]/stream/route.ts) and the upload   *)
(* form that reads it (src/components/sources/source-upload-form.tsx).    *)
(*                                                                         *)
(* Events are NOTIFYs: only a connection that listens gets them.  The     *)
(* worker may be ahead of the form, which subscribes when its POST is     *)
(* answered.  The streams of several uploads write one progress line.     *)
(***************************************************************************)
EXTENDS Integers, Sequences

CONSTANTS
    Upload,     \* sources uploaded from one form
    Retries,    \* redeliveries of a source's jobs
    MaxUnread   \* bound: events unread when a progress event is sent

ASSUME RetriesAssumption == Retries \in Nat
ASSUME MaxUnreadAssumption == MaxUnread \in Nat

VARIABLES
    worker,     \* worker[u]: stage the source is in and throws so far
    notes,      \* notes[u]: NOTIFYs on the way to the route's listening connection
    route,      \* route[u]: the GET that serves the source's stream
    chunks,     \* chunks[u]: events written to the stream and not read
    es,         \* es[u]: the form's EventSource
    shown       \* the phase the form shows

streamVars == <<worker, notes, route, chunks, es, shown>>

Phases == <<"parsing", "extracting", "embedding", "ready">>
Event == {"parsing", "extracting", "embedding", "ready", "progress", "error"}
Settled(u) == worker[u].stage \in {4, 5}   \* ready; failed for good

\* A GET that has not been made, and the fields of one in progress: "pc" its
\* place in start(), "closed" and "beating" its locals, "listens" and "connected"
\* its database connection, "ending" the rest of a close() that has begun.
NoRoute == [pc |-> "none", closed |-> FALSE, beating |-> FALSE, listens |-> FALSE,
            connected |-> FALSE, ending |-> "no"]

StreamTypeOK ==
    /\ worker \in [Upload -> [stage: 0..5, throws: 0..Retries+1]]
    /\ notes \in [Upload -> Seq(Event)]
    /\ route \in [Upload -> [pc: {"none", "subscribe", "assign", "watch", "failed"},
                             closed: BOOLEAN, beating: BOOLEAN, listens: BOOLEAN,
                             connected: BOOLEAN, ending: {"no", "unlisten", "end", "ended"}]]
    /\ chunks \in [Upload -> Seq(Event)]
    /\ es \in [Upload -> {"none", "open", "closed"}]
    /\ shown \in (Event \ {"progress", "error"}) \cup {"none", "failed", "lost"}

StreamInit ==
    /\ worker = [u \in Upload |-> [stage |-> 0, throws |-> 0]]
    /\ notes = [u \in Upload |-> <<>>]
    /\ route = [u \in Upload |-> NoRoute]
    /\ chunks = [u \in Upload |-> <<>>]
    /\ es = [u \in Upload |-> "none"]
    /\ shown = "none"
-------------------------------------------------------------------------------
\* emitJobEvent: the event reaches whoever listens at this moment.
Emit(u, event) ==
    notes' = [notes EXCEPT ![u] = IF route[u].listens THEN Append(@, event) ELSE @]

\* A handler begins a stage, or the last one is done.
WorkerPhase(u) ==
    /\ worker[u].stage < 4
    /\ worker' = [worker EXCEPT ![u].stage = @ + 1]
    /\ Emit(u, Phases[worker[u].stage + 1])
    /\ UNCHANGED <<route, chunks, es, shown>>

\* A batch is embedded; the percentage is not modelled.
WorkerProgress(u) ==
    /\ worker[u].stage = 3
    /\ Len(notes[u]) + Len(chunks[u]) < MaxUnread
    /\ Emit(u, "progress")
    /\ UNCHANGED <<worker, route, chunks, es, shown>>

\* A handler throws: it says so, and is called again until the retries are used up.
WorkerThrows(u) ==
    /\ worker[u].stage \in 1..3
    /\ worker[u].throws <= Retries
    /\ worker' = [worker EXCEPT ![u] = [stage |-> IF @.throws = Retries THEN 5 ELSE @.stage - 1,
                                        throws |-> @.throws + 1]]
    /\ Emit(u, "error")
    /\ UNCHANGED <<route, chunks, es, shown>>
-------------------------------------------------------------------------------
Route(u, change) == route' = [route EXCEPT ![u] = change]

\* GET: a connection of its own, the heartbeat, and a LISTEN under way.
Open(u) ==
    /\ es[u] = "open" /\ route[u].pc = "none"
    /\ Route(u, [NoRoute EXCEPT !.pc = "subscribe", !.beating = TRUE, !.connected = TRUE])
    /\ UNCHANGED <<worker, notes, chunks, es, shown>>

\* The server accepts the LISTEN; the answer is under way.
Accept(u) ==
    /\ route[u].pc = "subscribe"
    /\ Route(u, [route[u] EXCEPT !.pc = "assign", !.listens = TRUE])
    /\ UNCHANGED <<worker, notes, chunks, es, shown>>

\* The LISTEN fails: the stream errors and the connection ends.  The heartbeat goes
\* on, as nothing clears it.
Refuse(u) ==
    /\ route[u].pc = "subscribe"
    /\ Route(u, [route[u] EXCEPT !.pc = "failed", !.connected = FALSE])
    /\ es' = [es EXCEPT ![u] = "closed"]
    /\ shown' = "lost"
    /\ UNCHANGED <<worker, notes, chunks>>

\* unsub is set and the listener for the client's abort added.
Watch(u) ==
    /\ route[u].pc = "assign"
    /\ Route(u, [route[u] EXCEPT !.pc = "watch"])
    /\ UNCHANGED <<worker, notes, chunks, es, shown>>

\* close(unsub): what it does at once.  An unsub that is not set yet is skipped.
Closing(r) ==
    IF r.closed THEN r
    ELSE [r EXCEPT !.closed = TRUE, !.beating = FALSE,
                   !.ending = IF r.pc = "watch" THEN "unlisten" ELSE "end"]


\* The rest of it: unlisten, which may fail, and the end of the connection.
CloseStep(u) ==
    /\ \/ /\ route[u].ending = "unlisten"
          /\ \E done \in BOOLEAN :
                Route(u, [route[u] EXCEPT !.listens = @ /\ ~done, !.ending = "end"])
          /\ UNCHANGED notes
       \/ /\ route[u].ending = "end"
          /\ Route(u, [route[u] EXCEPT !.listens = FALSE, !.connected = FALSE, !.ending = "ended"])
          /\ notes' = [notes EXCEPT ![u] = <<>>]
    /\ UNCHANGED <<worker, chunks, es, shown>>

\* The callback of the subscription: the event is written out, and a terminal
\* phase closes the stream.
Forward(u) ==
    /\ notes[u] # <<>>
    /\ notes' = [notes EXCEPT ![u] = Tail(@)]
    /\ IF route[u].closed THEN UNCHANGED <<route, chunks>>
       ELSE /\ chunks' = [chunks EXCEPT ![u] = Append(@, Head(notes[u]))]
            /\ IF Head(notes[u]) = "ready" THEN Route(u, Closing(route[u]))
               ELSE UNCHANGED route
    /\ UNCHANGED <<worker, es, shown>>

\* The client's end is closed and the listener hears of it.
HearAbort(u) ==
    /\ es[u] = "closed" /\ route[u].pc = "watch" /\ ~route[u].closed
    /\ Route(u, Closing(route[u]))
    /\ UNCHANGED <<worker, notes, chunks, es, shown>>
-------------------------------------------------------------------------------
\* startUpload has its answer: subscribeToPipeline.
Subscribe(u) ==
    /\ es[u] = "none"
    /\ es' = [es EXCEPT ![u] = "open"]
    /\ shown' = "none"
    /\ UNCHANGED <<worker, notes, route, chunks>>

\* The phase shown after an event, whichever upload's it is.
Showing(event) ==
    CASE event = "error" -> "failed"
      [] event = "progress" -> shown
      [] OTHER -> event


\* es.onmessage.
OnMessage(u) ==
    /\ es[u] = "open" /\ chunks[u] # <<>>
    /\ chunks' = [chunks EXCEPT ![u] = Tail(@)]
    /\ shown' = Showing(Head(chunks[u]))
    /\ es' = IF Head(chunks[u]) \in {"ready", "error"} THEN [es EXCEPT ![u] = "closed"] ELSE es
    /\ UNCHANGED <<worker, notes, route>>

\* es.onerror: the network, or a proxy, ends the stream.
OnError(u) ==
    /\ es[u] = "open"
    /\ es' = [es EXCEPT ![u] = "closed"]
    /\ shown' = "lost"
    /\ UNCHANGED <<worker, notes, route, chunks>>

\* The user leaves the page.
Leave ==
    /\ \E u \in Upload : es[u] = "open"
    /\ es' = [u \in Upload |-> IF es[u] = "open" THEN "closed" ELSE es[u]]
    /\ shown' = "none"
    /\ UNCHANGED <<worker, notes, route, chunks>>

ServeStream(u) == Open(u) \/ Accept(u) \/ Refuse(u) \/ Watch(u)

StreamNext ==
    \/ Leave
    \/ \E u \in Upload :
        \/ WorkerPhase(u) \/ WorkerProgress(u) \/ WorkerThrows(u)
        \/ ServeStream(u) \/ CloseStep(u) \/ Forward(u) \/ HearAbort(u)
        \/ Subscribe(u) \/ OnMessage(u) \/ OnError(u)
-------------------------------------------------------------------------------
StreamSpec == StreamInit /\ [][StreamNext]_streamVars

\* Handlers and requests are worked on, messages arrive in the end.  No one has
\* to upload, to leave or to lose the connection.
FairStreamSpec ==
    /\ StreamSpec
    /\ \A u \in Upload :
        /\ WF_streamVars(WorkerPhase(u) \/ WorkerThrows(u))
        /\ WF_streamVars(ServeStream(u))
        /\ WF_streamVars(CloseStep(u))
        /\ WF_streamVars(Forward(u))
        /\ WF_streamVars(HearAbort(u))
        /\ WF_streamVars(OnMessage(u))

Released(u) == ~route[u].connected /\ ~route[u].beating


===============================================================================
