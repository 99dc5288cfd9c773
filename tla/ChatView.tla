------------------------------ MODULE ChatView ------------------------------
(***************************************************************************)
(* The chat: one view (src/components/chat/chat-view.tsx) and the route   *)
(* that answers it (src/app/api/chat-search/route.ts).  A message is      *)
(* abstracted to the length the route's schema tells apart: empty; fit;   *)
(* wide, over the 1000 characters of a question; long, over the 8000 of a *)
(* message of the history.  The language model is external: its answer    *)
(* may be any of these, and may break off.                                *)
(***************************************************************************)
EXTENDS Integers, Sequences, SequencesExt, Filters

CONSTANTS
    MAX_HISTORY,    \* messages the view sends along, chat-view.tsx
    SchemaHistory,  \* messages the schema takes, route.ts
    MaxAsked,       \* bound: questions asked in a behaviour
    Questions,      \* what may be typed
    Answers         \* what the language model may answer

ASSUME HistoryAssumption == MAX_HISTORY \in Nat /\ SchemaHistory \in Nat /\ MaxAsked \in Nat
ASSUME AnswersAssumption == Answers \subseteq {"empty", "fit", "long"}
ASSUME QuestionsAssumption == Questions \subseteq {"fit", "wide", "long"}

VARIABLES
    messages,   \* the transcript shown
    streaming,  \* the state variable that disables the input
    request,    \* the request under way, if any
    asked       \* how often ask() got through; ids of messages count it

chatVars == <<messages, streaming, request, asked>>

Text == {"empty", "fit", "wide", "long"}
NoRequest == [pc |-> "none", history |-> <<>>, text |-> "empty", answers |-> 0]

\* A message of the n-th ask, and the ask that first put its question.
Message(role, n, q, text) == [role |-> role, turn |-> n, question |-> q, text |-> text]

ChatTypeOK ==
    /\ \A i \in 1..Len(messages) : messages[i] \in
          [role: {"user", "assistant"}, turn: 1..MaxAsked, question: 1..MaxAsked, text: Text]
    /\ streaming \in BOOLEAN
    /\ request.pc \in {"none", "sent", "body"}
    /\ request.text \in Text /\ request.answers \in 0..MaxAsked
    /\ asked \in 0..MaxAsked

ChatInit ==
    /\ messages = <<>>
    /\ streaming = FALSE
    /\ request = NoRequest
    /\ asked = 0
-------------------------------------------------------------------------------
\* messages.slice(-MAX_HISTORY).
Recent(s) == SubSeq(s, IF Len(s) > MAX_HISTORY THEN Len(s) - MAX_HISTORY + 1 ELSE 1, Len(s))

\* ask(q), called by a render that saw the messages `seen`, when the transcript is `base`:
\* the question and an empty answer are appended, the messages seen are sent along.
Asking(seen, base, q, text) ==
    /\ asked < MaxAsked
    /\ asked' = asked + 1
    /\ streaming' = TRUE
    /\ messages' = base \o <<Message("user", asked', q, text),
                             Message("assistant", asked', q, "empty")>>
    /\ request' = [pc |-> "sent", history |-> Recent(seen), text |-> text, answers |-> asked']

Ask ==
    /\ ~streaming
    /\ \E text \in Questions : Asking(messages, messages, asked + 1, text)

\* Faulty variant: the question is left in the transcript it is asked again in.
TrimmedAnswerOnly(s) ==
    IF s # <<>> /\ s[Len(s)].role = "assistant" THEN Front(s) ELSE s

\* The transcript without a trailing answer and the question before it.
Trimmed(s) ==
    LET t == IF s # <<>> /\ s[Len(s)].role = "assistant" THEN Front(s) ELSE s
    IN IF t # <<>> /\ t[Len(t)].role = "user" THEN Front(t) ELSE t

\* regenerate: the last question again, offered below the last answer there is.  ask()
\* still has the messages of the render, from before the trimming, and sends those along.
Regenerate ==
    /\ ~streaming
    /\ \E i \in 1..Len(messages) : messages[i].role = "assistant"
    /\ \E i \in 1..Len(messages) :
          /\ messages[i].role = "user"
          /\ \A j \in i+1..Len(messages) : messages[j].role # "user"
          /\ Asking(messages, Trimmed(messages), messages[i].question, messages[i].text)
-------------------------------------------------------------------------------
\* What BodySchema takes: a question of at most 1000 characters, and messages that
\* are neither empty nor too long.
Streams(r) ==
    /\ r.text = "fit"
    /\ Len(r.history) <= SchemaHistory
    /\ \A i \in 1..Len(r.history) : r.history[i].text \in {"fit", "wide"}

AnswerAt(i) == messages[i].role = "assistant" /\ messages[i].turn = request.answers

\* The catch, and an answer that is not ok: the empty answer is taken out again.
\* The question stays.
Failed ==
    /\ messages' = Filtered(messages, {i \in 1..Len(messages) : ~AnswerAt(i)})
    /\ streaming' = FALSE
    /\ request' = NoRequest
    /\ UNCHANGED asked

\* 400.
Refuse400 ==
    /\ request.pc = "sent" /\ ~Streams(request)
    /\ Failed

\* The limiter's 429 before anything else, no model configured, the search throws, or
\* the network fails, also in the middle of the answer.
RequestFails ==
    /\ request.pc \in {"sent", "body"}
    /\ Failed

\* Passages are found and the answer begins.
Respond ==
    /\ request.pc = "sent" /\ Streams(request)
    /\ request' = [request EXCEPT !.pc = "body"]
    /\ UNCHANGED <<messages, streaming, asked>>

SetContent(text) ==
    messages' = [i \in 1..Len(messages) |->
                    IF AnswerAt(i) /\ messages[i].text # "long"
                    THEN [messages[i] EXCEPT !.text = text] ELSE messages[i]]

\* Chunks are read: the answer shown grows.
ReadChunk ==
    /\ request.pc = "body"
    /\ SetContent("fit") \/ ("long" \in Answers /\ SetContent("long"))
    /\ UNCHANGED <<streaming, request, asked>>

\* The stream ends, perhaps before it brought anything, which is no error.
ReadDone ==
    /\ request.pc = "body"
    /\ \E i \in 1..Len(messages) :
          AnswerAt(i) /\ messages[i].text \in Answers
    /\ streaming' = FALSE
    /\ request' = NoRequest
    /\ UNCHANGED <<messages, asked>>

ChatNext ==
    \/ Ask \/ Regenerate
    \/ Refuse400 \/ RequestFails \/ Respond \/ ReadChunk \/ ReadDone

ChatSpec == ChatInit /\ [][ChatNext]_chatVars
-------------------------------------------------------------------------------
\* Through failures and regenerations, an answer stands right below the question it
\* was given to, and no question is left in the transcript twice.
TranscriptIsInOrder ==
    \A i \in 1..Len(messages) :
        IF messages[i].role = "assistant"
        THEN i > 1 /\ messages[i-1].role = "user" /\ messages[i-1].turn = messages[i].turn
        ELSE \A j \in 1..Len(messages) :
                messages[j].role = "user" /\ messages[j].question = messages[i].question => i = j
===============================================================================
