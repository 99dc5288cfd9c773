----------------------------- MODULE StagedIngest -----------------------------
(***************************************************************************)
(* What the ingest pipeline promises: a source goes through three stages   *)
(* in order.  A stage may be tried over and over, but when the next one    *)
(* begins its output is frozen: a failed extraction does not parse again,  *)
(* a failed embedding does not extract again, and a source is done only    *)
(* when all its rows are indexed.  It is shown as ready once they are, at  *)
(* the end of the last stage, and not before.  IngestPipeline implements   *)
(* this as long as its handlers fail only by throwing.                     *)
(***************************************************************************)
EXTENDS Integers

CONSTANTS Source, None

VARIABLES
    stage,          \* 0 not submitted, 1 parse, 2 extract, 3 embed, 4 done
    markdown,       \* output of parsing: the canonical text
    parsed,         \* output of parsing: the set of page rows
    described,      \* output of extraction: metadata and tags
    extracted,      \* output of extraction: the set of recommendation rows
    indexed,        \* the rows that have an embedding
    ready           \* the sources that are shown as ready

vars == <<stage, markdown, parsed, described, extracted, indexed, ready>>

OnlyFor(s, f, g) == \A t \in Source \ {s} : g[t] = f[t]

Init ==
    /\ stage = [s \in Source |-> 0]
    /\ markdown = [s \in Source |-> None]
    /\ parsed = [s \in Source |-> {}]
    /\ described = [s \in Source |-> <<None, None>>]
    /\ extracted = [s \in Source |-> {}]
    /\ indexed = {}
    /\ ready = {}

\* One parse replaces the whole of the output of parsing, and nothing else.
Parse(s) ==
    /\ stage[s] = 1
    /\ OnlyFor(s, markdown, markdown')
    /\ OnlyFor(s, parsed, parsed')
    /\ indexed' = indexed \ parsed[s]
    /\ UNCHANGED <<stage, described, extracted, ready>>

\* A part of an extraction.
Extract(s) ==
    /\ stage[s] = 2
    /\ OnlyFor(s, described, described')
    /\ OnlyFor(s, extracted, extracted')
    /\ indexed' \in {indexed, indexed \ extracted[s]}
    /\ UNCHANGED <<stage, markdown, parsed, ready>>

\* Some more rows are indexed, or the stage is begun again.
Embed(s) ==
    /\ stage[s] = 3
    /\ indexed \subseteq indexed'
    /\ indexed' \subseteq indexed \cup parsed[s] \cup extracted[s]
    /\ ready' \in {ready, ready \ {s}}
    /\ UNCHANGED <<stage, markdown, parsed, described, extracted>>

\* Readers are told, now that every row is indexed.
Show(s) ==
    /\ stage[s] = 3
    /\ parsed[s] \cup extracted[s] \subseteq indexed
    /\ ready' = ready \cup {s}
    /\ UNCHANGED <<stage, markdown, parsed, described, extracted, indexed>>

\* The stage is done, and the next one begins.
Advance(s) ==
    /\ stage[s] < 4
    /\ stage[s] = 1 => markdown[s] # None
    /\ stage[s] = 2 => described[s][1] = described[s][2] /\ described[s][1] # None
    /\ stage[s] = 3 => s \in ready
    /\ stage' = [stage EXCEPT ![s] = @ + 1]
    /\ UNCHANGED <<markdown, parsed, described, extracted, indexed, ready>>

Next == \E s \in Source : Parse(s) \/ Extract(s) \/ Embed(s) \/ Show(s) \/ Advance(s)

Spec == Init /\ [][Next]_vars
===============================================================================
