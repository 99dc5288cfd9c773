--------------------------- MODULE MCIngestPipeline ---------------------------
(* IngestPipeline on one source; the faults differ from run to run. *)
EXTENDS IngestPipeline

UpTo(n, kinds) == UNION {[1..m -> kinds] : m \in 0..n}

Throwing == UpTo(3, {"throw", "bookkeeping"})
\* One fault of any kind, or two that let stages of one source overlap.
Any == UpTo(1, FaultKind) \cup UpTo(2, {"throw", "lostAck"})
\* One fault after which a delivery is repeated, or two that use up the retries: throws, or
\* a throw and then a crash.  (A crash first lets the stages of one source overlap from
\* there on; with a second fault to follow that is more than a run can explore.)
Interrupted ==
    UpTo(1, {"lostAck", "crash"}) \cup UpTo(2, {"throw"}) \cup {<<"throw", "crash">>}
Expiring == UpTo(1, {"expire"})
===============================================================================
