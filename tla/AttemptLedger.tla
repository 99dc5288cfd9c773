---------------------------- MODULE AttemptLedger ----------------------------
(***************************************************************************)
(* What the pipeline attempt history promises its readers: for each key    *)
(* (a source and a stage) a table of attempts numbered 1, 2, 3, ... with   *)
(* no gap and no number used twice.  Opening an attempt is one indivisible *)
(* step that takes the next number; closing one changes only its outcome.  *)
(* PipelineAttempts is shown to implement this.                            *)
(***************************************************************************)
EXTENDS Integers

CONSTANT Key            \* (source, stage) pairs

VARIABLE ledger         \* ledger[k][n]: status of attempt n of key k

Status == {"running", "succeeded", "failed"}

\* The attempts of a key are numbered 1..n and n is the last of them.
Numbered(f, n) == DOMAIN f = 1..n

Init == ledger = [k \in Key |-> [n \in 1..0 |-> "running"]]

Open(k) ==
    \E n \in {0} \cup DOMAIN ledger[k] :
        /\ Numbered(ledger[k], n)
        /\ ledger' = [ledger EXCEPT ![k] =
                        [i \in 1..(n + 1) |-> IF i = n + 1 THEN "running" ELSE ledger[k][i]]]

Close(k) ==
    \E n \in DOMAIN ledger[k] :
        \E outcome \in {"succeeded", "failed"} :
            ledger' = [ledger EXCEPT ![k] = [ledger[k] EXCEPT ![n] = outcome]]

Next == \E k \in Key : Open(k) \/ Close(k)

Spec == Init /\ [][Next]_ledger
==============================================================================
