--------------------------- MODULE MCExtractionPlan ---------------------------
(* ExtractionPlan on three pages that each take a prompt of their own, so that   *)
(* there may be more recommendations than one batch takes.                      *)
EXTENDS ExtractionPlan

FullPages == {<<18, 18, 18>>}
NoOutline == {}
Unanchored == {<<0, 0>>}
OneClass == {[priority |-> "s", themes |-> <<>>]}
AsWritten == [x \in {"s"} |-> x]
===============================================================================
