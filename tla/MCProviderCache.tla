--------------------------- MODULE MCProviderCache ---------------------------
(* ProviderCache with two callers and one save. *)
EXTENDS ProviderCache

OneSave == 1
===============================================================================
