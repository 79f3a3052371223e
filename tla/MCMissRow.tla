----------------------------- MODULE MCMissRow ------------------------------
(* MissRow on small instances. *)
EXTENDS MissRow

CONSTANTS a, i1, r1

Single == <<a>>
OneList == {Single}
=============================================================================
