--------------------------- MODULE MCIsaReference ---------------------------
(* IsaReference on small instances. *)
EXTENDS IsaReference

CONSTANTS a, b, i1, r1, r2

Single == <<a>>
OneList == {Single}
=============================================================================
