------------------------- MODULE MCReferenceHistory -------------------------
(* ReferenceHistory on small instances. *)
EXTENDS ReferenceHistory

CONSTANTS a, b, i1, r1, r2

Single == <<a>>
TwoLists == {Single, <<b, a>>}
=============================================================================
