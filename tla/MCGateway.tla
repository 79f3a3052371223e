----------------------------- MODULE MCGateway -----------------------------
(* Gateway on small instances. *)
EXTENDS Gateway, TLC

CONSTANTS a, b, c1, c2, w1, w2, w3

Single == <<a>>
Other == <<b>>
Pair == <<a, b>>
OneList == {Single}
TwoLists == {Single, Other}
PairList == {Pair}
SingleIors == {a} \X (1 .. MaxIncarnation)
PairIors == {a, b} \X (1 .. MaxIncarnation)
=============================================================================
