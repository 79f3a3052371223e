---------------------------- MODULE MCRequestPath ----------------------------
(* RequestPath with two requests and a single thread. *)
EXTENDS RequestPath
=============================================================================
