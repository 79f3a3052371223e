----------------------------- MODULE MCPlayPort -----------------------------
(* PlayPort on small instances. *)
EXTENDS PlayPort, TLC

CONSTANTS r1, r2, r3, p1, p2, c1, c2

Symmetry == Permutations(Requests) \cup Permutations(Ports) \cup Permutations(Channels)

QueuedOps == {"create", "status", "reset", "release", "properties"}
(* trigger changes nothing of what the module keeps of a port *)
RepairOps == {"create", "reset", "release", "properties", "load", "wipe"}
=============================================================================
