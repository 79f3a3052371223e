------------------------------ MODULE MissRow -------------------------------
(***************************************************************************)
(* IsaReference with a history variable that counts the failures taken for *)
(* OBJECT_NOT_EXIST since a library call was last successful: those "in a  *)
(* row".                                                                   *)
(***************************************************************************)
EXTENDS IsaReference

VARIABLE row  (* misses in a row, counted no further than MissLimit        *)

rvars == << vars, row >>

Succeeds(r) == NativeReturns(r) /\ request[r].left = 1

(* testConnection also counts TRANSIENT and TIMEOUT (index.ts:507-513).    *)
Misses(r) ==
  \/ NativeNotExist(r)
  \/ NativeTransient(r) /\ request[r].op = "ping"

RowInit == Init /\ row = 0

RowNext ==
  \/ /\ \E r \in Requests : Succeeds(r)
     /\ row' = 0
  \/ /\ \E r \in Requests : Misses(r)
     /\ row' = IF row = MissLimit THEN row ELSE row + 1
  \/ /\ \E r \in Requests : \/ Client(r) \/ Http(r) \/ Job(r)
                            \/ NativeReturns(r) /\ ~Succeeds(r)
                            \/ NativeThrows(r)
                            \/ NativeTransient(r) /\ request[r].op # "ping"
     /\ UNCHANGED row

RowSpec == RowInit /\ [][RowNext]_rvars
LiveRowSpec == RowSpec /\ Fairness
-----------------------------------------------------------------------------
(* Refuted: the guard of getISAReference refuses a call only after its     *)
(* limit of OBJECT_NOT_EXIST answers in a row, as its message says         *)
(* ("Five OBJECT_NOT_EXIST exceptions in a row", index.ts:426).            *)
RefusedAfterRow ==
  [][\A r \in Requests :
       request[r].pc # "refused" /\ request'[r].pc = "refused"
         => row' = MissLimit]_rvars
=============================================================================
