---------------------------- MODULE PortService ----------------------------
(***************************************************************************)
(* What the queued port operations of the gateway promise: each of them    *)
(* happens at once, at the moment it is answered.  A port is there with    *)
(* its channel, or it is not there.                                        *)
(***************************************************************************)
CONSTANTS Requests, Ports, Channels, None

VARIABLES
  owner,         (* the channel that each port plays on, or None           *)
  call           (* the latest call of each request                        *)

vars == << owner, call >>

Quiet == [op |-> None, port |-> None, channel |-> None, result |-> "none"]
Free(c) == \A p \in Ports : owner[p] # c

Init ==
  /\ owner = [p \in Ports |-> None]
  /\ call = [r \in Requests |-> Quiet]

Asks(r) ==
  /\ call[r].result # "pending"
  /\ \E op \in {"create", "status", "reset", "release", "properties"}, p \in Ports :
       \E c \in IF op = "create" THEN Channels ELSE {None} :
         call' = [call EXCEPT ![r] =
                   [op |-> op, port |-> p, channel |-> c, result |-> "pending"]]
  /\ UNCHANGED owner

Answer(r, op, v) ==
  /\ call[r].op = op
  /\ call[r].result = "pending"
  /\ call' = [call EXCEPT ![r].result = v]

Creates(r) ==
  /\ Answer(r, "create", "ok")
  /\ owner[call[r].port] = None
  /\ Free(call[r].channel)
  /\ owner' = [owner EXCEPT ![call[r].port] = call[r].channel]

FindsCreated(r) ==
  /\ Answer(r, "create", "known")
  /\ owner[call[r].port] = call[r].channel
  /\ UNCHANGED owner

(* The port plays on another channel, or the channel has another port. *)
RefusesToCreate(r) ==
  /\ Answer(r, "create", "refused")
  /\ owner[call[r].port] # call[r].channel
  /\ owner[call[r].port] # None \/ ~Free(call[r].channel)
  /\ UNCHANGED owner

Serves(r) ==
  /\ \E op \in {"status", "reset", "properties"} : Answer(r, op, "ok")
  /\ owner[call[r].port] # None
  /\ UNCHANGED owner

Releases(r) ==
  /\ Answer(r, "release", "ok")
  /\ owner[call[r].port] # None
  /\ owner' = [owner EXCEPT ![call[r].port] = None]

FindsNoPort(r) ==
  /\ \E op \in {"status", "reset", "release", "properties"} : Answer(r, op, "refused")
  /\ owner[call[r].port] = None
  /\ UNCHANGED owner

Next == \E r \in Requests :
  \/ Asks(r) \/ Creates(r) \/ FindsCreated(r) \/ RefusesToCreate(r)
  \/ Serves(r) \/ Releases(r) \/ FindsNoPort(r)

Spec == Init /\ [][Next]_vars
=============================================================================
