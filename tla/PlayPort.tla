------------------------------ MODULE PlayPort ------------------------------
(***************************************************************************)
(* Play ports: the requests that create, query, reset and release a port   *)
(* or read its properties, which src/server.ts runs through a priority     *)
(* queue, those that load, wipe and trigger a port, which it does not, the *)
(* checks that src/index.ts makes first, and the remote calls that         *)
(* src/cxx/port.cc and control.cc make one after the other.                *)
(*                                                                         *)
(* The server that owns the ports is external: it does what                *)
(* include/quantel/Quentin.idl says of Server and Port.  getPort creates   *)
(* a port that is not there; release deletes the object that other calls   *)
(* may hold.                                                               *)
(***************************************************************************)
EXTENDS Naturals, Sequences, FiniteSets

CONSTANTS
  Requests,      (* slots of HTTP requests                                 *)
  Ports,         (* port names                                             *)
  Channels,
  Allowed,       (* the operations that clients ask for                    *)
  MaxFailures,   (* bound: remote calls that fail, or report no success    *)
  MaxOverruns,   (* bound: queued functions that outlast 10 s              *)
  Rivals,        (* BOOLEAN: does another system use the server's channels *)
  None

VARIABLES
  port,          (* the ports of the server                                *)
  taken,         (* channels that the other system has assigned            *)
  queue,         (* requests waiting in the PQueue                         *)
  running,       (* the request that the PQueue waits for                  *)
  request,
  faults         (* remote calls failed, queued functions given up      *)

vars == << port, taken, queue, running, request, faults >>
-----------------------------------------------------------------------------
(* server.ts: which operations are queued, and which go first.             *)
Queued == {"create", "status", "reset", "release", "properties"}
Priority(op) == IF op = "reset" THEN 1 ELSE 0
Unqueued == {"load", "wipe", "trigger"}

ASSUME PlayPortAssumption ==
  /\ None \notin Requests \cup Channels
  /\ Allowed \subseteq Queued \cup Unqueued
  /\ MaxFailures \in Nat
  /\ MaxOverruns \in Nat
  /\ Rivals \in BOOLEAN

(* The remote calls of each operation.  "play" is setMode(playing), "idle" *)
(* setMode(idle), "arm" the three calls of actionAtTrigger.                *)
CreateScript  == << "getPort", "assign", "play", "arm" >>
StatusScript  == << "getPort", "read" >>  (* of properties, too *)
ResetScript   == << "getPort", "clear", "play", "arm" >>
ReleaseScript == << "getPort", "idle", "clear", "delete" >>
LoadScript    == << "getPort", "load" >>
WipeScript    == << "getPort", "read", "wipe" >>
TriggerScript == << "getPort", "trigger" >>

(* Mutant: the triggers are set before the mode, which resets them. *)
ScriptArmsFirst(op) ==
  CASE op = "create"  -> << "getPort", "assign", "arm", "play" >>
    [] op \in {"status", "properties"} -> StatusScript
    [] op = "reset"   -> << "getPort", "clear", "arm", "play" >>
    [] op = "release" -> ReleaseScript
    [] op = "load"    -> LoadScript
    [] op = "wipe"    -> WipeScript
    [] op = "trigger" -> TriggerScript

Script(op) ==
  CASE op = "create"  -> CreateScript
    [] op \in {"status", "properties"} -> StatusScript
    [] op = "reset"   -> ResetScript
    [] op = "release" -> ReleaseScript
    [] op = "load"    -> LoadScript
    [] op = "wipe"    -> WipeScript
    [] op = "trigger" -> TriggerScript

Absent == [exists |-> FALSE, channels |-> {}, mode |-> "undefined",
           armed |-> FALSE, loaded |-> FALSE]
NewPort == [Absent EXCEPT !.exists = TRUE]
Existing == {p \in Ports : port[p].exists}
InUse(c) == c \in taken \/ \E p \in Ports : c \in port[p].channels

(* setMode resets the port when the mode changes *)
Cleared(s, m) == [exists |-> s.exists, channels |-> s.channels, mode |-> m,
                  armed |-> FALSE, loaded |-> FALSE]
InMode(s, m) == IF s.mode = m THEN s ELSE Cleared(s, m)

Done == [pc |-> "idle", op |-> None, port |-> None, channel |-> None,
         todo |-> << >>, handle |-> "none", result |-> "none"]
(* Request r at another point of its function *)
At(r, pc, todo, handle, result) ==
  [pc |-> pc, op |-> request[r].op, port |-> request[r].port,
   channel |-> request[r].channel, todo |-> todo, handle |-> handle, result |-> result]
(* The function ends with a result; "known" is a port that existed.        *)
Result(r, v) == At(r, "idle", << >>, "none", v)
Active(r) == request[r].pc \in {"servers", "native"}

(* When the function of r ends, the queue goes on if it still waits for r. *)
Ends(r, v) ==
  /\ request' = [request EXCEPT ![r] = Result(r, v)]
  /\ running' = IF running = r THEN None ELSE running
  /\ UNCHANGED queue

GoesOn(r, next) ==
  /\ request' = [request EXCEPT ![r] = next]
  /\ UNCHANGED << queue, running >>

Native(r, op) == At(r, "native", Script(op), "none", "none")

(* getPortProperties that finds its port deleted does not call itself      *)
(* again but wipe: todo tells so while the servers are asked.              *)
CalledAgain(r) == IF request[r].op = "properties" THEN WipeScript ELSE << >>
-----------------------------------------------------------------------------
(* A request arrives.  PQueue (lowerBound) inserts it behind the requests  *)
(* of its priority or a higher one.                                        *)
InsertAfter(n, r) ==
  queue' = [i \in 1 .. Len(queue) + 1 |->
              IF i <= n THEN queue[i] ELSE IF i = n + 1 THEN r ELSE queue[i - 1]]

(* Mutant: before the requests of its priority. *)
EnqueuesFirst(r, op) ==
  \E n \in 0 .. Len(queue) :
    /\ \A i \in 1 .. n : Priority(request[queue[i]].op) > Priority(op)
    /\ \A i \in n + 1 .. Len(queue) : Priority(request[queue[i]].op) <= Priority(op)
    /\ InsertAfter(n, r)

Enqueues(r, op) ==
  \E n \in 0 .. Len(queue) :
    /\ \A i \in 1 .. n : Priority(request[queue[i]].op) >= Priority(op)
    /\ \A i \in n + 1 .. Len(queue) : Priority(request[queue[i]].op) < Priority(op)
    /\ InsertAfter(n, r)

Arrives(r, op, p, c) ==
  /\ request[r].pc = "idle"
  /\ request' = [request EXCEPT ![r] =
       [pc |-> IF op \in Queued THEN "waiting" ELSE "servers", op |-> op, port |-> p,
        channel |-> c, todo |-> << >>, handle |-> "none", result |-> "none"]]
  /\ IF op \in Queued THEN Enqueues(r, op) ELSE UNCHANGED queue
  /\ UNCHANGED << port, taken, running, faults >>

(* Mutant: no limit on concurrency. *)
DequeuesAtOnce ==
  /\ queue # << >>
  /\ running' = Head(queue)
  /\ queue' = Tail(queue)
  /\ request' = [request EXCEPT ![Head(queue)] = At(Head(queue), "servers", << >>, "none", "none")]
  /\ UNCHANGED << port, taken, faults >>

(* concurrency: 1 *)
Dequeues ==
  /\ running = None
  /\ queue # << >>
  /\ running' = Head(queue)
  /\ queue' = Tail(queue)
  /\ request' = [request EXCEPT ![Head(queue)] = At(Head(queue), "servers", << >>, "none", "none")]
  /\ UNCHANGED << port, taken, faults >>

(* timeout: 10000.  The queue gives the function up and goes on; the       *)
(* function goes on, too.                                                  *)
QueueTimesOut ==
  /\ faults.overruns < MaxOverruns
  /\ faults' = [faults EXCEPT !.overruns = @ + 1]
  /\ running # None
  /\ Active(running)
  /\ running' = None
  /\ UNCHANGED << port, taken, queue, request >>
-----------------------------------------------------------------------------
(* checkServer: the names of the ports and the ports of the channels, as   *)
(* they are now, decide what is done next.                                 *)

(* Mutant: channels are not checked, assignChannel will tell. *)
CreateChecksPortOnly(r) ==
  /\ request[r].op = "create"
  /\ GoesOn(r, Native(r, IF port[request[r].port].exists THEN "status" ELSE "create"))

(* Mutant: the name of the port is not checked, only the channel. *)
CreateChecksChannelOnly(r) ==
  /\ request[r].op = "create"
  /\ IF InUse(request[r].channel) THEN Ends(r, "refused") ELSE GoesOn(r, Native(r, "create"))

CreateChecks(r) ==
  /\ request[r].op = "create"
  /\ \/ /\ port[request[r].port].exists
        /\ GoesOn(r, Native(r, "status"))
     \/ /\ ~port[request[r].port].exists
        /\ InUse(request[r].channel)
        /\ Ends(r, "refused")
     \/ /\ ~port[request[r].port].exists
        /\ ~InUse(request[r].channel)
        /\ GoesOn(r, Native(r, "create"))

(* checkServerPort *)
PortChecks(r) ==
  /\ request[r].op # "create"
  /\ IF port[request[r].port].exists
       THEN GoesOn(r, IF request[r].todo = << >> THEN Native(r, request[r].op)
                      ELSE Native(r, "wipe"))
       ELSE Ends(r, "refused")

GetsServers(r) ==
  /\ request[r].pc = "servers"
  /\ CreateChecks(r) \/ PortChecks(r)
  /\ UNCHANGED << port, taken, faults >>
-----------------------------------------------------------------------------
(* The remote calls of a native function, in the order of its script.  The *)
(* step of r leaves the port in state s and the other requests with        *)
(* handles that may now be dead.                                           *)

NextCall(r) == Head(request[r].todo)
LastCall(r) == Len(request[r].todo) = 1

(* What the function returns when its last call succeeds.  Mutant: the     *)
(* answer of the last call itself.                                         *)
ResultOfLastCall(r) == NextCall(r)

ResultOf(r) ==
  IF request[r].op = "create" /\ NextCall(r) = "read"
    THEN IF request[r].channel \in port[request[r].port].channels
           THEN "known" ELSE "refused"
    ELSE "ok"

Continues(r) ==
  IF LastCall(r) THEN Ends(r, ResultOf(r))
  ELSE GoesOn(r, At(r, "native", Tail(request[r].todo), "live", "none"))

Succeeds(r, s) ==
  /\ port' = [port EXCEPT ![request[r].port] = s]
  /\ Continues(r)
  /\ UNCHANGED << taken, faults >>

(* The state that a call leaves the port in; assignChannel answers FALSE   *)
(* and does nothing when the channel is in use.                            *)
After(r, s) ==
  CASE NextCall(r) = "getPort" -> IF s.exists THEN s ELSE NewPort
    [] NextCall(r) = "assign"  -> IF InUse(request[r].channel) THEN s
                               ELSE [InMode(s, "idle") EXCEPT
                                       !.channels = @ \cup {request[r].channel}]
    [] NextCall(r) = "play"    -> InMode(s, "playing")
    [] NextCall(r) = "idle"    -> InMode(s, "idle")
    [] NextCall(r) = "clear"   -> Cleared(s, s.mode)
    [] NextCall(r) = "arm"     -> [s EXCEPT !.armed = TRUE]
    [] NextCall(r) = "load"    -> [s EXCEPT !.loaded = TRUE]
    [] NextCall(r) = "wipe" /\ s.mode = "playing" -> [s EXCEPT !.loaded = FALSE]
    [] OTHER                -> s

(* The server has a port object for each of its channels. *)
PortLeft(p) == port[p].exists \/ Cardinality(Existing) < Cardinality(Channels)

(* load is valid in play mode only *)
WrongMode(r) == NextCall(r) = "load" /\ port[request[r].port].mode # "playing"

Usable(r) ==
  IF NextCall(r) = "getPort" THEN PortLeft(request[r].port)
  ELSE request[r].handle = "live" /\ ~WrongMode(r)

RemoteCall(r) ==
  /\ request[r].pc = "native"
  /\ NextCall(r) # "delete"
  /\ Usable(r)
  /\ Succeeds(r, After(r, port[request[r].port]))

(* release(): the objects that others hold cannot be used again.  r ends   *)
(* with the result v.                                                      *)
Releases(r, v) ==
  /\ request[r].pc = "native"
  /\ NextCall(r) = "delete"
  /\ request[r].handle = "live"
  /\ port' = [port EXCEPT ![request[r].port] = Absent]
  /\ request' = [q \in Requests |->
       IF q = r THEN Result(r, v)
       ELSE IF request[q].port = request[r].port /\ request[q].handle = "live"
         THEN At(q, request[q].pc, request[q].todo, "dead", "none")
       ELSE request[q]]
  /\ running' = IF running = r THEN None ELSE running
  /\ UNCHANGED << taken, queue >>

Deletes(r) == Releases(r, "ok") /\ UNCHANGED faults

(* The server has no port object left (createPlayPort checks for null, the *)
(* others call a nil object), or the port is not in play mode.             *)
NoPortLeft(r) ==
  /\ request[r].pc = "native"
  /\ NextCall(r) = "getPort"
  /\ ~PortLeft(request[r].port)
  /\ Ends(r, "error")
  /\ UNCHANGED << port, taken, faults >>

LoadRefused(r) ==
  /\ request[r].pc = "native"
  /\ request[r].handle = "live"
  /\ WrongMode(r)
  /\ Ends(r, "error")
  /\ UNCHANGED << port, taken, faults >>

(* A deleted port raises OBJECT_NOT_EXIST: the library function resets the *)
(* connection and starts again, or wipes the port in place of reading its  *)
(* properties (index.ts:1038-1040).                                        *)
FindsPortDeleted(r) ==
  /\ request[r].pc = "native"
  /\ request[r].handle = "dead"
  /\ GoesOn(r, At(r, "servers", CalledAgain(r), "none", "none"))
  /\ UNCHANGED << port, taken, faults >>

(* A call times out, before or after it took effect, or setMode(playing)   *)
(* or actionAtTrigger answers FALSE: the function ends where it is.  What  *)
(* setMode(idle) answers is not looked at (port.cc:503): the function goes *)
(* on with a port that is still in its mode.                               *)
RemoteFails(r) ==
  /\ request[r].pc = "native"
  /\ faults.calls < MaxFailures
  /\ faults' = [faults EXCEPT !.calls = @ + 1]
  /\ \/ Ends(r, "error") /\ UNCHANGED port
     \/ /\ Usable(r)
        /\ NextCall(r) # "delete"
        /\ port' = [port EXCEPT ![request[r].port] = After(r, port[request[r].port])]
        /\ Ends(r, "error")
     \/ Releases(r, "error")
     \/ /\ Usable(r)
        /\ NextCall(r) = "idle"
        /\ Continues(r)
        /\ UNCHANGED port
  /\ UNCHANGED taken
-----------------------------------------------------------------------------
(* The other automation system *)

RivalTakes(c) ==
  /\ Rivals
  /\ ~InUse(c)
  /\ taken' = taken \cup {c}
  /\ UNCHANGED << port, queue, running, request, faults >>

RivalLeaves(c) ==
  /\ c \in taken
  /\ taken' = taken \ {c}
  /\ UNCHANGED << port, queue, running, request, faults >>
-----------------------------------------------------------------------------
Init ==
  /\ port = [p \in Ports |-> Absent]
  /\ taken = {}
  /\ queue = << >>
  /\ running = None
  /\ request = [r \in Requests |-> Done]
  /\ faults = [calls |-> 0, overruns |-> 0]

Function(r) == \/ GetsServers(r) \/ RemoteCall(r) \/ Deletes(r)
               \/ NoPortLeft(r) \/ LoadRefused(r) \/ FindsPortDeleted(r)

Next ==
  \/ Dequeues \/ QueueTimesOut
  \/ \E r \in Requests :
       \/ \E op \in Allowed, p \in Ports :
            \E c \in (IF op = "create" THEN Channels ELSE {None}) : Arrives(r, op, p, c)
       \/ Function(r) \/ RemoteFails(r)
  \/ \E c \in Channels : RivalTakes(c) \/ RivalLeaves(c)

Spec == Init /\ [][Next]_vars

Fairness == WF_vars(Dequeues) /\ \A r \in Requests : WF_vars(Function(r))
LiveSpec == Spec /\ Fairness
-----------------------------------------------------------------------------
Calls == {"getPort", "assign", "play", "idle", "arm", "clear", "delete", "read"} \cup Unqueued
PortType == [exists : BOOLEAN, channels : SUBSET Channels,
             mode : {"undefined", "idle", "playing"}, armed : BOOLEAN, loaded : BOOLEAN]
RequestType ==
  [pc : {"idle", "waiting", "servers", "native"},
   op : Queued \cup Unqueued \cup {None}, port : Ports \cup {None},
   channel : Channels \cup {None}, todo : Seq(Calls),
   handle : {"none", "live", "dead"},
   result : {"none", "ok", "known", "refused", "error"}]

TypeOK ==
  /\ port \in [Ports -> PortType]
  /\ taken \subseteq Channels
  /\ queue \in Seq(Requests)
  /\ running \in Requests \cup {None}
  /\ request \in [Requests -> RequestType]
  /\ faults \in [calls : 0 .. MaxFailures, overruns : 0 .. MaxOverruns]

(* The book-keeping of the queue (server.ts:31-35): a request waits in it  *)
(* exactly once, resets before all others, and until a first function      *)
(* outlasts the timeout the queued functions exclude each other: the only  *)
(* one under way is the one that the queue waits for.                      *)
QueueConsistent ==
  /\ \A r \in Requests :
       request[r].pc = "waiting" <=> \E i \in 1 .. Len(queue) : queue[i] = r
  /\ \A i, j \in 1 .. Len(queue) : i < j =>
       /\ queue[i] # queue[j]
       /\ Priority(request[queue[i]].op) >= Priority(request[queue[j]].op)
  /\ faults.overruns = 0 => \A r \in Requests :
       Active(r) /\ request[r].op \in Queued <=> r = running

(* When no request is being served every port of the server is one that    *)
(* was built to the end: it has its channel, plays and has its triggers    *)
(* ("run the port create/release function in a queue, to avoid race        *)
(* conditions", CHANGELOG:33).                                             *)
RestingPortsComplete ==
  (\A r \in Requests : ~Active(r)) =>
     \A p \in Existing : /\ port[p].channels # {}
                         /\ port[p].mode = "playing"
                         /\ port[p].armed

(* A port never gets a second channel (README:198, "does not allow more    *)
(* than one channel to be assigned to a port"), whatever fails and whoever *)
(* takes channels, until a queued function that was given up runs beside   *)
(* the next one: what createPlayPort saw of the port is still true when it *)
(* assigns the channel.                                                    *)
OneChannel ==
  faults.overruns = 0 => \A p \in Ports : Cardinality(port[p].channels) <= 1

(* The queue has not given r up, and r ends with one of the results. *)
Answers(r, op, results) ==
  /\ running = r
  /\ request[r].op = op
  /\ request'[r].pc = "idle"
  /\ request'[r].result \in results

(* A client that is told that its port was created, or was there already,  *)
(* has the channel: an error response results if the channel is assigned   *)
(* to another port (README:182).  It holds as long as no other system      *)
(* takes channels between the check and assignChannel.                     *)
ChannelGranted ==
  [][\A r \in Requests :
       Answers(r, "create", {"ok", "known"})
         => request[r].channel \in port'[request[r].port].channels]_vars

(* ... and the port is configured for playout (doc/playout_walkthrough.md, *)
(* "a logical playout port attached to that channel and configured for     *)
(* playout").                                                              *)
CreatedPortPlays ==
  [][\A r \in Requests :
       Answers(r, "create", {"ok", "known"})
         => port'[request[r].port].mode = "playing" /\ port'[request[r].port].armed]_vars

(* A port that was only half made is put right by a reset: when reset      *)
(* answers OK the port plays and its triggers are set, whatever failed     *)
(* before and whatever load or wipe does at the same time, unless a queued *)
(* function that was given up meddles (releasePortExecute, port.cc:490).   *)
ResetPortPlays ==
  [][\A r \in Requests :
       faults.overruns = 0 /\ Answers(r, "reset", {"ok"})
         => port'[request[r].port].mode = "playing" /\ port'[request[r].port].armed]_vars

(* Every queued request is served, if the requests of higher priority      *)
(* cease.                                                                  *)
Reset(r) == request[r].pc = "idle" /\ request'[r].op = "reset"
QueueServes ==
  <>[][~\E r \in Requests : Reset(r)]_vars
    => \A r \in Requests : request[r].pc = "waiting" ~> request[r].pc # "waiting"

(* The queued operations are atomic: each takes effect at the step that    *)
(* answers it.  A port that is being made is not there yet, and one that   *)
(* is being released or reset is there until the end.                      *)
UnderWay(op) == {p \in Ports : \E r \in Requests :
                   request[r].pc = "native" /\ request[r].op = op /\ request[r].port = p
                     /\ request[r].todo \notin {StatusScript, Tail(StatusScript)}}
Owner(p) ==
  IF /\ port[p].channels # {}
     /\ p \notin UnderWay("create")
     /\ \/ port[p].mode = "playing" /\ port[p].armed
        \/ p \in UnderWay("reset") \cup UnderWay("release")
  THEN CHOOSE c \in Channels : c \in port[p].channels
  ELSE None
Call(r) == [op |-> request[r].op, port |-> request[r].port, channel |-> request[r].channel,
            result |-> IF request[r].pc = "idle" THEN request[r].result ELSE "pending"]

Service == INSTANCE PortService WITH owner <- [p \in Ports |-> Owner(p)],
                                     call <- [r \in Requests |-> Call(r)]
ImplementsService == Service!Spec
=============================================================================
