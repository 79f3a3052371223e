------------------------------ MODULE Gateway ------------------------------
(***************************************************************************)
(* The whole path of a request: IsaReference composed with the CORBA side  *)
(* of the gateway (src/cxx/qgw_util.cc: the shared ORB, the cached zone    *)
(* portal and the connectionFailed flag, used by the threads that execute  *)
(* native calls), with ISAs that stop and start again under a new object   *)
(* reference, with the watchdog of src/server.ts and with a supervisor     *)
(* that restarts the process.                                              *)
(*                                                                         *)
(* An object reference is a pair of an ISA and its incarnation.  Failures  *)
(* that have no cause in the state of an ISA (a lost packet, a slow        *)
(* answer) are taken from a budget of glitches.                            *)
(***************************************************************************)
EXTENDS IsaReference

CONSTANTS
  Clients,         (* the slots of client requests; the other slots are    *)
                   (* the watchdog's                                       *)
  ClientOps,       (* what clients ask for: "connect", "query"             *)
  StartList,       (* the list of ISAs given on the command line           *)
  MaxIncarnation,  (* bound: how often an ISA starts                       *)
  MaxGlitches      (* bound: failures without a cause                      *)

ASSUME GatewayAssumption ==
  /\ Clients \subseteq Requests
  /\ ClientOps \subseteq {"connect", "query"}
  /\ StartList \in Lists
  /\ MaxIncarnation \in Nat \ {0}
  /\ Iors = Isas \X (1 .. MaxIncarnation)
  /\ MaxGlitches \in Nat

VARIABLES
  localOrb,          (* is there an ORB                                    *)
  localZp,           (* the reference the zone portal was made from        *)
  zpClosed,          (* ... by an ORB that has been destroyed since        *)
  connectionFailed,
  task,              (* the native call of each request, on its thread     *)
  isa,               (* the ISAs                                           *)
  glitches,
  watchdog,
  alive              (* is the process running                             *)

portal == << localOrb, localZp, zpClosed, connectionFailed >>
corba == << portal, task >>
world == << isa, glitches >>
gvars == << vars, corba, world, watchdog, alive >>
-----------------------------------------------------------------------------
NoTask == [pc |-> "none", zp |-> None]
Outcomes == {"ok", "error", "transient", "timeout", "missing"}
TaskType ==
  [pc : {"none", "queued", "checked", "resolving", "made", "orphaned",
         "calling", "retrying", "cut", "closed"} \cup Outcomes,
   zp : Iors \cup {None}]

Serves(v) == isa[v[1]].up /\ isa[v[1]].incarnation = v[2]

(* The failure has a cause (p), or it is a glitch. *)
FailsWhen(p) ==
  \/ p /\ UNCHANGED glitches
  \/ ~p /\ glitches < MaxGlitches /\ glitches' = glitches + 1

(* What may make a request last longer than its timer: an ISA that is down, *)
(* or a cached portal that no longer exists, for which calls are repeated. *)
Hindered == (\E i \in Isas : ~isa[i].up) \/ (localZp # None /\ ~Serves(localZp))

WatchdogStart == [pc |-> "starting", slot |-> None, count |-> 0, last |-> "none"]

Checked(next, count, result) ==
  watchdog' = [pc |-> next, slot |-> None, count |-> count, last |-> result]
(* Status below 400: the next check is due in an interval.                 *)
CheckSucceeds == Checked("timer", 0, "ok")
(* Status of 400 or more: the third in a row shuts the process down.       *)
(* Mutant: a failed check is not counted. *)
CheckFailsUncounted == Checked("timer", 0, "failed")
CheckFails ==
  IF watchdog.count < 2 THEN Checked("timer", watchdog.count + 1, "failed")
  ELSE Checked("stopping", 2, "failed")

(* Mutant: only a check that succeeds is seen. *)
RequestEnds(r) == request[r].pc # "idle" /\ request'[r].pc = "idle"
SeesSuccessOnly(r, successful) ==
  IF successful /\ r = watchdog.slot /\ RequestEnds(r) /\ watchdog.pc = "asked"
    THEN CheckSucceeds
    ELSE UNCHANGED watchdog

(* The watchdog and the startup code see the end of the request they made. *)
Sees(r, successful) ==
  IF r # watchdog.slot \/ ~RequestEnds(r) THEN UNCHANGED watchdog
  ELSE IF watchdog.pc = "connecting"
    THEN watchdog' = [watchdog EXCEPT !.pc = "timer", !.slot = None]
  ELSE IF successful THEN CheckSucceeds
  ELSE CheckFails
-----------------------------------------------------------------------------
(* Clients *)

ClientAsks(r) ==
  /\ r \in Clients
  /\ \/ "connect" \in ClientOps /\ \E list \in Lists : Connect(r, list)
     \/ "query" \in ClientOps /\ Call(r, "query")
  /\ UNCHANGED << corba, world, watchdog, alive >>

(* Startup connects to the ISAs of the command line and then starts the    *)
(* watchdog.                                                               *)
Starts(r) ==
  /\ r \notin Clients
  /\ watchdog.pc = "starting"
  /\ Connect(r, StartList)
  /\ watchdog' = [watchdog EXCEPT !.pc = "connecting", !.slot = r]
  /\ UNCHANGED << corba, world, alive >>

(* GET / of the gateway itself, which lists the zones.  The request of an  *)
(* earlier check that was answered with 524 may still be going on: the     *)
(* interval is halved after a failure and never restored.                  *)
WatchdogAsks(r) ==
  /\ r \notin Clients
  /\ watchdog.pc = "timer"
  /\ Call(r, "query")
  /\ watchdog' = [watchdog EXCEPT !.pc = "asked", !.slot = r]
  /\ UNCHANGED << corba, world, alive >>

(* The request takes longer than TIMEOUT_TIME: the middleware answers 524  *)
(* and the request goes on behind it.                                      *)
WatchdogGets524 ==
  /\ Quiet
  /\ watchdog.pc = "asked"
  /\ FailsWhen(Hindered)
  /\ CheckFails
  /\ UNCHANGED << vars, corba, isa, alive >>

(* Bound: when the requests of earlier checks hold all slots, a further    *)
(* check is one that fails as they did.                                    *)
CheckBeyondSlots ==
  /\ Quiet
  /\ watchdog.pc = "timer"
  /\ \A r \in Requests \ Clients : request[r].pc # "idle"
  /\ Hindered
  /\ CheckFails
  /\ UNCHANGED << vars, corba, world, alive >>

Exits ==
  /\ watchdog.pc = "stopping"
  /\ alive' = FALSE
  /\ UNCHANGED << vars, corba, world, watchdog >>
-----------------------------------------------------------------------------
(* The HTTP lookup of an ISA's reference *)

LookupOk(r) ==
  /\ LET i == promise[r].isa IN
       /\ promise[r].state = "fetching"
       /\ isa[i].up
       /\ HttpOk(r, << i, isa[i].incarnation >>)
  /\ UNCHANGED << corba, world, watchdog, alive >>

LookupFailsOver(r) ==
  /\ HttpFailover(r)
  /\ FailsWhen(~isa[promise[r].isa].up)
  /\ UNCHANGED << corba, isa, watchdog, alive >>

(* destroyOrb(), on the JavaScript thread, whatever the other threads do:  *)
(* without a lock, some may have found the portal a moment before.         *)
DestroyOrb ==
  /\ localOrb' = FALSE
  /\ localZp' = None
  /\ zpClosed' = FALSE
  /\ connectionFailed' = FALSE
  /\ \E caught \in SUBSET { r \in Requests : task[r].pc = "checked" /\ localZp # None } :
       task' = [r \in Requests |->
                 IF task[r].pc \in {"calling", "retrying"} \/ r \in caught
                   THEN [task[r] EXCEPT !.pc = "cut"]
                 ELSE IF task[r].pc = "made"
                   THEN [task[r] EXCEPT !.pc = "orphaned"]
                 ELSE task[r]]

LookupExhausted(r) ==
  /\ HttpExhausted(r)
  /\ FailsWhen(~isa[promise[r].isa].up)
  /\ DestroyOrb
  /\ UNCHANGED << isa, watchdog, alive >>
-----------------------------------------------------------------------------
(* The promise jobs; a known address queues the native call. *)

(* Mutant: the thread is not started. *)
RunJobUnqueued(r) ==
  /\ Job(r)
  /\ UNCHANGED task
  /\ Sees(r, ReferenceReturns(r))
  /\ UNCHANGED << portal, world, alive >>

RunJob(r) ==
  /\ Job(r)
  /\ task' = IF AddressKnown(r) THEN [task EXCEPT ![r].pc = "queued"] ELSE task
  /\ Sees(r, ReferenceReturns(r))
  /\ UNCHANGED << portal, world, alive >>
-----------------------------------------------------------------------------
(* Native calls, each on a thread of its own: resolveZonePortalShared ...  *)

(* connectionFailed makes it throw a pointer to an exception, which no     *)
(* handler catches: the process is terminated.                             *)
FindsConnectionFailed(r) ==
  /\ task[r].pc = "queued"
  /\ connectionFailed
  /\ alive' = FALSE
  /\ UNCHANGED << vars, corba, world, watchdog >>

GetsOrb(r) ==
  /\ task[r].pc = "queued"
  /\ ~connectionFailed
  /\ localOrb' = TRUE
  /\ task' = [task EXCEPT ![r].pc = "checked"]
  /\ UNCHANGED << vars, localZp, zpClosed, connectionFailed, world, watchdog, alive >>

(* The portal of the last call is used again, whatever reference this      *)
(* call was given and whichever ORB it came from.                          *)
FindsZonePortal(r) ==
  /\ task[r].pc = "checked"
  /\ localZp # None
  /\ task' = [task EXCEPT ![r] = [pc |-> IF zpClosed THEN "closed" ELSE "calling",
                                 zp |-> localZp]]
  /\ UNCHANGED << vars, portal, world, watchdog, alive >>

(* No lock: several threads may find no portal and each make one.          *)
FindsNoZonePortal(r) ==
  /\ task[r].pc = "checked"
  /\ localZp = None
  /\ task' = [task EXCEPT ![r].pc = "resolving"]
  /\ UNCHANGED << vars, portal, world, watchdog, alive >>

(* string_to_object by the ORB that is open *)
MakesZonePortal(r) ==
  /\ task[r].pc = "resolving"
  /\ localOrb
  /\ task' = [task EXCEPT ![r].pc = "made"]
  /\ UNCHANGED << vars, portal, world, watchdog, alive >>

(* ... and local_zp is assigned, by then perhaps for a destroyed ORB.      *)
KeepsZonePortal(r) ==
  /\ task[r].pc \in {"made", "orphaned"}
  /\ localZp' = request[r].ior
  /\ zpClosed' = (task[r].pc = "orphaned")
  /\ task' = [task EXCEPT ![r] = [pc |-> IF zpClosed' THEN "closed" ELSE "calling",
                                 zp |-> request[r].ior]]
  /\ UNCHANGED << vars, localOrb, connectionFailed, world, watchdog, alive >>

(* The ORB was destroyed since: a null pointer is used, or an object of a  *)
(* destroyed ORB.  The build may crash, or the ORB may raise an exception. *)
UsesDestroyedOrb(r) ==
  /\ \/ task[r].pc = "resolving" /\ ~localOrb
     \/ task[r].pc = "cut"
  /\ \/ alive' = FALSE /\ UNCHANGED task
     \/ task' = [task EXCEPT ![r].pc = "error"] /\ UNCHANGED alive
  /\ UNCHANGED << vars, portal, world, watchdog >>

(* omniORB disables the object references of an ORB it shuts down: a call  *)
(* on one raises BAD_INV_ORDER, which is no failover to index.ts.          *)
RaisesOrbShutdown(r) ==
  /\ task[r].pc = "closed"
  /\ task' = [task EXCEPT ![r].pc = "error"]
  /\ UNCHANGED << vars, portal, world, watchdog, alive >>

(* ... and the remote call.                                                *)
Completes(r, outcome) ==
  /\ task' = [task EXCEPT ![r].pc = outcome]
  /\ UNCHANGED << vars, portal, isa, watchdog, alive >>

IsaAnswers(r) ==
  /\ task[r].pc \in {"calling", "retrying"}
  /\ isa[task[r].zp[1]].up
  /\ Completes(r, IF Serves(task[r].zp) THEN "ok" ELSE "missing")
  /\ UNCHANGED glitches

TimesOut(r) ==
  /\ task[r].pc \in {"calling", "retrying"}
  /\ FailsWhen(~isa[task[r].zp[1]].up)
  /\ Completes(r, "timeout")

(* transientHandler or commFailureHandler notes the failure and has the    *)
(* call repeated; the call may yet succeed.                                *)
NotesFailure(r) ==
  /\ task[r].pc = "calling"
  /\ FailsWhen(~isa[task[r].zp[1]].up)
  /\ connectionFailed' = TRUE
  /\ task' = [task EXCEPT ![r].pc = "retrying"]
  /\ UNCHANGED << vars, localOrb, localZp, zpClosed, isa, watchdog, alive >>

(* TRANSIENT, or COMM_FAILURE, which index.ts does not tell from other     *)
(* errors.                                                                 *)
RetriesEnd(r) ==
  /\ task[r].pc = "retrying"
  /\ Completes(r, "transient") \/ Completes(r, "error")
  /\ UNCHANGED glitches

(* A call that was under way when the ORB was destroyed may yet succeed.   *)
CutOffSucceeds(r) ==
  /\ task[r].pc = "cut"
  /\ Completes(r, "ok")
  /\ UNCHANGED glitches

(* The answer comes back to JavaScript. *)
Returns(r) ==
  /\ task[r].pc \in Outcomes
  /\ \/ task[r].pc = "ok" /\ NativeReturns(r) /\ Sees(r, TRUE)
     \/ task[r].pc = "error" /\ NativeThrows(r) /\ Sees(r, FALSE)
     \/ task[r].pc \in {"transient", "timeout"} /\ NativeTransient(r) /\ Sees(r, FALSE)
     \/ task[r].pc = "missing" /\ NativeNotExist(r) /\ UNCHANGED watchdog
  /\ task' = [task EXCEPT ![r] = NoTask]
  /\ UNCHANGED << portal, world, alive >>
-----------------------------------------------------------------------------
(* The ISAs, and the supervisor of the process *)

IsaStops(i) ==
  /\ isa[i].up
  /\ isa[i].incarnation < MaxIncarnation
  /\ isa' = [isa EXCEPT ![i].up = FALSE]
  /\ UNCHANGED << vars, corba, glitches, watchdog, alive >>

IsaStarts(i) ==
  /\ ~isa[i].up
  /\ isa' = [isa EXCEPT ![i] = [up |-> TRUE, incarnation |-> @.incarnation + 1]]
  /\ UNCHANGED << vars, corba, glitches, watchdog, alive >>

Restarts ==
  /\ ~alive
  /\ alive' = TRUE
  /\ isaIOR' = None /\ stickyRef' = DefaultList /\ robin' = 0
  /\ connectAttempt' = FALSE /\ objectNotFoundCount' = 0
  /\ promise' = [r \in Requests |-> NoPromise]
  /\ request' = [r \in Requests |-> Idle]
  /\ localOrb' = FALSE /\ localZp' = None /\ zpClosed' = FALSE
  /\ connectionFailed' = FALSE
  /\ task' = [r \in Requests |-> NoTask]
  /\ watchdog' = [WatchdogStart EXCEPT !.last = watchdog.last]
  /\ UNCHANGED world
-----------------------------------------------------------------------------
GatewayInit ==
  /\ Init
  /\ localOrb = FALSE
  /\ localZp = None
  /\ zpClosed = FALSE
  /\ connectionFailed = FALSE
  /\ task = [r \in Requests |-> NoTask]
  /\ isa = [i \in Isas |-> [up |-> TRUE, incarnation |-> 1]]
  /\ glitches = 0
  /\ watchdog = WatchdogStart
  /\ alive = TRUE

Lookup(r) == LookupOk(r) \/ LookupFailsOver(r) \/ LookupExhausted(r)
Worker(r) ==
  \/ FindsConnectionFailed(r) \/ GetsOrb(r)
  \/ FindsZonePortal(r) \/ FindsNoZonePortal(r) \/ MakesZonePortal(r)
  \/ KeepsZonePortal(r) \/ UsesDestroyedOrb(r) \/ RaisesOrbShutdown(r)
  \/ IsaAnswers(r) \/ TimesOut(r) \/ NotesFailure(r) \/ RetriesEnd(r) \/ CutOffSucceeds(r)
Check == (\E r \in Requests : Starts(r) \/ WatchdogAsks(r)) \/ WatchdogGets524 \/ CheckBeyondSlots \/ Exits

Running ==
  \/ Check
  \/ \E r \in Requests :
       ClientAsks(r) \/ Lookup(r) \/ RunJob(r) \/ Worker(r) \/ Returns(r)

GatewayNext ==
  \/ alive /\ Running
  \/ Restarts
  \/ \E i \in Isas : IsaStops(i) \/ IsaStarts(i)

GatewaySpec == GatewayInit /\ [][GatewayNext]_gvars

(* Threads, jobs, timers and the supervisor run; answers that keep coming  *)
(* up are served between the jobs; an ISA that stopped is started again.   *)
GatewayFairness ==
  /\ WF_gvars(Restarts)
  /\ SF_gvars(alive /\ Check)
  /\ WF_gvars(alive /\ \E r \in Requests : RunJob(r))
  /\ \A r \in Requests :
       /\ WF_gvars(alive /\ Worker(r))
       /\ SF_gvars(alive /\ (Lookup(r) \/ Returns(r)))
  /\ \A i \in Isas : WF_gvars(IsaStarts(i))

LiveGatewaySpec == GatewaySpec /\ GatewayFairness
-----------------------------------------------------------------------------
GatewayTypeOK ==
  /\ TypeOK
  /\ localOrb \in BOOLEAN
  /\ localZp \in Iors \cup {None}
  /\ zpClosed \in BOOLEAN
  /\ connectionFailed \in BOOLEAN
  /\ task \in [Requests -> TaskType]
  /\ isa \in [Isas -> [up : BOOLEAN, incarnation : 1 .. MaxIncarnation]]
  /\ glitches \in 0 .. MaxGlitches
  /\ watchdog \in [pc : {"starting", "connecting", "timer", "asked", "stopping"},
                   slot : Requests \cup {None}, count : 0 .. 2,
                   last : {"none", "ok", "failed"}]
  /\ alive \in BOOLEAN

(* JavaScript waits for a native call exactly when a thread makes it: no   *)
(* answer is lost and none comes twice, through retries, failovers and     *)
(* destroyOrb (napi_create_async_work in every native function).           *)
NativeHasThread ==
  \A r \in Requests : request[r].pc = "native" <=> task[r].pc # "none"

(* The watchdog waits for a request that is still running: it cannot be    *)
(* left waiting for one that has ended, and then never bark.               *)
WatchdogHasRequest ==
  watchdog.pc \in {"connecting", "asked"} => request[watchdog.slot].pc # "idle"

(* Once ISAs no longer stop and no glitch comes, the watchdog's checks     *)
(* succeed for ever: from whatever the failures and connects left, such as *)
(* a portal of a destroyed ORB that every call finds again, the gateway    *)
(* gets out, if need be by a restart (qgw_util.cc:159-164, server.ts:959-997). *)
Recovers == <>[](alive /\ watchdog.last = "ok")

(* A lost connection is answered with status 502 (README "Errors"): it     *)
(* does not terminate the process.                                         *)
SurvivesConnectionFailure ==
  [][\A r \in Requests : ~(alive /\ FindsConnectionFailed(r))]_gvars

(* After POST /connect, calls go to the ISA that was connected to (README, *)
(* "To connect to an ISA system on a different host"): a native call that  *)
(* starts uses the reference it was given.                                 *)
CallsGoToReference ==
  [][\A r \in Requests :
       FindsZonePortal(r) => localZp[1] = request[r].ior[1]]_gvars
=============================================================================
