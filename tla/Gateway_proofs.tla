--------------------------- MODULE Gateway_proofs ---------------------------
(***************************************************************************)
(* Proofs about Gateway: its steps are steps of IsaReference or starts of  *)
(* a process, so that what IsaReference_proofs proves holds in the whole   *)
(* gateway; and the JavaScript side waits for a native call exactly when a *)
(* thread makes it.                                                        *)
(***************************************************************************)
EXTENDS Gateway, IsaReference_proofs

(* An ISA that is down may start once more. *)
StartsLeft == \A i \in Isas : ~isa[i].up => isa[i].incarnation < MaxIncarnation

(* The inductive invariant: that of IsaReference, with the types of the    *)
(* other variables and the correspondence of calls and threads.            *)
GInv == IInv /\ GatewayTypeOK /\ StartsLeft /\ NativeHasThread
-----------------------------------------------------------------------------
(* Steps of the whole gateway, seen from src/index.ts *)

LEMMA ThreadStep ==
  ASSUME NEW r \in Requests, Worker(r)
  PROVE  UNCHANGED vars
BY DEF Worker, FindsConnectionFailed, GetsOrb, FindsZonePortal, FindsNoZonePortal,
       MakesZonePortal, KeepsZonePortal, UsesDestroyedOrb, IsaAnswers, TimesOut,
       NotesFailure, RetriesEnd, RaisesOrbShutdown, CutOffSucceeds, Completes

LEMMA IsaStep ==
  ASSUME NEW i \in Isas, IsaStops(i) \/ IsaStarts(i)
  PROVE  UNCHANGED vars
BY DEF IsaStops, IsaStarts

LEMMA RestartIsInit == Restarts => Init'
BY DEF Restarts, Init

(* The reference that an ISA advertises is one of Iors. *)
LEMMA AdvertisedIor ==
  ASSUME TypeOK, isa \in [Isas -> [up : BOOLEAN, incarnation : 1 .. MaxIncarnation]],
         NEW r \in Requests, promise[r].state = "fetching"
  PROVE  << promise[r].isa, isa[promise[r].isa].incarnation >> \in Iors
<1>1. promise[r] \in PromiseType
  BY DEF TypeOK
<1>2. promise[r].isa \in Isas
  BY <1>1 DEF PromiseType, NoPromise, Rejected
<1>. QED
  BY <1>2, GatewayAssumption

LEMMA LookupStep ==
  ASSUME TypeOK, isa \in [Isas -> [up : BOOLEAN, incarnation : 1 .. MaxIncarnation]],
         NEW r \in Requests, Lookup(r)
  PROVE  Http(r)
BY AdvertisedIor DEF Lookup, LookupOk, LookupFailsOver, LookupExhausted, Http

LEMMA CheckStep ==
  ASSUME Check
  PROVE  (\E r \in Requests : Client(r)) \/ UNCHANGED vars
<1>1. StartList \in Lists /\ "query" \in Ops
  BY GatewayAssumption DEF Ops
<1>. QED
  BY <1>1 DEF Check, Starts, WatchdogAsks, WatchdogGets524, CheckBeyondSlots, Exits, Client

LEMMA ClientStep ==
  ASSUME NEW r \in Requests, ClientAsks(r)
  PROVE  Client(r)
<1>1. "query" \in Ops
  BY DEF Ops
<1>. QED
  BY <1>1 DEF ClientAsks, Client

LEMMA ReturnStep ==
  ASSUME NEW r \in Requests, Returns(r)
  PROVE  Native(r)
BY DEF Returns, Native

LEMMA StepIsReferenceStep ==
  ASSUME TypeOK, isa \in [Isas -> [up : BOOLEAN, incarnation : 1 .. MaxIncarnation]],
         [GatewayNext]_gvars
  PROVE  [Next \/ Init']_vars
<1>1. CASE UNCHANGED gvars
  BY <1>1 DEF gvars
<1>2. CASE Restarts
  BY <1>2, RestartIsInit
<1>3. ASSUME NEW i \in Isas, IsaStops(i) \/ IsaStarts(i)
      PROVE  UNCHANGED vars
  BY <1>3, IsaStep
<1>4. CASE Running
  <2>1. CASE Check
    BY <2>1, CheckStep DEF Next
  <2>2. ASSUME NEW r \in Requests,
               ClientAsks(r) \/ Lookup(r) \/ RunJob(r) \/ Worker(r) \/ Returns(r)
        PROVE  Next \/ UNCHANGED vars
    <3>1. Client(r) \/ Http(r) \/ Job(r) \/ Native(r) \/ UNCHANGED vars
      BY <2>2, ClientStep, LookupStep, ThreadStep, ReturnStep DEF RunJob
    <3>. QED
      BY <3>1 DEF Next
  <2>. QED
    BY <1>4, <2>1, <2>2 DEF Running
<1>. QED
  BY <1>1, <1>2, <1>3, <1>4 DEF GatewayNext
-----------------------------------------------------------------------------
(* Types *)

WatchdogType ==
  [pc : {"starting", "connecting", "timer", "asked", "stopping"},
   slot : Requests \cup {None}, count : 0 .. 2, last : {"none", "ok", "failed"}]

LEMMA ChecksType ==
  ASSUME watchdog \in WatchdogType, CheckSucceeds \/ CheckFails
  PROVE  watchdog' \in WatchdogType
BY DEF CheckSucceeds, CheckFails, Checked, WatchdogType

LEMMA SeesType ==
  ASSUME watchdog \in WatchdogType, NEW r, NEW successful, Sees(r, successful)
  PROVE  watchdog' \in WatchdogType
<1>1. CASE watchdog' = [watchdog EXCEPT !.pc = "timer", !.slot = None]
  BY <1>1 DEF WatchdogType
<1>. QED
  BY <1>1, ChecksType DEF Sees

LEMMA WatchdogStep ==
  ASSUME watchdog \in WatchdogType, GatewayNext
  PROVE  watchdog' \in WatchdogType
<1>1. ASSUME NEW r \in Requests, Starts(r)  PROVE watchdog' \in WatchdogType
  BY <1>1 DEF Starts, WatchdogType
<1>2. ASSUME NEW r \in Requests, WatchdogAsks(r)  PROVE watchdog' \in WatchdogType
  BY <1>2 DEF WatchdogAsks, WatchdogType
<1>3. CASE WatchdogGets524 \/ CheckBeyondSlots
  BY <1>3, ChecksType DEF WatchdogGets524, CheckBeyondSlots
<1>4. ASSUME NEW r \in Requests, RunJob(r)  PROVE watchdog' \in WatchdogType
  BY <1>4, SeesType DEF RunJob
<1>5. ASSUME NEW r \in Requests, Returns(r)  PROVE watchdog' \in WatchdogType
  BY <1>5, SeesType DEF Returns
<1>6. CASE Restarts
  BY <1>6 DEF Restarts, WatchdogStart, WatchdogType
<1>7. ASSUME NEW r \in Requests, ClientAsks(r) \/ Lookup(r) \/ Worker(r)
      PROVE  watchdog' \in WatchdogType
  BY <1>7
  DEF ClientAsks, Lookup, LookupOk, LookupFailsOver, LookupExhausted,
      Worker, FindsConnectionFailed, GetsOrb, FindsZonePortal, FindsNoZonePortal,
      MakesZonePortal, KeepsZonePortal, UsesDestroyedOrb, IsaAnswers, TimesOut,
      NotesFailure, RetriesEnd, RaisesOrbShutdown, CutOffSucceeds, Completes
<1>8. ASSUME NEW i \in Isas, IsaStops(i) \/ IsaStarts(i)
      PROVE  watchdog' \in WatchdogType
  BY <1>8 DEF IsaStops, IsaStarts
<1>9. CASE Exits
  BY <1>9 DEF Exits
<1>. QED
  BY <1>1, <1>2, <1>3, <1>4, <1>5, <1>6, <1>7, <1>8, <1>9
  DEF GatewayNext, Running, Check

IsaType == [Isas -> [up : BOOLEAN, incarnation : 1 .. MaxIncarnation]]

LEMMA FailsWhenType ==
  ASSUME glitches \in 0 .. MaxGlitches, NEW p, FailsWhen(p)
  PROVE  glitches' \in 0 .. MaxGlitches
BY GatewayAssumption DEF FailsWhen

LEMMA WorldStep ==
  ASSUME isa \in IsaType, StartsLeft, glitches \in 0 .. MaxGlitches, GatewayNext
  PROVE  isa' \in IsaType /\ StartsLeft' /\ glitches' \in 0 .. MaxGlitches
<1>1. ASSUME NEW i \in Isas, IsaStops(i)
      PROVE  isa' \in IsaType /\ StartsLeft' /\ glitches' = glitches
  BY <1>1 DEF IsaStops, IsaType, StartsLeft
<1>2. ASSUME NEW i \in Isas, IsaStarts(i)
      PROVE  isa' \in IsaType /\ StartsLeft' /\ glitches' = glitches
  <2>1. isa[i].incarnation + 1 \in 1 .. MaxIncarnation
    BY <1>2, GatewayAssumption DEF IsaStarts, IsaType, StartsLeft
  <2>2. isa' = [isa EXCEPT ![i] = [up |-> TRUE, incarnation |-> isa[i].incarnation + 1]]
    BY <1>2 DEF IsaStarts
  <2>. QED
    BY <1>2, <2>1, <2>2 DEF IsaStarts, IsaType, StartsLeft
<1>3. CASE Restarts
  BY <1>3 DEF Restarts, world, StartsLeft
<1>4. CASE Running
  <2>1. isa' = isa /\ (glitches' = glitches \/ \E p \in BOOLEAN : FailsWhen(p))
    BY <1>4
    DEF Running, Check, Starts, WatchdogAsks, WatchdogGets524, CheckBeyondSlots, Exits, ClientAsks,
        Lookup, LookupOk, LookupFailsOver, LookupExhausted, RunJob, Returns, world,
        Worker, FindsConnectionFailed, GetsOrb, FindsZonePortal, FindsNoZonePortal,
        MakesZonePortal, KeepsZonePortal, UsesDestroyedOrb, IsaAnswers, TimesOut,
        NotesFailure, RetriesEnd, RaisesOrbShutdown, CutOffSucceeds, Completes, FailsWhen
  <2>. QED
    BY <2>1, FailsWhenType DEF StartsLeft
<1>. QED
  BY <1>1, <1>2, <1>3, <1>4 DEF GatewayNext

PortalType ==
  /\ localOrb \in BOOLEAN
  /\ localZp \in Iors \cup {None}
  /\ zpClosed \in BOOLEAN
  /\ connectionFailed \in BOOLEAN
  /\ alive \in BOOLEAN
  /\ task \in [Requests -> TaskType]

LEMMA IorType ==
  ASSUME TypeOK, NEW r \in Requests
  PROVE  request[r].ior \in Iors \cup {None}
<1>1. request[r] \in RequestType
  BY DEF TypeOK
<1>. QED
  BY <1>1 DEF RequestType, Idle

(* A thread goes on to a place that is not none, and makes one change.     *)
LEMMA ThreadMoves ==
  ASSUME task \in [Requests -> TaskType], NEW r \in Requests,
         NEW p \in Outcomes \cup {"checked", "resolving", "made", "retrying"},
         task' = [task EXCEPT ![r].pc = p]
  PROVE  /\ task' \in [Requests -> TaskType]
         /\ \E t \in TaskType : t.pc # "none" /\ task' = [task EXCEPT ![r] = t]
<1>. DEFINE t == [pc |-> p, zp |-> task[r].zp]
<1>1. t \in TaskType /\ t.pc # "none"
  BY DEF TaskType, Outcomes
<1>2. PICK c, z : task[r] = [pc |-> c, zp |-> z]
  BY DEF TaskType
<1>3. [task[r] EXCEPT !.pc = p] = t
  BY <1>2
<1>4. task' = [task EXCEPT ![r] = t]
  BY <1>3
<1>. QED
  BY <1>1, <1>4

LEMMA WorkerStep ==
  ASSUME TypeOK, PortalType, NEW r \in Requests, Worker(r)
  PROVE  /\ PortalType'
         /\ task[r].pc # "none"
         /\ \/ task' = task
            \/ \E t \in TaskType : t.pc # "none" /\ task' = [task EXCEPT ![r] = t]
<1>1. CASE FindsConnectionFailed(r)
  BY <1>1 DEF FindsConnectionFailed, PortalType, corba, portal
<1>2. CASE GetsOrb(r)
  BY <1>2, ThreadMoves DEF GetsOrb, PortalType
<1>3. CASE FindsZonePortal(r)
  BY <1>3 DEF FindsZonePortal, PortalType, TaskType, portal
<1>4. CASE FindsNoZonePortal(r)
  BY <1>4, ThreadMoves DEF FindsNoZonePortal, PortalType, portal
<1>5. CASE MakesZonePortal(r)
  BY <1>5, ThreadMoves DEF MakesZonePortal, PortalType, portal
<1>6. CASE KeepsZonePortal(r)
  BY <1>6, IorType DEF KeepsZonePortal, PortalType, TaskType
<1>7. CASE UsesDestroyedOrb(r)
  BY <1>7, ThreadMoves DEF UsesDestroyedOrb, PortalType, Outcomes, portal
<1>11. CASE RaisesOrbShutdown(r)
  BY <1>11, ThreadMoves DEF RaisesOrbShutdown, PortalType, Outcomes, portal
<1>8. ASSUME NEW outcome \in Outcomes, Completes(r, outcome), task[r].pc # "none"
      PROVE  /\ PortalType'
             /\ \E t \in TaskType : t.pc # "none" /\ task' = [task EXCEPT ![r] = t]
  BY <1>8, ThreadMoves DEF Completes, PortalType, portal
<1>9. CASE IsaAnswers(r) \/ TimesOut(r) \/ RetriesEnd(r) \/ CutOffSucceeds(r)
  <2>1. task[r].pc # "none" /\ \E outcome \in Outcomes : Completes(r, outcome)
    BY <1>9 DEF IsaAnswers, TimesOut, RetriesEnd, CutOffSucceeds, Outcomes
  <2>. QED
    BY <2>1, <1>8
<1>10. CASE NotesFailure(r)
  BY <1>10, ThreadMoves DEF NotesFailure, PortalType
<1>. QED
  BY <1>1, <1>2, <1>3, <1>4, <1>5, <1>6, <1>7, <1>9, <1>10, <1>11 DEF Worker

LEMMA DestroyOrbType ==
  ASSUME PortalType, DestroyOrb, UNCHANGED alive
  PROVE  /\ PortalType'
         /\ \A r \in Requests : task'[r].pc = "none" <=> task[r].pc = "none"
<1>1. PICK caught \in SUBSET { r \in Requests : task[r].pc = "checked" /\ localZp # None } :
        task' = [r \in Requests |->
                  IF task[r].pc \in {"calling", "retrying"} \/ r \in caught
                    THEN [task[r] EXCEPT !.pc = "cut"]
                  ELSE IF task[r].pc = "made"
                    THEN [task[r] EXCEPT !.pc = "orphaned"]
                  ELSE task[r]]
  BY DEF DestroyOrb
<1>2. \A t \in TaskType : /\ [t EXCEPT !.pc = "cut"] \in TaskType
                         /\ [t EXCEPT !.pc = "orphaned"] \in TaskType
                         /\ [t EXCEPT !.pc = "cut"].pc = "cut"
                         /\ [t EXCEPT !.pc = "orphaned"].pc = "orphaned"
  BY DEF TaskType
<1>3. \A r \in Requests : task[r] \in TaskType /\ (r \in caught => task[r].pc = "checked")
  BY <1>1 DEF PortalType
<1>4. ASSUME NEW r \in Requests
      PROVE  task'[r] \in TaskType /\ (task'[r].pc = "none" <=> task[r].pc = "none")
  <2>1. CASE task[r].pc \in {"calling", "retrying"} \/ r \in caught
    BY <1>1, <1>2, <1>3, <2>1
  <2>2. CASE ~(task[r].pc \in {"calling", "retrying"} \/ r \in caught)
    BY <1>1, <1>2, <1>3, <2>2
  <2>. QED
    BY <2>1, <2>2
<1>5. task' \in [Requests -> TaskType]
  BY <1>1, <1>4
<1>. QED
  BY <1>4, <1>5 DEF DestroyOrb, PortalType
-----------------------------------------------------------------------------
(* Calls and threads *)

LEMMA LookupKeepsThreads ==
  ASSUME PortalType, NativeHasThread, NEW r \in Requests, Lookup(r)
  PROVE  PortalType' /\ NativeHasThread'
<1>1. request' = request
  BY DEF Lookup, LookupOk, LookupFailsOver, LookupExhausted,
         HttpOk, HttpFailover, HttpExhausted, NestedLookup
<1>2. CASE UNCHANGED << corba, alive >>
  BY <1>1, <1>2 DEF corba, portal, PortalType, NativeHasThread
<1>3. CASE DestroyOrb /\ UNCHANGED alive
  BY <1>1, <1>3, DestroyOrbType DEF NativeHasThread
<1>. QED
  BY <1>2, <1>3 DEF Lookup, LookupOk, LookupFailsOver, LookupExhausted, corba

(* getISAReference, called or called again, makes no native call yet.      *)
LEMMA ObtainsFirst ==
  ASSUME TypeOK, NEW r \in Requests, NEW o, NEW list, NEW ior, NEW k, NEW misses,
         GetISAReference(r, o, list, ior, k, misses)
  PROVE  \E v : v.pc # "native" /\ request' = [request EXCEPT ![r] = v]
BY DEF GetISAReference, GiveUp, Obtain, Refused, AwaitReference

LEMMA ClientKeepsThreads ==
  ASSUME TypeOK, PortalType, NativeHasThread, NEW r \in Requests, Client(r), UNCHANGED << corba, alive >>
  PROVE  PortalType' /\ NativeHasThread'
<1>1. request[r].pc = "idle"
  BY DEF Client, Connect, Call
<1>2. PICK v : v.pc # "native" /\ request' = [request EXCEPT ![r] = v]
  BY ObtainsFirst DEF Client, Connect, Call
<1>. QED
  BY <1>1, <1>2 DEF corba, portal, PortalType, NativeHasThread, TypeOK

LEMMA JobKeepsThreads ==
  ASSUME TypeOK, PortalType, NativeHasThread, NEW r \in Requests, RunJob(r)
  PROVE  PortalType' /\ NativeHasThread'
<1>1. UNCHANGED << portal, alive >>
  BY DEF RunJob
<1>2. CASE AddressKnown(r)
  <2>1. task[r].pc = "none" /\ task' = [task EXCEPT ![r].pc = "queued"]
    BY <1>2 DEF AddressKnown, RunJob, NativeHasThread
  <2>2. task'[r].pc = "queued" /\ task' \in [Requests -> TaskType]
    BY <2>1 DEF PortalType, TaskType
  <2>3. request'[r].pc = "native" /\ \A q \in Requests : q # r => request'[q] = request[q]
    BY <1>2 DEF AddressKnown, InNative, TypeOK
  <2>. QED
    BY <1>1, <2>1, <2>2, <2>3 DEF NativeHasThread, PortalType, portal
<1>3. CASE ~AddressKnown(r)
  <2>1. task' = task
    BY <1>3 DEF RunJob
  <2>2. \/ request' = request
        \/ /\ request[r].pc # "native"
           /\ \E v : v.pc # "native" /\ request' = [request EXCEPT ![r] = v]
    <3>1. CASE RelayResolved(r) \/ RelayRejected(r)
      BY <3>1 DEF RelayResolved, RelayRejected
    <3>2. CASE ReferenceReturns(r) \/ ReferenceThrows(r) \/ AddressThrows(r) \/ AddressNull(r)
      BY <3>2 DEF ReferenceReturns, ReferenceThrows, AddressThrows, AddressNull, Idle,
                  AwaitAddress
    <3>3. CASE GuardThrows(r)
      BY <3>3, ObtainsFirst DEF GuardThrows, ResetAndRetry, Idle
    <3>. QED
      BY <1>3, <3>1, <3>2, <3>3 DEF RunJob, Job
  <2>. QED
    BY <1>1, <2>1, <2>2 DEF NativeHasThread, PortalType, portal, TypeOK
<1>. QED
  BY <1>2, <1>3

LEMMA ReturnKeepsThreads ==
  ASSUME TypeOK, PortalType, NativeHasThread, NEW r \in Requests, Returns(r)
  PROVE  PortalType' /\ NativeHasThread'
<1>1. task' = [task EXCEPT ![r] = NoTask] /\ UNCHANGED << portal, alive >>
  BY DEF Returns
<1>2. \E v : v.pc # "native" /\ request' = [request EXCEPT ![r] = v]
  <2>1. CASE NativeReturns(r) \/ NativeThrows(r)
    BY <2>1 DEF NativeReturns, NativeThrows, Idle, AwaitAddress
  <2>2. CASE NativeTransient(r) \/ NativeNotExist(r)
    BY <2>2, ObtainsFirst DEF NativeTransient, NativeNotExist, ResetAndThrow, ResetAndRetry, Idle
  <2>. QED
    BY <2>1, <2>2 DEF Returns
<1>3. NoTask \in TaskType /\ NoTask.pc = "none"
  BY DEF NoTask, TaskType
<1>. QED
  BY <1>1, <1>2, <1>3 DEF NativeHasThread, PortalType, portal, TypeOK

LEMMA ThreadsStep ==
  ASSUME TypeOK, PortalType, NativeHasThread, GatewayNext
  PROVE  PortalType' /\ NativeHasThread'
<1>1. ASSUME NEW r \in Requests, Worker(r)  PROVE PortalType' /\ NativeHasThread'
  <2>1. request' = request
    BY <1>1, ThreadStep DEF vars
  <2>. QED
    BY <1>1, <2>1, WorkerStep DEF NativeHasThread, PortalType
<1>2. CASE Restarts
  BY <1>2 DEF Restarts, PortalType, NativeHasThread, NoTask, TaskType, Idle
<1>3. CASE Exits \/ WatchdogGets524 \/ CheckBeyondSlots
  BY <1>3 DEF Exits, WatchdogGets524, CheckBeyondSlots, PortalType, NativeHasThread, corba, portal, vars
<1>4. ASSUME NEW i \in Isas, IsaStops(i) \/ IsaStarts(i)
      PROVE  PortalType' /\ NativeHasThread'
  BY <1>4 DEF IsaStops, IsaStarts, PortalType, NativeHasThread, corba, portal, vars
<1>5. ASSUME NEW r \in Requests, Starts(r) \/ WatchdogAsks(r) \/ ClientAsks(r)
      PROVE  PortalType' /\ NativeHasThread'
  <2>1. StartList \in Lists /\ "query" \in Ops
    BY GatewayAssumption DEF Ops
  <2>2. Client(r) /\ UNCHANGED << corba, alive >>
    BY <1>5, <2>1 DEF Starts, WatchdogAsks, ClientAsks, Client
  <2>. QED
    BY <2>2, ClientKeepsThreads
<1>. QED
  BY <1>1, <1>2, <1>3, <1>4, <1>5, LookupKeepsThreads, JobKeepsThreads, ReturnKeepsThreads
  DEF GatewayNext, Running, Check
-----------------------------------------------------------------------------
LEMMA GInvInit == GatewayInit => GInv
<1> SUFFICES ASSUME GatewayInit  PROVE GInv
  OBVIOUS
<1>1. IInv
  BY InvInit DEF GatewayInit
<1>2. TypeOK
  BY <1>1 DEF IInv
<1>3. NativeHasThread /\ StartsLeft
  BY DEF GatewayInit, Init, NativeHasThread, StartsLeft, NoTask, Idle
<1>4. PortalType
  BY DEF GatewayInit, PortalType, NoTask, TaskType
<1>5. isa \in IsaType /\ glitches \in 0 .. MaxGlitches
  BY GatewayAssumption DEF GatewayInit, IsaType
<1>6. watchdog \in WatchdogType
  BY DEF GatewayInit, WatchdogStart, WatchdogType
<1>. QED
  BY <1>1, <1>2, <1>3, <1>4, <1>5, <1>6
  DEF GInv, GatewayTypeOK, PortalType, IsaType, WatchdogType

LEMMA GInvStep == GInv /\ [GatewayNext]_gvars => GInv'
<1> SUFFICES ASSUME GInv, [GatewayNext]_gvars  PROVE GInv'
  OBVIOUS
<1>1. TypeOK /\ PortalType /\ isa \in IsaType /\ watchdog \in WatchdogType
  BY DEF GInv, GatewayTypeOK, PortalType, IsaType, WatchdogType
<1>2. IInv'
  <2>1. [Next \/ Init']_vars
    BY <1>1, StepIsReferenceStep DEF IsaType
  <2>2. (Init => IInv)'
    BY InvInit, PTL
  <2>. QED
    BY <2>1, <2>2, InvStep DEF GInv
<1>3. CASE GatewayNext
  <2>1. PortalType' /\ NativeHasThread'
    BY <1>1, <1>3, ThreadsStep DEF GInv
  <2>2. isa' \in IsaType /\ StartsLeft' /\ glitches' \in 0 .. MaxGlitches
    BY <1>1, <1>3, WorldStep DEF GInv, GatewayTypeOK
  <2>3. watchdog' \in WatchdogType
    BY <1>1, <1>3, WatchdogStep
  <2>. QED
    BY <1>2, <2>1, <2>2, <2>3
    DEF GInv, GatewayTypeOK, PortalType, IsaType, WatchdogType, IInv
<1>4. CASE UNCHANGED gvars
  BY <1>2, <1>4 DEF gvars, vars, corba, portal, world, GInv, GatewayTypeOK, StartsLeft,
                    NativeHasThread, IInv
<1>. QED
  BY <1>3, <1>4

LEMMA GatewayInvariance == GatewaySpec => []GInv
  BY GInvInit, GInvStep, PTL DEF GatewaySpec
-----------------------------------------------------------------------------
(* The variables of the gateway keep their types. *)
THEOREM GatewayTypeCorrect == GatewaySpec => []GatewayTypeOK
<1>1. GInv => GatewayTypeOK
  BY DEF GInv
<1>. QED
  BY <1>1, GatewayInvariance, PTL

(* JavaScript waits for a native call exactly when a thread makes it.      *)
THEOREM NativeCallsHaveThreads == GatewaySpec => []NativeHasThread
<1>1. GInv => NativeHasThread
  BY DEF GInv
<1>. QED
  BY <1>1, GatewayInvariance, PTL

(* Every step of the gateway is one of IsaReference or a new process: so   *)
(* nobody waits in vain for the ISA reference in the whole gateway either, *)
(* nor does a lookup outlive its request, across restarts of the ISAs and  *)
(* of the process.                                                         *)
THEOREM GatewayServesWaiters ==
  GatewaySpec => [](WaitersAreServed /\ NoOrphanLookup)
<1>1. GInv => WaitersAreServed /\ NoOrphanLookup
  BY ServedInQuiet DEF GInv, IInv
<1>. QED
  BY <1>1, GatewayInvariance, PTL

-----------------------------------------------------------------------------
(* The watchdog and the start of the process wait for a request that is    *)
(* being served.                                                           *)
Awaited ==
  watchdog.pc \in {"connecting", "asked"}
    => watchdog.slot \in Requests /\ request[watchdog.slot].pc # "idle"

LEMMA OwnRequest ==
  ASSUME TypeOK, NEW r \in Requests, Client(r) \/ Http(r) \/ Native(r) \/ Job(r)
  PROVE  \A q \in Requests \ {r} : request'[q] = request[q]
<1>1. request \in [Requests -> RequestType] /\ Shape(r)
  BY ActionShape DEF TypeOK
<1>. QED
  BY <1>1 DEF Shape, Ends, GoesOn, Answered, LooksUp

(* A lookup is waited for, or refused by the guard. *)
LEMMA LookupServes ==
  ASSUME TypeOK, NEW r \in Requests, NEW o, NEW list, NEW ior, NEW k, NEW misses,
         GetISAReference(r, o, list, ior, k, misses)
  PROVE  request'[r].pc # "idle"
<1>1. request \in [Requests -> RequestType]
  BY DEF TypeOK
<1>2. Refused(o).pc # "idle" /\ AwaitReference(o).pc # "idle"
  BY DEF Refused, AwaitReference
<1>. QED
  BY <1>1, <1>2 DEF GetISAReference, GiveUp, Obtain

LEMMA SeesKeepsAwaited ==
  ASSUME watchdog \in WatchdogType, Awaited, NEW r \in Requests, NEW successful,
         \A q \in Requests \ {r} : request'[q] = request[q], Sees(r, successful)
  PROVE  Awaited'
<1>1. CASE r # watchdog.slot \/ ~RequestEnds(r)
  <2>1. watchdog' = watchdog
    BY <1>1 DEF Sees
  <2>. QED
    BY <1>1, <2>1 DEF Awaited, RequestEnds
<1>2. CASE ~(r # watchdog.slot \/ ~RequestEnds(r))
  <2>1. \/ watchdog' = [watchdog EXCEPT !.pc = "timer", !.slot = None]
        \/ CheckSucceeds \/ CheckFails
    BY <1>2, Zenon DEF Sees
  <2>2. CASE watchdog' = [watchdog EXCEPT !.pc = "timer", !.slot = None]
    BY <2>2 DEF Awaited, WatchdogType
  <2>3. CASE CheckSucceeds
    BY <2>3 DEF Awaited, CheckSucceeds, Checked
  <2>4. CASE CheckFails
    BY <2>4 DEF Awaited, CheckFails, Checked
  <2>. QED
    BY <2>1, <2>2, <2>3, <2>4
<1>. QED
  BY <1>1, <1>2

LEMMA AwaitedStep == GInv /\ Awaited /\ [GatewayNext]_gvars => Awaited'
<1> SUFFICES ASSUME GInv, Awaited, [GatewayNext]_gvars  PROVE Awaited'
  OBVIOUS
<1>0. /\ TypeOK /\ watchdog \in WatchdogType
      /\ isa \in [Isas -> [up : BOOLEAN, incarnation : 1 .. MaxIncarnation]]
      /\ StartList \in Lists /\ "query" \in Ops
  BY GatewayAssumption DEF GInv, GatewayTypeOK, WatchdogType, Ops
<1>1. CASE UNCHANGED << request, watchdog >>
  BY <1>1 DEF Awaited
<1>2. ASSUME NEW r \in Requests, Starts(r) \/ WatchdogAsks(r)
      PROVE  Awaited'
  <2>1. request'[r].pc # "idle"
    BY <1>0, <1>2, LookupServes DEF Starts, WatchdogAsks, Connect, Call
  <2>2. watchdog'.slot = r
    BY <1>0, <1>2 DEF Starts, WatchdogAsks, WatchdogType
  <2>. QED
    BY <2>1, <2>2 DEF Awaited
<1>3. ASSUME NEW r \in Requests, ClientAsks(r)
      PROVE  Awaited'
  <2>1. \A q \in Requests \ {r} : request'[q] = request[q]
    BY <1>0, <1>3, ClientStep, OwnRequest
  <2>2. request'[r].pc # "idle"
    BY <1>0, <1>3, LookupServes DEF ClientAsks, Connect, Call
  <2>3. watchdog' = watchdog
    BY <1>3 DEF ClientAsks
  <2>. QED
    BY <2>1, <2>2, <2>3 DEF Awaited
<1>4. CASE WatchdogGets524 \/ CheckBeyondSlots
  <2>1. watchdog'.pc \in {"timer", "stopping"}
    BY <1>4 DEF WatchdogGets524, CheckBeyondSlots, CheckFails, Checked
  <2>. QED
    BY <2>1 DEF Awaited
<1>5. ASSUME NEW r \in Requests, RunJob(r)
      PROVE  Awaited'
  <2>1. \A q \in Requests \ {r} : request'[q] = request[q]
    BY <1>0, <1>5, OwnRequest DEF RunJob
  <2>. QED
    BY <1>0, <1>5, <2>1, SeesKeepsAwaited DEF RunJob
<1>6. ASSUME NEW r \in Requests, Returns(r)
      PROVE  Awaited'
  <2>1. \A q \in Requests \ {r} : request'[q] = request[q]
    BY <1>0, <1>6, ReturnStep, OwnRequest
  <2>2. ASSUME NEW successful, Sees(r, successful)
        PROVE  Awaited'
    BY <1>0, <2>1, <2>2, SeesKeepsAwaited
  <2>3. CASE NativeNotExist(r) /\ UNCHANGED watchdog
    <3>1. request'[r].pc # "idle"
      BY <1>0, <2>3, LookupServes DEF NativeNotExist, ResetAndRetry
    <3>. QED
      BY <2>1, <2>3, <3>1 DEF Awaited
  <2>. QED
    BY <1>6, <2>2, <2>3 DEF Returns
<1>7. CASE Restarts
  BY <1>7 DEF Restarts, WatchdogStart, Awaited
<1>8. ASSUME NEW r \in Requests, Lookup(r) \/ Worker(r)
      PROVE  UNCHANGED << request, watchdog >>
  BY <1>8
  DEF Lookup, LookupOk, LookupFailsOver, LookupExhausted, HttpOk, HttpFailover,
      NestedLookup, HttpExhausted, vars,
      Worker, FindsConnectionFailed, GetsOrb, FindsZonePortal, FindsNoZonePortal,
      MakesZonePortal, KeepsZonePortal, UsesDestroyedOrb, IsaAnswers, TimesOut,
      NotesFailure, RetriesEnd, RaisesOrbShutdown, CutOffSucceeds, Completes
<1>9. ASSUME NEW i \in Isas, IsaStops(i) \/ IsaStarts(i)
      PROVE  UNCHANGED << request, watchdog >>
  BY <1>9 DEF IsaStops, IsaStarts, vars
<1>10. Exits => UNCHANGED << request, watchdog >>
  BY DEF Exits, vars
<1>11. UNCHANGED gvars => UNCHANGED << request, watchdog >>
  BY DEF gvars, vars
<1>. QED
  BY <1>1, <1>2, <1>3, <1>4, <1>5, <1>6, <1>7, <1>8, <1>9, <1>10, <1>11
  DEF GatewayNext, Running, Check

(* The watchdog never waits for the end of a request that has ended, nor   *)
(* does the start of the process (server.ts:960-998), through failovers,   *)
(* 524s and restarts: its chain of checks does not break off.              *)
THEOREM WatchdogServed == GatewaySpec => []WatchdogHasRequest
<1>1. GatewayInit => Awaited
  BY DEF GatewayInit, WatchdogStart, Awaited
<1>2. Awaited => WatchdogHasRequest
  BY DEF Awaited, WatchdogHasRequest
<1>. QED
  BY <1>1, <1>2, AwaitedStep, GatewayInvariance, PTL DEF GatewaySpec
=============================================================================
