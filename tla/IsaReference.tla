---------------------------- MODULE IsaReference ----------------------------
(***************************************************************************)
(* The connection state of the gateway (src/index.ts): the shared promise  *)
(* isaIOR of the ISA's object reference, the list stickyRef of ISA         *)
(* addresses with its round-robin counter, the counter of OBJECT_NOT_EXIST *)
(* answers, and the library calls that look the reference up, make their   *)
(* native calls and reset or retry when one fails.                         *)
(*                                                                         *)
(* JavaScript runs one callback at a time and drains its promise jobs      *)
(* before the next one.  The "job" actions below are those promise jobs;   *)
(* every other action is a callback of the event loop and waits until the  *)
(* jobs are drained (Quiet).  Jobs may run in any order.                   *)
(***************************************************************************)
EXTENDS Naturals, Sequences

CONSTANTS
  Requests,      (* slots of library calls: one HTTP request runs in each  *)
  Isas,          (* ISA addresses                                          *)
  Iors,          (* object references an ISA may advertise                 *)
  Lists,         (* the address lists that POST /connect may be given      *)
  DefaultList,   (* the list before the first /connect                     *)
  RobinModulus,  (* robin is kept modulo this: it is only used modulo the  *)
                 (* length of a list                                       *)
  MissLimit,     (* OBJECT_NOT_EXIST answers tolerated (5 in the source)   *)
  None           (* null                                                   *)

ASSUME ReferenceAssumption ==
  /\ Lists \subseteq Seq(Isas)
  /\ \A l \in Lists : l # << >>
  /\ DefaultList \in Lists
  /\ RobinModulus \in Nat \ {0}
  /\ \A l \in Lists : RobinModulus % Len(l) = 0
  /\ MissLimit \in Nat
  /\ None \notin Requests

VARIABLES
  isaIOR,              (* None, or the request whose promise it holds      *)
  stickyRef,
  robin,
  connectAttempt,
  objectNotFoundCount,
  promise,             (* the promise each request created last            *)
  request              (* what each request is doing                       *)

vars == << isaIOR, stickyRef, robin, connectAttempt, objectNotFoundCount,
           promise, request >>

connection == << isaIOR, stickyRef, robin, connectAttempt, objectNotFoundCount >>
-----------------------------------------------------------------------------
(* A promise made by getISAReference is linked to the one isaIOR held      *)
(* before, or fetching /ZoneManager.ior from an ISA, or settled.           *)

NoPromise == [state |-> "none", on |-> None, index |-> 0, isa |-> None,
              count |-> 0, ior |-> None]
Linked(q, k) == [state |-> "linked", on |-> q, index |-> k, isa |-> None,
                 count |-> 1, ior |-> None]
Fetching(i, n) == [state |-> "fetching", on |-> None, index |-> 0, isa |-> i,
                   count |-> n, ior |-> None]
Resolved(v) == [state |-> "resolved", on |-> None, index |-> 0, isa |-> None,
                count |-> 0, ior |-> v]
Rejected == [state |-> "rejected", on |-> None, index |-> 0, isa |-> None,
             count |-> 0, ior |-> None]

Pending(q) == promise[q].state \in {"linked", "fetching"}
Settled(q) == promise[q].state \in {"resolved", "rejected"}

(* What the library functions differ in.  "query" stands for those with    *)
(* one native call, "port" for those that call getServers first            *)
(* (checkServer), "ping" for testConnection, whose failures are all        *)
(* retried, "properties" for getPortProperties, "wipe" for wipe.           *)
Ops == {"query", "port", "ping", "properties", "wipe"}
NativeCalls(o) == IF o \in {"port", "properties", "wipe"} THEN 2 ELSE 1
(* What a library function calls when OBJECT_NOT_EXIST makes it try again. *)
RetryOf(o) == IF o = "properties" THEN "wipe" ELSE o

Idle == [pc |-> "idle", op |-> None, left |-> 0, awaits |-> None, ior |-> None]
AwaitReference(o) == [pc |-> "reference", op |-> o, left |-> NativeCalls(o),
                      awaits |-> None, ior |-> None]
(* `await isaIOR', evaluated when isaIOR is q *)
AwaitAddress(o, n, q) == [pc |-> "address", op |-> o, left |-> n,
                          awaits |-> q, ior |-> None]
InNative(o, n, v) == [pc |-> "native", op |-> o, left |-> n,
                      awaits |-> None, ior |-> v]
(* the guard of getISAReference threw "Five OBJECT_NOT_EXIST exceptions"   *)
Refused(o) == [pc |-> "refused", op |-> o, left |-> 0,
               awaits |-> None, ior |-> None]

(* Request r has a promise job to run. *)
Ready(r) ==
  \/ promise[r].state = "linked" /\ Settled(promise[r].on)
  \/ request[r].pc = "refused"
  \/ request[r].pc = "reference" /\ Settled(r)
  \/ /\ request[r].pc = "address"
     /\ IF request[r].awaits = None THEN TRUE ELSE Settled(request[r].awaits)

Quiet == \A r \in Requests : ~Ready(r)

NextRobin(k) == (k + 1) % RobinModulus
(* stickyRef[robin % stickyRef.length], counted from 1 *)
IndexIn(list, k) == (k % Len(list)) + 1
-----------------------------------------------------------------------------
(* The synchronous part of getISAReference, up to its first await, called  *)
(* when the module variables have the given values.                        *)

(* Mutant: every call fetches the reference itself. *)
ChainedNever(list, ior, k) == Fetching(list[IndexIn(list, k)], 1)

(* isaIOR.then(x => x, fetch) *)
Chained(list, ior, k) ==
  IF ior = None \/ promise[ior].state = "rejected"
    THEN Fetching(list[IndexIn(list, k)], 1)
  ELSE IF Pending(ior) THEN Linked(ior, IndexIn(list, k))
  ELSE Resolved(promise[ior].ior)

GiveUp(r, o, k) ==
  /\ isaIOR' = None
  /\ robin' = NextRobin(k)
  /\ objectNotFoundCount' = 0
  /\ request' = [request EXCEPT ![r] = Refused(o)]
  /\ UNCHANGED << stickyRef, promise >>

(* Mutant: /connect is answered before the reference is known. *)
ObtainNoAwait(r, o, list, ior, k, misses) ==
  /\ isaIOR' = r
  /\ stickyRef' = list
  /\ robin' = k
  /\ objectNotFoundCount' = misses
  /\ promise' = [promise EXCEPT ![r] = Chained(list, ior, k)]
  /\ request' = [request EXCEPT ![r] =
                   IF o = "connect" THEN Idle ELSE AwaitReference(o)]

Obtain(r, o, list, ior, k, misses) ==
  /\ isaIOR' = r
  /\ stickyRef' = list
  /\ robin' = k
  /\ objectNotFoundCount' = misses
  /\ promise' = [promise EXCEPT ![r] = Chained(list, ior, k)]
  /\ request' = [request EXCEPT ![r] = AwaitReference(o)]

GetISAReference(r, o, list, ior, k, misses) ==
  \/ misses > MissLimit /\ GiveUp(r, o, k)
  \/ misses <= MissLimit /\ Obtain(r, o, list, ior, k, misses)

(* resetConnection(), and the error goes to the caller *)
ResetAndThrow(r) ==
  /\ isaIOR' = None
  /\ robin' = NextRobin(robin)
  /\ objectNotFoundCount' = 0
  /\ request' = [request EXCEPT ![r] = Idle]
  /\ UNCHANGED << stickyRef, promise >>

(* Mutant: resetConnection() does not count the miss. *)
ResetAndRetryUncounted(r, o) ==
  GetISAReference(r, o, stickyRef, None, NextRobin(robin), objectNotFoundCount)

(* resetConnection(true), and the library function calls itself again *)
ResetAndRetry(r, o) ==
  GetISAReference(r, o, stickyRef, None, NextRobin(robin),
                  objectNotFoundCount + 1)
-----------------------------------------------------------------------------
(* Callbacks: a client's request arrives *)

Connect(r, list) ==
  /\ Quiet
  /\ request[r].pc = "idle"
  /\ connectAttempt' = TRUE
  /\ GetISAReference(r, "connect", list, None, robin, objectNotFoundCount)

(* Before the first /connect a library call is refused and changes nothing. *)
Call(r, o) ==
  /\ Quiet
  /\ request[r].pc = "idle"
  /\ connectAttempt
  /\ GetISAReference(r, o, stickyRef, isaIOR, robin, objectNotFoundCount)
  /\ UNCHANGED connectAttempt

(* Callbacks: the answer to the HTTP request for /ZoneManager.ior *)

(* Mutant: the body is taken whatever the status. *)
HttpOkAnyStatus(r, v) ==
  /\ Quiet
  /\ promise[r].state = "fetching"
  /\ promise' = [promise EXCEPT ![r] = Resolved(None)]
  /\ UNCHANGED << connection, request >>

HttpOk(r, v) ==
  /\ Quiet
  /\ promise[r].state = "fetching"
  /\ promise' = [promise EXCEPT ![r] = Resolved(v)]
  /\ UNCHANGED << connection, request >>

(* resetConnection() makes robin k, and the nested getISAReference, called *)
(* with a count, fetches from the next ISA.                                *)
NestedLookup(r, n, k) ==
  /\ isaIOR' = r
  /\ robin' = k
  /\ objectNotFoundCount' = 0
  /\ promise' = [promise EXCEPT ![r] =
                   Fetching(stickyRef[IndexIn(stickyRef, k)], n)]
  /\ UNCHANGED << stickyRef, connectAttempt, request >>

(* Mutant: the nested call chains onto the promise that waits for it. *)
HttpFailoverNoReset(r) ==
  /\ Quiet
  /\ promise[r].state = "fetching"
  /\ promise[r].count < Len(stickyRef)
  /\ isaIOR' = r
  /\ promise' = [promise EXCEPT ![r] =
                   IF isaIOR = None THEN Fetching(stickyRef[1], 1)
                   ELSE Linked(isaIOR, IndexIn(stickyRef, robin))]
  /\ UNCHANGED << stickyRef, robin, connectAttempt, objectNotFoundCount, request >>

(* Mutant: one address too many. *)
HttpFailoverOneMore(r) ==
  /\ Quiet
  /\ promise[r].state = "fetching"
  /\ promise[r].count <= Len(stickyRef)
  /\ NestedLookup(r, promise[r].count + 1, NextRobin(robin))

(* Mutant: the nested call does not get the count. *)
HttpFailoverUncounted(r) ==
  /\ Quiet
  /\ promise[r].state = "fetching"
  /\ promise[r].count < Len(stickyRef)
  /\ NestedLookup(r, 1, NextRobin(robin))

(* Mutant: robin stays. *)
HttpFailoverSameIsa(r) ==
  /\ Quiet
  /\ promise[r].state = "fetching"
  /\ promise[r].count < Len(stickyRef)
  /\ NestedLookup(r, promise[r].count + 1, robin)

(* An error, a status or a timeout, and another ISA left to try: the       *)
(* promise adopts the one of a nested getISAReference.                     *)
HttpFailover(r) ==
  /\ Quiet
  /\ promise[r].state = "fetching"
  /\ promise[r].count < Len(stickyRef)
  /\ NestedLookup(r, promise[r].count + 1, NextRobin(robin))

(* ... and none left: destroyOrb() and reject *)
HttpExhausted(r) ==
  /\ Quiet
  /\ promise[r].state = "fetching"
  /\ promise[r].count >= Len(stickyRef)
  /\ promise' = [promise EXCEPT ![r] = Rejected]
  /\ UNCHANGED << connection, request >>

(* Callbacks: the native call of r completes *)

NativeReturns(r) ==
  /\ Quiet
  /\ request[r].pc = "native"
  /\ request' = [request EXCEPT ![r] =
       IF @.left > 1 THEN AwaitAddress(@.op, @.left - 1, isaIOR) ELSE Idle]
  /\ UNCHANGED << connection, promise >>

(* an error that says nothing of the connection, or 404 from checkServer *)
NativeThrows(r) ==
  /\ Quiet
  /\ request[r].pc = "native"
  /\ request' = [request EXCEPT ![r] = Idle]
  /\ UNCHANGED << connection, promise >>

NativeTransient(r) ==
  /\ Quiet
  /\ request[r].pc = "native"
  /\ \/ request[r].op # "ping" /\ ResetAndThrow(r)
     \/ request[r].op = "ping" /\ ResetAndRetry(r, "ping")
  /\ UNCHANGED connectAttempt

NativeNotExist(r) ==
  /\ Quiet
  /\ request[r].pc = "native"
  /\ ResetAndRetry(r, RetryOf(request[r].op))
  /\ UNCHANGED connectAttempt
-----------------------------------------------------------------------------
(* Promise jobs *)

RelayResolved(r) ==
  /\ promise[r].state = "linked"
  /\ promise[promise[r].on].state = "resolved"
  /\ promise' = [promise EXCEPT ![r] = Resolved(promise[promise[r].on].ior)]
  /\ UNCHANGED << connection, request >>

(* The lookup waited for failed: r makes its own, at the index it computed *)
(* when it was called.  stickyRef may have been replaced since, and the    *)
(* index may be beyond its end: a TypeError.                               *)
RelayRejected(r) ==
  /\ promise[r].state = "linked"
  /\ promise[promise[r].on].state = "rejected"
  /\ promise' = [promise EXCEPT ![r] =
                   IF promise[r].index <= Len(stickyRef)
                     THEN Fetching(stickyRef[promise[r].index], 1)
                     ELSE Rejected]
  /\ UNCHANGED << connection, request >>

(* getISAReference returns; a library function goes on to `await isaIOR' *)
ReferenceReturns(r) ==
  /\ request[r].pc = "reference"
  /\ promise[r].state = "resolved"
  /\ request' = [request EXCEPT ![r] =
       IF @.op = "connect" THEN Idle ELSE AwaitAddress(@.op, @.left, isaIOR)]
  /\ UNCHANGED << connection, promise >>

(* The guard's error comes to the catch clause of the library function,    *)
(* which finds OBJECT_NOT_EXIST in its message.  /connect has no such      *)
(* clause.                                                                 *)
GuardThrows(r) ==
  /\ request[r].pc = "refused"
  /\ IF request[r].op = "connect"
       THEN /\ request' = [request EXCEPT ![r] = Idle]
            /\ UNCHANGED << isaIOR, stickyRef, robin, objectNotFoundCount, promise >>
       ELSE ResetAndRetry(r, RetryOf(request[r].op))
  /\ UNCHANGED connectAttempt

ReferenceThrows(r) ==
  /\ request[r].pc = "reference"
  /\ promise[r].state = "rejected"
  /\ request' = [request EXCEPT ![r] = Idle]
  /\ UNCHANGED << connection, promise >>

AddressKnown(r) ==
  /\ request[r].pc = "address"
  /\ request[r].awaits # None
  /\ promise[request[r].awaits].state = "resolved"
  /\ request' = [request EXCEPT ![r] =
                   InNative(@.op, @.left, promise[@.awaits].ior)]
  /\ UNCHANGED << connection, promise >>

AddressThrows(r) ==
  /\ request[r].pc = "address"
  /\ request[r].awaits # None
  /\ promise[request[r].awaits].state = "rejected"
  /\ request' = [request EXCEPT ![r] = Idle]
  /\ UNCHANGED << connection, promise >>

(* isaIOR was null when it was read: the native function refuses the       *)
(* argument ("A string was expected").                                     *)
AddressNull(r) ==
  /\ request[r].pc = "address"
  /\ request[r].awaits = None
  /\ request' = [request EXCEPT ![r] = Idle]
  /\ UNCHANGED << connection, promise >>
-----------------------------------------------------------------------------
Init ==
  /\ isaIOR = None
  /\ stickyRef = DefaultList
  /\ robin = 0
  /\ connectAttempt = FALSE
  /\ objectNotFoundCount = 0
  /\ promise = [r \in Requests |-> NoPromise]
  /\ request = [r \in Requests |-> Idle]

Client(r) == (\E list \in Lists : Connect(r, list)) \/ (\E o \in Ops : Call(r, o))
Http(r)   == (\E v \in Iors : HttpOk(r, v)) \/ HttpFailover(r) \/ HttpExhausted(r)
Native(r) == \/ NativeReturns(r) \/ NativeThrows(r)
             \/ NativeTransient(r) \/ NativeNotExist(r)
Job(r)    == \/ RelayResolved(r) \/ RelayRejected(r)
             \/ ReferenceReturns(r) \/ ReferenceThrows(r) \/ GuardThrows(r)
             \/ AddressKnown(r) \/ AddressThrows(r) \/ AddressNull(r)

Next == \E r \in Requests : Client(r) \/ Http(r) \/ Native(r) \/ Job(r)

Spec == Init /\ [][Next]_vars

(* The event loop drains the jobs, and it serves every answer that keeps   *)
(* coming up: an HTTP request ends within its timeout of 1000 ms, a CORBA  *)
(* call within clientCallTimeOutPeriod of 2000 ms.  A callback is disabled *)
(* whenever jobs are queued, hence strong fairness.  No client is fair.    *)
Fairness == \A r \in Requests :
              WF_vars(Job(r)) /\ SF_vars(Http(r)) /\ SF_vars(Native(r))

LiveSpec == Spec /\ Fairness
-----------------------------------------------------------------------------
(* The types of the variables. *)
PromiseType ==
  {NoPromise, Rejected}
    \cup [state : {"linked"}, on : Requests, index : Nat \ {0},
          isa : {None}, count : {1}, ior : {None}]
    \cup [state : {"fetching"}, on : {None}, index : {0},
          isa : Isas, count : Nat \ {0}, ior : {None}]
    \cup [state : {"resolved"}, on : {None}, index : {0},
          isa : {None}, count : {0}, ior : Iors]
RequestType ==
  {Idle}
    \cup [pc : {"refused"}, op : Ops \cup {"connect"}, left : {0},
          awaits : {None}, ior : {None}]
    \cup [pc : {"reference"}, op : Ops \cup {"connect"}, left : 1 .. 2,
          awaits : {None}, ior : {None}]
    \cup [pc : {"address"}, op : Ops, left : 1 .. 2,
          awaits : Requests \cup {None}, ior : {None}]
    \cup [pc : {"native"}, op : Ops, left : 1 .. 2,
          awaits : {None}, ior : Iors]

TypeOK ==
  /\ isaIOR \in Requests \cup {None}
  /\ stickyRef \in Lists
  /\ robin \in 0 .. RobinModulus - 1
  /\ connectAttempt \in BOOLEAN
  /\ objectNotFoundCount \in Nat
  /\ promise \in [Requests -> PromiseType]
  /\ request \in [Requests -> RequestType]

Waiting(r) == request[r].pc \in {"reference", "address"}

(* Nobody waits for a promise that nothing will settle: when the jobs are  *)
(* drained and some request still waits for the ISA reference, an HTTP     *)
(* request for it is outstanding.  Promises are chained onto promises of   *)
(* other requests, replaced while they are waited for, and dropped by      *)
(* resets (index.ts:438-477); a cycle or a lost link would hang requests.  *)
WaitersAreServed ==
  Quiet /\ (\E r \in Requests : Waiting(r))
    => \E q \in Requests : promise[q].state = "fetching"

(* A promise is pending only while the request that made it waits for it:  *)
(* a finished request leaves no lookup behind that could reset the         *)
(* connection, or give it another address, under later requests.           *)
NoOrphanLookup ==
  \A r \in Requests : Pending(r) => request[r].pc = "reference"

(* A lookup makes at most one HTTP request per address of the longest list *)
(* ever given, even when /connect replaces the list under it.              *)
FailoverBounded ==
  \A r \in Requests : \E list \in Lists : promise[r].count <= Len(list)

(* Every wait for the ISA reference ends. *)
WaitsEnd == \A r \in Requests : Waiting(r) ~> ~Waiting(r)

(* Every library call ends: the retries after OBJECT_NOT_EXIST stop        *)
(* ("Preventing loop", index.ts:426).                                      *)
CallsEnd == \A r \in Requests : request[r].pc # "idle" ~> request[r].pc = "idle"

(* ... and they all end if the failures that are retried ever cease,       *)
(* whatever the other failures, failovers and reconnections.               *)
RetriedFailure ==
  \E r \in Requests :
    \/ NativeNotExist(r)
    \/ NativeTransient(r) /\ request[r].op = "ping"
CallsEndOnceFound == <>[][~RetriedFailure]_vars => CallsEnd

(* testConnection fails only with connection errors (index.ts:500): it     *)
(* never passes null to the native function.                               *)
PingHasAddress ==
  \A r \in Requests :
    request[r].pc = "address" /\ request[r].op = "ping"
      => request[r].awaits # None

(* A library call that is retried is the same call. *)
RetrySameOperation ==
  [][\A r \in Requests :
       request[r].pc = "native" /\ request'[r].pc = "reference"
         => request'[r].op = request[r].op]_vars
=============================================================================
