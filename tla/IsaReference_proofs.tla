------------------------ MODULE IsaReference_proofs ------------------------
(***************************************************************************)
(* Proofs about IsaReference, for any number of requests, any address      *)
(* lists and any limit: type correctness, the invariant NoOrphanLookup,    *)
(* and WaitersAreServed, whose inductive invariant says that the links     *)
(* between pending promises have no cycle.                                 *)
(***************************************************************************)
EXTENDS IsaReference, TLAPS, WellFoundedInduction

(* Arithmetic on the round-robin counter. *)
LEMMA ModBounds ==
  ASSUME NEW k \in Nat, NEW n \in Nat \ {0}
  PROVE  k % n \in 0 .. n - 1
  OBVIOUS

LEMMA ListAccess ==
  ASSUME NEW list \in Lists, NEW k \in Nat
  PROVE  /\ Len(list) \in Nat \ {0}
         /\ IndexIn(list, k) \in 1 .. Len(list)
         /\ list[IndexIn(list, k)] \in Isas
<1>1. list \in Seq(Isas) /\ list # << >>
  BY ReferenceAssumption
<1>2. Len(list) \in Nat \ {0}
  BY <1>1
<1>3. k % Len(list) \in 0 .. Len(list) - 1
  BY <1>2, ModBounds
<1>4. IndexIn(list, k) \in 1 .. Len(list)
  BY <1>2, <1>3 DEF IndexIn
<1>. QED
  BY <1>1, <1>2, <1>4

LEMMA RobinType ==
  ASSUME NEW k \in Nat
  PROVE  NextRobin(k) \in 0 .. RobinModulus - 1
  BY ReferenceAssumption, ModBounds DEF NextRobin

(* What is referred to exists: a promise that isaIOR, a request or another *)
(* promise refers to has been created.                                     *)
Created(q) == promise[q].state # "none"

Anchored ==
  /\ isaIOR # None => Created(isaIOR)
  /\ \A r \in Requests :
       /\ request[r].pc = "reference" => Created(r)
       /\ promise[r].state = "linked" => Created(promise[r].on)
       /\ request[r].pc = "address" /\ request[r].awaits # None
            => Created(request[r].awaits)

(* The promise that getISAReference makes is well typed. *)
LEMMA ChainedType ==
  ASSUME TypeOK, Anchored, NEW list \in Lists, NEW ior \in {isaIOR, None}, NEW k \in Nat
  PROVE  Chained(list, ior, k) \in PromiseType
<1>1. /\ IndexIn(list, k) \in Nat
      /\ list[IndexIn(list, k)] \in Isas
  BY ListAccess
<1>2. CASE ior = None
  BY <1>1, <1>2 DEF Chained, Fetching, PromiseType
<1>3. CASE ior # None
  <2>1. ior \in Requests /\ promise[ior] \in PromiseType /\ Created(ior)
    BY <1>3 DEF TypeOK, Anchored
  <2>2. CASE promise[ior].state = "rejected"
    BY <1>1, <1>3, <2>2 DEF Chained, Fetching, PromiseType
  <2>3. CASE Pending(ior)
    <3>1. IndexIn(list, k) \in Nat \ {0}
      BY ListAccess
    <3>. QED
      BY <1>3, <2>1, <2>3, <3>1 DEF Chained, Pending, Linked, PromiseType
  <2>4. CASE promise[ior].state # "rejected" /\ ~Pending(ior)
    <3>1. promise[ior].ior \in Iors
      BY <2>1, <2>4 DEF Created, Pending, PromiseType, NoPromise, Rejected
    <3>. QED
      BY <1>3, <2>4, <3>1 DEF Chained, Resolved, PromiseType
  <2>. QED
    BY <2>2, <2>3, <2>4
<1>. QED
  BY <1>2, <1>3

(* Looking the reference up keeps the types, whatever the caller has just  *)
(* set the module variables to.                                            *)
LEMMA GetISAReferenceType ==
  ASSUME TypeOK, Anchored, NEW r \in Requests, NEW o \in Ops \cup {"connect"},
         NEW list \in Lists, NEW ior \in {isaIOR, None}, NEW k \in Nat,
         k \in 0 .. RobinModulus - 1, NEW misses \in Nat,
         connectAttempt' \in BOOLEAN,
         GetISAReference(r, o, list, ior, k, misses)
  PROVE  TypeOK'
<1>1. CASE GiveUp(r, o, k)
  <2>1. Refused(o) \in RequestType
    BY DEF Refused, RequestType
  <2>. QED
    BY <1>1, <2>1, RobinType DEF GiveUp, TypeOK
<1>2. CASE Obtain(r, o, list, ior, k, misses)
  <2>1. Chained(list, ior, k) \in PromiseType
    BY ChainedType
  <2>2. AwaitReference(o) \in RequestType
    BY DEF AwaitReference, RequestType, NativeCalls
  <2>. QED
    BY <1>2, <2>1, <2>2 DEF Obtain, TypeOK
<1>. QED
  BY <1>1, <1>2 DEF GetISAReference

LEMMA TypeStep == TypeOK /\ Anchored /\ [Next]_vars => TypeOK'
<1> SUFFICES ASSUME TypeOK, Anchored, [Next]_vars
             PROVE  TypeOK'
  OBVIOUS
<1>0. /\ robin \in Nat /\ NextRobin(robin) \in Nat
      /\ NextRobin(robin) \in 0 .. RobinModulus - 1
      /\ robin \in 0 .. RobinModulus - 1
      /\ objectNotFoundCount \in Nat /\ objectNotFoundCount + 1 \in Nat
      /\ stickyRef \in Lists
      /\ Ops \subseteq Ops \cup {"connect"}
  BY RobinType, ReferenceAssumption DEF TypeOK
<1>r. ASSUME NEW r \in Requests
      PROVE  promise[r] \in PromiseType /\ request[r] \in RequestType
  BY DEF TypeOK
<1>1. ASSUME NEW r \in Requests, NEW list \in Lists, Connect(r, list)
      PROVE  TypeOK'
  BY <1>0, <1>1, GetISAReferenceType DEF Connect, TypeOK
<1>2. ASSUME NEW r \in Requests, NEW o \in Ops, Call(r, o)
      PROVE  TypeOK'
  BY <1>0, <1>2, GetISAReferenceType DEF Call, TypeOK
<1>3. ASSUME NEW r \in Requests, Http(r)
      PROVE  TypeOK'
  <2>1. ASSUME NEW v \in Iors, HttpOk(r, v)
        PROVE  TypeOK'
    BY <2>1 DEF HttpOk, TypeOK, PromiseType, Resolved, connection
  <2>2. CASE HttpFailover(r)
    <3>1. stickyRef[IndexIn(stickyRef, NextRobin(robin))] \in Isas
      BY <1>0, ListAccess DEF TypeOK
    <3>. QED
      <4>1. promise[r].count \in Nat \ {0}
        BY <1>r, <2>2 DEF HttpFailover, PromiseType, NoPromise, Rejected
      <4>2. Fetching(stickyRef[IndexIn(stickyRef, NextRobin(robin))],
                     promise[r].count + 1) \in PromiseType
        BY <3>1, <4>1 DEF Fetching, PromiseType
      <4>. QED
        BY <1>0, <2>2, <4>2 DEF HttpFailover, NestedLookup, TypeOK
  <2>3. CASE HttpExhausted(r)
    BY <2>3 DEF HttpExhausted, TypeOK, PromiseType, Rejected, connection
  <2>. QED
    BY <1>3, <2>1, <2>2, <2>3 DEF Http
<1>4. ASSUME NEW r \in Requests, Native(r)
      PROVE  TypeOK'
  <2>1. CASE NativeReturns(r)
    <3>1. request[r].op \in Ops /\ request[r].left \in 1 .. 2
      BY <1>r, <2>1 DEF NativeReturns, RequestType, Idle
    <3>2. CASE request[r].left > 1
      <4>1. AwaitAddress(request[r].op, request[r].left - 1, isaIOR) \in RequestType
        BY <3>1, <3>2 DEF AwaitAddress, RequestType, TypeOK
      <4>. QED
        BY <2>1, <3>2, <4>1 DEF NativeReturns, TypeOK, connection
    <3>3. CASE ~(request[r].left > 1)
      BY <2>1, <3>3 DEF NativeReturns, TypeOK, connection, RequestType
    <3>. QED
      BY <3>2, <3>3
  <2>2. CASE NativeThrows(r)
    BY <2>2 DEF NativeThrows, TypeOK, RequestType, Idle, connection
  <2>3. CASE NativeTransient(r)
    <3>1. CASE ResetAndThrow(r)
      BY <1>0, <2>3, <3>1
      DEF NativeTransient, ResetAndThrow, TypeOK, RequestType, Idle
    <3>2. CASE ResetAndRetry(r, "ping")
      <4>1. "ping" \in Ops \cup {"connect"} /\ connectAttempt' \in BOOLEAN
        BY <2>3 DEF Ops, NativeTransient, TypeOK
      <4>. QED
        BY <1>0, <3>2, <4>1, GetISAReferenceType DEF ResetAndRetry
    <3>. QED
      BY <2>3, <3>1, <3>2 DEF NativeTransient
  <2>4. CASE NativeNotExist(r)
    <3>1. RetryOf(request[r].op) \in Ops
      BY <2>4 DEF NativeNotExist, TypeOK, RequestType, Idle, RetryOf, Ops
    <3>. QED
      <4>1. connectAttempt' \in BOOLEAN
        BY <2>4 DEF NativeNotExist, TypeOK
      <4>2. ResetAndRetry(r, RetryOf(request[r].op))
        BY <2>4 DEF NativeNotExist
      <4>. QED
        BY <1>0, <3>1, <4>1, <4>2, GetISAReferenceType DEF ResetAndRetry
  <2>. QED
    BY <1>4, <2>1, <2>2, <2>3, <2>4 DEF Native
<1>5. ASSUME NEW r \in Requests, GuardThrows(r)
      PROVE  TypeOK'
  <2>1. CASE request[r].op = "connect"
    BY <1>5, <2>1 DEF GuardThrows, TypeOK, RequestType
  <2>2. CASE request[r].op # "connect"
    <3>1. RetryOf(request[r].op) \in Ops
      BY <1>r, <1>5, <2>2 DEF GuardThrows, RequestType, Idle, RetryOf, Ops
    <3>2. connectAttempt' \in BOOLEAN /\ ResetAndRetry(r, RetryOf(request[r].op))
      BY <1>5, <2>2 DEF GuardThrows, TypeOK
    <3>. QED
      BY <1>0, <3>1, <3>2, GetISAReferenceType DEF ResetAndRetry
  <2>. QED
    BY <2>1, <2>2
<1>6. ASSUME NEW r \in Requests, Job(r), ~GuardThrows(r)
      PROVE  TypeOK'
  <2>a. UNCHANGED connection
    BY <1>6 DEF Job, RelayResolved, RelayRejected, ReferenceReturns,
       ReferenceThrows, AddressKnown, AddressThrows, AddressNull, connection
  <2>. SUFFICES /\ promise' \in [Requests -> PromiseType]
                /\ request' \in [Requests -> RequestType]
    BY <2>a DEF TypeOK, connection
  <2>0. /\ promise[r] \in PromiseType
        /\ request[r] \in RequestType
    BY DEF TypeOK
  <2>1. CASE RelayResolved(r)
    <3>1. promise[r].on \in Requests
      BY <2>0, <2>1 DEF RelayResolved, PromiseType, NoPromise, Rejected
    <3>2. promise[promise[r].on].ior \in Iors
      BY <3>1, <1>r, <2>1 DEF RelayResolved, PromiseType, NoPromise, Rejected
    <3>3. Resolved(promise[promise[r].on].ior) \in PromiseType
      BY <3>2 DEF Resolved, PromiseType
    <3>. QED
      BY <2>1, <3>3 DEF RelayResolved, TypeOK
  <2>2. CASE RelayRejected(r)
    <3>1. CASE promise[r].index <= Len(stickyRef)
      <4>1. /\ promise[r].index \in 1 .. Len(stickyRef)
            /\ stickyRef \in Seq(Isas)
        BY <2>0, <2>2, <3>1, ReferenceAssumption
        DEF RelayRejected, TypeOK, PromiseType, NoPromise, Rejected
      <4>2. stickyRef[promise[r].index] \in Isas
        BY <4>1
      <4>. QED
        BY <2>0, <2>2, <3>1, <4>2 DEF RelayRejected, TypeOK, PromiseType, Fetching
    <3>. QED
      BY <2>0, <2>2, <3>1 DEF RelayRejected, TypeOK, PromiseType, Rejected
  <2>3. CASE ReferenceReturns(r)
    BY <2>0, <2>3
    DEF ReferenceReturns, TypeOK, RequestType, AwaitAddress, Idle, connection
  <2>4. CASE ReferenceThrows(r)
    BY <2>4 DEF ReferenceThrows, TypeOK, RequestType
  <2>5. CASE AddressKnown(r)
    <3>1. promise[request[r].awaits].ior \in Iors
      BY <2>0, <2>5
      DEF AddressKnown, TypeOK, PromiseType, RequestType, Idle, NoPromise, Rejected
    <3>. QED
      BY <2>0, <2>5, <3>1
      DEF AddressKnown, TypeOK, RequestType, InNative, Idle
  <2>6. CASE AddressThrows(r)
    BY <2>6 DEF AddressThrows, TypeOK, RequestType
  <2>7. CASE AddressNull(r)
    BY <2>7 DEF AddressNull, TypeOK, RequestType
  <2>. QED
    BY <1>6, <2>1, <2>2, <2>3, <2>4, <2>5, <2>6, <2>7 DEF Job
<1>. QED
  BY <1>1, <1>2, <1>3, <1>4, <1>5, <1>6 DEF Next, Client, vars, TypeOK
-----------------------------------------------------------------------------
(* The four shapes that a step has, as far as the structural invariants    *)
(* are concerned.  A request ends; or goes on from one wait to the next;   *)
(* or the lookup it made gets an answer; or it makes a new lookup.         *)
Ends(r, w) ==
  /\ request[r].pc = "reference" => Settled(r)
  /\ promise' = promise
  /\ request' = [request EXCEPT ![r] = w]
  /\ w.pc \in {"idle", "refused"}
  /\ isaIOR' \in {isaIOR, None}
  /\ objectNotFoundCount' \in {objectNotFoundCount, 0}

GoesOn(r, w) ==
  /\ request[r].pc = "reference" => Settled(r)
  /\ promise' = promise
  /\ request' = [request EXCEPT ![r] = w]
  /\ w.pc \in {"address", "native"}
  /\ w.pc = "address" => w.awaits = isaIOR
  /\ isaIOR' = isaIOR
  /\ objectNotFoundCount' = objectNotFoundCount

Answered(r, p) ==
  /\ Pending(r)
  /\ promise' = [promise EXCEPT ![r] = p]
  /\ p.state \in {"fetching", "resolved", "rejected"}
  /\ request' = request
  /\ isaIOR' \in {isaIOR, r}
  /\ objectNotFoundCount' \in {objectNotFoundCount, 0}

LooksUp(r, p, o) ==
  /\ request[r].pc \in {"idle", "native", "refused"}
  /\ promise' = [promise EXCEPT ![r] = p]
  /\ p.state \in {"fetching", "resolved", "linked"}
  /\ p.state = "linked" => /\ Quiet
                           /\ isaIOR # None
                           /\ p.on = isaIOR
                           /\ Pending(isaIOR)
  /\ request' = [request EXCEPT ![r] = AwaitReference(o)]
  /\ isaIOR' = r
  /\ objectNotFoundCount' <= MissLimit

Shape(r) ==
  \/ \E w : Ends(r, w)
  \/ \E w : GoesOn(r, w)
  \/ \E p : Answered(r, p)
  \/ \E p, o : LooksUp(r, p, o)

LEMMA GetISAReferenceShape ==
  ASSUME NEW r \in Requests, NEW o, NEW list, NEW ior \in {isaIOR, None},
         NEW k, NEW misses, ior = None \/ Quiet,
         request[r].pc \in {"idle", "native", "refused"},
         GetISAReference(r, o, list, ior, k, misses)
  PROVE  Shape(r)
<1>1. CASE GiveUp(r, o, k)
  <2>1. Ends(r, Refused(o))
    BY <1>1 DEF GiveUp, Ends, Refused
  <2>. QED
    BY <2>1 DEF Shape
<1>2. CASE misses <= MissLimit /\ Obtain(r, o, list, ior, k, misses)
  <2>. DEFINE p == Chained(list, ior, k)
  <2>1. p.state \in {"fetching", "resolved", "linked"}
    BY DEF Chained, Fetching, Resolved, Linked
  <2>2. p.state = "linked" =>
          Quiet /\ isaIOR # None /\ p.on = isaIOR /\ Pending(isaIOR)
    BY DEF Chained, Fetching, Resolved, Linked
  <2>3. LooksUp(r, p, o)
    BY <1>2, <2>1, <2>2 DEF Obtain, LooksUp
  <2>. QED
    BY <2>3 DEF Shape
<1>. QED
  BY <1>1, <1>2 DEF GetISAReference

(* Every action has one of the shapes. *)
LEMMA ActionShape ==
  ASSUME TypeOK, NEW r \in Requests, Client(r) \/ Http(r) \/ Native(r) \/ Job(r)
  PROVE  Shape(r)
<1>1. ASSUME NEW list \in Lists, Connect(r, list)
      PROVE  Shape(r)
  BY <1>1, GetISAReferenceShape DEF Connect
<1>2. ASSUME NEW o \in Ops, Call(r, o)
      PROVE  Shape(r)
  BY <1>2, GetISAReferenceShape DEF Call
<1>3. CASE Http(r)
  <2>1. ASSUME NEW v \in Iors, HttpOk(r, v)
        PROVE  Shape(r)
    <3>1. Answered(r, Resolved(v))
      BY <2>1 DEF HttpOk, Answered, Pending, Resolved, connection
    <3>. QED
      BY <3>1 DEF Shape
  <2>2. CASE HttpFailover(r)
    <3>. DEFINE p == Fetching(stickyRef[IndexIn(stickyRef, NextRobin(robin))],
                              promise[r].count + 1)
    <3>1. p.state = "fetching"
      BY DEF Fetching
    <3>2. Answered(r, p)
      BY <2>2, <3>1 DEF HttpFailover, NestedLookup, Answered, Pending
    <3>. QED
      BY <3>2 DEF Shape
  <2>3. CASE HttpExhausted(r)
    <3>1. Answered(r, Rejected)
      BY <2>3 DEF HttpExhausted, Answered, Pending, Rejected, connection
    <3>. QED
      BY <3>1 DEF Shape
  <2>. QED
    BY <1>3, <2>1, <2>2, <2>3 DEF Http
<1>4. CASE Native(r)
  <2>1. CASE NativeReturns(r)
    <3>. DEFINE w == AwaitAddress(request[r].op, request[r].left - 1, isaIOR)
    <3>1. request[r].left > 1 => GoesOn(r, w)
      BY <2>1 DEF NativeReturns, GoesOn, AwaitAddress, connection, TypeOK
    <3>2. ~(request[r].left > 1) => Ends(r, Idle)
      BY <2>1 DEF NativeReturns, Ends, connection, TypeOK, Idle
    <3>. QED
      BY <3>1, <3>2 DEF Shape
  <2>2. CASE NativeThrows(r)
    <3>1. Ends(r, Idle)
      BY <2>2 DEF NativeThrows, Ends, Idle, connection
    <3>. QED
      BY <3>1 DEF Shape
  <2>3. CASE NativeTransient(r) /\ ResetAndThrow(r)
    <3>1. Ends(r, Idle)
      BY <2>3 DEF NativeTransient, ResetAndThrow, Ends, Idle
    <3>. QED
      BY <3>1 DEF Shape
  <2>4. CASE NativeTransient(r) /\ ResetAndRetry(r, "ping")
    BY <2>4, GetISAReferenceShape DEF NativeTransient, ResetAndRetry
  <2>5. CASE NativeNotExist(r)
    BY <2>5, GetISAReferenceShape DEF NativeNotExist, ResetAndRetry
  <2>. QED
    BY <1>4, <2>1, <2>2, <2>3, <2>4, <2>5 DEF Native, NativeTransient
<1>5. CASE Job(r)
  <2>1. CASE RelayResolved(r)
    <3>1. Answered(r, Resolved(promise[promise[r].on].ior))
      BY <2>1 DEF RelayResolved, Answered, Pending, Resolved, connection
    <3>. QED
      BY <3>1 DEF Shape
  <2>2. CASE RelayRejected(r)
    <3>. DEFINE p == IF promise[r].index <= Len(stickyRef)
                       THEN Fetching(stickyRef[promise[r].index], 1)
                       ELSE Rejected
    <3>1. p.state \in {"fetching", "rejected"}
      BY DEF Fetching, Rejected
    <3>2. Answered(r, p)
      BY <2>2, <3>1 DEF RelayRejected, Answered, Pending, connection
    <3>. QED
      BY <3>2 DEF Shape
  <2>3. CASE ReferenceReturns(r)
    <3>. DEFINE w == AwaitAddress(request[r].op, request[r].left, isaIOR)
    <3>1. request[r].op # "connect" => GoesOn(r, w)
      BY <2>3 DEF ReferenceReturns, GoesOn, AwaitAddress, Settled, connection, TypeOK
    <3>2. request[r].op = "connect" => Ends(r, Idle)
      BY <2>3 DEF ReferenceReturns, Ends, Settled, connection, TypeOK, Idle
    <3>. QED
      BY <3>1, <3>2 DEF Shape
  <2>4. CASE ReferenceThrows(r) \/ AddressThrows(r) \/ AddressNull(r)
    <3>1. Ends(r, Idle)
      BY <2>4 DEF ReferenceThrows, AddressThrows, AddressNull, Ends, Settled,
                  Idle, connection
    <3>. QED
      BY <3>1 DEF Shape
  <2>5. CASE AddressKnown(r)
    <3>. DEFINE w == InNative(request[r].op, request[r].left,
                              promise[request[r].awaits].ior)
    <3>1. w.pc = "native"
      BY DEF InNative
    <3>2. GoesOn(r, w)
      BY <2>5, <3>1 DEF AddressKnown, GoesOn, connection, TypeOK
    <3>. QED
      BY <3>2 DEF Shape
  <2>6. CASE GuardThrows(r) /\ request[r].op = "connect"
    <3>1. Ends(r, Idle)
      BY <2>6 DEF GuardThrows, Ends, Idle
    <3>. QED
      BY <3>1 DEF Shape
  <2>7. CASE GuardThrows(r) /\ request[r].op # "connect"
    BY <2>7, GetISAReferenceShape DEF GuardThrows, ResetAndRetry
  <2>. QED
    BY <1>5, <2>1, <2>2, <2>3, <2>4, <2>5, <2>6, <2>7 DEF Job
<1>. QED
  BY <1>1, <1>2, <1>3, <1>4, <1>5 DEF Client

LEMMA StepShape == TypeOK /\ Next => \E r \in Requests : Shape(r)
BY ActionShape DEF Next

-----------------------------------------------------------------------------
(* The links between promises have no cycle: the promises can be ranked so *)
(* that each waits for one of a lower rank.                                *)
Descends(rank) ==
  \A q \in Requests : promise[q].state = "linked" => rank[promise[q].on] < rank[q]
Ranked == \E rank \in [Requests -> Nat] : Descends(rank)

(* The guard is consulted after every increment of the counter. *)
MissesWithinLimit == objectNotFoundCount <= MissLimit

(* The inductive invariant. *)
IInv == /\ TypeOK
        /\ Anchored
        /\ NoOrphanLookup
        /\ MissesWithinLimit
        /\ Ranked

LEMMA LinkedOn ==
  ASSUME TypeOK, NEW q \in Requests, promise[q].state = "linked"
  PROVE  promise[q].on \in Requests
<1>1. promise[q] \in PromiseType
  BY DEF TypeOK
<1>. QED
  BY <1>1 DEF PromiseType, NoPromise, Rejected

LEMMA FourStates ==
  ASSUME TypeOK, NEW q \in Requests
  PROVE  \/ ~Created(q)
         \/ Pending(q) /\ ~Settled(q)
         \/ Settled(q) /\ ~Pending(q)
<1>1. promise[q] \in PromiseType
  BY DEF TypeOK
<1>. QED
  BY <1>1 DEF PromiseType, NoPromise, Rejected, Created, Pending, Settled

LEMMA AnchoredStep ==
  ASSUME TypeOK, Anchored, NEW r \in Requests, Shape(r)
  PROVE  Anchored'
<1>0. ASSUME NEW q \in Requests
      PROVE  promise[q].state = "linked" => promise[q].on \in Requests
  BY LinkedOn
<1>1. ASSUME NEW w, Ends(r, w)
      PROVE  Anchored'
  BY <1>1 DEF Ends, Anchored, Created, TypeOK
<1>2. ASSUME NEW w, GoesOn(r, w)
      PROVE  Anchored'
  BY <1>2 DEF GoesOn, Anchored, Created, TypeOK
<1>3. ASSUME NEW p, Answered(r, p)
      PROVE  Anchored'
  BY <1>0, <1>3 DEF Answered, Anchored, Created, TypeOK
<1>4. ASSUME NEW p, NEW o, LooksUp(r, p, o)
      PROVE  Anchored'
  BY <1>0, <1>4 DEF LooksUp, Anchored, Created, TypeOK, AwaitReference, Pending
<1>. QED
  BY <1>1, <1>2, <1>3, <1>4 DEF Shape

LEMMA NoOrphanStep ==
  ASSUME TypeOK, NoOrphanLookup, NEW r \in Requests, Shape(r)
  PROVE  NoOrphanLookup'
<1>1. ASSUME NEW w, Ends(r, w)
      PROVE  NoOrphanLookup'
  BY <1>1, FourStates DEF Ends, NoOrphanLookup, Pending, Settled, TypeOK
<1>2. ASSUME NEW w, GoesOn(r, w)
      PROVE  NoOrphanLookup'
  BY <1>2, FourStates DEF GoesOn, NoOrphanLookup, Pending, Settled, TypeOK
<1>3. ASSUME NEW p, Answered(r, p)
      PROVE  NoOrphanLookup'
  BY <1>3 DEF Answered, NoOrphanLookup, Pending, TypeOK
<1>4. ASSUME NEW p, NEW o, LooksUp(r, p, o)
      PROVE  NoOrphanLookup'
  BY <1>4 DEF LooksUp, NoOrphanLookup, Pending, TypeOK, AwaitReference
<1>. QED
  BY <1>1, <1>2, <1>3, <1>4 DEF Shape

LEMMA MissesStep ==
  ASSUME TypeOK, MissesWithinLimit, NEW r \in Requests, Shape(r)
  PROVE  MissesWithinLimit'
  BY ReferenceAssumption
  DEF Shape, Ends, GoesOn, Answered, LooksUp, MissesWithinLimit, TypeOK

LEMMA RankedStep ==
  ASSUME TypeOK, Anchored, NoOrphanLookup, Ranked, NEW r \in Requests, Shape(r)
  PROVE  Ranked'
<1>1. PICK rank \in [Requests -> Nat] : Descends(rank)
  BY DEF Ranked
<1>2. CASE \E w : Ends(r, w) \/ GoesOn(r, w)
  <2>1. promise' = promise
    BY <1>2 DEF Ends, GoesOn
  <2>. QED
    BY <1>1, <2>1 DEF Ranked, Descends
(* A promise that is not a link adds none. *)
<1>3. ASSUME NEW p, p.state # "linked", promise' = [promise EXCEPT ![r] = p]
      PROVE  Ranked'
  <2>1. \A q \in Requests : promise'[q].state = "linked" => promise'[q] = promise[q]
    BY <1>3 DEF TypeOK
  <2>2. Descends(rank)'
    BY <1>1, <2>1 DEF Descends
  <2>. QED
    BY <2>2 DEF Ranked
(* A new link goes to a pending promise q, and nobody waits for r yet:     *)
(* its rank can be raised above that of q.                                 *)
<1>4. ASSUME NEW p, NEW o, LooksUp(r, p, o), p.state = "linked"
      PROVE  Ranked'
  <2>. DEFINE q == p.on
              rank1 == [rank EXCEPT ![r] = rank[q] + 1]
  <2>1. q \in Requests /\ Pending(q) /\ ~Pending(r) /\ q # r
    BY <1>4 DEF LooksUp, NoOrphanLookup, TypeOK
  <2>2. rank1 \in [Requests -> Nat] /\ rank1[r] = rank[q] + 1
    BY <2>1
  <2>3. ASSUME NEW s \in Requests, s # r, promise[s].state = "linked"
        PROVE  promise[s].on # r
    <3>1. SUFFICES ASSUME promise[s].on = r  PROVE FALSE
      OBVIOUS
    <3>2. Settled(r)
      BY <2>1, <2>3, <3>1, FourStates DEF Anchored
    <3>3. Ready(s)
      BY <2>3, <3>1, <3>2 DEF Ready
    <3>. QED
      BY <1>4, <3>3 DEF LooksUp, Quiet
  <2>4. ASSUME NEW s \in Requests, promise'[s].state = "linked"
        PROVE  rank1[promise'[s].on] < rank1[s]
    <3>1. CASE s = r
      <4>1. promise'[s] = p
        BY <1>4, <3>1 DEF LooksUp, TypeOK
      <4>. QED
        BY <2>1, <2>2, <3>1, <4>1
    <3>2. CASE s # r
      <4>1. promise'[s] = promise[s]
        BY <1>4, <3>2 DEF LooksUp, TypeOK
      <4>2. promise[s].on \in Requests /\ promise[s].on # r
        BY <2>3, <2>4, <3>2, <4>1, LinkedOn
      <4>3. rank1[promise[s].on] = rank[promise[s].on] /\ rank1[s] = rank[s]
        BY <3>2, <4>2
      <4>. QED
        BY <1>1, <2>4, <4>1, <4>3 DEF Descends
    <3>. QED
      BY <3>1, <3>2
  <2>5. Descends(rank1)'
    BY <2>4 DEF Descends
  <2>. QED
    BY <2>2, <2>5 DEF Ranked
<1>. QED
  BY <1>2, <1>3, <1>4 DEF Shape, Answered, LooksUp

-----------------------------------------------------------------------------
LEMMA InvInit == Init => IInv
<1> SUFFICES ASSUME Init  PROVE IInv
  OBVIOUS
<1>1. TypeOK
  <2>1. NoPromise \in PromiseType /\ Idle \in RequestType
    BY DEF PromiseType, RequestType
  <2>2. 0 \in 0 .. RobinModulus - 1 /\ DefaultList \in Lists
    BY ReferenceAssumption
  <2>. QED
    BY <2>1, <2>2 DEF Init, TypeOK
<1>2. Anchored /\ NoOrphanLookup /\ MissesWithinLimit
  BY ReferenceAssumption
  DEF Init, Anchored, NoOrphanLookup, MissesWithinLimit, Pending, NoPromise, Idle
<1>3. Ranked
  <2>. DEFINE rank == [q \in Requests |-> 0]
  <2>1. rank \in [Requests -> Nat] /\ Descends(rank)
    BY DEF Init, Descends, NoPromise
  <2>. QED
    BY <2>1 DEF Ranked
<1>. QED
  BY <1>1, <1>2, <1>3 DEF IInv

LEMMA InvStep == IInv /\ [Next]_vars => IInv'
<1> SUFFICES ASSUME IInv, [Next]_vars  PROVE IInv'
  OBVIOUS
<1>1. CASE UNCHANGED vars
  BY <1>1 DEF IInv, vars, TypeOK, Anchored, Created, NoOrphanLookup, Pending,
              MissesWithinLimit, Ranked, Descends
<1>2. CASE Next
  <2>1. TypeOK'
    BY TypeStep DEF IInv
  <2>2. PICK r \in Requests : Shape(r)
    BY <1>2, StepShape DEF IInv
  <2>. QED
    BY <2>1, <2>2, AnchoredStep, NoOrphanStep, MissesStep, RankedStep DEF IInv
<1>. QED
  BY <1>1, <1>2

LEMMA Invariance == Spec => []IInv
  BY InvInit, InvStep, PTL DEF Spec

(* A set of natural numbers that is not empty has a least member. *)
LEMMA NatIsWellFounded == IsWellFoundedOn({ss \in Nat \X Nat : ss[1] < ss[2]}, Nat)
  BY NatLessThanWellFounded DEF OpToRel

LEMMA LeastMember ==
  ASSUME NEW T \in SUBSET Nat, T # {}
  PROVE  \E m \in T : \A n \in T : m <= n
<1>. DEFINE R == {ss \in Nat \X Nat : ss[1] < ss[2]}
<1>0. IsWellFoundedOn(R, Nat)
  BY NatIsWellFounded
<1>. HIDE DEF R
<1>1. PICK m \in T : \A n \in T : ~(<< n, m >> \in R)
  BY <1>0, WFMin
<1>2. \A n \in T : ~(n < m)
  BY <1>1 DEF R
<1>. QED
  BY <1>2

(* When the jobs are drained, whoever waits waits for a pending promise,   *)
(* and of the pending promises one of lowest rank has nothing to wait for  *)
(* but its own HTTP request.                                               *)
LEMMA ServedInQuiet == IInv => WaitersAreServed
<1> SUFFICES ASSUME IInv, Quiet, NEW r \in Requests, Waiting(r)
             PROVE  \E q \in Requests : promise[q].state = "fetching"
  BY DEF WaitersAreServed
<1>1. \E q \in Requests : Pending(q)
  <2>1. CASE request[r].pc = "reference"
    BY <2>1, FourStates DEF IInv, Anchored, Quiet, Ready
  <2>2. CASE request[r].pc = "address"
    <3>1. request[r].awaits # None /\ ~Settled(request[r].awaits)
      BY <2>2 DEF Quiet, Ready
    <3>2. request[r].awaits \in Requests
      BY <2>2, <3>1 DEF IInv, TypeOK, RequestType, Idle
    <3>. QED
      BY <2>2, <3>1, <3>2, FourStates DEF IInv, Anchored
  <2>. QED
    BY <2>1, <2>2 DEF Waiting
<1>2. PICK rank \in [Requests -> Nat] : Descends(rank)
  BY DEF IInv, Ranked
<1>. DEFINE T == {rank[q] : q \in {s \in Requests : Pending(s)}}
<1>3. PICK m \in T : \A n \in T : m <= n
  <2>1. T \in SUBSET Nat /\ T # {}
    BY <1>1
  <2>. QED
    BY <2>1, LeastMember
<1>4. PICK q \in Requests : Pending(q) /\ rank[q] = m
  BY <1>3
<1>5. ASSUME promise[q].state = "linked"  PROVE FALSE
  <2>. DEFINE p == promise[q].on
  <2>1. p \in Requests /\ Created(p)
    BY <1>5, LinkedOn DEF IInv, Anchored
  <2>2. Pending(p)
    BY <1>5, <2>1, FourStates DEF IInv, Quiet, Ready
  <2>3. rank[p] < rank[q] /\ rank[p] \in T
    BY <1>2, <1>5, <2>1, <2>2 DEF Descends
  <2>4. rank[p] \in Nat /\ rank[q] \in Nat
    BY <2>1
  <2>. QED
    BY <1>3, <1>4, <2>3, <2>4
<1>. QED
  BY <1>4, <1>5 DEF Pending
-----------------------------------------------------------------------------
(* The variables keep their types; in particular no promise resolves to    *)
(* anything but a reference that an ISA advertised, and an index into the  *)
(* address list that a replaced list no longer has is never used.          *)
THEOREM TypeCorrect == Spec => []TypeOK
<1>1. IInv => TypeOK
  BY DEF IInv
<1>. QED
  BY <1>1, Invariance, PTL

(* No lookup outlives the request that made it. *)
THEOREM NoOrphan == Spec => []NoOrphanLookup
<1>1. IInv => NoOrphanLookup
  BY DEF IInv
<1>. QED
  BY <1>1, Invariance, PTL

(* Whatever the order of resets, reconnections and answers, promises never *)
(* wait for each other in a circle: if some request waits when the jobs    *)
(* are drained, an HTTP request is outstanding.                            *)
THEOREM WaitersServed == Spec => []WaitersAreServed
  BY Invariance, ServedInQuiet, PTL

-----------------------------------------------------------------------------
(* The count of a lookup.  A step gives one promise at most a new count:   *)
(* that of a first try, or of a nested lookup, which looked at stickyRef.  *)
Counts(n) == n \in {0, 1} \/ (n \in Nat /\ n <= Len(stickyRef))

LEMMA LookupCounts ==
  ASSUME NEW r \in Requests, NEW o, NEW list, NEW ior, NEW k, NEW misses,
         GetISAReference(r, o, list, ior, k, misses)
  PROVE  \/ promise' = promise
         \/ \E p : promise' = [promise EXCEPT ![r] = p] /\ Counts(p.count)
<1>1. Counts(Chained(list, ior, k).count)
  BY DEF Chained, Fetching, Linked, Resolved, Counts
<1>. QED
  BY <1>1 DEF GetISAReference, GiveUp, Obtain

LEMMA StepCounts ==
  ASSUME TypeOK, NEW r \in Requests, Client(r) \/ Http(r) \/ Native(r) \/ Job(r)
  PROVE  \/ promise' = promise
         \/ \E p : promise' = [promise EXCEPT ![r] = p] /\ Counts(p.count)
<1>1. CASE Client(r)
  BY <1>1, LookupCounts DEF Client, Connect, Call
<1>2. CASE Http(r)
  <2>1. ASSUME NEW v \in Iors, HttpOk(r, v)
        PROVE  \E p : promise' = [promise EXCEPT ![r] = p] /\ Counts(p.count)
    <3>1. Counts(Resolved(v).count)
      BY DEF Resolved, Counts
    <3>. QED
      BY <2>1, <3>1 DEF HttpOk
  <2>2. CASE HttpFailover(r)
    <3>. DEFINE p == Fetching(stickyRef[IndexIn(stickyRef, NextRobin(robin))],
                              promise[r].count + 1)
    <3>1. promise' = [promise EXCEPT ![r] = p]
      BY <2>2 DEF HttpFailover, NestedLookup
    <3>2. promise[r].count \in Nat /\ promise[r].count < Len(stickyRef)
      BY <2>2 DEF HttpFailover, TypeOK, PromiseType, NoPromise, Rejected
    <3>3. Len(stickyRef) \in Nat
      BY ListAccess, 0 \in Nat DEF TypeOK
    <3>4. Counts(p.count)
      BY <3>2, <3>3 DEF Fetching, Counts
    <3>. QED
      BY <3>1, <3>4
  <2>3. CASE HttpExhausted(r)
    <3>1. Counts(Rejected.count)
      BY DEF Rejected, Counts
    <3>. QED
      BY <2>3, <3>1 DEF HttpExhausted
  <2>. QED
    BY <1>2, <2>1, <2>2, <2>3 DEF Http
<1>3. CASE Native(r)
  BY <1>3, LookupCounts
  DEF Native, NativeReturns, NativeThrows, NativeTransient, NativeNotExist,
      ResetAndThrow, ResetAndRetry
<1>4. CASE Job(r)
  <2>1. CASE RelayResolved(r)
    <3>1. Counts(Resolved(promise[promise[r].on].ior).count)
      BY DEF Resolved, Counts
    <3>. QED
      BY <2>1, <3>1 DEF RelayResolved
  <2>2. CASE RelayRejected(r)
    <3>. DEFINE p == IF promise[r].index <= Len(stickyRef)
                       THEN Fetching(stickyRef[promise[r].index], 1)
                       ELSE Rejected
    <3>1. Counts(p.count)
      BY DEF Fetching, Rejected, Counts
    <3>2. promise' = [promise EXCEPT ![r] = p]
      BY <2>2 DEF RelayRejected
    <3>. QED
      BY <3>1, <3>2
  <2>3. CASE GuardThrows(r)
    BY <2>3, LookupCounts DEF GuardThrows, ResetAndRetry
  <2>4. CASE ReferenceReturns(r) \/ ReferenceThrows(r) \/ AddressKnown(r)
               \/ AddressThrows(r) \/ AddressNull(r)
    BY <2>4 DEF ReferenceReturns, ReferenceThrows, AddressKnown, AddressThrows,
                AddressNull
  <2>. QED
    BY <1>4, <2>1, <2>2, <2>3, <2>4 DEF Job
<1>. QED
  BY <1>1, <1>2, <1>3, <1>4

LEMMA CountFits ==
  ASSUME TypeOK, NEW n, Counts(n)
  PROVE  \E list \in Lists : n <= Len(list)
<1>1. stickyRef \in Lists /\ Len(stickyRef) \in Nat \ {0}
  BY ListAccess, 0 \in Nat DEF TypeOK
<1>2. n <= Len(stickyRef)
  BY <1>1 DEF Counts
<1>. QED
  BY <1>1, <1>2

LEMMA FailoverInit == Init => FailoverBounded
<1> SUFFICES ASSUME Init  PROVE FailoverBounded
  OBVIOUS
<1>1. TypeOK
  BY InvInit DEF IInv
<1>2. \A r \in Requests : Counts(promise[r].count)
  BY DEF Init, NoPromise, Counts
<1>. QED
  BY <1>1, <1>2, CountFits DEF FailoverBounded

LEMMA FailoverStep == TypeOK /\ FailoverBounded /\ [Next]_vars => FailoverBounded'
<1> SUFFICES ASSUME TypeOK, FailoverBounded, [Next]_vars  PROVE FailoverBounded'
  OBVIOUS
<1>1. CASE promise' = promise
  BY <1>1 DEF FailoverBounded
<1>2. ASSUME NEW r \in Requests, NEW p, promise' = [promise EXCEPT ![r] = p],
             Counts(p.count)
      PROVE  FailoverBounded'
  <2>1. \E list \in Lists : p.count <= Len(list)
    BY <1>2, CountFits
  <2>2. promise \in [Requests -> PromiseType]
    BY DEF TypeOK
  <2>. QED
    BY <1>2, <2>1, <2>2 DEF FailoverBounded
<1>. QED
  BY <1>1, <1>2, StepCounts DEF Next, vars

(* A lookup asks no more addresses than the longest list has that clients  *)
(* ever gave, whatever resets and reconnections change under it            *)
(* (getISAReference, index.ts:456-475).                                    *)
THEOREM LookupsBounded == Spec => []FailoverBounded
<1>1. IInv => TypeOK
  BY DEF IInv
<1>. QED
  BY <1>1, Invariance, FailoverInit, FailoverStep, PTL DEF Spec

=============================================================================
