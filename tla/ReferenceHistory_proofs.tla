----------------------- MODULE ReferenceHistory_proofs -----------------------
(***************************************************************************)
(* Proofs about ReferenceHistory, for any number of requests and any       *)
(* address lists: that requests share one lookup (LookupsCoalesce), whose  *)
(* inductive invariant says that the pending lookups stand in line, and    *)
(* that a lookup gives up only after it asked all addresses                *)
(* (GivesUpAfterAll), which rests on the arithmetic of the round robin.    *)
(***************************************************************************)
EXTENDS ReferenceHistory, IsaReference_proofs

(* The history variables only watch: every step is one of IsaReference,    *)
(* so that its invariant carries over.                                     *)
LEMMA HistoryStepIsStep == [HistoryNext]_hvars => [Next]_vars
  BY DEF HistoryNext, hvars

LEMMA HistoryInvariance == HistorySpec => []IInv
<1>1. HistoryInit => IInv
  BY InvInit DEF HistoryInit
<1>2. IInv /\ [HistoryNext]_hvars => IInv'
  BY InvStep, HistoryStepIsStep
<1>. QED
  BY <1>1, <1>2, PTL DEF HistorySpec

Acts(r) == Client(r) \/ Http(r) \/ Native(r) \/ Job(r)

LEMMA RobinMoves ==
  ASSUME TypeOK
  PROVE  NextRobin(robin) # robin
<1>1. robin \in 0 .. RobinModulus - 1 /\ RobinModulus \in Nat /\ RobinModulus > 1
  BY ReferenceAssumption, HistoryAssumption DEF TypeOK
<1>2. ASSUME NEW n \in Nat, n > 1, NEW k \in 0 .. n - 1
      PROVE  (k + 1) % n # k
  <2>1. CASE k + 1 < n
    <3>1. (k + 1) % n = k + 1
      BY <1>2, <2>1
    <3>. QED
      BY <3>1
  <2>2. CASE k + 1 = n
    <3>1. n % n = 0
      BY <1>2
    <3>. QED
      BY <1>2, <2>2, <3>1
  <2>. QED
    BY <1>2, <2>1, <2>2
<1>. QED
  BY <1>1, <1>2 DEF NextRobin
-----------------------------------------------------------------------------
(* The pending lookups stand in line: each but the first waits for the one *)
(* just before it, isaIOR holds the last one, and only the first can be    *)
(* fetching.                                                               *)
Front(p) ==
  \/ promise[p].state = "fetching"
  \/ promise[p].state = "linked" /\ Settled(promise[p].on)

Distinct(pos) ==
  \A p, q \in Requests : Pending(p) /\ Pending(q) /\ pos[p] = pos[q] => p = q

LastIsKept(pos) ==
  \A p \in Requests :
    Pending(p) => isaIOR # None /\ Pending(isaIOR) /\ pos[p] <= pos[isaIOR]

FrontFirst(pos) ==
  \A p, q \in Requests : Front(p) /\ Pending(q) => pos[p] <= pos[q]

JustBehind(pos) ==
  \A p \in Requests :
    promise[p].state = "linked" /\ Pending(promise[p].on) =>
      /\ pos[promise[p].on] < pos[p]
      /\ \A q \in Requests :
           Pending(q) /\ pos[q] < pos[p] => pos[q] <= pos[promise[p].on]

Order(pos) ==
  Distinct(pos) /\ LastIsKept(pos) /\ FrontFirst(pos) /\ JustBehind(pos)

Line == \E pos \in [Requests -> Nat] : Order(pos)
InLine == calm => Line

(* The steps that do not unsettle: nothing changes for the lookups; or the *)
(* first in line goes on; or a new lookup joins the line.                  *)
Keeps == promise' = promise /\ isaIOR' = isaIOR

Advances(r, p) ==
  /\ Front(r)
  /\ p.state \in {"fetching", "resolved", "rejected"}
  /\ promise' = [promise EXCEPT ![r] = p]
  /\ isaIOR' = isaIOR

Joins(r, p) ==
  /\ Quiet
  /\ ~Pending(r)
  /\ promise' = [promise EXCEPT ![r] = p]
  /\ isaIOR' = r
  /\ isaIOR # None /\ Pending(isaIOR) => p.state = "linked" /\ p.on = isaIOR

LEMMA RetryUnsettles ==
  ASSUME TypeOK, NEW r \in Requests, NEW o, ResetAndRetry(r, o)
  PROVE  Unsettles
  BY RobinMoves DEF ResetAndRetry, GetISAReference, GiveUp, Obtain, Unsettles

LEMMA SettledStep ==
  ASSUME TypeOK, NoOrphanLookup, NEW r \in Requests, Acts(r), ~Unsettles
  PROVE  Keeps \/ \E p : Advances(r, p) \/ Joins(r, p)
<1>0. /\ \A o : ~ResetAndRetry(r, o)
      /\ ~ResetAndThrow(r)
  <2>1. ~ResetAndThrow(r)
    BY DEF ResetAndThrow, Unsettles
  <2>. QED
    BY <2>1, RetryUnsettles
<1>1. ASSUME NEW list \in Lists, Connect(r, list)
      PROVE  FALSE
  <2>1. request'[r].op = "connect"
    BY <1>1 DEF Connect, GetISAReference, GiveUp, Obtain, TypeOK, Refused,
                AwaitReference
  <2>. QED
    BY <1>1, <2>1 DEF Connect, Unsettles
<1>2. ASSUME NEW o \in Ops, Call(r, o)
      PROVE  \E p : Joins(r, p)
  <2>. DEFINE p == Chained(stickyRef, isaIOR, robin)
  <2>1. isaIOR' # None
    BY DEF Unsettles
  <2>2. Obtain(r, o, stickyRef, isaIOR, robin, objectNotFoundCount)
    BY <1>2, <2>1 DEF Call, GetISAReference, GiveUp
  <2>3. ~Pending(r)
    BY <1>2 DEF NoOrphanLookup, Call
  <2>4. isaIOR # None /\ Pending(isaIOR) => p.state = "linked" /\ p.on = isaIOR
    BY DEF Chained, Pending, Linked
  <2>5. Joins(r, p)
    BY <1>2, <2>2, <2>3, <2>4 DEF Obtain, Call, Joins
  <2>. QED
    BY <2>5
<1>3. CASE Http(r)
  <2>1. ASSUME NEW v \in Iors, HttpOk(r, v)
        PROVE  Advances(r, Resolved(v))
    BY <2>1 DEF HttpOk, Advances, Front, Resolved, connection
  <2>2. ~HttpFailover(r)
    BY RobinMoves DEF HttpFailover, NestedLookup, Unsettles
  <2>3. CASE HttpExhausted(r)
    <3>1. Advances(r, Rejected)
      BY <2>3 DEF HttpExhausted, Advances, Front, Rejected, connection
    <3>. QED
      BY <3>1
  <2>. QED
    BY <1>3, <2>1, <2>2, <2>3 DEF Http
<1>4. CASE Native(r)
  BY <1>0, <1>4
  DEF Native, NativeReturns, NativeThrows, NativeTransient, NativeNotExist,
      Keeps, connection
<1>5. CASE Job(r)
  <2>1. CASE RelayResolved(r)
    <3>1. Advances(r, Resolved(promise[promise[r].on].ior))
      BY <2>1 DEF RelayResolved, Advances, Front, Settled, Resolved, connection
    <3>. QED
      BY <3>1
  <2>2. CASE RelayRejected(r)
    <3>. DEFINE p == IF promise[r].index <= Len(stickyRef)
                       THEN Fetching(stickyRef[promise[r].index], 1)
                       ELSE Rejected
    <3>1. p.state \in {"fetching", "rejected"}
      BY DEF Fetching, Rejected
    <3>2. Advances(r, p)
      BY <2>2, <3>1 DEF RelayRejected, Advances, Front, Settled, connection
    <3>. QED
      BY <3>2
  <2>3. CASE GuardThrows(r)
    BY <1>0, <2>3 DEF GuardThrows, Keeps
  <2>. QED
    BY <1>5, <2>1, <2>2, <2>3
    DEF Job, ReferenceReturns, ReferenceThrows, AddressKnown, AddressThrows,
        AddressNull, Keeps, connection
<1>. QED
  BY <1>1, <1>2, <1>3, <1>4, <1>5 DEF Acts, Client

(* Nobody in line yet: the step leaves at most one lookup. *)
LEMMA FirstInLine ==
  ASSUME TypeOK, NEW r \in Requests, Shape(r), \A q \in Requests : ~Pending(q)
  PROVE  Line'
<1>1. \/ promise' = promise
      \/ \E p : /\ promise' = [promise EXCEPT ![r] = p]
                /\ isaIOR' = r
                /\ p.state # "linked"
  BY DEF Shape, Ends, GoesOn, Answered, LooksUp, TypeOK
<1>2. ASSUME NEW q \in Requests
      PROVE  /\ promise'[q].state # "linked"
             /\ promise'[q].state = "fetching" => q = r /\ isaIOR' = r
  BY <1>1 DEF TypeOK, Pending
<1>3. r # None
  BY ReferenceAssumption
<1>. DEFINE pos == [q \in Requests |-> 0]
<1>4. pos \in [Requests -> Nat] /\ \A q \in Requests : pos[q] = 0
  OBVIOUS
<1>. HIDE DEF pos
<1>5. Distinct(pos)' /\ LastIsKept(pos)'
  BY <1>2, <1>3, <1>4 DEF Distinct, LastIsKept, Pending
<1>6. FrontFirst(pos)' /\ JustBehind(pos)'
  BY <1>2, <1>4 DEF FrontFirst, JustBehind, Front, Pending
<1>. QED
  BY <1>4, <1>5, <1>6 DEF Line, Order

(* The first in line goes on: those behind it keep their places. *)
LEMMA LineAdvances ==
  ASSUME TypeOK, NEW pos \in [Requests -> Nat], Order(pos), NEW r \in Requests,
         NEW p, Advances(r, p)
  PROVE  Order(pos)'
<1>1. /\ promise'[r] = p /\ p.state \in {"fetching", "resolved", "rejected"}
      /\ \A q \in Requests : q # r => promise'[q] = promise[q]
      /\ isaIOR' = isaIOR /\ Front(r) /\ isaIOR \in Requests \cup {None}
  BY DEF Advances, TypeOK
<1>2. Pending(r)
  BY <1>1 DEF Front, Pending
<1>3. \A q \in Requests : Pending(q)' => Pending(q)
  BY <1>1, <1>2 DEF Pending
<1>4. \A q \in Requests : Pending(q) => pos[r] <= pos[q]
  BY <1>1 DEF Order, FrontFirst
<1>5. \A q \in Requests : pos[q] \in Nat
  OBVIOUS
<1>6. \A q \in Requests : Pending(q) /\ pos[q] <= pos[r] => q = r
  BY <1>2, <1>4, <1>5 DEF Order, Distinct
<1>7. Distinct(pos)'
  BY <1>3 DEF Order, Distinct
<1>8. ASSUME NEW q \in Requests, Pending(q)'
      PROVE  isaIOR # None /\ Pending(isaIOR)' /\ pos[q] <= pos[isaIOR]
  <2>1. isaIOR # None /\ Pending(isaIOR) /\ pos[q] <= pos[isaIOR]
    BY <1>3, <1>8 DEF Order, LastIsKept
  <2>2. PICK last \in Requests : last = isaIOR
    BY <1>1, <2>1
  <2>3. CASE last = r
    <3>1. q = r
      BY <1>3, <1>6, <1>8, <2>1, <2>2, <2>3
    <3>. QED
      BY <1>1, <1>8, <2>1, <2>2, <2>3, <3>1 DEF Pending
  <2>4. CASE last # r
    BY <1>1, <2>1, <2>2, <2>4 DEF Pending
  <2>. QED
    BY <2>3, <2>4
<1>9. LastIsKept(pos)'
  BY <1>1, <1>8 DEF LastIsKept
<1>10. ASSUME NEW s \in Requests, NEW q \in Requests, Front(s)', Pending(q)'
       PROVE  pos[s] <= pos[q]
  <2>1. CASE s = r
    BY <1>3, <1>4, <1>10, <2>1
  <2>2. CASE s # r /\ Front(s)
    BY <1>3, <1>10, <2>2 DEF Order, FrontFirst
  <2>3. CASE s # r /\ ~Front(s)
    <3>1. promise'[s] = promise[s]
      BY <1>1, <2>3
    <3>2. promise[s].state = "linked" /\ ~Settled(promise[s].on)
      BY <1>10, <2>3, <3>1 DEF Front
    <3>3. PICK before \in Requests : before = promise[s].on
      BY <3>2, LinkedOn
    <3>4. Settled(before)'
      BY <1>10, <3>1, <3>2, <3>3 DEF Front
    <3>5. before = r
      BY <1>1, <3>2, <3>3, <3>4 DEF Settled
    <3>6. q # r
      BY <1>1, <1>10, <3>4, <3>5 DEF Pending, Settled
    <3>7. pos[q] < pos[s] => pos[q] <= pos[r]
      BY <1>2, <1>3, <1>10, <3>2, <3>3, <3>5 DEF Order, JustBehind
    <3>. QED
      BY <1>3, <1>5, <1>6, <1>10, <3>6, <3>7
  <2>. QED
    BY <2>1, <2>2, <2>3
<1>11. FrontFirst(pos)'
  BY <1>10 DEF FrontFirst
<1>12. ASSUME NEW s \in Requests, promise'[s].state = "linked"
       PROVE  promise'[s] = promise[s] /\ promise[s].on \in Requests
  <2>1. promise'[s] = promise[s]
    BY <1>1, <1>12
  <2>. QED
    BY <1>12, <2>1, LinkedOn
<1>13. ASSUME NEW s \in Requests, promise'[s].state = "linked",
              NEW before \in Requests, before = promise[s].on, Pending(before)'
       PROVE  /\ pos[before] < pos[s]
              /\ \A q \in Requests : Pending(q)' /\ pos[q] < pos[s] => pos[q] <= pos[before]
  BY <1>3, <1>12, <1>13 DEF Order, JustBehind
<1>14. JustBehind(pos)'
  BY <1>12, <1>13 DEF JustBehind
<1>. QED
  BY <1>7, <1>9, <1>11, <1>14 DEF Order

(* A new lookup joins: it comes behind the last one, and nobody waits for  *)
(* it yet.                                                                 *)
LEMMA LineIsJoined ==
  ASSUME TypeOK, Anchored, NEW pos \in [Requests -> Nat], Order(pos),
         NEW r \in Requests, NEW p, Joins(r, p), isaIOR # None, Pending(isaIOR)
  PROVE  Line'
<1>1. /\ promise'[r] = p /\ p.state = "linked" /\ p.on = isaIOR
      /\ \A q \in Requests : q # r => promise'[q] = promise[q]
      /\ isaIOR' = r /\ ~Pending(r) /\ r # None
  BY ReferenceAssumption DEF Joins, TypeOK
<1>2. PICK last \in Requests : last = isaIOR /\ Pending(last) /\ last # r
  BY <1>1 DEF TypeOK
<1>. DEFINE pos1 == [pos EXCEPT ![r] = pos[last] + 1]
<1>3. /\ pos1 \in [Requests -> Nat]
      /\ pos1[r] = pos[last] + 1
      /\ \A q \in Requests : q # r => pos1[q] = pos[q]
      /\ \A q \in Requests : pos[q] \in Nat
  OBVIOUS
<1>. HIDE DEF pos1
<1>4. \A q \in Requests : /\ Pending(q)' <=> q = r \/ Pending(q)
                          /\ Pending(q) => pos1[q] = pos[q] /\ pos[q] <= pos[last]
                          /\ Pending(q)' => pos1[q] <= pos1[r]
  <2>1. ASSUME NEW q \in Requests
        PROVE  Pending(q)' <=> q = r \/ Pending(q)
    BY <1>1 DEF Pending
  <2>2. ASSUME NEW q \in Requests, Pending(q)
        PROVE  pos1[q] = pos[q] /\ pos[q] <= pos[last]
    BY <1>1, <1>2, <1>3, <2>2 DEF Order, LastIsKept
  <2>. QED
    BY <1>3, <2>1, <2>2
<1>5. Distinct(pos1)'
  <2>1. ASSUME NEW s \in Requests, NEW q \in Requests, Pending(s)', Pending(q)',
               pos1[s] = pos1[q], s # r
        PROVE  s = q
    <3>1. pos1[s] < pos1[r] /\ Pending(s)
      BY <1>3, <1>4, <2>1
    <3>2. q # r /\ Pending(q)
      BY <1>3, <1>4, <2>1, <3>1
    <3>. QED
      BY <1>4, <2>1, <3>1, <3>2 DEF Order, Distinct
  <2>. QED
    BY <2>1 DEF Distinct
<1>6. LastIsKept(pos1)'
  BY <1>1, <1>4 DEF LastIsKept
<1>7. ASSUME NEW s \in Requests, s # r, promise[s].state = "linked"
      PROVE  promise[s].on \in Requests \ {r}
  <2>1. PICK before \in Requests : before = promise[s].on
    BY <1>7, LinkedOn
  <2>2. ASSUME before = r  PROVE FALSE
    <3>1. Settled(r)
      BY <1>1, <1>7, <2>1, <2>2, FourStates DEF Anchored
    <3>. QED
      BY <1>7, <2>1, <2>2, <3>1 DEF Joins, Quiet, Ready
  <2>. QED
    BY <2>1, <2>2
<1>8. FrontFirst(pos1)'
  <2>1. ASSUME NEW s \in Requests, Front(s)'
        PROVE  s # r /\ Front(s) /\ Pending(s)
    <3>1. s # r
      <4>1. SUFFICES ASSUME s = r  PROVE FALSE
        OBVIOUS
      <4>2. promise'[r].on = last /\ promise'[last] = promise[last]
        BY <1>1, <1>2
      <4>3. Settled(last)'
        BY <1>1, <2>1, <4>1, <4>2 DEF Front
      <4>. QED
        BY <1>2, <4>2, <4>3 DEF Settled, Pending
    <3>2. promise'[s] = promise[s]
      BY <1>1, <3>1
    <3>3. CASE promise[s].state = "fetching"
      BY <3>1, <3>3 DEF Front, Pending
    <3>4. CASE promise[s].state = "linked"
      <4>1. PICK before \in Requests : before = promise[s].on /\ before # r
        BY <1>7, <3>1, <3>4
      <4>2. Settled(before)' /\ promise'[before] = promise[before]
        BY <1>1, <2>1, <3>2, <3>4, <4>1 DEF Front
      <4>. QED
        BY <3>1, <3>4, <4>1, <4>2 DEF Front, Pending, Settled
    <3>. QED
      BY <2>1, <3>2, <3>3, <3>4 DEF Front
  <2>2. ASSUME NEW s \in Requests, NEW q \in Requests, Front(s)', Pending(q)'
        PROVE  pos1[s] <= pos1[q]
    <3>1. s # r /\ Front(s) /\ Pending(s)
      BY <2>1, <2>2
    <3>2. CASE q = r
      BY <1>4, <3>1, <3>2
    <3>3. CASE q # r
      BY <1>4, <2>2, <3>1, <3>3 DEF Order, FrontFirst
    <3>. QED
      BY <3>2, <3>3
  <2>. QED
    BY <2>2 DEF FrontFirst
<1>9. JustBehind(pos1)'
  <2>1. ASSUME NEW s \in Requests, promise'[s].state = "linked"
        PROVE  promise'[s].on \in Requests \ {r} /\ (s = r => promise'[s].on = last)
    BY <1>1, <1>2, <1>7, <2>1
  <2>2. ASSUME NEW s \in Requests, promise'[s].state = "linked",
               NEW before \in Requests \ {r}, before = promise'[s].on, Pending(before)'
        PROVE  /\ pos1[before] < pos1[s]
               /\ \A q \in Requests :
                    Pending(q)' /\ pos1[q] < pos1[s] => pos1[q] <= pos1[before]
    <3>0. Pending(before)
      BY <1>4, <2>2
    <3>1. CASE s = r
      <4>1. before = last
        BY <2>1, <2>2, <3>1
      <4>. QED
        BY <1>3, <1>4, <2>2, <3>1, <4>1
    <3>2. CASE s # r
      <4>1. promise'[s] = promise[s] /\ Pending(s)
        BY <1>1, <2>2, <3>2 DEF Pending
      <4>2. pos[before] < pos[s]
            /\ \A q \in Requests : Pending(q) /\ pos[q] < pos[s] => pos[q] <= pos[before]
        BY <2>2, <3>0, <4>1 DEF Order, JustBehind
      <4>3. pos1[s] <= pos1[r]
        BY <1>4, <4>1
      <4>. QED
        BY <1>3, <1>4, <3>0, <3>2, <4>1, <4>2, <4>3
    <3>. QED
      BY <3>1, <3>2
  <2>. QED
    BY <2>1, <2>2 DEF JustBehind
<1>10. Order(pos1)'
  BY <1>5, <1>6, <1>8, <1>9 DEF Order
<1>. QED
  BY <1>3, <1>10 DEF Line

LEMMA InLineInit == HistoryInit => InLine
<1> SUFFICES ASSUME Init  PROVE Line
  BY DEF HistoryInit, InLine
<1>. DEFINE pos == [q \in Requests |-> 0]
<1>1. pos \in [Requests -> Nat]
  OBVIOUS
<1>2. \A q \in Requests : ~Pending(q) /\ ~Front(q) /\ promise[q].state # "linked"
  BY DEF Init, NoPromise, Pending, Front
<1>3. Order(pos)
  BY <1>2 DEF Order, Distinct, LastIsKept, FrontFirst, JustBehind
<1>. QED
  BY <1>1, <1>3 DEF Line

LEMMA InLineStep == IInv /\ InLine /\ [HistoryNext]_hvars => InLine'
<1> SUFFICES ASSUME IInv, InLine, [HistoryNext]_hvars, calm'  PROVE Line'
  BY DEF InLine
<1>1. CASE UNCHANGED hvars
  BY <1>1 DEF InLine, Line, Order, Distinct, LastIsKept, FrontFirst, JustBehind,
              Front, Pending, Settled, hvars, vars, history
<1>2. CASE HistoryNext
  <2>1. PICK r \in Requests : Acts(r)
    BY <1>2 DEF HistoryNext, Next, Acts
  <2>2. (\A q \in Requests : ~Pending(q)) \/ (calm /\ ~Unsettles)
    BY <1>2 DEF HistoryNext, NoteCalm
  <2>3. CASE \A q \in Requests : ~Pending(q)
    <3>1. Shape(r)
      BY <2>1, ActionShape DEF Acts, IInv
    <3>. QED
      BY <2>3, <3>1, FirstInLine DEF IInv
  <2>4. CASE calm /\ ~Unsettles /\ \E q \in Requests : Pending(q)
    <3>1. PICK pos \in [Requests -> Nat] : Order(pos)
      BY <2>4 DEF InLine, Line
    <3>2. CASE Keeps
      BY <3>1, <3>2 DEF Keeps, Line, Order, Distinct, LastIsKept, FrontFirst,
                        JustBehind, Front, Pending, Settled
    <3>3. ASSUME NEW p, Advances(r, p)
          PROVE  Line'
      BY <3>1, <3>3, LineAdvances DEF IInv, Line
    <3>4. ASSUME NEW p, Joins(r, p)
          PROVE  Line'
      <4>1. isaIOR # None /\ Pending(isaIOR)
        BY <2>4, <3>1 DEF Order, LastIsKept
      <4>. QED
        BY <3>1, <3>4, <4>1, LineIsJoined DEF IInv
    <3>. QED
      BY <2>1, <2>4, <3>2, <3>3, <3>4, SettledStep DEF IInv
  <2>. QED
    BY <2>2, <2>3, <2>4
<1>. QED
  BY <1>1, <1>2

(* However many requests wait, in whatever order they came and their       *)
(* promises settle: without resets and /connects one HTTP request for the  *)
(* reference at most is outstanding (getISAReference, index.ts:438-445).   *)
THEOREM OneLookup == HistorySpec => []LookupsCoalesce
<1>1. InLine => LookupsCoalesce
  <2>. SUFFICES ASSUME NEW pos \in [Requests -> Nat], Order(pos),
                       NEW p \in Requests, NEW q \in Requests,
                       promise[p].state = "fetching", promise[q].state = "fetching"
                PROVE  p = q
    BY DEF InLine, Line, LookupsCoalesce
  <2>1. pos[p] <= pos[q] /\ pos[q] <= pos[p]
    BY DEF Order, FrontFirst, Front, Pending
  <2>2. pos[p] \in Nat /\ pos[q] \in Nat
    OBVIOUS
  <2>3. pos[p] = pos[q]
    BY <2>1, <2>2
  <2>. QED
    BY <2>3 DEF Order, Distinct, Pending
<1>. QED
  BY <1>1, HistoryInvariance, InLineInit, InLineStep, PTL DEF HistorySpec
-----------------------------------------------------------------------------
(* The round robin.  A number has one quotient and one remainder.          *)
LEMMA Division ==
  ASSUME NEW x \in Nat, NEW n \in Nat \ {0}
  PROVE  /\ x \div n \in Nat
         /\ x % n \in 0 .. n - 1
         /\ x = (n * (x \div n)) + (x % n)
  OBVIOUS

LEMMA Multiples ==
  ASSUME NEW c \in Int, NEW d \in Int, NEW n \in Nat, c + 1 <= d
  PROVE  (n * c) + n <= n * d
<1>1. n * d = (n * c) + (n * (d - c))
  OBVIOUS
<1>2. n * (d - c) >= n
  OBVIOUS
<1>3. n * c \in Int /\ n * d \in Int /\ n * (d - c) \in Int
  OBVIOUS
<1>. QED
  BY <1>1, <1>2, <1>3

LEMMA RemainderUnique ==
  ASSUME NEW x \in Nat, NEW n \in Nat \ {0}, NEW q \in Int, NEW m \in 0 .. n - 1,
         x = (n * q) + m
  PROVE  x % n = m
<1>. DEFINE d == x \div n
            e == x % n
<1>1. d \in Nat /\ e \in 0 .. n - 1 /\ x = (n * d) + e
  BY Division
<1>. HIDE DEF d, e
<1>2. n * q \in Int /\ n * d \in Int
  BY <1>1
<1>3. ~ (q + 1 <= d)
  <2>1. q + 1 <= d => (n * q) + n <= n * d
    BY <1>1, Multiples
  <2>. QED
    BY <1>1, <1>2, <2>1
<1>4. ~ (d + 1 <= q)
  <2>1. d + 1 <= q => (n * d) + n <= n * q
    BY <1>1, Multiples
  <2>. QED
    BY <1>1, <1>2, <2>1
<1>5. d = q
  BY <1>1, <1>3, <1>4
<1>6. e = m
  BY <1>1, <1>2, <1>5
<1>. QED
  BY <1>6 DEF e

LEMMA NextRemainder ==
  ASSUME NEW x \in Nat, NEW n \in Nat \ {0}
  PROVE  (x + 1) % n = IF x % n = n - 1 THEN 0 ELSE (x % n) + 1
<1>. DEFINE d == x \div n
            e == x % n
<1>1. d \in Nat /\ e \in 0 .. n - 1 /\ x = (n * d) + e
  BY Division
<1>. HIDE DEF d, e
<1>2. CASE e = n - 1
  <2>1. n * (d + 1) = (n * d) + n
    BY <1>1
  <2>2. x + 1 = (n * (d + 1)) + 0 /\ d + 1 \in Int /\ 0 \in 0 .. n - 1
    BY <1>1, <1>2, <2>1
  <2>3. (x + 1) % n = 0
    BY <2>2, RemainderUnique
  <2>. QED
    BY <1>2, <2>3 DEF e
<1>3. CASE e # n - 1
  <2>1. x + 1 = (n * d) + (e + 1) /\ e + 1 \in 0 .. n - 1
    BY <1>1, <1>3
  <2>2. (x + 1) % n = e + 1
    BY <1>1, <2>1, RemainderUnique
  <2>. QED
    BY <1>3, <2>2 DEF e
<1>. QED
  BY <1>2, <1>3

(* Counting robin modulo a multiple of the length of every list shows the  *)
(* same addresses as counting without end: each step goes to the next      *)
(* address of the list, and from the last one to the first.                *)
LEMMA NextIndex ==
  ASSUME NEW list \in Lists, NEW k \in 0 .. RobinModulus - 1
  PROVE  IndexIn(list, NextRobin(k)) =
           IF IndexIn(list, k) = Len(list) THEN 1 ELSE IndexIn(list, k) + 1
<1>. DEFINE n == Len(list)
<1>0. k \in Nat /\ RobinModulus \in Nat \ {0} /\ RobinModulus % n = 0
  BY ReferenceAssumption
<1>1. n \in Nat \ {0} /\ k % n \in 0 .. n - 1
  BY <1>0, ListAccess, ModBounds
<1>. HIDE DEF n
<1>2. NextRobin(k) % n = (k + 1) % n
  <2>1. CASE k + 1 = RobinModulus
    <3>1. NextRobin(k) = 0
      <4>1. RobinModulus % RobinModulus = 0
        BY <1>0
      <4>. QED
        BY <2>1, <4>1 DEF NextRobin
    <3>2. 0 % n = 0
      BY <1>1
    <3>. QED
      BY <1>0, <2>1, <3>1, <3>2
  <2>2. CASE k + 1 # RobinModulus
    <3>1. k + 1 < RobinModulus
      BY <1>0, <2>2
    <3>2. (k + 1) % RobinModulus = k + 1
      BY <1>0, <3>1
    <3>. QED
      BY <3>2 DEF NextRobin
  <2>. QED
    BY <2>1, <2>2
<1>3. (k + 1) % n = IF k % n = n - 1 THEN 0 ELSE (k % n) + 1
  BY <1>0, <1>1, NextRemainder
<1>4. /\ IndexIn(list, k) = (k % n) + 1
      /\ IndexIn(list, NextRobin(k)) = (NextRobin(k) % n) + 1
  BY DEF IndexIn, n
<1>5. /\ IndexIn(list, k) = n => IndexIn(list, NextRobin(k)) = 1
      /\ IndexIn(list, k) # n => IndexIn(list, NextRobin(k)) = IndexIn(list, k) + 1
  BY <1>1, <1>2, <1>3, <1>4
<1>. QED
  BY <1>5 DEF n
-----------------------------------------------------------------------------
(* A lookup with count n that stands at address i of a list of length l    *)
(* has passed the n addresses up to i, round the end of the list.          *)
Passed(k, i, n, l) ==
  \/ k <= i /\ i < k + n
  \/ k > i /\ i + l < k + n

LEMMA PassedFirst ==
  ASSUME NEW l \in Nat, NEW i \in 1 .. l, NEW k \in 1 .. l, Passed(k, i, 1, l)
  PROVE  k = i
  BY DEF Passed

LEMMA PassedNext ==
  ASSUME NEW l \in Nat, NEW i \in 1 .. l, NEW j \in 1 .. l, NEW n \in Nat \ {0},
         j = IF i = l THEN 1 ELSE i + 1,
         NEW k \in 1 .. l, Passed(k, j, n + 1, l)
  PROVE  k = j \/ Passed(k, i, n, l)
<1>1. CASE i = l
  BY <1>1 DEF Passed
<1>2. CASE i # l
  BY <1>2 DEF Passed
<1>. QED
  BY <1>1, <1>2

LEMMA PassedAll ==
  ASSUME NEW l \in Nat, NEW i \in 1 .. l, NEW n \in Nat, n >= l, NEW k \in 1 .. l
  PROVE  Passed(k, i, n, l)
  BY DEF Passed

(* What an undisturbed lookup has asked: an address for each count, up to  *)
(* the one robin stands at.                                                *)
AskedSoFar(r) ==
  /\ promise[r].state = "linked" => promise[r].index = IndexIn(stickyRef, robin)
  /\ promise[r].state = "fetching" =>
       \A k \in 1 .. Len(stickyRef) :
         Passed(k, IndexIn(stickyRef, robin), promise[r].count, Len(stickyRef))
           => stickyRef[k] \in asked[r]
AllAsked == \A r \in Requests : r \notin disturbed => AskedSoFar(r)

(* The ways a promise changes: it settles, and rejects after an HTTP       *)
(* request only at the end of the list; or a call makes a new lookup at    *)
(* the index of the moment; or the lookup goes on to the next ISA; or it   *)
(* asks itself what another lookup failed to find.                         *)
Settles(r, p) ==
  \/ p.state = "resolved"
  \/ /\ p.state = "rejected"
     /\ promise[r].state = "fetching" => promise[r].count >= Len(stickyRef)
Begins(r, p) ==
  LET i == IndexIn(stickyRef', robin') IN
  /\ ~Pending(r)
  /\ p = Fetching(stickyRef'[i], 1) \/ (p.state = "linked" /\ p.count = 1 /\ p.index = i)
GoesRound(r, p) ==
  LET k == NextRobin(robin) IN
  /\ promise[r].state = "fetching"
  /\ robin' = k /\ stickyRef' = stickyRef
  /\ p = Fetching(stickyRef[IndexIn(stickyRef, k)], promise[r].count + 1)
TakesOver(r, p) ==
  /\ promise[r].state = "linked"
  /\ robin' = robin /\ stickyRef' = stickyRef
  /\ p = Fetching(stickyRef[promise[r].index], 1)

Renewed(r) ==
  \/ promise' = promise
  \/ \E p : /\ promise' = [promise EXCEPT ![r] = p]
            /\ Settles(r, p) \/ Begins(r, p) \/ GoesRound(r, p) \/ TakesOver(r, p)

LEMMA SettlingRenews ==
  ASSUME NEW r, NEW p, promise' = [promise EXCEPT ![r] = p],
         \/ \E v : p = Resolved(v)
         \/ /\ p = Rejected
            /\ promise[r].state = "fetching" => promise[r].count >= Len(stickyRef)
  PROVE  Renewed(r)
<1>1. Settles(r, p)
  BY DEF Settles, Rejected, Resolved
<1>. QED
  BY <1>1 DEF Renewed

LEMMA LookupRenews ==
  ASSUME NEW r \in Requests, NEW o, NEW list, NEW ior, NEW k, NEW misses, ~Pending(r),
         GetISAReference(r, o, list, ior, k, misses)
  PROVE  Renewed(r)
<1>1. CASE GiveUp(r, o, k)
  BY <1>1 DEF GiveUp, Renewed
<1>2. CASE Obtain(r, o, list, ior, k, misses)
  <2>. DEFINE p == Chained(list, ior, k)
  <2>1. Settles(r, p) \/ Begins(r, p)
    BY <1>2 DEF Obtain, Chained, Settles, Begins, Resolved, Linked
  <2>2. promise' = [promise EXCEPT ![r] = p]
    BY <1>2 DEF Obtain
  <2>. QED
    BY <2>1, <2>2 DEF Renewed
<1>. QED
  BY <1>1, <1>2 DEF GetISAReference

LEMMA StepRenews ==
  ASSUME TypeOK, NoOrphanLookup, NEW r \in Requests, Acts(r)
  PROVE  Renewed(r)
<1>1. CASE Client(r)
  BY <1>1, LookupRenews DEF Client, Connect, Call, NoOrphanLookup
<1>2. CASE Http(r)
  <2>1. ASSUME NEW v \in Iors, HttpOk(r, v)
        PROVE  Renewed(r)
    BY <2>1, SettlingRenews DEF HttpOk
  <2>2. CASE HttpFailover(r)
    <3>. DEFINE p == Fetching(stickyRef[IndexIn(stickyRef, NextRobin(robin))],
                              promise[r].count + 1)
    <3>1. GoesRound(r, p) /\ promise' = [promise EXCEPT ![r] = p]
      BY <2>2 DEF HttpFailover, NestedLookup, GoesRound
    <3>. QED
      BY <3>1 DEF Renewed
  <2>3. CASE HttpExhausted(r)
    BY <2>3, SettlingRenews DEF HttpExhausted
  <2>. QED
    BY <1>2, <2>1, <2>2, <2>3 DEF Http
<1>3. CASE Native(r)
  <2>1. CASE \E o : request[r].pc = "native" /\ ResetAndRetry(r, o)
    BY <2>1, LookupRenews DEF ResetAndRetry, NoOrphanLookup
  <2>2. CASE promise' = promise
    BY <2>2 DEF Renewed
  <2>. QED
    BY <1>3, <2>1, <2>2
    DEF Native, NativeReturns, NativeThrows, NativeTransient, NativeNotExist,
        ResetAndThrow
<1>4. CASE Job(r)
  <2>1. CASE RelayResolved(r)
    BY <2>1, SettlingRenews DEF RelayResolved
  <2>2. CASE RelayRejected(r)
    <3>1. CASE promise[r].index <= Len(stickyRef)
      <4>. DEFINE p == Fetching(stickyRef[promise[r].index], 1)
      <4>1. TakesOver(r, p) /\ promise' = [promise EXCEPT ![r] = p]
        BY <2>2, <3>1 DEF RelayRejected, TakesOver, connection
      <4>. QED
        BY <4>1 DEF Renewed
    <3>2. CASE ~(promise[r].index <= Len(stickyRef))
      BY <2>2, <3>2, SettlingRenews DEF RelayRejected
    <3>. QED
      BY <3>1, <3>2
  <2>3. CASE GuardThrows(r)
    <3>1. CASE \E o : request[r].pc = "refused" /\ ResetAndRetry(r, o)
      BY <3>1, LookupRenews DEF ResetAndRetry, NoOrphanLookup
    <3>2. CASE promise' = promise
      BY <3>2 DEF Renewed
    <3>. QED
      BY <2>3, <3>1, <3>2 DEF GuardThrows
  <2>4. CASE promise' = promise
    BY <2>4 DEF Renewed
  <2>. QED
    BY <1>4, <2>1, <2>2, <2>3, <2>4
    DEF Job, ReferenceReturns, ReferenceThrows, AddressKnown, AddressThrows, AddressNull
<1>. QED
  BY <1>1, <1>2, <1>3, <1>4 DEF Acts
(* A promise that stays as it is: its request is disturbed, or robin and   *)
(* the list stay too.                                                      *)
LEMMA OthersKeepAsked ==
  ASSUME TypeOK, NoteAsked, NoteDisturbed, NEW s \in Requests, promise'[s] = promise[s],
         s \notin disturbed => AskedSoFar(s), s \notin disturbed'
  PROVE  AskedSoFar(s)'
<1>1. ~StartsLookup(s) /\ ~Asks(s) /\ ~FailsOver(s)
  BY DEF StartsLookup, Asks, FailsOver
<1>2. s \notin disturbed /\ stickyRef' = stickyRef /\ robin' = robin
  BY <1>1 DEF NoteDisturbed
<1>3. Pending(s) => asked'[s] = asked[s]
  BY <1>1 DEF NoteAsked
<1>. QED
  BY <1>2, <1>3 DEF AskedSoFar, Pending

LEMMA LookupKeepsAsked ==
  ASSUME TypeOK, TypeOK', NoteAsked, NoteDisturbed, NEW r \in Requests, NEW p,
         promise'[r] = p, p # promise[r],
         Settles(r, p) \/ Begins(r, p) \/ GoesRound(r, p) \/ TakesOver(r, p),
         r \notin disturbed => AskedSoFar(r), r \notin disturbed'
  PROVE  AskedSoFar(r)'
<1>. DEFINE i == IndexIn(stickyRef, robin)
            j == IndexIn(stickyRef', robin')
            l == Len(stickyRef)
            m == Len(stickyRef')
<1>0. /\ l \in Nat \ {0} /\ i \in 1 .. l
      /\ m \in Nat \ {0} /\ j \in 1 .. m
      /\ robin \in 0 .. RobinModulus - 1 /\ robin \in Nat /\ robin' \in Nat
      /\ stickyRef \in Lists /\ stickyRef' \in Lists
  <2>1. /\ robin \in 0 .. RobinModulus - 1 /\ robin \in Nat /\ robin' \in Nat
        /\ stickyRef \in Lists /\ stickyRef' \in Lists
    BY ReferenceAssumption DEF TypeOK
  <2>. QED
    BY <2>1, ListAccess
<1>1. CASE Settles(r, p)
  BY <1>1 DEF Settles, AskedSoFar
<1>2. CASE Begins(r, p)
  <2>1. CASE p = Fetching(stickyRef'[j], 1)
    <3>1. p.state = "fetching" /\ p.isa = stickyRef'[j] /\ p.count = 1
      BY <2>1 DEF Fetching
    <3>2. stickyRef'[j] \in asked'[r]
      BY <3>1 DEF NoteAsked, Asks
    <3>. HIDE DEF j, m
    <3>3. \A k \in 1 .. m : Passed(k, j, 1, m) => stickyRef'[k] \in asked'[r]
      BY <1>0, <3>2, PassedFirst
    <3>. QED
      BY <3>1, <3>3 DEF AskedSoFar, j, m
  <2>2. CASE p.state = "linked" /\ p.index = j
    BY <2>2 DEF AskedSoFar
  <2>. QED
    BY <1>2, <2>1, <2>2 DEF Begins
<1>3. CASE GoesRound(r, p)
  <2>1. /\ p.state = "fetching" /\ p.isa = stickyRef'[j] /\ p.count = promise[r].count + 1
        /\ robin' = NextRobin(robin) /\ stickyRef' = stickyRef
        /\ promise[r].state = "fetching"
    BY <1>3 DEF GoesRound, Fetching
  <2>2. promise[r].count \in Nat \ {0}
    BY <2>1 DEF TypeOK, PromiseType, NoPromise, Rejected
  <2>3. j = IF i = l THEN 1 ELSE i + 1
    BY <1>0, <2>1, NextIndex
  <2>4. ~StartsLookup(r) /\ Asks(r) /\ Pending(r)
    BY <2>1, <2>2 DEF StartsLookup, Asks, Pending
  <2>5. r \notin disturbed
    BY <2>4 DEF NoteDisturbed
  <2>6. asked'[r] = asked[r] \cup {stickyRef'[j]}
    BY <2>1, <2>4 DEF NoteAsked
  <2>7. \A k \in 1 .. l : Passed(k, i, promise[r].count, l) => stickyRef[k] \in asked[r]
    BY <2>1, <2>5 DEF AskedSoFar
  <2>8. m = l
    BY <2>1
  <2>. HIDE DEF i, j, l, m
  <2>9. ASSUME NEW k \in 1 .. m, Passed(k, j, promise[r].count + 1, m)
        PROVE  stickyRef'[k] \in asked'[r]
    <3>1. k = j \/ Passed(k, i, promise[r].count, l)
      BY <1>0, <2>2, <2>3, <2>8, <2>9, PassedNext
    <3>. QED
      BY <2>1, <2>6, <2>7, <2>8, <3>1
  <2>. QED
    BY <2>1, <2>9 DEF AskedSoFar, j, m
<1>4. CASE TakesOver(r, p)
  <2>1. /\ p.state = "fetching" /\ p.isa = stickyRef[promise[r].index] /\ p.count = 1
        /\ robin' = robin /\ stickyRef' = stickyRef
        /\ promise[r].state = "linked"
    BY <1>4 DEF TakesOver, Fetching
  <2>2. r \notin disturbed
    BY <2>1 DEF NoteDisturbed, Pending
  <2>3. promise[r].index = i /\ j = i /\ m = l
    BY <2>1, <2>2 DEF AskedSoFar
  <2>4. stickyRef'[j] \in asked'[r]
    BY <2>1, <2>3 DEF NoteAsked, Asks
  <2>. HIDE DEF i, j, l, m
  <2>5. \A k \in 1 .. m : Passed(k, j, 1, m) => stickyRef'[k] \in asked'[r]
    BY <1>0, <2>4, PassedFirst
  <2>. QED
    BY <2>1, <2>5 DEF AskedSoFar, j, m
<1>. QED
  BY <1>1, <1>2, <1>3, <1>4

LEMMA AllAskedStep == IInv /\ IInv' /\ AllAsked /\ [HistoryNext]_hvars => AllAsked'
<1> SUFFICES ASSUME IInv, IInv', AllAsked, [HistoryNext]_hvars,
                    NEW s \in Requests, s \notin disturbed'
             PROVE  AskedSoFar(s)'
  BY DEF AllAsked
<1>1. CASE UNCHANGED hvars
  BY <1>1 DEF AllAsked, AskedSoFar, hvars, vars, history
<1>2. CASE HistoryNext
  <2>1. PICK r \in Requests : Acts(r)
    BY <1>2 DEF HistoryNext, Next, Acts
  <2>2. Renewed(r)
    BY <2>1, StepRenews DEF IInv
  <2>3. NoteAsked /\ NoteDisturbed /\ (s \notin disturbed => AskedSoFar(s))
    BY <1>2 DEF HistoryNext, AllAsked
  <2>4. CASE promise'[s] = promise[s]
    BY <2>3, <2>4, OthersKeepAsked DEF IInv
  <2>5. CASE promise'[s] # promise[s]
    <3>1. PICK p : /\ promise' = [promise EXCEPT ![r] = p]
                   /\ Settles(r, p) \/ Begins(r, p) \/ GoesRound(r, p) \/ TakesOver(r, p)
      BY <2>2, <2>5 DEF Renewed
    <3>2. s = r /\ promise'[r] = p
      BY <2>5, <3>1 DEF IInv, TypeOK
    <3>. QED
      BY <2>3, <2>5, <3>1, <3>2, LookupKeepsAsked DEF IInv
  <2>. QED
    BY <2>4, <2>5
<1>. QED
  BY <1>1, <1>2

LEMMA GivesUpStep ==
  ASSUME IInv, AllAsked, HistoryNext, NEW r \in Requests,
         promise[r].state = "fetching", promise'[r].state = "rejected",
         r \notin disturbed, NEW k \in 1 .. Len(stickyRef)
  PROVE  stickyRef[k] \in asked[r]
<1>1. PICK s \in Requests : Acts(s)
  BY DEF HistoryNext, Next, Acts
<1>2. PICK p : /\ promise' = [promise EXCEPT ![s] = p]
               /\ Settles(s, p) \/ Begins(s, p) \/ GoesRound(s, p) \/ TakesOver(s, p)
  BY <1>1, StepRenews DEF IInv, Renewed
<1>3. s = r /\ promise'[s] = p
  BY <1>2 DEF IInv, TypeOK
<1>4. promise[r].count >= Len(stickyRef)
  BY <1>2, <1>3 DEF Settles, Begins, GoesRound, TakesOver, Fetching
<1>5. promise[r].count \in Nat
  BY DEF IInv, TypeOK, PromiseType, NoPromise, Rejected
<1>. DEFINE i == IndexIn(stickyRef, robin)
<1>6. Len(stickyRef) \in Nat /\ i \in 1 .. Len(stickyRef)
  BY ReferenceAssumption, ListAccess DEF IInv, TypeOK
<1>. HIDE DEF i
<1>7. Passed(k, i, promise[r].count, Len(stickyRef))
  BY <1>4, <1>5, <1>6, PassedAll
<1>. QED
  BY <1>7 DEF AllAsked, AskedSoFar, i

(* A lookup that no other request disturbed goes once round the list, from *)
(* wherever robin stood: it gives up only when every address has been      *)
(* asked (getISAReference, index.ts:447-475).                              *)
THEOREM RoundBeforeGivingUp == HistorySpec => GivesUpAfterAll
<1>1. HistoryInit => AllAsked
  BY DEF HistoryInit, Init, AllAsked, AskedSoFar, NoPromise
<1>2. IInv /\ AllAsked /\ [HistoryNext]_hvars =>
        [\A r \in Requests :
           promise[r].state = "fetching" /\ promise'[r].state = "rejected"
             /\ r \notin disturbed
           => \A k \in 1 .. Len(stickyRef) : stickyRef[k] \in asked[r]]_hvars
  BY GivesUpStep
<1>. QED
  BY <1>1, <1>2, HistoryInvariance, AllAskedStep, PTL DEF HistorySpec, GivesUpAfterAll
=============================================================================
