------------------------- MODULE RequestPath_proofs -------------------------
(***************************************************************************)
(* Proofs about RequestPath, for any number of requests, threads and       *)
(* repeats.                                                                *)
(***************************************************************************)
EXTENDS RequestPath, TLAPS

(* The sequence operations of the two queues. *)
LEMMA Appended ==
  ASSUME NEW S, NEW s \in Seq(S), NEW e \in S
  PROVE  Append(s, e) \in Seq(S)
  OBVIOUS

LEMMA TailOf ==
  ASSUME NEW S, NEW s \in Seq(S), s # << >>
  PROVE  Tail(s) \in Seq(S) /\ Head(s) \in S
  OBVIOUS

LEMMA Constants ==
  /\ Idle \in ContextType /\ Idle.op = None /\ ~Idle.timedOut /\ ~Idle.ended
  /\ NoCarrier \in CarrierType /\ NoCarrier.state = "none"
  /\ Queued \in CarrierType /\ Queued.state = "queued"
  /\ NoResponse.status = 0 /\ NoResponse.to = None
  BY PathAssumption DEF Idle, ContextType, NoCarrier, CarrierType, Queued, NoResponse

LEMMA NativeCallsType == ASSUME NEW op \in Ops \cup {None} PROVE NativeCalls(op) \in 1 .. 2
  BY DEF NativeCalls

(* The records keep their types when fields of theirs are set. *)
LEMMA ContextSet ==
  ASSUME NEW c \in ContextType
  PROVE  /\ [c EXCEPT !.timedOut = TRUE] \in ContextType
         /\ [c EXCEPT !.ended = TRUE] \in ContextType
         /\ \A n \in 1 .. 2 : [c EXCEPT !.calls = n] \in ContextType
         /\ \A op \in Ops : [c EXCEPT !.op = op] \in ContextType
<1>1. \A n \in 1 .. 2 : n \in 0 .. 2
  OBVIOUS
<1> QED BY <1>1 DEF ContextType

LEMMA CarrierSet ==
  ASSUME NEW k \in CarrierType
  PROVE  [k EXCEPT !.state = "executing"] \in CarrierType
  BY DEF CarrierType
-----------------------------------------------------------------------------
(* What a step does to the requests and their native calls: every step has *)
(* one of these shapes.                                                    *)

(* Nothing but a response. *)
Responds ==
  /\ UNCHANGED << ctx, queue, carrier, work, carried >>
  /\ \/ UNCHANGED << currentStatus, last >>
     \/ \E s \in { 200, 404, 500 } : currentStatus' = StatusAfter(s) /\ Sends(s)

(* The function makes another native call. *)
MakesCall(r) ==
  /\ \E n \in 1 .. 2 : ctx' = [ctx EXCEPT ![r].calls = n]
  /\ QueuesWork(r)
  /\ UNCHANGED << currentStatus, queue, carried, last >>

(* The thread works on the call. *)
Executes(r) ==
  /\ \E k \in CarrierType :
       /\ carrier' = [carrier EXCEPT ![r] = k]
       /\ k.state = "executed" /\ k.status = "QGW_SUCCESS" => carried' = Effect(r)
  /\ carried \subseteq carried' /\ carried' \in SUBSET Requests
  /\ UNCHANGED << currentStatus, ctx, queue, work, last >>

(* The function ends, and with 200 only if its last call succeeded. *)
Ends(r, s) ==
  /\ carrier[r].state = "executed"
  /\ s = 200 => carrier[r].status = "QGW_SUCCESS" /\ ctx[r].calls = 1
  /\ Finishes(r, s)

Shape ==
  \/ Responds
  \/ \E r \in Requests, op \in Ops : Arrives(r, op)
  \/ \E r \in Requests :
       \/ TimerFires(r) \/ QueueTimesOut(r) \/ MakesCall(r) \/ Executes(r)
       \/ \E s \in { 200, 404, 500 } : Ends(r, s)
  \/ QueueStarts
  \/ ThreadStarts
  \/ Restarts

LEMMA EffectType ==
  ASSUME TypeOK, NEW r \in Requests
  PROVE  carried \subseteq Effect(r) /\ Effect(r) \in SUBSET Requests
  BY DEF TypeOK, Effect

LEMMA WorkerExecutes ==
  ASSUME TypeOK, NEW r \in Requests, Worker(r)
  PROVE  Executes(r)
<1>1. /\ carrier \in [Requests -> CarrierType] /\ carrier[r] \in CarrierType
      /\ carried \in SUBSET Requests
  BY DEF TypeOK
<1>2. /\ UNCHANGED << currentStatus, ctx, queue, work, last >>
      /\ carried' = carried \/ carried' = Effect(r)
  BY Zenon DEF Worker, RemoteReplies, ConnectionFails, TimesOut, RemoteThrows
<1>3. carried \subseteq carried' /\ carried' \in SUBSET Requests
  BY <1>1, <1>2, EffectType
<1>4. ASSUME NEW status \in { "QGW_SUCCESS", "BadIdent", "error", "OBJECT_NOT_EXIST" },
             Executed(r, status), status = "QGW_SUCCESS" => carried' = Effect(r)
      PROVE  Executes(r)
  <2> DEFINE k == [state |-> "executed", repeats |-> 0, status |-> status]
  <2>1. k \in CarrierType
    BY PathAssumption DEF CarrierType
  <2>2. k.status = status /\ carrier' = [carrier EXCEPT ![r] = k]
    BY <1>4 DEF Executed
  <2> HIDE DEF k
  <2> QED BY <1>2, <1>3, <1>4, <2>1, <2>2 DEF Executes
<1>5. ASSUME carrier[r].state = "executing", carrier[r].repeats < MaxRepeats,
             carrier' = [carrier EXCEPT ![r].repeats = @ + 1]
      PROVE  Executes(r)
  <2> DEFINE k == [carrier[r] EXCEPT !.repeats = @ + 1]
  <2>1. k \in CarrierType /\ k.state = "executing"
    BY <1>1, <1>5, PathAssumption DEF CarrierType
  <2>2. carrier' = [carrier EXCEPT ![r] = k]
    BY <1>5
  <2> HIDE DEF k
  <2> QED BY <1>2, <1>3, <2>1, <2>2 DEF Executes
<1>6. CASE RemoteReplies(r)
  BY <1>4, <1>6 DEF RemoteReplies
<1>7. ASSUME NEW done \in BOOLEAN, ConnectionFails(r, done)
      PROVE  Executes(r)
  <2>1. \/ /\ carrier[r].state = "executing" /\ carrier[r].repeats < MaxRepeats
           /\ carrier' = [carrier EXCEPT ![r].repeats = @ + 1]
        \/ Executed(r, "error")
    BY <1>7, Zenon DEF ConnectionFails
  <2> QED BY <1>4, <1>5, <2>1
<1>8. ASSUME NEW done \in BOOLEAN, TimesOut(r, done)
      PROVE  Executes(r)
  BY <1>4, <1>8 DEF TimesOut
<1>9. ASSUME NEW status \in { "BadIdent", "error", "OBJECT_NOT_EXIST" },
             RemoteThrows(r, status)
      PROVE  Executes(r)
  BY <1>4, <1>9 DEF RemoteThrows
<1> QED BY <1>6, <1>7, <1>8, <1>9 DEF Worker

LEMMA CompletesShape ==
  ASSUME TypeOK, NEW r \in Requests, Completes(r)
  PROVE  MakesCall(r) \/ \E s \in { 200, 404, 500 } : Ends(r, s)
<1>1. ctx[r] \in ContextType
  BY DEF TypeOK
<1>2. CASE NextCall(r)
  <2>1. ctx[r].calls - 1 \in 1 .. 2
    BY <1>1, <1>2 DEF NextCall, ContextType
  <2> QED BY <1>2, <2>1 DEF NextCall, MakesCall
<1>3. CASE CallsAgain(r)
  <2>1. NativeCalls(ctx[r].op) \in 1 .. 2
    BY <1>1, NativeCallsType DEF ContextType
  <2> QED BY <1>3, <2>1 DEF CallsAgain, MakesCall
<1>4. ASSUME NEW s \in { 200, 404, 500 }, Answers(r, s) \/ Errors(r, s)
      PROVE  Ends(r, s)
  BY <1>4 DEF Answers, Errors, Ends
<1>5. CASE LookupFails(r)
  BY <1>5 DEF LookupFails, Ends
<1> QED BY <1>2, <1>3, <1>4, <1>5 DEF Completes

LEMMA StepShape ==
  ASSUME TypeOK, [Next]_vars
  PROVE  Shape
<1>1. ASSUME NEW s \in { 200, 404 }, AnswersAtOnce(s)
      PROVE  Responds
  BY <1>1 DEF AnswersAtOnce, Responds
<1>2. ArgumentRejected => Responds
  BY Zenon DEF ArgumentRejected, Responds
<1>3. UNCHANGED vars => Responds
  BY Zenon DEF vars, Responds
<1> QED BY <1>1, <1>2, <1>3, WorkerExecutes, CompletesShape DEF Next, Shape
-----------------------------------------------------------------------------
(* The parts of the invariant, each preserved by every step. *)

LEMMA NextTypeOK ==
  ASSUME TypeOK, [Next]_vars
  PROVE  TypeOK'
<1>0. /\ ctx \in [Requests -> ContextType] /\ carrier \in [Requests -> CarrierType]
      /\ queue \in Seq(Requests) /\ work \in Seq(Requests) /\ carried \in SUBSET Requests
      /\ currentStatus \in { "OK", "FAIL" }
      /\ last \in [status : { 0, 200, 404, 500, 524 }, to : Requests \cup {None}]
      /\ \A s : StatusAfter(s) \in { "OK", "FAIL" }
  BY DEF TypeOK, StatusAfter
<1>a. ASSUME NEW r \in Requests, NEW s \in { 200, 404, 500 }, HandlerEnds(r, s)
      PROVE  /\ currentStatus' \in { "OK", "FAIL" }
             /\ last' \in [status : { 0, 200, 404, 500, 524 }, to : Requests \cup {None}]
  BY <1>0, <1>a DEF HandlerEnds, Sends
<1>b. ASSUME NEW r \in Requests, QueuesWork(r)
      PROVE  carrier' \in [Requests -> CarrierType] /\ work' \in Seq(Requests)
  BY <1>0, <1>b, Appended, Constants DEF QueuesWork
<1>1. CASE Responds
  <2>1. /\ currentStatus' \in { "OK", "FAIL" }
        /\ last' \in [status : { 0, 200, 404, 500, 524 }, to : Requests \cup {None}]
    BY <1>0, <1>1 DEF Responds, Sends
  <2> QED BY <1>0, <1>1, <2>1 DEF Responds, TypeOK
<1>2. ASSUME NEW r \in Requests, NEW op \in Ops, Arrives(r, op)
      PROVE  TypeOK'
  <2>0. [Idle EXCEPT !.op = op] \in ContextType
    BY Constants, ContextSet
  <2>1. [Idle EXCEPT !.op = op, !.calls = NativeCalls(op)] \in ContextType
    BY <2>0, NativeCallsType, ContextSet
  <2>2. ctx' \in [Requests -> ContextType]
    BY <1>0, <1>2, <2>1 DEF Arrives
  <2>3. /\ queue' \in Seq(Requests) /\ carrier' \in [Requests -> CarrierType]
        /\ work' \in Seq(Requests)
    <3>1. \/ queue' = Append(queue, r) /\ UNCHANGED << carrier, work >>
          \/ QueuesWork(r) /\ queue' = queue
      BY <1>2 DEF Arrives
    <3>2. Append(queue, r) \in Seq(Requests)
      BY <1>0, Appended
    <3>3. CASE queue' = Append(queue, r) /\ UNCHANGED << carrier, work >>
      BY <1>0, <3>2, <3>3
    <3>4. CASE QueuesWork(r) /\ queue' = queue
      BY <1>0, <1>b, <3>4
    <3> QED BY <3>1, <3>3, <3>4
  <2> QED BY <1>0, <1>2, <2>2, <2>3 DEF Arrives, TypeOK
<1>3. ASSUME NEW r \in Requests, TimerFires(r)
      PROVE  TypeOK'
  <2> DEFINE c == [ctx[r] EXCEPT !.timedOut = TRUE]
  <2>0. ctx[r] \in ContextType
    BY <1>0
  <2>1. c \in ContextType
    BY <2>0, ContextSet
  <2>2. ctx' = [ctx EXCEPT ![r] = c]
    BY <1>3 DEF TimerFires
  <2> HIDE DEF c
  <2>3. ctx' \in [Requests -> ContextType]
    BY <1>0, <2>1, <2>2
  <2> QED BY <1>0, <1>3, <2>3 DEF TimerFires, TypeOK
<1>4. ASSUME NEW r \in Requests, QueueTimesOut(r)
      PROVE  TypeOK'
  <2> DEFINE c == [ctx[r] EXCEPT !.ended = TRUE]
  <2>0. ctx[r] \in ContextType
    BY <1>0
  <2>1. c \in ContextType
    BY <2>0, ContextSet
  <2>2. ctx' = [ctx EXCEPT ![r] = c] /\ HandlerEnds(r, 500)
    BY <1>4 DEF QueueTimesOut
  <2> HIDE DEF c
  <2>3. ctx' \in [Requests -> ContextType]
    BY <1>0, <2>1, <2>2
  <2> QED BY <1>0, <1>4, <1>a, <2>2, <2>3 DEF QueueTimesOut, TypeOK
<1>5. ASSUME NEW r \in Requests, MakesCall(r)
      PROVE  TypeOK'
  <2>1. PICK n \in 1 .. 2 : ctx' = [ctx EXCEPT ![r].calls = n]
    BY <1>5 DEF MakesCall
  <2> DEFINE c == [ctx[r] EXCEPT !.calls = n]
  <2>0. ctx[r] \in ContextType
    BY <1>0
  <2>2. c \in ContextType
    BY <2>0, ContextSet
  <2>3. ctx' = [ctx EXCEPT ![r] = c]
    BY <2>1
  <2> HIDE DEF c
  <2>4. ctx' \in [Requests -> ContextType]
    BY <1>0, <2>2, <2>3
  <2> QED BY <1>0, <1>5, <1>b, <2>4 DEF MakesCall, TypeOK
<1>6. ASSUME NEW r \in Requests, Executes(r)
      PROVE  TypeOK'
  <2>1. carrier' \in [Requests -> CarrierType]
    BY <1>0, <1>6 DEF Executes
  <2> QED BY <1>0, <1>6, <2>1 DEF Executes, TypeOK
<1>7. ASSUME NEW r \in Requests, NEW s \in { 200, 404, 500 }, Ends(r, s)
      PROVE  TypeOK'
  <2>1. /\ currentStatus' \in { "OK", "FAIL" }
        /\ last' \in [status : { 0, 200, 404, 500, 524 }, to : Requests \cup {None}]
    BY <1>0, <1>7, <1>a DEF Ends, Finishes
  <2>2. /\ ctx' = [ctx EXCEPT ![r] = Idle] /\ carrier' = [carrier EXCEPT ![r] = NoCarrier]
        /\ carried' = carried \ {r} /\ UNCHANGED << queue, work >>
    BY <1>7, Zenon DEF Ends, Finishes
  <2> QED BY <1>0, <2>1, <2>2, Constants DEF TypeOK
<1>8. CASE QueueStarts
  <2>1. Head(queue) \in Requests /\ Tail(queue) \in Seq(Requests)
    BY <1>0, <1>8, TailOf DEF QueueStarts
  <2> QED BY <1>0, <1>8, <1>b, <2>1 DEF QueueStarts, TypeOK
<1>9. CASE ThreadStarts
  <2>1. Head(work) \in Requests /\ Tail(work) \in Seq(Requests)
    BY <1>0, <1>9, TailOf DEF ThreadStarts
  <2> DEFINE k == [carrier[Head(work)] EXCEPT !.state = "executing"]
  <2>0. carrier[Head(work)] \in CarrierType
    BY <1>0, <2>1
  <2>2. k \in CarrierType
    BY <2>0, CarrierSet
  <2>3. carrier' = [carrier EXCEPT ![Head(work)] = k]
    BY <1>9 DEF ThreadStarts
  <2> HIDE DEF k
  <2>4. carrier' \in [Requests -> CarrierType]
    BY <1>0, <2>1, <2>2, <2>3
  <2> QED BY <1>0, <1>9, <2>1, <2>4 DEF ThreadStarts, TypeOK
<1>10. CASE Restarts
  <2>1. NoResponse \in [status : { 0, 200, 404, 500, 524 }, to : Requests \cup {None}]
    BY DEF NoResponse
  <2> QED BY <1>10, <2>1, Constants DEF Restarts, InitialState, TypeOK
<1> QED BY <1>1, <1>2, <1>3, <1>4, <1>5, <1>6, <1>7, <1>8, <1>9, <1>10, StepShape DEF Shape

(* The request whose failure the health status hides still runs after a    *)
(* step that leaves status and history alone.                              *)
StillRuns(r) == ctx[r].op # None /\ ctx[r].timedOut /\ ~ctx[r].ended

LEMMA StillRunning ==
  ASSUME TypeOK, [Next]_vars, NEW r \in Requests, StillRuns(r),
         UNCHANGED << currentStatus, last >>, currentStatus = "OK", last.status >= 500
  PROVE  StillRuns(r)'
<1>0. ctx \in [Requests -> ContextType] /\ ctx[r] \in ContextType
  BY DEF TypeOK
<1>1. ASSUME ctx'[r] = ctx[r]
      PROVE  StillRuns(r)'
  BY <1>1 DEF StillRuns
<1>2. ASSUME NEW q \in Requests, ctx[q].timedOut, ~ctx[q].ended, NEW s, HandlerEnds(q, s)
      PROVE  FALSE
  BY <1>2 DEF HandlerEnds, StatusAfter
<1>3. ASSUME NEW q \in Requests, NEW op \in Ops, Arrives(q, op)
      PROVE  StillRuns(r)'
  BY <1>0, <1>1, <1>3 DEF Arrives, StillRuns
<1>4. ASSUME NEW q \in Requests, TimerFires(q)
      PROVE  StillRuns(r)'
  BY <1>0, <1>1, <1>4 DEF TimerFires, StillRuns
<1>5. ASSUME NEW q \in Requests, QueueTimesOut(q)
      PROVE  StillRuns(r)'
  <2>1. q # r
    BY <1>2, <1>5 DEF QueueTimesOut, StillRuns
  <2> QED BY <1>0, <1>1, <1>5, <2>1 DEF QueueTimesOut
<1>6. ASSUME NEW q \in Requests, MakesCall(q)
      PROVE  StillRuns(r)'
  <2>1. PICK n \in 1 .. 2 : ctx' = [ctx EXCEPT ![q].calls = n]
    BY <1>6 DEF MakesCall
  <2>2. ctx'[r].op = ctx[r].op /\ ctx'[r].timedOut = ctx[r].timedOut /\ ctx'[r].ended = ctx[r].ended
    BY <1>0, <2>1 DEF ContextType
  <2> QED BY <2>2 DEF StillRuns
<1>7. ASSUME NEW q \in Requests, NEW s \in { 200, 404, 500 }, Ends(q, s)
      PROVE  StillRuns(r)'
  <2>1. ctx' = [ctx EXCEPT ![q] = Idle] /\ (ctx[q].ended \/ HandlerEnds(q, s))
    BY <1>7, Zenon DEF Ends, Finishes
  <2>2. q # r
    BY <1>2, <2>1 DEF StillRuns
  <2> QED BY <1>0, <1>1, <2>1, <2>2
<1>8. CASE Restarts
  BY <1>8, Constants DEF Restarts, InitialState
<1>9. CASE UNCHANGED ctx
  BY <1>1, <1>9
<1> QED BY <1>3, <1>4, <1>5, <1>6, <1>7, <1>8, <1>9, StepShape
        DEF Shape, Responds, Executes, QueueStarts, ThreadStarts

(* What a step tells: nothing, the response of a handler, a 524, or a new  *)
(* process.                                                                *)
LEMMA StepTells ==
  ASSUME TypeOK, [Next]_vars
  PROVE  \/ UNCHANGED << currentStatus, last >>
         \/ currentStatus' = "FAIL" /\ last' = last
         \/ \E s \in { 200, 404, 500 } : currentStatus' = StatusAfter(s) /\ Sends(s)
         \/ \E r \in Requests :
              /\ last' = [status |-> 524, to |-> r]
              /\ StillRuns(r)'
         \/ last' = NoResponse
<1> DEFINE Goal == \/ UNCHANGED << currentStatus, last >>
                   \/ currentStatus' = "FAIL" /\ last' = last
                   \/ \E s \in { 200, 404, 500 } : currentStatus' = StatusAfter(s) /\ Sends(s)
                   \/ \E r \in Requests :
                        /\ last' = [status |-> 524, to |-> r]
                        /\ StillRuns(r)'
                   \/ last' = NoResponse
<1>0. ctx \in [Requests -> ContextType]
  BY DEF TypeOK
<1>1. ASSUME NEW r \in Requests, NEW s \in { 200, 404, 500 }, HandlerEnds(r, s)
      PROVE  Goal
  <2>1. StatusAfter(524) = "FAIL"
    BY DEF StatusAfter
  <2>2. \/ currentStatus' = StatusAfter(524) /\ last' = last
        \/ currentStatus' = StatusAfter(s) /\ Sends(s)
    BY <1>1, Zenon DEF HandlerEnds
  <2> QED BY <2>1, <2>2
<1>2. ASSUME NEW r \in Requests, TimerFires(r)
      PROVE  Goal
  <2>1. ctx'[r] = [ctx[r] EXCEPT !.timedOut = TRUE] /\ ctx[r] \in ContextType
    BY <1>0, <1>2 DEF TimerFires
  <2>2. StillRuns(r)'
    BY <1>2, <2>1 DEF TimerFires, StillRuns, ContextType
  <2>3. last' = [status |-> 524, to |-> r]
    BY <1>2 DEF TimerFires
  <2> QED BY <2>2, <2>3
<1>3. ASSUME NEW r \in Requests, QueueTimesOut(r)
      PROVE  Goal
  <2>1. HandlerEnds(r, 500)
    BY <1>3 DEF QueueTimesOut
  <2> QED BY <1>1, <2>1
<1>4. ASSUME NEW r \in Requests, NEW s \in { 200, 404, 500 }, Ends(r, s)
      PROVE  Goal
  <2>1. UNCHANGED << currentStatus, last >> \/ HandlerEnds(r, s)
    BY <1>4, Zenon DEF Ends, Finishes
  <2> QED BY <1>1, <2>1
<1>5. Responds => Goal
  BY Zenon DEF Responds
<1>6. Restarts => Goal
  BY Zenon DEF Restarts, InitialState
<1>7. UNCHANGED << currentStatus, last >> => Goal
  OBVIOUS
<1>8. \A r \in Requests : MakesCall(r) \/ Executes(r) => UNCHANGED << currentStatus, last >>
  BY DEF MakesCall, Executes
<1>9. \A r \in Requests, op \in Ops : Arrives(r, op) => UNCHANGED << currentStatus, last >>
  BY DEF Arrives
<1>10. QueueStarts \/ ThreadStarts => UNCHANGED << currentStatus, last >>
  BY DEF QueueStarts, ThreadStarts
<1> HIDE DEF Goal
<1>11. Goal
  BY <1>2, <1>3, <1>4, <1>5, <1>6, <1>7, <1>8, <1>9, <1>10, StepShape DEF Shape
<1> QED BY <1>11 DEF Goal

LEMMA NextHealth ==
  ASSUME TypeOK, HealthMissesOnlyRunning, [Next]_vars
  PROVE  HealthMissesOnlyRunning'
<1> SUFFICES ASSUME last'.status >= 500, currentStatus' = "OK"
             PROVE  last'.status = 524 /\ \E q \in Requests : q = last'.to /\ StillRuns(q)'
  BY DEF HealthMissesOnlyRunning, StillRuns
<1>1. ASSUME NEW s \in { 200, 404, 500 }, currentStatus' = StatusAfter(s), Sends(s)
      PROVE  FALSE
  BY <1>1 DEF StatusAfter, Sends
<1>2. ASSUME NEW r \in Requests, last' = [status |-> 524, to |-> r], StillRuns(r)'
      PROVE  last'.status = 524 /\ \E q \in Requests : q = last'.to /\ StillRuns(q)'
  BY <1>2 DEF StillRuns
<1>3. last' # NoResponse
  BY Constants
<1>4. ASSUME UNCHANGED << currentStatus, last >>
      PROVE  last'.status = 524 /\ \E q \in Requests : q = last'.to /\ StillRuns(q)'
  <2>1. last.status = 524 /\ last.to \in Requests /\ StillRuns(last.to)
    BY <1>4 DEF HealthMissesOnlyRunning, StillRuns
  <2>2. ASSUME NEW r \in Requests, r = last.to
        PROVE  StillRuns(r)'
    BY <1>4, <2>1, <2>2, StillRunning
  <2> QED BY <1>4, <2>1, <2>2 DEF StillRuns
<1> QED BY <1>1, <1>2, <1>3, <1>4, StepTells

(* A request whose last call succeeded has been carried out. *)
CarriedOut ==
  \A r \in Requests :
    carrier[r].state = "executed" /\ carrier[r].status = "QGW_SUCCESS" /\ ctx[r].calls = 1
      => r \in carried

LEMMA NextCarriedOut ==
  ASSUME TypeOK, CarriedOut, [Next]_vars
  PROVE  CarriedOut'
<1> SUFFICES ASSUME NEW r \in Requests, carrier'[r].state = "executed",
                    carrier'[r].status = "QGW_SUCCESS", ctx'[r].calls = 1
             PROVE  r \in carried'
  BY DEF CarriedOut
<1>0. /\ ctx \in [Requests -> ContextType] /\ carrier \in [Requests -> CarrierType]
      /\ work \in Seq(Requests) /\ queue \in Seq(Requests)
  BY DEF TypeOK
<1>1. ASSUME carrier'[r] = carrier[r], ctx'[r].calls = ctx[r].calls,
             r \in carried => r \in carried'
      PROVE  r \in carried'
  BY <1>1 DEF CarriedOut
<1>2. ASSUME NEW q \in Requests, QueuesWork(q)
      PROVE  q # r /\ carrier'[r] = carrier[r]
  BY <1>0, <1>2, Constants DEF QueuesWork
<1>3. ASSUME NEW q \in Requests, NEW op \in Ops, Arrives(q, op)
      PROVE  r \in carried'
  <2>1. CASE op = "port"
    <3>1. q # r
      BY <1>0, <1>3, <2>1, Constants DEF Arrives, NativeCalls, ContextType
    <3> QED BY <1>0, <1>1, <1>3, <2>1, <3>1 DEF Arrives
  <2>2. CASE op # "port"
    BY <1>0, <1>1, <1>2, <1>3, <2>2 DEF Arrives
  <2> QED BY <2>1, <2>2
<1>4. ASSUME NEW q \in Requests, TimerFires(q)
      PROVE  r \in carried'
  <2>1. ctx'[r].calls = ctx[r].calls
    BY <1>0, <1>4 DEF TimerFires, ContextType
  <2> QED BY <1>1, <1>4, <2>1 DEF TimerFires
<1>5. ASSUME NEW q \in Requests, QueueTimesOut(q)
      PROVE  r \in carried'
  <2>1. ctx'[r].calls = ctx[r].calls
    BY <1>0, <1>5 DEF QueueTimesOut, ContextType
  <2> QED BY <1>1, <1>5, <2>1 DEF QueueTimesOut
<1>6. ASSUME NEW q \in Requests, MakesCall(q)
      PROVE  r \in carried'
  <2>1. q # r /\ carrier'[r] = carrier[r]
    BY <1>2, <1>6 DEF MakesCall
  <2> QED BY <1>0, <1>1, <1>6, <2>1 DEF MakesCall
<1>7. ASSUME NEW q \in Requests, Executes(q)
      PROVE  r \in carried'
  <2>1. CASE q = r
    <3>1. PICK k \in CarrierType :
            /\ carrier' = [carrier EXCEPT ![r] = k]
            /\ k.state = "executed" /\ k.status = "QGW_SUCCESS" => carried' = Effect(r)
      BY <1>7, <2>1 DEF Executes
    <3>2. carried' = Effect(r) /\ ctx[r].calls = 1
      BY <1>0, <1>7, <3>1 DEF Executes
    <3> QED BY <3>2 DEF Effect
  <2>2. CASE q # r
    BY <1>0, <1>1, <1>7, <2>2 DEF Executes
  <2> QED BY <2>1, <2>2
<1>8. ASSUME NEW q \in Requests, NEW s \in { 200, 404, 500 }, Ends(q, s)
      PROVE  r \in carried'
  <2>1. /\ ctx' = [ctx EXCEPT ![q] = Idle] /\ carrier' = [carrier EXCEPT ![q] = NoCarrier]
        /\ carried' = carried \ {q}
    BY <1>8, Zenon DEF Ends, Finishes
  <2>2. q # r
    BY <1>0, <2>1, Constants
  <2> QED BY <1>0, <1>1, <2>1, <2>2
<1>9. CASE QueueStarts
  <2>1. Head(queue) \in Requests
    BY <1>0, <1>9, TailOf DEF QueueStarts
  <2> QED BY <1>1, <1>2, <1>9, <2>1 DEF QueueStarts
<1>10. CASE ThreadStarts
  <2>1. Head(work) \in Requests
    BY <1>0, <1>10, TailOf DEF ThreadStarts
  <2>2. Head(work) # r
    BY <1>0, <1>10, <2>1 DEF ThreadStarts, CarrierType
  <2> QED BY <1>0, <1>1, <1>10, <2>1, <2>2 DEF ThreadStarts
<1>11. CASE Restarts
  BY <1>11, Constants DEF Restarts, InitialState
<1>12. CASE Responds
  BY <1>1, <1>12 DEF Responds
<1> QED BY <1>3, <1>4, <1>5, <1>6, <1>7, <1>8, <1>9, <1>10, <1>11, <1>12, StepShape DEF Shape

(* Only its own function takes a request away with a 200. *)
LEMMA AnsweredBySuccess ==
  ASSUME TypeOK, [Next]_vars, NEW r \in Requests, ctx[r].op # None, ctx'[r].op = None,
         last'.status = 200, ~ctx[r].timedOut, ~ctx[r].ended
  PROVE  /\ carrier[r].state = "executed" /\ carrier[r].status = "QGW_SUCCESS"
         /\ ctx[r].calls = 1
<1> DEFINE Goal == /\ carrier[r].state = "executed" /\ carrier[r].status = "QGW_SUCCESS"
                   /\ ctx[r].calls = 1
<1>0. ctx \in [Requests -> ContextType]
  BY DEF TypeOK
<1>1. ASSUME ctx'[r].op = ctx[r].op
      PROVE  FALSE
  BY <1>1
<1>2. ASSUME NEW q \in Requests, NEW op \in Ops, Arrives(q, op)
      PROVE  FALSE
  <2>1. q # r
    BY <1>2 DEF Arrives
  <2> QED BY <1>0, <1>1, <1>2, <2>1 DEF Arrives
<1>3. ASSUME NEW q \in Requests, TimerFires(q) \/ QueueTimesOut(q) \/ MakesCall(q)
      PROVE  FALSE
  BY <1>0, <1>1, <1>3 DEF TimerFires, QueueTimesOut, MakesCall, ContextType
<1>4. ASSUME NEW q \in Requests, NEW s \in { 200, 404, 500 }, Ends(q, s)
      PROVE  Goal
  <2>1. /\ ctx' = [ctx EXCEPT ![q] = Idle]
        /\ ctx[q].ended \/ HandlerEnds(q, s)
    BY <1>4, Zenon DEF Ends, Finishes
  <2>2. q = r
    BY <1>0, <1>1, <2>1
  <2>3. last'.status = s
    BY <2>1, <2>2 DEF HandlerEnds, Sends
  <2> QED BY <1>4, <2>2, <2>3 DEF Ends
<1>5. CASE Restarts
  BY <1>5, Constants DEF Restarts, InitialState
<1>6. CASE UNCHANGED ctx
  BY <1>1, <1>6
<1> QED BY <1>2, <1>3, <1>4, <1>5, <1>6, StepShape
        DEF Shape, Responds, Executes, QueueStarts, ThreadStarts
-----------------------------------------------------------------------------
(* The inductive invariant. *)
PathInv == TypeOK /\ HealthMissesOnlyRunning /\ CarriedOut

LEMMA InitPathInv == Init => PathInv
<1> SUFFICES ASSUME Init PROVE PathInv
  OBVIOUS
<1>1. NoResponse \in [status : { 0, 200, 404, 500, 524 }, to : Requests \cup {None}]
  BY DEF NoResponse
<1>2. TypeOK
  BY <1>1, Constants DEF Init, TypeOK
<1>3. HealthMissesOnlyRunning
  BY Constants DEF Init, HealthMissesOnlyRunning
<1>4. CarriedOut
  BY Constants DEF Init, CarriedOut
<1> QED BY <1>2, <1>3, <1>4 DEF PathInv

LEMMA NextPathInv == PathInv /\ [Next]_vars => PathInv'
  BY NextTypeOK, NextHealth, NextCarriedOut DEF PathInv

LEMMA PathInvariant == Spec => []PathInv
  BY InitPathInv, NextPathInv, PTL DEF Spec

(* The variables keep their types: no remote call is made more often than  *)
(* omniORB is told to repeat it, and no handler ends with another status.  *)
THEOREM PathTypeCorrect == Spec => []TypeOK
<1>1. PathInv => TypeOK
  BY DEF PathInv
<1> QED BY <1>1, PathInvariant, PTL

(* The health status hides no server error but a 524 whose handler still   *)
(* runs, whatever requests end meanwhile, by themselves or by the queue.   *)
THEOREM HealthMisses == Spec => []HealthMissesOnlyRunning
<1>1. PathInv => HealthMissesOnlyRunning
  BY DEF PathInv
<1> QED BY <1>1, PathInvariant, PTL

(* A request that is answered with 200 has been carried out, for any       *)
(* number of repeats, retries and timeouts.                                *)
THEOREM AnsweredCarriedOut == Spec => AnsweredIsCarriedOut
<1>1. ASSUME PathInv, [Next]_vars
      PROVE  [\A r \in Requests :
                /\ ctx[r].op # None /\ ~ctx[r].timedOut /\ ~ctx[r].ended
                /\ ctx'[r].op = None /\ last'.status = 200
                => r \in carried]_vars
  BY <1>1, AnsweredBySuccess DEF PathInv, CarriedOut
<1> QED BY <1>1, PathInvariant, PTL DEF Spec, AnsweredIsCarriedOut
=============================================================================
