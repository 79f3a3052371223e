----------------------------- MODULE RequestPath -----------------------------
(***************************************************************************)
(* The way of a request through the gateway: the racing timer, the queue   *)
(* of the functions on ports with its own timeout and the error middleware *)
(* of src/server.ts with the health status they keep, the native calls of  *)
(* a function with their promise, carrier and async work                   *)
(* (src/cxx/qgw_util.cc), the worker threads of libuv that run them, and   *)
(* the repeats of a failed remote call by omniORB                          *)
(* (quantel_gateway.cc:83-95).                                             *)
(*                                                                         *)
(* The ISA reference each call awaits first is the matter of IsaReference, *)
(* the shared ORB under the remote calls that of Gateway, the priority of  *)
(* resets in the queue that of PlayPort: here a reference is found, or a   *)
(* call fails, the queue is first in, first out, and the process may end   *)
(* at any time.                                                            *)
(***************************************************************************)
EXTENDS Naturals, Sequences, FiniteSets

CONSTANTS
  Requests,     (* slots of HTTP requests                                   *)
  PoolSize,     (* threads of libuv, 4 by default                           *)
  MaxRepeats,   (* repeats of a call whose connection fails, 5 in the code  *)
  None

(* "query" checks the server with one native call and makes another, "copy" *)
(* is POST /default/copy, "port" one of the functions on a port of the     *)
(* priority 0, which wait in the queue and check their server first.       *)
Ops == { "query", "copy", "port" }

ASSUME PathAssumption ==
  /\ IsFiniteSet(Requests)
  /\ PoolSize \in Nat \ {0}
  /\ MaxRepeats \in Nat
  /\ None \notin Requests \cup Ops

VARIABLES
  currentStatus,
  ctx,       (* the request in each slot: its operation, whether the timer  *)
             (* has answered it, whether the queue has ended its handler,   *)
             (* the native calls its function has to make                   *)
  queue,     (* the requests whose functions wait for the queue             *)
  carrier,   (* the native call each function awaits                        *)
  work,      (* the queue of async work                                     *)
  carried,   (* history: the requests whose operation the server carried out *)
  last       (* history: the status of the response sent last, and the      *)
             (* request it went to if its handler goes on                   *)

vars == << currentStatus, ctx, queue, carrier, work, carried, last >>
-----------------------------------------------------------------------------
Idle == [op |-> None, timedOut |-> FALSE, ended |-> FALSE, calls |-> 0]
NoCarrier == [state |-> "none", repeats |-> 0, status |-> "QGW_SUCCESS"]
Queued == [NoCarrier EXCEPT !.state = "queued"]
NoResponse == [status |-> 0, to |-> None]

NativeCalls(op) == IF op = "copy" THEN 1 ELSE 2

Executing == { r \in Requests : carrier[r].state = "executing" }

(* The function on a port that the queue waits for. *)
Running == { r \in Requests : /\ ctx[r].op = "port" /\ ~ctx[r].ended
                              /\ carrier[r].state # "none" }

InitialState ==
  /\ currentStatus' = "OK"
  /\ ctx' = [r \in Requests |-> Idle]
  /\ queue' = << >>
  /\ carrier' = [r \in Requests |-> NoCarrier]
  /\ work' = << >>
  /\ carried' = {}
  /\ last' = NoResponse

Init ==
  /\ currentStatus = "OK"
  /\ ctx = [r \in Requests |-> Idle]
  /\ queue = << >>
  /\ carrier = [r \in Requests |-> NoCarrier]
  /\ work = << >>
  /\ carried = {}
  /\ last = NoResponse

(* Code after next() in the innermost middleware: any status below 500     *)
(* clears a failure.                                                       *)
StatusAfter(s) == IF s >= 500 THEN "FAIL" ELSE "OK"

(* Statuses: 404 stands for every client error, 500 for 502 as well.       *)
Sends(s) == last' = [status |-> s, to |-> None]

(* A native function that accepts its arguments makes a promise and a      *)
(* carrier and queues its work.                                            *)
QueuesWork(r) ==
  /\ carrier' = [carrier EXCEPT ![r] = Queued]
  /\ work' = Append(work, r)

(* The handler returns or throws: the middleware looks at ctx.status, which *)
(* is still 524 when the timer has answered, as Koa ignores a status once   *)
(* the headers are sent.                                                    *)
(* Mutant: the middleware goes by the status of the handler and not by ctx. *)
HandlerEndsOwnStatus(r, s) ==
  /\ currentStatus' = StatusAfter(s)
  /\ IF ctx[r].timedOut THEN last' = last ELSE Sends(s)
HandlerEnds(r, s) ==
  IF ctx[r].timedOut
  THEN currentStatus' = StatusAfter(524) /\ last' = last
  ELSE currentStatus' = StatusAfter(s) /\ Sends(s)
-----------------------------------------------------------------------------
(* A request whose handler answers without a native call: GET /health, a   *)
(* parameter out of range, an unknown path.                                *)
AnswersAtOnce(s) ==
  /\ s \in { 200, 404 }
  /\ \E r \in Requests : ctx[r].op = None
  /\ currentStatus' = StatusAfter(s)
  /\ Sends(s)
  /\ UNCHANGED << ctx, queue, carrier, work, carried >>

(* The handler passed the parameters and the native function does not, as  *)
(* with a number in a string: the promise is rejected, the carrier deleted *)
(* and nothing is queued (REJECT_RETURN).                                  *)
ArgumentRejected ==
  /\ \E r \in Requests : ctx[r].op = None
  /\ currentStatus' = StatusAfter(500)
  /\ Sends(500)
  /\ UNCHANGED << ctx, queue, carrier, work, carried >>

Arrives(r, op) ==
  /\ ctx[r].op = None
  /\ ctx' = [ctx EXCEPT ![r] = [Idle EXCEPT !.op = op, !.calls = NativeCalls(op)]]
  /\ IF op = "port"
     THEN queue' = Append(queue, r) /\ UNCHANGED << carrier, work >>
     ELSE QueuesWork(r) /\ queue' = queue
  /\ UNCHANGED << currentStatus, carried, last >>

(* The timer of the outermost middleware: it answers and does not end the  *)
(* handler.  It runs in any case and does nothing once a response is sent. *)
TimerFires(r) ==
  /\ ctx[r].op # None /\ ~ctx[r].timedOut /\ ~ctx[r].ended
  /\ ctx' = [ctx EXCEPT ![r].timedOut = TRUE]
  /\ last' = [status |-> 524, to |-> r]
  /\ UNCHANGED << currentStatus, queue, carrier, work, carried >>

(* The queue starts the next function when the one before has ended, or    *)
(* its timeout has.                                                        *)
(* Mutant: a function that overran its timeout is waited for. *)
QueueStartsAfterFunction ==
  /\ queue # << >>
  /\ ~\E r \in Requests : ctx[r].op = "port" /\ carrier[r].state # "none"
  /\ queue' = Tail(queue)
  /\ QueuesWork(Head(queue))
  /\ UNCHANGED << currentStatus, ctx, carried, last >>
QueueStarts ==
  /\ queue # << >>
  /\ Running = {}
  /\ queue' = Tail(queue)
  /\ QueuesWork(Head(queue))
  /\ UNCHANGED << currentStatus, ctx, carried, last >>

(* The timeout of the queue rejects the promise the handler awaits; the    *)
(* function and its native call go on.  It counts from the start of the    *)
(* function, so that it may end before the timer of the request does if    *)
(* POST /timeout made that one longer.                                     *)
QueueTimesOut(r) ==
  /\ r \in Running
  /\ HandlerEnds(r, 500)
  /\ ctx' = [ctx EXCEPT ![r].ended = TRUE]
  /\ UNCHANGED << queue, carrier, work, carried >>
-----------------------------------------------------------------------------
ThreadStarts ==
  /\ work # << >>
  /\ Cardinality(Executing) < PoolSize
  /\ carrier' = [carrier EXCEPT ![Head(work)].state = "executing"]
  /\ work' = Tail(work)
  /\ UNCHANGED << currentStatus, ctx, queue, carried, last >>

(* The last native call of a function is the operation asked for.          *)
Effect(r) == IF ctx[r].calls = 1 THEN carried \cup {r} ELSE carried

Executed(r, status) ==
  carrier' = [carrier EXCEPT ![r] = [state |-> "executed", repeats |-> 0, status |-> status]]

RemoteReplies(r) ==
  /\ carrier[r].state = "executing"
  /\ carried' = Effect(r)
  /\ Executed(r, "QGW_SUCCESS")
  /\ UNCHANGED << currentStatus, ctx, queue, work, last >>

(* COMM_FAILURE or TRANSIENT: omniORB asks the handlers installed for      *)
(* these two, which let it repeat the call, whether or not it was carried  *)
(* out.                                                                    *)
(* Mutant: the handlers allow one repeat more. *)
ConnectionFailsOneMore(r, done) ==
  /\ carrier[r].state = "executing"
  /\ carried' = IF done THEN Effect(r) ELSE carried
  /\ IF carrier[r].repeats <= MaxRepeats
     THEN carrier' = [carrier EXCEPT ![r].repeats = @ + 1]
     ELSE Executed(r, "error")
  /\ UNCHANGED << currentStatus, ctx, queue, work, last >>
(* Mutant: the handlers never give up. *)
ConnectionFailsForEver(r, done) ==
  /\ carrier[r].state = "executing"
  /\ carried' = IF done THEN Effect(r) ELSE carried
  /\ carrier' = [carrier EXCEPT ![r].repeats = IF @ < MaxRepeats THEN @ + 1 ELSE 0]
  /\ UNCHANGED << currentStatus, ctx, queue, work, last >>
ConnectionFails(r, done) ==
  /\ carrier[r].state = "executing"
  /\ carried' = IF done THEN Effect(r) ELSE carried
  /\ IF carrier[r].repeats < MaxRepeats
     THEN carrier' = [carrier EXCEPT ![r].repeats = @ + 1]
     ELSE Executed(r, "error")
  /\ UNCHANGED << currentStatus, ctx, queue, work, last >>

(* No answer within the two seconds of clientCallTimeOutPeriod: TIMEOUT,   *)
(* for which there is no handler, ends the call at once, carried out or    *)
(* not.                                                                    *)
TimesOut(r, done) ==
  /\ carrier[r].state = "executing"
  /\ carried' = IF done THEN Effect(r) ELSE carried
  /\ Executed(r, "error")
  /\ UNCHANGED << currentStatus, ctx, queue, work, last >>

(* An exception is the answer: one of the operation (BadIdent stands for   *)
(* what the routes turn into a 404) or that the portal no longer exists,   *)
(* which is not repeated here.                                             *)
RemoteThrows(r, status) ==
  /\ carrier[r].state = "executing"
  /\ status \in { "BadIdent", "error", "OBJECT_NOT_EXIST" }
  /\ Executed(r, status)
  /\ UNCHANGED << currentStatus, ctx, queue, work, carried, last >>
-----------------------------------------------------------------------------
(* The complete function of a call runs on the JavaScript thread: it       *)
(* resolves or rejects the promise and deletes the carrier.  The function  *)
(* ends and its handler goes on, unless the queue has ended that before.   *)
Finishes(r, s) ==
  /\ carrier' = [carrier EXCEPT ![r] = NoCarrier]
  /\ ctx' = [ctx EXCEPT ![r] = Idle]
  /\ carried' = carried \ {r}
  /\ IF ctx[r].ended THEN UNCHANGED << currentStatus, last >> ELSE HandlerEnds(r, s)
  /\ UNCHANGED << queue, work >>

(* The function makes its next native call, after the check of the server. *)
NextCall(r) ==
  /\ carrier[r].state = "executed" /\ carrier[r].status = "QGW_SUCCESS"
  /\ ctx[r].calls > 1
  /\ ctx' = [ctx EXCEPT ![r].calls = @ - 1]
  /\ QueuesWork(r)
  /\ UNCHANGED << currentStatus, queue, carried, last >>

(* ... or finds what it was asked for, or that there is no such thing.     *)
Answers(r, s) ==
  /\ carrier[r].state = "executed" /\ carrier[r].status = "QGW_SUCCESS"
  /\ \/ s = 200 /\ ctx[r].calls = 1
     \/ s = 404 /\ ctx[r].op # "copy"
  /\ Finishes(r, s)

(* REJECT_STATUS: the status of a failed call rejects the promise.         *)
(* Mutant: the complete function resolves it all the same. *)
ErrorsUnchecked(r, s) ==
  /\ carrier[r].state = "executed" /\ carrier[r].status # "QGW_SUCCESS"
  /\ s = 200
  /\ Finishes(r, s)
Errors(r, s) ==
  /\ carrier[r].state = "executed"
  /\ << carrier[r].status, s >> \in { << "BadIdent", 404 >>, << "error", 500 >> }
  /\ Finishes(r, s)

(* The library functions take OBJECT_NOT_EXIST for a failover: they look   *)
(* the reference up again and call the whole function once more, with its  *)
(* check of the server, or throw what the lookup throws.                   *)
CallsAgain(r) ==
  /\ carrier[r].state = "executed" /\ carrier[r].status = "OBJECT_NOT_EXIST"
  /\ ctx' = [ctx EXCEPT ![r].calls = NativeCalls(ctx[r].op)]
  /\ QueuesWork(r)
  /\ UNCHANGED << currentStatus, queue, carried, last >>

LookupFails(r) ==
  /\ carrier[r].state = "executed" /\ carrier[r].status = "OBJECT_NOT_EXIST"
  /\ Finishes(r, 500)

(* The process ends and is started again: whoever waited for a response    *)
(* finds the connection closed.                                            *)
Restarts == InitialState
-----------------------------------------------------------------------------
Worker(r) ==
  \/ RemoteReplies(r)
  \/ \E done \in BOOLEAN : ConnectionFails(r, done) \/ TimesOut(r, done)
  \/ \E status \in { "BadIdent", "error", "OBJECT_NOT_EXIST" } : RemoteThrows(r, status)

Completes(r) ==
  \/ NextCall(r)
  \/ \E s \in { 200, 404, 500 } : Answers(r, s) \/ Errors(r, s)
  \/ CallsAgain(r)
  \/ LookupFails(r)

Next ==
  \/ \E s \in { 200, 404 } : AnswersAtOnce(s)
  \/ ArgumentRejected
  \/ \E r \in Requests, op \in Ops : Arrives(r, op)
  \/ \E r \in Requests : TimerFires(r) \/ QueueTimesOut(r) \/ Worker(r) \/ Completes(r)
  \/ QueueStarts
  \/ ThreadStarts
  \/ Restarts

Spec == Init /\ [][Next]_vars

(* Time passes and timers fire; the queue starts what it may; libuv runs   *)
(* its queue in order; a remote call ends, if by its timeout; the event    *)
(* loop takes every completion.                                            *)
Fairness ==
  /\ WF_vars(QueueStarts) /\ WF_vars(ThreadStarts)
  /\ \A r \in Requests :
       /\ WF_vars(TimerFires(r)) /\ WF_vars(QueueTimesOut(r))
       /\ WF_vars(Worker(r)) /\ WF_vars(Completes(r))

LiveSpec == Spec /\ Fairness
-----------------------------------------------------------------------------
ContextType ==
  [op : Ops \cup {None}, timedOut : BOOLEAN, ended : BOOLEAN, calls : 0 .. 2]
CarrierType ==
  [state : { "none", "queued", "executing", "executed" }, repeats : 0 .. MaxRepeats,
   status : { "QGW_SUCCESS", "BadIdent", "error", "OBJECT_NOT_EXIST" }]

(* The variables keep their types; in particular no remote call is made    *)
(* more than once and MaxRepeats times again (quantel_gateway.cc:83-95).   *)
TypeOK ==
  /\ currentStatus \in { "OK", "FAIL" }
  /\ ctx \in [Requests -> ContextType]
  /\ queue \in Seq(Requests)
  /\ carrier \in [Requests -> CarrierType]
  /\ work \in Seq(Requests)
  /\ carried \in SUBSET Requests
  /\ last \in [status : { 0, 200, 404, 500, 524 }, to : Requests \cup {None}]

(* GET /health hides a server error of the last response only while the    *)
(* handler of that response still runs behind its 524 (server.ts:169-176,  *)
(* 934-939).                                                               *)
HealthMissesOnlyRunning ==
  last.status >= 500 /\ currentStatus = "OK"
    => /\ last.status = 524
       /\ last.to \in Requests
       /\ ctx[last.to].op # None /\ ctx[last.to].timedOut /\ ~ctx[last.to].ended

(* A request is answered with 200 only if the server has carried out what  *)
(* it asks for: the error of no repeat, retry or timeout gets lost on its  *)
(* way from the thread (qgw_util.cc:270-299, index.ts:694-702).            *)
AnsweredIsCarriedOut ==
  [][\A r \in Requests :
       /\ ctx[r].op # None /\ ~ctx[r].timedOut /\ ~ctx[r].ended
       /\ ctx'[r].op = None /\ last'.status = 200
       => r \in carried]_vars

(* No thread of the pool is held for ever by a server that refuses or      *)
(* breaks every connection, nor is work queued behind it                   *)
(* (quantel_gateway.cc:83-95).                                             *)
NativeCallsEnd ==
  \A r \in Requests :
    carrier[r].state \in { "queued", "executing" } ~> carrier[r].state \in { "none", "executed" }

(* The queue goes on past a function whose calls are answered with         *)
(* OBJECT_NOT_EXIST and repeated for ever: every handler of a function on  *)
(* a port ends (server.ts:31-35).                                          *)
QueueGoesOn ==
  \A r \in Requests :
    ctx[r].op = "port" /\ ~ctx[r].ended ~> ctx[r].op # "port" \/ ctx[r].ended

(* A 524 shows in the health status in the end, whatever the handler finds *)
(* afterwards, if the process lasts and OBJECT_NOT_EXIST answers cease for *)
(* those requests no queue ends.                                           *)
FailureShows ==
  (<>[]\A r \in Requests :
        ctx[r].op # "port" => carrier[r].status # "OBJECT_NOT_EXIST")
    => \A r \in Requests :
         ctx[r].timedOut /\ ~ctx[r].ended
           ~> currentStatus = "FAIL" \/ last = NoResponse

=============================================================================
