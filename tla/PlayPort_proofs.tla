--------------------------- MODULE PlayPort_proofs ---------------------------
(***************************************************************************)
(* Proofs about PlayPort, for any numbers of requests, ports and channels: *)
(* types, the queue's order and mutual exclusion, no port half made when   *)
(* nothing fails, resets that repair, one channel for each port, and the   *)
(* channel that was asked for.                                             *)
(***************************************************************************)
EXTENDS PlayPort, SequenceTheorems, FiniteSetTheorems, TLAPS

(* A request that is being served has a port, and the channel it assigns:  *)
(* only a create assigns one, and a function has remote calls left to do.  *)
Fits(e) ==
  /\ e.pc # "idle" => /\ e.port \in Ports
                      /\ e.op \in Queued \cup Unqueued
                      /\ e.op = "create" => e.channel \in Channels
  /\ e.pc = "waiting" => e.op \in Queued
  /\ e.pc = "servers" => \/ e.todo = << >>
                         \/ e.op = "properties" /\ e.todo = WipeScript
  /\ e.pc = "native" =>
       /\ e.todo # << >>
       /\ e.op # "create" => \A i \in 1 .. Len(e.todo) : e.todo[i] # "assign"
Scripted == \A r \in Requests : Fits(request[r])

IInv == TypeOK /\ QueueConsistent /\ Scripted
-----------------------------------------------------------------------------
(* Sequences *)

LEMMA TailOf ==
  ASSUME NEW S, NEW s \in Seq(S), s # << >>
  PROVE  /\ Len(s) \in Nat \ {0}
         /\ Head(s) \in S /\ Head(s) = s[1]
         /\ Tail(s) \in Seq(S)
         /\ Len(Tail(s)) = Len(s) - 1
         /\ \A i \in 1 .. Len(Tail(s)) : Tail(s)[i] = s[i + 1]
  OBVIOUS

LEMMA Inserted ==
  ASSUME NEW S, NEW s \in Seq(S), NEW n \in 0 .. Len(s), NEW e \in S
  PROVE  LET t == [i \in 1 .. Len(s) + 1 |->
                     IF i <= n THEN s[i] ELSE IF i = n + 1 THEN e ELSE s[i - 1]]
         IN  t \in Seq(S) /\ Len(t) = Len(s) + 1
<1>. DEFINE t == [i \in 1 .. Len(s) + 1 |->
                    IF i <= n THEN s[i] ELSE IF i = n + 1 THEN e ELSE s[i - 1]]
<1>1. t \in [1 .. Len(s) + 1 -> S]
  OBVIOUS
<1>2. Len(s) + 1 \in Nat
  OBVIOUS
<1>. HIDE DEF t
<1>3. t \in Seq(S) /\ Len(t) = Len(s) + 1
  BY <1>1, <1>2
<1>. QED
  BY <1>3 DEF t

LEMMA ScriptsTyped ==
  /\ << "getPort", "assign", "play", "arm" >> \in Seq(Calls)
  /\ << "getPort", "read" >> \in Seq(Calls)
  /\ << "getPort", "clear", "play", "arm" >> \in Seq(Calls)
  /\ << "getPort", "idle", "clear", "delete" >> \in Seq(Calls)
  /\ << "getPort", "read", "wipe" >> \in Seq(Calls)
<1>1. "getPort" \in Calls /\ "assign" \in Calls /\ "play" \in Calls /\ "arm" \in Calls
  BY DEF Calls
<1>2. "read" \in Calls /\ "clear" \in Calls /\ "idle" \in Calls /\ "delete" \in Calls
  BY DEF Calls
<1>3. "wipe" \in Calls
  BY DEF Calls, Unqueued
<1>. QED
  BY <1>1, <1>2, <1>3

LEMMA ScriptType ==
  ASSUME NEW op \in Queued \cup Unqueued
  PROVE  /\ Script(op) \in Seq(Calls)
         /\ Script(op) # << >>
         /\ op # "create" => \A i \in 1 .. Len(Script(op)) : Script(op)[i] # "assign"
<1>1. CASE op = "create"
  <2>1. Script(op) = << "getPort", "assign", "play", "arm" >>
    BY <1>1, Zenon DEF Script, CreateScript, StatusScript, ResetScript,
                        ReleaseScript, LoadScript, WipeScript, TriggerScript
  <2>2. Script(op) \in Seq(Calls)
    BY <2>1, ScriptsTyped, Zenon
  <2>3. \A i \in 1 .. Len(Script(op)) : Script(op)[i] = "assign" => op = "create"
    BY <1>1, <2>1
  <2>. QED
    BY <2>1, <2>2, <2>3
<1>2. CASE op \in {"status", "properties"}
  <2>1. Script(op) = << "getPort", "read" >>
    BY <1>2, Zenon DEF Script, CreateScript, StatusScript, ResetScript,
                        ReleaseScript, LoadScript, WipeScript, TriggerScript
  <2>2. Script(op) \in Seq(Calls)
    BY <2>1, ScriptsTyped, Zenon
  <2>3. \A i \in 1 .. Len(Script(op)) : Script(op)[i] = "assign" => op = "create"
    BY <1>2, <2>1
  <2>. QED
    BY <2>1, <2>2, <2>3
<1>3. CASE op = "reset"
  <2>1. Script(op) = << "getPort", "clear", "play", "arm" >>
    BY <1>3, Zenon DEF Script, CreateScript, StatusScript, ResetScript,
                        ReleaseScript, LoadScript, WipeScript, TriggerScript
  <2>2. Script(op) \in Seq(Calls)
    BY <2>1, ScriptsTyped, Zenon
  <2>3. \A i \in 1 .. Len(Script(op)) : Script(op)[i] = "assign" => op = "create"
    BY <1>3, <2>1
  <2>. QED
    BY <2>1, <2>2, <2>3
<1>4. CASE op = "release"
  <2>1. Script(op) = << "getPort", "idle", "clear", "delete" >>
    BY <1>4, Zenon DEF Script, CreateScript, StatusScript, ResetScript,
                        ReleaseScript, LoadScript, WipeScript, TriggerScript
  <2>2. Script(op) \in Seq(Calls)
    BY <2>1, ScriptsTyped, Zenon
  <2>3. \A i \in 1 .. Len(Script(op)) : Script(op)[i] = "assign" => op = "create"
    BY <1>4, <2>1
  <2>. QED
    BY <2>1, <2>2, <2>3
<1>5. CASE op = "wipe"
  <2>1. Script(op) = << "getPort", "read", "wipe" >>
    BY <1>5, Zenon DEF Script, CreateScript, StatusScript, ResetScript,
                        ReleaseScript, LoadScript, WipeScript, TriggerScript
  <2>2. Script(op) \in Seq(Calls)
    BY <2>1, ScriptsTyped, Zenon
  <2>3. \A i \in 1 .. Len(Script(op)) : Script(op)[i] = "assign" => op = "create"
    BY <1>5, <2>1
  <2>. QED
    BY <2>1, <2>2, <2>3
<1>6. CASE op \in {"load", "trigger"}
  <2>1. Script(op) = << "getPort", op >>
    BY <1>6, Zenon DEF Script, CreateScript, StatusScript, ResetScript,
                        ReleaseScript, LoadScript, WipeScript, TriggerScript
  <2>2. Script(op) \in Seq(Calls)
    BY <1>6, <2>1 DEF Calls, Unqueued
  <2>3. \A i \in 1 .. Len(Script(op)) : Script(op)[i] = "assign" => op = "create"
    BY <1>6, <2>1
  <2>. QED
    BY <2>1, <2>2, <2>3
<1>. QED
  BY <1>1, <1>2, <1>3, <1>4, <1>5, <1>6 DEF Queued, Unqueued
-----------------------------------------------------------------------------
(* What a step of the function of r means to the queue *)

FunctionStep(r) ==
  /\ Active(r)
  /\ queue' = queue
  /\ \A q \in Requests : request'[q].op = request[q].op
  /\ \A q \in Requests \ {r} : request'[q].pc = request[q].pc
  /\ \/ request'[r].pc \in {"servers", "native"} /\ running' = running
     \/ request'[r].pc = "idle" /\ running' = IF running = r THEN None ELSE running

LEMMA EndsStep ==
  ASSUME TypeOK, NEW r \in Requests, Active(r), NEW v, Ends(r, v)
  PROVE  FunctionStep(r)
BY DEF Ends, Result, At, FunctionStep, TypeOK

LEMMA GoesOnStep ==
  ASSUME TypeOK, NEW r \in Requests, Active(r), NEW pc \in {"servers", "native"},
         NEW todo, NEW handle, NEW result, GoesOn(r, At(r, pc, todo, handle, result))
  PROVE  FunctionStep(r)
BY DEF GoesOn, At, FunctionStep, TypeOK

(* release() deletes the object, whether its answer arrives or not. *)
Deleting(r) == \E v \in {"ok", "error"} : Releases(r, v)

LEMMA DeletesOrFails ==
  ASSUME NEW r \in Requests, Deletes(r) \/ Releases(r, "error")
  PROVE  Deleting(r)
BY DEF Deletes, Deleting

LEMMA FunctionSteps ==
  ASSUME TypeOK, NEW r \in Requests, Function(r) \/ RemoteFails(r)
  PROVE  FunctionStep(r)
<1>1. Active(r)
  BY DEF Function, RemoteFails, GetsServers, RemoteCall, Deletes, Releases, NoPortLeft, LoadRefused,
         FindsPortDeleted, Active, RequestType, TypeOK
<1>2. CASE GetsServers(r)
  BY <1>1, <1>2, EndsStep, GoesOnStep DEF GetsServers, CreateChecks, PortChecks, Native
<1>3. CASE RemoteCall(r)
  BY <1>1, <1>3, EndsStep, GoesOnStep DEF RemoteCall, Succeeds, Continues
<1>4. CASE Deleting(r)
  BY <1>1, <1>4 DEF Deleting, Releases, Result, At, FunctionStep, TypeOK
<1>5. CASE NoPortLeft(r) \/ LoadRefused(r)
  BY <1>1, <1>5, EndsStep DEF NoPortLeft, LoadRefused
<1>6. CASE FindsPortDeleted(r)
  BY <1>1, <1>6, GoesOnStep DEF FindsPortDeleted
<1>7. CASE RemoteFails(r)
  BY <1>1, <1>4, <1>7, DeletesOrFails, EndsStep, GoesOnStep DEF RemoteFails, Continues
<1>. QED
  BY <1>2, <1>3, <1>4, <1>5, <1>6, <1>7, DeletesOrFails DEF Function

LEMMA FunctionKeepsOverruns ==
  ASSUME TypeOK, NEW r \in Requests, Function(r) \/ RemoteFails(r)
  PROVE  faults'.overruns = faults.overruns
BY DEF TypeOK, Function, RemoteFails, GetsServers, RemoteCall, Succeeds, Continues, Deletes,
       NoPortLeft, LoadRefused, FindsPortDeleted
-----------------------------------------------------------------------------
(* The queue *)

LEMMA FunctionKeepsQueue ==
  ASSUME TypeOK, QueueConsistent, NEW r \in Requests, FunctionStep(r),
         faults'.overruns = faults.overruns
  PROVE  QueueConsistent'
<1>1. queue \in Seq(Requests) /\ None \notin Requests
  BY PlayPortAssumption DEF TypeOK
<1>2. \A q \in Requests : request'[q].pc = "waiting" <=> request[q].pc = "waiting"
  BY DEF FunctionStep, Active
<1>3. \A i \in 1 .. Len(queue) : request'[queue[i]].op = request[queue[i]].op
  BY <1>1 DEF FunctionStep
<1>4. ASSUME faults'.overruns = 0, NEW q \in Requests
      PROVE  (Active(q) /\ request[q].op \in Queued)' <=> q = running'
  BY <1>1, <1>4 DEF FunctionStep, QueueConsistent, Active
<1>5. queue' = queue
  BY DEF FunctionStep
<1>. QED
  BY <1>2, <1>3, <1>4, <1>5 DEF QueueConsistent, Active

LEMMA ArrivalKeepsQueue ==
  ASSUME TypeOK, QueueConsistent, NEW r \in Requests, NEW op \in Queued \cup Unqueued,
         NEW p, NEW c, Arrives(r, op, p, c)
  PROVE  QueueConsistent' /\ queue' \in Seq(Requests)
<1>1. /\ queue \in Seq(Requests) /\ Len(queue) \in Nat
      /\ \A i \in 1 .. Len(queue) : queue[i] \in Requests /\ queue[i] # r
  BY DEF TypeOK, QueueConsistent, Arrives
<1>2. /\ \A q \in Requests \ {r} : request'[q] = request[q]
      /\ request'[r].op = op
      /\ request'[r].pc = IF op \in Queued THEN "waiting" ELSE "servers"
  BY DEF Arrives, TypeOK
<1>3. ASSUME faults'.overruns = 0, NEW q \in Requests
      PROVE  (Active(q) /\ request[q].op \in Queued)' <=> q = running'
  BY <1>2, <1>3 DEF Arrives, QueueConsistent, Active
<1>4. CASE op \notin Queued
  BY <1>1, <1>2, <1>3, <1>4 DEF Arrives, QueueConsistent, Active
<1>5. CASE op \in Queued
  <2>1. PICK n \in 0 .. Len(queue) :
          /\ \A i \in 1 .. n : Priority(request[queue[i]].op) >= Priority(op)
          /\ \A i \in n + 1 .. Len(queue) : Priority(request[queue[i]].op) < Priority(op)
          /\ InsertAfter(n, r)
    BY <1>5 DEF Arrives, Enqueues
  <2>2. queue' \in Seq(Requests) /\ Len(queue') = Len(queue) + 1
    BY <1>1, <2>1, Inserted DEF InsertAfter
  <2>3. \A i \in 1 .. Len(queue) + 1 :
          queue'[i] = IF i <= n THEN queue[i] ELSE IF i = n + 1 THEN r ELSE queue[i - 1]
    BY <2>1 DEF InsertAfter
  <2>4. \A q \in Requests : request'[q].pc = "waiting" <=>
          \E i \in 1 .. Len(queue') : queue'[i] = q
    <3>1. queue'[n + 1] = r /\ n + 1 \in 1 .. Len(queue')
      BY <1>1, <2>2, <2>3
    <3>2. ASSUME NEW i \in 1 .. Len(queue)
          PROVE  \E j \in 1 .. Len(queue') : queue'[j] = queue[i]
      <4>1. CASE i <= n
        BY <1>1, <2>2, <2>3, <4>1
      <4>2. CASE i > n
        <5>1. i + 1 \in 1 .. Len(queue') /\ queue'[i + 1] = queue[i]
          BY <1>1, <2>2, <2>3, <4>2
        <5>. QED
          BY <5>1
      <4>. QED
        BY <1>1, <4>1, <4>2
    <3>3. ASSUME NEW j \in 1 .. Len(queue')
          PROVE  queue'[j] = r \/ \E i \in 1 .. Len(queue) : queue'[j] = queue[i]
      <4>1. CASE j <= n
        BY <1>1, <2>2, <2>3, <4>1
      <4>2. CASE j > n + 1
        <5>1. j - 1 \in 1 .. Len(queue) /\ queue'[j] = queue[j - 1]
          BY <1>1, <2>2, <2>3, <4>2
        <5>. QED
          BY <5>1
      <4>3. CASE j = n + 1
        BY <3>1, <4>3
      <4>. QED
        BY <1>1, <2>2, <4>1, <4>2, <4>3
    <3>. QED
      <4>1. \A q \in Requests \ {r} : request'[q].pc = "waiting" <=>
              \E i \in 1 .. Len(queue) : queue[i] = q
        BY <1>2 DEF QueueConsistent
      <4>2. \A q \in Requests \ {r} :
              (\E i \in 1 .. Len(queue) : queue[i] = q) <=> \E j \in 1 .. Len(queue') : queue'[j] = q
        BY <3>2, <3>3
      <4>3. request'[r].pc = "waiting"
        BY <1>2, <1>5
      <4>. QED
        BY <3>1, <4>1, <4>2, <4>3
  <2>5. ASSUME NEW i \in 1 .. Len(queue'), NEW j \in 1 .. Len(queue'), i < j
        PROVE  /\ queue'[i] # queue'[j]
               /\ Priority(request'[queue'[i]].op) >= Priority(request'[queue'[j]].op)
    <3>. DEFINE P(q) == Priority(request[q].op)
    <3>0. \A q \in Requests : P(q) \in Nat
      BY DEF Priority
    <3>1. Priority(op) \in Nat
      BY DEF Priority
    <3>2. \A q \in Requests : q # r => Priority(request'[q].op) = P(q)
      BY <1>2
    <3>3. Priority(request'[r].op) = Priority(op)
      BY <1>2
    <3>4. \A k, m \in 1 .. Len(queue) : k < m => queue[k] # queue[m] /\ P(queue[k]) >= P(queue[m])
      BY DEF QueueConsistent
    <3>5. /\ \A k \in 1 .. n : P(queue[k]) >= Priority(op)
          /\ \A k \in n + 1 .. Len(queue) : P(queue[k]) < Priority(op)
      BY <2>1
    <3>. HIDE DEF P
    <3>6. CASE i <= n /\ j <= n
      <4>1. /\ i \in 1 .. Len(queue) + 1 /\ j \in 1 .. Len(queue) + 1
            /\ i \in 1 .. Len(queue) /\ j \in 1 .. Len(queue)
            /\ queue'[i] = queue[i] /\ queue'[j] = queue[j]
        <5>1. i \in 1 .. Len(queue) + 1 /\ j \in 1 .. Len(queue) + 1
          BY <2>2
        <5>2. i \in 1 .. Len(queue) /\ j \in 1 .. Len(queue)
          BY <1>1, <3>6, <5>1
        <5>3. queue'[i] = queue[i]
          BY <2>3, <3>6, <5>1
        <5>4. queue'[j] = queue[j]
          BY <2>3, <3>6, <5>1
        <5>. QED
          BY <5>1, <5>2, <5>3, <5>4
      <4>2. queue[i] \in Requests /\ queue[j] \in Requests /\ queue[i] # r /\ queue[j] # r
        BY <1>1, <4>1
      <4>. QED
        BY <2>5, <3>2, <3>4, <4>1, <4>2
    <3>7. CASE i <= n /\ j = n + 1
      <4>1. i \in 1 .. n /\ i \in 1 .. Len(queue) /\ queue'[i] = queue[i] /\ queue'[j] = r
        BY <1>1, <2>2, <2>3, <3>7
      <4>2. queue[i] \in Requests /\ queue[i] # r
        BY <1>1, <4>1
      <4>. QED
        BY <3>2, <3>3, <3>5, <4>1, <4>2
    <3>8. CASE i <= n /\ j > n + 1
      <4>1. j - 1 \in 1 .. Len(queue) /\ i < j - 1 /\ i \in 1 .. Len(queue)
            /\ queue'[j] = queue[j - 1] /\ queue'[i] = queue[i]
        BY <1>1, <2>2, <2>3, <3>8
      <4>. QED
        BY <1>1, <3>2, <3>4, <4>1
    <3>9. CASE i = n + 1
      <4>1. j - 1 \in n + 1 .. Len(queue) /\ j - 1 \in 1 .. Len(queue)
            /\ queue'[j] = queue[j - 1] /\ queue'[i] = r
        BY <1>1, <2>2, <2>3, <2>5, <3>9
      <4>2. P(queue[j - 1]) < Priority(op) /\ queue[j - 1] # r /\ queue[j - 1] \in Requests
        BY <1>1, <3>5, <4>1
      <4>. QED
        BY <3>0, <3>1, <3>2, <3>3, <4>1, <4>2
    <3>10. CASE i > n + 1
      <4>1. i - 1 \in 1 .. Len(queue) /\ j - 1 \in 1 .. Len(queue) /\ i - 1 < j - 1
            /\ queue'[i] = queue[i - 1] /\ queue'[j] = queue[j - 1]
        BY <1>1, <2>2, <2>3, <2>5, <3>10
      <4>. QED
        BY <1>1, <3>2, <3>4, <4>1
    <3>. QED
      BY <1>1, <2>2, <2>5, <3>6, <3>7, <3>8, <3>9, <3>10
  <2>. QED
    BY <1>3, <2>2, <2>4, <2>5 DEF QueueConsistent, Active
<1>. QED
  BY <1>4, <1>5

LEMMA DequeueKeepsQueue ==
  ASSUME TypeOK, QueueConsistent, Scripted, Dequeues
  PROVE  QueueConsistent' /\ queue' \in Seq(Requests)
<1>. DEFINE r == Head(queue)
<1>1. /\ queue \in Seq(Requests) /\ Len(queue) \in Nat \ {0}
      /\ r \in Requests /\ r = queue[1]
      /\ queue' \in Seq(Requests) /\ Len(queue') = Len(queue) - 1
      /\ \A i \in 1 .. Len(queue') : queue'[i] = queue[i + 1]
  BY TailOf DEF Dequeues, TypeOK
<1>2. /\ \A q \in Requests \ {r} : request'[q] = request[q]
      /\ request'[r].op = request[r].op
      /\ request'[r].pc = "servers"
      /\ running = None /\ running' = r
  BY <1>1 DEF Dequeues, TypeOK, At
<1>. HIDE DEF r
<1>3. ASSUME NEW q \in Requests
      PROVE  request'[q].pc = "waiting" <=> \E i \in 1 .. Len(queue') : queue'[i] = q
  <2>1. CASE q = r
    <3>1. ASSUME NEW i \in 1 .. Len(queue')  PROVE queue'[i] # r
      <4>1. i + 1 \in 1 .. Len(queue) /\ 1 \in 1 .. Len(queue) /\ 1 < i + 1
        BY <1>1
      <4>. QED
        BY <1>1, <4>1 DEF QueueConsistent
    <3>. QED
      BY <1>2, <2>1, <3>1
  <2>2. CASE q # r
    <3>1. ASSUME NEW i \in 1 .. Len(queue), queue[i] = q
          PROVE  \E j \in 1 .. Len(queue') : queue'[j] = q
      <4>1. i - 1 \in 1 .. Len(queue')
        BY <1>1, <2>2, <3>1
      <4>2. queue'[i - 1] = queue[i]
        BY <1>1, <4>1
      <4>. QED
        BY <3>1, <4>1, <4>2
    <3>2. ASSUME NEW j \in 1 .. Len(queue'), queue'[j] = q
          PROVE  \E i \in 1 .. Len(queue) : queue[i] = q
      <4>1. j + 1 \in 1 .. Len(queue) /\ queue[j + 1] = q
        BY <1>1, <3>2
      <4>. QED
        BY <4>1
    <3>. QED
      BY <1>2, <2>2, <3>1, <3>2 DEF QueueConsistent
  <2>. QED
    BY <2>1, <2>2
<1>4. ASSUME NEW i \in 1 .. Len(queue'), NEW j \in 1 .. Len(queue'), i < j
      PROVE  /\ queue'[i] # queue'[j]
             /\ Priority(request'[queue'[i]].op) >= Priority(request'[queue'[j]].op)
  <2>1. /\ i + 1 \in 1 .. Len(queue) /\ j + 1 \in 1 .. Len(queue) /\ i + 1 < j + 1
        /\ queue'[i] = queue[i + 1] /\ queue'[j] = queue[j + 1]
    BY <1>1, <1>4
  <2>2. queue[i + 1] \in Requests /\ queue[j + 1] \in Requests
    BY <1>1, <2>1
  <2>3. \A q \in Requests : request'[q].op = request[q].op
    BY <1>2
  <2>. QED
    BY <2>1, <2>2, <2>3 DEF QueueConsistent
<1>5. ASSUME faults'.overruns = 0, NEW q \in Requests
      PROVE  (Active(q) /\ request[q].op \in Queued)' <=> q = running'
  <2>1. request[r].pc = "waiting"
    <3>1. 1 \in 1 .. Len(queue)
      BY <1>1
    <3>. QED
      BY <1>1, <3>1 DEF QueueConsistent
  <2>2. request[r].op \in Queued
    BY <1>1, <2>1 DEF Scripted, Fits
  <2>3. faults.overruns = 0
    BY <1>5 DEF Dequeues
  <2>. QED
    BY <1>1, <1>2, <2>3, <2>1, <2>2, PlayPortAssumption DEF QueueConsistent, Active
<1>. QED
  BY <1>1, <1>3, <1>4, <1>5 DEF QueueConsistent, Active
-----------------------------------------------------------------------------
(* Types *)

LEMMA InModeTyped ==
  ASSUME NEW s \in PortType, NEW m \in {"undefined", "idle", "playing"}
  PROVE  InMode(s, m) \in PortType
BY DEF InMode, Cleared, PortType

LEMMA AtTyped ==
  ASSUME TypeOK, Scripted, NEW r \in Requests, Active(r),
         NEW pc \in {"idle", "servers", "native"}, NEW todo \in Seq(Calls),
         NEW handle \in {"none", "live", "dead"},
         NEW result \in {"none", "ok", "known", "refused", "error"},
         pc = "servers" => \/ todo = << >>
                           \/ request[r].op = "properties" /\ todo = WipeScript,
         pc = "native" =>
           /\ todo # << >>
           /\ request[r].op # "create" => \A i \in 1 .. Len(todo) : todo[i] # "assign"
  PROVE  At(r, pc, todo, handle, result) \in RequestType /\ Fits(At(r, pc, todo, handle, result))
<1>1. request[r] \in RequestType
  BY DEF TypeOK
<1>2. /\ request[r].op \in Queued \cup Unqueued /\ request[r].port \in Ports
      /\ request[r].op = "create" => request[r].channel \in Channels
  BY DEF Scripted, Fits, Active
<1>. QED
  BY <1>1, <1>2 DEF At, RequestType, Fits

LEMMA ResultTyped ==
  ASSUME TypeOK, Scripted, NEW r \in Requests, Active(r),
         NEW result \in {"none", "ok", "known", "refused", "error"}
  PROVE  Result(r, result) \in RequestType /\ Fits(Result(r, result))
<1>1. << >> \in Seq(Calls)
  OBVIOUS
<1>. QED
  BY <1>1, AtTyped, Zenon DEF Result

LEMMA NativeTyped ==
  ASSUME TypeOK, Scripted, NEW r \in Requests, Active(r), NEW op \in Queued \cup Unqueued,
         op = request[r].op \/ request[r].op = "create" \/ op = "wipe"
  PROVE  Native(r, op) \in RequestType /\ Fits(Native(r, op))
BY AtTyped, ScriptType DEF Native

LEMMA EndsTyped ==
  ASSUME TypeOK, Scripted, NEW r \in Requests, Active(r),
         NEW v \in {"none", "ok", "known", "refused", "error"}, Ends(r, v)
  PROVE  request' \in [Requests -> RequestType] /\ Scripted'
<1>1. Result(r, v) \in RequestType /\ Fits(Result(r, v))
  BY ResultTyped
<1>2. request' = [request EXCEPT ![r] = Result(r, v)]
  BY DEF Ends
<1>3. \A q \in Requests : request'[q] = IF q = r THEN Result(r, v) ELSE request[q]
  BY <1>2 DEF TypeOK
<1>. HIDE DEF Result
<1>4. request' \in [Requests -> RequestType]
  BY <1>1, <1>2 DEF TypeOK
<1>. QED
  BY <1>1, <1>3, <1>4 DEF Scripted

LEMMA GoesOnTyped ==
  ASSUME TypeOK, Scripted, NEW r \in Requests, NEW next \in RequestType, Fits(next),
         GoesOn(r, next)
  PROVE  request' \in [Requests -> RequestType] /\ Scripted'
<1>1. request' = [request EXCEPT ![r] = next]
  BY DEF GoesOn
<1>2. \A q \in Requests : request'[q] = IF q = r THEN next ELSE request[q]
  BY <1>1 DEF TypeOK
<1>3. request' \in [Requests -> RequestType]
  BY <1>1 DEF TypeOK
<1>. QED
  BY <1>2, <1>3 DEF Scripted

LEMMA ScriptLeft ==
  ASSUME TypeOK, Scripted, NEW r \in Requests, request[r].pc = "native"
  PROVE  /\ request[r].todo \in Seq(Calls) /\ request[r].todo # << >>
         /\ Tail(request[r].todo) \in Seq(Calls)
         /\ ~LastCall(r) =>
              /\ Tail(request[r].todo) # << >>
              /\ request[r].op # "create" =>
                   \A i \in 1 .. Len(Tail(request[r].todo)) : Tail(request[r].todo)[i] # "assign"
         /\ NextCall(r) = "assign" => request[r].channel \in Channels
<1>. DEFINE s == request[r].todo
<1>1. s \in Seq(Calls) /\ s # << >>
  BY DEF TypeOK, RequestType, Scripted, Fits
<1>2. /\ Len(s) \in Nat \ {0} /\ Head(s) = s[1]
      /\ Tail(s) \in Seq(Calls) /\ Len(Tail(s)) = Len(s) - 1
      /\ \A i \in 1 .. Len(Tail(s)) : Tail(s)[i] = s[i + 1]
  BY <1>1, TailOf, Zenon
<1>3. /\ request[r].op # "create" => \A i \in 1 .. Len(s) : s[i] # "assign"
      /\ request[r].op = "create" => request[r].channel \in Channels
  BY DEF Scripted, Fits
<1>. HIDE DEF s
<1>4. ~LastCall(r) => Tail(s) # << >>
  <2>1. ~LastCall(r) => Len(Tail(s)) # 0
    BY <1>2 DEF LastCall, s
  <2>. QED
    BY <1>2, <2>1
<1>5. request[r].op # "create" => \A i \in 1 .. Len(Tail(s)) : Tail(s)[i] # "assign"
  <2>1. \A i \in 1 .. Len(Tail(s)) : i + 1 \in 1 .. Len(s)
    BY <1>2
  <2>. QED
    BY <1>2, <1>3, <2>1
<1>6. NextCall(r) = "assign" => request[r].channel \in Channels
  <2>1. 1 \in 1 .. Len(s) /\ NextCall(r) = s[1]
    BY <1>2 DEF NextCall, s
  <2>. QED
    BY <1>3, <2>1
<1>. QED
  BY <1>1, <1>2, <1>4, <1>5, <1>6 DEF s

LEMMA AfterTyped ==
  ASSUME TypeOK, Scripted, NEW r \in Requests, request[r].pc = "native"
  PROVE  After(r, port[request[r].port]) \in PortType
<1>. DEFINE s == port[request[r].port]
            a == After(r, s)
<1>1. s \in PortType
  BY DEF TypeOK, Scripted, Fits
<1>2. NewPort \in PortType
  BY DEF NewPort, Absent, PortType
<1>3. InMode(s, "idle") \in PortType /\ InMode(s, "playing") \in PortType
  BY <1>1, InModeTyped
<1>4. Cleared(s, s.mode) \in PortType
  BY <1>1 DEF Cleared, PortType
<1>5. /\ [s EXCEPT !.armed = TRUE] \in PortType
      /\ [s EXCEPT !.loaded = TRUE] \in PortType
      /\ [s EXCEPT !.loaded = FALSE] \in PortType
  BY <1>1 DEF PortType
<1>6. NextCall(r) = "assign" =>
        [InMode(s, "idle") EXCEPT !.channels = @ \cup {request[r].channel}] \in PortType
  <2>1. NextCall(r) = "assign" => request[r].channel \in Channels
    BY ScriptLeft
  <2>. HIDE DEF s
  <2>. QED
    BY <1>3, <2>1 DEF PortType
<1>. QED
  BY <1>1, <1>2, <1>3, <1>4, <1>5, <1>6, Zenon DEF After

LEMMA ContinuesTyped ==
  ASSUME TypeOK, Scripted, NEW r \in Requests, request[r].pc = "native", Continues(r)
  PROVE  request' \in [Requests -> RequestType] /\ Scripted'
<1>1. Active(r)
  BY DEF Active
<1>2. CASE LastCall(r)
  <2>1. Ends(r, ResultOf(r))
    BY <1>2 DEF Continues
  <2>2. ResultOf(r) \in {"none", "ok", "known", "refused", "error"}
    BY DEF ResultOf
  <2>. QED
    BY <1>1, <2>1, <2>2, EndsTyped
<1>3. CASE ~LastCall(r)
  <2>. DEFINE next == At(r, "native", Tail(request[r].todo), "live", "none")
  <2>1. GoesOn(r, next)
    BY <1>3 DEF Continues
  <2>2. next \in RequestType /\ Fits(next)
    BY <1>1, <1>3, ScriptLeft, AtTyped
  <2>. HIDE DEF next
  <2>. QED
    BY <2>1, <2>2, GoesOnTyped
<1>. QED
  BY <1>2, <1>3

LEMMA FunctionTyped ==
  ASSUME TypeOK, Scripted, NEW r \in Requests, Function(r) \/ RemoteFails(r)
  PROVE  /\ request' \in [Requests -> RequestType] /\ Scripted'
         /\ port' \in [Ports -> PortType] /\ UNCHANGED taken
         /\ faults' \in [calls : 0 .. MaxFailures, overruns : 0 .. MaxOverruns]
<1>1. Active(r)
  BY FunctionSteps DEF FunctionStep
<1>2. /\ request[r] \in RequestType /\ port \in [Ports -> PortType]
      /\ faults \in [calls : 0 .. MaxFailures, overruns : 0 .. MaxOverruns]
      /\ request[r].op \in Queued \cup Unqueued /\ request[r].port \in Ports
  BY <1>1 DEF TypeOK, Scripted, Fits, Active
<1>3. CASE GetsServers(r)
  <2>1. UNCHANGED << port, taken, faults >>
    BY <1>3 DEF GetsServers
  <2>2. CASE CreateChecks(r)
    <3>1. "status" \in Queued /\ "create" \in Queued
      BY DEF Queued
    <3>2. CASE Ends(r, "refused")
      BY <1>1, <1>2, <2>1, <3>2, EndsTyped
    <3>3. CASE GoesOn(r, Native(r, "status")) \/ GoesOn(r, Native(r, "create"))
      BY <1>1, <1>2, <2>1, <2>2, <3>1, <3>3, GoesOnTyped, NativeTyped DEF CreateChecks
    <3>. QED
      BY <2>2, <3>2, <3>3 DEF CreateChecks
  <2>3. CASE PortChecks(r)
    <3>1. "wipe" \in Queued \cup Unqueued
      BY DEF Unqueued
    <3>2. CASE Ends(r, "refused")
      BY <1>1, <1>2, <2>1, <3>2, EndsTyped
    <3>3. CASE GoesOn(r, Native(r, request[r].op)) \/ GoesOn(r, Native(r, "wipe"))
      BY <1>1, <1>2, <2>1, <3>1, <3>3, GoesOnTyped, NativeTyped
    <3>. QED
      BY <2>3, <3>2, <3>3 DEF PortChecks
  <2>. QED
    BY <1>3, <2>2, <2>3 DEF GetsServers
<1>4. CASE RemoteCall(r)
  <2>1. /\ request[r].pc = "native" /\ UNCHANGED << taken, faults >>
        /\ port' = [port EXCEPT ![request[r].port] = After(r, port[request[r].port])]
    BY <1>4 DEF RemoteCall, Succeeds, Continues
  <2>2. port' \in [Ports -> PortType]
    BY <1>2, <2>1, AfterTyped
  <2>. QED
    BY <1>1, <1>2, <1>4, <2>1, <2>2, ContinuesTyped DEF RemoteCall, Succeeds
<1>5. ASSUME NEW v \in {"ok", "error"}, Releases(r, v),
             faults' \in [calls : 0 .. MaxFailures, overruns : 0 .. MaxOverruns]
      PROVE  /\ request' \in [Requests -> RequestType] /\ Scripted'
             /\ port' \in [Ports -> PortType] /\ UNCHANGED taken
  <2>1. Absent \in PortType
    BY DEF Absent, PortType
  <2>2. port' \in [Ports -> PortType]
    BY <1>2, <1>5, <2>1 DEF Releases
  <2>3. Result(r, v) \in RequestType /\ Fits(Result(r, v))
    BY <1>1, ResultTyped
  <2>4. ASSUME NEW q \in Requests
        PROVE  LET e == At(q, request[q].pc, request[q].todo, "dead", "none")
               IN  e \in RequestType /\ Fits(e)
    BY DEF At, TypeOK, RequestType, Scripted, Fits
  <2>5. ASSUME NEW q \in Requests
        PROVE  request[q] \in RequestType /\ Fits(request[q])
    BY DEF TypeOK, Scripted
  <2>6. ASSUME NEW q \in Requests
        PROVE  request'[q] \in RequestType /\ Fits(request'[q])
    <3>1. request'[q] \in {Result(r, v), request[q],
                           At(q, request[q].pc, request[q].todo, "dead", "none")}
      BY <1>5 DEF Releases
    <3>. QED
      BY <2>3, <2>4, <2>5, <3>1, Zenon
  <2>7. request' = [q \in Requests |-> request'[q]]
    BY <1>5 DEF Releases
  <2>. QED
    BY <1>2, <1>5, <2>2, <2>6, <2>7 DEF Releases, Scripted
<1>6. CASE NoPortLeft(r) \/ LoadRefused(r)
  BY <1>1, <1>2, <1>6, EndsTyped DEF NoPortLeft, LoadRefused
<1>7. CASE FindsPortDeleted(r)
  <2>. DEFINE next == At(r, "servers", CalledAgain(r), "none", "none")
  <2>1. /\ CalledAgain(r) \in Seq(Calls)
        /\ \/ CalledAgain(r) = << >>
           \/ request[r].op = "properties" /\ CalledAgain(r) = WipeScript
    <3>1. << >> \in Seq(Calls) /\ WipeScript \in Seq(Calls)
      BY ScriptsTyped DEF WipeScript
    <3>. QED
      BY <3>1, Zenon DEF CalledAgain
  <2>2. next \in RequestType /\ Fits(next)
    BY <1>1, <2>1, AtTyped
  <2>3. GoesOn(r, next) /\ UNCHANGED << port, taken, faults >>
    BY <1>7 DEF FindsPortDeleted
  <2>. HIDE DEF next
  <2>. QED
    BY <1>2, <2>2, <2>3, GoesOnTyped
<1>8. CASE RemoteFails(r)
  <2>1. request[r].pc = "native" /\ UNCHANGED taken
    BY <1>8 DEF RemoteFails
  <2>2. faults' \in [calls : 0 .. MaxFailures, overruns : 0 .. MaxOverruns]
    BY <1>2, <1>8, PlayPortAssumption DEF RemoteFails
  <2>3. CASE Ends(r, "error") /\ port' \in [Ports -> PortType]
    BY <1>1, <2>1, <2>2, <2>3, EndsTyped
  <2>4. CASE Releases(r, "error")
    BY <1>5, <2>1, <2>2, <2>4
  <2>5. CASE Continues(r) /\ UNCHANGED port
    BY <1>1, <1>2, <2>1, <2>2, <2>5, ContinuesTyped
  <2>6. port' = port \/ port' = [port EXCEPT ![request[r].port] = After(r, port[request[r].port])]
          => port' \in [Ports -> PortType]
    BY <1>2, <2>1, AfterTyped
  <2>. QED
    BY <1>8, <2>3, <2>4, <2>5, <2>6 DEF RemoteFails
<1>9. CASE Deletes(r)
  BY <1>2, <1>5, <1>9 DEF Deletes
<1>. QED
  BY <1>3, <1>4, <1>6, <1>7, <1>8, <1>9 DEF Function
-----------------------------------------------------------------------------
LEMMA InitHolds == Init => IInv
<1>. SUFFICES ASSUME Init PROVE IInv
  OBVIOUS
<1>1. TypeOK
  <2>1. Absent \in PortType
    BY DEF Absent, PortType
  <2>2. << >> \in Seq(Calls) /\ << >> \in Seq(Requests)
    OBVIOUS
  <2>3. Done \in RequestType
    BY <2>2 DEF Done, RequestType
  <2>. QED
    BY <2>1, <2>2, <2>3, PlayPortAssumption DEF Init, TypeOK
<1>2. QueueConsistent
  BY PlayPortAssumption DEF Init, QueueConsistent, Active, Done
<1>3. Scripted
  BY DEF Init, Scripted, Fits, Done
<1>. QED
  BY <1>1, <1>2, <1>3 DEF IInv

LEMMA ArrivalTyped ==
  ASSUME IInv, NEW r \in Requests, NEW op \in Queued \cup Unqueued, NEW p \in Ports,
         NEW c \in (IF op = "create" THEN Channels ELSE {None}), Arrives(r, op, p, c)
  PROVE  request' \in [Requests -> RequestType] /\ Scripted'
<1>. DEFINE e == [pc |-> IF op \in Queued THEN "waiting" ELSE "servers", op |-> op, port |-> p,
                  channel |-> c, todo |-> << >>, handle |-> "none", result |-> "none"]
<1>1. << >> \in Seq(Calls)
  OBVIOUS
<1>2. e \in RequestType /\ Fits(e)
  BY <1>1 DEF RequestType, Fits
<1>3. request \in [Requests -> RequestType] /\ Scripted
  BY DEF IInv, TypeOK
<1>4. request' = [request EXCEPT ![r] = e]
  BY DEF Arrives
<1>. HIDE DEF e
<1>5. \A q \in Requests : request'[q] = IF q = r THEN e ELSE request[q]
  BY <1>3, <1>4
<1>. QED
  BY <1>2, <1>3, <1>4, <1>5 DEF Scripted

LEMMA StepHolds == IInv /\ [Next]_vars => IInv'
<1>. SUFFICES ASSUME IInv, [Next]_vars PROVE IInv'
  OBVIOUS
<1>1. TypeOK /\ QueueConsistent /\ Scripted
  BY DEF IInv
<1>2. CASE Dequeues
  <2>1. QueueConsistent' /\ queue' \in Seq(Requests)
    BY <1>1, <1>2, DequeueKeepsQueue
  <2>. DEFINE r == Head(queue)
              e == At(r, "servers", << >>, "none", "none")
  <2>2. r \in Requests
    BY <1>1, <1>2, TailOf DEF Dequeues, TypeOK
  <2>3. << >> \in Seq(Calls)
    OBVIOUS
  <2>4. request[r].pc = "waiting"
    <3>1. 1 \in 1 .. Len(queue) /\ r = queue[1]
      BY <1>1, <1>2, TailOf DEF Dequeues, TypeOK
    <3>. QED
      BY <1>1, <2>2, <3>1 DEF QueueConsistent
  <2>5. e \in RequestType /\ Fits(e)
    BY <1>1, <2>2, <2>3, <2>4 DEF TypeOK, RequestType, Scripted, Fits, At
  <2>6. request' = [request EXCEPT ![r] = e] /\ UNCHANGED << port, taken, faults >>
        /\ running' = r
    BY <1>2 DEF Dequeues
  <2>. HIDE DEF e, r
  <2>7. \A q \in Requests : request'[q] = IF q = r THEN e ELSE request[q]
    BY <1>1, <2>6 DEF TypeOK
  <2>8. Scripted'
    BY <1>1, <2>5, <2>7 DEF Scripted
  <2>9. TypeOK'
    BY <1>1, <2>1, <2>2, <2>5, <2>6 DEF TypeOK
  <2>. QED
    BY <2>1, <2>8, <2>9 DEF IInv
<1>3. CASE QueueTimesOut
  BY <1>1, <1>3, PlayPortAssumption DEF QueueTimesOut, IInv, TypeOK, QueueConsistent, Scripted, Active
<1>4. ASSUME NEW r \in Requests, NEW op \in Allowed, NEW p \in Ports,
             NEW c \in (IF op = "create" THEN Channels ELSE {None}), Arrives(r, op, p, c)
      PROVE  IInv'
  <2>1. op \in Queued \cup Unqueued
    BY PlayPortAssumption
  <2>2. QueueConsistent' /\ queue' \in Seq(Requests)
    BY <1>1, <1>4, <2>1, ArrivalKeepsQueue
  <2>3. request' \in [Requests -> RequestType] /\ Scripted'
    BY <1>4, <2>1, ArrivalTyped
  <2>4. TypeOK'
    BY <1>1, <1>4, <2>2, <2>3 DEF Arrives, TypeOK
  <2>. QED
    BY <2>2, <2>3, <2>4 DEF IInv
<1>5. ASSUME NEW r \in Requests, Function(r) \/ RemoteFails(r)
      PROVE  IInv'
  <2>1. QueueConsistent'
    BY <1>1, <1>5, FunctionSteps, FunctionKeepsOverruns, FunctionKeepsQueue
  <2>2. /\ request' \in [Requests -> RequestType] /\ Scripted'
        /\ port' \in [Ports -> PortType] /\ UNCHANGED taken
        /\ faults' \in [calls : 0 .. MaxFailures, overruns : 0 .. MaxOverruns]
    BY <1>1, <1>5, FunctionTyped
  <2>3. queue' = queue /\ running' \in {running, None}
    BY <1>1, <1>5, FunctionSteps DEF FunctionStep
  <2>4. TypeOK'
    BY <1>1, <2>2, <2>3 DEF TypeOK
  <2>. QED
    BY <2>1, <2>2, <2>4 DEF IInv
<1>6. ASSUME NEW c \in Channels, RivalTakes(c) \/ RivalLeaves(c)
      PROVE  IInv'
  BY <1>1, <1>6 DEF RivalTakes, RivalLeaves, IInv, TypeOK, QueueConsistent, Scripted, Active
<1>7. CASE UNCHANGED vars
  BY <1>1, <1>7 DEF vars, IInv, TypeOK, QueueConsistent, Scripted, Active
<1>. QED
  BY <1>2, <1>3, <1>4, <1>5, <1>6, <1>7 DEF Next

(* The variables keep their types, whatever is asked of the ports, fails,  *)
(* overruns or is taken by another system (server.ts:424-475, port.cc).    *)
THEOREM PortTypeCorrect == Spec => []TypeOK
<1>1. IInv => TypeOK
  BY DEF IInv
<1>. QED
  BY <1>1, InitHolds, StepHolds, PTL DEF Spec

(* The queue (server.ts:31-35) holds every waiting request once, resets    *)
(* first; and unless a function outlasts the timeout, the function the     *)
(* queue waits for is the only queued one under way.                       *)
THEOREM QueueExclusion == Spec => []QueueConsistent
<1>1. IInv => QueueConsistent
  BY DEF IInv
<1>. QED
  BY <1>1, InitHolds, StepHolds, PTL DEF Spec
-----------------------------------------------------------------------------
(* Without failures, overruns, rivals and operations beside the queue a    *)
(* port is incomplete only while the function that the queue waits for is  *)
(* at work on it, and how far it is tells what the port has so far.        *)
Undisturbed ==
  Allowed \subseteq Queued /\ MaxFailures = 0 /\ MaxOverruns = 0 /\ ~Rivals

Complete(s) == s.exists /\ s.channels # {} /\ s.mode = "playing" /\ s.armed
Sound(s) == s.exists => Complete(s)

(* A function that has `todo' left to do for channel c, at a port in state s *)
Untouched == { << "getPort", "read" >>, << "read" >>,
               << "getPort", "clear", "play", "arm" >>, << "clear", "play", "arm" >>,
               << "getPort", "idle", "clear", "delete" >>, << "idle", "clear", "delete" >> }
Stage(todo, s, c) ==
  \/ todo \in Untouched /\ Complete(s)
  \/ todo = << "getPort", "assign", "play", "arm" >> /\ ~s.exists /\ ~InUse(c)
  \/ todo = << "assign", "play", "arm" >> /\ s.exists /\ ~InUse(c)
  \/ todo = << "play", "arm" >> /\ s.exists /\ s.channels # {}
  \/ todo = << "arm" >> /\ s.exists /\ s.channels # {} /\ s.mode = "playing"
  \/ todo \in { << "clear", "delete" >>, << "delete" >> }

AtWork(r, p) == r = running /\ request[r].pc = "native" /\ request[r].port = p
Building ==
  /\ taken = {}
  /\ \A r \in Requests :
       /\ Active(r) => request[r].op \in Queued
       /\ request[r].pc # "native" => request[r].handle = "none" /\ request[r].todo = << >>
       /\ request[r].pc = "native" =>
            /\ request[r].handle # "dead"
            /\ Stage(request[r].todo, port[request[r].port], request[r].channel)
  /\ \A p \in Ports : Sound(port[p]) \/ \E r \in Requests : AtWork(r, p)

LEMMA Todos ==
  /\ Head(<< "read" >>) = "read" /\ Len(<< "read" >>) = 1
  /\ Head(<< "arm" >>) = "arm" /\ Len(<< "arm" >>) = 1
  /\ Head(<< "delete" >>) = "delete" /\ Len(<< "delete" >>) = 1
  /\ Head(<< "clear", "delete" >>) = "clear" /\ Len(<< "clear", "delete" >>) = 2
  /\ Tail(<< "clear", "delete" >>) = << "delete" >>
  /\ Head(<< "play", "arm" >>) = "play" /\ Len(<< "play", "arm" >>) = 2
  /\ Tail(<< "play", "arm" >>) = << "arm" >>
  /\ Head(<< "getPort", "read" >>) = "getPort" /\ Len(<< "getPort", "read" >>) = 2
  /\ Tail(<< "getPort", "read" >>) = << "read" >>
  /\ Head(<< "assign", "play", "arm" >>) = "assign" /\ Len(<< "assign", "play", "arm" >>) = 3
  /\ Tail(<< "assign", "play", "arm" >>) = << "play", "arm" >>
  /\ Head(<< "clear", "play", "arm" >>) = "clear" /\ Len(<< "clear", "play", "arm" >>) = 3
  /\ Tail(<< "clear", "play", "arm" >>) = << "play", "arm" >>
  /\ Head(<< "idle", "clear", "delete" >>) = "idle" /\ Len(<< "idle", "clear", "delete" >>) = 3
  /\ Tail(<< "idle", "clear", "delete" >>) = << "clear", "delete" >>
  /\ Head(<< "getPort", "assign", "play", "arm" >>) = "getPort"
  /\ Len(<< "getPort", "assign", "play", "arm" >>) = 4
  /\ Tail(<< "getPort", "assign", "play", "arm" >>) = << "assign", "play", "arm" >>
  /\ Head(<< "getPort", "clear", "play", "arm" >>) = "getPort"
  /\ Len(<< "getPort", "clear", "play", "arm" >>) = 4
  /\ Tail(<< "getPort", "clear", "play", "arm" >>) = << "clear", "play", "arm" >>
  /\ Head(<< "getPort", "idle", "clear", "delete" >>) = "getPort"
  /\ Len(<< "getPort", "idle", "clear", "delete" >>) = 4
  /\ Tail(<< "getPort", "idle", "clear", "delete" >>) = << "idle", "clear", "delete" >>
OBVIOUS

(* Only the function that the queue waits for is active. *)
LEMMA OneActive ==
  ASSUME IInv, Undisturbed, Building, NEW r \in Requests, Active(r)
  PROVE  r = running /\ \A q \in Requests \ {r} : ~Active(q)
<1>1. faults.overruns = 0
  BY DEF IInv, TypeOK, Undisturbed
<1>. QED
  BY <1>1 DEF IInv, QueueConsistent, Building

(* It leaves every other port alone; its own it leaves in order when it    *)
(* ends, or in the state that goes with what it has left to do.            *)
LEMMA LocalStep ==
  ASSUME IInv, Undisturbed, Building, NEW r \in Requests, Active(r),
         taken' = taken,
         \A q \in Requests \ {r} : request'[q] = request[q],
         \A p \in Ports \ {request[r].port} : port'[p] = port[p],
         request'[r].port = request[r].port, request'[r].op = request[r].op,
         \/ /\ request'[r].pc \in {"idle", "servers"} /\ request'[r].handle = "none"
            /\ request'[r].todo = << >>
            /\ Sound(port'[request[r].port])
         \/ /\ request'[r].pc = "native" /\ request'[r].handle # "dead"
            /\ running' = running
            /\ Stage(request[r].todo, port[request[r].port], request[r].channel)'
  PROVE  Building'
<1>1. r = running /\ \A q \in Requests \ {r} : ~Active(q)
  BY OneActive
<1>2. taken' = {}
  BY DEF Building
<1>3. ASSUME NEW q \in Requests
      PROVE  /\ Active(q)' => request'[q].op \in Queued
             /\ request'[q].pc # "native" => request'[q].handle = "none" /\ request'[q].todo = << >>
             /\ request'[q].pc = "native" =>
                  /\ request'[q].handle # "dead"
                  /\ Stage(request[q].todo, port[request[q].port], request[q].channel)'
  <2>1. CASE q = r
    BY <2>1 DEF Building, Active
  <2>2. CASE q # r
    BY <1>1, <2>2 DEF Building, Active
  <2>. QED
    BY <2>1, <2>2
<1>4. ASSUME NEW p \in Ports
      PROVE  Sound(port[p])' \/ \E q \in Requests : AtWork(q, p)'
  <2>1. CASE p = request[r].port
    BY <1>1, <2>1 DEF AtWork, Sound, Complete
  <2>2. CASE p # request[r].port
    <3>1. ~\E q \in Requests : AtWork(q, p)
      BY <1>1, <2>2 DEF AtWork
    <3>. QED
      BY <2>2, <3>1 DEF Building, Sound, Complete
  <2>. QED
    BY <2>1, <2>2
<1>. QED
  BY <1>2, <1>3, <1>4 DEF Building

LEMMA AfterIs ==
  ASSUME NEW r \in Requests, NEW s
  PROVE  /\ NextCall(r) = "getPort" => After(r, s) = IF s.exists THEN s ELSE NewPort
         /\ NextCall(r) = "assign" /\ ~InUse(request[r].channel) =>
              After(r, s) = [InMode(s, "idle") EXCEPT !.channels = @ \cup {request[r].channel}]
         /\ NextCall(r) = "play" => After(r, s) = InMode(s, "playing")
         /\ NextCall(r) = "idle" => After(r, s) = InMode(s, "idle")
         /\ NextCall(r) = "clear" => After(r, s) = Cleared(s, s.mode)
         /\ NextCall(r) = "arm" => After(r, s) = [s EXCEPT !.armed = TRUE]
         /\ NextCall(r) = "read" => After(r, s) = s
BY DEF After

LEMMA RemoteStep ==
  ASSUME IInv, Undisturbed, Building, NEW r \in Requests, RemoteCall(r)
  PROVE  Building'
<1>. DEFINE p == request[r].port
            s == port[p]
            t == After(r, s)
            c == request[r].channel
            todo == request[r].todo
<1>1. /\ Active(r) /\ request[r].pc = "native" /\ NextCall(r) # "delete"
      /\ port' = [port EXCEPT ![p] = t]
      /\ taken' = taken
      /\ Stage(todo, s, c)
  BY DEF RemoteCall, Succeeds, Continues, Active, Building
<1>2. /\ request \in [Requests -> RequestType] /\ port \in [Ports -> PortType]
      /\ p \in Ports /\ request[r].op \in Queued \cup Unqueued
      /\ request[r].op = "create" => c \in Channels
  BY <1>1 DEF IInv, TypeOK, Scripted, Fits
<1>3. s \in PortType
  BY <1>2
<1>4. /\ port'[p] = t
      /\ \A q \in Ports \ {p} : port'[q] = port[q]
  BY <1>1, <1>2
<1>5. CASE LastCall(r)
  <2>1. todo \in { << "read" >>, << "arm" >> }
    BY <1>1, <1>5, Todos DEF LastCall, NextCall, Stage, Untouched
  <2>2. ASSUME todo = << "read" >>  PROVE Complete(t)
    <3>1. Complete(s)
      BY <1>1, <2>2, Todos DEF Stage, Untouched
    <3>2. t = s
      BY <2>2, AfterIs, Todos DEF NextCall
    <3>. QED
      BY <3>1, <3>2, Zenon
  <2>3. ASSUME todo = << "arm" >>  PROVE Complete(t)
    <3>1. s.exists /\ s.channels # {} /\ s.mode = "playing"
      BY <1>1, <2>3, Todos DEF Stage, Untouched, Complete
    <3>2. t = [s EXCEPT !.armed = TRUE]
      BY <2>3, AfterIs, Todos DEF NextCall
    <3>. HIDE DEF s, t
    <3>. QED
      BY <1>3, <3>1, <3>2 DEF Complete, PortType
  <2>4. Sound(t)
    BY <2>1, <2>2, <2>3, Zenon DEF Sound
  <2>5. Ends(r, ResultOf(r))
    BY <1>5 DEF RemoteCall, Succeeds, Continues
  <2>6. /\ \A q \in Requests \ {r} : request'[q] = request[q]
        /\ request'[r].port = p /\ request'[r].op = request[r].op
        /\ request'[r].pc = "idle" /\ request'[r].handle = "none" /\ request'[r].todo = << >>
    BY <1>2, <2>5 DEF Ends, Result, At
  <2>. QED
    BY <1>1, <1>4, <2>4, <2>6, LocalStep DEF Sound, Complete
<1>6. CASE ~LastCall(r)
  <2>1. GoesOn(r, At(r, "native", Tail(todo), "live", "none"))
    BY <1>6 DEF RemoteCall, Succeeds, Continues
  <2>2. /\ \A q \in Requests \ {r} : request'[q] = request[q]
        /\ request'[r].port = p /\ request'[r].op = request[r].op
        /\ request'[r].channel = c /\ request'[r].todo = Tail(todo)
        /\ request'[r].pc = "native" /\ request'[r].handle = "live"
        /\ running' = running
    BY <1>2, <2>1 DEF GoesOn, At
  <2>3. Stage(request[r].todo, port[request[r].port], request[r].channel)'
    <3>1. CASE todo \in Untouched /\ Complete(s)
      <4>1. CASE todo \in { << "getPort", "read" >>, << "getPort", "clear", "play", "arm" >>,
                            << "getPort", "idle", "clear", "delete" >> }
        <5>1. t = s
          BY <3>1, <4>1, AfterIs, Todos DEF NextCall, Complete
        <5>2. Tail(todo) \in Untouched
          BY <4>1, Todos DEF Untouched
        <5>. QED
          BY <1>4, <2>2, <3>1, <5>1, <5>2 DEF Stage, Complete
      <4>2. CASE todo = << "clear", "play", "arm" >>
        <5>1. t = Cleared(s, s.mode)
          BY <4>2, AfterIs, Todos DEF NextCall
        <5>2. t.exists /\ t.channels # {}
          BY <3>1, <5>1 DEF Cleared, Complete
        <5>3. Tail(todo) = << "play", "arm" >>
          BY <4>2, Todos
        <5>. QED
          BY <1>4, <2>2, <5>2, <5>3 DEF Stage
      <4>3. CASE todo = << "idle", "clear", "delete" >>
        BY <2>2, <4>3, Todos DEF Stage
      <4>4. CASE todo = << "read" >>
        BY <1>6, <4>4, Todos DEF LastCall
      <4>. QED
        BY <3>1, <4>1, <4>2, <4>3, <4>4 DEF Untouched
    <3>2. CASE todo = << "getPort", "assign", "play", "arm" >> /\ ~s.exists /\ ~InUse(c)
      <4>1. t = NewPort
        BY <3>2, AfterIs, Todos DEF NextCall
      <4>2. t.exists /\ t.channels = {}
        BY <4>1 DEF NewPort, Absent
      <4>3. ~InUse(c)'
        <5>. HIDE DEF t, s, p, c
        <5>1. c \notin taken' /\ \A q \in Ports \ {p} : c \notin port'[q].channels
          BY <1>1, <1>4, <3>2 DEF InUse
        <5>2. c \notin port'[p].channels
          BY <1>4, <4>2
        <5>. QED
          BY <2>2, <5>1, <5>2 DEF InUse, c
      <4>4. Tail(todo) = << "assign", "play", "arm" >>
        BY <3>2, Todos
      <4>. QED
        BY <1>4, <2>2, <4>2, <4>3, <4>4 DEF Stage, InUse
    <3>3. CASE todo = << "assign", "play", "arm" >> /\ s.exists /\ ~InUse(c)
      <4>1. t = [InMode(s, "idle") EXCEPT !.channels = @ \cup {c}]
        BY <3>3, AfterIs, Todos DEF NextCall
      <4>2. InMode(s, "idle") \in PortType /\ InMode(s, "idle").exists
        BY <1>3, <3>3, InModeTyped DEF InMode, Cleared
      <4>3. t.exists /\ t.channels # {}
        BY <4>1, <4>2 DEF PortType
      <4>4. Tail(todo) = << "play", "arm" >>
        BY <3>3, Todos
      <4>. QED
        BY <1>4, <2>2, <4>3, <4>4 DEF Stage
    <3>4. CASE todo = << "play", "arm" >> /\ s.exists /\ s.channels # {}
      <4>1. t = InMode(s, "playing")
        BY <3>4, AfterIs, Todos DEF NextCall
      <4>2. t.exists /\ t.channels # {} /\ t.mode = "playing"
        BY <3>4, <4>1 DEF InMode, Cleared
      <4>3. Tail(todo) = << "arm" >>
        BY <3>4, Todos
      <4>. QED
        BY <1>4, <2>2, <4>2, <4>3 DEF Stage
    <3>5. CASE todo = << "arm" >>
      BY <1>6, <3>5, Todos DEF LastCall
    <3>6. CASE todo \in { << "clear", "delete" >>, << "delete" >> }
      <4>1. Tail(todo) = << "delete" >>
        BY <1>1, <3>6, Todos DEF NextCall
      <4>. QED
        BY <2>2, <4>1 DEF Stage
    <3>. QED
      BY <1>1, <3>1, <3>2, <3>3, <3>4, <3>5, <3>6, Zenon DEF Stage
  <2>. HIDE DEF c, todo
  <2>. QED
    BY <1>1, <1>4, <2>2, <2>3, LocalStep
<1>. QED
  BY <1>5, <1>6

LEMMA Scripts ==
  /\ Script("create") = << "getPort", "assign", "play", "arm" >>
  /\ Script("status") = << "getPort", "read" >>
  /\ Script("properties") = << "getPort", "read" >>
  /\ Script("reset") = << "getPort", "clear", "play", "arm" >>
  /\ Script("release") = << "getPort", "idle", "clear", "delete" >>
BY Zenon DEF Script, CreateScript, StatusScript, ResetScript, ReleaseScript,
             LoadScript, WipeScript, TriggerScript

LEMMA ServersStep ==
  ASSUME IInv, Undisturbed, Building, NEW r \in Requests, GetsServers(r)
  PROVE  Building'
<1>. DEFINE p == request[r].port
            s == port[p]
            c == request[r].channel
<1>1. Active(r) /\ request[r].pc = "servers" /\ UNCHANGED << port, taken, faults >>
  BY DEF GetsServers, Active
<1>2. /\ request \in [Requests -> RequestType] /\ p \in Ports
      /\ request[r].op \in Queued
  BY <1>1 DEF IInv, TypeOK, Scripted, Fits, Building
<1>3. Sound(s)
  <2>1. ~\E q \in Requests : AtWork(q, p)
    BY <1>1, OneActive DEF AtWork
  <2>. QED
    BY <1>2, <2>1 DEF Building
<1>4. CASE Ends(r, "refused")
  <2>1. /\ \A q \in Requests \ {r} : request'[q] = request[q]
        /\ request'[r].port = p /\ request'[r].op = request[r].op
        /\ request'[r].pc = "idle" /\ request'[r].handle = "none" /\ request'[r].todo = << >>
    BY <1>2, <1>4 DEF Ends, Result, At
  <2>. QED
    BY <1>1, <1>3, <2>1, LocalStep DEF Sound, Complete
<1>5. ASSUME NEW op, GoesOn(r, Native(r, op)), Stage(Script(op), s, c)
      PROVE  Building'
  <2>1. /\ \A q \in Requests \ {r} : request'[q] = request[q]
        /\ request'[r].port = p /\ request'[r].op = request[r].op
        /\ request'[r].channel = c /\ request'[r].todo = Script(op)
        /\ request'[r].pc = "native" /\ request'[r].handle = "none"
        /\ running' = running
    BY <1>2, <1>5 DEF GoesOn, Native, At
  <2>2. Stage(request[r].todo, port[request[r].port], request[r].channel)'
    BY <1>1, <1>5, <2>1 DEF Stage, Complete, InUse
  <2>. QED
    BY <1>1, <2>1, <2>2, LocalStep
<1>6. CASE CreateChecks(r)
  <2>1. CASE s.exists /\ GoesOn(r, Native(r, "status"))
    <3>1. Stage(Script("status"), s, c)
      BY <1>3, <2>1, Scripts DEF Sound, Stage, Untouched
    <3>. QED
      BY <1>5, <2>1, <3>1
  <2>2. CASE ~s.exists /\ ~InUse(c) /\ GoesOn(r, Native(r, "create"))
    <3>1. Stage(Script("create"), s, c)
      BY <2>2, Scripts DEF Stage
    <3>. QED
      BY <1>5, <2>2, <3>1
  <2>. QED
    BY <1>4, <1>6, <2>1, <2>2 DEF CreateChecks
<1>7. CASE PortChecks(r)
  <2>1. CASE s.exists /\ GoesOn(r, Native(r, request[r].op))
    <3>1. request[r].op \in { "status", "reset", "release", "properties" }
      BY <1>2, <1>7 DEF PortChecks, Queued
    <3>2. Stage(Script(request[r].op), s, c)
      BY <1>3, <2>1, <3>1, Scripts DEF Sound, Stage, Untouched
    <3>. QED
      BY <1>5, <2>1, <3>2
  <2>2. request[r].todo = << >>
    BY <1>1 DEF Building
  <2>. QED
    BY <1>4, <1>7, <2>1, <2>2 DEF PortChecks
<1>. QED
  BY <1>6, <1>7 DEF GetsServers

LEMMA DeleteStep ==
  ASSUME IInv, Undisturbed, Building, NEW r \in Requests, Deletes(r)
  PROVE  Building'
<1>. DEFINE p == request[r].port
<1>1. Active(r) /\ UNCHANGED taken /\ port' = [port EXCEPT ![p] = Absent]
  BY DEF Deletes, Releases, Active
<1>2. port \in [Ports -> PortType] /\ p \in Ports
  BY <1>1 DEF IInv, TypeOK, Scripted, Fits, Active
<1>3. port'[p] = Absent /\ \A q \in Ports \ {p} : port'[q] = port[q]
  BY <1>1, <1>2
<1>4. \A q \in Requests \ {r} : request'[q] = request[q]
  <2>1. \A q \in Requests \ {r} : request[q].handle = "none"
    BY <1>1, OneActive DEF Building, Active
  <2>. QED
    BY <2>1 DEF Deletes, Releases
<1>5. /\ request'[r].port = p /\ request'[r].op = request[r].op
      /\ request'[r].pc = "idle" /\ request'[r].handle = "none" /\ request'[r].todo = << >>
  BY DEF Deletes, Releases, Result, At
<1>6. Sound(port'[p])
  BY <1>3 DEF Sound, Absent
<1>. QED
  BY <1>1, <1>3, <1>4, <1>5, <1>6, LocalStep DEF Sound, Complete

LEMMA NoPortStep ==
  ASSUME IInv, Undisturbed, Building, NEW r \in Requests, NoPortLeft(r)
  PROVE  Building'
<1>. DEFINE p == request[r].port
<1>1. Active(r) /\ UNCHANGED << port, taken >> /\ Ends(r, "error")
      /\ NextCall(r) = "getPort" /\ Stage(request[r].todo, port[p], request[r].channel)
  BY DEF NoPortLeft, Active, Building
<1>2. Sound(port[p])
  BY <1>1, Todos DEF NextCall, Stage, Untouched, Sound
<1>3. request \in [Requests -> RequestType]
  BY DEF IInv, TypeOK
<1>4. /\ \A q \in Requests \ {r} : request'[q] = request[q]
      /\ request'[r].port = p /\ request'[r].op = request[r].op
      /\ request'[r].pc = "idle" /\ request'[r].handle = "none" /\ request'[r].todo = << >>
  BY <1>1, <1>3 DEF Ends, Result, At
<1>. QED
  BY <1>1, <1>2, <1>4, LocalStep DEF Sound, Complete

(* The failures of a deleted handle and of a load cannot occur. *)
LEMMA NoFailure ==
  ASSUME IInv, Undisturbed, Building, NEW r \in Requests
  PROVE  ~LoadRefused(r) /\ ~FindsPortDeleted(r) /\ ~RemoteFails(r) /\ ~QueueTimesOut
<1>1. ASSUME request[r].pc = "native"
      PROVE  NextCall(r) # "load"
  <2>1. Stage(request[r].todo, port[request[r].port], request[r].channel)
    BY <1>1 DEF Building
  <2>. QED
    BY <2>1, Todos DEF NextCall, Stage, Untouched
<1>. QED
  BY <1>1 DEF LoadRefused, WrongMode, FindsPortDeleted, RemoteFails, QueueTimesOut, Building,
              IInv, TypeOK, Undisturbed

LEMMA BuildingStep == IInv /\ Undisturbed /\ Building /\ [Next]_vars => Building'
<1>. SUFFICES ASSUME IInv, Undisturbed, Building, [Next]_vars  PROVE Building'
  OBVIOUS
<1>1. /\ queue \in Seq(Requests) /\ request \in [Requests -> RequestType]
      /\ None \notin Requests
  BY PlayPortAssumption DEF IInv, TypeOK
<1>2. CASE Dequeues
  <2>. DEFINE r == Head(queue)
  <2>1. r \in Requests /\ 1 \in 1 .. Len(queue) /\ r = queue[1]
    BY <1>1, <1>2, TailOf DEF Dequeues
  <2>2. request[r].pc = "waiting" /\ request[r].op \in Queued
    BY <2>1 DEF IInv, QueueConsistent, Scripted, Fits
  <2>3. \A q \in Requests : ~Active(q)
    BY <1>1, <1>2, OneActive DEF Dequeues
  <2>4. request' = [request EXCEPT ![r] = At(r, "servers", << >>, "none", "none")]
        /\ UNCHANGED << port, taken >>
    BY <1>2 DEF Dequeues
  <2>. HIDE DEF r
  <2>5. /\ \A q \in Requests \ {r} : request'[q] = request[q]
        /\ request'[r].pc = "servers" /\ request'[r].op \in Queued
        /\ request'[r].handle = "none" /\ request'[r].todo = << >>
    BY <1>1, <2>1, <2>2, <2>4 DEF At
  <2>6. \A p \in Ports : Sound(port[p])
    BY <2>3 DEF Building, AtWork, Active
  <2>7. \A q \in Requests : request'[q].pc # "native"
    BY <2>3, <2>5 DEF Active
  <2>8. \A q \in Requests : Active(q)' => request'[q].op \in Queued
    BY <2>5 DEF Building, Active
  <2>9. \A q \in Requests : request'[q].handle = "none" /\ request'[q].todo = << >>
    BY <2>3, <2>5 DEF Building, Active
  <2>. QED
    BY <2>4, <2>6, <2>7, <2>8, <2>9 DEF Building, Sound, Complete
<1>3. ASSUME NEW r \in Requests, NEW op \in Allowed, NEW p \in Ports,
             NEW c \in (IF op = "create" THEN Channels ELSE {None}), Arrives(r, op, p, c)
      PROVE  Building'
  <2>1. UNCHANGED << port, taken, running >> /\ request[r].pc = "idle"
    BY <1>3 DEF Arrives
  <2>2. op \in Queued
    BY DEF Undisturbed
  <2>3. /\ \A q \in Requests \ {r} : request'[q] = request[q]
        /\ request'[r].pc = "waiting" /\ request'[r].handle = "none"
        /\ request'[r].todo = << >>
    BY <1>1, <1>3, <2>2 DEF Arrives
  <2>4. \A q \in Requests :
          /\ Active(q)' => request'[q].op \in Queued
          /\ request'[q].pc # "native" => request'[q].handle = "none" /\ request'[q].todo = << >>
    BY <2>3 DEF Building, Active
  <2>5. \A q \in Requests : request'[q].pc = "native" =>
          /\ request'[q].handle # "dead"
          /\ Stage(request[q].todo, port[request[q].port], request[q].channel)'
    BY <2>1, <2>3 DEF Building, Stage, InUse, Complete
  <2>6. \A q \in Ports : Sound(port[q])' \/ \E t \in Requests : AtWork(t, q)'
    BY <2>1, <2>3 DEF Building, Sound, Complete, AtWork
  <2>. QED
    BY <2>1, <2>4, <2>5, <2>6 DEF Building
<1>4. ASSUME NEW r \in Requests, Function(r) \/ RemoteFails(r)
      PROVE  Building'
  BY <1>4, ServersStep, RemoteStep, DeleteStep, NoPortStep, NoFailure DEF Function
<1>5. CASE QueueTimesOut
  BY <1>5 DEF QueueTimesOut, IInv, TypeOK, Undisturbed
<1>6. ASSUME NEW c \in Channels
      PROVE  ~RivalTakes(c) /\ ~RivalLeaves(c)
  BY DEF RivalTakes, RivalLeaves, Undisturbed, Building
<1>7. CASE UNCHANGED vars
  BY <1>7 DEF vars, Building, Active, Stage, InUse, Complete, Sound, AtWork
<1>. QED
  BY <1>2, <1>3, <1>4, <1>5, <1>6, <1>7 DEF Next

(* The purpose of the queue (CHANGELOG:33): whatever creates, resets,      *)
(* releases and queries are asked for, of however many ports, no port is   *)
(* left half made when nobody is served, as long as no call fails, none    *)
(* outlasts the queue's patience and no other system takes channels.       *)
THEOREM NoPortHalfMade == Undisturbed => (Spec => []RestingPortsComplete)
<1>. SUFFICES ASSUME Undisturbed PROVE Spec => []RestingPortsComplete
  OBVIOUS
<1>1. Init => Building
  BY DEF Init, Building, Done, Active, Absent, Sound
<1>2. IInv /\ Building => RestingPortsComplete
  BY DEF Building, AtWork, Sound, Complete, RestingPortsComplete, Existing, Active
<1>3. IInv /\ Building /\ [Next]_vars => Building'
  BY BuildingStep
<1>. QED
  BY <1>1, <1>2, <1>3, InitHolds, StepHolds, PTL DEF Spec
-----------------------------------------------------------------------------
(* How far a reset is tells what its port has so far, whatever fails and   *)
(* whatever operations beside the queue do, until a function overruns.     *)
Mild == {"getPort", "load", "read", "wipe", "trigger"}

Renewing(todo, s) ==
  \/ todo = << "getPort", "clear", "play", "arm" >>
  \/ todo \in { << "clear", "play", "arm" >>, << "play", "arm" >> } /\ s.exists
  \/ todo = << "arm" >> /\ s.exists /\ s.mode = "playing"

ResetsOnTheWay ==
  /\ \A r \in Requests :
       request[r].pc = "native" /\ request[r].op \in Unqueued
         => \A i \in 1 .. Len(request[r].todo) : request[r].todo[i] \in Mild
  /\ faults.overruns = 0 =>
       \A r \in Requests :
         request[r].pc = "native" /\ request[r].op = "reset"
           => Renewing(request[r].todo, port[request[r].port])

LEMMA MildScripts ==
  ASSUME NEW op \in Unqueued
  PROVE  \A i \in 1 .. Len(Script(op)) : Script(op)[i] \in Mild
<1>1. /\ Script("load") = << "getPort", "load" >>
      /\ Script("wipe") = << "getPort", "read", "wipe" >>
      /\ Script("trigger") = << "getPort", "trigger" >>
  BY Zenon DEF Script, CreateScript, StatusScript, ResetScript, ReleaseScript,
               LoadScript, WipeScript, TriggerScript
<1>. QED
  BY <1>1 DEF Unqueued, Mild

LEMMA ResetTodos ==
  /\ Head(<< "arm" >>) = "arm" /\ Len(<< "arm" >>) = 1
  /\ Head(<< "play", "arm" >>) = "play" /\ Tail(<< "play", "arm" >>) = << "arm" >>
  /\ Head(<< "clear", "play", "arm" >>) = "clear"
  /\ Tail(<< "clear", "play", "arm" >>) = << "play", "arm" >>
  /\ Head(<< "getPort", "clear", "play", "arm" >>) = "getPort"
  /\ Tail(<< "getPort", "clear", "play", "arm" >>) = << "clear", "play", "arm" >>
  /\ Len(<< "play", "arm" >>) = 2 /\ Len(<< "clear", "play", "arm" >>) = 3
  /\ Len(<< "getPort", "clear", "play", "arm" >>) = 4
BY Todos

(* What the operations beside the queue do leaves a port there, in its     *)
(* mode and with its triggers.                                             *)
LEMMA MildCall ==
  ASSUME NEW r \in Requests, NEW s \in PortType, s.exists, NextCall(r) \in Mild
  PROVE  /\ After(r, s).exists /\ After(r, s).mode = s.mode
<1>1. After(r, s) \in { s, [s EXCEPT !.loaded = TRUE], [s EXCEPT !.loaded = FALSE] }
  BY DEF After, Mild
<1>. QED
  BY <1>1 DEF PortType

(* A step of r changes what other requests do only when it deletes a port, *)
(* and only its own port.                                                  *)
LEMMA FunctionEffect ==
  ASSUME IInv, NEW r \in Requests, Function(r) \/ RemoteFails(r)
  PROVE  /\ \A q \in Requests \ {r} :
              /\ request'[q].pc = request[q].pc /\ request'[q].op = request[q].op
              /\ request'[q].todo = request[q].todo /\ request'[q].port = request[q].port
         /\ \/ port' = port
            \/ Deleting(r)
            \/ /\ request[r].pc = "native"
               /\ port' = [port EXCEPT ![request[r].port] = After(r, port[request[r].port])]
<1>1. request \in [Requests -> RequestType]
  BY DEF IInv, TypeOK
<1>2. ASSUME NEW v, Ends(r, v)
      PROVE  \A q \in Requests \ {r} : request'[q] = request[q]
  BY <1>1, <1>2 DEF Ends
<1>3. ASSUME NEW next, GoesOn(r, next)
      PROVE  \A q \in Requests \ {r} : request'[q] = request[q]
  BY <1>1, <1>3 DEF GoesOn
<1>4. CASE GetsServers(r)
  BY <1>2, <1>3, <1>4 DEF GetsServers, CreateChecks, PortChecks
<1>5. CASE RemoteCall(r)
  BY <1>2, <1>3, <1>5 DEF RemoteCall, Succeeds, Continues
<1>6. CASE Deleting(r)
  BY <1>1, <1>6 DEF Deleting, Releases, At
<1>7. CASE NoPortLeft(r) \/ LoadRefused(r)
  BY <1>2, <1>7 DEF NoPortLeft, LoadRefused
<1>8. CASE FindsPortDeleted(r)
  BY <1>3, <1>8 DEF FindsPortDeleted
<1>9. CASE RemoteFails(r)
  BY <1>2, <1>3, <1>6, <1>9, DeletesOrFails DEF RemoteFails, Continues
<1>. QED
  BY <1>4, <1>5, <1>6, <1>7, <1>8, <1>9, DeletesOrFails DEF Function

LEMMA NextIsMild ==
  ASSUME IInv, ResetsOnTheWay, NEW r \in Requests, request[r].pc = "native",
         request[r].op \in Unqueued
  PROVE  /\ NextCall(r) \in Mild
         /\ \A i \in 1 .. Len(Tail(request[r].todo)) : Tail(request[r].todo)[i] \in Mild
<1>. DEFINE s == request[r].todo
<1>1. s \in Seq(Calls) /\ s # << >>
  BY ScriptLeft DEF IInv
<1>2. \A i \in 1 .. Len(s) : s[i] \in Mild
  BY DEF ResetsOnTheWay
<1>. HIDE DEF s
<1>3. /\ Len(s) \in Nat \ {0} /\ Head(s) = s[1]
      /\ Len(Tail(s)) = Len(s) - 1
      /\ \A i \in 1 .. Len(Tail(s)) : Tail(s)[i] = s[i + 1]
  BY <1>1, TailOf, Zenon
<1>4. Head(s) \in Mild
  BY <1>2, <1>3
<1>5. \A i \in 1 .. Len(Tail(s)) : Tail(s)[i] \in Mild
  <2>1. \A i \in 1 .. Len(Tail(s)) : i + 1 \in 1 .. Len(s)
    BY <1>3
  <2>. QED
    BY <1>2, <1>3, <2>1
<1>. QED
  BY <1>4, <1>5 DEF NextCall, s

LEMMA OtherKeepsReset ==
  ASSUME IInv, ResetsOnTheWay, faults.overruns = 0,
         NEW q \in Requests, Function(q) \/ RemoteFails(q),
         NEW r \in Requests \ {q}, request[r].pc = "native", request[r].op = "reset"
  PROVE  Renewing(request[r].todo, port'[request[r].port])
<1>. DEFINE p == request[r].port
            s == port[p]
<1>1. /\ port \in [Ports -> PortType] /\ p \in Ports
      /\ request[q].op \in Queued \cup Unqueued /\ Active(q)
  BY FunctionSteps DEF IInv, TypeOK, Scripted, Fits, Active, FunctionStep
<1>2. request[q].op \in Unqueued
  <2>1. r = running
    BY DEF IInv, QueueConsistent, Active, Queued
  <2>. QED
    BY <1>1, <2>1 DEF IInv, QueueConsistent
<1>3. Renewing(request[r].todo, s)
  BY DEF ResetsOnTheWay
<1>4. request[q].pc = "native" => NextCall(q) \in Mild
  BY <1>2, NextIsMild
<1>5. ~Deleting(q)
  BY <1>4 DEF Deleting, Releases, Mild
<1>6. port'[p] = s \/ (request[q].pc = "native" /\ port'[p] = After(q, s))
  <2>. DEFINE o == request[q].port
              u == After(q, port[o])
  <2>1. \/ port' = port
        \/ request[q].pc = "native" /\ port' = [port EXCEPT ![o] = u]
    BY <1>5, FunctionEffect
  <2>2. CASE o = p
    <3>1. u = After(q, s)
      BY <2>2
    <3>2. ASSUME port' = [port EXCEPT ![o] = u]
          PROVE  port'[p] = u
      <4>. HIDE DEF u, o, p
      <4>. QED
        BY <1>1, <2>2, <3>2
    <3>. QED
      BY <2>1, <3>1, <3>2, Zenon
  <2>3. CASE o # p
    <3>1. ASSUME port' = [port EXCEPT ![o] = u]
          PROVE  port'[p] = port[p]
      <4>. HIDE DEF u, o, p
      <4>. QED
        BY <1>1, <2>3, <3>1
    <3>. QED
      BY <2>1, <3>1, Zenon
  <2>. QED
    BY <2>2, <2>3
<1>7. CASE port'[p] = s
  BY <1>3, <1>7
<1>8. CASE request[q].pc = "native" /\ port'[p] = After(q, s)
  <2>1. s.exists => After(q, s).exists /\ After(q, s).mode = s.mode
    BY <1>1, <1>4, <1>8, MildCall
  <2>. HIDE DEF s
  <2>. QED
    BY <1>3, <1>8, <2>1 DEF Renewing
<1>. QED
  BY <1>6, <1>7, <1>8

LEMMA OwnReset ==
  ASSUME IInv, ResetsOnTheWay, faults.overruns = 0, NEW r \in Requests,
         Function(r) \/ RemoteFails(r), request[r].op = "reset", request'[r].pc = "native"
  PROVE  Renewing(request'[r].todo, port'[request'[r].port])
<1>. DEFINE p == request[r].port
            s == port[p]
            t == After(r, s)
            todo == request[r].todo
<1>1. /\ request \in [Requests -> RequestType] /\ port \in [Ports -> PortType]
      /\ p \in Ports
  BY FunctionSteps DEF IInv, TypeOK, Scripted, Fits, Active, FunctionStep
<1>2. CASE GetsServers(r)
  <2>1. GoesOn(r, Native(r, "reset"))
    <3>1. request[r].todo = << >>
      BY <1>2 DEF GetsServers, IInv, Scripted, Fits
    <3>. QED
      BY <1>1, <1>2, <3>1 DEF GetsServers, CreateChecks, PortChecks, Ends, Result, At
  <2>2. request'[r].todo = << "getPort", "clear", "play", "arm" >>
    BY <1>1, <2>1, Scripts DEF GoesOn, Native, At
  <2>. QED
    BY <2>2 DEF Renewing
<1>3. CASE RemoteCall(r)
  <2>1. /\ request[r].pc = "native" /\ Renewing(todo, s)
        /\ port' = [port EXCEPT ![p] = t]
    BY <1>3 DEF RemoteCall, Succeeds, Continues, ResetsOnTheWay
  <2>2. ~LastCall(r)
    BY <1>1, <1>3 DEF RemoteCall, Succeeds, Continues, Ends, Result, At
  <2>3. request'[r].todo = Tail(todo) /\ request'[r].port = p
    BY <1>1, <1>3, <2>2 DEF RemoteCall, Succeeds, Continues, GoesOn, At
  <2>4. port'[p] = t
    BY <1>1, <2>1
  <2>5. CASE todo = << "getPort", "clear", "play", "arm" >>
    <3>1. t = IF s.exists THEN s ELSE NewPort
      BY <2>5, AfterIs, ResetTodos DEF NextCall
    <3>2. t.exists
      BY <3>1 DEF NewPort, Absent
    <3>3. Tail(todo) = << "clear", "play", "arm" >>
      BY <2>5, ResetTodos
    <3>. QED
      BY <2>3, <2>4, <3>2, <3>3 DEF Renewing
  <2>6. CASE todo = << "clear", "play", "arm" >> /\ s.exists
    <3>1. t = Cleared(s, s.mode)
      BY <2>6, AfterIs, ResetTodos DEF NextCall
    <3>2. t.exists
      BY <2>6, <3>1 DEF Cleared
    <3>3. Tail(todo) = << "play", "arm" >>
      BY <2>6, ResetTodos
    <3>. QED
      BY <2>3, <2>4, <3>2, <3>3 DEF Renewing
  <2>7. CASE todo = << "play", "arm" >> /\ s.exists
    <3>1. t = InMode(s, "playing")
      BY <2>7, AfterIs, ResetTodos DEF NextCall
    <3>2. t.exists /\ t.mode = "playing"
      BY <2>7, <3>1 DEF InMode, Cleared
    <3>3. Tail(todo) = << "arm" >>
      BY <2>7, ResetTodos
    <3>. QED
      BY <2>3, <2>4, <3>2, <3>3 DEF Renewing
  <2>8. todo # << "arm" >>
    BY <2>2, ResetTodos DEF LastCall
  <2>. QED
    BY <2>1, <2>5, <2>6, <2>7, <2>8 DEF Renewing
<1>4. ~(Deletes(r) \/ Releases(r, "error") \/ NoPortLeft(r) \/ LoadRefused(r) \/ Ends(r, "error"))
  BY <1>1 DEF Deletes, Releases, NoPortLeft, LoadRefused, Ends, Result, At
<1>6. ~RemoteFails(r)
  <2>1. request[r].pc = "native" => NextCall(r) # "idle"
    BY ResetTodos DEF NextCall, ResetsOnTheWay, Renewing
  <2>. QED
    BY <1>4, <2>1 DEF RemoteFails
<1>5. ~FindsPortDeleted(r)
  BY <1>1 DEF FindsPortDeleted, GoesOn, At
<1>. QED
  BY <1>2, <1>3, <1>4, <1>5, <1>6 DEF Function

LEMMA OwnMild ==
  ASSUME IInv, ResetsOnTheWay, NEW r \in Requests, Function(r) \/ RemoteFails(r),
         request[r].op \in Unqueued, request'[r].pc = "native"
  PROVE  \A i \in 1 .. Len(request'[r].todo) : request'[r].todo[i] \in Mild
<1>1. request \in [Requests -> RequestType] /\ request[r].op # "create"
  BY DEF IInv, TypeOK, Unqueued
<1>2. CASE GetsServers(r)
  <2>1. GoesOn(r, Native(r, request[r].op))
    <3>1. request[r].todo = << >>
      BY <1>2 DEF GetsServers, IInv, Scripted, Fits, Unqueued
    <3>. QED
      BY <1>1, <1>2, <3>1 DEF GetsServers, CreateChecks, PortChecks, Ends, Result, At
  <2>2. request'[r].todo = Script(request[r].op)
    BY <1>1, <2>1 DEF GoesOn, Native, At
  <2>. QED
    BY <2>2, MildScripts
<1>3. CASE RemoteCall(r)
  <2>1. request[r].pc = "native"
    BY <1>3 DEF RemoteCall
  <2>2. ~LastCall(r)
    BY <1>1, <1>3 DEF RemoteCall, Succeeds, Continues, Ends, Result, At
  <2>3. request'[r].todo = Tail(request[r].todo)
    BY <1>1, <1>3, <2>2 DEF RemoteCall, Succeeds, Continues, GoesOn, At
  <2>. QED
    BY <2>1, <2>3, NextIsMild
<1>4. ~(Deletes(r) \/ Releases(r, "error") \/ NoPortLeft(r) \/ LoadRefused(r) \/ Ends(r, "error"))
  BY <1>1 DEF Deletes, Releases, NoPortLeft, LoadRefused, Ends, Result, At
<1>6. ~RemoteFails(r)
  <2>1. request[r].pc = "native" => NextCall(r) # "idle"
    BY NextIsMild DEF Mild
  <2>. QED
    BY <1>4, <2>1 DEF RemoteFails
<1>5. ~FindsPortDeleted(r)
  BY <1>1 DEF FindsPortDeleted, GoesOn, At
<1>. QED
  BY <1>2, <1>3, <1>4, <1>5, <1>6 DEF Function

LEMMA ResetsStep == IInv /\ ResetsOnTheWay /\ [Next]_vars => ResetsOnTheWay'
<1>. SUFFICES ASSUME IInv, ResetsOnTheWay, [Next]_vars  PROVE ResetsOnTheWay'
  OBVIOUS
<1>1. request \in [Requests -> RequestType] /\ queue \in Seq(Requests)
  BY DEF IInv, TypeOK
<1>2. ASSUME UNCHANGED port, faults'.overruns = 0 => faults.overruns = 0,
             \A r \in Requests : request'[r].pc = "native" => request'[r] = request[r]
      PROVE  ResetsOnTheWay'
  BY <1>2 DEF ResetsOnTheWay
<1>3. CASE Dequeues
  <2>1. Head(queue) \in Requests
    BY <1>1, <1>3, TailOf DEF Dequeues
  <2>. QED
    BY <1>1, <1>2, <1>3, <2>1 DEF Dequeues, At
<1>4. CASE QueueTimesOut
  <2>1. faults'.overruns = 0 => FALSE
    BY <1>4 DEF QueueTimesOut, IInv, TypeOK
  <2>. QED
    BY <1>2, <1>4, <2>1 DEF QueueTimesOut
<1>5. ASSUME NEW r \in Requests, NEW op \in Allowed, NEW p \in Ports,
             NEW c \in (IF op = "create" THEN Channels ELSE {None}), Arrives(r, op, p, c)
      PROVE  ResetsOnTheWay'
  BY <1>1, <1>2, <1>5 DEF Arrives
<1>6. ASSUME NEW q \in Requests, Function(q) \/ RemoteFails(q)
      PROVE  ResetsOnTheWay'
  <2>1. request'[q].op = request[q].op /\ faults'.overruns = faults.overruns
    BY <1>6, FunctionSteps, FunctionKeepsOverruns DEF FunctionStep, IInv
  <2>2. \A r \in Requests \ {q} :
          /\ request'[r].pc = request[r].pc /\ request'[r].op = request[r].op
          /\ request'[r].todo = request[r].todo /\ request'[r].port = request[r].port
    BY <1>6, FunctionEffect
  <2>3. ASSUME NEW r \in Requests, request'[r].pc = "native", request'[r].op \in Unqueued
        PROVE  \A i \in 1 .. Len(request'[r].todo) : request'[r].todo[i] \in Mild
    BY <1>6, <2>1, <2>2, <2>3, OwnMild DEF ResetsOnTheWay
  <2>4. ASSUME faults'.overruns = 0,
               NEW r \in Requests, request'[r].pc = "native", request'[r].op = "reset"
        PROVE  Renewing(request'[r].todo, port'[request'[r].port])
    <3>1. CASE r = q
      BY <1>6, <2>1, <2>4, <3>1, OwnReset
    <3>2. CASE r # q
      BY <1>6, <2>1, <2>2, <2>4, <3>2, OtherKeepsReset
    <3>. QED
      BY <3>1, <3>2
  <2>. QED
    BY <2>3, <2>4 DEF ResetsOnTheWay, Renewing
<1>7. ASSUME NEW c \in Channels, RivalTakes(c) \/ RivalLeaves(c)
      PROVE  ResetsOnTheWay'
  BY <1>2, <1>7 DEF RivalTakes, RivalLeaves
<1>8. CASE UNCHANGED vars
  BY <1>2, <1>8 DEF vars
<1>. QED
  BY <1>3, <1>4, <1>5, <1>6, <1>7, <1>8 DEF Next

(* An answer is given by a step of the function that ends with it. *)
LEMMA AnswersByFunction ==
  ASSUME IInv, [Next]_vars, NEW r \in Requests, faults.overruns = 0,
         NEW op \in Queued, NEW results, Answers(r, op, results)
  PROVE  Active(r) /\ (Function(r) \/ RemoteFails(r))
<1>1. /\ request \in [Requests -> RequestType] /\ queue \in Seq(Requests)
      /\ Active(r) /\ request'[r].pc = "idle"
  BY DEF IInv, TypeOK, QueueConsistent, Answers, Active
<1>2. Function(r) \/ RemoteFails(r)
  <2>1. ASSUME NEW q \in Requests \ {r}
        PROVE  ~Function(q) /\ ~RemoteFails(q)
    BY <1>1, FunctionEffect DEF Active
  <2>2. ~Dequeues /\ ~QueueTimesOut
    BY <1>1, PlayPortAssumption DEF Dequeues, QueueTimesOut, Answers, Active, IInv, TypeOK
  <2>3. ~\E q \in Requests, o \in Allowed, pp \in Ports :
           \E c \in (IF o = "create" THEN Channels ELSE {None}) : Arrives(q, o, pp, c)
    BY <1>1 DEF Arrives, Active
  <2>4. ~\E c \in Channels : RivalTakes(c) \/ RivalLeaves(c)
    BY <1>1 DEF RivalTakes, RivalLeaves, Active
  <2>5. ~UNCHANGED vars
    BY <1>1 DEF vars, Active
  <2>. QED
    BY <2>1, <2>2, <2>3, <2>4, <2>5 DEF Next
<1>. QED
  BY <1>1, <1>2

LEMMA ResetAnswers ==
  ASSUME IInv, ResetsOnTheWay, [Next]_vars, NEW r \in Requests,
         faults.overruns = 0, Answers(r, "reset", {"ok"})
  PROVE  port'[request[r].port].mode = "playing" /\ port'[request[r].port].armed
<1>. DEFINE p == request[r].port
            s == port[p]
<1>1. /\ request \in [Requests -> RequestType] /\ port \in [Ports -> PortType]
      /\ queue \in Seq(Requests)
      /\ Active(r) /\ p \in Ports /\ request'[r].pc = "idle" /\ request'[r].result = "ok"
  BY DEF IInv, TypeOK, QueueConsistent, Answers, Scripted, Fits, Active
<1>2. Function(r) \/ RemoteFails(r)
  BY AnswersByFunction DEF Queued
<1>3. RemoteCall(r) /\ LastCall(r)
  <2>1. ~GetsServers(r)
    BY <1>1 DEF GetsServers, CreateChecks, PortChecks, Ends, GoesOn, Native, Result, At
  <2>2. ~(NoPortLeft(r) \/ LoadRefused(r) \/ Ends(r, "error") \/ FindsPortDeleted(r))
    BY <1>1 DEF NoPortLeft, LoadRefused, FindsPortDeleted, Ends, GoesOn, Result, At
  <2>3. ~Deletes(r) /\ ~RemoteFails(r)
    <3>1. request[r].pc = "native" => NextCall(r) \notin {"delete", "idle"}
      BY ResetTodos DEF NextCall, ResetsOnTheWay, Renewing, Answers
    <3>. QED
      BY <2>2, <3>1 DEF Deletes, Releases, RemoteFails
  <2>4. RemoteCall(r) => LastCall(r)
    BY <1>1 DEF RemoteCall, Succeeds, Continues, GoesOn, At
  <2>. QED
    BY <1>2, <2>1, <2>2, <2>3, <2>4 DEF Function
<1>4. /\ request[r].pc = "native" /\ request[r].todo = << "arm" >>
      /\ s.mode = "playing"
  BY <1>3, ResetTodos DEF RemoteCall, LastCall, ResetsOnTheWay, Renewing, Answers
<1>5. port'[p] = [s EXCEPT !.armed = TRUE]
  <2>1. After(r, s) = [s EXCEPT !.armed = TRUE]
    BY <1>4, AfterIs, ResetTodos DEF NextCall
  <2>. QED
    BY <1>1, <1>3, <2>1 DEF RemoteCall, Succeeds, Continues
<1>6. s \in PortType
  BY <1>1
<1>. HIDE DEF s
<1>. QED
  BY <1>4, <1>5, <1>6 DEF PortType

(* A reset that is answered OK has made its port play with its triggers,   *)
(* whatever failed before, whatever load, wipe and trigger do at the same  *)
(* time and whoever takes channels, until a function overruns.             *)
THEOREM ResetRepairs == Spec => ResetPortPlays
<1>1. Init => ResetsOnTheWay
  BY DEF Init, ResetsOnTheWay, Done
<1>2. IInv /\ ResetsOnTheWay /\ [Next]_vars => ResetsOnTheWay'
  BY ResetsStep
<1>3. IInv /\ ResetsOnTheWay /\ [Next]_vars
        => [\A r \in Requests :
              faults.overruns = 0 /\ Answers(r, "reset", {"ok"})
                => port'[request[r].port].mode = "playing" /\ port'[request[r].port].armed]_vars
  BY ResetAnswers
<1>. QED
  BY <1>1, <1>2, <1>3, InitHolds, StepHolds, PTL DEF Spec, ResetPortPlays
-----------------------------------------------------------------------------
(* How far a create is tells which channel its port has, and that nobody   *)
(* in this program has taken the channel it is about to assign.            *)
Granting(r) ==
  \/ /\ request[r].todo \in { << "getPort", "assign", "play", "arm" >>,
                              << "assign", "play", "arm" >> }
     /\ port[request[r].port].channels = {}
     /\ Rivals \/ ~InUse(request[r].channel)
  \/ /\ request[r].todo \in { << "play", "arm" >>, << "arm" >> }
     /\ Rivals \/ request[r].channel \in port[request[r].port].channels
  \/ request[r].todo \in { << "getPort", "read" >>, << "read" >> }

Single(s) == \A c, d \in s.channels : c = d

Assigned ==
  /\ Rivals \/ taken = {}
  /\ \A p \in Ports : ~port[p].exists => port[p].channels = {}
  /\ \A r \in Requests : request[r].handle = "live" => port[request[r].port].exists
  /\ faults.overruns = 0 =>
       /\ \A p \in Ports : Single(port[p])
       /\ \A r \in Requests :
            request[r].pc = "native" /\ request[r].op = "create" => Granting(r)

(* Only assignChannel gives a port a channel, and only getPort takes one:  *)
(* that of a port that is not there.                                       *)
LEMMA ChannelsAfter ==
  ASSUME NEW r \in Requests, NEW s \in PortType
  PROVE  LET c == request[r].channel
         IN  /\ NextCall(r) \notin {"getPort", "assign"} => After(r, s).channels = s.channels
             /\ NextCall(r) = "getPort" =>
                  After(r, s).channels = IF s.exists THEN s.channels ELSE {}
             /\ NextCall(r) = "assign" =>
                  After(r, s).channels = IF InUse(c) THEN s.channels ELSE s.channels \cup {c}
<1>. DEFINE c == request[r].channel
<1>1. /\ Cleared(s, s.mode).channels = s.channels
      /\ InMode(s, "idle").channels = s.channels
      /\ InMode(s, "playing").channels = s.channels
      /\ NewPort.channels = {}
  BY DEF Cleared, InMode, NewPort, Absent
<1>2. /\ [s EXCEPT !.armed = TRUE].channels = s.channels
      /\ [s EXCEPT !.loaded = TRUE].channels = s.channels
      /\ [s EXCEPT !.loaded = FALSE].channels = s.channels
  BY DEF PortType
<1>3. [InMode(s, "idle") EXCEPT !.channels = @ \cup {c}].channels = s.channels \cup {c}
  <2>1. InMode(s, "idle") \in PortType
    BY InModeTyped
  <2>2. ASSUME NEW u \in PortType
        PROVE  [u EXCEPT !.channels = @ \cup {c}].channels = u.channels \cup {c}
    BY DEF PortType
  <2>. QED
    BY <1>1, <2>1, <2>2
<1>4. CASE NextCall(r) = "getPort"
  BY <1>1, <1>4, AfterIs
<1>5. CASE NextCall(r) = "assign"
  <2>1. InUse(c) => After(r, s) = s
    BY <1>5 DEF After
  <2>. QED
    BY <1>3, <1>5, <2>1, AfterIs
<1>6. CASE NextCall(r) \notin {"getPort", "assign"}
  <2>1. After(r, s) \in { InMode(s, "playing"), InMode(s, "idle"), Cleared(s, s.mode),
                          [s EXCEPT !.armed = TRUE], [s EXCEPT !.loaded = TRUE],
                          [s EXCEPT !.loaded = FALSE], s }
    BY <1>6 DEF After
  <2>. QED
    BY <1>1, <1>2, <1>6, <2>1
<1>. QED
  BY <1>4, <1>5, <1>6

LEMMA ExistsAfter ==
  ASSUME NEW r \in Requests, NEW s \in PortType
  PROVE  s.exists \/ NextCall(r) = "getPort" => After(r, s).exists
<1>1. /\ Cleared(s, s.mode).exists = s.exists
      /\ InMode(s, "idle").exists = s.exists
      /\ InMode(s, "playing").exists = s.exists
      /\ NewPort.exists
  BY DEF Cleared, InMode, NewPort, Absent
<1>2. /\ [s EXCEPT !.armed = TRUE].exists = s.exists
      /\ [s EXCEPT !.loaded = TRUE].exists = s.exists
      /\ [s EXCEPT !.loaded = FALSE].exists = s.exists
  BY DEF PortType
<1>3. [InMode(s, "idle") EXCEPT !.channels = @ \cup {request[r].channel}].exists = s.exists
  <2>1. InMode(s, "idle") \in PortType
    BY InModeTyped
  <2>2. ASSUME NEW u \in PortType, NEW c
        PROVE  [u EXCEPT !.channels = @ \cup {c}].exists = u.exists
    BY DEF PortType
  <2>. QED
    BY <1>1, <2>1, <2>2
<1>4. CASE NextCall(r) = "getPort"
  BY <1>1, <1>4, AfterIs
<1>5. CASE NextCall(r) # "getPort"
  <2>1. After(r, s) \in { InMode(s, "playing"), InMode(s, "idle"), Cleared(s, s.mode),
                          [s EXCEPT !.armed = TRUE], [s EXCEPT !.loaded = TRUE],
                          [s EXCEPT !.loaded = FALSE], s,
                          [InMode(s, "idle") EXCEPT !.channels = @ \cup {request[r].channel}] }
    BY <1>5 DEF After
  <2>. QED
    BY <1>1, <1>2, <1>3, <1>5, <2>1
<1>. QED
  BY <1>4, <1>5

(* A call changes the port only through an object that is there. *)
LEMMA PortEffect ==
  ASSUME IInv, NEW r \in Requests, Function(r) \/ RemoteFails(r)
  PROVE  /\ UNCHANGED taken
         /\ \/ port' = port
            \/ Deleting(r)
            \/ /\ request[r].pc = "native" /\ Usable(r)
               /\ port' = [port EXCEPT ![request[r].port] = After(r, port[request[r].port])]
<1>1. ASSUME Deleting(r)
      PROVE  UNCHANGED taken
  BY <1>1 DEF Deleting, Releases
<1>. QED
  BY <1>1, DeletesOrFails
     DEF Function, RemoteFails, GetsServers, RemoteCall, Succeeds, NoPortLeft,
         LoadRefused, FindsPortDeleted

LEMMA UsableExists ==
  ASSUME IInv, Assigned, NEW r \in Requests, request[r].pc = "native", Usable(r)
  PROVE  After(r, port[request[r].port]).exists
<1>1. port[request[r].port] \in PortType
  BY DEF IInv, TypeOK, Scripted, Fits
<1>. QED
  BY <1>1, ExistsAfter DEF Usable, Assigned

LEMMA NoPortNoChannel ==
  ASSUME IInv, Assigned, NEW r \in Requests, Function(r) \/ RemoteFails(r),
         NEW p \in Ports, ~port'[p].exists
  PROVE  port'[p].channels = {}
<1>1. port \in [Ports -> PortType]
  BY DEF IInv, TypeOK
<1>2. CASE port' = port
  BY <1>2 DEF Assigned
<1>3. CASE Deleting(r)
  <2>1. port'[p] = port[p] \/ port'[p] = Absent
    BY <1>1, <1>3 DEF Deleting, Releases
  <2>. QED
    BY <2>1 DEF Assigned, Absent
<1>4. CASE /\ request[r].pc = "native" /\ Usable(r)
           /\ port' = [port EXCEPT ![request[r].port] = After(r, port[request[r].port])]
  <2>. DEFINE o == request[r].port
              u == After(r, port[o])
  <2>1. u.exists
    BY <1>4, UsableExists
  <2>2. port' = [port EXCEPT ![o] = u]
    BY <1>4
  <2>. HIDE DEF o, u
  <2>3. port'[p] = port[p]
    BY <1>1, <2>1, <2>2
  <2>. QED
    BY <2>3 DEF Assigned
<1>. QED
  BY <1>2, <1>3, <1>4, PortEffect

(* What a step of r does to the handles: only its own becomes live, by a   *)
(* call through which the port is there; a deleted port has none.          *)
LEMMA HandlesLive ==
  ASSUME IInv, Assigned, NEW r \in Requests, Function(r) \/ RemoteFails(r),
         NEW q \in Requests, request'[q].handle = "live"
  PROVE  port'[request'[q].port].exists
<1>. DEFINE o == request[r].port
            u == After(r, port[o])
<1>1. /\ port \in [Ports -> PortType] /\ request \in [Requests -> RequestType]
      /\ o \in Ports /\ Active(r)
  BY FunctionSteps DEF IInv, TypeOK, Scripted, Fits, Active, FunctionStep
<1>2. ASSUME request[q].handle = "live", request'[q].port = request[q].port, ~Deleting(r)
      PROVE  port'[request'[q].port].exists
  <2>1. port[request[q].port].exists
    BY <1>2 DEF Assigned
  <2>2. CASE port' = port
    BY <1>2, <2>1, <2>2
  <2>3. CASE /\ request[r].pc = "native" /\ Usable(r) /\ port' = [port EXCEPT ![o] = u]
    <3>1. u.exists
      BY <2>3, UsableExists
    <3>. HIDE DEF o, u
    <3>2. o = request[q].port => port'[o] = u
      BY <1>1, <2>3
    <3>3. o # request[q].port => port'[request[q].port] = port[request[q].port]
      BY <1>1, <2>3
    <3>. QED
      BY <1>2, <2>1, <3>1, <3>2, <3>3, Zenon
  <2>. QED
    BY <1>2, <2>2, <2>3, PortEffect
<1>3. CASE GetsServers(r)
  <2>1. request'[r].handle = "none"
    BY <1>1, <1>3 DEF GetsServers, CreateChecks, PortChecks, Ends, GoesOn, Native, Result, At
  <2>2. q # r => request'[q] = request[q]
    BY <1>1, <1>3 DEF GetsServers, CreateChecks, PortChecks, Ends, GoesOn
  <2>3. ~Deleting(r)
    BY <1>3 DEF GetsServers, Deleting, Releases
  <2>. QED
    BY <1>2, <2>1, <2>2, <2>3
<1>4. CASE RemoteCall(r)
  <2>1. request[r].pc = "native" /\ Usable(r) /\ port' = [port EXCEPT ![o] = u]
    BY <1>4 DEF RemoteCall, Succeeds, Continues
  <2>2. q # r => request'[q] = request[q]
    BY <1>1, <1>4 DEF RemoteCall, Succeeds, Continues, Ends, GoesOn
  <2>3. request'[r].port = o
    BY <1>1, <1>4 DEF RemoteCall, Succeeds, Continues, Ends, GoesOn, Result, At
  <2>4. u.exists
    BY <2>1, UsableExists
  <2>5. port'[o].exists
    <3>. HIDE DEF o, u
    <3>. QED
      BY <1>1, <2>1, <2>4
  <2>6. ~Deleting(r)
    BY <1>4 DEF RemoteCall, Deleting, Releases
  <2>. QED
    BY <1>2, <2>2, <2>3, <2>5, <2>6
<1>5. CASE Deleting(r)
  <2>1. q # r /\ request[q].handle = "live" /\ request[q].port # o
    BY <1>1, <1>5 DEF Deleting, Releases, Result, At
  <2>2. request'[q] = request[q]
    BY <1>1, <1>5, <2>1 DEF Deleting, Releases
  <2>3. port'[request[q].port] = port[request[q].port]
    BY <1>1, <1>5, <2>1 DEF Deleting, Releases
  <2>. QED
    BY <2>1, <2>2, <2>3 DEF Assigned
<1>6. CASE \/ NoPortLeft(r) \/ LoadRefused(r) \/ FindsPortDeleted(r)
           \/ RemoteFails(r) /\ Ends(r, "error")
  <2>1. request'[r].handle = "none"
    BY <1>1, <1>6 DEF NoPortLeft, LoadRefused, FindsPortDeleted, Ends, GoesOn, Result, At
  <2>2. q # r => request'[q] = request[q]
    BY <1>1, <1>6 DEF NoPortLeft, LoadRefused, FindsPortDeleted, Ends, GoesOn
  <2>3. CASE Deleting(r)
    BY <1>5, <2>3
  <2>. QED
    BY <1>2, <2>1, <2>2, <2>3
<1>7. CASE request[r].pc = "native" /\ Usable(r) /\ NextCall(r) = "idle" /\ Continues(r)
           /\ UNCHANGED port
  <2>1. port[o].exists
    BY <1>7 DEF Usable, Assigned
  <2>2. q # r => request'[q] = request[q]
    BY <1>1, <1>7 DEF Continues, Ends, GoesOn
  <2>3. request'[r].port = o
    BY <1>1, <1>7 DEF Continues, Ends, GoesOn, Result, At
  <2>4. CASE q # r
    BY <1>7, <2>2, <2>4 DEF Assigned
  <2>. QED
    BY <1>7, <2>1, <2>3, <2>4
<1>. QED
  BY <1>3, <1>4, <1>5, <1>6, <1>7, DeletesOrFails DEF Function, RemoteFails

LEMMA AssignsOnlyCreating ==
  ASSUME IInv, NEW r \in Requests, request[r].pc = "native", NextCall(r) = "assign"
  PROVE  request[r].op = "create"
<1>. DEFINE s == request[r].todo
<1>1. s \in Seq(Calls) /\ s # << >>
  BY ScriptLeft DEF IInv
<1>2. 1 \in 1 .. Len(s) /\ NextCall(r) = s[1]
  BY <1>1, TailOf DEF NextCall
<1>. QED
  BY <1>2 DEF IInv, Scripted, Fits

LEMMA CreateTodos ==
  ASSUME IInv, NEW r \in Requests, request[r].pc = "native", Granting(r)
  PROVE  /\ NextCall(r) \notin {"delete", "clear", "load", "idle"}
         /\ NextCall(r) = "assign" =>
              /\ port[request[r].port].channels = {}
              /\ Rivals \/ ~InUse(request[r].channel)
BY Todos DEF Granting, NextCall

(* Operations beside the queue give no port a channel and take none. *)
LEMMA UnqueuedKeepsChannels ==
  ASSUME IInv, ResetsOnTheWay, Assigned, NEW q \in Requests, Function(q) \/ RemoteFails(q),
         request[q].op \in Unqueued, NEW p \in Ports
  PROVE  port'[p].channels = port[p].channels
<1>. DEFINE o == request[q].port
            u == After(q, port[o])
<1>1. port \in [Ports -> PortType] /\ o \in Ports
  BY FunctionSteps DEF IInv, TypeOK, Scripted, Fits, Active, FunctionStep
<1>2. request[q].pc = "native" => NextCall(q) \in Mild
  BY NextIsMild
<1>3. ~Deleting(q)
  BY <1>2 DEF Deleting, Releases, Mild
<1>4. CASE request[q].pc = "native" /\ port' = [port EXCEPT ![o] = u]
  <2>1. u.channels = port[o].channels
    <3>1. NextCall(q) # "assign"
      BY <1>2, <1>4 DEF Mild
    <3>2. port[o] \in PortType /\ (~port[o].exists => port[o].channels = {})
      BY <1>1 DEF Assigned
    <3>. QED
      BY <3>1, <3>2, ChannelsAfter
  <2>. HIDE DEF o, u
  <2>. QED
    BY <1>1, <1>4, <2>1
<1>. QED
  BY <1>3, <1>4, PortEffect

LEMMA OtherKeepsCreate ==
  ASSUME IInv, ResetsOnTheWay, Assigned, faults.overruns = 0,
         NEW q \in Requests, Function(q) \/ RemoteFails(q),
         NEW r \in Requests \ {q}, request[r].pc = "native", request[r].op = "create"
  PROVE  Granting(r)'
<1>1. request[q].op \in Queued \cup Unqueued /\ Active(q) /\ request[r].port \in Ports
  BY FunctionSteps DEF IInv, Scripted, Fits, Active, FunctionStep
<1>2. request[q].op \in Unqueued
  <2>1. r = running
    BY DEF IInv, QueueConsistent, Active, Queued
  <2>. QED
    BY <1>1, <2>1 DEF IInv, QueueConsistent
<1>3. \A p \in Ports : port'[p].channels = port[p].channels
  BY <1>2, UnqueuedKeepsChannels
<1>4. request'[r] = request[r]
  <2>1. ~Deletes(q) /\ ~Releases(q, "error")
    BY <1>2, NextIsMild DEF Deletes, Releases, Mild
  <2>2. request \in [Requests -> RequestType]
    BY DEF IInv, TypeOK
  <2>. QED
    BY <2>1, <2>2 DEF Function, RemoteFails, GetsServers, CreateChecks, PortChecks, RemoteCall,
         Succeeds, Continues, NoPortLeft, LoadRefused, FindsPortDeleted, Ends, GoesOn
<1>5. taken' = taken
  BY PortEffect
<1>6. Granting(r)
  BY DEF Assigned
<1>7. InUse(request[r].channel)' <=> InUse(request[r].channel)
  BY <1>3, <1>4, <1>5 DEF InUse
<1>. QED
  BY <1>1, <1>3, <1>4, <1>6, <1>7 DEF Granting

LEMMA OwnCreate ==
  ASSUME IInv, Assigned, faults.overruns = 0, NEW r \in Requests,
         Function(r) \/ RemoteFails(r), request[r].op = "create", request'[r].pc = "native"
  PROVE  Granting(r)'
<1>. DEFINE p == request[r].port
            c == request[r].channel
            todo == request[r].todo
            u == After(r, port[p])
<1>1. /\ request \in [Requests -> RequestType] /\ port \in [Ports -> PortType]
      /\ p \in Ports
  BY FunctionSteps DEF IInv, TypeOK, Scripted, Fits, Active, FunctionStep
<1>2. CASE GetsServers(r)
  <2>1. CreateChecks(r) /\ UNCHANGED << port, taken >>
    BY <1>2 DEF GetsServers, PortChecks
  <2>2. CASE port[p].exists /\ GoesOn(r, Native(r, "status"))
    <3>1. request'[r].todo = << "getPort", "read" >>
      BY <1>1, <2>2, Scripts DEF GoesOn, Native, At
    <3>. QED
      BY <3>1 DEF Granting
  <2>3. CASE ~port[p].exists /\ ~InUse(c) /\ GoesOn(r, Native(r, "create"))
    <3>1. /\ request'[r].todo = << "getPort", "assign", "play", "arm" >>
          /\ request'[r].port = p /\ request'[r].channel = c
      BY <1>1, <2>3, Scripts DEF GoesOn, Native, At
    <3>2. port[p].channels = {}
      BY <1>1, <2>3 DEF Assigned
    <3>3. ~InUse(request[r].channel)'
      BY <2>1, <2>3, <3>1 DEF InUse
    <3>. QED
      BY <2>1, <3>1, <3>2, <3>3 DEF Granting
  <2>4. ~Ends(r, "refused")
    BY <1>1 DEF Ends, Result, At
  <2>. QED
    BY <2>1, <2>2, <2>3, <2>4 DEF CreateChecks
<1>3. CASE RemoteCall(r)
  <2>1. /\ request[r].pc = "native" /\ Granting(r) /\ UNCHANGED taken
        /\ port' = [port EXCEPT ![p] = u]
    BY <1>3 DEF RemoteCall, Succeeds, Continues, Assigned
  <2>2. ~LastCall(r)
    BY <1>1, <1>3 DEF RemoteCall, Succeeds, Continues, Ends, Result, At
  <2>3. /\ request'[r].todo = Tail(todo) /\ request'[r].port = p
        /\ request'[r].channel = c
    BY <1>1, <1>3, <2>2 DEF RemoteCall, Succeeds, Continues, GoesOn, At
  <2>4. port'[p] = u
    BY <1>1, <2>1
  <2>5. CASE todo = << "getPort", "assign", "play", "arm" >>
    <3>1. port[p].channels = {} /\ (Rivals \/ ~InUse(c))
      BY <2>1, <2>5 DEF Granting
    <3>2. u.channels = {}
      BY <1>1, <2>5, <3>1, ChannelsAfter, Todos DEF NextCall
    <3>3. \A q \in Ports : port'[q].channels = port[q].channels
      <4>. HIDE DEF u, p
      <4>. QED
        BY <1>1, <2>1, <3>1, <3>2
    <3>4. InUse(request[r].channel)' <=> InUse(c)
      BY <2>1, <2>3, <3>3 DEF InUse
    <3>5. Tail(todo) = << "assign", "play", "arm" >>
      BY <2>5, Todos
    <3>. QED
      BY <2>3, <2>4, <3>1, <3>2, <3>4, <3>5 DEF Granting
  <2>6. CASE todo = << "assign", "play", "arm" >>
    <3>1. port[p].channels = {} /\ (Rivals \/ ~InUse(c))
      BY <2>1, <2>6 DEF Granting
    <3>2. Rivals \/ c \in u.channels
      BY <1>1, <2>6, <3>1, ChannelsAfter, Todos DEF NextCall
    <3>3. Tail(todo) = << "play", "arm" >>
      BY <2>6, Todos
    <3>. QED
      BY <2>3, <2>4, <3>2, <3>3 DEF Granting
  <2>7. CASE todo = << "play", "arm" >>
    <3>1. Rivals \/ c \in port[p].channels
      BY <2>1, <2>7 DEF Granting
    <3>2. u.channels = port[p].channels
      BY <1>1, <2>7, ChannelsAfter, Todos DEF NextCall
    <3>3. Tail(todo) = << "arm" >>
      BY <2>7, Todos
    <3>. QED
      BY <2>3, <2>4, <3>1, <3>2, <3>3 DEF Granting
  <2>8. CASE todo = << "getPort", "read" >>
    <3>1. Tail(todo) = << "read" >>
      BY <2>8, Todos
    <3>. QED
      BY <2>3, <3>1 DEF Granting
  <2>9. todo # << "arm" >> /\ todo # << "read" >>
    BY <2>2, Todos DEF LastCall
  <2>. QED
    BY <2>1, <2>5, <2>6, <2>7, <2>8, <2>9 DEF Granting
<1>4. ~(Deletes(r) \/ Releases(r, "error") \/ NoPortLeft(r) \/ LoadRefused(r) \/ Ends(r, "error"))
  BY <1>1 DEF Deletes, Releases, NoPortLeft, LoadRefused, Ends, Result, At
<1>6. ~RemoteFails(r)
  <2>1. request[r].pc = "native" => NextCall(r) # "idle"
    BY CreateTodos DEF Assigned
  <2>. QED
    BY <1>4, <2>1 DEF RemoteFails
<1>5. ~FindsPortDeleted(r)
  BY <1>1 DEF FindsPortDeleted, GoesOn, At
<1>. QED
  BY <1>2, <1>3, <1>4, <1>5, <1>6 DEF Function

LEMMA PortsStaySingle ==
  ASSUME IInv, Assigned, faults.overruns = 0, NEW r \in Requests,
         Function(r) \/ RemoteFails(r), NEW p \in Ports
  PROVE  Single(port'[p])
<1>. DEFINE o == request[r].port
            u == After(r, port[o])
<1>1. port \in [Ports -> PortType] /\ o \in Ports
  BY FunctionSteps DEF IInv, TypeOK, Scripted, Fits, Active, FunctionStep
<1>2. CASE port' = port
  BY <1>2 DEF Assigned
<1>3. CASE Deleting(r)
  <2>1. port'[p] = port[p] \/ port'[p] = Absent
    BY <1>1, <1>3 DEF Deleting, Releases
  <2>. QED
    BY <2>1 DEF Assigned, Absent, Single
<1>4. CASE request[r].pc = "native" /\ port' = [port EXCEPT ![o] = u]
  <2>1. Single(u)
    <3>1. CASE NextCall(r) = "assign"
      <4>1. port[o].channels = {}
        BY <1>4, <3>1, AssignsOnlyCreating, CreateTodos DEF Assigned
      <4>2. u.channels \subseteq {request[r].channel}
        <5>1. u.channels = IF InUse(request[r].channel) THEN port[o].channels
                           ELSE port[o].channels \cup {request[r].channel}
          BY <1>1, <3>1, ChannelsAfter
        <5>. HIDE DEF o, u
        <5>. QED
          BY <4>1, <5>1
      <4>. QED
        BY <4>2 DEF Single
    <3>2. CASE NextCall(r) # "assign"
      <4>1. u.channels \subseteq port[o].channels
        BY <1>1, <3>2, ChannelsAfter
      <4>. QED
        BY <1>1, <4>1 DEF Assigned, Single
    <3>. QED
      BY <3>1, <3>2
  <2>. HIDE DEF o, u
  <2>2. port'[p] = u \/ port'[p] = port[p]
    BY <1>1, <1>4
  <2>. QED
    BY <2>1, <2>2 DEF Assigned, Single
<1>. QED
  BY <1>2, <1>3, <1>4, PortEffect

LEMMA AssignedStep == IInv /\ ResetsOnTheWay /\ Assigned /\ [Next]_vars => Assigned'
<1>. SUFFICES ASSUME IInv, ResetsOnTheWay, Assigned, [Next]_vars  PROVE Assigned'
  OBVIOUS
<1>1. /\ request \in [Requests -> RequestType] /\ queue \in Seq(Requests)
      /\ port \in [Ports -> PortType]
  BY DEF IInv, TypeOK
<1>2. ASSUME UNCHANGED port, Rivals \/ UNCHANGED taken,
             faults'.overruns = 0 => faults.overruns = 0,
             \A r \in Requests : request'[r].pc = "native" \/ request'[r].handle = "live"
                                   => request'[r] = request[r]
      PROVE  Assigned'
  <2>1. ASSUME NEW r \in Requests, request'[r] = request[r], Granting(r)
        PROVE  Granting(r)'
    BY <1>2, <2>1 DEF Granting, InUse
  <2>. QED
    BY <1>2, <2>1 DEF Assigned, Single
<1>3. CASE Dequeues
  <2>1. Head(queue) \in Requests
    BY <1>1, <1>3, TailOf DEF Dequeues
  <2>. QED
    BY <1>1, <1>2, <1>3, <2>1 DEF Dequeues, At
<1>4. CASE QueueTimesOut
  <2>1. faults'.overruns = 0 => FALSE
    BY <1>4 DEF QueueTimesOut, IInv, TypeOK
  <2>. QED
    BY <1>2, <1>4, <2>1 DEF QueueTimesOut
<1>5. ASSUME NEW r \in Requests, NEW op \in Allowed, NEW p \in Ports,
             NEW c \in (IF op = "create" THEN Channels ELSE {None}), Arrives(r, op, p, c)
      PROVE  Assigned'
  BY <1>1, <1>2, <1>5 DEF Arrives
<1>6. ASSUME NEW q \in Requests, Function(q) \/ RemoteFails(q)
      PROVE  Assigned'
  <2>1. request'[q].op = request[q].op /\ faults'.overruns = faults.overruns
    BY <1>6, FunctionSteps, FunctionKeepsOverruns DEF FunctionStep, IInv
  <2>2. \A r \in Requests \ {q} :
          request'[r].pc = request[r].pc /\ request'[r].op = request[r].op
    BY <1>6, FunctionEffect
  <2>3. Rivals \/ taken' = {}
    BY <1>6, PortEffect DEF Assigned
  <2>4. \A p \in Ports : ~port'[p].exists => port'[p].channels = {}
    BY <1>6, NoPortNoChannel
  <2>5. \A r \in Requests : request'[r].handle = "live" => port'[request'[r].port].exists
    BY <1>6, HandlesLive
  <2>6. ASSUME faults'.overruns = 0, NEW p \in Ports
        PROVE  Single(port'[p])
    BY <1>6, <2>1, <2>6, PortsStaySingle
  <2>7. ASSUME faults'.overruns = 0,
               NEW r \in Requests, request'[r].pc = "native", request'[r].op = "create"
        PROVE  Granting(r)'
    <3>1. CASE r = q
      BY <1>6, <2>1, <2>7, <3>1, OwnCreate
    <3>2. CASE r # q
      BY <1>6, <2>1, <2>2, <2>7, <3>2, OtherKeepsCreate
    <3>. QED
      BY <3>1, <3>2
  <2>. QED
    BY <2>3, <2>4, <2>5, <2>6, <2>7 DEF Assigned, Single
<1>7. ASSUME NEW c \in Channels, RivalTakes(c)
      PROVE  Assigned'
  BY <1>2, <1>7 DEF RivalTakes
<1>8. ASSUME NEW c \in Channels, RivalLeaves(c)
      PROVE  Assigned'
  BY <1>2, <1>8 DEF RivalLeaves, Assigned
<1>9. CASE UNCHANGED vars
  BY <1>2, <1>9 DEF vars
<1>. QED
  BY <1>3, <1>4, <1>5, <1>6, <1>7, <1>8, <1>9 DEF Next

LEMMA AssignedAlways == Spec => [](IInv /\ ResetsOnTheWay /\ Assigned)
<1>1. Init => ResetsOnTheWay
  BY DEF Init, ResetsOnTheWay, Done
<1>2. Init => Assigned
  BY DEF Init, Assigned, Done, Absent, Single
<1>3. IInv /\ ResetsOnTheWay /\ [Next]_vars => ResetsOnTheWay'
  BY ResetsStep
<1>4. IInv /\ ResetsOnTheWay /\ Assigned /\ [Next]_vars => Assigned'
  BY AssignedStep
<1>. QED
  BY <1>1, <1>2, <1>3, <1>4, InitHolds, StepHolds, PTL DEF Spec

(* A port never gets a second channel (README:198), whatever fails,        *)
(* whatever is asked for at the same time and whoever takes channels,      *)
(* until a queued function overruns.                                       *)
THEOREM NoSecondChannel == Spec => []OneChannel
<1>1. Assigned => OneChannel
  <2>. SUFFICES ASSUME Assigned, faults.overruns = 0, NEW p \in Ports
                PROVE  Cardinality(port[p].channels) <= 1
    BY DEF OneChannel
  <2>1. Single(port[p])
    BY DEF Assigned
  <2>2. CASE port[p].channels = {}
    BY <2>2, FS_EmptySet
  <2>3. ASSUME NEW c \in port[p].channels
        PROVE  Cardinality(port[p].channels) <= 1
    <3>1. port[p].channels = {c}
      BY <2>1 DEF Single
    <3>2. Cardinality({c}) = 1
      BY FS_Singleton, Zenon
    <3>. QED
      BY <3>1, <3>2
  <2>. QED
    BY <2>2, <2>3
<1>. QED
  BY <1>1, AssignedAlways, PTL

(* A create that is answered "created" has set the triggers, one that is   *)
(* answered "known" has read the state of the port.                        *)
LEMMA CreateEnds ==
  ASSUME IInv, Assigned, [Next]_vars, NEW r \in Requests, faults.overruns = 0,
         Answers(r, "create", {"ok", "known"})
  PROVE  /\ request[r].pc = "native" /\ request[r].op = "create" /\ Granting(r)
         /\ request[r].port \in Ports
         /\ port' = [port EXCEPT ![request[r].port] = After(r, port[request[r].port])]
         /\ \/ request[r].todo = << "arm" >>
            \/ /\ request[r].todo = << "read" >>
               /\ request[r].channel \in port[request[r].port].channels
<1>1. Active(r) /\ (Function(r) \/ RemoteFails(r))
  BY AnswersByFunction DEF Queued
<1>2. /\ request \in [Requests -> RequestType] /\ request[r].op = "create"
      /\ request'[r].pc = "idle" /\ request'[r].result \in {"ok", "known"}
      /\ request[r].port \in Ports
  BY <1>1 DEF IInv, TypeOK, Answers, Scripted, Fits, Active
<1>3. request[r].pc = "native" => Granting(r)
  BY <1>2 DEF Assigned
<1>4. RemoteCall(r)
  <2>1. ~GetsServers(r)
    BY <1>2 DEF GetsServers, CreateChecks, PortChecks, Ends, GoesOn, Native, Result, At
  <2>2. ~(NoPortLeft(r) \/ LoadRefused(r) \/ Ends(r, "error") \/ FindsPortDeleted(r))
    BY <1>2 DEF NoPortLeft, LoadRefused, FindsPortDeleted, Ends, GoesOn, Result, At
  <2>3. ~Deletes(r) /\ ~RemoteFails(r)
    BY <1>3, <2>2, CreateTodos DEF Deletes, Releases, RemoteFails
  <2>. QED
    BY <1>1, <2>1, <2>2, <2>3 DEF Function
<1>5. /\ request[r].pc = "native" /\ Granting(r) /\ LastCall(r) /\ Ends(r, ResultOf(r))
      /\ port' = [port EXCEPT ![request[r].port] = After(r, port[request[r].port])]
  BY <1>2, <1>3, <1>4 DEF RemoteCall, Succeeds, Continues, GoesOn, At
<1>6. request[r].todo \in { << "arm" >>, << "read" >> }
  BY <1>5, Todos DEF Granting, LastCall
<1>7. ASSUME request[r].todo = << "read" >>
      PROVE  request[r].channel \in port[request[r].port].channels
  <2>1. request'[r].result = ResultOf(r)
    BY <1>2, <1>5 DEF Ends, Result, At
  <2>. QED
    BY <1>2, <1>7, <2>1, Todos DEF ResultOf, NextCall
<1>. QED
  BY <1>2, <1>5, <1>6, <1>7

LEMMA CreateGrants ==
  ASSUME IInv, Assigned, ~Rivals, [Next]_vars, NEW r \in Requests, faults.overruns = 0,
         Answers(r, "create", {"ok", "known"})
  PROVE  request[r].channel \in port'[request[r].port].channels
<1>. DEFINE p == request[r].port
            u == After(r, port[p])
<1>1. /\ port \in [Ports -> PortType] /\ p \in Ports /\ Granting(r)
      /\ port' = [port EXCEPT ![p] = u]
      /\ request[r].todo \in { << "arm" >>, << "read" >> }
      /\ request[r].todo = << "read" >> => request[r].channel \in port[p].channels
  <2>1. << "arm" >> # << "read" >>
    BY Todos
  <2>2. port \in [Ports -> PortType]
    BY DEF IInv, TypeOK
  <2>. QED
    BY CreateEnds, <2>1, <2>2
<1>2. request[r].channel \in port[p].channels
  BY <1>1, Todos DEF Granting
<1>3. u.channels = port[p].channels
  BY <1>1, ChannelsAfter, Todos DEF NextCall
<1>4. port'[p] = u
  <2>. HIDE DEF p, u
  <2>. QED
    BY <1>1
<1>. QED
  BY <1>2, <1>3, <1>4

(* What the gateway tells of a channel is true, whatever fails and however *)
(* often port names and channels are asked for at once, if no other system *)
(* uses the channels and no queued function overruns.  With another system *)
(* it may be false: TLC refutes ChannelGranted then.                       *)
THEOREM GrantedIfAlone == ~Rivals /\ MaxOverruns = 0 => (Spec => ChannelGranted)
<1>. SUFFICES ASSUME ~Rivals, MaxOverruns = 0  PROVE Spec => ChannelGranted
  OBVIOUS
<1>1. IInv => faults.overruns = 0
  BY DEF IInv, TypeOK
<1>2. IInv /\ Assigned /\ [Next]_vars
        => [\A r \in Requests :
              Answers(r, "create", {"ok", "known"})
                => request[r].channel \in port'[request[r].port].channels]_vars
  BY <1>1, CreateGrants
<1>. QED
  BY <1>2, AssignedAlways, PTL DEF Spec, ChannelGranted

LEMMA CreateMakesPlay ==
  ASSUME IInv, Assigned, Undisturbed, Building, [Next]_vars, NEW r \in Requests,
         Answers(r, "create", {"ok", "known"})
  PROVE  port'[request[r].port].mode = "playing" /\ port'[request[r].port].armed
<1>. DEFINE p == request[r].port
            s == port[p]
            u == After(r, s)
<1>1. faults.overruns = 0
  BY DEF IInv, TypeOK, Undisturbed
<1>2. /\ port \in [Ports -> PortType] /\ p \in Ports /\ request[r].pc = "native"
      /\ port' = [port EXCEPT ![p] = u]
      /\ request[r].todo \in { << "arm" >>, << "read" >> }
  BY <1>1, CreateEnds DEF IInv, TypeOK
<1>3. Stage(request[r].todo, s, request[r].channel)
  BY <1>2 DEF Building
<1>4. CASE request[r].todo = << "arm" >>
  <2>1. s.mode = "playing" /\ s \in PortType
    BY <1>2, <1>3, <1>4 DEF Stage, Untouched
  <2>2. u = [s EXCEPT !.armed = TRUE]
    BY <1>4, AfterIs, Todos DEF NextCall
  <2>3. u.mode = "playing" /\ u.armed
    <3>. HIDE DEF s, u
    <3>. QED
      BY <2>1, <2>2 DEF PortType
  <2>. HIDE DEF p, u
  <2>. QED
    BY <1>2, <2>3 DEF p
<1>5. CASE request[r].todo = << "read" >>
  <2>1. s.mode = "playing" /\ s.armed
    BY <1>2, <1>3, <1>5 DEF Stage, Complete
  <2>2. u = s
    BY <1>5, AfterIs, Todos DEF NextCall
  <2>. HIDE DEF p, s, u
  <2>. QED
    BY <1>2, <2>1, <2>2 DEF p
<1>. QED
  BY <1>2, <1>4, <1>5

(* A port that a client is told of is configured for playout, as long as   *)
(* nothing disturbs the queue.  After a failure the next create is told of *)
(* the port that the first left half made.                                 *)
THEOREM CreatedPlays == Undisturbed => (Spec => CreatedPortPlays)
<1>. SUFFICES ASSUME Undisturbed PROVE Spec => CreatedPortPlays
  OBVIOUS
<1>1. Init => Building
  BY DEF Init, Building, Done, Active, Absent, Sound
<1>2. IInv /\ Building /\ [Next]_vars => Building'
  BY BuildingStep
<1>3. IInv /\ Assigned /\ Building /\ [Next]_vars
        => [\A r \in Requests :
              Answers(r, "create", {"ok", "known"})
                => port'[request[r].port].mode = "playing" /\ port'[request[r].port].armed]_vars
  BY CreateMakesPlay
<1>. QED
  BY <1>1, <1>2, <1>3, AssignedAlways, PTL DEF Spec, CreatedPortPlays
=============================================================================
