------------------------- MODULE PortService_proofs -------------------------
(***************************************************************************)
(* PlayPort implements PortService: without failures, overruns, rivals and *)
(* operations beside the queue each queued operation takes effect at once, *)
(* for any finite number of channels and any requests and ports.           *)
(***************************************************************************)
EXTENDS PlayPort_proofs

(* What the functions have left to do. *)
Making == { << "getPort", "assign", "play", "arm" >>, << "assign", "play", "arm" >>,
            << "play", "arm" >>, << "arm" >> }
Reading == { << "getPort", "read" >>, << "read" >> }
Resetting == { << "getPort", "clear", "play", "arm" >>, << "clear", "play", "arm" >>,
               << "play", "arm" >>, << "arm" >> }
Removing == { << "getPort", "idle", "clear", "delete" >>, << "idle", "clear", "delete" >>,
              << "clear", "delete" >>, << "delete" >> }

(* The channels of a port in state s on which a function for channel c     *)
(* works.                                                                  *)
ChannelStage(op, todo, s, c) ==
  \/ /\ op = "create"
     /\ todo \in { << "getPort", "assign", "play", "arm" >>, << "assign", "play", "arm" >> }
     /\ s.channels = {}
  \/ op = "create" /\ todo \in { << "play", "arm" >>, << "arm" >> } /\ s.channels = {c}
  \/ op \in { "create", "status", "properties" } /\ todo \in Reading
  \/ op = "reset" /\ todo \in Resetting /\ s.channels # {}
  \/ op = "release" /\ todo \in Removing /\ s.channels # {}

(* Each port has one channel, its own, or none yet. *)
Owned ==
  /\ \A p \in Ports : port[p].exists \/ port[p].channels = {}
  /\ \A p \in Ports : \A c, d \in port[p].channels : c = d
  /\ \A p, q \in Ports : \A c \in port[p].channels : c \in port[q].channels => p = q
  /\ \A r \in Requests :
       request[r].pc = "native" =>
         ChannelStage(request[r].op, request[r].todo, port[request[r].port], request[r].channel)

SInv == IInv /\ Undisturbed /\ Building /\ Owned

(* A port that is being made, or has no channel, has no owner yet. *)
Made(p) ==
  \E r \in Requests : /\ request[r].pc = "native" /\ request[r].op = "create"
                      /\ request[r].port = p /\ request[r].todo \in Making
Unowned(p) == port[p].channels = {} \/ Made(p)
-----------------------------------------------------------------------------
LEMMA StatusTodos == StatusScript = << "getPort", "read" >> /\ Tail(StatusScript) = << "read" >>
BY DEF StatusScript

LEMMA MakingNotReading == \A t \in Making : t \notin Reading
<1>. SUFFICES ASSUME NEW t \in Making, t \in Reading  PROVE FALSE
  OBVIOUS
<1>1. Head(t) = "read" \/ (Head(t) = "getPort" /\ Head(Tail(t)) = "read")
  BY Todos DEF Reading
<1>. QED
  BY <1>1, Todos DEF Making

LEMMA OwnerIs ==
  ASSUME SInv, NEW p \in Ports
  PROVE  Owner(p) = IF Unowned(p) THEN None
                    ELSE CHOOSE c \in Channels : c \in port[p].channels
<1>1. CASE port[p].channels = {}
  BY <1>1 DEF Owner, Unowned
<1>2. CASE Made(p)
  <2>1. p \in UnderWay("create")
    BY <1>2, StatusTodos, MakingNotReading DEF Made, UnderWay, Reading
  <2>. QED
    BY <1>2, <2>1 DEF Owner, Unowned
<1>3. CASE ~Unowned(p)
  <2>1. p \notin UnderWay("create")
    <3>1. ASSUME NEW r \in Requests, request[r].pc = "native", request[r].op = "create",
                 request[r].todo \notin {StatusScript, Tail(StatusScript)}
          PROVE  request[r].todo \in Making
      <4>1. ChannelStage(request[r].op, request[r].todo, port[request[r].port],
                         request[r].channel)
        BY <3>1 DEF SInv, Owned
      <4>. QED
        BY <3>1, <4>1, StatusTodos DEF ChannelStage, Reading, Making
    <3>. QED
      BY <1>3, <3>1 DEF UnderWay, Unowned, Made
  <2>2. \/ port[p].mode = "playing" /\ port[p].armed
        \/ p \in UnderWay("reset") \cup UnderWay("release")
    <3>1. port[p].exists /\ (Sound(port[p]) \/ \E r \in Requests : AtWork(r, p))
      BY <1>3 DEF SInv, Owned, Building, Unowned
    <3>2. CASE Sound(port[p])
      BY <3>1, <3>2 DEF Sound, Complete
    <3>3. ASSUME NEW r \in Requests, AtWork(r, p)
          PROVE  \/ port[p].mode = "playing" /\ port[p].armed
                 \/ p \in UnderWay("reset") \cup UnderWay("release")
      <4>1. /\ request[r].pc = "native" /\ request[r].port = p
            /\ ChannelStage(request[r].op, request[r].todo, port[p], request[r].channel)
            /\ Stage(request[r].todo, port[p], request[r].channel)
        BY <3>3 DEF AtWork, SInv, Owned, Building
      <4>2. CASE request[r].todo \in Reading
        <5>1. Complete(port[p])
          BY <4>1, <4>2, Todos DEF Reading, Stage, Untouched
        <5>. QED
          BY <5>1 DEF Complete
      <4>3. CASE request[r].todo \notin Reading
        <5>1. request[r].op \in {"reset", "release"}
          BY <1>3, <4>1, <4>3 DEF ChannelStage, Unowned, Made, Making
        <5>. QED
          BY <4>1, <4>3, <5>1, StatusTodos DEF UnderWay, Reading
      <4>. QED
        BY <4>2, <4>3
    <3>. QED
      BY <3>1, <3>2, <3>3
  <2>. QED
    BY <1>3, <2>1, <2>2 DEF Owner, Unowned
<1>. QED
  BY <1>1, <1>2, <1>3 DEF Unowned

LEMMA ServiceInit == Init => Service!Init
<1>. SUFFICES ASSUME Init PROVE Service!Init
  OBVIOUS
<1>1. \A p \in Ports : Owner(p) = None
  BY DEF Init, Owner, Absent
<1>2. \A r \in Requests : Call(r) = Service!Quiet
  BY DEF Init, Call, Done, Service!Quiet
<1>. QED
  BY <1>1, <1>2 DEF Service!Init
-----------------------------------------------------------------------------
(* Owned is preserved. *)

LEMMA LocalChannels ==
  ASSUME SInv, NEW r \in Requests, Active(r),
         \A q \in Requests \ {r} : request'[q] = request[q],
         \A p \in Ports \ {request[r].port} : port'[p] = port[p],
         port'[request[r].port].exists \/ port'[request[r].port].channels = {},
         \/ port'[request[r].port].channels = port[request[r].port].channels
         \/ port'[request[r].port].channels = {}
         \/ /\ port'[request[r].port].channels = {request[r].channel}
            /\ ~InUse(request[r].channel),
         request'[r].pc = "native" =>
           ChannelStage(request[r].op, request[r].todo, port[request[r].port],
                        request[r].channel)'
  PROVE  Owned'
<1>. DEFINE o == request[r].port
<1>1. \A q \in Requests \ {r} : ~Active(q)
  BY OneActive DEF SInv
<1>2. Owned
  BY DEF SInv
<1>3. \A p \in Ports : port'[p].exists \/ port'[p].channels = {}
  BY <1>2 DEF Owned
<1>4. \A p \in Ports : \A c, d \in port'[p].channels : c = d
  BY <1>2 DEF Owned
<1>5. ASSUME NEW p \in Ports, NEW q \in Ports, NEW c \in port'[p].channels,
             c \in port'[q].channels
      PROVE  p = q
  <2>1. CASE p # o /\ q # o
    BY <1>2, <1>5, <2>1 DEF Owned
  <2>2. ASSUME NEW x \in Ports \ {o}, c \in port'[o].channels, c \in port'[x].channels,
               o \in Ports
        PROVE  FALSE
    <3>1. c \in port[x].channels
      BY <2>2
    <3>2. c \in port[o].channels \/ (c = request[r].channel /\ ~InUse(c))
      BY <2>2
    <3>. QED
      BY <1>2, <2>2, <3>1, <3>2 DEF Owned, InUse
  <2>. QED
    BY <1>5, <2>1, <2>2
<1>6. \A q \in Requests :
        request'[q].pc = "native" =>
          ChannelStage(request[q].op, request[q].todo, port[request[q].port],
                       request[q].channel)'
  BY <1>1 DEF Active
<1>. QED
  BY <1>3, <1>4, <1>5, <1>6 DEF Owned

LEMMA QuietChannels ==
  ASSUME SInv, UNCHANGED port,
         \A q \in Requests : request'[q].pc = "native" => request'[q] = request[q]
  PROVE  Owned'
<1>1. \A q \in Requests : request'[q].pc = "native" =>
        ChannelStage(request[q].op, request[q].todo, port[request[q].port],
                     request[q].channel)'
  BY DEF SInv, Owned, ChannelStage
<1>. QED
  BY <1>1 DEF SInv, Owned

(* A remote call touches the channels of its port in assignChannel only. *)
LEMMA CallChannels ==
  ASSUME SInv, NEW r \in Requests, RemoteCall(r)
  PROVE  LET p == request[r].port IN
         /\ Active(r) /\ p \in Ports
         /\ port'[p] = After(r, port[p])
         /\ \A q \in Ports \ {p} : port'[q] = port[q]
         /\ port'[p].exists
         /\ NextCall(r) # "assign" => port'[p].channels = port[p].channels
         /\ NextCall(r) = "assign" =>
              /\ ~InUse(request[r].channel)
              /\ port[p].channels = {}
              /\ port'[p].channels = {request[r].channel}
<1>. DEFINE p == request[r].port
            s == port[p]
            t == After(r, s)
            c == request[r].channel
            todo == request[r].todo
<1>1. /\ Active(r) /\ request[r].pc = "native" /\ NextCall(r) # "delete"
      /\ port' = [port EXCEPT ![p] = t]
      /\ Stage(todo, s, c) /\ ChannelStage(request[r].op, todo, s, c)
  BY DEF RemoteCall, Succeeds, Continues, Active, SInv, Building, Owned
<1>2. /\ port \in [Ports -> PortType] /\ p \in Ports
      /\ request[r].op = "create" => c \in Channels
      /\ s.exists \/ s.channels = {}
      /\ NextCall(r) = Head(todo)
  BY <1>1 DEF SInv, IInv, TypeOK, Scripted, Fits, Owned, NextCall
<1>3. s \in PortType
  BY <1>2
<1>4. port'[p] = t /\ \A q \in Ports \ {p} : port'[q] = port[q]
  BY <1>1, <1>2
<1>5. /\ t.exists
      /\ NextCall(r) # "assign" => t.channels = s.channels
      /\ NextCall(r) = "assign" => ~InUse(c) /\ s.channels = {} /\ t.channels = {c}
  <2>1. CASE NextCall(r) = "getPort"
    <3>1. t = IF s.exists THEN s ELSE NewPort
      BY <2>1, AfterIs
    <3>. HIDE DEF s, t
    <3>. QED
      BY <1>2, <2>1, <3>1 DEF NewPort, Absent
  <2>2. CASE NextCall(r) = "assign"
    <3>1. todo = << "assign", "play", "arm" >>
      BY <1>1, <1>2, <2>2, Todos DEF Stage, Untouched
    <3>2. s.exists /\ ~InUse(c)
      BY <1>1, <3>1, Todos DEF Stage, Untouched
    <3>3. s.channels = {}
      <4>1. request[r].op = "create" /\ todo \notin Reading
        BY <1>1, <3>1, Todos DEF ChannelStage, Reading, Resetting, Removing
      <4>2. todo # << "play", "arm" >> /\ todo # << "arm" >>
        BY <3>1, Todos
      <4>. QED
        BY <1>1, <4>1, <4>2 DEF ChannelStage
    <3>4. t = [InMode(s, "idle") EXCEPT !.channels = @ \cup {c}]
      BY <2>2, <3>2, AfterIs
    <3>5. /\ InMode(s, "idle").exists /\ InMode(s, "idle").channels = {}
          /\ InMode(s, "idle") \in PortType
      BY <1>3, <3>2, <3>3, InModeTyped DEF InMode, Cleared
    <3>. HIDE DEF s, t
    <3>. QED
      BY <2>2, <3>2, <3>3, <3>4, <3>5 DEF PortType
  <2>3. ASSUME NextCall(r) \notin {"getPort", "assign"}
        PROVE  s.exists
    <3>1. CASE s.channels = {}
      <4>1. todo = << "read" >>
        BY <1>1, <1>2, <2>3, <3>1, Todos DEF ChannelStage, Reading
      <4>. QED
        BY <1>1, <4>1, Todos DEF Stage, Complete
    <3>. QED
      BY <1>2, <3>1
  <2>4. CASE NextCall(r) \in {"play", "idle", "clear", "arm", "read"}
    <3>1. t \in { InMode(s, "playing"), InMode(s, "idle"), Cleared(s, s.mode),
                  [s EXCEPT !.armed = TRUE], s }
      BY <2>4, AfterIs
    <3>2. s.exists
      BY <2>3, <2>4
    <3>. HIDE DEF s, t
    <3>. QED
      BY <1>3, <2>4, <3>1, <3>2 DEF InMode, Cleared, PortType
  <2>5. NextCall(r) \in {"getPort", "assign", "play", "idle", "clear", "arm", "read"}
    BY <1>1, <1>2, Todos DEF Stage, Untouched
  <2>. QED
    BY <2>1, <2>2, <2>4, <2>5
<1>. QED
  BY <1>1, <1>2, <1>4, <1>5

LEMMA OwnedStep == SInv /\ [Next]_vars => Owned'
<1>. SUFFICES ASSUME SInv, [Next]_vars  PROVE Owned'
  OBVIOUS
<1>1. /\ request \in [Requests -> RequestType] /\ port \in [Ports -> PortType]
      /\ queue \in Seq(Requests)
      /\ IInv /\ Undisturbed /\ Building /\ Owned
  BY DEF SInv, IInv, TypeOK
<1>2. ASSUME NEW r \in Requests, NEW v, Active(r), Ends(r, v), UNCHANGED port
      PROVE  Owned'
  <2>1. /\ \A q \in Requests \ {r} : request'[q] = request[q]
        /\ request'[r].pc = "idle"
    BY <1>1, <1>2 DEF Ends, Result, At
  <2>2. request[r].port \in Ports
    BY <1>1, <1>2 DEF IInv, Scripted, Fits, Active
  <2>. QED
    BY <1>1, <1>2, <2>1, <2>2, LocalChannels DEF Owned
<1>3. CASE Dequeues
  <2>1. Head(queue) \in Requests
    BY <1>1, <1>3, TailOf DEF Dequeues
  <2>. QED
    BY <1>1, <1>3, <2>1, QuietChannels DEF Dequeues, At
<1>4. ASSUME NEW r \in Requests, NEW op \in Allowed, NEW p \in Ports,
             NEW c \in (IF op = "create" THEN Channels ELSE {None}), Arrives(r, op, p, c)
      PROVE  Owned'
  BY <1>1, <1>4, QuietChannels DEF Arrives
<1>5. ASSUME NEW r \in Requests, GetsServers(r)
      PROVE  Owned'
  <2>. DEFINE p == request[r].port
              s == port[p]
              c == request[r].channel
  <2>1. Active(r) /\ UNCHANGED port /\ p \in Ports /\ request[r].op \in Queued
    BY <1>1, <1>5 DEF GetsServers, Active, IInv, Scripted, Fits, Building
  <2>2. Sound(s) /\ (s.exists \/ s.channels = {})
    <3>1. ~\E q \in Requests : AtWork(q, p)
      BY <1>1, <1>5, <2>1, OneActive DEF AtWork, GetsServers
    <3>. QED
      BY <1>1, <2>1, <3>1 DEF Building, Owned
  <2>3. ASSUME NEW op, GoesOn(r, Native(r, op)), ChannelStage(request[r].op, Script(op), s, c)
        PROVE  Owned'
    <3>1. /\ \A q \in Requests \ {r} : request'[q] = request[q]
          /\ request'[r].op = request[r].op /\ request'[r].port = p
          /\ request'[r].todo = Script(op) /\ request'[r].channel = c
      BY <1>1, <2>3 DEF GoesOn, Native, At
    <3>2. ChannelStage(request[r].op, request[r].todo, port[request[r].port],
                       request[r].channel)'
      BY <2>1, <2>3, <3>1 DEF ChannelStage
    <3>. QED
      BY <2>1, <2>2, <3>1, <3>2, LocalChannels
  <2>4. CASE CreateChecks(r)
    <3>1. CASE Ends(r, "refused")
      BY <1>2, <2>1, <3>1
    <3>2. CASE GoesOn(r, Native(r, "status"))
      <4>1. ChannelStage(request[r].op, Script("status"), s, c)
        BY <2>4, Scripts DEF CreateChecks, ChannelStage, Reading
      <4>. QED
        BY <2>3, <3>2, <4>1
    <3>3. CASE ~s.exists /\ GoesOn(r, Native(r, "create"))
      <4>1. ChannelStage(request[r].op, Script("create"), s, c)
        BY <2>2, <2>4, <3>3, Scripts DEF CreateChecks, ChannelStage
      <4>. QED
        BY <2>3, <3>3, <4>1
    <3>. QED
      BY <2>4, <3>1, <3>2, <3>3 DEF CreateChecks
  <2>5. CASE PortChecks(r)
    <3>1. CASE s.exists /\ GoesOn(r, Native(r, request[r].op))
      <4>1. s.channels # {}
        BY <2>2, <3>1 DEF Sound, Complete
      <4>2. request[r].op \in { "status", "reset", "release", "properties" }
        BY <2>1, <2>5 DEF PortChecks, Queued
      <4>3. ChannelStage(request[r].op, Script(request[r].op), s, c)
        BY <4>1, <4>2, Scripts DEF ChannelStage, Reading, Resetting, Removing
      <4>. QED
        BY <2>3, <3>1, <4>3
    <3>2. request[r].todo = << >>
      BY <1>1, <1>5, <2>1 DEF GetsServers, Building
    <3>. QED
      BY <1>2, <2>1, <2>5, <3>1, <3>2 DEF PortChecks
  <2>. QED
    BY <1>5, <2>4, <2>5 DEF GetsServers
<1>6. ASSUME NEW r \in Requests, RemoteCall(r)
      PROVE  Owned'
  <2>. DEFINE p == request[r].port
              s == port[p]
              c == request[r].channel
              todo == request[r].todo
  <2>1. /\ Active(r) /\ p \in Ports
        /\ \A q \in Ports \ {p} : port'[q] = port[q]
        /\ port'[p].exists
        /\ NextCall(r) # "assign" => port'[p].channels = s.channels
        /\ NextCall(r) = "assign" => ~InUse(c) /\ s.channels = {} /\ port'[p].channels = {c}
    BY <1>6, CallChannels
  <2>2. CASE LastCall(r)
    <3>1. Ends(r, ResultOf(r))
      BY <1>6, <2>2 DEF RemoteCall, Succeeds, Continues
    <3>2. /\ \A q \in Requests \ {r} : request'[q] = request[q]
          /\ request'[r].pc = "idle"
      BY <1>1, <3>1 DEF Ends, Result, At
    <3>. QED
      BY <2>1, <3>2, LocalChannels
  <2>3. CASE ~LastCall(r)
    <3>1. /\ \A q \in Requests \ {r} : request'[q] = request[q]
          /\ request'[r].op = request[r].op /\ request'[r].port = p
          /\ request'[r].todo = Tail(todo) /\ request'[r].channel = c
      BY <1>1, <1>6, <2>3 DEF RemoteCall, Succeeds, Continues, GoesOn, At
    <3>2. ChannelStage(request[r].op, todo, s, c)
      BY <1>1, <1>6 DEF RemoteCall, Owned
    <3>3. NextCall(r) = Head(todo) /\ Len(todo) # 1 /\ Head(todo) # "delete"
      BY <1>6, <2>3 DEF NextCall, LastCall, RemoteCall
    <3>4. ChannelStage(request[r].op, Tail(todo), port'[p], c)
      <4>. HIDE DEF todo, s, c, p
      <4>1. CASE todo = << "assign", "play", "arm" >> /\ request[r].op = "create"
        BY <2>1, <3>3, <4>1, Todos DEF ChannelStage
      <4>2. CASE todo = << "getPort", "assign", "play", "arm" >> /\ request[r].op = "create"
                 /\ s.channels = {}
        BY <2>1, <3>3, <4>2, Todos DEF ChannelStage
      <4>3. CASE request[r].op = "create" /\ todo \in { << "play", "arm" >>, << "arm" >> }
                 /\ s.channels = {c}
        BY <2>1, <3>3, <4>3, Todos DEF ChannelStage
      <4>4. CASE request[r].op \in { "create", "status", "properties" } /\ todo \in Reading
        BY <3>3, <4>4, Todos DEF ChannelStage, Reading
      <4>5. CASE request[r].op = "reset" /\ todo \in Resetting /\ s.channels # {}
        BY <2>1, <3>3, <4>5, Todos DEF ChannelStage, Resetting
      <4>6. CASE request[r].op = "release" /\ todo \in Removing /\ s.channels # {}
        BY <2>1, <3>3, <4>6, Todos DEF ChannelStage, Removing
      <4>. QED
        BY <3>2, <4>1, <4>2, <4>3, <4>4, <4>5, <4>6 DEF ChannelStage
    <3>5. ChannelStage(request[r].op, request[r].todo, port[request[r].port],
                       request[r].channel)'
      BY <3>1, <3>4 DEF ChannelStage
    <3>. QED
      BY <2>1, <3>1, <3>5, LocalChannels
  <2>. QED
    BY <2>2, <2>3
<1>7. ASSUME NEW r \in Requests, Deletes(r)
      PROVE  Owned'
  <2>1. Active(r) /\ port' = [port EXCEPT ![request[r].port] = Absent]
    BY <1>7 DEF Deletes, Releases, Active
  <2>2. request[r].port \in Ports
    BY <1>1, <2>1 DEF IInv, Scripted, Fits, Active
  <2>3. /\ port'[request[r].port] = Absent
        /\ \A q \in Ports \ {request[r].port} : port'[q] = port[q]
    BY <1>1, <2>1, <2>2
  <2>4. \A q \in Requests \ {r} : request'[q] = request[q]
    <3>1. \A q \in Requests \ {r} : request[q].handle = "none"
      BY <1>1, <2>1, OneActive DEF Building, Active
    <3>. QED
      BY <1>7, <3>1 DEF Deletes, Releases
  <2>5. request'[r].pc = "idle"
    BY <1>7 DEF Deletes, Releases, Result, At
  <2>. QED
    BY <2>1, <2>3, <2>4, <2>5, LocalChannels DEF Absent
<1>8. ASSUME NEW r \in Requests, Function(r) \/ RemoteFails(r)
      PROVE  Owned'
  <2>1. CASE NoPortLeft(r)
    BY <1>2, <2>1 DEF NoPortLeft, Active
  <2>. QED
    BY <1>1, <1>5, <1>6, <1>7, <1>8, <2>1, NoFailure DEF Function
<1>9. CASE QueueTimesOut
  BY <1>9 DEF QueueTimesOut, SInv, IInv, TypeOK, Undisturbed
<1>10. ASSUME NEW c \in Channels
       PROVE  ~RivalTakes(c) /\ ~RivalLeaves(c)
  BY <1>1 DEF RivalTakes, RivalLeaves, Undisturbed, Building
<1>11. CASE UNCHANGED vars
  BY <1>11, QuietChannels DEF vars
<1>. QED
  BY <1>3, <1>4, <1>8, <1>9, <1>10, <1>11 DEF Next
-----------------------------------------------------------------------------
(* What a step means to the service *)

(* The owner of a port is the channel that it has. *)
OwnersFit ==
  \A p \in Ports : /\ Unowned(p) => Owner(p) = None
                   /\ ~Unowned(p) => Owner(p) \in port[p].channels /\ Owner(p) # None

LEMMA OwnersFitNow == SInv => OwnersFit
<1>. SUFFICES ASSUME SInv, NEW p \in Ports
              PROVE  /\ Unowned(p) => Owner(p) = None
                     /\ ~Unowned(p) => Owner(p) \in port[p].channels /\ Owner(p) # None
  BY DEF OwnersFit
<1>1. port[p].channels \subseteq Channels /\ None \notin Channels
  BY PlayPortAssumption DEF SInv, IInv, TypeOK, PortType
<1>2. CASE Unowned(p)
  BY <1>2, OwnerIs
<1>3. CASE ~Unowned(p)
  <2>1. Owner(p) = CHOOSE c \in Channels : c \in port[p].channels
    BY <1>3, OwnerIs
  <2>2. \E c \in Channels : c \in port[p].channels
    BY <1>1, <1>3 DEF Unowned
  <2>. QED
    BY <1>1, <1>3, <2>1, <2>2
<1>. QED
  BY <1>2, <1>3

LEMMA OwnersFitNext == SInv' => OwnersFit'
BY OwnersFitNow, PTL

LEMMA SameOwner ==
  ASSUME SInv, SInv', NEW p \in Ports,
         \/ Unowned(p) /\ Unowned(p)'
         \/ ~Unowned(p) /\ ~Unowned(p)' /\ port'[p].channels = port[p].channels
  PROVE  Owner(p)' = Owner(p)
<1>1. OwnersFit /\ OwnersFit' /\ Owned
  BY OwnersFitNow, OwnersFitNext DEF SInv
<1>. QED
  BY <1>1 DEF OwnersFit, Owned

(* Only the active function may be making a port. *)
LEMMA MadeByActive ==
  ASSUME SInv, NEW r \in Requests, Active(r), NEW p \in Ports
  PROVE  Made(p) <=> /\ request[r].pc = "native" /\ request[r].op = "create"
                     /\ request[r].port = p /\ request[r].todo \in Making
<1>1. \A q \in Requests \ {r} : ~Active(q)
  BY OneActive DEF SInv
<1>. QED
  BY <1>1 DEF Made, Active

(* The ports that a function does not work on keep their owners. *)
LEMMA OtherOwners ==
  ASSUME SInv, SInv', NEW r \in Requests, NEW p \in Ports,
         \A q \in Requests \ {r} : request'[q] = request[q],
         port'[p] = port[p],
         request[r].pc = "native" => request[r].port # p,
         request'[r].pc = "native" => request'[r].port # p
  PROVE  Owner(p)' = Owner(p)
<1>1. Made(p)' <=> Made(p)
  <2>1. Made(p) => Made(p)'
    BY DEF Made
  <2>2. Made(p)' => Made(p)
    BY DEF Made
  <2>. QED
    BY <2>1, <2>2
<1>2. Unowned(p)' <=> Unowned(p)
  BY <1>1 DEF Unowned
<1>. QED
  BY <1>2, SameOwner

LEMMA SameCall == \A r \in Requests : request'[r] = request[r] => Call(r)' = Call(r)
BY DEF Call

LEMMA Stutters ==
  ASSUME \A p \in Ports : Owner(p)' = Owner(p), \A r \in Requests : Call(r)' = Call(r)
  PROVE  UNCHANGED Service!vars
BY DEF Service!vars

(* A function that ends answers its call. *)
LEMMA AnswersCall ==
  ASSUME NEW r \in Requests, NEW v, request[r].pc # "idle",
         \A q \in Requests \ {r} : request'[q] = request[q],
         request'[r] = Result(r, v)
  PROVE  Service!Answer(r, request[r].op, v)
<1>. DEFINE f == [q \in Requests |-> Call(q)]
<1>1. Call(r) = [op |-> request[r].op, port |-> request[r].port,
                 channel |-> request[r].channel, result |-> "pending"]
  BY DEF Call
<1>2. Call(r)' = [op |-> request[r].op, port |-> request[r].port,
                  channel |-> request[r].channel, result |-> v]
  BY DEF Call, Result, At
<1>3. Call(r)' = [Call(r) EXCEPT !.result = v]
  BY <1>1, <1>2
<1>4. \A q \in Requests \ {r} : Call(q)' = Call(q)
  BY SameCall
<1>5. [q \in Requests |-> Call(q)]' = [f EXCEPT ![r] = [Call(r) EXCEPT !.result = v]]
  <2>. HIDE DEF f
  <2>. QED
    BY <1>3, <1>4 DEF f
<1>6. f[r] = Call(r)
  OBVIOUS
<1>7. f' = [f EXCEPT ![r].result = v]
  BY <1>5, <1>6
<1>8. f[r].op = request[r].op /\ f[r].result = "pending"
  BY <1>1
<1>. QED
  BY <1>7, <1>8 DEF Service!Answer
-----------------------------------------------------------------------------
(* The service takes a step, or stutters, with each step of the gateway. *)

LEMMA ArrivalAsks ==
  ASSUME SInv, SInv', NEW r \in Requests, NEW op \in Allowed, NEW p \in Ports,
         NEW c \in (IF op = "create" THEN Channels ELSE {None}), Arrives(r, op, p, c)
  PROVE  Service!Asks(r)
<1>. DEFINE f == [q \in Requests |-> Call(q)]
            asked == [op |-> op, port |-> p, channel |-> c, result |-> "pending"]
<1>1. op \in {"create", "status", "reset", "release", "properties"}
  BY DEF SInv, Undisturbed, Queued
<1>2. /\ request \in [Requests -> RequestType] /\ request[r].pc = "idle"
      /\ UNCHANGED port /\ request'[r].pc = "waiting"
      /\ \A q \in Requests \ {r} : request'[q] = request[q]
      /\ request'[r].op = op /\ request'[r].port = p /\ request'[r].channel = c
  BY <1>1 DEF SInv, IInv, TypeOK, Arrives, Queued
<1>3. \A q \in Ports : Owner(q)' = Owner(q)
  BY <1>2, OtherOwners
<1>4. Call(r)' = asked
  BY <1>2 DEF Call
<1>5. \A q \in Requests \ {r} : Call(q)' = Call(q)
  BY <1>2, SameCall
<1>6. f' = [f EXCEPT ![r] = asked]
  <2>. HIDE DEF asked
  <2>. QED
    BY <1>4, <1>5
<1>7. f[r].result # "pending"
  BY <1>2 DEF Call, RequestType
<1>8. UNCHANGED [q \in Ports |-> Owner(q)]
  BY <1>3
<1>. QED
  BY <1>1, <1>6, <1>7, <1>8 DEF Service!Asks

LEMMA DequeueStutters ==
  ASSUME SInv, SInv', Dequeues
  PROVE  UNCHANGED Service!vars
<1>. PICK r \in Requests : r = Head(queue)
  BY TailOf DEF SInv, IInv, TypeOK, Dequeues
<1>1. /\ request \in [Requests -> RequestType]
      /\ \E i \in 1 .. Len(queue) : queue[i] = r
  BY TailOf DEF SInv, IInv, TypeOK, Dequeues
<1>2. request[r].pc = "waiting"
  BY <1>1 DEF SInv, IInv, QueueConsistent
<1>3. /\ UNCHANGED port /\ request'[r] = At(r, "servers", << >>, "none", "none")
      /\ \A q \in Requests \ {r} : request'[q] = request[q]
  BY <1>1 DEF Dequeues
<1>4. \A p \in Ports : Owner(p)' = Owner(p)
  BY <1>1, <1>2, <1>3, OtherOwners DEF At
<1>5. \A q \in Requests : Call(q)' = Call(q)
  <2>1. Call(r)' = Call(r)
    BY <1>2, <1>3 DEF Call, At
  <2>. QED
    BY <1>3, <2>1, SameCall
<1>. QED
  BY <1>4, <1>5, Stutters

(* What the service sees when the function of r ends, or goes on: only the *)
(* port on which it works may change.                                      *)
LEMMA Frame ==
  ASSUME SInv, SInv', NEW r \in Requests, Active(r),
         \A q \in Requests \ {r} : request'[q] = request[q],
         \A p \in Ports \ {request[r].port} : port'[p] = port[p],
         request'[r].pc = "native" => request'[r].port = request[r].port
  PROVE  /\ request[r].port \in Ports
         /\ \A p \in Ports \ {request[r].port} : Owner(p)' = Owner(p)
         /\ \A q \in Requests \ {r} : Call(q)' = Call(q)
<1>1. request[r].port \in Ports
  BY DEF SInv, IInv, Scripted, Fits, Active
<1>2. \A p \in Ports \ {request[r].port} : Owner(p)' = Owner(p)
  BY OtherOwners
<1>. QED
  BY <1>1, <1>2, SameCall

LEMMA GoesOnStutters ==
  ASSUME SInv, SInv', NEW r \in Requests, Active(r),
         NEW todo, NEW handle,
         GoesOn(r, At(r, "native", todo, handle, "none")),
         NEW o, o = request[r].port,
         \A p \in Ports \ {o} : port'[p] = port[p],
         Owner(o)' = Owner(o)
  PROVE  UNCHANGED Service!vars
<1>1. /\ \A q \in Requests \ {r} : request'[q] = request[q]
      /\ request'[r] = At(r, "native", todo, handle, "none")
  BY DEF SInv, IInv, TypeOK, GoesOn
<1>2. /\ \A p \in Ports \ {request[r].port} : Owner(p)' = Owner(p)
      /\ \A q \in Requests \ {r} : Call(q)' = Call(q)
  BY <1>1, Frame DEF At
<1>3. Call(r)' = Call(r)
  BY <1>1 DEF Call, At, Active
<1>. QED
  BY <1>2, <1>3, Stutters

(* The port's owner, when its channels are kept. *)
LEMMA OwnerKept ==
  ASSUME SInv, SInv', NEW p \in Ports, Made(p)' <=> Made(p),
         port'[p].channels = port[p].channels
  PROVE  Owner(p)' = Owner(p)
BY SameOwner DEF Unowned

(* Only the function of r may make a port, at the next state, too. *)
LEMMA MadeNext ==
  ASSUME SInv, NEW r \in Requests, Active(r), NEW p \in Ports,
         \A q \in Requests \ {r} : request'[q] = request[q]
  PROVE  Made(p)' <=> /\ request'[r].pc = "native" /\ request'[r].op = "create"
                      /\ request'[r].port = p /\ request'[r].todo \in Making
<1>1. \A q \in Requests \ {r} : ~Active(q)
  BY OneActive DEF SInv
<1>. QED
  BY <1>1 DEF Made, Active

LEMMA ServersRefines ==
  ASSUME SInv, SInv', NEW r \in Requests, GetsServers(r)
  PROVE  Service!RefusesToCreate(r) \/ Service!FindsNoPort(r) \/ UNCHANGED Service!vars
<1>. PICK o : o = request[r].port
  OBVIOUS
<1>. PICK c : c = request[r].channel
  OBVIOUS
<1>1. /\ Active(r) /\ UNCHANGED port /\ request[r].pc = "servers"
      /\ request \in [Requests -> RequestType]
      /\ o \in Ports /\ request[r].op \in Queued
      /\ request[r].op = "create" => c \in Channels
      /\ OwnersFit /\ Owned /\ taken = {}
  BY OwnersFitNow DEF GetsServers, Active, SInv, IInv, TypeOK, Scripted, Fits, Building
<1>2. \A p \in Ports : ~Made(p)
  BY <1>1, MadeByActive
<1>3. ~port[o].exists => Owner(o) = None
  BY <1>1 DEF OwnersFit, Owned, Unowned
<1>4. ASSUME NEW op, GoesOn(r, Native(r, op)), Script(op) \in Making => ~port[o].exists
      PROVE  UNCHANGED Service!vars
  <2>1. /\ \A q \in Requests \ {r} : request'[q] = request[q]
        /\ request'[r].todo = Script(op) /\ request'[r].port = o
    BY <1>1, <1>4 DEF GoesOn, Native, At
  <2>2. Unowned(o) <=> Unowned(o)'
    <3>1. Made(o)' => port[o].channels = {}
      BY <1>1, <1>4, <2>1, MadeNext DEF Owned
    <3>. QED
      BY <1>1, <1>2, <3>1 DEF Unowned
  <2>3. Owner(o)' = Owner(o)
    BY <1>1, <2>2, SameOwner
  <2>. QED
    BY <1>1, <1>4, <2>3, GoesOnStutters DEF Native
<1>5. ASSUME Ends(r, "refused")
      PROVE  /\ Service!Answer(r, request[r].op, "refused")
             /\ UNCHANGED [p \in Ports |-> Owner(p)]
  <2>1. /\ request'[r] = Result(r, "refused") /\ request'[r].pc = "idle"
        /\ \A q \in Requests \ {r} : request'[q] = request[q]
    BY <1>1, <1>5 DEF Ends, Result, At
  <2>2. \A p \in Ports : Owner(p)' = Owner(p)
    BY <1>1, <2>1, OtherOwners
  <2>. QED
    BY <1>1, <2>1, <2>2, AnswersCall
<1>6. Call(r).port = o /\ Call(r).channel = c
  BY DEF Call
<1>7. CASE CreateChecks(r)
  <2>1. CASE GoesOn(r, Native(r, "status"))
    BY <1>4, <2>1, Scripts, MakingNotReading DEF Reading
  <2>2. CASE ~port[o].exists /\ GoesOn(r, Native(r, "create"))
    BY <1>4, <2>2
  <2>3. CASE ~port[o].exists /\ InUse(c) /\ Ends(r, "refused")
    <3>1. Owner(o) = None /\ c # None /\ request[r].op = "create"
      BY <1>1, <1>3, <1>7, <2>3, PlayPortAssumption DEF CreateChecks
    <3>2. PICK q \in Ports : c \in port[q].channels
      BY <1>1, <2>3 DEF InUse
    <3>3. Owner(q) = c
      BY <1>1, <1>2, <3>2 DEF OwnersFit, Owned, Unowned
    <3>4. ~Service!Free(c)
      BY <3>2, <3>3 DEF Service!Free
    <3>. QED
      BY <1>1, <1>5, <1>6, <2>3, <3>1, <3>4 DEF Service!RefusesToCreate
  <2>. QED
    BY <1>7, <2>1, <2>2, <2>3 DEF CreateChecks
<1>8. CASE PortChecks(r)
  <2>1. request[r].op \in {"status", "reset", "release", "properties"}
    BY <1>1, <1>8 DEF PortChecks, Queued
  <2>2. CASE GoesOn(r, Native(r, request[r].op))
    <3>1. Script(request[r].op) \notin Making
      BY <2>1, Scripts, Todos DEF Making
    <3>. QED
      BY <1>4, <2>2, <3>1
  <2>3. CASE ~port[o].exists /\ Ends(r, "refused")
    BY <1>1, <1>3, <1>5, <1>6, <2>1, <2>3 DEF Service!FindsNoPort
  <2>4. request[r].todo = << >>
    BY DEF GetsServers, SInv, Building
  <2>. QED
    BY <1>8, <2>2, <2>3, <2>4 DEF PortChecks
<1>. QED
  BY <1>7, <1>8 DEF GetsServers

(* The port's last call answers the request. *)
LEMMA LastCallRefines ==
  ASSUME SInv, SInv', NEW r \in Requests, RemoteCall(r), LastCall(r)
  PROVE  \/ Service!Creates(r) \/ Service!FindsCreated(r)
         \/ Service!RefusesToCreate(r) \/ Service!Serves(r)
<1>. PICK o : o = request[r].port
  OBVIOUS
<1>. PICK c : c = request[r].channel
  OBVIOUS
<1>. PICK op : op = request[r].op
  OBVIOUS
<1>. PICK todo : todo = request[r].todo
  OBVIOUS
<1>1. /\ Active(r) /\ o \in Ports
      /\ port'[o] = After(r, port[o])
      /\ \A q \in Ports \ {o} : port'[q] = port[q]
      /\ NextCall(r) # "assign" => port'[o].channels = port[o].channels
  BY CallChannels
<1>2. /\ request \in [Requests -> RequestType] /\ request[r].pc = "native"
      /\ op = "create" => c \in Channels
      /\ OwnersFit /\ OwnersFit' /\ Owned /\ Owned'
      /\ ChannelStage(op, todo, port[o], c) /\ Stage(todo, port[o], c)
      /\ NextCall(r) = Head(todo) /\ Head(todo) # "delete" /\ Len(todo) = 1
      /\ Ends(r, ResultOf(r))
  BY OwnersFitNow, OwnersFitNext DEF RemoteCall, LastCall, NextCall, Succeeds, Continues, SInv, IInv,
     TypeOK, Scripted, Fits, Owned, Building
<1>3. PICK v : v = ResultOf(r)
  OBVIOUS
<1>4. /\ request'[r] = Result(r, v) /\ request'[r].pc = "idle"
      /\ \A q \in Requests \ {r} : request'[q] = request[q]
  BY <1>2, <1>3 DEF Ends, Result, At
<1>5. /\ Service!Answer(r, op, v)
      /\ \A p \in Ports \ {o} : Owner(p)' = Owner(p)
  BY <1>1, <1>2, <1>4, AnswersCall, Frame
<1>6. Call(r).port = o /\ Call(r).channel = c
  BY DEF Call
<1>7. ~Made(o)'
  BY <1>1, <1>4, MadeNext
<1>8. \/ op \in {"create", "reset"} /\ todo = << "arm" >>
      \/ op \in {"create", "status", "properties"} /\ todo = << "read" >>
  <2>1. ChannelStage(op, todo, port[o], c) /\ Head(todo) # "delete" /\ Len(todo) = 1
    BY <1>2
  <2>2. CASE todo \in Reading
    <3>1. todo = << "read" >>
      BY <2>1, <2>2, Todos DEF Reading
    <3>. QED
      BY <2>1, <3>1, Todos DEF ChannelStage, Resetting, Removing
  <2>3. CASE todo \notin Reading
    <3>1. todo \notin Removing
      BY <2>1, Todos DEF Removing
    <3>2. op \in {"create", "reset"}
      BY <2>1, <2>3, <3>1 DEF ChannelStage
    <3>3. todo \in Making \cup Resetting
      BY <2>1, <2>3, <3>1 DEF ChannelStage, Making
    <3>4. todo = << "arm" >>
      BY <2>1, <3>3, Todos DEF Making, Resetting
    <3>. QED
      BY <3>2, <3>4
  <2>. QED
    BY <2>2, <2>3
<1>9. ASSUME op # "create" \/ todo = << "read" >>
      PROVE  /\ UNCHANGED [p \in Ports |-> Owner(p)]
             /\ Owner(o) # None /\ Owner(o) \in port[o].channels
  <2>1. ~Made(o)
    BY <1>1, <1>9, MadeByActive, MakingNotReading DEF Reading
  <2>2. port[o].channels # {}
    BY <1>2, <1>8, <1>9, Todos DEF Stage, Untouched, Complete
  <2>3. port'[o].channels = port[o].channels
    BY <1>1, <1>2, <1>8, Todos
  <2>4. Owner(o)' = Owner(o)
    BY <1>1, <1>7, <2>1, <2>3, OwnerKept
  <2>. QED
    BY <1>1, <1>2, <1>5, <2>1, <2>2, <2>4 DEF OwnersFit, Unowned
<1>10. CASE op = "create" /\ todo = << "arm" >>
  <2>1. v = "ok"
    BY <1>2, <1>3, <1>10, Todos DEF ResultOf
  <2>2. port[o].channels = {c} /\ port'[o].channels = {c} /\ Made(o)
    BY <1>1, <1>2, <1>10, Todos, MadeByActive, MakingNotReading DEF ChannelStage, Making, Reading
  <2>3. Owner(o) = None /\ Owner(o)' = c
    BY <1>1, <1>2, <1>7, <2>2 DEF OwnersFit, Unowned
  <2>4. Service!Free(c)
    <3>1. ASSUME NEW q \in Ports, Owner(q) = c
          PROVE  FALSE
      <4>1. c # None
        BY <1>2, <1>10, PlayPortAssumption
      <4>2. c \in port[q].channels
        BY <1>2, <3>1, <4>1 DEF OwnersFit
      <4>. QED
        BY <1>1, <1>2, <2>2, <2>3, <3>1, <4>1, <4>2 DEF Owned
    <3>. QED
      BY <3>1 DEF Service!Free
  <2>5. [p \in Ports |-> Owner(p)]' = [[p \in Ports |-> Owner(p)] EXCEPT ![o] = c]
    BY <1>1, <1>5, <2>3
  <2>. QED
    BY <1>1, <1>5, <1>6, <1>10, <2>1, <2>3, <2>4, <2>5 DEF Service!Creates
<1>11. CASE op = "create" /\ todo = << "read" >>
  <2>1. v = IF c \in port[o].channels THEN "known" ELSE "refused"
    BY <1>2, <1>3, <1>11, Todos DEF ResultOf
  <2>2. c \in port[o].channels <=> Owner(o) = c
    BY <1>1, <1>2, <1>9, <1>11 DEF Owned
  <2>. QED
    BY <1>1, <1>5, <1>6, <1>9, <1>11, <2>1, <2>2
       DEF Service!FindsCreated, Service!RefusesToCreate
<1>12. CASE op \in {"status", "reset", "properties"}
  <2>1. v = "ok"
    BY <1>3, <1>12 DEF ResultOf
  <2>. QED
    BY <1>1, <1>5, <1>6, <1>9, <1>12, <2>1 DEF Service!Serves
<1>. QED
  BY <1>8, <1>10, <1>11, <1>12

(* The calls before the last one do not show. *)
LEMMA CallStutters ==
  ASSUME SInv, SInv', NEW r \in Requests, RemoteCall(r), ~LastCall(r)
  PROVE  UNCHANGED Service!vars
<1>. PICK o : o = request[r].port
  OBVIOUS
<1>. PICK op : op = request[r].op
  OBVIOUS
<1>. PICK todo : todo = request[r].todo
  OBVIOUS
<1>1. /\ Active(r) /\ o \in Ports
      /\ \A q \in Ports \ {o} : port'[q] = port[q]
      /\ Head(todo) # "assign" => port'[o].channels = port[o].channels
  BY CallChannels DEF NextCall
<1>2. /\ request \in [Requests -> RequestType] /\ request[r].pc = "native"
      /\ ChannelStage(op, todo, port[o], request[r].channel)
      /\ Len(todo) # 1 /\ Head(todo) # "delete"
      /\ GoesOn(r, At(r, "native", Tail(todo), "live", "none"))
  BY DEF RemoteCall, LastCall, NextCall, Succeeds, Continues, SInv, IInv, TypeOK, Owned
<1>3. /\ \A q \in Requests \ {r} : request'[q] = request[q]
      /\ request'[r].pc = "native" /\ request'[r].op = op
      /\ request'[r].port = o /\ request'[r].todo = Tail(todo)
  BY <1>2 DEF GoesOn, At
<1>4. Made(o) <=> op = "create" /\ todo \in Making
  BY <1>1, <1>2, MadeByActive
<1>5. Made(o)' <=> op = "create" /\ Tail(todo) \in Making
  BY <1>1, <1>3, MadeNext
<1>6. CASE op = "create" /\ todo \in Making
  <2>1. Tail(todo) \in Making
    BY <1>2, <1>6, Todos DEF Making
  <2>. QED
    BY <1>1, <1>2, <1>4, <1>5, <1>6, <2>1, SameOwner, GoesOnStutters DEF Unowned
<1>7. CASE ~(op = "create" /\ todo \in Making)
  <2>1. op = "create" => Tail(todo) \notin Making
    <3>1. op = "create" => todo \in Reading
      BY <1>2, <1>7 DEF ChannelStage, Making
    <3>2. todo \in Reading => Tail(todo) = << "read" >>
      BY <1>2, Todos DEF Reading
    <3>. QED
      BY <3>1, <3>2, MakingNotReading DEF Reading
  <2>2. Head(todo) # "assign"
    <3>1. todo \in Reading \cup Resetting \cup Removing
      BY <1>2, <1>7 DEF ChannelStage, Making
    <3>. QED
      BY <3>1, Todos DEF Reading, Resetting, Removing
  <2>. QED
    BY <1>1, <1>2, <1>4, <1>5, <1>7, <2>1, <2>2, OwnerKept, GoesOnStutters
<1>. QED
  BY <1>6, <1>7

LEMMA DeleteReleases ==
  ASSUME SInv, SInv', NEW r \in Requests, Deletes(r)
  PROVE  Service!Releases(r)
<1>. PICK o : o = request[r].port
  OBVIOUS
<1>. PICK op : op = request[r].op
  OBVIOUS
<1>. PICK todo : todo = request[r].todo
  OBVIOUS
<1>1. /\ Active(r) /\ o \in Ports /\ request[r].pc = "native"
      /\ request \in [Requests -> RequestType] /\ port \in [Ports -> PortType]
      /\ port' = [port EXCEPT ![o] = Absent]
      /\ ChannelStage(op, todo, port[o], request[r].channel)
      /\ Head(todo) = "delete"
      /\ OwnersFit /\ OwnersFit'
  BY OwnersFitNow, OwnersFitNext
     DEF Deletes, Releases, Active, NextCall, SInv, IInv, TypeOK, Scripted, Fits, Owned
<1>2. /\ \A q \in Requests \ {r} : request'[q] = request[q]
      /\ request'[r] = Result(r, "ok") /\ request'[r].pc = "idle"
  <2>1. \A q \in Requests \ {r} : request[q].handle = "none"
    BY <1>1, OneActive DEF SInv, Building, Active
  <2>. QED
    BY <2>1 DEF Deletes, Releases, Result, At
<1>3. op = "release" /\ port[o].channels # {}
  BY <1>1, Todos DEF ChannelStage, Reading, Resetting
<1>4. ~Made(o)
  BY <1>1, <1>3, MadeByActive
<1>5. Owner(o) # None
  BY <1>1, <1>3, <1>4 DEF OwnersFit, Unowned
<1>6. port'[o].channels = {} /\ \A p \in Ports \ {o} : port'[p] = port[p]
  BY <1>1 DEF Absent
<1>7. Owner(o)' = None
  BY <1>1, <1>6 DEF OwnersFit, Unowned
<1>8. \A p \in Ports \ {o} : Owner(p)' = Owner(p)
  BY <1>1, <1>2, <1>6, Frame
<1>9. [p \in Ports |-> Owner(p)]' = [[p \in Ports |-> Owner(p)] EXCEPT ![o] = None]
  BY <1>1, <1>7, <1>8
<1>10. Service!Answer(r, op, "ok") /\ Call(r).port = o
  BY <1>1, <1>2, AnswersCall DEF Call
<1>. QED
  BY <1>1, <1>3, <1>5, <1>9, <1>10 DEF Service!Releases

(* A port whose channel is free can be made: the server has as many ports  *)
(* as channels, and every other port has one.                              *)
LEMMA PortIsLeft ==
  ASSUME SInv, IsFiniteSet(Channels), NEW r \in Requests
  PROVE  ~NoPortLeft(r)
<1>. SUFFICES ASSUME NoPortLeft(r) PROVE FALSE
  OBVIOUS
<1>. DEFINE o == request[r].port
            c == request[r].channel
            todo == request[r].todo
            f == [p \in Existing |-> CHOOSE d \in Channels : d \in port[p].channels]
<1>1. /\ Active(r) /\ o \in Ports /\ request[r].pc = "native"
      /\ port \in [Ports -> PortType]
      /\ Head(todo) = "getPort" /\ ~port[o].exists
      /\ ~(Cardinality(Existing) < Cardinality(Channels))
      /\ ChannelStage(request[r].op, todo, port[o], c) /\ Stage(todo, port[o], c)
      /\ request[r].op = "create" => c \in Channels
      /\ Owned /\ Building
  BY DEF NoPortLeft, PortLeft, Active, NextCall, SInv, IInv, TypeOK, Scripted, Fits, Owned,
         Building
<1>2. request[r].op = "create" /\ ~InUse(c)
  <2>1. todo \notin Untouched
    BY <1>1 DEF Stage, Complete, Untouched
  <2>2. todo = << "getPort", "assign", "play", "arm" >> /\ ~InUse(c)
    BY <1>1, <2>1, Todos DEF Stage
  <2>3. todo \notin Reading \cup Resetting \cup Removing
    BY <2>1, <2>2, Todos DEF Reading, Resetting, Removing, Untouched
  <2>. QED
    BY <1>1, <2>2, <2>3 DEF ChannelStage
<1>3. \A p \in Existing : port[p].channels # {}
  <2>1. ASSUME NEW p \in Existing, NEW q \in Requests, AtWork(q, p)
        PROVE  FALSE
    <3>1. q = r
      BY <1>1, <2>1, OneActive DEF SInv, AtWork, Active
    <3>. QED
      BY <1>1, <2>1, <3>1 DEF AtWork, Existing
  <2>. QED
    BY <1>1, <2>1 DEF Building, Sound, Complete, Existing
<1>4. \A p \in Existing : f[p] \in Channels \ {c} /\ f[p] \in port[p].channels
  <2>. SUFFICES ASSUME NEW p \in Existing
                PROVE  f[p] \in Channels \ {c} /\ f[p] \in port[p].channels
    OBVIOUS
  <2>1. p \in Ports /\ port[p].channels \subseteq Channels
    BY <1>1 DEF Existing, PortType
  <2>2. \E d \in Channels : d \in port[p].channels
    BY <1>3, <2>1
  <2>3. f[p] \in Channels /\ f[p] \in port[p].channels
    BY <2>2
  <2>4. c \notin port[p].channels
    BY <1>2, <2>1 DEF InUse
  <2>. QED
    BY <2>3, <2>4
<1>5. f \in Injection(Existing, Channels \ {c})
  <2>1. f \in [Existing -> Channels \ {c}]
    BY <1>4
  <2>2. \A p, q \in Existing : f[p] = f[q] => p = q
    <3>. HIDE DEF f
    <3>1. \A p, q \in Ports : \A d \in port[p].channels : d \in port[q].channels => p = q
      BY <1>1 DEF Owned
    <3>. QED
      BY <1>4, <3>1 DEF Existing
  <2>. HIDE DEF f
  <2>. QED
    BY <2>1, <2>2 DEF Injection, IsInjective
<1>6. Cardinality(Existing) \in Nat /\ Cardinality(Existing) <= Cardinality(Channels \ {c})
  <2>. HIDE DEF f, c
  <2>1. IsFiniteSet(Channels \ {c})
    BY FS_RemoveElement
  <2>2. IsFiniteSet(Existing) /\ Cardinality(Existing) <= Cardinality(Channels \ {c})
    BY <1>5, <2>1, FS_Injection
  <2>. QED
    BY <2>2, FS_CardinalityType
<1>7. Cardinality(Channels \ {c}) = Cardinality(Channels) - 1 /\ Cardinality(Channels) \in Nat
  BY <1>1, <1>2, FS_RemoveElement, FS_CardinalityType
<1>. QED
  BY <1>1, <1>6, <1>7

LEMMA StepRefines ==
  ASSUME IsFiniteSet(Channels), SInv, SInv', [Next]_vars
  PROVE  [Service!Next]_(Service!vars)
<1>1. ASSUME NEW r \in Requests, NEW op \in Allowed, NEW p \in Ports,
             NEW c \in (IF op = "create" THEN Channels ELSE {None}), Arrives(r, op, p, c)
      PROVE  Service!Next
  BY <1>1, ArrivalAsks DEF Service!Next
<1>2. ASSUME NEW r \in Requests, RemoteCall(r)
      PROVE  [Service!Next]_(Service!vars)
  <2>1. CASE LastCall(r)
    BY <1>2, <2>1, LastCallRefines DEF Service!Next
  <2>2. CASE ~LastCall(r)
    BY <1>2, <2>2, CallStutters
  <2>. QED
    BY <2>1, <2>2
<1>3. ASSUME NEW r \in Requests, Function(r) \/ RemoteFails(r)
      PROVE  [Service!Next]_(Service!vars)
  <2>1. CASE GetsServers(r)
    BY <2>1, ServersRefines DEF Service!Next
  <2>2. CASE Deletes(r)
    BY <2>2, DeleteReleases DEF Service!Next
  <2>. QED
    BY <1>2, <1>3, <2>1, <2>2, PortIsLeft, NoFailure DEF Function, SInv
<1>4. CASE Dequeues
  BY <1>4, DequeueStutters
<1>5. ~QueueTimesOut /\ \A c \in Channels : ~RivalTakes(c) /\ ~RivalLeaves(c)
  BY DEF QueueTimesOut, RivalTakes, RivalLeaves, SInv, IInv, TypeOK, Undisturbed, Building
<1>6. CASE UNCHANGED vars
  <2>1. ASSUME NEW p \in Ports
        PROVE  Owner(p)' = Owner(p)
    <3>1. Made(p)' <=> Made(p)
      BY <1>6 DEF vars, Made
    <3>. QED
      BY <1>6, <3>1, OwnerKept DEF vars
  <2>2. \A r \in Requests : Call(r)' = Call(r)
    BY <1>6, SameCall DEF vars
  <2>. QED
    BY <2>1, <2>2, Stutters
<1>. QED
  BY <1>1, <1>3, <1>4, <1>5, <1>6 DEF Next

(* The queued operations are atomic: each of them takes effect at the step *)
(* that answers it (server.ts:31-35 lets one function at a time work on    *)
(* the ports, port.cc makes its remote calls one after the other), as long *)
(* as nothing fails and nobody else uses the ports and channels.           *)
THEOREM QueuedOpsAtomic ==
  ASSUME Undisturbed, IsFiniteSet(Channels)
  PROVE  Spec => ImplementsService
<1>1. Init => SInv
  BY InitHolds DEF Init, SInv, Building, Owned, Done, Active, Absent, Sound
<1>2. SInv /\ [Next]_vars => SInv'
  BY StepHolds, BuildingStep, OwnedStep DEF SInv, Undisturbed
<1>3. SInv /\ SInv' /\ [Next]_vars => [Service!Next]_(Service!vars)
  BY StepRefines
<1>4. Init => Service!Init
  BY ServiceInit
<1>. QED
  BY <1>1, <1>2, <1>3, <1>4, PTL DEF Spec, ImplementsService, Service!Spec
=============================================================================
