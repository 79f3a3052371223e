--------------------------- MODULE Watchdog_proofs ---------------------------
(***************************************************************************)
(* Proofs of the invariants of Watchdog for every length of the intervals  *)
(* and any number of broken responses.                                     *)
(***************************************************************************)
EXTENDS Watchdog, TLAPS

(* What is left of a chain until its last check is answered, if all fail. *)
AnswerTime(d) == IF d.pc = "timer" THEN Timeout ELSE 0
LaterChecks(d) ==
  IF d.count = 0
    THEN AtLeastOne(d.interval \div 2) + AtLeastOne(d.interval \div 4) + 2 * Timeout
    ELSE IF d.count = 1 THEN AtLeastOne(d.interval \div 2) + Timeout ELSE 0
Remaining(d) == d.wait + AnswerTime(d) + LaterChecks(d)

(* Chains that no broken response has started yet are off; before the      *)
(* server serves, all are.                                                 *)
ChainsInOrder ==
  /\ \A k \in Chains : k > broken + 1 => dog[k].pc = "off" /\ body[k] = None
  /\ process \in { "starting", "deaf" } => \A k \in Chains : dog[k].pc = "off" /\ body[k] = None
  /\ process \in { "starting", "deaf" } => calls = 0 /\ receives = 0
  /\ process = "starting" => startIn \in Nat
  /\ process \in { "serving", "deaf" } => startIn = None
  /\ process = "deaf" => shutdownIn = None

(* The time that is left never reaches beyond the bounds of Barks. *)
ServedInTime ==
  process = "serving" /\ shutdownIn = None /\ closeIn = None =>
    \E k \in Chains : dog[k].pc # "off" /\ since + Remaining(dog[k]) <= Startup + Patience
EndsInTime ==
  /\ process = "starting" => since + startIn <= Startup
  /\ ServedInTime
  /\ process \in { "starting", "serving" } /\ shutdownIn # None /\ closeIn = None =>
       since + shutdownIn <= Startup + Patience + ShutdownDelay
  /\ process \in { "starting", "serving" } /\ closeIn # None => since + closeIn <= Endurance
  /\ process = "deaf" /\ closeIn = None => since + hourLeft <= Hour
  /\ process = "deaf" /\ closeIn # None => since + closeIn <= DeafPatience

(* While nothing fails, one chain runs at its interval, and what is left   *)
(* of the hour is long enough for the calls and the responses still        *)
(* missing.                                                                *)
Period == Interval + Timeout
NextCall(d) == d.wait + (IF d.pc = "asked" THEN Interval ELSE 0)
HourSuffices ==
  /\ receives < MinCalls =>
       hourLeft > dog[1].wait + AnswerTime(dog[1]) + (MinCalls - 1 - receives) * Period
  /\ calls < MinCalls => hourLeft > NextCall(dog[1]) + (MinCalls - 1 - calls) * Period
Steady ==
  Roomy /\ ~disturbed =>
    /\ process \in { "starting", "serving" }
    /\ shutdownIn = None /\ closeIn = None
    /\ \A k \in Chains : k # 1 => dog[k].pc = "off"
    /\ process = "starting" => hourLeft + Startup >= Hour + startIn
    /\ process = "serving" =>
         /\ dog[1].pc # "off" /\ dog[1].interval = Interval /\ dog[1].count = 0
         /\ dog[1].pc = "timer" => dog[1].wait <= Interval
         /\ dog[1].pc = "asked" => dog[1].wait <= Timeout
         /\ HourSuffices

IInv == TypeOK /\ ChainsInOrder /\ EndsInTime /\ Steady
-----------------------------------------------------------------------------
(* The records of the chains. *)

(* A chain that is off has the type of a chain. *)
LEMMA OffTyped == Off \in Chain /\ Off.pc = "off"
  BY WatchdogAssumption DEF Off, Chain, Waits

(* A call of watchDog() gives a chain that waits. *)
LEMMA TimerTyped ==
  ASSUME NEW i \in Waits(Interval), NEW c \in 0 .. 2
  PROVE  /\ Timer(i, c) \in Chain
         /\ Timer(i, c).pc = "timer" /\ Timer(i, c).wait = AtLeastOne(i)
         /\ Timer(i, c).interval = i /\ Timer(i, c).count = c
  BY WatchdogAssumption DEF Timer, Chain, Waits, AtLeastOne

(* Asking changes what the chain waits for and nothing else. *)
LEMMA AskedTyped ==
  ASSUME NEW d \in Chain
  PROVE  /\ Asked(d) \in Chain
         /\ Asked(d).pc = "asked" /\ Asked(d).wait = Timeout
         /\ Asked(d).interval = d.interval /\ Asked(d).count = d.count
  BY WatchdogAssumption DEF Asked, Chain, Waits

(* A tick shortens the wait and nothing else. *)
LEMMA ElapsedTyped ==
  ASSUME NEW d \in Chain, d.pc # "off" => d.wait # 0
  PROVE  /\ Elapsed(d) \in Chain
         /\ Elapsed(d).pc = d.pc
         /\ d.pc # "off" => Elapsed(d).wait = d.wait - 1
         /\ Elapsed(d).interval = d.interval /\ Elapsed(d).count = d.count
  BY WatchdogAssumption DEF Elapsed, Chain, Waits

(* A tick does that to every chain. *)
LEMMA TickChains ==
  ASSUME TypeOK, Tick, NEW k \in Chains
  PROVE  /\ dog[k] \in Chain /\ dog'[k] = Elapsed(dog[k])
         /\ dog[k].pc # "off" => dog[k].wait # 0
         /\ Elapsed(dog[k]) \in Chain /\ dog'[k].pc = dog[k].pc
         /\ dog[k].pc # "off" => dog'[k].wait = dog[k].wait - 1
         /\ dog'[k].interval = dog[k].interval /\ dog'[k].count = dog[k].count
<1>1. dog[k] \in Chain /\ dog'[k] = Elapsed(dog[k]) /\ (dog[k].pc # "off" => dog[k].wait # 0)
  BY DEF TypeOK, Tick, Due
<1> QED
  BY <1>1, ElapsedTyped

(* The interval after a failure is no longer than the one before. *)
LEMMA HalfTyped ==
  ASSUME NEW i \in Waits(Interval)
  PROVE  Half(i) \in Waits(Interval)
  BY WatchdogAssumption DEF Half, Waits

(* The first chain exists, and one for every response that may break. *)
LEMMA ChainsExist ==
  /\ 1 \in Chains
  /\ TypeOK /\ broken < MaxBroken => broken + 2 \in Chains /\ broken + 1 \in 0 .. MaxBroken
  BY WatchdogAssumption DEF Chains, TypeOK
-----------------------------------------------------------------------------
(* The initial states, and those of a restart, satisfy the invariant. *)
LEMMA InitInvariant == Init => IInv
<1> SUFFICES ASSUME Init PROVE IInv
  OBVIOUS
<1> USE WatchdogAssumption
<1>1. TypeOK
  <2>1. dog \in [Chains -> Chain] /\ body \in [Chains -> Body \cup {None}]
    BY OffTyped DEF Init
  <2>2. /\ process = "starting" /\ startIn = Startup /\ hourLeft = Hour
        /\ calls = 0 /\ receives = 0 /\ shutdownIn = None /\ closeIn = None
        /\ broken = 0 /\ since = 0
    BY DEF Init
  <2>3. disturbed \in BOOLEAN
    BY DEF Init
  <2> QED
    BY <2>1, <2>2, <2>3 DEF TypeOK, Waits
<1>2. ChainsInOrder
  BY OffTyped DEF Init, ChainsInOrder
<1>3. EndsInTime
  BY DEF Init, EndsInTime, ServedInTime
<1>4. Steady
  BY OffTyped DEF Init, Steady
<1> QED
  BY <1>1, <1>2, <1>3, <1>4 DEF IInv

(* The types are kept by every step. *)
LEMMA TypeStep == TypeOK /\ [Next]_vars => TypeOK'
<1> SUFFICES ASSUME TypeOK, [Next]_vars PROVE TypeOK'
  OBVIOUS
<1> USE WatchdogAssumption DEF Waits, chains, hour, ends, history
<1>1. CASE UNCHANGED vars
  BY <1>1 DEF TypeOK, vars
<1>2. CASE Tick
  <2>2. dog' \in [Chains -> Chain]
    BY <1>2, TickChains DEF Tick
  <2>3. /\ hourLeft' \in 0 .. Hour
        /\ startIn' \in (0 .. Startup) \cup {None}
        /\ shutdownIn' \in Nat \cup {None}
        /\ closeIn' \in (0 .. CloseLimit) \cup {None}
    BY <1>2 DEF TypeOK, Tick, Due, Less
  <2> QED
    BY <1>2, <2>2, <2>3 DEF TypeOK, Tick
<1>3. CASE StartsWatchdog
  <2>1. Timer(Interval, 0) \in Chain
    BY TimerTyped
  <2>2. dog' \in [Chains -> Chain]
    BY <1>3, <2>1 DEF TypeOK, StartsWatchdog
  <2> QED
    BY <1>3, <2>2 DEF TypeOK, StartsWatchdog
<1>4. CASE ListenFails
  BY <1>4 DEF TypeOK, ListenFails
<1>5. ASSUME NEW k \in Chains, Asks(k) PROVE TypeOK'
  <2>1. dog' \in [Chains -> Chain]
    BY <1>5, AskedTyped DEF TypeOK, Asks
  <2> QED
    BY <1>5, <2>1 DEF TypeOK, Asks, Counted
<1>6. ASSUME NEW k \in Chains, NEW d \in Chain, NEW c \in 0 .. 2, Responds(k, d, c)
      PROVE  dog' \in [Chains -> Chain] /\ body' \in [Chains -> Body \cup {None}]
  <2>1. dog[k] \in Chain
    BY DEF TypeOK
  <2>2. [interval |-> dog[k].interval, count |-> c] \in Body
    BY <2>1 DEF Chain, Body
  <2> QED
    BY <1>6, <2>2 DEF TypeOK, Responds
<1>7. ASSUME NEW k \in Chains, Succeeds(k) PROVE TypeOK'
  <2>1. dog[k].interval \in Waits(Interval) /\ dog[k].count \in 0 .. 2
    BY DEF TypeOK, Chain
  <2>2. AfterSuccess(dog[k]) \in Chain
    BY <2>1, TimerTyped DEF AfterSuccess
  <2>3. dog' \in [Chains -> Chain] /\ body' \in [Chains -> Body \cup {None}]
    BY <1>6, <1>7, <2>1, <2>2 DEF Succeeds
  <2> QED
    BY <1>7, <2>3 DEF TypeOK, Succeeds, Receives, Counted
<1>8. ASSUME NEW k \in Chains, Fails(k) PROVE TypeOK'
  <2>1. dog[k].interval \in Waits(Interval) /\ dog[k].count \in 0 .. 2
    BY DEF TypeOK, Chain
  <2>2. Half(dog[k].interval) \in Waits(Interval)
    BY <2>1, HalfTyped
  <2>3. dog[k].count # 2 => Timer(Half(dog[k].interval), dog[k].count + 1) \in Chain
    BY <2>1, <2>2, TimerTyped
  <2>4. dog' \in [Chains -> Chain] /\ body' \in [Chains -> Body \cup {None}]
    BY <1>6, <1>8, <2>1, <2>3, OffTyped DEF Fails, LastCount
  <2> QED
    BY <1>8, <2>4 DEF TypeOK, Fails, Receives, Counted, Sooner
<1>9. ASSUME NEW k \in Chains, RequestFails(k) PROVE TypeOK'
  BY <1>9, OffTyped DEF TypeOK, RequestFails, Sooner
<1>10. ASSUME NEW k \in Chains, BodyEnds(k) PROVE TypeOK'
  BY <1>10 DEF TypeOK, BodyEnds
<1>11. ASSUME NEW k \in Chains, BodyBreaks(k) PROVE TypeOK'
  <2>1. body[k] \in Body
    BY <1>11 DEF TypeOK, BodyBreaks
  <2>2. body[k].count \in 0 .. 2 /\ Half(body[k].interval) \in Waits(Interval)
    BY <2>1, HalfTyped DEF Body
  <2>3. body[k].count # 2 => Timer(Half(body[k].interval), body[k].count + 1) \in Chain
    BY <2>2, TimerTyped
  <2>4. dog' \in [Chains -> Chain]
    BY <1>11, <2>3, ChainsExist DEF TypeOK, BodyBreaks, LastCount
  <2> QED
    BY <1>11, <2>4, ChainsExist DEF TypeOK, BodyBreaks, Sooner
<1>12. CASE HourEnds
  BY <1>12 DEF TypeOK, HourEnds, ShutsDown
<1>13. CASE ShutdownDue
  BY <1>13 DEF TypeOK, ShutdownDue, ShutsDown
<1>14. CASE Kill
  BY <1>14 DEF TypeOK, Kill, Sooner
<1>15. CASE Signal
  BY <1>15 DEF TypeOK, Signal, ShutsDown
<1>16. CASE Exits
  BY <1>16 DEF TypeOK, Exits
<1>17. CASE Restarts
  <2>1. dog' \in [Chains -> Chain] /\ body' \in [Chains -> Body \cup {None}]
    BY <1>17, OffTyped DEF Restarts, InitialState
  <2>2. /\ process' = "starting" /\ startIn' = Startup /\ hourLeft' = Hour
        /\ calls' = 0 /\ receives' = 0 /\ shutdownIn' = None /\ closeIn' = None
        /\ broken' = broken /\ since' = 0
    BY <1>17 DEF Restarts, InitialState
  <2>3. disturbed' \in BOOLEAN
    BY <1>17 DEF Restarts, InitialState
  <2> QED
    BY <2>1, <2>2, <2>3 DEF TypeOK
<1> QED
  BY <1>1, <1>2, <1>3, <1>4, <1>5, <1>7, <1>8, <1>9, <1>10, <1>11, <1>12, <1>13, <1>14, <1>15,
     <1>16, <1>17 DEF Next

(* No chain is touched that is not there yet. *)
LEMMA OrderStep == TypeOK /\ ChainsInOrder /\ [Next]_vars => ChainsInOrder'
<1> SUFFICES ASSUME TypeOK, ChainsInOrder, [Next]_vars PROVE ChainsInOrder'
  OBVIOUS
<1> USE WatchdogAssumption DEF chains, hour, ends, history
<1>0. broken \in Nat /\ Chains \subseteq Nat
  BY DEF TypeOK, Chains
<1>1. CASE UNCHANGED vars
  BY <1>1 DEF ChainsInOrder, vars
<1>2. CASE Tick
  <2>1. \A k \in Chains : dog'[k].pc = dog[k].pc
    BY <1>2, TickChains
  <2>2. startIn \in Nat => startIn' \in Nat
    BY <1>2 DEF TypeOK, Tick, Due, Less
  <2>3. startIn = None => startIn' = None
    BY <1>2 DEF Tick, Less
  <2>4. shutdownIn = None => shutdownIn' = None
    BY <1>2 DEF Tick, Less
  <2> QED
    BY <1>2, <2>1, <2>2, <2>3, <2>4 DEF ChainsInOrder, Tick
<1>3. CASE StartsWatchdog
  <2>1. \A k \in Chains : k # 1 => dog'[k] = dog[k]
    BY <1>3 DEF TypeOK, StartsWatchdog
  <2> QED
    BY <1>0, <1>3, <2>1 DEF ChainsInOrder, StartsWatchdog
<1>4. CASE ListenFails
  BY <1>4 DEF ChainsInOrder, ListenFails
<1>5. ASSUME NEW k \in Chains, Asks(k) PROVE ChainsInOrder'
  <2>1. k <= broken + 1 /\ process \notin { "starting", "deaf" }
    BY <1>0, <1>5 DEF ChainsInOrder, Asks
  <2>2. \A j \in Chains : j # k => dog'[j] = dog[j]
    BY <1>5 DEF TypeOK, Asks
  <2> QED
    BY <1>0, <1>5, <2>1, <2>2 DEF ChainsInOrder, Asks
<1>6. ASSUME NEW k \in Chains, NEW d, NEW c, Responds(k, d, c)
      PROVE  /\ k <= broken + 1 /\ process \notin { "starting", "deaf" }
             /\ \A j \in Chains : j # k => dog'[j] = dog[j] /\ body'[j] = body[j]
  <2>1. k <= broken + 1 /\ process \notin { "starting", "deaf" }
    BY <1>0, <1>6 DEF ChainsInOrder, Responds, Open
  <2> QED
    BY <1>6, <2>1 DEF TypeOK, Responds
<1>7. ASSUME NEW k \in Chains, Succeeds(k) PROVE ChainsInOrder'
  BY <1>0, <1>6, <1>7 DEF ChainsInOrder, Succeeds
<1>8. ASSUME NEW k \in Chains, Fails(k) PROVE ChainsInOrder'
  <2>1. /\ k <= broken + 1 /\ process \notin { "starting", "deaf" }
        /\ \A j \in Chains : j # k => dog'[j] = dog[j] /\ body'[j] = body[j]
    BY <1>6, <1>8 DEF Fails
  <2> QED
    BY <1>0, <1>8, <2>1 DEF ChainsInOrder, Fails
<1>9. ASSUME NEW k \in Chains, RequestFails(k) PROVE ChainsInOrder'
  <2>1. k <= broken + 1 /\ process \notin { "starting", "deaf" }
    BY <1>0, <1>9 DEF ChainsInOrder, RequestFails, Open
  <2>2. \A j \in Chains : j # k => dog'[j] = dog[j]
    BY <1>9 DEF TypeOK, RequestFails
  <2> QED
    BY <1>0, <1>9, <2>1, <2>2 DEF ChainsInOrder, RequestFails
<1>10. ASSUME NEW k \in Chains, BodyEnds(k) PROVE ChainsInOrder'
  <2>1. \A j \in Chains : body'[j] = body[j] \/ body'[j] = None
    BY <1>10 DEF TypeOK, BodyEnds
  <2> QED
    BY <1>10, <2>1 DEF ChainsInOrder, BodyEnds
<1>11. ASSUME NEW k \in Chains, BodyBreaks(k) PROVE ChainsInOrder'
  <2>1. process \notin { "starting", "deaf" }
    BY <1>11 DEF ChainsInOrder, BodyBreaks
  <2>2. \A j \in Chains : body'[j] = body[j] \/ body'[j] = None
    BY <1>11 DEF TypeOK, BodyBreaks
  <2>3. \A j \in Chains : j # broken + 2 => dog'[j] = dog[j]
    BY <1>11 DEF TypeOK, BodyBreaks
  <2>4. broken' = broken + 1 /\ process' = process /\ startIn' = startIn
    BY <1>11 DEF BodyBreaks
  <2> QED
    BY <1>0, <2>1, <2>2, <2>3, <2>4 DEF ChainsInOrder
<1>12. CASE HourEnds
  BY <1>12 DEF ChainsInOrder, HourEnds
<1>13. CASE ShutdownDue
  BY <1>13 DEF ChainsInOrder, ShutdownDue
<1>14. CASE Kill
  BY <1>14 DEF ChainsInOrder, Kill
<1>15. CASE Signal
  BY <1>15 DEF ChainsInOrder, Signal
<1>16. CASE Exits
  BY <1>16 DEF ChainsInOrder, Exits
<1>17. CASE Restarts
  BY <1>17, OffTyped DEF ChainsInOrder, Restarts, InitialState
<1> QED
  BY <1>1, <1>2, <1>3, <1>4, <1>5, <1>7, <1>8, <1>9, <1>10, <1>11, <1>12, <1>13, <1>14, <1>15,
     <1>16, <1>17 DEF Next
-----------------------------------------------------------------------------
(* The hour: while nothing is disturbed, one chain runs as it was set.     *)

(* One period less is needed for each call or response that has come.      *)
LEMMA PeriodLess ==
  ASSUME NEW n \in 0 .. MinCalls, n < MinCalls
  PROVE  /\ Period \in Nat /\ (MinCalls - 1 - n) * Period \in Nat
         /\ n + 1 < MinCalls =>
              (MinCalls - 1 - n) * Period = Period + (MinCalls - 1 - (n + 1)) * Period
<1> USE WatchdogAssumption DEF Period
<1>1. Period \in Nat /\ MinCalls \in Nat
  OBVIOUS
<1> DEFINE m == MinCalls - 1 - n
<1>2. m \in Nat /\ (n + 1 < MinCalls => m - 1 \in Nat)
  BY <1>1
<1>3. \A x, y \in Nat : x * y \in Nat
  OBVIOUS
<1>4. \A x, y \in Nat : x * y = y + (x - 1) * y
  OBVIOUS
<1> HIDE DEF Period
<1> QED
  BY <1>1, <1>2, <1>3, <1>4

(* An hour that begins anew has room for all the calls and responses.      *)
LEMMA FullHour ==
  ASSUME Roomy
  PROVE  Startup + Period + (MinCalls - 1) * Period < Hour
<1> USE WatchdogAssumption
<1>1. Period \in Nat /\ MinCalls \in Nat \ {0}
  BY DEF Period
<1>2. \A x \in Nat \ {0}, y \in Nat : x * y = y + (x - 1) * y
  OBVIOUS
<1>3. MinCalls * Period = Period + (MinCalls - 1) * Period
  BY <1>1, <1>2
<1>4. MinCalls * Period \in Nat /\ (MinCalls - 1) * Period \in Nat
  BY <1>1
<1> QED
  BY <1>1, <1>3, <1>4 DEF Roomy, Period

(* The chain goes on at its interval and the hour never ends too soon.     *)
LEMMA SteadyStep == TypeOK /\ ChainsInOrder /\ Steady /\ [Next]_vars => Steady'
<1> SUFFICES ASSUME TypeOK, ChainsInOrder, Steady, [Next]_vars, Roomy, ~disturbed'
             PROVE  Steady'
  BY DEF Steady, Roomy
<1> USE WatchdogAssumption DEF chains, hour, ends, history
<1>a. CASE UNCHANGED vars
  BY <1>a DEF Steady, HourSuffices, vars
<1>b. CASE Restarts
  BY <1>b, OffTyped DEF Steady, Restarts, InitialState
<1>c. CASE ListenFails \/ Kill \/ Signal \/ \E k \in Chains : Fails(k) \/ RequestFails(k) \/ BodyBreaks(k)
  <2>1. disturbed' = TRUE
    BY <1>c DEF ListenFails, Kill, Signal, Fails, RequestFails, BodyBreaks
  <2> QED
    BY <2>1
<1>d. CASE \/ Tick \/ StartsWatchdog \/ HourEnds \/ ShutdownDue \/ Exits
           \/ \E k \in Chains : Asks(k) \/ Succeeds(k) \/ BodyEnds(k)
  <2>1. ~disturbed
    BY <1>d DEF Tick, StartsWatchdog, HourEnds, ShutdownDue, Exits, Asks, Succeeds, BodyEnds
  <2>2. /\ process \in { "starting", "serving" } /\ shutdownIn = None /\ closeIn = None
        /\ \A k \in Chains : k # 1 => dog[k].pc = "off"
        /\ process = "starting" => hourLeft + Startup >= Hour + startIn
    BY <2>1 DEF Steady
  <2>3. process = "serving" =>
         /\ dog[1].pc # "off" /\ dog[1].interval = Interval /\ dog[1].count = 0
         /\ dog[1].pc = "timer" => dog[1].wait <= Interval
         /\ dog[1].pc = "asked" => dog[1].wait <= Timeout
         /\ HourSuffices
    BY <2>1 DEF Steady
  <2>4. /\ 1 \in Chains /\ dog[1] \in Chain
        /\ dog[1].pc \in { "off", "timer", "asked" } /\ dog[1].wait \in Nat
    BY ChainsExist DEF TypeOK, Chain
  <2>5. /\ calls \in 0 .. MinCalls /\ receives \in 0 .. MinCalls /\ hourLeft \in Nat
        /\ Interval \in Nat \ {0} /\ Timeout \in Nat /\ Hour \in Nat /\ Startup \in Nat
        /\ MinCalls \in Nat \ {0}
    BY DEF TypeOK, Waits
  <2>6. CASE Tick
    <3>1. /\ dog'[1].pc = dog[1].pc /\ dog'[1].interval = dog[1].interval
          /\ dog'[1].count = dog[1].count
          /\ dog[1].pc # "off" => dog[1].wait # 0 /\ dog'[1].wait = dog[1].wait - 1
      BY <2>4, <2>6, TickChains
    <3>2. \A k \in Chains : dog'[k].pc = dog[k].pc
      BY <2>6, TickChains
    <3>3. /\ hourLeft' = hourLeft - 1 /\ process' = process /\ calls' = calls /\ receives' = receives
          /\ shutdownIn' = None /\ closeIn' = None
          /\ process = "starting" => startIn \in Nat /\ startIn' = startIn - 1
      BY <2>2, <2>6 DEF Tick, Less, ChainsInOrder
    <3>4. process = "serving" => HourSuffices'
      <4>1. receives < MinCalls => (MinCalls - 1 - receives) * Period \in Nat
        BY <2>5, PeriodLess
      <4>2. calls < MinCalls => (MinCalls - 1 - calls) * Period \in Nat
        BY <2>5, PeriodLess
      <4> QED
        BY <2>3, <2>4, <2>5, <3>1, <3>3, <4>1, <4>2 DEF HourSuffices, AnswerTime, NextCall, Period
    <3> QED
      BY <2>2, <2>3, <2>4, <2>5, <3>1, <3>2, <3>3, <3>4 DEF Steady
  <2>7. CASE StartsWatchdog
    <3>1. dog'[1] = Timer(Interval, 0) /\ \A k \in Chains : k # 1 => dog'[k] = dog[k]
      BY <2>4, <2>7 DEF TypeOK, StartsWatchdog
    <3>2. /\ dog'[1].pc = "timer" /\ dog'[1].wait = Interval
          /\ dog'[1].interval = Interval /\ dog'[1].count = 0
      BY <3>1, TimerTyped DEF AtLeastOne, Waits
    <3>3. /\ calls' = 0 /\ receives' = 0 /\ hourLeft' = hourLeft /\ startIn \in Nat
          /\ process = "starting" /\ process' = "serving"
          /\ shutdownIn' = None /\ closeIn' = None
      BY <2>2, <2>7 DEF StartsWatchdog, ChainsInOrder
    <3>4. hourLeft > Period + (MinCalls - 1) * Period /\ (MinCalls - 1) * Period \in Nat
      BY <2>2, <2>5, <3>3, FullHour, PeriodLess
    <3>5. HourSuffices'
      BY <2>5, <3>2, <3>3, <3>4 DEF HourSuffices, AnswerTime, NextCall, Period
    <3> QED
      BY <2>2, <2>5, <3>1, <3>2, <3>3, <3>5 DEF Steady
  <2>8. CASE HourEnds
    <3>1. process = "serving"
      <4>1. MinCalls - 1 \in Nat /\ Period \in Nat
        BY <2>5 DEF Period
      <4>2. (MinCalls - 1) * Period \in Nat
        BY <4>1
      <4>3. Startup < Hour
        BY <2>5, <4>1, <4>2, FullHour
      <4> QED
        BY <2>2, <2>5, <2>8, <4>3 DEF HourEnds, ChainsInOrder
    <3>2. receives = MinCalls /\ calls = MinCalls
      <4>1. receives < MinCalls => (MinCalls - 1 - receives) * Period \in Nat
        BY <2>5, PeriodLess
      <4>2. calls < MinCalls => (MinCalls - 1 - calls) * Period \in Nat
        BY <2>5, PeriodLess
      <4> QED
        BY <2>3, <2>4, <2>5, <2>8, <3>1, <4>1, <4>2 DEF HourSuffices, AnswerTime, NextCall, HourEnds
    <3>3. /\ calls' = 0 /\ receives' = 0 /\ hourLeft' = Hour /\ dog' = dog /\ process' = process
          /\ shutdownIn' = None /\ closeIn' = None
      BY <2>2, <2>5, <2>8, <3>2 DEF HourEnds
    <3>4. Hour > Period + (MinCalls - 1) * Period /\ (MinCalls - 1) * Period \in Nat
      BY <2>5, FullHour, PeriodLess
    <3>5. HourSuffices'
      BY <2>3, <2>4, <2>5, <3>1, <3>3, <3>4 DEF HourSuffices, AnswerTime, NextCall, Period
    <3> QED
      BY <2>2, <2>3, <3>1, <3>3, <3>5 DEF Steady
  <2>9. CASE ShutdownDue
    BY <2>2, <2>9 DEF ShutdownDue
  <2>10. CASE Exits
    BY <2>2, <2>10 DEF Exits
  <2>11. ASSUME NEW k \in Chains, Asks(k) PROVE Steady'
    <3>1. k = 1 /\ process = "serving" /\ dog[1].pc = "timer" /\ dog[1].wait = 0
      BY <2>2, <2>4, <2>11 DEF Asks, ChainsInOrder
    <3>2. dog'[1] = Asked(dog[1]) /\ \A j \in Chains : j # 1 => dog'[j] = dog[j]
      BY <2>4, <2>11, <3>1 DEF TypeOK, Asks
    <3>3. /\ dog'[1].pc = "asked" /\ dog'[1].wait = Timeout
          /\ dog'[1].interval = Interval /\ dog'[1].count = 0
      BY <2>3, <2>4, <3>1, <3>2, AskedTyped
    <3>4. /\ process' = process /\ hourLeft' = hourLeft /\ receives' = receives
          /\ calls' = (IF calls < MinCalls THEN calls + 1 ELSE calls)
          /\ shutdownIn' = None /\ closeIn' = None
      BY <2>2, <2>11 DEF Asks, Counted
    <3>5. HourSuffices'
      <4>1. receives < MinCalls => (MinCalls - 1 - receives) * Period \in Nat
        BY <2>5, PeriodLess
      <4>2. calls + 1 < MinCalls =>
              /\ (MinCalls - 1 - (calls + 1)) * Period \in Nat
              /\ (MinCalls - 1 - calls) * Period = Period + (MinCalls - 1 - (calls + 1)) * Period
        BY <2>5, PeriodLess
      <4>3. receives' < MinCalls => hourLeft' > dog'[1].wait + AnswerTime(dog'[1]) + (MinCalls - 1 - receives') * Period
        BY <2>3, <2>4, <2>5, <3>1, <3>3, <3>4, <4>1 DEF HourSuffices, AnswerTime
      <4>4. calls' < MinCalls => hourLeft' > NextCall(dog'[1]) + (MinCalls - 1 - calls') * Period
        BY <2>3, <2>4, <2>5, <3>1, <3>3, <3>4, <4>2 DEF HourSuffices, NextCall, Period
      <4> QED
        BY <4>3, <4>4 DEF HourSuffices
    <3> QED
      BY <2>2, <3>1, <3>2, <3>3, <3>4, <3>5, <2>5 DEF Steady
  <2>12. ASSUME NEW k \in Chains, Succeeds(k) PROVE Steady'
    <3>1. k = 1 /\ process = "serving" /\ dog[1].pc = "asked"
      BY <2>2, <2>4, <2>12 DEF Succeeds, Responds, Open, ChainsInOrder
    <3>2. dog'[1] = Timer(Interval, 0) /\ \A j \in Chains : j # 1 => dog'[j] = dog[j]
      BY <2>3, <2>4, <2>12, <3>1 DEF TypeOK, Succeeds, Responds, AfterSuccess
    <3>3. /\ dog'[1].pc = "timer" /\ dog'[1].wait = Interval
          /\ dog'[1].interval = Interval /\ dog'[1].count = 0
      BY <2>5, <3>2, TimerTyped DEF AtLeastOne, Waits
    <3>4. /\ process' = process /\ hourLeft' = hourLeft /\ calls' = calls
          /\ receives' = (IF receives < MinCalls THEN receives + 1 ELSE receives)
          /\ shutdownIn' = None /\ closeIn' = None
      BY <2>2, <2>12 DEF Succeeds, Receives, Counted
    <3>5. HourSuffices'
      <4>1. calls < MinCalls => (MinCalls - 1 - calls) * Period \in Nat
        BY <2>5, PeriodLess
      <4>2. receives + 1 < MinCalls =>
              /\ (MinCalls - 1 - (receives + 1)) * Period \in Nat
              /\ (MinCalls - 1 - receives) * Period = Period + (MinCalls - 1 - (receives + 1)) * Period
        BY <2>5, PeriodLess
      <4>3. receives' < MinCalls => hourLeft' > dog'[1].wait + AnswerTime(dog'[1]) + (MinCalls - 1 - receives') * Period
        BY <2>3, <2>4, <2>5, <3>1, <3>3, <3>4, <4>2 DEF HourSuffices, AnswerTime, Period
      <4>4. calls' < MinCalls => hourLeft' > NextCall(dog'[1]) + (MinCalls - 1 - calls') * Period
        BY <2>3, <2>4, <2>5, <3>1, <3>3, <3>4, <4>1 DEF HourSuffices, NextCall
      <4> QED
        BY <4>3, <4>4 DEF HourSuffices
    <3> QED
      BY <2>2, <3>1, <3>2, <3>3, <3>4, <3>5, <2>5 DEF Steady
  <2>13. ASSUME NEW k \in Chains, BodyEnds(k) PROVE Steady'
    BY <2>2, <2>3, <2>13 DEF BodyEnds, Steady, HourSuffices
  <2> QED
    BY <1>d, <2>6, <2>7, <2>8, <2>9, <2>10, <2>11, <2>12, <2>13
<1> QED
  BY <1>a, <1>b, <1>c, <1>d DEF Next
-----------------------------------------------------------------------------
(* The bound of Barks. *)

(* What is left of a chain, of whatever interval, never grows but by a     *)
(* success, and is then no more than at the start.                         *)
LEMMA RemainingFacts ==
  /\ Patience \in Nat
  /\ \A d \in Chain :
       /\ Remaining(d) \in Nat
       /\ d.pc # "off" /\ d.wait # 0 => Remaining(Elapsed(d)) + 1 = Remaining(d)
       /\ d.pc = "timer" /\ d.wait = 0 => Remaining(Asked(d)) = Remaining(d)
       /\ d.pc = "asked" /\ d.count # 2 =>
            Remaining(Timer(Half(d.interval), d.count + 1)) <= Remaining(d)
  /\ \A i \in Waits(Interval) : Remaining(Timer(i, 0)) <= Patience
<1> USE WatchdogAssumption
<1>1. \A n \in Nat : n \div 2 \in Nat /\ n \div 4 \in Nat /\ (n \div 2) \div 2 = n \div 4
  OBVIOUS
<1>2. \A n, m \in Nat : n <= m => n \div 2 <= m \div 2 /\ n \div 4 <= m \div 4
  OBVIOUS
<1>3. \A n \in Nat : AtLeastOne(n) \in Nat
  BY DEF AtLeastOne
<1>4. \A n, m \in Nat : n <= m => AtLeastOne(n) <= AtLeastOne(m)
  BY DEF AtLeastOne
<1>5. Patience \in Nat
  BY <1>1, <1>3 DEF Patience
<1>6. ASSUME NEW d \in Chain
      PROVE  /\ Remaining(d) \in Nat
             /\ d.pc # "off" /\ d.wait # 0 => Remaining(Elapsed(d)) + 1 = Remaining(d)
             /\ d.pc = "timer" /\ d.wait = 0 => Remaining(Asked(d)) = Remaining(d)
             /\ d.pc = "asked" /\ d.count # 2 =>
                  Remaining(Timer(Half(d.interval), d.count + 1)) <= Remaining(d)
  <2>1. d.pc \in { "off", "timer", "asked" } /\ d.wait \in Nat /\ d.interval \in Nat
        /\ d.interval \in Waits(Interval) /\ d.count \in 0 .. 2 /\ Timeout \in Nat
    BY DEF Chain, Waits
  <2>2. LaterChecks(d) \in Nat /\ AnswerTime(d) \in Nat
    BY <1>1, <1>3, <2>1 DEF LaterChecks, AnswerTime
  <2>3. Remaining(d) \in Nat
    BY <2>1, <2>2 DEF Remaining
  <2>4. d.pc # "off" /\ d.wait # 0 => Remaining(Elapsed(d)) + 1 = Remaining(d)
    <3> SUFFICES ASSUME d.pc # "off", d.wait # 0 PROVE Remaining(Elapsed(d)) + 1 = Remaining(d)
      OBVIOUS
    <3>1. LaterChecks(Elapsed(d)) = LaterChecks(d) /\ AnswerTime(Elapsed(d)) = AnswerTime(d)
      BY ElapsedTyped DEF LaterChecks, AnswerTime
    <3> QED
      BY <2>1, <2>2, <3>1, ElapsedTyped DEF Remaining
  <2>5. d.pc = "timer" /\ d.wait = 0 => Remaining(Asked(d)) = Remaining(d)
    <3>1. LaterChecks(Asked(d)) = LaterChecks(d) /\ AnswerTime(Asked(d)) = 0
      BY AskedTyped DEF LaterChecks, AnswerTime
    <3>2. d.pc = "timer" => AnswerTime(d) = Timeout
      BY DEF AnswerTime
    <3> QED
      BY <2>1, <2>2, <3>1, <3>2, AskedTyped DEF Remaining
  <2>6. ASSUME d.pc = "asked", d.count # 2
        PROVE  Remaining(Timer(Half(d.interval), d.count + 1)) <= Remaining(d)
    <3> DEFINE e == Timer(Half(d.interval), d.count + 1)
    <3>1. /\ e.pc = "timer" /\ e.wait = AtLeastOne(d.interval \div 2)
          /\ e.interval = d.interval \div 2 /\ e.count = d.count + 1
      BY <2>1, <2>6, HalfTyped, TimerTyped DEF Half
    <3> HIDE DEF e
    <3>2. CASE d.count = 0
      <4>1. LaterChecks(e) = AtLeastOne(d.interval \div 4) + Timeout
        BY <1>1, <2>1, <3>1, <3>2 DEF LaterChecks
      <4>2. LaterChecks(d) = AtLeastOne(d.interval \div 2) + AtLeastOne(d.interval \div 4) + 2 * Timeout
        BY <3>2 DEF LaterChecks
      <4>3. AnswerTime(e) = Timeout /\ AnswerTime(d) = 0
        BY <2>6, <3>1 DEF AnswerTime
      <4>4. AtLeastOne(d.interval \div 2) \in Nat /\ AtLeastOne(d.interval \div 4) \in Nat
        BY <1>1, <1>3, <2>1
      <4> QED
        BY <2>1, <3>1, <4>1, <4>2, <4>3, <4>4 DEF Remaining, e
    <3>3. CASE d.count = 1
      <4>1. LaterChecks(e) = 0 /\ LaterChecks(d) = AtLeastOne(d.interval \div 2) + Timeout
        BY <3>1, <3>3 DEF LaterChecks
      <4>2. AnswerTime(e) = Timeout /\ AnswerTime(d) = 0
        BY <2>6, <3>1 DEF AnswerTime
      <4>3. AtLeastOne(d.interval \div 2) \in Nat
        BY <1>1, <1>3, <2>1
      <4> QED
        BY <2>1, <3>1, <4>1, <4>2, <4>3 DEF Remaining, e
    <3> QED
      BY <2>1, <2>6, <3>2, <3>3
  <2> QED
    BY <2>3, <2>4, <2>5, <2>6
<1>7. ASSUME NEW i \in Waits(Interval) PROVE Remaining(Timer(i, 0)) <= Patience
  <2> DEFINE e == Timer(i, 0)
  <2>1. e.pc = "timer" /\ e.wait = AtLeastOne(i) /\ e.interval = i /\ e.count = 0
    BY TimerTyped
  <2> HIDE DEF e
  <2>2. i \in Nat /\ i <= Interval /\ Interval \in Nat /\ Timeout \in Nat
    BY DEF Waits
  <2>3. Remaining(e) = AtLeastOne(i) + Timeout + (AtLeastOne(i \div 2) + AtLeastOne(i \div 4) + 2 * Timeout)
    BY <2>1 DEF Remaining, LaterChecks, AnswerTime
  <2>4. /\ AtLeastOne(i) <= AtLeastOne(Interval)
        /\ AtLeastOne(i \div 2) <= AtLeastOne(Interval \div 2)
        /\ AtLeastOne(i \div 4) <= AtLeastOne(Interval \div 4)
    BY <1>1, <1>2, <1>4, <2>2
  <2>5. { AtLeastOne(i), AtLeastOne(i \div 2), AtLeastOne(i \div 4), AtLeastOne(Interval),
          AtLeastOne(Interval \div 2), AtLeastOne(Interval \div 4) } \subseteq Nat
    BY <1>1, <1>3, <2>2
  <2> QED
    BY <2>2, <2>3, <2>4, <2>5 DEF Patience, e
<1> QED
  BY <1>5, <1>6, <1>7

(* The sum of the time gone and the time left never exceeds its bound.     *)
LEMMA EndsInTimeStep == TypeOK /\ ChainsInOrder /\ EndsInTime /\ [Next]_vars => EndsInTime'
<1> SUFFICES ASSUME TypeOK, ChainsInOrder, EndsInTime, [Next]_vars PROVE EndsInTime'
  OBVIOUS
<1> USE WatchdogAssumption DEF chains, hour, ends, history
<1>1. /\ Startup \in Nat /\ Hour \in Nat /\ ShutdownDelay \in Nat /\ KillDelay \in Nat
      /\ KillDelay <= ShutdownDelay /\ CloseLimit \in Nat /\ Patience \in Nat /\ MinCalls \in Nat \ {0}
      /\ Endurance = Startup + Patience + ShutdownDelay + CloseLimit
      /\ DeafPatience = Hour + CloseLimit
  BY RemainingFacts DEF Endurance, DeafPatience
<1>2. /\ since \in Nat /\ hourLeft \in 0 .. Hour
      /\ startIn \in Nat \cup {None} /\ shutdownIn \in Nat \cup {None}
      /\ closeIn \in (0 .. CloseLimit) \cup {None}
      /\ process \in { "starting", "serving", "deaf", "exited" }
  BY DEF TypeOK, Waits
<1>3. \A k \in Chains : dog[k] \in Chain
  BY DEF TypeOK
<1>4. /\ process = "starting" => startIn \in Nat /\ since <= Startup
      /\ process = "serving" /\ shutdownIn = None /\ closeIn = None => since <= Startup + Patience
      /\ process \in { "starting", "serving" } /\ closeIn = None =>
           since <= Startup + Patience + ShutdownDelay
      /\ process = "deaf" /\ closeIn = None => since <= Hour
  <2>1. process = "starting" => startIn \in Nat /\ since <= Startup
    BY <1>1, <1>2 DEF EndsInTime, ChainsInOrder
  <2>2. process = "serving" /\ shutdownIn = None /\ closeIn = None => since <= Startup + Patience
    BY <1>1, <1>2, <1>3, RemainingFacts DEF EndsInTime, ServedInTime
  <2>3. process \in { "starting", "serving" } /\ shutdownIn # None /\ closeIn = None =>
          since <= Startup + Patience + ShutdownDelay
    BY <1>1, <1>2 DEF EndsInTime
  <2>4. process = "deaf" /\ closeIn = None => since <= Hour
    BY <1>1, <1>2 DEF EndsInTime
  <2> QED
    BY <1>1, <1>2, <2>1, <2>2, <2>3, <2>4
<1>a. CASE UNCHANGED vars
  BY <1>a DEF EndsInTime, ServedInTime, vars
<1>b. CASE Tick
  <2>1. /\ process' = process /\ since' <= since + 1 /\ since' \in Nat
        /\ hourLeft # 0 /\ hourLeft' = hourLeft - 1
        /\ startIn \in Nat => startIn # 0 /\ startIn' = startIn - 1
        /\ shutdownIn # None => shutdownIn # 0 /\ shutdownIn' = shutdownIn - 1
        /\ shutdownIn = None => shutdownIn' = None
        /\ closeIn # None => closeIn # 0 /\ closeIn' = closeIn - 1
        /\ closeIn = None => closeIn' = None
    BY <1>2, <1>b DEF Tick, Due, Less
  <2>2. \A t \in Nat : t # 0 => t - 1 # None
    OBVIOUS
  <2>3. shutdownIn' = None <=> shutdownIn = None
    BY <1>2, <2>1, <2>2
  <2>4. closeIn' = None <=> closeIn = None
    BY <1>2, <2>1, <2>2
  <2>5. ServedInTime'
    <3> SUFFICES ASSUME process = "serving", shutdownIn = None, closeIn = None
                 PROVE  \E k \in Chains : dog'[k].pc # "off" /\ since' + Remaining(dog'[k]) <= Startup + Patience
      BY <2>1, <2>3, <2>4 DEF ServedInTime, Patience, Remaining, AnswerTime, LaterChecks, AtLeastOne
    <3>1. PICK k \in Chains : dog[k].pc # "off" /\ since + Remaining(dog[k]) <= Startup + Patience
      BY DEF EndsInTime, ServedInTime
    <3>2. /\ dog'[k].pc # "off" /\ dog'[k] = Elapsed(dog[k]) /\ dog'[k] \in Chain
          /\ dog[k].wait # 0
      BY <1>b, <3>1, TickChains
    <3>3. Remaining(dog'[k]) + 1 = Remaining(dog[k]) /\ Remaining(dog'[k]) \in Nat
      BY <1>3, <3>1, <3>2, RemainingFacts
    <3>4. since' + Remaining(dog'[k]) <= Startup + Patience
      BY <1>1, <1>2, <1>3, <2>1, <3>1, <3>3, RemainingFacts
    <3> QED
      BY <3>2, <3>4
  <2>a. \A s, t, left, bound \in Nat :
          t <= s + 1 /\ left # 0 /\ s + left <= bound => t + (left - 1) <= bound
    OBVIOUS
  <2>b. Endurance \in Nat /\ DeafPatience \in Nat /\ Startup + Patience + ShutdownDelay \in Nat
    BY <1>1
  <2>6. ASSUME process = "starting" PROVE since' + startIn' <= Startup
    <3>1. startIn \in Nat /\ since + startIn <= Startup
      BY <1>4, <2>6 DEF EndsInTime
    <3> QED
      BY <1>1, <1>2, <2>1, <2>a, <3>1
  <2>7. ASSUME process \in { "starting", "serving" }, shutdownIn # None, closeIn = None
        PROVE  since' + shutdownIn' <= Startup + Patience + ShutdownDelay
    <3>1. shutdownIn \in Nat /\ since + shutdownIn <= Startup + Patience + ShutdownDelay
      BY <1>2, <2>7 DEF EndsInTime
    <3> QED
      BY <1>2, <2>1, <2>7, <2>a, <2>b, <3>1
  <2>8. ASSUME process \in { "starting", "serving" }, closeIn # None
        PROVE  since' + closeIn' <= Endurance
    <3>1. closeIn \in Nat /\ since + closeIn <= Endurance
      BY <1>1, <1>2, <2>8 DEF EndsInTime
    <3> QED
      BY <1>2, <2>1, <2>8, <2>a, <2>b, <3>1
  <2>9. ASSUME process = "deaf", closeIn = None PROVE since' + hourLeft' <= Hour
    <3>1. hourLeft \in Nat /\ since + hourLeft <= Hour
      BY <1>1, <1>2, <2>9 DEF EndsInTime
    <3> QED
      BY <1>1, <1>2, <2>1, <2>a, <3>1
  <2>10. ASSUME process = "deaf", closeIn # None PROVE since' + closeIn' <= DeafPatience
    <3>1. closeIn \in Nat /\ since + closeIn <= DeafPatience
      BY <1>1, <1>2, <2>10 DEF EndsInTime
    <3> QED
      BY <1>2, <2>1, <2>10, <2>a, <2>b, <3>1
  <2> QED
    BY <2>1, <2>3, <2>4, <2>5, <2>6, <2>7, <2>8, <2>9, <2>10 DEF EndsInTime, Endurance, DeafPatience, Patience
<1>c. CASE StartsWatchdog
  <2>1. /\ process = "starting" /\ process' = "serving"
        /\ shutdownIn' = shutdownIn /\ closeIn' = closeIn /\ since' = since
        /\ dog'[1] = Timer(Interval, 0) /\ 1 \in Chains
    BY <1>c, ChainsExist DEF TypeOK, StartsWatchdog
  <2>2. dog'[1] \in Chain /\ dog'[1].pc # "off" /\ Remaining(dog'[1]) <= Patience
    BY <2>1, TimerTyped, RemainingFacts DEF Waits
  <2>3. since' + Remaining(dog'[1]) <= Startup + Patience
    BY <1>1, <1>2, <1>4, <2>1, <2>2, RemainingFacts
  <2> QED
    BY <2>1, <2>2, <2>3 DEF EndsInTime, ServedInTime
<1>d. CASE ListenFails
  <2>1. since = 0
    BY <1>1, <1>2, <1>d DEF EndsInTime, ListenFails
  <2> QED
    BY <1>1, <1>2, <1>d, <2>1 DEF EndsInTime, ServedInTime, ListenFails
<1>e. ASSUME NEW k \in Chains, Asks(k) PROVE EndsInTime'
  <2>1. /\ process' = process /\ startIn' = startIn /\ shutdownIn' = shutdownIn /\ closeIn' = closeIn
        /\ since' = since /\ hourLeft' = hourLeft
        /\ dog'[k] = Asked(dog[k]) /\ \A j \in Chains : j # k => dog'[j] = dog[j]
    BY <1>e DEF TypeOK, Asks
  <2>2. dog'[k].pc # "off" /\ Remaining(dog'[k]) = Remaining(dog[k])
    BY <1>3, <1>e, <2>1, AskedTyped, RemainingFacts DEF Asks
  <2>3. ServedInTime'
    BY <2>1, <2>2 DEF EndsInTime, ServedInTime
  <2> QED
    BY <2>1, <2>3 DEF EndsInTime
<1>f. ASSUME NEW k \in Chains, Succeeds(k) PROVE EndsInTime'
  <2>1. /\ process = "serving" /\ process' = process /\ shutdownIn' = shutdownIn /\ closeIn' = closeIn
        /\ since' = 0
    BY <1>2, <1>f DEF Succeeds, Responds, Open, ChainsInOrder, Up
  <2>2. dog'[k] = Timer(dog[k].interval, 0) /\ dog[k].interval \in Waits(Interval)
    BY <1>3, <1>f DEF TypeOK, Succeeds, Responds, AfterSuccess, Chain
  <2>3. dog'[k] \in Chain /\ dog'[k].pc # "off" /\ Remaining(dog'[k]) <= Patience
    BY <2>2, TimerTyped, RemainingFacts
  <2>4. since' + Remaining(dog'[k]) <= Startup + Patience
    BY <1>1, <2>1, <2>3, RemainingFacts
  <2>5. ServedInTime'
    BY <2>3, <2>4 DEF ServedInTime
  <2> QED
    BY <1>1, <1>2, <2>1, <2>5 DEF EndsInTime
<1>g. ASSUME NEW k \in Chains, Fails(k) PROVE EndsInTime'
  <2>1. /\ process = "serving" /\ process' = process /\ closeIn' = closeIn /\ since' = since
        /\ dog[k].pc = "asked"
        /\ \A j \in Chains : j # k => dog'[j] = dog[j]
    BY <1>2, <1>g DEF TypeOK, Fails, Responds, Open, ChainsInOrder, Up
  <2>2. CASE dog[k].count = 2
    <3>1. shutdownIn' = Sooner(shutdownIn, ShutdownDelay)
      BY <1>g, <2>2 DEF Fails, LastCount
    <3>2. shutdownIn' # None /\ (closeIn = None => since + shutdownIn' <= Startup + Patience + ShutdownDelay)
      BY <1>1, <1>2, <1>4, <2>1, <3>1 DEF Sooner, EndsInTime
    <3> QED
      BY <2>1, <3>2 DEF EndsInTime, ServedInTime
  <2>3. CASE dog[k].count # 2
    <3>1. dog'[k] = Timer(Half(dog[k].interval), dog[k].count + 1) /\ shutdownIn' = shutdownIn
      BY <1>g, <2>3 DEF TypeOK, Fails, LastCount, Responds
    <3>2. dog[k].interval \in Waits(Interval) /\ dog[k].count + 1 \in 0 .. 2
      BY <1>3, <2>3 DEF Chain
    <3>3. dog'[k] \in Chain /\ dog'[k].pc # "off"
      BY <3>1, <3>2, HalfTyped, TimerTyped
    <3>4. Remaining(dog'[k]) <= Remaining(dog[k])
      BY <1>3, <2>1, <2>3, <3>1, RemainingFacts
    <3>5. since + Remaining(dog[k]) <= Startup + Patience => since' + Remaining(dog'[k]) <= Startup + Patience
      BY <1>1, <1>2, <1>3, <2>1, <3>3, <3>4, RemainingFacts
    <3>6. ServedInTime'
      BY <2>1, <3>1, <3>3, <3>5 DEF EndsInTime, ServedInTime
    <3> QED
      BY <2>1, <3>1, <3>6 DEF EndsInTime
  <2> QED
    BY <2>2, <2>3
<1>h. ASSUME NEW k \in Chains, RequestFails(k) PROVE EndsInTime'
  <2>1. /\ process = "serving" /\ process' = process /\ closeIn' = closeIn /\ since' = since
        /\ shutdownIn' = Sooner(shutdownIn, ShutdownDelay)
    BY <1>2, <1>h DEF RequestFails, Open, ChainsInOrder, Up
  <2>2. shutdownIn' # None /\ (closeIn = None => since + shutdownIn' <= Startup + Patience + ShutdownDelay)
    BY <1>1, <1>2, <1>4, <2>1 DEF Sooner, EndsInTime
  <2> QED
    BY <2>1, <2>2 DEF EndsInTime, ServedInTime
<1>i. ASSUME NEW k \in Chains, BodyEnds(k) PROVE EndsInTime'
  BY <1>i DEF EndsInTime, ServedInTime, BodyEnds
<1>j. ASSUME NEW k \in Chains, BodyBreaks(k) PROVE EndsInTime'
  <2>1. /\ process = "serving" /\ process' = process /\ closeIn' = closeIn /\ since' = since
    BY <1>2, <1>j DEF BodyBreaks, ChainsInOrder, Up
  <2>2. CASE body[k].count = 2
    <3>1. shutdownIn' = Sooner(shutdownIn, ShutdownDelay)
      BY <1>j, <2>2 DEF BodyBreaks, LastCount
    <3>2. shutdownIn' # None /\ (closeIn = None => since + shutdownIn' <= Startup + Patience + ShutdownDelay)
      BY <1>1, <1>2, <1>4, <2>1, <3>1 DEF Sooner, EndsInTime
    <3> QED
      BY <2>1, <3>2 DEF EndsInTime, ServedInTime
  <2>3. CASE body[k].count # 2
    <3>1. shutdownIn' = shutdownIn /\ \A j \in Chains : j # broken + 2 => dog'[j] = dog[j]
      BY <1>j, <2>3 DEF TypeOK, BodyBreaks, LastCount
    <3>2. \A j \in Chains : dog[j].pc # "off" => j # broken + 2
      BY DEF TypeOK, ChainsInOrder, Chains
    <3>3. ServedInTime'
      BY <2>1, <3>1, <3>2 DEF EndsInTime, ServedInTime
    <3> QED
      BY <2>1, <3>1, <3>3 DEF EndsInTime
  <2> QED
    BY <2>2, <2>3
<1>k. CASE HourEnds
  <2>1. /\ process' = process /\ startIn' = startIn /\ shutdownIn' = shutdownIn /\ dog' = dog
        /\ since' = since
        /\ closeIn' = closeIn \/ (closeIn = None /\ closeIn' = CloseLimit)
    BY <1>k DEF HourEnds, ShutsDown
  <2>2. process = "deaf" => closeIn' # None
    BY <1>1, <1>k DEF HourEnds, ShutsDown, ChainsInOrder
  <2>3. closeIn = None /\ closeIn' = CloseLimit /\ process \in { "starting", "serving" } => since + closeIn' <= Endurance
    BY <1>1, <1>2, <1>4
  <2>4. closeIn = None /\ closeIn' = CloseLimit /\ process = "deaf" => since + closeIn' <= DeafPatience
    BY <1>1, <1>2, <1>4
  <2>5. closeIn' = None => closeIn = None
    BY <1>1, <2>1
  <2> QED
    BY <2>1, <2>2, <2>3, <2>4, <2>5 DEF EndsInTime, ServedInTime
<1>l. ASSUME ShutsDown, UNCHANGED << process, startIn, dog, hourLeft, since >> PROVE EndsInTime'
  <2>1. closeIn' # None /\ (closeIn' = closeIn \/ (closeIn = None /\ closeIn' = CloseLimit))
    BY <1>1, <1>l DEF ShutsDown
  <2>2. process \in { "starting", "serving" } => since + closeIn' <= Endurance
    BY <1>1, <1>2, <1>4, <2>1 DEF EndsInTime
  <2>3. process = "deaf" => since + closeIn' <= DeafPatience
    BY <1>1, <1>2, <1>4, <2>1 DEF EndsInTime
  <2> QED
    BY <1>l, <2>1, <2>2, <2>3 DEF EndsInTime, ServedInTime
<1>m. CASE ShutdownDue
  BY <1>l, <1>m DEF ShutdownDue
<1>n. CASE Signal
  BY <1>l, <1>n DEF Signal
<1>o. CASE Kill
  <2>1. /\ process \in { "starting", "serving" } /\ process' = process /\ closeIn' = closeIn /\ since' = since
        /\ startIn' = startIn /\ shutdownIn' = Sooner(shutdownIn, KillDelay)
    BY <1>o DEF Kill
  <2>2. closeIn = None /\ shutdownIn = None => since <= Startup + Patience
    BY <1>1, <1>2, <1>4, <2>1
  <2>3. shutdownIn' # None /\ (closeIn = None => since + shutdownIn' <= Startup + Patience + ShutdownDelay)
    BY <1>1, <1>2, <2>1, <2>2 DEF Sooner, EndsInTime
  <2> QED
    BY <2>1, <2>3 DEF EndsInTime, ServedInTime
<1>p. CASE Exits
  BY <1>p DEF EndsInTime, ServedInTime, Exits
<1>q. CASE Restarts
  BY <1>1, <1>q DEF EndsInTime, ServedInTime, Restarts, InitialState
<1> QED
  BY <1>a, <1>b, <1>c, <1>d, <1>e, <1>f, <1>g, <1>h, <1>i, <1>j, <1>k, <1>m, <1>n, <1>o, <1>p, <1>q
  DEF Next
-----------------------------------------------------------------------------
(* All of it holds in every reachable state. *)
LEMMA Invariant == Spec => []IInv
<1>1. IInv /\ [Next]_vars => IInv'
  BY TypeStep, OrderStep, EndsInTimeStep, SteadyStep DEF IInv
<1> QED
  BY <1>1, InitInvariant, PTL DEF Spec

(* The variables keep their types for all intervals and delays. *)
THEOREM WatchdogTypeCorrect == Spec => []TypeOK
  BY Invariant, PTL DEF IInv

(* A serving gateway always has a chain of checks unless it is ending.     *)
THEOREM AlwaysWatched == Spec => []Watched
<1>1. IInv => Watched
  BY DEF IInv, EndsInTime, ServedInTime, Watched
<1> QED
  BY <1>1, Invariant, PTL

(* A gateway that no check finds in order is gone within the bound.        *)
THEOREM BarksInTime == Spec => []Barks
<1> USE WatchdogAssumption
<1>1. IInv => Barks
  <2> SUFFICES ASSUME IInv PROVE Barks
    OBVIOUS
  <2>1. /\ Startup \in Nat /\ Hour \in Nat /\ ShutdownDelay \in Nat /\ CloseLimit \in Nat
        /\ Patience \in Nat
        /\ Endurance = Startup + Patience + ShutdownDelay + CloseLimit
        /\ DeafPatience = Hour + CloseLimit
    BY RemainingFacts DEF Endurance, DeafPatience
  <2>2. /\ since \in Nat /\ hourLeft \in Nat /\ closeIn \in Nat \cup {None}
        /\ shutdownIn \in Nat \cup {None} /\ \A k \in Chains : dog[k] \in Chain
    BY DEF IInv, TypeOK, Waits
  <2>3. process = "starting" => since <= Endurance
    BY <2>1, <2>2 DEF IInv, EndsInTime, ChainsInOrder
  <2>4. process = "serving" => since <= Endurance
    <3>1. process = "serving" /\ shutdownIn = None /\ closeIn = None => since <= Endurance
      BY <2>1, <2>2, RemainingFacts DEF IInv, EndsInTime, ServedInTime
    <3> QED
      BY <2>1, <2>2, <3>1 DEF IInv, EndsInTime
  <2>5. process = "deaf" => since <= DeafPatience
    BY <2>1, <2>2 DEF IInv, EndsInTime
  <2> QED
    BY <2>3, <2>4, <2>5 DEF Barks
<1> QED
  BY <1>1, Invariant, PTL

(* The watchdog ends no gateway whose checks all succeed.                  *)
THEOREM HealthySpared == Spec => []Spared
<1>1. IInv => Spared
  BY DEF IInv, Steady, Spared, Up
<1> QED
  BY <1>1, Invariant, PTL
=============================================================================
