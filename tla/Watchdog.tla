------------------------------ MODULE Watchdog ------------------------------
(***************************************************************************)
(* The watchdog of src/server.ts and the end of the process: a chain of    *)
(* timers that each ask GET /, the hourly check of the chain itself, the   *)
(* delayed calls of shutdown(), the closing of the server and the restart  *)
(* by the container.  Time is counted in ticks; no tick passes while       *)
(* something is due, as the event loop runs a timer when its time is up.   *)
(***************************************************************************)
EXTENDS Naturals

CONSTANTS
  Interval,       (* --watchdog                                            *)
  Timeout,        (* TIMEOUT_TIME, by which a check is answered, if by 524 *)
  Hour,
  MinCalls,       (* checks that the hourly check asks for, 10 in the code *)
  ShutdownDelay,  (* from the last failure to shutdown(), 5 s              *)
  KillDelay,      (* from POST /kill/me/if/you/are/sure to shutdown(), 1 s *)
  CloseLimit,     (* from shutdown() to a forced exit, 3 s                 *)
  Startup,        (* bound: the lookup of --isa before the first check     *)
  MaxBroken,      (* bound: responses that break after their headers       *)
  None

ASSUME WatchdogAssumption ==
  /\ { Interval, MinCalls } \subseteq Nat \ {0}
  /\ { Timeout, Hour, ShutdownDelay, KillDelay, CloseLimit, Startup, MaxBroken } \subseteq Nat
  /\ KillDelay <= ShutdownDelay
  /\ None \notin Nat

Chains == 1 .. MaxBroken + 1

VARIABLES
  process,      (* "starting", "serving", "deaf" (the port was taken), "exited" *)
  startIn,      (* ticks until the lookup of --isa has ended, at the latest *)
  dog,          (* the chains of checks                                     *)
  body,         (* count and interval of the call of watchDog() whose response each chain still reads *)
  hourLeft,
  calls,        (* watchDogCalls, counted no further than MinCalls          *)
  receives,     (* watchDogReceives, likewise                               *)
  shutdownIn,   (* ticks until the earliest pending call of shutdown()      *)
  closeIn,      (* ticks until the forced exit, once shutdown() was called  *)
  broken,       (* responses broken so far                                  *)
  since,        (* history: ticks since a check succeeded or the start      *)
  disturbed     (* history: a check failed or someone asked for the end     *)

chains == << dog, body >>
hour == << hourLeft, calls, receives >>
ends == << shutdownIn, closeIn >>
history == << since, disturbed >>
vars == << process, startIn, dog, body, hourLeft, calls, receives,
           shutdownIn, closeIn, broken, since, disturbed >>
-----------------------------------------------------------------------------
(* Mutant: the interval is not shortened after a failure. *)
HalfForgotten(interval) == interval
Half(interval) == interval \div 2

AtLeastOne(n) == IF n = 0 THEN 1 ELSE n
Sooner(t, u) == IF t # None /\ t <= u THEN t ELSE u
Counted(n) == IF n < MinCalls THEN n + 1 ELSE n

Off == [pc |-> "off", wait |-> 0, interval |-> 0, count |-> 0]

(* A call of watchDog(): setTimeout takes 0 for 1 ms. *)
Timer(interval, count) ==
  [pc |-> "timer", wait |-> AtLeastOne(interval), interval |-> interval, count |-> count]
Asked(d) == [d EXCEPT !.pc = "asked", !.wait = Timeout]

Up == process # "exited"
Open(k) == dog[k].pc = "asked"

(* Three checks, each later than the one before by no more than the        *)
(* interval then in use and the time of an answer.                         *)
Patience == AtLeastOne(Interval) + AtLeastOne(Interval \div 2) + AtLeastOne(Interval \div 4)
              + 3 * Timeout
DeafPatience == Hour + CloseLimit
Endurance == Startup + Patience + ShutdownDelay + CloseLimit
SinceCap == IF Endurance > DeafPatience THEN Endurance + 1 ELSE DeafPatience + 1

InitialState ==
  /\ process' = "starting"  /\ startIn' = Startup
  /\ dog' = [k \in Chains |-> Off]  /\ body' = [k \in Chains |-> None]
  /\ hourLeft' = Hour  /\ calls' = 0  /\ receives' = 0
  /\ shutdownIn' = None  /\ closeIn' = None
  /\ since' = 0  /\ disturbed' = FALSE

Init ==
  /\ process = "starting"  /\ startIn = Startup
  /\ dog = [k \in Chains |-> Off]  /\ body = [k \in Chains |-> None]
  /\ hourLeft = Hour  /\ calls = 0  /\ receives = 0
  /\ shutdownIn = None  /\ closeIn = None
  /\ broken = 0  /\ since = 0  /\ disturbed = FALSE
-----------------------------------------------------------------------------
(* Time. *)

Due ==
  \/ 0 \in { hourLeft, startIn, shutdownIn, closeIn }
  \/ \E k \in Chains : body[k] # None \/ (dog[k].pc # "off" /\ dog[k].wait = 0)

Less(t) == IF t = None THEN None ELSE t - 1
Elapsed(d) == IF d.pc = "off" THEN d ELSE [d EXCEPT !.wait = @ - 1]

Tick ==
  /\ Up /\ ~Due
  /\ hourLeft' = hourLeft - 1
  /\ startIn' = Less(startIn)
  /\ shutdownIn' = Less(shutdownIn)
  /\ closeIn' = Less(closeIn)
  /\ dog' = [k \in Chains |-> Elapsed(dog[k])]
  /\ since' = IF since < SinceCap THEN since + 1 ELSE since
  /\ UNCHANGED << process, body, calls, receives, broken, disturbed >>
-----------------------------------------------------------------------------
(* The start: the server listens, and the first check is set once the      *)
(* lookup of --isa has ended; or the port is taken, an error that is only  *)
(* logged while the hourly timer keeps the process alive.  (A process that *)
(* was told to end over HTTP does listen.)                                 *)

StartsWatchdog ==
  /\ process = "starting"
  /\ process' = "serving"  /\ startIn' = None
  /\ dog' = [dog EXCEPT ![1] = Timer(Interval, 0)]
  /\ UNCHANGED << body, hour, ends, broken, history >>

ListenFails ==
  /\ process = "starting" /\ startIn = Startup /\ shutdownIn = None
  /\ process' = "deaf"  /\ startIn' = None  /\ disturbed' = TRUE
  /\ UNCHANGED << chains, hour, ends, broken, since >>
-----------------------------------------------------------------------------
(* The chain of checks. *)

Asks(k) ==
  /\ Up
  /\ dog[k].pc = "timer" /\ dog[k].wait = 0
  /\ dog' = [dog EXCEPT ![k] = Asked(@)]
  /\ calls' = Counted(calls)
  /\ UNCHANGED << process, startIn, body, hourLeft, receives, ends, broken, history >>

(* A response arrives; its body is read behind the next timer. *)
Responds(k, next, count) ==
  /\ Up /\ Open(k)
  /\ dog' = [dog EXCEPT ![k] = next]
  /\ body' = [body EXCEPT ![k] = [interval |-> dog[k].interval, count |-> count]]

(* Mutant: a response is not counted. *)
ReceivesUncounted == UNCHANGED receives
Receives == receives' = Counted(receives)

(* Mutant: a success does not set the next check. *)
AfterSuccessNothing(d) == Off
AfterSuccess(d) == Timer(d.interval, 0)

Succeeds(k) ==
  /\ Responds(k, AfterSuccess(dog[k]), dog[k].count)
  /\ Receives
  /\ since' = 0
  /\ UNCHANGED << process, startIn, hourLeft, calls, ends, broken, disturbed >>

(* Mutant: one failure more is let pass. *)
LastCountOneMore == 3
LastCount == 2

Fails(k) ==
  /\ IF dog[k].count = LastCount
       THEN /\ Responds(k, Off, dog[k].count)
            /\ shutdownIn' = Sooner(shutdownIn, ShutdownDelay)
       ELSE /\ Responds(k, Timer(Half(dog[k].interval), dog[k].count + 1), dog[k].count + 1)
            /\ UNCHANGED shutdownIn
  /\ Receives
  /\ disturbed' = TRUE
  /\ UNCHANGED << process, startIn, hourLeft, calls, closeIn, broken, since >>

RequestFails(k) ==
  /\ Up /\ Open(k)
  /\ dog' = [dog EXCEPT ![k] = Off]
  /\ shutdownIn' = Sooner(shutdownIn, ShutdownDelay)
  /\ disturbed' = TRUE
  /\ UNCHANGED << process, startIn, body, hour, closeIn, broken, since >>

BodyEnds(k) ==
  /\ Up /\ body[k] # None
  /\ body' = [body EXCEPT ![k] = None]
  /\ UNCHANGED << process, startIn, dog, hour, ends, broken, history >>

(* The chain has gone on already: a second one starts beside it. *)
BodyBreaks(k) ==
  /\ Up /\ body[k] # None
  /\ broken < MaxBroken
  /\ body' = [body EXCEPT ![k] = None]
  /\ IF body[k].count = LastCount
       THEN shutdownIn' = Sooner(shutdownIn, ShutdownDelay) /\ UNCHANGED dog
       ELSE /\ dog' = [dog EXCEPT ![broken + 2] = Timer(Half(body[k].interval), body[k].count + 1)]
            /\ UNCHANGED shutdownIn
  /\ broken' = broken + 1
  /\ disturbed' = TRUE
  /\ UNCHANGED << process, startIn, hour, closeIn, since >>
-----------------------------------------------------------------------------
(* The end of the process. *)

ShutsDown == closeIn' = IF closeIn = None THEN CloseLimit ELSE closeIn

HourEnds ==
  /\ Up /\ hourLeft = 0
  /\ hourLeft' = Hour
  /\ IF calls < MinCalls \/ receives < MinCalls
       THEN ShutsDown /\ UNCHANGED << calls, receives >>
       ELSE calls' = 0 /\ receives' = 0 /\ UNCHANGED closeIn
  /\ UNCHANGED << process, startIn, chains, shutdownIn, broken, history >>

ShutdownDue ==
  /\ Up /\ shutdownIn = 0
  /\ shutdownIn' = None
  /\ ShutsDown
  /\ UNCHANGED << process, startIn, chains, hour, broken, history >>

Kill ==
  /\ process \in {"starting", "serving"}
  /\ shutdownIn' = Sooner(shutdownIn, KillDelay)
  /\ disturbed' = TRUE
  /\ UNCHANGED << process, startIn, chains, hour, closeIn, broken, since >>

Signal ==
  /\ Up
  /\ ShutsDown
  /\ disturbed' = TRUE
  /\ UNCHANGED << process, startIn, chains, hour, shutdownIn, broken, since >>

(* All connections are closed, or the time for it is up. *)
Exits ==
  /\ Up /\ closeIn # None
  /\ process' = "exited"
  /\ UNCHANGED << startIn, chains, hour, ends, broken, history >>

Restarts == ~Up /\ InitialState /\ UNCHANGED broken
-----------------------------------------------------------------------------
Next ==
  \/ Tick \/ StartsWatchdog \/ ListenFails
  \/ \E k \in Chains : \/ Asks(k) \/ Succeeds(k) \/ Fails(k) \/ RequestFails(k)
                       \/ BodyEnds(k) \/ BodyBreaks(k)
  \/ HourEnds \/ ShutdownDue \/ Kill \/ Signal \/ Exits \/ Restarts

Spec == Init /\ [][Next]_vars
-----------------------------------------------------------------------------
(* Every variable has its type: timers never run below zero, the interval  *)
(* is never longer than it was set and no chain counts beyond the last     *)
(* failure, although two chains may run on from one broken response.       *)
Waits(n) == 0 .. n
Chain == [pc : {"off", "timer", "asked"}, wait : Nat, interval : Waits(Interval), count : 0 .. 2]
Body == [interval : Waits(Interval), count : 0 .. 2]
TypeOK ==
  /\ process \in { "starting", "serving", "deaf", "exited" }
  /\ startIn \in Waits(Startup) \cup {None}
  /\ dog \in [Chains -> Chain]
  /\ body \in [Chains -> Body \cup {None}]
  /\ hourLeft \in Waits(Hour)
  /\ calls \in 0 .. MinCalls
  /\ receives \in 0 .. MinCalls
  /\ shutdownIn \in Nat \cup {None}
  /\ closeIn \in Waits(CloseLimit) \cup {None}
  /\ broken \in 0 .. MaxBroken
  /\ since \in Nat
  /\ disturbed \in BOOLEAN

(* A serving gateway is watched at all times: whatever the checks and      *)
(* their responses did, in any order, a chain of checks is alive unless    *)
(* the end is under way.                                                   *)
Watched ==
  process = "serving" /\ shutdownIn = None /\ closeIn = None
    => \E k \in Chains : dog[k].pc # "off"

(* A gateway that no check finds in order is gone in time: the process     *)
(* outlives the last successful check, or its own start, by no more than   *)
(* three ever shorter intervals with their answers, the delay and the      *)
(* closing.  One that could not listen is gone after the hour.             *)
Barks ==
  /\ process \in { "starting", "serving" } => since <= Endurance
  /\ process = "deaf" => since <= DeafPatience

(* The watchdog never ends a gateway whose checks all succeed: the hourly  *)
(* check of the chain finds enough calls and enough responses, when an     *)
(* hour has room for them.                                                 *)
Roomy == Startup + MinCalls * (Interval + Timeout) < Hour
Spared == Roomy /\ ~disturbed => Up /\ shutdownIn = None /\ closeIn = None

(* Refuted: that needs no room.  A healthy gateway is watched at the       *)
(* interval configured, and only checks that fail end it (README.md:485).  *)
HealthyLasts == ~disturbed => Up /\ shutdownIn = None /\ closeIn = None

(* Refuted: after a success the next check is an interval away ("every 60  *)
(* seconds", README.md:485), whatever failed before.                       *)
EveryInterval ==
  \A k \in Chains :
    dog[k].pc = "timer" /\ dog[k].count = 0 => dog[k].interval = Interval
=============================================================================
