# A TLA+ model of the Quantel gateway

The Quantel gateway is an HTTP server (TypeScript, Koa) that controls Quantel
video servers over CORBA through a native add-on (C++, omniORB). This directory
holds a model of its core in TLA+, the configurations that check it with TLC on
small instances, and proofs, checked by TLAPS, of what holds for all instances.
`PROJECT.json` maps every definition to the lines it stands for.

Contents: [inventory](#inventory) - [modules](#modules) - [runs](#runs) -
[bounds](#bounds) - [fairness](#fairness) - [proofs](#proofs) -
[what the checks disagree with](#disagreements) - [not modelled](#not-modelled) -
[plan](#plan).

## Inventory

### The parts and the state they keep

| Part | Source | State | Operations |
|---|---|---|---|
| ISA reference and library functions | `src/index.ts` | `isaIOR` (a promise of the ISA's object reference), `stickyRef` (list of ISA addresses), `robin`, `connectAttempt`, `objectNotFoundCount` | `getISAReference`, `resetConnection`, `testConnection`, `checkServer`, `checkServerPort` and some thirty functions that await the reference, make native calls and reset or retry on failure |
| CORBA side | `src/cxx/qgw_util.cc`, `quantel_gateway.cc` | `local_orb`, `local_zp` (cached zone portal), `connectionFailed` | `resolveZonePortalShared` (on worker threads), `destroyOrb` (on the JavaScript thread), the two failure handlers of omniORB |
| Play ports | `src/server.ts`, `src/cxx/port.cc`, `control.cc` | the queue (`PQueue`: concurrency 1, timeout 10 s, priority of resets); the ports live on the Quantel server | create, status, properties, reset, release (queued); load, wipe, trigger, jump (not queued) |
| Watchdog and end of the process | `src/server.ts:184, 944-1081` | timers, `watchDogCalls`, `watchDogReceives`, the count and interval of each chain of checks | `watchDog`, the hourly check, `shutdown`, POST kill, SIGINT/SIGTERM |
| HTTP layer | `src/server.ts` | `TIMEOUT_TIME`, `debug` | routes, parameter checks, 524 middleware, error statuses |
| Health | `src/server.ts:158-182, 893-940` | `currentStatus` | set by every response, read by GET /health |
| Carriers of native calls | `src/cxx/qgw_util.{h,cc}` | a carrier per call: promise, async work, status | create, execute, complete, reject, tidy |
| Conversions | `src/cxx/qgw_util.cc`, `port.cc` | none | BCD timecodes, fragments, clamping of wipe ranges |
| Clips, clones, zones, thumbnails | `src/cxx/clip.cc`, `clone.cc`, `zone.cc`, `thumbs.cc` | none in the gateway | queries, copies, deletion |
| External | omniORB, Node.js, PQueue, the ISA, the Quantel servers, another automation system, the container | | retries and timeouts of calls, event loop, ports and channels, restarts |

### How the parts interact

1. An HTTP request enters a Koa route. A middleware races the handler with a
   timer: after 3 s the client gets 524 *and the handler goes on*.
2. The handler calls a function of `index.ts`, for create, status, properties,
   reset and release of a port through the queue. The function awaits `getISAReference`,
   which chains onto the promise in `isaIOR`, or fetches `/ZoneManager.ior`
   from the next address of `stickyRef`; it then awaits `isaIOR` *again* and
   passes the reference to the native function.
3. The native function queues work on a thread of libuv, which obtains the
   zone portal (`resolveZonePortalShared`) and makes one or more remote calls
   in a row. omniORB repeats calls that fail with COMM_FAILURE or TRANSIENT; a
   call that times out after 2 s is not repeated (no handler is installed for
   TIMEOUT).
4. The completion resolves or rejects the promise on the JavaScript thread. A
   connection failure resets `isaIOR`; OBJECT_NOT_EXIST resets it and calls the
   function again; a lookup that failed at every address also destroys the ORB,
   *while other threads may be inside it*.
5. The watchdog asks `GET /` of its own server. Failures shut the process down,
   and the container starts it again with the addresses of its command line.

### What is hard here

* **Interleaving.** JavaScript functions interleave at every `await` around five
  module variables; native threads share three more without a lock; the queue
  covers five of the port operations and leaves the others beside it.
* **Stale reads.** `isaIOR` is read again after an `await`; ports and channels
  are checked by one remote call and used by the next; `local_zp` outlives the
  address it came from.
* **Failure and retry.** Three layers retry (omniORB, the library functions,
  the watchdog's restart); each has its own limit and its own reset.
* **Time.** 524 answers for work that goes on, a queue that gives up functions
  after 10 s while their native calls live on, a watchdog whose interval
  shrinks until its checks overlap.

`PROJECT.json` lists each hazard at its line with the properties that would
catch it, or with a note saying why no property does yet.

### What makes each part correct

* ISA reference: whoever waits for the reference waits for an outstanding HTTP
  request; lookups are shared, end with their request and give up after all
  addresses and no later; every wait ends.
* CORBA side: every native call has one thread and one answer; the gateway
  recovers from any state that failures leave it in.
* Play ports: queued operations take effect one at a time, as if each happened
  at once; no port is left half made; a half-made port can be put right.
* Watchdog: always there, barks in time, spares the healthy.
* Health: a server error is hidden only while its handler still runs, and a
  request that timed out shows in the end.
* Native calls: no server that refuses or breaks connections holds a thread for
  ever; an error on a thread reaches the handler, so that a 200 means that the
  server has carried out what was asked for.
* Queue: a function that never ends does not hold up those behind it.
* Conversions: a wipe clears the frames asked for and no number overflows on the
  way; fragments and timecodes come back from the server as they went in.

## Modules

| Module | Models | Composes |
|---|---|---|
| `IsaReference` | the state of `index.ts` and the library calls | |
| `ReferenceHistory` | nothing new: history variables for properties about how a state was reached | extends `IsaReference` |
| `MissRow` | nothing new: a history variable that counts the OBJECT_NOT_EXIST answers since the last success | extends `IsaReference` |
| `Gateway` | the CORBA side, the ISAs, the watchdog's requests, the process and its restart | extends `IsaReference`: each action of `Gateway` conjoins the step of `IsaReference` it causes |
| `PortService` | abstract specification: the queued port operations, each atomic | |
| `RequestPath` | the way of a request: its timer, the queue and its timeout, the health status, its carrier and thread, repeats and timeouts of remote calls | |
| `Timeline` | what load, wipe, jump and trigger do to one port's timeline, with integers of limited width | |
| `Fragments` | conversion of fragments and timecodes, to the server and back | |
| `PlayPort` | queue, checks and remote calls of the port operations; the server's ports and channels | implements `PortService` |
| `Watchdog` | timers, checks, hourly check, shutdown and restart, with time | |
| `MC*` | constants of the small instances; `MCTimeline` explores `Timeline` and `Fragments`, which share no variable, one beside the other at rest | |
| `*_proofs` | theorems | |

### IsaReference

One slot of `Requests` is one HTTP request at a time. `request[r].pc` is where
its library function waits: `reference` (await getISAReference), `address`
(await isaIOR), `native`, or `refused` (the guard threw). `promise[r]` is the
promise that r's last `getISAReference` created: `linked` to another request's
promise (`isaIOR.then(...)`), `fetching` from an ISA, or settled. `isaIOR` holds
the name of the request whose promise it is.

JavaScript is modelled by its two kinds of steps. *Jobs* (`Job`) are
continuations of promises; *callbacks* (`Client`, `Http`, `Native`) are run by
the event loop only when no job is left (`Quiet`). `GetISAReference` is the part
of the function up to its first await, including the guard of five
OBJECT_NOT_EXIST answers, and is used by every action that calls it;
`HttpFailover` and `HttpExhausted` are the rejection handler with its nested
call; `ResetAndThrow` and `ResetAndRetry` are the two kinds of catch clauses.
The library functions differ in the model in what the properties tell apart:
the number of native calls (`NativeCalls`) and what they retry (`Ops`,
`RetryOf`).

### Gateway

Adds to each waiting native call a `task`, the thread that executes it, with
the steps of `resolveZonePortalShared` between which other threads and
`destroyOrb` may run: flag checked (`GetsOrb`), portal found or not
(`FindsZonePortal`, `FindsNoZonePortal`), portal made (`MakesZonePortal`),
assigned (`KeepsZonePortal`). Throwing a pointer on a worker thread ends the
process (`FindsConnectionFailed`); using a destroyed ORB is undefined and may
end the process or raise an exception (`UsesDestroyedOrb`). A portal that was
made by an ORB destroyed before its assignment is kept all the same, and every
later call that finds it raises an exception (`RaisesOrbShutdown`) until a lookup
fails at every address. An ISA may stop and start again as a new incarnation, whose references are new; a reference is the
pair of both. Failures have a cause (the ISA is down or is another incarnation)
or are taken from a budget of glitches. COMM_FAILURE and TRANSIENT go through the
handlers of omniORB (`NotesFailure`), which note them and have the call repeated;
in the end they come back as TRANSIENT, for which `index.ts` resets the
reference, or as COMM_FAILURE, which it does not tell from other errors
(`RetriesEnd`). A timeout goes through no handler (`TimesOut`). The
watchdog here has no times but real requests: its `GET /` takes the path of any
other request, can be answered with 524 while that request goes on and the next
check starts beside it, and sees failures of the state that it is to cure. The
test of a variable and its use are one step where the code between them makes no
call (`FindsZonePortal`); making the portal and assigning it are two.

### PlayPort and PortService

A request waits in the queue (`waiting`), has called `getServers` for its
checks (`servers`), or is executing the remote calls left in `todo`
(`native`). The native functions are scripts of remote calls in the order of
`port.cc`; other requests run between any two calls. `handle` says whether the
port object that `getPort` returned still exists: `release` deletes the object
under the others, which then get OBJECT_NOT_EXIST and start again
(`FindsPortDeleted`), the query of properties as a wipe (`CalledAgain`). A remote
call may fail before or after it took effect, a release included
(`RemoteFails`); that `setMode(idle)` answers FALSE is not looked at, and the
function goes on. The queue may give a function up after 10 s and start the next
one beside it (`QueueTimesOut`, counted in `faults` with the failures); another automation system may take and leave
channels (`RivalTakes`, `RivalLeaves`). What ports do is taken from the
comments of `include/quantel/Quentin.idl`.

`PortService` says what the queue is there for: create, status, properties, reset
and release each happen at once, at the step that answers them. The refinement
mapping takes a port that is being made as absent, and one that is being
released or reset as present until the end.

### Watchdog

Time is counted in ticks, and no tick passes while something is due. A chain
of checks is `timer`, `asked` or `off`, with the interval and count it was
called with. A response is answered in one step and its body ends, or breaks,
in a later one, when the chain has gone on already: a broken body starts a
second chain beside the first, as `res.on('error')` does. All four ways into
`shutdown()` are there (third failure, request error, kill, signal), and the
hourly check as the fifth. A port that is taken leaves a process that serves
nobody (`deaf`). `since` counts the ticks since the last success or the start;
`disturbed` notes that a check failed or someone asked for the end.

### RequestPath

`ctx[r]` is one HTTP request: its operation, whether the timer has answered it,
whether the queue has ended its handler, and how many native calls its function
still has to make. `carrier[r]` is the native call the function awaits: queued in
`work`, executing on one of `PoolSize` threads, executed with a status.
`TimerFires` answers with 524 and leaves the handler alone. `QueueTimesOut` ends
the handler with an error (`throwOnTimeout`) and leaves the function alone, with
its carrier, while the queue starts the next (`QueueStarts`). `HandlerEnds` is the
code behind `next()` of the innermost middleware, which sets `currentStatus` from
`ctx.status` - and that is still 524 if the timer was first, since Koa ignores a
status once the headers are sent. A call whose connection fails, carried out or
not, is repeated up to `MaxRepeats` times (`ConnectionFails`); one without an
answer within 2 s ends with an error, carried out or not (`TimesOut`); an
OBJECT_NOT_EXIST makes the library function call the whole sequence again, its
check of the server included (`CallsAgain`). The history variables `carried` and
`last` hold the requests that the server has carried out and the response sent
last.

That a reference to the ISA is awaited first is the matter of `IsaReference`,
the ORB under the calls that of `Gateway`, the priority of resets that of
`PlayPort`: here a call fails or succeeds and the queue is first in, first out.
An operation "query" stands for every route of a check and one more call, "copy"
for POST /default/copy, "port" for the functions on ports in the queue.

### Timeline and Fragments

A wipe is three steps: the DELETE route works out 32-bit arguments from query
parameters (`RouteFrames`, `ToInt32`: napi_get_value_int32 keeps the low bits),
`wipeExecute` reads the play position and turns the mark 0x7fffffff into a
difference (`Rest`), and the server wipes (`Wipes`), unless the play position
lies in the range. Loads, jumps, triggers and play come between. `MaxInt` is
0x7fffffff made small. A BCD timecode is its eight nibbles (`Digits`); the mark
of drop frame is a bit of the first. `LoadedAs` is the switch over the letters
of a type in `loadPlayPort`, letter by letter as in the code, and `QueriedAs`
the switch of `fragmentsToJS`.

## Runs

| Run | Shows | States | Time |
|---|---|---|---|
| `reference` | Two concurrent requests over two address lists: no lookup outlives its request (`NoOrphanLookup`), whoever waits waits for an outstanding HTTP request (`WaitersAreServed`), lookups are shared unless a reset falls among them (`LookupsCoalesce`), give up after all addresses unless another request disturbs them (`GivesUpAfterAll`) and no later in any case (`FailoverBounded`); every wait ends (`WaitsEnd`), and every call once the failures that are retried cease (`CallsEndOnceFound`) | 119 k | 100 s |
| `gateway_safety` | A client and the watchdog over two ISAs that restart: no native answer is lost or comes twice (`NativeHasThread`) and the watchdog never waits for nothing (`WatchdogHasRequest`) | 1.1 M | 25 s |
| `gateway_recovers` | A client that reconnects and two checks of the watchdog that may overlap, over an ISA that stops and starts again: the checks succeed for ever in the end (`Recovers`), also when a portal of a destroyed ORB was kept, or calls, lookups and a noted failure were left behind by either | 312 k | 70 s |
| `port_queue` | Three requests over two ports and two channels: the queue orders and excludes (`QueueConsistent`), no port is left half made (`RestingPortsComplete`) or given a second channel (`OneChannel`), the queued operations are atomic (`ImplementsService`), a create answered with success has its channel (`ChannelGranted`) | 81 k (with symmetry) | 50 s |
| `port_faults` | With a failure at any remote call, a function that outlasts the queue's 10 s, a rival system, and load and wipe beside the queue, all at once: a reset answered OK leaves a port that plays (`ResetPortPlays`), and every queued request is served once resets cease (`QueueServes`) | 927 k | 160 s |
| `requests` | Two requests on one thread, with the timers of requests and of the queue: the health status hides no failure whose handler has ended (`HealthMissesOnlyRunning`) and shows every timeout in the end (`FailureShows`); what is answered with 200 has been carried out (`AnsweredIsCarriedOut`); every native call ends (`NativeCallsEnd`), and the handler of every function on a port does, although a function may call itself for ever (`QueueGoesOn`) | 153 k | 85 s |
| `timeline` | A wipe among loads, jumps, triggers and play: no number is negative or overflows (`RangesFit`), what is cleared is what was asked for (`WipeAsAsked`); every list of up to three fragments, of all types and with timecodes at their limits, comes back as it went in (`FragmentsKept`) | 1.3 M | 70 s |
| `watchdog` | A serving gateway is always watched (`Watched`), one that no check finds in order is gone within a bound (`Barks`), one whose checks succeed is never ended by its own watchdog (`Spared`) | 1.2 M | 20 s |
| `reference_loop` | *violation*: the guard against endless retries does not end them | - | a few s |
| `gateway_abort` | *violation*: a noted connection failure terminates the process at the next call | - | a few s |
| `gateway_stale` | *violation*: after POST /connect calls still go to the first ISA | - | a few s |
| `timeline_rest` | *violation*: a wipe of the rest clears frames beyond the play position | - | a few s |

Five more configurations show statements of the documentation or the code that
TLC refutes in a few seconds; they are not part of the runs in `PROJECT.json`:

| Module and configuration | Refuted |
|---|---|
| `MCMissRow`, `MissRow.cfg` | `RefusedAfterRow`: the guard refuses a call only after misses in a row |
| `MCIsaReference`, `IsaReference_properties.cfg` | `RetrySameOperation`: a call that is retried is the same call |
| `MCPlayPort`, `PlayPort_stolen.cfg` | `ChannelGranted`: a create answered OK has the channel, with another system around |
| `MCWatchdog`, `Watchdog_slow.cfg` | `HealthyLasts`: a gateway whose checks all succeed is never ended |
| `MCWatchdog`, `Watchdog_interval.cfg` | `EveryInterval`: after a success the next check is an interval away |

Each property of a passing run has a mutant, a plausible bug of the code (a
dropped reset, a swapped order, a count that goes one too far) with which TLC
finds the property violated; the mutated definitions stand beside the real
ones, marked "Mutant".

Deadlock is checked in every run. In each model a client may always ask again
or a timer is always due.

## Bounds

* **Requests.** Two slots in `reference`, `requests` and `port_faults`, three in
  `port_queue`. A slot is used again for request after request, so that chains
  of any length of calls occur; two are enough for one request to replace what
  another waits for, three for a queue that orders those that wait while one
  runs. The theorems have no such bound.
* **Addresses.** Two ISAs, lists of one and two: failover, exhaustion and a
  `/connect` that changes the length of the list. `robin` is kept modulo
  `RobinModulus`, a multiple of every length, which is all that the code uses.
* **MissLimit.** 5 in the source; 2 in `reference`, so that a miss of each
  request, or two of one, reach the guard, 5 in
  `MissRow.cfg` and `IsaReference_properties.cfg`, and 1 in the runs whose question is another. The
  theorems hold for any limit.
* **MaxIncarnation** 2: one restart of an ISA. **MaxGlitches** 1 in
  `gateway_abort`: one failure without a cause, wherever it does most harm. In
  `gateway_recovers` it is 0: the failures come from the ISA that stops, at any
  moment, of which any number of calls, lookups and checks of the client and the
  watchdog may fail.
* **Slots of the watchdog.** Two in `gateway_recovers`, so that two checks
  overlap, and with the client's three threads meet in
  `resolveZonePortalShared`: one makes a portal, another's lookup destroys the
  ORB, and the first keeps the portal of the destroyed ORB, which TLC reaches
  there (a third finds it). A check for which no slot is left is one that fails
  as those before it did (`CheckBeyondSlots`). The client there only connects:
  what its queries leave behind is what the watchdog's do. One ISA, the one of the
  command line, is what the watchdog has to come back to after a restart.
* **MaxFailures**, **MaxOverruns** 1 in `port_faults`: one remote call fails, any
  one, before or after its effect, and one function is given up by the queue. Triggers change nothing that the module
  keeps of a port and are left out of that run.
* **PoolSize** 1 in `requests`: the pool is exhausted by one call, as it is by
  four in the code. **MaxRepeats** 1: a call may be carried out twice and then
  either succeeds or fails.
* **MaxInt** 4, **MaxInput** 11 in `timeline`: parameters beyond 2^31 and 2^32
  (8 and 10 here), where numbers turn negative and wrap. One wipe at a time, as
  the timeline is all that two would share; one load of fragments, which
  replaces what there is; digits at their lowest, highest and between.
* **Watchdog.** Interval 4, timeout 1, hour 12, two calls an hour: the same
  order of magnitudes as 60 s, 3 s, 3600 s and 10, with an hour that has room
  for the checks (`Roomy`), an interval that can be halved twice and then is
  still at least a tick, and twice more to zero. `MaxBroken` 1: one broken
  response, so two chains. `since` stops counting past the bounds it is
  compared with. `Watchdog_slow.cfg` has an interval of 7, more than half an hour of
  this clock, as six minutes are more than a tenth of the code's.
* **Symmetry** of requests, ports and channels is used in `port_queue` only,
  which has no liveness property and whose initial state, guards and properties
  do not distinguish them.

## Fairness

* `IsaReference!Fairness`: jobs are weakly fair, as the event loop drains them;
  HTTP answers and native answers are strongly fair, because they come within
  timeouts of their own (1 s in `getISAReference`, 2 s `clientCallTimeOutPeriod`)
  but wait while jobs are queued. No client is fair.
* `GatewayFairness`: in addition threads run, the watchdog's timer fires, the
  supervisor restarts the process, and an ISA that stopped is started again.
  Glitches and stops are never fair and are bounded, so that "failures cease"
  is part of the question that `Recovers` asks.
* `PlayPort!Fairness`: the queue starts the next function, and each function's
  next step is taken (its remote calls time out at the latest). Timeouts of the
  queue and failures are not fair.
* `RequestPath!Fairness`: the timer of each request and that of the queue fire,
  the queue starts what it may, libuv takes work from its queue in order, a remote call ends (`clientCallTimeOutPeriod`), the event
  loop takes every completion. Clients and restarts are not fair.
  `FailureShows` assumes that OBJECT_NOT_EXIST answers cease for requests beside
  the queue, since the calls they repeat may otherwise never end
  (`reference_loop`); `QueueGoesOn` does not.
* `Timeline` and `Fragments` have no fairness and no liveness properties.
* `Watchdog` has no fairness: its bounds in time are safety properties. That
  time passes only when nothing is due is the promise of the event loop; a
  process whose event loop is blocked is outside the model.

## Proofs

TLAPS checks every theorem for all values of the constants that satisfy the
named assumptions of the modules. Eight modules of proofs:

* **`IsaReference_proofs`** (`TypeCorrect`, `NoOrphan`, `WaitersServed`,
  `LookupsBounded`). `WaitersAreServed` is not inductive: that a waiter has an
  outstanding HTTP request follows because links between promises lead, in
  finitely many steps, to a promise that is fetched. The inductive invariant
  `IInv` adds `Anchored` (what waits is linked to a promise that exists),
  `NoOrphanLookup`, the limit of the counter and `Ranked`: there is a function to
  the natural numbers that descends along every link, so that there is no cycle.
  Every step has one of four shapes (`StepShape`); each conjunct is proved of
  the shapes. The theorem follows by the well-foundedness of the naturals.
* **`ReferenceHistory_proofs`** (`OneLookup`, `RoundBeforeGivingUp`), about how a
  state was reached. For `LookupsCoalesce`: as long as nothing resets the
  reference, the promises that are not settled stand in one line, each linked to
  the one in front of it, the newest, which `isaIOR` names, at the end, and only
  the first of them asks an ISA (`InLine`, `Order`); a new request joins at the
  end, a settled promise leaves at the front. For
  `GivesUpAfterAll`: a lookup asks the addresses in turn from where it began,
  modulo their number (`AskedSoFar`, `NextIndex`); when it gives up it has made
  as many steps as there are addresses, and n steps modulo n meet every
  remainder (`Passed`, `AllAsked`). Assumed (`HistoryAssumption`): the modulus
  of the round robin is greater than 1: the code's counter only grows, and a step
  of it can be told from none. The invariant of
  `IsaReference` carries over, since a step of the history is a step of it
  (`HistoryInvariance`).
* **`Gateway_proofs`** (`GatewayTypeCorrect`, `NativeCallsHaveThreads`,
  `GatewayServesWaiters`, `WatchdogServed`). Each step of the
  composition is a step of `IsaReference`, a stutter or a new start, so that
  its invariant carries over, and with it what it implies: `WaitersAreServed` and
  `NoOrphanLookup` (`GatewayServesWaiters`). With it the
  correspondence of waiting calls and threads is inductive. For
  `WatchdogHasRequest`, `Awaited` adds that the watchdog waits for a slot of
  `Requests`, which only the steps of that slot's own function can end.
* **`PlayPort_proofs`** (`PortTypeCorrect`, `QueueExclusion`, `NoPortHalfMade`,
  `ResetRepairs`, `NoSecondChannel`, `GrantedIfAlone`, `CreatedPlays`). The queue is a
  sequence with insertion in the middle: `Inserted` and `TailOf` say what that
  does to membership and order. `Scripted` strengthens the types: a function has
  calls left, and only a create assigns a channel. `RestingPortsComplete` holds
  if nothing fails, overruns, or comes from another system or from beside the
  queue (`Undisturbed`, the assumption of the run `port_queue`): `Building` says
  of each point of each function what its port has by then (`Stage`), and that
  only the port of the function under way may be incomplete. `ResetPortPlays`
  holds with all of these disturbances, up to a first overrun:
  `ResetsOnTheWay` says what a reset has achieved so far, and the functions that
  may run beside it (`Mild`) take none of it away. `OneChannel` holds under the
  same disturbances, and `ChannelGranted` under the same without another
  system: `Assigned` says that a port that is not there has no channel, that a
  live handle is one of a port that is there, and of a create that has not yet
  assigned (`Granting`) that its port still has no channel and its channel
  still no port, for nobody else can assign one until it is done.
  `CreatedPortPlays` follows from `Building`, when `Undisturbed`.
* **`PortService_proofs`** (`QueuedOpsAtomic`): `PlayPort` implements
  `PortService` when `Undisturbed`, for any finite number of channels. `Owned`
  strengthens `Building`: a port has at most one channel, a channel at most one
  port, and how far a function is tells whether its port has the channel yet.
  With it the refinement mapping is known exactly (`OwnersFit`), the step that
  answers a call is its step of the service, and every other one stutters
  (`GoesOnStutters`, `CallStutters`). That a create always finds a port object
  is a count: the other ports have as many channels, none of them free
  (`PortIsLeft`).
* **`Watchdog_proofs`** (`WatchdogTypeCorrect`, `AlwaysWatched`, `BarksInTime`,
  `HealthySpared`). For `Barks`, the time gone plus what is left of some chain
  (`Remaining`: the wait, the answer, and the later checks at their halved
  intervals) never exceeds the bound (`EndsInTime`); halving is what makes the
  remainder of a chain not grow. For `Spared`, what is left of the hour is more
  than the periods of the calls and responses still missing (`HourSuffices`).
  Assumed: the interval and the number of calls are positive, the delay of a
  kill is no longer than that of a failure, the lookup at the start ends
  within `Startup`, and - in `Spared` itself - `Roomy`.

* **`RequestPath_proofs`** (`PathTypeCorrect`, `HealthMisses`,
  `AnsweredCarriedOut`), for any number of requests, threads and repeats. The
  invariant `PathInv` adds `CarriedOut` to the types and to
  `HealthMissesOnlyRunning`: a function whose last native call has succeeded has
  been carried out, through all repeats and renewed calls before. Only such a
  function is answered with 200 (`AnsweredBySuccess`). Steps have few shapes
  (`Shape`), which keeps the cases apart.
* **`Timeline_proofs`** (`TimelineTypeCorrect`, `WipeRangesFit`, `WipesAsAsked`),
  for integers of any width and any parameters. `Computed` strengthens the
  types: it ties the numbers on the thread to the parameters they came from.
  The theorems about `Fragments` are here, too (`TimecodeRoundTrip`, `TypesKept`,
  `FragmentRoundTrip`, `ListsKept`): every timecode, not only those at their
  limits, and every fragment comes back as it went in, and lists of any length
  keep their order. The loop over a list is a recursive function; that its n-th
  value is what the first n fragments became (`LoopKeepsOrder`) is an induction
  over n, done by the least n that fails (`AllNumbers`). Assumed
  (`FragmentsAssumption`): what is loaded are lists of fragments, which is what
  the parser of `loadPlayPort` makes of its arguments.

The inductive invariants were checked with TLC before they were proved.

Every invariant and every action property of the passing runs has a theorem.
Only model-checked: the liveness properties (`WaitsEnd`, `CallsEndOnceFound`,
`Recovers`, `QueueServes`, `NativeCallsEnd`, `QueueGoesOn`, `FailureShows`),
which rest on fairness and are out of TLAPS's reach. `HealthyLasts` and the
other statements that TLC refutes have no proofs; where one of them holds under
conditions (`ChannelGranted`, `CreatedPortPlays`), the theorem names them.

## Disagreements

Kept as runs (with the line that states the contrary in `PROJECT.json`):

* The guard "Five OBJECT_NOT_EXIST exceptions in a row. Preventing loop."
  (`index.ts:426`) throws an error whose own message contains OBJECT_NOT_EXIST,
  so the catch clause takes it for another one and starts again
  (`reference_loop`).
* `resolveZonePortalShared` throws a *pointer* on a worker thread
  (`qgw_util.cc:145`), which no handler catches; the flag that leads there is
  also set by failures that a retry overcame (`gateway_abort`).
* The zone portal is cached until the ORB is destroyed: a successful
  POST /connect to another ISA changes nothing for native calls
  (`gateway_stale`).
* "all frames from the given start offset to the current play position will be
  wiped" if frames are omitted (`README.md:373`): the route sets the mark
  0x7fffffff and then cuts it to 0x7fffffff - start (`server.ts:801`), so that
  the native function wipes everything behind start (`timeline_rest`).

Shown by the further configurations (named by their property):

* "Five OBJECT_NOT_EXIST exceptions in a row" (`index.ts:426`): no success resets
  the counter, so the five may lie hours apart (`RefusedAfterRow`).
* "get name/value pair configuration properties for the port" (`README.md:229`):
  after an OBJECT_NOT_EXIST the query is repeated as a wipe (`index.ts:1039`,
  `RetrySameOperation`).
* "Another kind of error response will result if the channel is already assigned
  to a port" (`README.md:182`): a channel taken between check and assignment
  leaves a 200 with `assigned: false` (`ChannelGranted`).
* "every 60 seconds, or an interval configured" (`README.md:485`): the interval
  halved by a failure is never restored (`server.ts:985`, `EveryInterval`).
* "three times in a row, the gateway will initiate a shutdown" (`README.md:485`):
  the hourly check for ten calls (`server.ts:949`) shuts down a gateway of which
  no check has failed, if the interval is six minutes or more (`HealthyLasts`).

Stated in the modules and refuted by TLC, without a configuration of their own:
`PingHasAddress` (`isaIOR` is null when it is read again, `index.ts:504`),
`CreatedPortPlays` (a half-made port is answered 200 when created again), and
`RestingPortsComplete` of `PlayPort` with the unqueued operations allowed: load,
wipe and trigger bypass the queue of `CHANGELOG.md:33` and call `getPort`, which
makes a port that was just released (`port.cc:855`); it is refuted, too, once a
function overruns the queue's timeout. Found on the way to the
models: a request for the health status is itself a response that resets FAIL
to OK; a repeated call loses the `copyCreated` of the first (`clone.cc:155`), and makes
a clone between zones twice (`clone.cc:159`); a number of a query that does not
fit 32 bits is cut to another one (`port.cc:824`); a SpeedFragment is left out of a load without an error
(`port.cc:1170`), as is the data of a CCFragment (a TODO, `port.cc:1162`); the
query of fragments cuts `finish` as if it were a length (`server.ts:703`); an
error of the watchdog's request shuts down at once, where `README.md:485` says
"three times in a row"; POST kill waits 1 s (`server.ts:186`), where
`README.md:474` says 5.

## Not modelled

* **Most lines of the repository.** Of the 99,000 lines that are counted as
  implementation, some 92,000 are headers of omniORB and its COS services under
  `include/`, and stubs generated from `Quentin.idl` (`quentin.cc`,
  `Quentin.hh`). They carry no logic of the gateway and are modelled where the
  gateway relies on them: retries, timeouts and destruction of the ORB, and what
  the interface definition says of ports. The handwritten code has about 6,900
  lines, of which more than half are field-by-field conversions between
  JavaScript and CORBA, one N-API call and one check of its status per field,
  and texts of errors; a model of those has no states to distinguish.
* The texts of errors, which texts lead to a 400 or 404, and the checks of
  parameters other than those of a wipe.
* The contents of port properties and the numbers of ports; the cut of `finish` in the query of
  fragments; fields of fragments that are only copied.
* Thumbnails (not reachable over HTTP), search and deletion of clips, zones,
  formats, remaining copies (single queries or calls, whose connection behaviour
  is that of `IsaReference` and whose threads are those of `RequestPath`).
* What copies the server has after a clone that was repeated: `RequestPath` says
  that a clone that is answered with 200 was carried out, and not how often.
* Triggers in offset mode (`control.cc:37-39`): the server acts on them at a later
  moment, at which the step `Trigger` of `Timeline` may be taken just as well.
* The steps of `destroyOrb` one by one (`qgw_util.cc:181-190`): it is one step
  between those of the threads, before and after which a thread may have found
  the portal (`DestroyOrb`).
* `test_server.cc` (a stub of a server for the tests).
* The read of a deleted carrier in `rejectStatus` (`qgw_util.cc:296`) is taken to
  find the status it had: undefined in C++, but nothing is allocated on that
  thread in between, and the allocator writes only the first words of a freed
  block, which hold other fields.
* In `Watchdog`: `--watchdog 0`, exit codes, and a POST /timeout that makes
  answers slower than the model's `Timeout`.
* In `Gateway`, native calls of more than one remote call: `PlayPort` has them.

## Plan

The order was that of importance; all of the following is done:
`IsaReference` with `ReferenceHistory`, `Gateway`, `PortService` and `PlayPort`,
`Watchdog`, `RequestPath`, `Timeline` and `Fragments`, and the proofs above.
What is left:

1. A specification of the port operations that says what is left of atomicity
   when calls fail or operations beside the queue run, and the refinement for
   it, as `PortService` is for the undisturbed queue.
2. Properties of the operations beside the queue, and of the null port that only
   `createPlayPortExecute` checks for (`port.cc:42`) when a rival takes channels.
3. Deletion of clips with repeats and retries, and the number of copies that repeated clones
   leave, and thumbnails if they become reachable.
