------------------------------ MODULE Timeline ------------------------------
(***************************************************************************)
(* The timeline of one play port and the requests that change it: load,    *)
(* wipe, jump, setJump and trigger (src/server.ts:722-890, port.cc,        *)
(* control.cc).  A wipe is three steps: the route turns query parameters   *)
(* into 32-bit arguments, a worker thread asks the server for the play     *)
(* position and works out the range, and the server wipes it; whatever     *)
(* else happens on the port may happen between.                            *)
(*                                                                         *)
(* Integers keep their width: MaxInt is 0x7fffffff scaled down, and serves *)
(* as the code's mark for "up to the play position" as it does there.      *)
(***************************************************************************)
EXTENDS Integers

CONSTANTS
  Requests,    (* slots of wipes                                           *)
  MaxInt,      (* 0x7fffffff                                               *)
  MaxInput,    (* bound: the largest number in a query parameter           *)
  Omitted      (* an absent query parameter or property                    *)

ASSUME TimelineAssumption ==
  /\ MaxInt \in Nat \ {0}
  /\ MaxInput \in Nat
  /\ Omitted \notin Int

Frames == 0 .. MaxInt - 1

VARIABLES
  timeline,     (* the frames that have material loaded                    *)
  head,         (* the play position                                       *)
  playing,
  jumpPoint,
  wipe          (* the wipe in each slot                                   *)

port == << head, playing, jumpPoint >>
vars == << timeline, port, wipe >>
-----------------------------------------------------------------------------
(* napi_get_value_int32 keeps the low 32 bits of a number.                 *)
(* Mutant: the number is read with more bits than the variable has. *)
ToInt32Wide(n) == n
ToInt32(n) ==
  LET low == n % (2 * (MaxInt + 1))
  IN  IF low > MaxInt THEN low - 2 * (MaxInt + 1) ELSE low

Given(option, default) == IF option = Omitted THEN default ELSE option

(* The DELETE route: frames are MAX unless given, and are cut so that the  *)
(* range does not overflow, which is looked at only for a start that is    *)
(* given and not 0.                                                        *)
(* Mutant: the cut is made whatever the range. *)
RouteFramesAlwaysCut(start, frames) ==
  LET f == Given(frames, MaxInt)
      s == Given(start, 0)
  IN  IF s # 0 THEN MaxInt - s ELSE f
RouteFrames(start, frames) ==
  LET f == Given(frames, MaxInt)
      s == Given(start, 0)
  IN  IF s # 0 /\ f + s > MaxInt THEN MaxInt - s ELSE f

(* What the native function makes of its options: those of the route, or   *)
(* the ones a user of the library passes (index.ts:852).                   *)
NativeStart(start) == ToInt32(Given(start, 0))
NativeFrames(via, start, frames) ==
  IF via = "route" THEN ToInt32(RouteFrames(start, frames))
                   ELSE ToInt32(Given(frames, MaxInt))

(* wipeExecute: MaxInt frames are the frames up to the play position; a    *)
(* difference that overflows wraps.                                        *)
(* Mutant: nothing keeps the number from being negative. *)
RestUnclamped(start, frames, offset) ==
  IF frames = MaxInt THEN ToInt32(offset - start) ELSE frames
Rest(start, frames, offset) ==
  LET left == ToInt32(offset - start)
  IN  IF frames # MaxInt THEN frames ELSE IF left < 0 THEN 0 ELSE left

Range(start, frames) == { f \in Frames : start <= f /\ f < start + frames }

NoWipe == [pc |-> "idle", via |-> "route", start |-> Omitted, frames |-> Omitted,
           from |-> 0, count |-> 0, offset |-> 0, wiped |-> FALSE]

Init ==
  /\ timeline = {}
  /\ head = 0 /\ playing = FALSE /\ jumpPoint = 0
  /\ wipe = [r \in Requests |-> NoWipe]
-----------------------------------------------------------------------------
(* DELETE .../fragments, or wipe() of the library. *)
AsksWipe(r, via, start, frames) ==
  /\ wipe[r].pc = "idle"
  /\ wipe' = [wipe EXCEPT ![r] =
       [pc |-> "called", via |-> via, start |-> start, frames |-> frames,
        from |-> NativeStart(start), count |-> NativeFrames(via, start, frames),
        offset |-> 0, wiped |-> FALSE]]
  /\ UNCHANGED << timeline, port >>

(* getStatus() on the worker thread. *)
ReadsStatus(r) ==
  /\ wipe[r].pc = "called"
  /\ wipe' = [wipe EXCEPT ![r] =
       [wipe[r] EXCEPT !.pc = "ranged", !.offset = head,
                       !.count = Rest(wipe[r].from, wipe[r].count, head)]]
  /\ UNCHANGED << timeline, port >>

(* Port::wipe of the server: refused if the range holds the play position. *)
Wipes(r) ==
  /\ wipe[r].pc = "ranged"
  /\ LET range == Range(wipe[r].from, wipe[r].count)
         fits == head \notin range
     IN  /\ timeline' = IF fits THEN timeline \ range ELSE timeline
         /\ wipe' = [wipe EXCEPT ![r] = [NoWipe EXCEPT !.wiped = fits]]
  /\ UNCHANGED port

(* POST .../fragments: material replaces what is there. *)
Load(offset, length) ==
  /\ offset + length <= MaxInt
  /\ timeline' = timeline \cup Range(offset, length)
  /\ UNCHANGED << port, wipe >>

(* POST .../jump: the port stops where it jumps to. *)
Jump(offset) ==
  /\ head' = offset /\ playing' = FALSE
  /\ UNCHANGED << timeline, jumpPoint, wipe >>

(* PUT .../jump. *)
SetJump(offset) ==
  /\ jumpPoint' = offset
  /\ UNCHANGED << timeline, head, playing, wipe >>

(* POST .../trigger.  A trigger that was set for an offset acts when the   *)
(* play position gets there (control.cc:37-39): for the timeline and the   *)
(* play position that is this step, taken at that moment.                  *)
Trigger(action) ==
  /\ playing' = (action = "START" \/ (action = "JUMP" /\ playing))
  /\ head' = IF action = "JUMP" THEN jumpPoint ELSE head
  /\ UNCHANGED << timeline, jumpPoint, wipe >>

Plays ==
  /\ playing /\ head < MaxInt
  /\ head' = head + 1
  /\ UNCHANGED << timeline, playing, jumpPoint, wipe >>

Inputs == { Omitted } \cup 0 .. MaxInput

Next ==
  \/ \E r \in Requests :
       \/ \E via \in { "route", "library" }, start, frames \in Inputs :
            AsksWipe(r, via, start, frames)
       \/ ReadsStatus(r)
       \/ Wipes(r)
  \/ \E offset \in Frames, length \in 1 .. MaxInt : Load(offset, length)
  \/ \E offset \in Frames : Jump(offset) \/ SetJump(offset)
  \/ \E action \in { "START", "STOP", "JUMP" } : Trigger(action)
  \/ Plays

Spec == Init /\ [][Next]_vars
-----------------------------------------------------------------------------
Int32 == -MaxInt - 1 .. MaxInt
Calls(r) == wipe[r].pc = "ranged"
Start(r) == Given(wipe[r].start, 0)

(* The numbers of the request are numbers of 32 bits. *)
InRange(r) == Start(r) <= MaxInt /\ Given(wipe[r].frames, 0) <= MaxInt

WipeType ==
  [pc : { "idle", "called", "ranged" }, via : { "route", "library" },
   start : Inputs, frames : Inputs, from : Int32, count : Int32,
   offset : 0 .. MaxInt, wiped : BOOLEAN]

TypeOK ==
  /\ timeline \subseteq Frames
  /\ head \in 0 .. MaxInt /\ playing \in BOOLEAN /\ jumpPoint \in Frames
  /\ wipe \in [Requests -> WipeType]

(* The server is never asked to wipe a negative number of frames, nor,     *)
(* by the route, a range whose end overflows (server.ts:801-803,           *)
(* port.cc:683-686).                                                       *)
RangesFit ==
  \A r \in Requests :
    Calls(r) /\ InRange(r)
      => /\ 0 <= wipe[r].from /\ 0 <= wipe[r].count
         /\ wipe[r].via = "route" => wipe[r].from + wipe[r].count <= MaxInt

(* A wipe that answers "wiped" cleared exactly what was asked for, frames  *)
(* as given, or those up to the play position as it was read, and one that *)
(* does not changed nothing; whatever was loaded, played and jumped while  *)
(* it ran (port.cc:667-688).                                               *)
AskedFor(r) ==
  IF wipe[r].frames = Omitted
  THEN { f \in Frames : Start(r) <= f /\ f < wipe[r].offset }
  ELSE { f \in Frames : Start(r) <= f /\ f < Start(r) + wipe[r].frames }
ToThePlayPosition(r) ==
  wipe[r].frames = Omitted /\ (wipe[r].via = "library" \/ Start(r) = 0)
WipeAsAsked ==
  [][\A r \in Requests :
       /\ Calls(r) /\ wipe'[r].pc = "idle"
       /\ Start(r) <= MaxInt
       /\ \/ ToThePlayPosition(r)
          \/ wipe[r].frames # Omitted /\ wipe[r].frames < MaxInt
       => timeline' = IF wipe'[r].wiped THEN timeline \ AskedFor(r) ELSE timeline]_vars

(* "If `:frames` is omitted, all frames from the given start offset to the *)
(* current play position will be wiped, which will be no frames if         *)
(* `:start` is after the play head offset" (README.md:373).                *)
WipeRest ==
  [][\A r \in Requests :
       /\ Calls(r) /\ wipe'[r].pc = "idle"
       /\ wipe[r].frames = Omitted
       => timeline \ timeline' \subseteq AskedFor(r)]_vars
=============================================================================
