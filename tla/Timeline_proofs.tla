--------------------------- MODULE Timeline_proofs ---------------------------
(***************************************************************************)
(* Proofs about Timeline, for any width of integers and any parameters,    *)
(* and about the conversions of Fragments, for all digits and all types of *)
(* fragments.  The loop over a list of fragments is a recursive function;  *)
(* what holds after each of its rounds is proved by induction over sets of *)
(* natural numbers.                                                        *)
(***************************************************************************)
EXTENDS Timeline, Fragments, TLAPS, WellFoundedInduction

(* A remainder is less than its divisor. *)
LEMMA RemainderRange ==
  ASSUME NEW n \in Int, NEW m \in Nat, m > 0
  PROVE  n % m \in 0 .. m - 1
  OBVIOUS

(* ... and is the number itself, or one divisor more, for small numbers. *)
LEMMA RemainderOfSmall ==
  ASSUME NEW n \in Int, NEW m \in Nat, m > 0
  PROVE  /\ 0 <= n /\ n < m => n % m = n
         /\ -m <= n /\ n < 0 => n % m = n + m
  OBVIOUS

(* A conversion to 32 bits gives a number of 32 bits, the same one if it   *)
(* was one.                                                                *)
LEMMA ToInt32Type ==
  ASSUME NEW n \in Int
  PROVE  /\ ToInt32(n) \in Int32
         /\ n \in Int32 => ToInt32(n) = n
<1> DEFINE m == 2 * (MaxInt + 1)
<1>1. MaxInt \in Nat /\ m \in Nat /\ m > 0
  BY TimelineAssumption
<1>2. n % m \in 0 .. m - 1
  BY <1>1, RemainderRange
<1>3. ToInt32(n) = IF (n % m) > MaxInt THEN (n % m) - m ELSE n % m
  BY DEF ToInt32
<1>4. ToInt32(n) \in Int32
  BY <1>1, <1>2, <1>3 DEF Int32
<1>5. ASSUME n \in Int32 PROVE ToInt32(n) = n
  <2>1. /\ 0 <= n /\ n < m => n % m = n
        /\ -m <= n /\ n < 0 => n % m = n + m
    BY <1>1, RemainderOfSmall
  <2> QED BY <1>1, <1>3, <1>5, <2>1 DEF Int32
<1> QED BY <1>4, <1>5
-----------------------------------------------------------------------------
(* The numbers of the code. *)

LEMMA InputsAreNumbers ==
  ASSUME NEW n \in Inputs, NEW d \in Int
  PROVE  Given(n, d) \in Int /\ (n # Omitted => n \in Nat) /\ (d >= 0 => Given(n, d) >= 0)
  BY TimelineAssumption DEF Inputs, Given

LEMMA NativeTypes ==
  ASSUME NEW via \in { "route", "library" }, NEW start \in Inputs, NEW frames \in Inputs
  PROVE  NativeStart(start) \in Int32 /\ NativeFrames(via, start, frames) \in Int32
<1>1. MaxInt \in Int /\ 0 \in Int
  BY TimelineAssumption
<1>2. Given(start, 0) \in Int /\ Given(frames, MaxInt) \in Int
  BY <1>1, InputsAreNumbers
<1>3. RouteFrames(start, frames) \in Int
  BY <1>1, <1>2 DEF RouteFrames
<1> QED BY <1>2, <1>3, ToInt32Type DEF NativeStart, NativeFrames

(* The rest of the timeline is a number of 32 bits, and for a start of     *)
(* 32 bits that is not negative the frames up to the play position.        *)
LEMMA RestType ==
  ASSUME NEW start \in Int32, NEW frames \in Int32, NEW offset \in 0 .. MaxInt
  PROVE  /\ Rest(start, frames, offset) \in Int32
         /\ 0 <= frames => 0 <= Rest(start, frames, offset)
         /\ 0 <= start /\ frames = MaxInt
              => Rest(start, frames, offset) = IF offset < start THEN 0 ELSE offset - start
<1>1. MaxInt \in Nat
  BY TimelineAssumption
<1>2. offset - start \in Int
  BY <1>1 DEF Int32
<1>3. /\ ToInt32(offset - start) \in Int32
      /\ offset - start \in Int32 => ToInt32(offset - start) = offset - start
  BY <1>2, ToInt32Type
<1>4. Rest(start, frames, offset) \in Int32 /\ (0 <= frames => 0 <= Rest(start, frames, offset))
  BY <1>1, <1>3 DEF Rest, Int32
<1>5. ASSUME 0 <= start, frames = MaxInt
      PROVE  Rest(start, frames, offset) = IF offset < start THEN 0 ELSE offset - start
  <2>1. offset - start \in Int32
    BY <1>1, <1>5 DEF Int32
  <2>2. ToInt32(offset - start) = offset - start
    BY <1>3, <2>1
  <2> QED BY <1>1, <1>5, <2>2 DEF Rest, Int32
<1> QED BY <1>4, <1>5
-----------------------------------------------------------------------------
LEMMA NoWipeType ==
  NoWipe \in WipeType /\ \A b \in BOOLEAN : [NoWipe EXCEPT !.wiped = b] \in WipeType
  BY TimelineAssumption DEF NoWipe, WipeType, Inputs, Int32

LEMMA InitTypeOK == Init => TypeOK
<1> SUFFICES ASSUME Init PROVE TypeOK
  OBVIOUS
<1>1. playing \in BOOLEAN
  BY Zenon DEF Init
<1>2. wipe \in [Requests -> WipeType]
  BY NoWipeType DEF Init
<1>3. timeline \subseteq Frames /\ head \in 0 .. MaxInt /\ jumpPoint \in Frames
  BY TimelineAssumption DEF Init, Frames
<1> QED BY <1>1, <1>2, <1>3 DEF TypeOK

LEMMA NextTypeOK == TypeOK /\ [Next]_vars => TypeOK'
<1> SUFFICES ASSUME TypeOK, [Next]_vars
             PROVE  TypeOK'
  OBVIOUS
<1> USE TimelineAssumption
<1>1. ASSUME NEW r \in Requests, NEW via \in { "route", "library" },
             NEW start \in Inputs, NEW frames \in Inputs, AsksWipe(r, via, start, frames)
      PROVE  TypeOK'
  <2>1. [pc |-> "called", via |-> via, start |-> start, frames |-> frames,
         from |-> NativeStart(start), count |-> NativeFrames(via, start, frames),
         offset |-> 0, wiped |-> FALSE] \in WipeType
    BY NativeTypes DEF WipeType
  <2> QED BY <1>1, <2>1 DEF AsksWipe, TypeOK, port
<1>2. ASSUME NEW r \in Requests, ReadsStatus(r)
      PROVE  TypeOK'
  <2>1. wipe[r] \in WipeType
    BY DEF TypeOK
  <2>2. Rest(wipe[r].from, wipe[r].count, head) \in Int32
    BY <2>1, RestType DEF TypeOK, WipeType
  <2>3. [wipe[r] EXCEPT !.pc = "ranged", !.offset = head,
                        !.count = Rest(wipe[r].from, wipe[r].count, head)] \in WipeType
    BY <2>1, <2>2 DEF WipeType, TypeOK
  <2> QED BY <1>2, <2>3 DEF ReadsStatus, TypeOK, port
<1>3. ASSUME NEW r \in Requests, Wipes(r)
      PROVE  TypeOK'
  <2>1. timeline' \subseteq Frames
    BY <1>3 DEF Wipes, TypeOK
  <2>2. \E fits \in BOOLEAN : wipe' = [wipe EXCEPT ![r] = [NoWipe EXCEPT !.wiped = fits]]
    BY <1>3, Zenon DEF Wipes
  <2>3. wipe' \in [Requests -> WipeType]
    BY <2>2, NoWipeType DEF TypeOK
  <2> QED BY <1>3, <2>1, <2>3 DEF Wipes, TypeOK, port
<1>4. ASSUME NEW offset \in Frames, NEW length \in 1 .. MaxInt, Load(offset, length)
      PROVE  TypeOK'
  BY <1>4 DEF Load, Range, TypeOK, port
<1>5. ASSUME NEW offset \in Frames, Jump(offset) \/ SetJump(offset)
      PROVE  TypeOK'
  <2>1. CASE Jump(offset)
    <3>1. playing' \in BOOLEAN
      BY <2>1, Zenon DEF Jump
    <3>2. head' \in 0 .. MaxInt
      BY <2>1 DEF Jump, Frames
    <3> QED BY <2>1, <3>1, <3>2 DEF Jump, TypeOK
  <2>2. CASE SetJump(offset)
    BY <2>2 DEF SetJump, TypeOK, port
  <2> QED BY <1>5, <2>1, <2>2
<1>6. ASSUME NEW action \in { "START", "STOP", "JUMP" }, Trigger(action)
      PROVE  TypeOK'
  BY <1>6 DEF Trigger, Frames, TypeOK, port
<1>7. CASE Plays
  BY <1>7 DEF Plays, TypeOK, port
<1>8. CASE UNCHANGED vars
  BY <1>8 DEF vars, port, TypeOK
<1> QED BY <1>1, <1>2, <1>3, <1>4, <1>5, <1>6, <1>7, <1>8 DEF Next

(* The variables keep their types for any width and any parameters. *)
THEOREM TimelineTypeCorrect == Spec => []TypeOK
  BY InitTypeOK, NextTypeOK, PTL DEF Spec
-----------------------------------------------------------------------------
(* What a wipe carries from step to step: numbers made of its own          *)
(* parameters, and of the play position once that is read.                 *)
Computed ==
  \A r \in Requests :
    LET w == wipe[r]
    IN  /\ w.pc # "idle" => w.from = NativeStart(w.start)
        /\ w.pc = "called" => w.count = NativeFrames(w.via, w.start, w.frames)
        /\ w.pc = "ranged" =>
             w.count = Rest(w.from, NativeFrames(w.via, w.start, w.frames), w.offset)

LEMMA InitComputed == Init => Computed
<1>1. NoWipe.pc = "idle"
  BY DEF NoWipe
<1>2. Init => \A r \in Requests : wipe[r] = NoWipe
  BY DEF Init
<1> QED BY <1>1, <1>2 DEF Computed

LEMMA NextComputed == TypeOK /\ Computed /\ [Next]_vars => Computed'
<1> SUFFICES ASSUME TypeOK, Computed, [Next]_vars
             PROVE  Computed'
  OBVIOUS
<1>1. wipe \in [Requests -> WipeType]
  BY DEF TypeOK
<1>2. ASSUME NEW r \in Requests, NEW via \in { "route", "library" },
             NEW start \in Inputs, NEW frames \in Inputs, AsksWipe(r, via, start, frames)
      PROVE  Computed'
  <2> DEFINE new == [pc |-> "called", via |-> via, start |-> start, frames |-> frames,
                     from |-> NativeStart(start), count |-> NativeFrames(via, start, frames),
                     offset |-> 0, wiped |-> FALSE]
  <2>1. wipe' = [wipe EXCEPT ![r] = new]
    BY <1>2 DEF AsksWipe
  <2>2. /\ new.pc = "called" /\ new.from = NativeStart(new.start)
        /\ new.count = NativeFrames(new.via, new.start, new.frames)
    OBVIOUS
  <2> HIDE DEF new
  <2> QED BY <1>1, <2>1, <2>2 DEF Computed
<1>3. ASSUME NEW r \in Requests, ReadsStatus(r)
      PROVE  Computed'
  <2> DEFINE w == wipe[r]
             new == [wipe[r] EXCEPT !.pc = "ranged", !.offset = head,
                                    !.count = Rest(wipe[r].from, wipe[r].count, head)]
  <2>1. wipe' = [wipe EXCEPT ![r] = new] /\ w.pc = "called"
    BY <1>3 DEF ReadsStatus
  <2>2. w \in WipeType
    BY <1>1
  <2>3. /\ new.pc = "ranged" /\ new.from = w.from /\ new.start = w.start
        /\ new.via = w.via /\ new.frames = w.frames /\ new.offset = head
        /\ new.count = Rest(w.from, w.count, head)
    BY <2>2 DEF WipeType
  <2>4. w.from = NativeStart(w.start) /\ w.count = NativeFrames(w.via, w.start, w.frames)
    BY <2>1 DEF Computed
  <2>5. /\ new.from = NativeStart(new.start)
        /\ new.count = Rest(new.from, NativeFrames(new.via, new.start, new.frames), new.offset)
    BY <2>3, <2>4
  <2>6. new.pc = "ranged"
    BY <2>3
  <2> HIDE DEF new
  <2> QED BY <1>1, <2>1, <2>5, <2>6 DEF Computed
<1>4. ASSUME NEW r \in Requests, Wipes(r)
      PROVE  Computed'
  <2>1. PICK new : wipe' = [wipe EXCEPT ![r] = new] /\ new.pc = "idle"
    <3>1. \E fits \in BOOLEAN : wipe' = [wipe EXCEPT ![r] = [NoWipe EXCEPT !.wiped = fits]]
      BY <1>4, Zenon DEF Wipes
    <3>2. \A fits \in BOOLEAN : [NoWipe EXCEPT !.wiped = fits].pc = "idle"
      BY DEF NoWipe
    <3> QED BY <3>1, <3>2, Zenon
  <2> QED BY <1>1, <2>1 DEF Computed
<1>5. CASE UNCHANGED wipe
  BY <1>5 DEF Computed
<1> QED BY <1>2, <1>3, <1>4, <1>5 DEF Next, Load, Jump, SetJump, Trigger, Plays, vars
-----------------------------------------------------------------------------
(* A start of 32 bits arrives as it was given. *)
LEMMA StartArrives ==
  ASSUME NEW start \in Inputs, Given(start, 0) <= MaxInt
  PROVE  /\ NativeStart(start) = Given(start, 0)
         /\ Given(start, 0) \in 0 .. MaxInt
<1>1. MaxInt \in Nat /\ Given(start, 0) \in Int /\ Given(start, 0) >= 0
  BY TimelineAssumption, InputsAreNumbers
<1>2. Given(start, 0) \in Int32
  BY <1>1 DEF Int32
<1> QED BY <1>1, <1>2, ToInt32Type DEF NativeStart

(* So do the frames, cut by the route where the range would overflow.      *)
LEMMA FramesArrive ==
  ASSUME NEW via \in { "route", "library" }, NEW start \in Inputs, NEW frames \in Inputs,
         Given(start, 0) <= MaxInt, Given(frames, 0) <= MaxInt
  PROVE  /\ via = "library" => NativeFrames(via, start, frames) = Given(frames, MaxInt)
         /\ via = "route"   => NativeFrames(via, start, frames) = RouteFrames(start, frames)
         /\ Given(frames, MaxInt) \in 0 .. MaxInt
         /\ RouteFrames(start, frames) \in 0 .. MaxInt
         /\ RouteFrames(start, frames) + Given(start, 0) <= MaxInt
<1>1. MaxInt \in Nat
  BY TimelineAssumption
<1>2. Given(start, 0) \in 0 .. MaxInt
  BY StartArrives
<1>3. Given(frames, MaxInt) \in 0 .. MaxInt
  BY <1>1, TimelineAssumption DEF Inputs, Given
<1>4. /\ RouteFrames(start, frames) \in 0 .. MaxInt
      /\ RouteFrames(start, frames) + Given(start, 0) <= MaxInt
  BY <1>1, <1>2, <1>3 DEF RouteFrames
<1>5. \A n \in 0 .. MaxInt : ToInt32(n) = n
  BY <1>1, ToInt32Type DEF Int32
<1> QED BY <1>3, <1>4, <1>5 DEF NativeFrames

LEMMA ComputedFits == TypeOK /\ Computed => RangesFit
<1> SUFFICES ASSUME TypeOK, Computed, NEW r \in Requests, Calls(r), InRange(r)
             PROVE  /\ 0 <= wipe[r].from /\ 0 <= wipe[r].count
                    /\ wipe[r].via = "route" => wipe[r].from + wipe[r].count <= MaxInt
  BY DEF RangesFit
<1> DEFINE w == wipe[r]
           f == NativeFrames(w.via, w.start, w.frames)
<1>1. MaxInt \in Nat /\ w \in WipeType
  BY TimelineAssumption DEF TypeOK
<1>2. w.from = NativeStart(w.start) /\ w.count = Rest(w.from, f, w.offset)
  BY DEF Computed, Calls
<1>3. w.from = Given(w.start, 0) /\ w.from \in 0 .. MaxInt
  BY <1>1, <1>2, StartArrives DEF InRange, Start, WipeType
<1>4. f \in 0 .. MaxInt /\ (w.via = "route" => f + w.from <= MaxInt)
  BY <1>1, <1>3, FramesArrive DEF InRange, Start, WipeType
<1>5. w.from \in Int32 /\ f \in Int32 /\ w.offset \in 0 .. MaxInt
  BY <1>1, <1>3, <1>4 DEF Int32, WipeType
<1>6. /\ w.count \in Int32 /\ 0 <= w.count
      /\ f = MaxInt => w.count = IF w.offset < w.from THEN 0 ELSE w.offset - w.from
      /\ f # MaxInt => w.count = f
  BY <1>1, <1>2, <1>3, <1>4, <1>5, RestType DEF Rest
<1> QED BY <1>1, <1>3, <1>4, <1>5, <1>6 DEF Int32

(* For any width of integers, no number of a wipe that is sent to the      *)
(* server is negative, and no range of the route overflows.                *)
THEOREM WipeRangesFit == Spec => []RangesFit
<1>1. Init => TypeOK /\ Computed
  BY InitTypeOK, InitComputed
<1>2. TypeOK /\ Computed /\ [Next]_vars => (TypeOK /\ Computed)'
  BY NextTypeOK, NextComputed
<1>3. TypeOK /\ Computed => RangesFit
  BY ComputedFits
<1> QED BY <1>1, <1>2, <1>3, PTL DEF Spec
-----------------------------------------------------------------------------
(* The range of a wipe holds the frames that were asked for. *)
LEMMA RangeIsAskedFor ==
  ASSUME TypeOK, Computed, NEW r \in Requests, Calls(r), Start(r) <= MaxInt,
         \/ ToThePlayPosition(r)
         \/ wipe[r].frames # Omitted /\ wipe[r].frames < MaxInt
  PROVE  Range(wipe[r].from, wipe[r].count) = AskedFor(r)
<1> DEFINE w == wipe[r]
           f == NativeFrames(w.via, w.start, w.frames)
<1>1. MaxInt \in Nat /\ MaxInt > 0 /\ w \in WipeType
  BY TimelineAssumption DEF TypeOK
<1>2. w.from = NativeStart(w.start) /\ w.count = Rest(w.from, f, w.offset)
  BY DEF Computed, Calls
<1>3. w.from = Start(r) /\ w.from \in 0 .. MaxInt
  BY <1>1, <1>2, StartArrives DEF Start, WipeType
<1>4. Given(w.frames, 0) <= MaxInt
  BY <1>1, TimelineAssumption DEF Given, ToThePlayPosition, WipeType, Inputs
<1>5. /\ w.via = "library" => f = Given(w.frames, MaxInt)
      /\ w.via = "route"   => f = RouteFrames(w.start, w.frames)
      /\ w.via \in { "library", "route" }
  BY <1>1, <1>3, <1>4, FramesArrive DEF Start, WipeType
<1>6. CASE ToThePlayPosition(r)
  <2>1. f = MaxInt
    BY <1>1, <1>3, <1>5, <1>6 DEF ToThePlayPosition, Given, RouteFrames, Start
  <2>2. w.from \in Int32 /\ f \in Int32 /\ w.offset \in 0 .. MaxInt
    BY <1>1, <1>3, <2>1 DEF Int32, WipeType
  <2>3. w.count = IF w.offset < w.from THEN 0 ELSE w.offset - w.from
    <3>1. w.count = Rest(w.from, MaxInt, w.offset)
      BY <1>2, <2>1
    <3>2. MaxInt \in Int32 /\ 0 <= w.from
      BY <1>3, <2>1, <2>2
    <3> QED BY <2>2, <3>1, <3>2, RestType
  <2>4. AskedFor(r) = { x \in Frames : w.from <= x /\ x < w.offset }
    BY <1>3, <1>6 DEF AskedFor, ToThePlayPosition
  <2>5. \A x \in Frames : (w.from <= x /\ x < w.from + w.count) <=> (w.from <= x /\ x < w.offset)
    BY <1>1, <1>3, <2>2, <2>3 DEF Frames
  <2> QED BY <2>4, <2>5 DEF Range
<1>7. CASE w.frames # Omitted /\ w.frames < MaxInt
  <2>1. w.frames \in Nat /\ Given(w.frames, MaxInt) = w.frames
    BY <1>1, <1>7 DEF WipeType, Inputs, Given
  <2>2. \/ f = w.frames
        \/ f = MaxInt - w.from /\ w.from # 0 /\ w.frames + w.from > MaxInt
    BY <1>3, <1>5, <2>1 DEF RouteFrames, Start
  <2>3. w.count = f
    BY <1>1, <1>2, <1>3, <1>7, <2>1, <2>2 DEF Rest
  <2>4. \A x \in Frames : x < w.from + w.count <=> x < w.from + w.frames
    BY <1>1, <1>3, <2>1, <2>2, <2>3 DEF Frames
  <2>5. AskedFor(r) = { x \in Frames : w.from <= x /\ x < w.from + w.frames }
    BY <1>3, <1>7 DEF AskedFor
  <2> QED BY <2>4, <2>5 DEF Range
<1> QED BY <1>6, <1>7

(* The step that ends a wipe is the wipe itself. *)
LEMMA EndIsWipe ==
  ASSUME TypeOK, [Next]_vars, NEW r \in Requests, Calls(r), wipe'[r].pc = "idle"
  PROVE  /\ wipe'[r].wiped => timeline' = timeline \ Range(wipe[r].from, wipe[r].count)
         /\ ~wipe'[r].wiped => timeline' = timeline
<1>1. wipe \in [Requests -> WipeType]
  BY DEF TypeOK
<1>2. ASSUME NEW q \in Requests, Wipes(q)
      PROVE  /\ wipe'[r].wiped => timeline' = timeline \ Range(wipe[r].from, wipe[r].count)
             /\ ~wipe'[r].wiped => timeline' = timeline
  <2> DEFINE range == Range(wipe[q].from, wipe[q].count)
  <2>1. PICK fits \in BOOLEAN :
          /\ fits => timeline' = timeline \ range
          /\ ~fits => timeline' = timeline
          /\ wipe' = [wipe EXCEPT ![q] = [NoWipe EXCEPT !.wiped = fits]]
    BY <1>2, Zenon DEF Wipes
  <2>2. q = r
    BY <1>1, <2>1 DEF Calls
  <2>3. wipe'[r] = [NoWipe EXCEPT !.wiped = fits]
    BY <1>1, <2>1, <2>2
  <2>4. wipe'[r].wiped = fits
    BY <2>3, Zenon DEF NoWipe
  <2> QED BY <2>1, <2>2, <2>4, Zenon
<1>3. ASSUME NEW q \in Requests, NEW new, wipe' = [wipe EXCEPT ![q] = new], new.pc # "idle"
      PROVE  FALSE
  BY <1>1, <1>3 DEF Calls
<1>4. ASSUME NEW q \in Requests, NEW via \in { "route", "library" },
             NEW start \in Inputs, NEW frames \in Inputs, AsksWipe(q, via, start, frames)
      PROVE  FALSE
  <2> DEFINE new == [pc |-> "called", via |-> via, start |-> start, frames |-> frames,
                     from |-> NativeStart(start), count |-> NativeFrames(via, start, frames),
                     offset |-> 0, wiped |-> FALSE]
  <2>1. wipe' = [wipe EXCEPT ![q] = new] /\ new.pc # "idle"
    BY <1>4 DEF AsksWipe
  <2> HIDE DEF new
  <2> QED BY <1>3, <2>1
<1>5. ASSUME NEW q \in Requests, ReadsStatus(q)
      PROVE  FALSE
  <2>1. [wipe[q] EXCEPT !.pc = "ranged", !.offset = head,
           !.count = Rest(wipe[q].from, wipe[q].count, head)].pc = "ranged"
    BY <1>1 DEF WipeType
  <2> QED BY <1>3, <1>5, <2>1 DEF ReadsStatus
<1>6. ASSUME UNCHANGED wipe
      PROVE  FALSE
  BY <1>6 DEF Calls
<1> QED BY <1>2, <1>4, <1>5, <1>6 DEF Next, Load, Jump, SetJump, Trigger, Plays, vars

(* For any width of integers, and whatever is loaded, played and jumped    *)
(* meanwhile, a wipe clears exactly the frames it was asked to, or none.   *)
THEOREM WipesAsAsked == Spec => WipeAsAsked
<1>1. ASSUME TypeOK, Computed, [Next]_vars
      PROVE  [\A r \in Requests :
                /\ Calls(r) /\ wipe'[r].pc = "idle"
                /\ Start(r) <= MaxInt
                /\ \/ ToThePlayPosition(r)
                   \/ wipe[r].frames # Omitted /\ wipe[r].frames < MaxInt
                => timeline' = IF wipe'[r].wiped THEN timeline \ AskedFor(r) ELSE timeline]_vars
  <2> SUFFICES ASSUME NEW r \in Requests, Calls(r), wipe'[r].pc = "idle", Start(r) <= MaxInt,
                      \/ ToThePlayPosition(r)
                      \/ wipe[r].frames # Omitted /\ wipe[r].frames < MaxInt
               PROVE  timeline' = IF wipe'[r].wiped THEN timeline \ AskedFor(r) ELSE timeline
    OBVIOUS
  <2>1. Range(wipe[r].from, wipe[r].count) = AskedFor(r)
    BY <1>1, RangeIsAskedFor
  <2> QED BY <1>1, <2>1, EndIsWipe
<1>2. Init => TypeOK /\ Computed
  BY InitTypeOK, InitComputed
<1>3. TypeOK /\ Computed /\ [Next]_vars => (TypeOK /\ Computed)'
  BY NextTypeOK, NextComputed
<1> QED BY <1>1, <1>2, <1>3, PTL DEF Spec, WipeAsAsked
-----------------------------------------------------------------------------

(* The tens of hours are at most 2, so that the mark of drop frame, put in *)
(* the bit of 4 above them, can be told from them again.                   *)
LEMMA TensOfHours ==
  /\ \A n \in 0 .. 2 : ~BitSet(n, 4) /\ SetBit(n, 4) = n + 4
  /\ \A n \in 0 .. 2 : n % 4 = n /\ (n + 4) % 4 = n /\ BitSet(n + 4, 4)
<1>1. \A n \in 0 .. 2 : n \div 4 = 0 /\ (n + 4) \div 4 = 1
  OBVIOUS
<1>2. 0 % 2 = 0 /\ 1 % 2 = 1
  OBVIOUS
<1>3. \A n \in 0 .. 2 : n % 4 = n /\ (n + 4) % 4 = n
  OBVIOUS
<1> QED BY <1>1, <1>2, <1>3 DEF BitSet, SetBit

(* A digit of the other places fits its mask. *)
LEMMA DigitsFit ==
  ASSUME NEW digits, IsTime(digits), NEW i \in Digits, i # 1
  PROVE  digits[i] % Mask(i) = digits[i]
<1>1. digits[i] \in 0 .. 9 /\ (i \in { 3, 5, 7 } => digits[i] \in 0 .. 7)
  BY DEF IsTime, Digits
<1>2. \A n \in 0 .. 7 : n % 8 = n
  OBVIOUS
<1>3. \A n \in 0 .. 9 : n % 16 = n
  OBVIOUS
<1>4. Mask(i) = IF i \in { 3, 5, 7 } THEN 8 ELSE 16
  BY DEF Mask, Digits
<1> QED BY <1>1, <1>2, <1>3, <1>4

(* Every time of day, with or without the mark of drop frame, comes back   *)
(* from its BCD timecode as it went in (qgw_util.cc:197-235).              *)
THEOREM TimecodeRoundTrip ==
  ASSUME NEW digits, IsTime(digits), NEW drop \in BOOLEAN
  PROVE  formatTimecode(timecodeFromString(digits, drop)) = [digits |-> digits, drop |-> drop]
<1> DEFINE code == timecodeFromString(digits, drop)
<1>1. digits \in [Digits -> 0 .. 9] /\ digits[1] \in 0 .. 2 /\ 1 \in Digits
  BY DEF IsTime, Digits
<1>2. code[1] = IF drop THEN digits[1] + 4 ELSE digits[1]
  BY <1>1, TensOfHours DEF timecodeFromString
<1>3. \A i \in Digits : i # 1 => code[i] = digits[i]
  BY DEF timecodeFromString
<1>4. BitSet(code[1], 4) = drop
  <2>1. drop => BitSet(code[1], 4)
    BY <1>1, <1>2, TensOfHours
  <2>2. ~drop => ~BitSet(code[1], 4)
    BY <1>1, <1>2, TensOfHours
  <2>3. BitSet(code[1], 4) \in BOOLEAN
    BY Zenon DEF BitSet
  <2> QED BY <2>1, <2>2, <2>3, Zenon
<1>5. code[1] % Mask(1) = digits[1]
  <2>1. Mask(1) = 4
    BY DEF Mask
  <2> QED BY <1>1, <1>2, <2>1, TensOfHours
<1>6. ASSUME NEW i \in Digits
      PROVE  code[i] % Mask(i) = digits[i]
  <2>1. CASE i = 1
    BY <1>5, <2>1
  <2>2. CASE i # 1
    BY <1>3, <2>2, DigitsFit
  <2> QED BY <2>1, <2>2
<1> HIDE DEF code
<1>7. [i \in Digits |-> code[i] % Mask(i)] = digits
  BY <1>1, <1>6
<1> QED BY <1>4, <1>7 DEF formatTimecode, code
-----------------------------------------------------------------------------
(* Every type of fragment but SpeedFragment is sent to the server as the   *)
(* kind that a query returns under the same type; a SpeedFragment is not   *)
(* sent at all (port.cc:1003-1275).                                        *)
THEOREM TypesKept ==
  ASSUME NEW type \in Types
  PROVE  /\ LoadedAs(type) = "none" <=> type = "SpeedFragment"
         /\ type # "SpeedFragment" => QueriedAs[LoadedAs(type)] = type
<1>1. type \in { "VideoFragment", "AudioFragment", "AUXFragment", "AspectFragment",
                 "FlagsFragment", "TimecodeFragment", "CropFragment", "CCFragment",
                 "PanZoomFragment", "SpeedFragment", "MultiCamFragment", "NoteFragment",
                 "EffectFragment" }
  BY DEF Types, Letters
<1> QED BY <1>1 DEF LoadedAs, QueriedAs, Letters

(* The fragments a client may load: a timecode has digits and a mark.      *)
IsFragment(f) ==
  /\ f.type \in Types
  /\ \E digits, drop : f = [type |-> f.type, digits |-> digits, drop |-> drop]
  /\ IF f.type = "TimecodeFragment"
     THEN IsTime(f.digits) /\ f.drop \in BOOLEAN
     ELSE f.digits = << >> /\ f.drop = FALSE

(* A fragment that is sent to the server comes back as it was. *)
THEOREM FragmentRoundTrip ==
  ASSUME NEW f, IsFragment(f), Known(f)
  PROVE  Returned(Converted(f)) = f
<1>0. PICK digits, drop : f = [type |-> f.type, digits |-> digits, drop |-> drop]
  BY DEF IsFragment
<1>1. f.type # "SpeedFragment" /\ QueriedAs[LoadedAs(f.type)] = f.type
  BY TypesKept DEF Known, IsFragment
<1>2. LoadedAs(f.type) = "timecode" <=> f.type = "TimecodeFragment"
  <2>1. QueriedAs["timecode"] = "TimecodeFragment"
    BY DEF QueriedAs
  <2>2. Letters["TimecodeFragment"][1] = "T"
    BY DEF Letters
  <2>3. LoadedAs("TimecodeFragment") = "timecode"
    BY <2>2 DEF LoadedAs
  <2> QED BY <1>1, <2>1, <2>3
<1>3. CASE f.type = "TimecodeFragment"
  <2>1. IsTime(digits) /\ drop \in BOOLEAN
    BY <1>0, <1>3 DEF IsFragment
  <2>2. f.digits = digits /\ f.drop = drop
    BY <1>0
  <2>3. formatTimecode(timecodeFromString(f.digits, f.drop)) = [digits |-> digits, drop |-> drop]
    BY <2>1, <2>2, TimecodeRoundTrip
  <2> DEFINE time == formatTimecode(timecodeFromString(f.digits, f.drop))
  <2>4. time.digits = digits /\ time.drop = drop
    BY <2>3
  <2>5. Returned(Converted(f)) = [type |-> f.type, digits |-> time.digits, drop |-> time.drop]
    BY <1>1, <1>2, <1>3 DEF Converted, Returned
  <2> QED BY <1>0, <2>4, <2>5
<1>4. CASE f.type # "TimecodeFragment"
  BY <1>0, <1>1, <1>2, <1>4 DEF Converted, Returned, IsFragment
<1> QED BY <1>3, <1>4
-----------------------------------------------------------------------------
(* Induction: a set of natural numbers that holds 0, and the successor of  *)
(* each of its members, holds all of them.                                 *)
LEMMA LessIsWellFounded == IsWellFoundedOn({ss \in Nat \X Nat : ss[1] < ss[2]}, Nat)
  BY NatLessThanWellFounded DEF OpToRel

LEMMA AllNumbers ==
  ASSUME NEW T \in SUBSET Nat, 0 \in T, \A n \in T : n + 1 \in T
  PROVE  \A n \in Nat : n \in T
<1>. DEFINE R == {ss \in Nat \X Nat : ss[1] < ss[2]}
            F == Nat \ T
<1>1. IsWellFoundedOn(R, Nat)
  BY LessIsWellFounded
<1>2. SUFFICES ASSUME F # {}  PROVE FALSE
  OBVIOUS
<1>3. F \in SUBSET Nat
  OBVIOUS
<1>4. PICK m \in F : \A n \in F : ~(<< n, m >> \in R)
  <2>. HIDE DEF R, F
  <2>. QED
    BY <1>1, <1>2, <1>3, WFMin
<1>5. m \in Nat /\ m # 0 /\ m - 1 \in Nat /\ m - 1 < m
  BY <1>4
<1>6. m - 1 \in T
  BY <1>4, <1>5
<1>7. (m - 1) + 1 \in T
  BY <1>6
<1>. QED
  BY <1>4, <1>5, <1>7

(* The loop of loadPlayPort as a function of the number of rounds.         *)
IsLoop(f, list, last) ==
  f = [n \in 0 .. last |->
         IF n = 0 THEN << >>
         ELSE IF Known(list[n]) THEN Append(f[n - 1], Converted(list[n]))
         ELSE f[n - 1]]

LEMMA LoopExists ==
  ASSUME NEW list, NEW last \in Nat
  PROVE  \E f : IsLoop(f, list, last)
<1>. DEFINE T == {m \in Nat : \E f : IsLoop(f, list, m)}
<1>1. 0 \in T
  <2>. DEFINE f == [n \in 0 .. 0 |-> << >>]
  <2>1. IsLoop(f, list, 0)
    BY DEF IsLoop
  <2>. QED
    BY <2>1
<1>2. ASSUME NEW m \in T  PROVE m + 1 \in T
  <2>1. PICK f : IsLoop(f, list, m)
    OBVIOUS
  <2>. DEFINE Round(x) == IF Known(list[m + 1]) THEN Append(x, Converted(list[m + 1])) ELSE x
              g == [n \in 0 .. m + 1 |-> IF n = m + 1 THEN Round(f[m]) ELSE f[n]]
  <2>2. \A n \in 0 .. m + 1 : n # 0 => n - 1 \in 0 .. m /\ n - 1 # m + 1 /\ n - 1 \in 0 .. m + 1
    OBVIOUS
  <2>3. \A n \in 0 .. m + 1 : n # 0 => g[n - 1] = f[n - 1]
    BY <2>2
  <2>4. \A n \in 0 .. m :
          f[n] = IF n = 0 THEN << >>
                 ELSE IF Known(list[n]) THEN Append(f[n - 1], Converted(list[n]))
                 ELSE f[n - 1]
    BY <2>1, Zenon DEF IsLoop
  <2>5. ASSUME NEW n \in 0 .. m + 1
        PROVE  g[n] = IF n = 0 THEN << >>
                      ELSE IF Known(list[n]) THEN Append(g[n - 1], Converted(list[n]))
                      ELSE g[n - 1]
    <3>1. CASE n = m + 1
      <4>1. n # 0 /\ n - 1 = m
        BY <3>1
      <4>2. g[n] = Round(f[m]) /\ g[n - 1] = f[m]
        BY <2>3, <3>1, <4>1
      <4>. QED
        BY <3>1, <4>1, <4>2
    <3>2. CASE n # m + 1
      <4>1. n \in 0 .. m /\ g[n] = f[n] /\ (n # 0 => g[n - 1] = f[n - 1])
        BY <2>3, <3>2
      <4>. QED
        BY <2>4, <4>1
    <3>. QED
      BY <3>1, <3>2
  <2>6. IsLoop(g, list, m + 1)
    <3>1. DOMAIN g = 0 .. m + 1 /\ g = [n \in 0 .. m + 1 |-> g[n]]
      OBVIOUS
    <3>. HIDE DEF g
    <3>. QED
      BY <2>5, <3>1 DEF IsLoop
  <2>. QED
    BY <2>6
<1>3. T \in SUBSET Nat
  OBVIOUS
<1>. HIDE DEF T
<1>4. last \in T
  BY <1>1, <1>2, <1>3, AllNumbers
<1>. QED
  BY <1>4 DEF T

LEMMA ConvertedAllIsLoop ==
  ASSUME NEW list, Len(list) \in Nat
  PROVE  \E f : IsLoop(f, list, Len(list)) /\ ConvertedAll(list) = f[Len(list)]
<1>. DEFINE f == CHOOSE g : IsLoop(g, list, Len(list))
<1>1. IsLoop(f, list, Len(list))
  BY LoopExists
<1>2. ConvertedAll(list) = f[Len(list)]
  BY DEF ConvertedAll, IsLoop
<1>. QED
  BY <1>1, <1>2

(* The fragments of h are those of the first n of a list that are of a     *)
(* known kind, in their order; from tells where each was.                  *)
KnownUpTo(list, n) == {k \in 1 .. n : Known(list[k])}

ComesFrom(h, list, n, from) ==
  /\ from \in [1 .. Len(h) -> KnownUpTo(list, n)]
  /\ \A i \in 1 .. Len(h) : h[i] = Converted(list[from[i]])
  /\ \A i, j \in 1 .. Len(h) : i < j => from[i] < from[j]
  /\ \A k \in KnownUpTo(list, n) : \E i \in 1 .. Len(h) : from[i] = k

Object == {Converted(f) : f \in Fragment}

(* One round keeps that so. *)
LEMMA RoundKeepsOrder ==
  ASSUME NEW list \in Seq(Fragment), NEW n \in Nat, n + 1 <= Len(list),
         NEW h \in Seq(Object), NEW from, ComesFrom(h, list, n, from), NEW g,
         g = IF Known(list[n + 1]) THEN Append(h, Converted(list[n + 1])) ELSE h
  PROVE  g \in Seq(Object) /\ \E to : ComesFrom(g, list, n + 1, to)
<1>0. /\ list[n + 1] \in Fragment /\ Len(h) \in Nat
      /\ \A k \in 1 .. n + 1 : k \in 1 .. n \/ k = n + 1
      /\ \A k \in 1 .. n : k \in 1 .. n + 1 /\ k < n + 1
      /\ n + 1 \in 1 .. n + 1
  OBVIOUS
<1>1. CASE ~Known(list[n + 1])
  <2>1. g = h
    BY <1>1
  <2>2. KnownUpTo(list, n + 1) = KnownUpTo(list, n)
    BY <1>0, <1>1 DEF KnownUpTo
  <2>. QED
    BY <2>1, <2>2 DEF ComesFrom
<1>2. CASE Known(list[n + 1])
  <2>. DEFINE l == Len(h)
              to == [i \in 1 .. l + 1 |-> IF i = l + 1 THEN n + 1 ELSE from[i]]
  <2>1. Converted(list[n + 1]) \in Object
    BY <1>0 DEF Object
  <2>2. /\ g \in Seq(Object) /\ Len(g) = l + 1
        /\ g[l + 1] = Converted(list[n + 1])
        /\ \A i \in 1 .. l : g[i] = h[i]
    BY <1>2, <2>1
  <2>3. KnownUpTo(list, n + 1) = KnownUpTo(list, n) \cup {n + 1}
    BY <1>0, <1>2 DEF KnownUpTo
  <2>4. /\ \A i \in 1 .. l + 1 : i \in 1 .. l \/ i = l + 1
        /\ \A i \in 1 .. l : i \in 1 .. l + 1 /\ i # l + 1 /\ i < l + 1
        /\ l + 1 \in 1 .. l + 1
    BY <1>0
  <2>5. /\ to[l + 1] = n + 1
        /\ \A i \in 1 .. l : to[i] = from[i] /\ from[i] \in KnownUpTo(list, n)
    BY <2>4 DEF ComesFrom
  <2>6. \A k \in KnownUpTo(list, n) : k < n + 1
    BY <1>0 DEF KnownUpTo
  <2>7. to \in [1 .. l + 1 -> KnownUpTo(list, n + 1)]
    BY <2>3, <2>4, <2>5
  <2>. HIDE DEF to, l
  <2>8. \A i \in 1 .. l + 1 : g[i] = Converted(list[to[i]])
    BY <2>2, <2>4, <2>5 DEF ComesFrom, l
  <2>9. \A i, j \in 1 .. l + 1 : i < j => to[i] < to[j]
    <3>1. ASSUME NEW i \in 1 .. l + 1, NEW j \in 1 .. l + 1, i < j
          PROVE  to[i] < to[j]
      <4>1. l \in Nat
        BY <1>0 DEF l
      <4>2. i \in 1 .. l
        BY <3>1, <4>1
      <4>3. CASE j = l + 1
        BY <2>5, <2>6, <4>2, <4>3
      <4>4. CASE j \in 1 .. l
        BY <2>5, <3>1, <4>2, <4>4 DEF ComesFrom, l
      <4>. QED
        BY <2>4, <4>3, <4>4
    <3>. QED
      BY <3>1
  <2>10. \A k \in KnownUpTo(list, n + 1) : \E i \in 1 .. l + 1 : to[i] = k
    BY <2>3, <2>4, <2>5 DEF ComesFrom, l
  <2>11. ComesFrom(g, list, n + 1, to)
    BY <2>2, <2>7, <2>8, <2>9, <2>10 DEF ComesFrom
  <2>. QED
    BY <2>2, <2>11
<1>. QED
  BY <1>1, <1>2

LEMMA LoopKeepsOrder ==
  ASSUME NEW list \in Seq(Fragment)
  PROVE  /\ ConvertedAll(list) \in Seq(Object)
         /\ \E from : ComesFrom(ConvertedAll(list), list, Len(list), from)
<1>. DEFINE last == Len(list)
<1>0. last \in Nat
  OBVIOUS
<1>1. PICK f : IsLoop(f, list, last) /\ ConvertedAll(list) = f[last]
  BY ConvertedAllIsLoop
<1>2. \A n \in 0 .. last :
        f[n] = IF n = 0 THEN << >>
               ELSE IF Known(list[n]) THEN Append(f[n - 1], Converted(list[n]))
               ELSE f[n - 1]
  BY <1>1, Zenon DEF IsLoop
<1>. DEFINE Good(n) == f[n] \in Seq(Object) /\ \E from : ComesFrom(f[n], list, n, from)
            T == {n \in Nat : n <= last => Good(n)}
<1>3. 0 \in T
  <2>1. f[0] = << >>
    BY <1>0, <1>2
  <2>2. KnownUpTo(list, 0) = {}
    BY DEF KnownUpTo
  <2>. DEFINE from == [i \in 1 .. 0 |-> 0]
  <2>3. Len(<< >>) = 0 /\ << >> \in Seq(Object) /\ 1 .. 0 = {}
    OBVIOUS
  <2>4. from \in [1 .. 0 -> KnownUpTo(list, 0)]
    BY <2>3
  <2>5. ComesFrom(<< >>, list, 0, from)
    BY <2>2, <2>3, <2>4 DEF ComesFrom
  <2>. QED
    BY <2>1, <2>3, <2>5
<1>4. ASSUME NEW n \in T  PROVE n + 1 \in T
  <2>1. SUFFICES ASSUME n + 1 <= last  PROVE Good(n + 1)
    OBVIOUS
  <2>2. n \in Nat /\ n <= last /\ n + 1 \in 0 .. last /\ n + 1 # 0 /\ (n + 1) - 1 = n
    BY <1>0, <2>1
  <2>3. f[n] \in Seq(Object) /\ \E from : ComesFrom(f[n], list, n, from)
    BY <2>2
  <2>4. f[n + 1] = IF Known(list[n + 1]) THEN Append(f[n], Converted(list[n + 1])) ELSE f[n]
    BY <1>2, <2>2
  <2>. QED
    BY <2>1, <2>2, <2>3, <2>4, RoundKeepsOrder
<1>5. T \in SUBSET Nat
  OBVIOUS
<1>6. last \in T
  <2>. HIDE DEF T
  <2>. QED
    BY <1>0, <1>3, <1>4, <1>5, AllNumbers
<1>. QED
  BY <1>0, <1>1, <1>6
-----------------------------------------------------------------------------
(* What the port holds is what the loop made of the list last loaded.      *)
Loaded == sent \in Seq(Fragment) /\ held = ConvertedAll(sent)

LEMMA LoadedInit == FragmentsInit => Loaded
<1> SUFFICES ASSUME FragmentsInit  PROVE Loaded
  OBVIOUS
<1>1. << >> \in Seq(Fragment) /\ Len(<< >>) = 0
  OBVIOUS
<1>2. PICK f : IsLoop(f, << >>, 0) /\ ConvertedAll(<< >>) = f[0]
  BY <1>1, ConvertedAllIsLoop
<1>3. f[0] = << >>
  BY <1>2 DEF IsLoop
<1>. QED
  BY <1>1, <1>2, <1>3 DEF FragmentsInit, Loaded

LEMMA LoadedStep == Loaded /\ [FragmentsNext]_fragmentVars => Loaded'
<1>. SUFFICES ASSUME Loaded, [FragmentsNext]_fragmentVars  PROVE Loaded'
  OBVIOUS
<1>1. CASE UNCHANGED fragmentVars
  BY <1>1 DEF Loaded, fragmentVars, ConvertedAll
<1>2. ASSUME NEW list \in Loads, LoadFragments(list)
      PROVE  Loaded'
  <2>1. list \in Seq(Fragment)
    BY FragmentsAssumption
  <2>. QED
    BY <1>2, <2>1 DEF LoadFragments, Loaded, ConvertedAll
<1>. QED
  BY <1>1, <1>2 DEF FragmentsNext

LEMMA LoadedIsKept == Loaded => FragmentsKept
<1>. SUFFICES ASSUME Loaded,
                     \A k \in 1 .. Len(sent) :
                       sent[k].type = "TimecodeFragment" => IsTime(sent[k].digits)
              PROVE  \E from \in [1 .. Len(Queried) -> SentKnown] :
                       /\ \A i \in 1 .. Len(Queried) : Queried[i] = sent[from[i]]
                       /\ \A i, j \in 1 .. Len(Queried) : i < j => from[i] < from[j]
                       /\ \A k \in SentKnown : \E i \in 1 .. Len(Queried) : from[i] = k
  BY DEF FragmentsKept
<1>1. held \in Seq(Object)
  BY LoopKeepsOrder DEF Loaded
<1>2. PICK from : ComesFrom(held, sent, Len(sent), from)
  BY LoopKeepsOrder DEF Loaded
<1>3. \A k \in 1 .. Len(sent) : sent[k] \in Fragment
  BY DEF Loaded
<1>4. SentKnown = KnownUpTo(sent, Len(sent))
  <2>1. ASSUME NEW f \in Fragment
        PROVE  Known(f) <=> f.type # "SpeedFragment"
    <3>1. f.type \in Types
      BY DEF Fragment, Types, Letters
    <3>. QED
      BY <3>1, TypesKept DEF Known
  <2>. QED
    BY <1>3, <2>1 DEF SentKnown, KnownUpTo
<1>5. Len(Queried) = Len(held) /\ Len(held) \in Nat
  BY <1>1 DEF Queried
<1>6. ASSUME NEW i \in 1 .. Len(held)
      PROVE  Queried[i] = sent[from[i]]
  <2>1. from[i] \in 1 .. Len(sent) /\ Known(sent[from[i]]) /\ held[i] = Converted(sent[from[i]])
    BY <1>2 DEF ComesFrom, KnownUpTo
  <2>2. PICK f \in Fragment : f = sent[from[i]]
    BY <1>3, <2>1
  <2>3. IsFragment(f)
    <3>1. f.type = "TimecodeFragment" => IsTime(f.digits)
      BY <2>1, <2>2
    <3>. QED
      BY <3>1 DEF Fragment, IsFragment, Types, Letters
  <2>4. Returned(Converted(f)) = f
    BY <2>1, <2>2, <2>3, FragmentRoundTrip
  <2>5. Queried[i] = Returned(held[i])
    BY DEF Queried
  <2>. QED
    BY <2>1, <2>2, <2>4, <2>5
<1>7. from \in [1 .. Len(Queried) -> SentKnown]
  BY <1>2, <1>4, <1>5 DEF ComesFrom
<1>. QED
  BY <1>2, <1>4, <1>5, <1>6, <1>7 DEF ComesFrom

(* However many fragments are loaded and of whatever types: a query gives  *)
(* them back in their order, none lost or twice, and as they went in, but  *)
(* for SpeedFragments (loadPlayPort, port.cc:1003-1275).                   *)
THEOREM ListsKept == FragmentsSpec => []FragmentsKept
  BY LoadedInit, LoadedStep, LoadedIsKept, PTL DEF FragmentsSpec
=============================================================================
