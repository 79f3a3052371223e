------------------------------ MODULE Fragments ------------------------------
(***************************************************************************)
(* The way of a fragment to the server and back: loadPlayPort reads it     *)
(* from JSON (port.cc:1003-1275), getPortFragments gives it back           *)
(* (fragmentsToJS, qgw_util.cc:301-652), both over the BCD timecodes of    *)
(* qgw_util.cc:197-235.  What overlaps what on the server is the matter of *)
(* Timeline: here a load replaces what the port holds.                     *)
(***************************************************************************)
EXTENDS Naturals, Sequences

CONSTANT Loads      (* the lists of fragments that clients load            *)

VARIABLES
  held,             (* the fragments that the server has for the port      *)
  sent              (* history: the list they come from                    *)

fragmentVars == << held, sent >>
-----------------------------------------------------------------------------

(* A BCD timecode is a word of eight nibbles, tens of hours on top.        *)
(* "HH:MM:SS:FF" is its eight digits, with ";" before the frames for drop  *)
(* frame.                                                                  *)
Digits == 1 .. 8

BitSet(nibble, value) == (nibble \div value) % 2 = 1
SetBit(nibble, value) == IF BitSet(nibble, value) THEN nibble ELSE nibble + value

(* Mutant: the mark of drop frame is put one bit lower. *)
timecodeFromStringLowBit(digits, drop) ==
  [i \in Digits |-> IF i = 1 /\ drop THEN SetBit(digits[i], 2) ELSE digits[i]]
timecodeFromString(digits, drop) ==
  [i \in Digits |-> IF i = 1 /\ drop THEN SetBit(digits[i], 4) ELSE digits[i]]

(* The masks of formatTimecode: two bits for the tens of hours, three for  *)
(* the other tens.                                                         *)
Mask(i) == CASE i = 1 -> 4 [] i \in { 3, 5, 7 } -> 8 [] OTHER -> 16

formatTimecode(code) ==
  [digits |-> [i \in Digits |-> code[i] % Mask(i)], drop |-> BitSet(code[1], 4)]

(* The digits that a time can have, at up to 79 frames a second.           *)
IsTime(digits) ==
  /\ digits \in [Digits -> 0 .. 9]
  /\ digits[1] <= 2
  /\ digits[3] <= 5 /\ digits[5] <= 5 /\ digits[7] <= 7

-----------------------------------------------------------------------------
(* The types of fragments of index.ts:162-175, with the first two letters  *)
(* loadPlayPort goes by.                                                   *)
Letters ==
  [VideoFragment    |-> << "V", "i" >>, AudioFragment    |-> << "A", "u" >>,
   AUXFragment      |-> << "A", "U" >>, AspectFragment   |-> << "A", "s" >>,
   FlagsFragment    |-> << "F", "l" >>, TimecodeFragment |-> << "T", "i" >>,
   CropFragment     |-> << "C", "r" >>, CCFragment       |-> << "C", "C" >>,
   PanZoomFragment  |-> << "P", "a" >>, SpeedFragment    |-> << "S", "p" >>,
   MultiCamFragment |-> << "M", "u" >>, NoteFragment     |-> << "N", "o" >>,
   EffectFragment   |-> << "E", "f" >>]
Types == DOMAIN Letters

(* The kind of fragment that is sent to the server, or "none": under 'S'   *)
(* the first letter is compared with 'p', which it never is.               *)
LoadedAs(type) ==
  LET a == Letters[type][1]
      b == Letters[type][2]
  IN  CASE a = "V" -> "video"
        [] a = "A" -> CASE b = "s" -> "aspect" [] b = "u" -> "audio" [] OTHER -> "aux"
        [] a = "T" -> "timecode"
        [] a = "C" -> IF b = "r" THEN "crop" ELSE "cc"
        [] a = "S" -> IF a = "p" THEN "speed" ELSE "none"
        [] a = "E" -> "effect" [] a = "N" -> "note"  [] a = "P" -> "panZoom"
        [] a = "F" -> "flags"  [] a = "M" -> "multiCam"
        [] OTHER -> "none"

(* The type under which a query returns a kind of fragment. *)
QueriedAs ==
  [video |-> "VideoFragment", audio |-> "AudioFragment", aux |-> "AUXFragment",
   flags |-> "FlagsFragment", timecode |-> "TimecodeFragment", aspect |-> "AspectFragment",
   crop |-> "CropFragment", panZoom |-> "PanZoomFragment", speed |-> "SpeedFragment",
   multiCam |-> "MultiCamFragment", cc |-> "CCFragment", note |-> "NoteFragment",
   effect |-> "EffectFragment"]

-----------------------------------------------------------------------------
(* The fragments a client may send.  Only those of type TimecodeFragment   *)
(* have digits and the mark of drop frame.                                 *)
Fragment ==
  [type : { "TimecodeFragment" }, digits : [Digits -> 0 .. 9], drop : BOOLEAN]
    \cup [type : Types \ { "TimecodeFragment" }, digits : { << >> }, drop : { FALSE }]

ASSUME FragmentsAssumption == Loads \subseteq Seq(Fragment)

Converted(f) ==
  [kind |-> LoadedAs(f.type),
   code |-> IF f.type = "TimecodeFragment" THEN timecodeFromString(f.digits, f.drop) ELSE << >>]

Known(f) == LoadedAs(f.type) # "none"

(* The loop of loadPlayPort, after n fragments: fragments of no known kind *)
(* are passed over and those behind them move up.                          *)
ConvertedAll(list) ==
  LET upTo[n \in 0 .. Len(list)] ==
        IF n = 0 THEN << >>
        ELSE IF Known(list[n]) THEN Append(upTo[n - 1], Converted(list[n]))
        ELSE upTo[n - 1]
  IN  upTo[Len(list)]

Returned(g) ==
  LET time == formatTimecode(g.code)
  IN  IF g.kind = "timecode"
      THEN [type |-> QueriedAs[g.kind], digits |-> time.digits, drop |-> time.drop]
      ELSE [type |-> QueriedAs[g.kind], digits |-> << >>, drop |-> FALSE]

Queried == [i \in 1 .. Len(held) |-> Returned(held[i])]

FragmentsInit == held = << >> /\ sent = << >>

LoadFragments(list) ==
  /\ held' = ConvertedAll(list)
  /\ sent' = list

FragmentsNext == \E list \in Loads : LoadFragments(list)

FragmentsSpec == FragmentsInit /\ [][FragmentsNext]_fragmentVars
-----------------------------------------------------------------------------
(* A query returns the fragments that were loaded, in their order, none    *)
(* lost or twice, each of its type and with its timecode as it was: the    *)
(* mark of drop frame lies among the bits of the hours and is told from    *)
(* them (qgw_util.cc:197-235).  Only SpeedFragments are missing, left out  *)
(* without an error (port.cc:1169-1170).                                   *)
SentKnown == {k \in 1 .. Len(sent) : sent[k].type # "SpeedFragment"}
FragmentsKept ==
  (\A k \in 1 .. Len(sent) : sent[k].type = "TimecodeFragment" => IsTime(sent[k].digits))
    => \E from \in [1 .. Len(Queried) -> SentKnown] :
         /\ \A i \in 1 .. Len(Queried) : Queried[i] = sent[from[i]]
         /\ \A i, j \in 1 .. Len(Queried) : i < j => from[i] < from[j]
         /\ \A k \in SentKnown : \E i \in 1 .. Len(Queried) : from[i] = k
=============================================================================
