----------------------------- MODULE MCTimeline -----------------------------
(* Timeline with a short timeline and numbers that overflow, and Fragments *)
(* over all types and the digits at their limits.  The two share no        *)
(* variable: each is explored with the other at rest, and one load is      *)
(* enough, as it replaces what there is.                                   *)
EXTENDS Timeline, Fragments

(* Every pair of digits is at its lowest, its highest or between. *)
Pairs(highest) == { << 0, 0 >>, << 0, 9 >>, << 1, 0 >>, << 1, 9 >>, highest }
LimitTimes ==
  { h \o m \o s \o f : h \in Pairs(<< 2, 3 >>), m \in Pairs(<< 5, 9 >>),
                       s \in Pairs(<< 5, 9 >>), f \in Pairs(<< 5, 9 >>) }
Timecodes == [type : { "TimecodeFragment" }, digits : LimitTimes, drop : BOOLEAN]
Others == [type : Types \ { "TimecodeFragment" }, digits : { << >> }, drop : { FALSE }]

AllLoads ==
  { << t >> : t \in Timecodes } \cup { << f, g >> : f, g \in Others }
    \cup { << f, g, t >> : f, g \in Others,
            t \in { [type |-> "TimecodeFragment", digits |-> << 2, 3, 5, 9, 5, 9, 2, 4 >>,
                     drop |-> FALSE] } }

MCInit == Init /\ FragmentsInit
MCNext ==
  \/ sent = << >> /\ Next /\ UNCHANGED fragmentVars
  \/ sent = << >> /\ Init /\ FragmentsNext /\ UNCHANGED vars
  \/ sent # << >> /\ UNCHANGED << vars, fragmentVars >>
MCSpec == MCInit /\ [][MCNext]_<< vars, fragmentVars >>
=============================================================================
