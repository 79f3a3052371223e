-------------------------- MODULE ReferenceHistory --------------------------
(***************************************************************************)
(* IsaReference with history variables, for the properties that speak of   *)
(* what led to a state: which ISAs a lookup has asked, whether the lookups *)
(* of other requests disturbed it, and whether resets fell among the       *)
(* pending lookups.                                                        *)
(***************************************************************************)
EXTENDS IsaReference

VARIABLES
  asked,      (* the ISAs that the current lookup of a request has asked   *)
  disturbed,  (* requests during whose lookup another one moved robin or   *)
              (* a /connect replaced the list                              *)
  calm        (* no reset or /connect since a lookup was last not pending  *)

(* The modulus is any common multiple of the lengths of the lists.  Here   *)
(* it is taken large enough that a step of robin can be told from none,    *)
(* as it can in the code, where robin only grows.                          *)
ASSUME HistoryAssumption == RobinModulus > 1

history == << asked, disturbed, calm >>
hvars == << vars, history >>

HistoryInit ==
  /\ Init
  /\ asked = [r \in Requests |-> {}]
  /\ disturbed = {}
  /\ calm = TRUE

StartsLookup(r) ==
  promise'[r] # promise[r] /\ promise'[r].state \in {"linked", "fetching"}
    /\ promise'[r].count = 1
Asks(r) == promise'[r] # promise[r] /\ promise'[r].state = "fetching"
FailsOver(r) == Asks(r) /\ promise'[r].count > 1

NoteAsked ==
  asked' = [r \in Requests |->
              (IF StartsLookup(r) \/ ~Pending(r) THEN {} ELSE asked[r])
                \cup (IF Asks(r) THEN {promise'[r].isa} ELSE {})]

NoteDisturbed ==
  disturbed' =
    {r \in Requests :
       /\ ~(StartsLookup(r) /\ ~Pending(r))
       /\ \/ r \in disturbed
          \/ stickyRef' # stickyRef
          \/ robin' # robin /\ ~FailsOver(r)}

(* A new list comes with a fresh isaIOR even when it is the same list:     *)
(* /connect shows in the request that starts it.                           *)
Unsettles ==
  \/ isaIOR' = None
  \/ robin' # robin
  \/ \E r \in Requests : request[r].pc = "idle" /\ request'[r].op = "connect"

NoteCalm ==
  calm' = \/ \A r \in Requests : ~Pending(r)
          \/ calm /\ ~Unsettles

HistoryNext ==
  Next /\ NoteAsked /\ NoteDisturbed /\ NoteCalm

HistorySpec == HistoryInit /\ [][HistoryNext]_hvars
LiveHistorySpec == HistorySpec /\ Fairness
-----------------------------------------------------------------------------
(* Requests share one lookup: unless a reset or a /connect falls among the *)
(* pending lookups, at most one HTTP request for the reference is          *)
(* outstanding, however many requests wait (index.ts:438-445).             *)
LookupsCoalesce ==
  calm => \A p, q \in Requests :
            promise[p].state = "fetching" /\ promise[q].state = "fetching"
              => p = q

(* Round robin: a lookup that rejects after an HTTP failure has asked      *)
(* every address of the list, unless another request moved robin, or a     *)
(* /connect replaced the list, while it was under way.                     *)
GivesUpAfterAll ==
  [][\A r \in Requests :
       promise[r].state = "fetching" /\ promise'[r].state = "rejected"
         /\ r \notin disturbed
       => \A k \in 1 .. Len(stickyRef) : stickyRef[k] \in asked[r]]_hvars
=============================================================================
