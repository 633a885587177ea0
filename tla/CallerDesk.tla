----------------------------- MODULE CallerDesk -----------------------------
(***************************************************************************)
(* What a caller of openSelection is promised, without modal, slot, queue   *)
(* or microtask: it waits, or is turned away when there is no room, is      *)
(* answered exactly once, and at most one at a time is answered.  When the  *)
(* program exits everyone is answered but the one whose rows are on screen. *)
(***************************************************************************)
EXTENDS Naturals, FiniteSets

CONSTANTS
    Callers,
    Room       \* how many may wait, the one on screen included
VARIABLES
    desk,     \* each caller: "away", "waiting" or "answered"
    closed    \* the program has exited

Waiting == {r \in Callers : desk[r] = "waiting"}
Stays(r) == desk'[r] = desk[r]
Calls(r) == desk[r] = "away" /\ desk'[r] = "waiting"
IsAnswered(r) == desk[r] # "answered" /\ desk'[r] = "answered"

Init ==
    /\ desk = [r \in Callers |-> "away"]
    /\ closed = FALSE

\* A key, a command, a timer or a continuation.
Serve ==
    /\ ~closed
    /\ \A r \in Callers : Stays(r) \/ Calls(r) \/ IsAnswered(r)
    /\ \A r, s \in Callers : IsAnswered(r) /\ IsAnswered(s) => r = s
    /\ Cardinality(Waiting') <= Room
    /\ UNCHANGED closed

Close ==
    /\ ~closed
    /\ closed'
    /\ \A r \in Callers : r \notin Waiting => Stays(r)
    /\ \A r, s \in Waiting : Stays(r) /\ Stays(s) => r = s
    /\ \A r \in Waiting : Stays(r) \/ IsAnswered(r)

Next == Serve \/ Close
Spec == Init /\ [][Next]_<<desk, closed>>
=============================================================================
