----------------------- MODULE MCAcknowledgementFile -----------------------
(* Two terminals and the daemon, two answers, two attempts each. *)
EXTENDS AcknowledgementFile, TLC
CONSTANTS p1, p2, p3, providers, auth

Symmetry == Permutations(Procs) \cup Permutations(Targets)
=============================================================================
