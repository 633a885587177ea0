-------------------------- MODULE MCSelectionQueue --------------------------
(* Four callers against a queue of two: one on screen, two waiting and one  *)
(* too many, with synchronous chains and promise continuations.             *)
EXTENDS SelectionQueue
=============================================================================
