------------------------ MODULE MCSessionDurability ------------------------
EXTENDS SessionDurability, TLC

\* Terminals, sessions and turns are interchangeable.
Symmetry == Permutations(Procs) \cup Permutations(Sessions) \cup Permutations(Turns)

\* owed and promised are history that the properties of a run with this view
\* do not mention.
FileView == <<files, memory, talk, secured>>
=============================================================================
