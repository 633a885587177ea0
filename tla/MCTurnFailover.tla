--------------------------- MODULE MCTurnFailover ---------------------------
EXTENDS TurnFailover
=============================================================================
