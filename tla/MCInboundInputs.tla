-------------------------- MODULE MCInboundInputs --------------------------
(* Small instances of InboundInputs: two steers beside an input the  *)
(* terminal wrote itself, on two sessions.                                  *)
EXTENDS InboundInputs

CONSTANTS own, i1, i2, s1, s2

OwnInput == {own}
ThreeInputs == {own, i1, i2}
TwoSessions == {s1, s2}
=============================================================================
