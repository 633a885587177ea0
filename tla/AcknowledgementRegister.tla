---------------------- MODULE AcknowledgementRegister ----------------------
(***************************************************************************)
(* What the onboarding acknowledgement file promises to the processes that  *)
(* write it: recording an answer for one target changes that answer and no  *)
(* other, at once, unless a writer has warned that it goes on without the   *)
(* lock, in which case the last writer wins.                                *)
(***************************************************************************)
CONSTANTS Targets, Answers
VARIABLES
    acks,    \* the recorded answer of each target
    warned   \* a writer goes on without the lock

Record ==
    \E t \in Targets, v \in Answers :
        /\ acks' = [acks EXCEPT ![t] = v]
        /\ warned' \in BOOLEAN

LastWriterWins ==
    /\ warned
    /\ acks' \in [Targets -> Answers]
    /\ warned' \in BOOLEAN

Warn ==
    /\ warned' \in BOOLEAN
    /\ UNCHANGED acks

Init == acks \in [Targets -> Answers] /\ warned = FALSE
Next == Record \/ LastWriterWins \/ Warn
Spec == Init /\ [][Next]_<<acks, warned>>
=============================================================================
