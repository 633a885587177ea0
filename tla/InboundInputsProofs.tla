------------------------ MODULE InboundInputsProofs ------------------------
(***************************************************************************)
(* For any inputs, sessions and clock.                                      *)
(*                                                                          *)
(* While the poller stays with a session, no input is injected twice: the   *)
(* cursor has passed every input handed over in the stay, so none of them   *)
(* is listed again, and a pass looks at each once.                          *)
(*                                                                          *)
(* What is delivered has been handed over, since an acknowledgement names   *)
(* one input.  And an input is handed to its own session's conversation,    *)
(* but by the one pass a switch crosses, if the poller is told of every     *)
(* switch before the next one.                                              *)
(***************************************************************************)
EXTENDS InboundInputs, TLAPS

OnceInv ==
    /\ TypeOK
    /\ \A i \in stay :
         /\ box[i].at <= cursor
         /\ box[i].state # "unborn"
         /\ i \notin batch
    /\ \A i \in batch : box[i].state # "unborn"
    /\ again = {}

LEMMA OnceInit == Init => OnceInv
<1> SUFFICES ASSUME Init PROVE OnceInv
  OBVIOUS
<1>1. 0 \in 0 .. MaxTime
  BY MaxTimeAssumption
<1>2. TypeOK
  BY <1>1 DEF Init, TypeOK, Record
<1> QED BY <1>2 DEF Init, OnceInv

\* Only an input not handed over before is looked at next.
LEMMA AdvanceOnce ==
    ASSUME OnceInv, NEW rest \in SUBSET Inputs, Advance(rest), stage # "idle",
           \A i \in rest \ Mine : i \notin stay,
           \A i \in rest : box[i].state # "unborn",
           UNCHANGED <<clock, conversation, wired, cursorSession>>, box' \in [Inputs -> Record],
           \A i \in Inputs : box'[i].at = box[i].at
                             /\ (box[i].state # "unborn" => box'[i].state # "unborn")
    PROVE  OnceInv'
<1> USE DEF conversation
<1>1. \A i \in Inputs : box[i].at \in 0 .. MaxTime
  BY DEF OnceInv, TypeOK, Record
<1>2. cursor \in Nat /\ cursor' \in 0 .. MaxTime /\ cursor' >= cursor
  <2>1. cursor \in 0 .. MaxTime
    BY DEF OnceInv, TypeOK
  <2>2. ASSUME NEW seen \in SUBSET Inputs, cursor' \in Latest(seen)
        PROVE  cursor' \in 0 .. MaxTime /\ cursor' >= cursor
    BY <1>1, <2>1, <2>2 DEF Latest
  <2>3. cursor' \in 0 .. MaxTime /\ cursor' >= cursor
    <3>1. CASE cursor' \in Latest(rest)
      BY <2>2, <3>1
    <3>2. ASSUME NEW i \in rest \ Mine, cursor' \in Latest((rest \cap Mine) \cup {i})
          PROVE  cursor' \in 0 .. MaxTime /\ cursor' >= cursor
      <4>1. (rest \cap Mine) \cup {i} \in SUBSET Inputs
        OBVIOUS
      <4> QED BY <2>2, <3>2, <4>1
    <3> QED BY <3>1, <3>2 DEF Advance
  <2> QED BY <2>1, <2>3, MaxTimeAssumption
<1>3. \A i \in Inputs : box[i].at <= cursor => box'[i].at <= cursor'
  BY <1>1, <1>2
<1>4. stay \subseteq Inputs
  BY DEF OnceInv, TypeOK
<1>5. CASE rest \subseteq Mine /\ EndPass /\ UNCHANGED history
  <2>1. TypeOK'
    BY <1>2, <1>5 DEF OnceInv, TypeOK, EndPass, history
  <2> QED BY <1>3, <1>4, <1>5, <2>1 DEF OnceInv, EndPass, history
<1>6. ASSUME NEW i \in rest \ Mine,
             cursor' \in Latest((rest \cap Mine) \cup {i}), HandOver(i),
             stage' = "acking", acking' = i,
             batch' = rest \ (Mine \cup {i}), UNCHANGED asked, UNCHANGED crossed
      PROVE  OnceInv'
  <2>1. i \notin stay /\ i \in Inputs \ Mine /\ held \in Sessions
    BY DEF OnceInv, TypeOK
  <2>2. again' = {} /\ stay' = stay \cup {i}
    BY <1>6, <2>1 DEF HandOver, OnceInv
  <2>3. box'[i].at <= cursor'
    BY <1>1, <1>2, <1>6, <2>1 DEF Latest
  <2>4. TypeOK'
    <3>1. stage' # "idle" /\ crossed' \in BOOLEAN
      <4>1. stage' # "idle"
        BY <1>6
      <4>2. crossed' = crossed
        BY <1>6
      <4>3. crossed \in BOOLEAN
        BY DEF OnceInv, TypeOK
      <4> QED BY <4>1, <4>2, <4>3, Zenon
    <3>2. (stage' = "idle" <=> asked' = None) /\ asked' \in Sessions \cup {None}
      BY <1>6 DEF OnceInv, TypeOK
    <3>3. batch' \subseteq Inputs \ Mine /\ acking' \in (Inputs \ Mine) \cup {None}
          /\ (stage' = "acking" <=> acking' # None)
      BY <1>6, <2>1, NoneAssumption
    <3>4. handed' \subseteq Inputs \ Mine /\ stay' \subseteq Inputs \ Mine /\ again' \subseteq Inputs
      BY <1>6, <2>1, <2>2 DEF OnceInv, TypeOK, HandOver
    <3>5. /\ clock' \in 0 .. MaxTime /\ held' \in Sessions /\ ref' \in Sessions
          /\ telling' \subseteq Sessions /\ wired' \in BOOLEAN
          /\ cursorSession' \in Sessions \cup {None}
      BY DEF OnceInv, TypeOK
    <3> QED BY <1>2, <1>6, <3>1, <3>2, <3>3, <3>4, <3>5 DEF TypeOK
  <2>5. \A j \in stay' : box'[j].at <= cursor' /\ box'[j].state # "unborn" /\ j \notin batch'
    BY <1>3, <1>4, <1>6, <2>1, <2>2, <2>3 DEF OnceInv
  <2> QED BY <1>6, <2>2, <2>4, <2>5 DEF OnceInv
<1> QED BY <1>5, <1>6 DEF Advance

LEMMA OnceNext == ASSUME OnceInv, [Next]_vars PROVE OnceInv'
<1> USE DEF conversation
<1>1. ASSUME NEW i \in Inputs, NEW s \in Sessions, Queue(i, s) PROVE OnceInv'
  <2>1. PICK t \in {clock, clock + 1} \cap 1 .. MaxTime :
          /\ clock' = t
          /\ box' = [box EXCEPT ![i] = [session |-> s, at |-> t, state |-> "queued"]]
    BY <1>1 DEF Queue
  <2>2. i \notin stay /\ stay \subseteq Inputs /\ batch \subseteq Inputs
    BY <1>1 DEF Queue, OnceInv, TypeOK
  <2>3. t \in 0 .. MaxTime
    BY <2>1
  <2>4. box' \in [Inputs -> Record] /\ \A j \in Inputs : j # i => box'[j] = box[j]
    BY <2>1, <2>3 DEF OnceInv, TypeOK, Record
  <2>5. box'[i].state = "queued"
    BY <2>1 DEF OnceInv, TypeOK
  <2>6. TypeOK'
    BY <1>1, <2>1, <2>3, <2>4 DEF Queue, pass, history, OnceInv, TypeOK
  <2> QED BY <1>1, <2>2, <2>4, <2>5, <2>6 DEF Queue, pass, history, OnceInv
<1>2. CASE Activate \/ Deactivate \/ \E s \in Sessions : SwitchSession(s) \/ TellPoller(s)
  <2>1. /\ wired' \in BOOLEAN /\ held' \in Sessions /\ ref' \in Sessions
        /\ telling' \subseteq Sessions
        /\ UNCHANGED <<daemon, stage, asked, batch, acking, cursor, cursorSession, history>>
    BY <1>2 DEF Activate, Deactivate, SwitchSession, TellPoller, pass, OnceInv, TypeOK
  <2>2. \/ crossed' = crossed
        \/ crossed' = (stage # "idle")
    BY <1>2 DEF Activate, Deactivate, SwitchSession, TellPoller, pass
  <2>3. crossed' \in BOOLEAN /\ (stage = "idle" => ~crossed')
    <3>1. CASE crossed' = crossed
      BY <3>1, Zenon DEF OnceInv, TypeOK
    <3>2. CASE crossed' = (stage # "idle")
      BY <3>2
    <3> QED BY <2>2, <3>1, <3>2, Zenon
  <2> QED BY <2>1, <2>3 DEF daemon, history, OnceInv, TypeOK
<1>3. CASE StartPass
  <2>1. stay' \subseteq stay /\ (stay' # {} => cursor' = cursor)
    BY <1>3 DEF StartPass, CursorFor, Target
  <2>2. cursor' \in 0 .. MaxTime
    BY <1>3, MaxTimeAssumption DEF StartPass, CursorFor, Target, OnceInv, TypeOK
  <2>3. TypeOK'
    BY <1>3, <2>1, <2>2, NoneAssumption DEF StartPass, Target, daemon, OnceInv, TypeOK
  <2> QED BY <1>3, <2>1, <2>3 DEF StartPass, daemon, OnceInv
<1>4. CASE ListAnswered
  <2>1. \A i \in Listed : i \notin stay /\ box[i].state # "unborn"
    BY <1>4 DEF Listed, OnceInv, TypeOK, Record
  <2>2. Listed \in SUBSET Inputs
    BY DEF Listed
  <2>3. /\ Advance(Listed) /\ stage # "idle" /\ UNCHANGED <<clock, conversation, wired, cursorSession>>
        /\ UNCHANGED box /\ box' \in [Inputs -> Record]
    BY <1>4 DEF ListAnswered, daemon, OnceInv, TypeOK
  <2> QED BY <2>1, <2>2, <2>3, AdvanceOnce
<1>5. CASE ListFailed
  BY <1>5 DEF ListFailed, EndPass, daemon, history, OnceInv, TypeOK
<1>6. ASSUME Advance(batch), stage = "acking", UNCHANGED <<clock, conversation, wired, cursorSession>>,
             box' \in [Inputs -> Record],
             \A i \in Inputs : box'[i].at = box[i].at
                               /\ (box[i].state # "unborn" => box'[i].state # "unborn")
      PROVE  OnceInv'
  <2>1. batch \in SUBSET Inputs /\ \A i \in batch : i \notin stay /\ box[i].state # "unborn"
    BY DEF OnceInv, TypeOK
  <2> QED BY <1>6, <2>1, AdvanceOnce
<1>7. CASE AckAnswered
  BY <1>6, <1>7 DEF AckAnswered, Acknowledged, OnceInv, TypeOK, Record
<1>8. CASE AckFailed
  BY <1>6, <1>8 DEF AckFailed, daemon, OnceInv, TypeOK
<1>9. CASE UNCHANGED vars
  BY <1>9 DEF vars, daemon, pass, history, OnceInv, TypeOK
<1> QED BY <1>1, <1>2, <1>3, <1>4, <1>5, <1>7, <1>8, <1>9 DEF Next, Poll

\* However many list and deliver calls fail, whenever the poller is attached
\* and detached and whatever session is resumed even in mid-pass, no input is
\* injected twice while the poller stays with a session
\* (session-inbound-inputs.ts:169).
THEOREM NeverInjectedTwice == Spec => []InjectedOnce
<1>1. OnceInv /\ [Next]_vars => OnceInv'
  BY OnceNext
<1>2. OnceInv => InjectedOnce
  BY DEF OnceInv, InjectedOnce
<1> QED BY <1>1, <1>2, OnceInit, PTL DEF Spec

\* A pass in flight always has the session it asks for, and waits for an
\* acknowledgement exactly when there is an input to acknowledge.
THEOREM TypeCorrect == Spec => []TypeOK
<1>1. OnceInv /\ [Next]_vars => OnceInv'
  BY OnceNext
<1>2. OnceInv => TypeOK
  BY DEF OnceInv
<1> QED BY <1>1, <1>2, OnceInit, PTL DEF Spec
-----------------------------------------------------------------------------
\* What a pass waits to have acknowledged has been handed over.
TruthInv ==
    /\ TypeOK
    /\ acking # None => acking \in handed
    /\ DeliveryTruth

LEMMA OnceIsTyped == OnceInv /\ OnceInv' => TypeOK /\ TypeOK'
BY DEF OnceInv

\* A pass only adds to what has been handed over, before it asks for the
\* acknowledgement.
LEMMA AdvanceTruth ==
    ASSUME TypeOK, NEW rest \in SUBSET Inputs, Advance(rest)
    PROVE  handed \subseteq handed' /\ (acking' # None => acking' \in handed')
<1>1. CASE EndPass /\ UNCHANGED history
  BY <1>1 DEF EndPass, history
<1>2. ASSUME NEW i \in rest, HandOver(i), acking' = i
      PROVE  handed \subseteq handed' /\ acking' \in handed'
  BY <1>2 DEF HandOver
<1> QED BY <1>1, <1>2 DEF Advance

LEMMA TruthNext == ASSUME TruthInv, TypeOK', [Next]_vars PROVE TruthInv'
<1> USE DEF TruthInv
<1>1. ASSUME handed \subseteq handed', acking' # None => acking' \in handed',
             \A i \in Inputs : box'[i].state = "delivered"
                              => box[i].state = "delivered" \/ i = acking
      PROVE  TruthInv'
  <2>1. None \notin Inputs
    BY NoneAssumption
  <2> QED BY <1>1, <2>1 DEF DeliveryTruth
<1>2. ASSUME NEW i \in Inputs, NEW s \in Sessions, Queue(i, s) PROVE TruthInv'
  <2>1. \A j \in Inputs : box'[j].state = "delivered" => box[j].state = "delivered"
    BY <1>2 DEF Queue, TypeOK
  <2> QED BY <1>1, <1>2, <2>1 DEF Queue, pass, history
<1>3. CASE Activate \/ Deactivate \/ \E s \in Sessions : SwitchSession(s) \/ TellPoller(s)
  <2>1. UNCHANGED <<daemon, acking, history>>
    BY <1>3 DEF Activate, Deactivate, SwitchSession, TellPoller, pass
  <2> QED BY <1>1, <2>1 DEF daemon, history
<1>4. CASE StartPass
  BY <1>1, <1>4 DEF StartPass, daemon, TypeOK
<1>5. CASE ListAnswered
  <2>1. Listed \in SUBSET Inputs
    BY DEF Listed
  <2> QED BY <1>1, <1>5, <2>1, AdvanceTruth DEF ListAnswered, daemon
<1>6. CASE ListFailed
  BY <1>1, <1>6 DEF ListFailed, EndPass, daemon, history
<1>7. CASE AckAnswered
  <2>1. batch \in SUBSET Inputs
    BY DEF TypeOK
  <2>2. \A i \in Inputs : box'[i].state = "delivered"
                           => box[i].state = "delivered" \/ i = acking
    BY <1>7 DEF AckAnswered, Acknowledged
  <2> QED BY <1>1, <1>7, <2>1, <2>2, AdvanceTruth DEF AckAnswered
<1>8. CASE AckFailed
  <2>1. batch \in SUBSET Inputs
    BY DEF TypeOK
  <2> QED BY <1>1, <1>8, <2>1, AdvanceTruth DEF AckFailed, daemon
<1>9. CASE UNCHANGED vars
  BY <1>1, <1>9 DEF vars, daemon, pass, history
<1> QED BY <1>2, <1>3, <1>4, <1>5, <1>6, <1>7, <1>8, <1>9 DEF Next, Poll

\* Whatever fails and whatever session is resumed when, the daemon shows no
\* surface an input as delivered that this terminal did not take over
\* (session-inbound-inputs.ts:196).
THEOREM DeliveredWasHandedOver == Spec => []DeliveryTruth
<1>1. Init => TruthInv
  BY OnceInit DEF OnceInv, Init, TruthInv, DeliveryTruth
<1>2. OnceInv /\ [Next]_vars => OnceInv'
  BY OnceNext
<1>3. TruthInv /\ OnceInv /\ OnceInv' /\ [Next]_vars => TruthInv'
  BY OnceIsTyped, TruthNext
<1>4. TruthInv => DeliveryTruth
  BY DEF TruthInv
<1> QED BY <1>1, <1>2, <1>3, <1>4, OnceInit, PTL DEF Spec

-----------------------------------------------------------------------------
\* What a pass still has to look at is queued on the session it turned to, and
\* what it waits to have acknowledged was injected in this stay.
BoxInv ==
    /\ stage # "idle" => asked = cursorSession
    /\ stage # "acking" => batch = {}
    /\ \A i \in batch : box[i].state = "queued" /\ box[i].session = cursorSession
    /\ acking # None => acking \in stay

LEMMA AdvanceBox ==
    ASSUME TypeOK, BoxInv, NEW rest \in SUBSET Inputs, Advance(rest), stage # "idle",
           \A i \in rest : box[i].state = "queued" /\ box[i].session = cursorSession,
           UNCHANGED cursorSession,
           \A i \in rest : box'[i] = box[i]
    PROVE  BoxInv'
<1>1. CASE EndPass
  BY <1>1 DEF EndPass, BoxInv
<1>2. ASSUME NEW i \in rest, HandOver(i), stage' = "acking", acking' = i,
             batch' = rest \ (Mine \cup {i}), UNCHANGED asked, UNCHANGED crossed
      PROVE  BoxInv'
  BY <1>2 DEF HandOver, BoxInv
<1> QED BY <1>1, <1>2 DEF Advance

LEMMA BoxNext == ASSUME OnceInv, BoxInv, [Next]_vars PROVE BoxInv'
<1>1. ASSUME NEW i \in Inputs, NEW s \in Sessions, Queue(i, s) PROVE BoxInv'
  <2>1. \A j \in Inputs : box[j].state = "queued" => box'[j] = box[j]
    BY <1>1 DEF Queue, OnceInv, TypeOK
  <2>2. batch \subseteq Inputs
    BY DEF OnceInv, TypeOK
  <2> QED BY <1>1, <2>1, <2>2 DEF Queue, pass, history, BoxInv
<1>2. CASE Activate \/ Deactivate \/ \E s \in Sessions : SwitchSession(s) \/ TellPoller(s)
  <2>1. UNCHANGED <<box, stage, asked, batch, acking, cursorSession, stay>>
    BY <1>2 DEF Activate, Deactivate, SwitchSession, TellPoller, daemon, pass, history
  <2> QED BY <2>1 DEF BoxInv
<1>3. CASE StartPass
  BY <1>3 DEF StartPass, Target, daemon, BoxInv, OnceInv, TypeOK
<1>4. CASE ListAnswered
  <2>1. Listed \in SUBSET Inputs
        /\ \A i \in Listed : box[i].state = "queued" /\ box[i].session = cursorSession
    BY <1>4 DEF ListAnswered, Listed, BoxInv
  <2> QED BY <1>4, <2>1, AdvanceBox DEF ListAnswered, daemon, OnceInv
<1>5. CASE ListFailed
  BY <1>5 DEF ListFailed, EndPass, BoxInv
<1>6. ASSUME Advance(batch), stage = "acking", UNCHANGED cursorSession,
             \A i \in batch : box'[i] = box[i]
      PROVE  BoxInv'
  <2>1. batch \in SUBSET Inputs
    BY DEF OnceInv, TypeOK
  <2> QED BY <1>6, <2>1, AdvanceBox DEF OnceInv, BoxInv
<1>7. CASE AckAnswered
  <2>1. acking \in stay /\ acking \notin batch /\ batch \subseteq Inputs
    BY <1>7 DEF AckAnswered, OnceInv, TypeOK, BoxInv
  <2>2. \A i \in batch : box'[i] = box[i]
    BY <1>7, <2>1 DEF AckAnswered, Acknowledged
  <2> QED BY <1>6, <1>7, <2>2 DEF AckAnswered
<1>8. CASE AckFailed
  BY <1>6, <1>8 DEF AckFailed, daemon
<1>9. CASE UNCHANGED vars
  BY <1>9 DEF vars, daemon, pass, history, BoxInv
<1> QED BY <1>1, <1>2, <1>3, <1>4, <1>5, <1>7, <1>8, <1>9 DEF Next, Poll

\* The loop up to its next await injects at most one input, one that is still
\* queued on the session turned to and was not injected in this stay.
LEMMA AdvanceServes ==
    ASSUME TypeOK, NEW rest \in SUBSET Inputs, Advance(rest),
           \A i \in rest : /\ box[i].state = "queued"
                            /\ box[i].session = cursorSession
                            /\ i \notin stay
    PROVE  \/ UNCHANGED history
           \/ \E i \in Inputs \ Mine : Box!Injects(i)
<1>1. ASSUME NEW i \in rest \ Mine, HandOver(i) PROVE Box!Injects(i)
  BY <1>1 DEF Box!Injects, HandOver
<1> QED BY <1>1 DEF Advance

LEMMA BoxStep == ASSUME OnceInv, BoxInv, [Next]_vars PROVE [Box!Next]_(Box!vars)
<1> USE DEF Box!vars
<1>1. ASSUME NEW i \in Inputs, NEW s \in Sessions, Queue(i, s) PROVE Box!Queue(i, s)
  <2>1. PICK t \in {clock, clock + 1} \cap 1 .. MaxTime :
          box' = [box EXCEPT ![i] = [session |-> s, at |-> t, state |-> "queued"]]
    BY <1>1 DEF Queue
  <2>2. box \in [Inputs -> Record]
    BY DEF OnceInv, TypeOK
  <2>3. /\ box'[i].session = s /\ box'[i].state = "queued"
        /\ \A j \in Inputs : j # i => box'[j] = box[j]
    BY <2>1, <2>2
  <2>4. [j \in Inputs |-> box'[j].session]
          = [[j \in Inputs |-> box[j].session] EXCEPT ![i] = s]
    BY <2>3
  <2>5. [j \in Inputs |-> box'[j].state]
          = [[j \in Inputs |-> box[j].state] EXCEPT ![i] = "queued"]
    BY <2>3
  <2>6. box[i].state = "unborn" /\ UNCHANGED <<handed, cursorSession, stay>>
    BY <1>1 DEF Queue, pass, history
  <2> QED BY <2>4, <2>5, <2>6 DEF Box!Queue
<1>2. CASE Activate \/ Deactivate \/ \E s \in Sessions : SwitchSession(s) \/ TellPoller(s)
  <2>1. UNCHANGED <<box, handed, cursorSession, stay>>
    BY <1>2 DEF Activate, Deactivate, SwitchSession, TellPoller, daemon, pass, history
  <2> QED BY <2>1
<1>3. CASE StartPass
  <2>1. UNCHANGED <<box, handed>> /\ cursorSession' = ref /\ ref \in Sessions
    BY <1>3 DEF StartPass, Target, daemon, OnceInv, TypeOK
  <2>2. stay' = IF ref = cursorSession THEN stay ELSE {}
    BY <1>3 DEF StartPass, Target
  <2>3. CASE ref = cursorSession
    BY <2>1, <2>2, <2>3
  <2>4. CASE ref # cursorSession
    BY <2>1, <2>2, <2>4 DEF Box!Next, Box!Turn
  <2> QED BY <2>3, <2>4
<1>4. ASSUME NEW rest \in SUBSET Inputs, Advance(rest), UNCHANGED <<box, cursorSession>>,
             \A i \in rest : /\ box[i].state = "queued"
                              /\ box[i].session = cursorSession
                              /\ i \notin stay
      PROVE  [Box!Next]_(Box!vars)
  <2>1. CASE UNCHANGED history
    BY <1>4, <2>1 DEF history
  <2>2. ASSUME NEW i \in Inputs \ Mine, Box!Injects(i) PROVE Box!Next
    BY <1>4, <2>2 DEF Box!Next, Box!Inject
  <2>3. TypeOK
    BY DEF OnceInv
  <2> QED BY <1>4, <2>1, <2>2, <2>3, AdvanceServes
<1>5. CASE ListAnswered
  <2>1. Listed \in SUBSET Inputs
        /\ \A i \in Listed : /\ box[i].state = "queued"
                               /\ box[i].session = cursorSession
                               /\ i \notin stay
    BY <1>5 DEF ListAnswered, Listed, BoxInv, OnceInv, TypeOK, Record
  <2> QED BY <1>4, <1>5, <2>1 DEF ListAnswered, daemon
<1>6. CASE ListFailed
  <2>1. UNCHANGED <<box, handed, cursorSession, stay>>
    BY <1>6 DEF ListFailed, daemon, history
  <2> QED BY <2>1
<1>7. batch \in SUBSET Inputs
      /\ \A i \in batch : /\ box[i].state = "queued"
                            /\ box[i].session = cursorSession
                            /\ i \notin stay
  BY DEF BoxInv, OnceInv, TypeOK
<1>8. CASE AckAnswered
  <2>1. PICK a \in Inputs \ Mine : a = acking /\ a \in stay
    BY <1>8, NoneAssumption DEF AckAnswered, OnceInv, TypeOK, BoxInv
  <2>2. \A j \in Inputs : box'[j] = IF j = a THEN [box[j] EXCEPT !.state = "delivered"] ELSE box[j]
    BY <1>8, <2>1 DEF AckAnswered, Acknowledged
  <2>3. box \in [Inputs -> Record]
    BY DEF OnceInv, TypeOK
  <2>4. [j \in Inputs |-> box'[j].state]
          = [[j \in Inputs |-> box[j].state] EXCEPT ![a] = "delivered"]
    BY <2>2, <2>3 DEF Record
  <2>5. UNCHANGED [j \in Inputs |-> box[j].session]
    BY <2>2, <2>3 DEF Record
  <2>6. Box!Delivers(a)
    BY <2>1, <2>4 DEF Box!Delivers
  <2>7. CASE UNCHANGED history
    <3>1. UNCHANGED <<handed, cursorSession, stay>>
      BY <1>8, <2>7 DEF AckAnswered, history
    <3>2. Box!Deliver(a)
      BY <2>5, <2>6, <3>1 DEF Box!Deliver
    <3> QED BY <2>1, <3>2 DEF Box!Next
  <2>8. ASSUME NEW i \in Inputs \ Mine, Box!Injects(i) PROVE Box!Next
    <3>1. Box!DeliverAndInject(a, i)
      BY <1>8, <2>5, <2>6, <2>8 DEF AckAnswered, Box!DeliverAndInject
    <3> QED BY <2>1, <3>1 DEF Box!Next
  <2>9. TypeOK /\ Advance(batch)
    BY <1>8 DEF OnceInv, AckAnswered
  <2> QED BY <1>7, <2>7, <2>8, <2>9, AdvanceServes
<1>9. CASE AckFailed
  BY <1>4, <1>7, <1>9 DEF AckFailed, daemon
<1>10. CASE UNCHANGED vars
  BY <1>10 DEF vars, daemon, pass, history
<1> QED BY <1>1, <1>2, <1>3, <1>5, <1>6, <1>8, <1>9, <1>10 DEF Next, Poll, Box!Next

\* Whatever fails, whenever the poller is attached or detached and whatever
\* session is resumed even in mid-pass, every input goes through the mailbox:
\* injected only while it is queued on the session the poller turned to, at
\* most once in a stay, delivered only after that
\* (session-inbound-inputs.ts:149-213).
THEOREM PollerServesMailbox == Spec => ServesMailbox
<1>1. Init => Box!Init
  BY DEF Init, Box!Init
<1>2. Init => BoxInv
  BY DEF Init, BoxInv
<1>3. OnceInv /\ [Next]_vars => OnceInv'
  BY OnceNext
<1>4. OnceInv /\ BoxInv /\ [Next]_vars => BoxInv'
  BY BoxNext
<1>5. OnceInv /\ BoxInv /\ [Next]_vars => [Box!Next]_(Box!vars)
  BY BoxStep
<1> QED BY <1>1, <1>2, <1>3, <1>4, <1>5, OnceInit, PTL DEF Spec, ServesMailbox, Box!Spec
-----------------------------------------------------------------------------
\* The poller is told of every switch, and before the next one.
AlwaysTold == "silent" \notin Faults /\ "overlap" \notin Faults

\* Then the reference is behind the conversation only while it is about to be
\* set, and a pass asks for the session of the conversation unless a switch has
\* crossed it.
OwnInv ==
    /\ telling \subseteq {held}
    /\ telling = {} => ref = held
    /\ stage # "idle" => asked = held \/ crossed

LEMMA AdvanceOwn ==
    ASSUME OwnInv, NEW rest \in SUBSET Inputs, Advance(rest), stage # "idle",
           UNCHANGED conversation
    PROVE  OwnInv'
<1>1. CASE EndPass
  BY <1>1 DEF OwnInv, EndPass, conversation
<1>2. CASE UNCHANGED asked /\ UNCHANGED crossed
  BY <1>2 DEF OwnInv, conversation
<1> QED BY <1>1, <1>2 DEF Advance

LEMMA OwnNext == ASSUME OwnInv, TypeOK, AlwaysTold, [Next]_vars PROVE OwnInv'
<1>1. CASE (\E i \in Inputs, s \in Sessions : Queue(i, s)) \/ Activate \/ Deactivate \/ UNCHANGED vars
  BY <1>1 DEF Queue, Activate, Deactivate, vars, conversation, pass, OwnInv
<1>2. ASSUME NEW s \in Sessions, SwitchSession(s) PROVE OwnInv'
  <2>1. telling' = {s} /\ held' = s /\ UNCHANGED <<stage, asked>> /\ crossed' = (stage # "idle")
    BY <1>2 DEF SwitchSession, AlwaysTold
  <2> QED BY <2>1 DEF OwnInv
<1>3. ASSUME NEW s \in Sessions, TellPoller(s) PROVE OwnInv'
  BY <1>3 DEF TellPoller, pass, OwnInv
<1>4. CASE StartPass
  BY <1>4 DEF StartPass, Target, conversation, OwnInv
<1>5. CASE ListAnswered
  <2>1. Listed \in SUBSET Inputs
    BY DEF Listed
  <2> QED BY <1>5, <2>1, AdvanceOwn DEF ListAnswered
<1>6. CASE ListFailed
  BY <1>6 DEF ListFailed, EndPass, conversation, OwnInv
<1>7. CASE AckAnswered \/ AckFailed
  <2>1. batch \in SUBSET Inputs
    BY DEF TypeOK
  <2> QED BY <1>7, <2>1, AdvanceOwn DEF AckAnswered, AckFailed
<1> QED BY <1>1, <1>2, <1>3, <1>4, <1>5, <1>6, <1>7 DEF Next, Poll

\* The loop hands over only what the session asked for had queued.
LEMMA AdvanceStrays ==
    ASSUME OwnInv, NEW rest \in SUBSET Inputs, Advance(rest), stage # "idle", acking' # None,
           \A i \in rest : box[i].session = asked
    PROVE  acking' \in rest /\ (box[acking'].session = held \/ crossed)
BY DEF Advance, EndPass, OwnInv

StraysNot == acking' # acking /\ acking' # None => box[acking'].session = held \/ crossed

LEMMA OwnStep == ASSUME OwnInv, BoxInv, TypeOK, [Next]_vars PROVE StraysNot
<1> SUFFICES ASSUME acking' # acking, acking' # None PROVE box[acking'].session = held \/ crossed
  BY DEF StraysNot
<1>1. ListAnswered \/ AckAnswered \/ AckFailed
  BY DEF Next, Poll, Queue, Activate, Deactivate, SwitchSession, TellPoller, StartPass,
         ListFailed, EndPass, vars, pass
<1>2. CASE ListAnswered
  <2>1. Listed \in SUBSET Inputs /\ \A i \in Listed : box[i].session = asked
    BY DEF Listed
  <2> QED BY <1>2, <2>1, AdvanceStrays DEF ListAnswered
<1>3. CASE AckAnswered \/ AckFailed
  <2>1. batch \in SUBSET Inputs /\ stage = "acking" /\ Advance(batch)
    BY <1>3 DEF TypeOK, AckAnswered, AckFailed
  <2>2. \A i \in batch : box[i].session = asked
    BY <2>1 DEF BoxInv
  <2> QED BY <2>1, <2>2, AdvanceStrays
<1> QED BY <1>1, <1>2, <1>3

LEMMA OwnInit == Init => OwnInv /\ BoxInv
BY DEF Init, OwnInv, BoxInv

\* While the poller hears of every switch before the next one, a steer lands in
\* the conversation it was queued for, whenever the switches come and whatever
\* fails, but for the pass that a switch overtakes or that begins before the
\* poller has heard of it (session-inbound-inputs.ts:17).
THEOREM SteersTheirOwn == ASSUME AlwaysTold PROVE Spec => StraysOnlyInASwitch
<1>1. OnceInv /\ [Next]_vars => OnceInv'
  BY OnceNext
<1>2. OnceInv /\ BoxInv /\ [Next]_vars => BoxInv'
  BY BoxNext
<1>3. OnceInv => TypeOK
  BY DEF OnceInv
<1>4. OwnInv /\ OnceInv /\ [Next]_vars => OwnInv'
  BY <1>3, OwnNext
<1>5. OnceInv /\ OwnInv /\ BoxInv /\ [Next]_vars
        => [acking' # acking /\ acking' # None => box[acking'].session = held \/ crossed]_vars
  BY <1>3, OwnStep DEF StraysNot
<1> QED BY <1>1, <1>2, <1>4, <1>5, OnceInit, OwnInit, PTL DEF Spec, StraysOnlyInASwitch

\* Under the same condition every pass that begins when no switch is under way
\* asks for the session on screen (session-inbound-inputs.ts:71).
THEOREM PollsItsOwn == ASSUME AlwaysTold PROVE Spec => PollsHeldSession
<1>1. OnceInv /\ [Next]_vars => OnceInv'
  BY OnceNext
<1>2. OnceInv => TypeOK
  BY DEF OnceInv
<1>3. OwnInv /\ OnceInv /\ [Next]_vars => OwnInv'
  BY <1>2, OwnNext
<1>4. OwnInv /\ [Next]_vars
        => [stage = "idle" /\ stage' = "listing" => asked' = held \/ telling # {}]_vars
  <2> SUFFICES ASSUME OwnInv, Next, stage = "idle", stage' = "listing"
               PROVE  asked' = held \/ telling # {}
    OBVIOUS
  <2>1. StartPass
    BY DEF Next, Poll, Queue, Activate, Deactivate, SwitchSession, TellPoller, pass,
           ListAnswered, ListFailed, AckAnswered, AckFailed
  <2> QED BY <2>1 DEF StartPass, Target, OwnInv
<1> QED BY <1>1, <1>3, <1>4, OnceInit, OwnInit, PTL DEF Spec, PollsHeldSession
=============================================================================
