------------------------- MODULE TurnFailoverProofs -------------------------
(***************************************************************************)
(* For any asks and providers, while asks are typed one after the other and *)
(* no model is picked before a failover is undone: one turn is under way at *)
(* a time, the retry context is its own, and the conversation before it is  *)
(* what the context rolls back to.                                          *)
(***************************************************************************)
EXTENDS TurnFailover, SequenceTheorems, TLAPS

OneUser ==
    /\ Typed = Asks
    /\ Faults \cap {"overlap", "repick"} = {}

\* The transcript ends with the turn of ask a, and the context rolls it back.
EndsWith(a) ==
    /\ retryCtx # None
    /\ retryCtx.ask = a
    /\ retryCtx.count \in Nat
    /\ transcript = Append(SubSeq(transcript, 1, retryCtx.count), a)
    /\ retryCtx.count <= Len(transcript)

Open(a) == a \in owed \cup late

RunningInv ==
    running # None =>
        /\ waiting = {} /\ withheld = None
        /\ EndsWith(running)
        /\ Open(running) /\ named = running
        /\ tried \subseteq visited \cup {serving}

WaitingInv ==
    \A w \in waiting :
        /\ running = None
        /\ \A v \in waiting : v = w
        /\ retryCtx # None /\ retryCtx.ask = w.ask /\ retryCtx.count = Len(transcript)
        /\ Open(w.ask)
        /\ w.kind = "failover" => tried \subseteq visited /\ serving \in visited \ tried

WithheldInv ==
    withheld # None =>
        /\ named = withheld
        /\ Open(withheld)
        /\ \E w \in waiting : w.kind = "failover" /\ w.ask = withheld

ArmedInv == armed => Idle /\ EndsWith(retryCtx.ask)

TurnInv == TypeOK /\ RunningInv /\ WaitingInv /\ WithheldInv /\ ArmedInv /\ ~amiss

-----------------------------------------------------------------------------
(***************************************************************************)
(* The helpers.                                                             *)
(***************************************************************************)
\* Rolling back to before what was appended.
LEMMA CutBack ==
    ASSUME NEW S, NEW s \in Seq(S), NEW a \in S
    PROVE  /\ Append(s, a) \in Seq(S)
           /\ Len(Append(s, a)) = Len(s) + 1
           /\ SubSeq(Append(s, a), 1, Len(s)) = s
<1> DEFINE t == Append(s, a)
<1>1. t \in Seq(S) /\ Len(t) = Len(s) + 1 /\ \A i \in 1 .. Len(s) : t[i] = s[i]
  BY AppendProperties
<1>2. Len(s) \in Nat
  BY LenProperties
<1>3. \A i \in 1 .. Len(s) : i \in 1 .. Len(t)
  BY <1>1, <1>2
<1>4. /\ SubSeq(t, 1, Len(s)) \in Seq(S)
      /\ Len(SubSeq(t, 1, Len(s))) = Len(s)
      /\ \A i \in 1 .. Len(s) : SubSeq(t, 1, Len(s))[i] = t[i]
  BY <1>1, <1>2
<1>5. SubSeq(t, 1, Len(s)) = s
  BY <1>1, <1>4, SeqEqual
<1> QED BY <1>1, <1>5

\* How long the conversation is once it is rolled back.
LEMMA RolledBack ==
    ASSUME NEW S, NEW s \in Seq(S), NEW n \in Nat, n <= Len(s)
    PROVE  SubSeq(s, 1, n) \in Seq(S) /\ Len(SubSeq(s, 1, n)) = n
<1>1. \A i \in 1 .. n : i \in 1 .. Len(s)
  BY LenProperties
<1> QED BY <1>1

\* Whatever comes of it, a provider serves afterwards.
LEMMA RestoreTypes ==
    ASSUME NEW s \in Providers, NEW r \in Providers \cup {None}, Restore(s, r)
    PROVE  serving' \in Providers /\ record' \in Providers \cup {None} /\ stuck' \in BOOLEAN
BY DEF Restore, Restored

-----------------------------------------------------------------------------
(***************************************************************************)
(* Types, for every fault.                                                  *)
(***************************************************************************)
LEMMA TypeInit == Init => TypeOK
<1> SUFFICES ASSUME Init PROVE TypeOK
  OBVIOUS
<1>1. transcript \in Seq(Asks)
  BY EmptySeq DEF Init
<1> QED BY <1>1 DEF Init, TypeOK, Submission

\* The notice of the running turn.
LEMMA TellTypes ==
    ASSUME TypeOK, NEW a \in asked, Tell(a)
    PROVE  /\ retryPending' = FALSE /\ withheld' = None /\ named' = named
           /\ owed' \subseteq owed /\ late' \subseteq late /\ amiss' \in BOOLEAN
<1>1. amiss' \in BOOLEAN
  BY Zenon DEF Tell
<1> QED BY <1>1 DEF Tell

LEMMA RetryTypes ==
    ASSUME TypeOK, NEW kind \in {"failover", "again"}, retryCtx # None, RetryTurn(kind)
    PROVE  /\ transcript' \in Seq(Asks) /\ Len(transcript') = retryCtx.count
           /\ retryCtx.count \in Nat
           /\ waiting' \subseteq Submission
<1>1. /\ retryCtx.ask \in asked
      /\ retryCtx.count \in 0 .. Len(transcript)
      /\ transcript \in Seq(Asks)
  BY DEF TypeOK
<1>2. retryCtx.count \in Nat /\ retryCtx.count <= Len(transcript)
  BY <1>1, LenProperties
<1>3. waiting' \subseteq Submission
  BY <1>1 DEF TypeOK, RetryTurn, Submission
<1> QED BY <1>1, <1>2, <1>3, RolledBack DEF RetryTurn

LEMMA TypeNext == ASSUME TypeOK, [Next]_vars PROVE TypeOK'
<1> USE NoneAssumption, TypedAssumption
<1>1. ASSUME NEW a \in Asks, Submit(a) PROVE TypeOK'
  <2>1. asked \subseteq asked' /\ asked' \subseteq Asks /\ a \in asked'
    BY <1>1 DEF Submit, TypeOK
  <2>2. waiting' \subseteq Submission'
    BY <1>1, <2>1 DEF Submit, TypeOK, Submission
  <2>3. /\ retryCtx' = None \/ retryCtx' \in [ask : Typed \cap asked', count : 0 .. Len(transcript')]
        /\ armed' \in BOOLEAN /\ (armed' => retryCtx' # None)
    <3>1. CASE a \in Typed
      <4>1. /\ retryCtx' \in [ask : Typed \cap asked', count : 0 .. Len(transcript')]
            /\ armed' = FALSE
        BY <1>1, <2>1, <3>1, LenProperties DEF Submit, Prepare, Snapshot, AfterTyping, TypeOK
      <4> QED BY <4>1
    <3>2. CASE a \notin Typed
      BY <1>1, <2>1, <3>2 DEF Submit, TypeOK
    <3> QED BY <3>1, <3>2
  <2>4. /\ visited' \subseteq Providers /\ serving' \in Providers
        /\ record' \in Providers \cup {None} /\ stuck' \in BOOLEAN
    BY <1>1, RestoreTypes DEF Submit, Prepare, TypeOK
  <2> QED BY <1>1, <2>1, <2>2, <2>3, <2>4 DEF Submit, TypeOK
<1>2. ASSUME NEW w \in waiting, Begin(w) PROVE TypeOK'
  <2>1. w.ask \in asked /\ w.ask \in Asks
    BY DEF TypeOK, Submission
  <2>2. transcript' \in Seq(Asks) /\ Len(transcript') = Len(transcript) + 1 /\ Len(transcript) \in Nat
    BY <1>2, <2>1, CutBack, LenProperties DEF Begin, TypeOK
  <2>3. tried' \subseteq Providers
    BY <1>2 DEF Begin, TypeOK
  <2>4. named' \in asked \cup {None}
    BY <1>2, <2>1 DEF Begin, TypeOK
  <2>5. retryCtx' = None \/ retryCtx' \in [ask : Typed \cap asked', count : 0 .. Len(transcript')]
    BY <1>2, <2>2 DEF Begin, TypeOK
  <2>6. waiting' \subseteq Submission' /\ asked' = asked
    BY <1>2 DEF Begin, TypeOK, Submission
  <2>7. running' \in asked' /\ armed' = armed /\ (armed' => retryCtx' # None)
    BY <1>2, <2>1, <2>6 DEF Begin, TypeOK
  <2> QED
    BY <1>2, <2>2, <2>3, <2>4, <2>5, <2>6, <2>7 DEF Begin, providers, TypeOK
<1>3. CASE Finish
  BY <1>3, RestoreTypes, TellTypes DEF Finish, TypeOK, Submission
<1>4. CASE FailOver
  <2>1. PICK next \in Untried(serving) :
          /\ visited' = visited \cup {serving, next}
          /\ LET r == IF record = None THEN configured ELSE record
             IN IF retryCtx # None
                THEN /\ serving' = next
                     /\ record' = r
                     /\ RetryTurn("failover")
                     /\ Withhold(running)
                     /\ UNCHANGED stuck
                ELSE /\ Restore(next, r)
                     /\ Tell(running)
                     /\ UNCHANGED <<transcript, waiting>>
    BY <1>4 DEF FailOver
  <2>2. next \in Providers /\ running \in asked /\ running # None
    BY <1>4 DEF FailOver, Untried, TypeOK
  <2>3. (IF record = None THEN configured ELSE record) \in Providers
    BY DEF TypeOK
  <2>4. CASE retryCtx # None
    <3>1. /\ transcript' \in Seq(Asks) /\ Len(transcript') = retryCtx.count
          /\ retryCtx.count \in Nat /\ waiting' \subseteq Submission
      BY <2>1, <2>4, RetryTypes
    <3> QED BY <1>4, <2>1, <2>2, <2>3, <2>4, <3>1 DEF FailOver, Withhold, TypeOK, Submission
  <2>5. CASE retryCtx = None
    <3>1. serving' \in Providers /\ record' \in Providers \cup {None} /\ stuck' \in BOOLEAN
      BY <2>1, <2>2, <2>3, <2>5, RestoreTypes
    <3>2. /\ retryPending' = FALSE /\ withheld' = None /\ named' = named
          /\ owed' \subseteq owed /\ late' \subseteq late /\ amiss' \in BOOLEAN
      BY <2>1, <2>2, <2>5, TellTypes
    <3> QED BY <1>4, <2>1, <2>2, <2>5, <3>1, <3>2 DEF FailOver, TypeOK, Submission
  <2> QED BY <2>4, <2>5
<1>5. CASE SwitchOutFails
  BY <1>5, RestoreTypes, TellTypes DEF SwitchOutFails, TypeOK, Submission
<1>6. CASE Exhausted
  <2>1. armed' \in BOOLEAN /\ (armed' => retryCtx # None)
    BY <1>6, Zenon DEF Exhausted, TypeOK
  <2> QED BY <1>6, <2>1, RestoreTypes, TellTypes DEF Exhausted, TypeOK, Submission
<1>7. CASE Surface
  <2>1. armed' \in BOOLEAN /\ (armed' => retryCtx # None)
    BY <1>7, Zenon DEF Surface, TypeOK
  <2> QED BY <1>7, <2>1, TellTypes DEF Surface, providers, TypeOK, Submission
<1>8. CASE GraceExpires
  <2>1. amiss' \in BOOLEAN
    BY <1>8, Zenon DEF GraceExpires
  <2> QED BY <1>8, <2>1 DEF GraceExpires, providers, turns, TypeOK, Submission
<1>9. CASE PressRetry
  <2>1. retryCtx # None
    BY <1>9 DEF PressRetry, TypeOK
  <2>2. /\ transcript' \in Seq(Asks) /\ Len(transcript') = retryCtx.count
        /\ retryCtx.count \in Nat /\ waiting' \subseteq Submission
    BY <1>9, <2>1, RetryTypes DEF PressRetry
  <2>3. retryCtx' \in [ask : Typed \cap asked', count : 0 .. Len(transcript')]
    BY <1>9, <2>1, <2>2 DEF PressRetry, TypeOK
  <2>4. waiting' \subseteq Submission' /\ owed' \subseteq asked'
    BY <1>9, <2>1, <2>2, <2>3 DEF PressRetry, TypeOK, Submission
  <2> QED BY <1>9, <2>1, <2>2, <2>3, <2>4 DEF PressRetry, providers, TypeOK
<1>10. CASE Disarm
  BY <1>10 DEF Disarm, providers, notices, turns, TypeOK, Submission
<1>11. CASE SetOptimizer
  BY <1>11 DEF SetOptimizer, notices, turns, TypeOK, Submission
<1>12. ASSUME NEW p \in Providers, PickModel(p) PROVE TypeOK'
  BY <1>12 DEF PickModel, notices, turns, TypeOK, Submission
<1>13. CASE UNCHANGED vars
  BY <1>13 DEF vars, providers, notices, turns, TypeOK, Submission
<1> QED
  BY <1>1, <1>2, <1>3, <1>4, <1>5, <1>6, <1>7, <1>8, <1>9, <1>10, <1>11, <1>12, <1>13 DEF Next

-----------------------------------------------------------------------------
(***************************************************************************)
(* One turn at a time.                                                      *)
(***************************************************************************)
LEMMA TurnInit == Init => TurnInv
<1> SUFFICES ASSUME Init PROVE TurnInv
  OBVIOUS
<1> QED BY TypeInit DEF Init, TurnInv, RunningInv, WaitingInv, WithheldInv, ArmedInv

\* While a turn runs nothing else is under way, and its end is owed.
LEMMA RunningAlone ==
    ASSUME TurnInv, running # None
    PROVE  /\ waiting = {} /\ withheld = None /\ ~retryPending /\ ~armed
           /\ running \in asked /\ EndsWith(running) /\ Open(running) /\ named = running
           /\ tried \subseteq visited \cup {serving}
<1>1. TypeOK /\ RunningInv /\ ArmedInv
  BY DEF TurnInv
<1> QED BY <1>1 DEF TypeOK, RunningInv, ArmedInv, Idle

\* What the end of a turn that is told leaves.
LEMMA TurnTold ==
    ASSUME TurnInv, running # None, running' = None, Tell(running), TypeOK',
           UNCHANGED <<transcript, waiting, retryCtx>>
    PROVE  TurnInv'
<1>1. /\ waiting' = {} /\ withheld' = None /\ running' = None
      /\ EndsWith(running) /\ Open(running) /\ named = running /\ ~amiss
  BY RunningAlone DEF Tell, TurnInv
<1>2. ~amiss'
  BY <1>1 DEF Tell, Open
<1>3. Idle' /\ EndsWith(retryCtx.ask)'
  BY <1>1 DEF Idle, EndsWith
<1> QED
  BY <1>1, <1>2, <1>3 DEF TurnInv, RunningInv, WaitingInv, WithheldInv, ArmedInv

\* A retry that rolls back the turn that ended the conversation.
LEMMA TurnAgain ==
    ASSUME TypeOK, NEW kind \in {"failover", "again"}, waiting = {}, running' = None,
           EndsWith(retryCtx.ask), RetryTurn(kind), UNCHANGED <<retryCtx, late>>,
           retryCtx.ask \in owed' \cup late',
           kind = "failover" => tried' \subseteq visited' /\ serving' \in visited' \ tried'
    PROVE  /\ WaitingInv'
           /\ waiting' = {[ask |-> retryCtx.ask, kind |-> kind]}
           /\ transcript = Append(transcript', retryCtx.ask)
<1>1. retryCtx # None /\ transcript = Append(SubSeq(transcript, 1, retryCtx.count), retryCtx.ask)
  BY DEF EndsWith
<1>2. Len(transcript') = retryCtx.count
  BY <1>1, RetryTypes
<1>3. waiting' = {[ask |-> retryCtx.ask, kind |-> kind]}
  BY DEF RetryTurn
<1>4. WaitingInv'
  BY <1>1, <1>2, <1>3 DEF WaitingInv, Open
<1> QED BY <1>1, <1>3, <1>4 DEF RetryTurn

LEMMA TurnNext == ASSUME OneUser, TurnInv, [Next]_vars PROVE TurnInv'
<1> USE NoneAssumption
<1>t. TypeOK /\ TypeOK'
  BY TypeNext DEF TurnInv
<1>1. ASSUME NEW a \in Asks, Submit(a) PROVE TurnInv'
  <2>1. /\ Idle /\ withheld = None /\ Prepare(a)
        /\ a \in owed' /\ running' = None /\ transcript' = transcript /\ withheld' = None
        /\ waiting' = {[ask |-> a, kind |-> "first"]}
    BY <1>1 DEF Submit, OneUser, Idle, TurnInv, WithheldInv
  <2>2. retryCtx' = [ask |-> a, count |-> Len(transcript)] /\ retryCtx' # None
    BY <1>t, <2>1, LenProperties DEF Prepare, Snapshot, TypeOK
  <2>3. WaitingInv'
    BY <2>1, <2>2 DEF WaitingInv, Open
  <2>4. ~armed' /\ amiss' = amiss
    BY <1>1, <2>1 DEF Submit, Prepare, AfterTyping
  <2> QED BY <1>t, <2>1, <2>3, <2>4 DEF TurnInv, RunningInv, WithheldInv, ArmedInv
<1>2. ASSUME NEW w \in waiting, Begin(w) PROVE TurnInv'
  <2>1. /\ \A v \in waiting : v = w
        /\ retryCtx # None /\ retryCtx.ask = w.ask /\ retryCtx.count = Len(transcript)
        /\ Open(w.ask) /\ w.ask \in Asks /\ w.ask # None
        /\ w.kind = "failover" => tried \subseteq visited
    BY <1>t DEF TurnInv, WaitingInv, TypeOK, Submission
  <2>2. /\ waiting' = {} /\ withheld' = None /\ running' = w.ask /\ ~armed'
        /\ UNCHANGED <<retryCtx, owed, late, amiss, serving, visited>>
        /\ transcript' = Append(transcript, w.ask)
    BY <1>2, <2>1 DEF Begin, providers, TurnInv, ArmedInv, Idle
  <2>3. EndsWith(w.ask)'
    <3>1. /\ Len(transcript) \in Nat /\ Len(transcript') = Len(transcript) + 1
          /\ SubSeq(transcript', 1, Len(transcript)) = transcript
      BY <1>t, <2>1, <2>2, CutBack, LenProperties DEF TypeOK
    <3> QED BY <2>1, <2>2, <3>1 DEF EndsWith
  <2>4. named' = w.ask
    BY <1>2, <2>1 DEF Begin, Continues, TurnInv, WithheldInv
  <2>5. tried' \subseteq visited \cup {serving}
    BY <1>2, <2>1 DEF Begin
  <2> QED
    BY <1>t, <2>1, <2>2, <2>3, <2>4, <2>5
    DEF TurnInv, RunningInv, WaitingInv, WithheldInv, ArmedInv, Open
<1>3. CASE Finish
  BY <1>t, <1>3, TurnTold DEF Finish
<1>4. CASE FailOver
  <2>1. running # None /\ running' = None /\ UNCHANGED <<retryCtx, tried, armed>>
    BY <1>4 DEF FailOver
  <2>2. /\ waiting = {} /\ withheld = None /\ ~armed /\ running \in asked
        /\ EndsWith(running) /\ Open(running) /\ named = running
        /\ tried \subseteq visited \cup {serving}
    BY <2>1, RunningAlone
  <2>3. retryCtx # None /\ retryCtx.ask = running
    BY <2>2 DEF EndsWith
  <2>4. /\ tried' \subseteq visited' /\ serving' \in visited' \ tried'
        /\ RetryTurn("failover") /\ Withhold(running)
    BY <1>4, <2>2, <2>3 DEF FailOver, Untried
  <2>5. WaitingInv' /\ waiting' = {[ask |-> running, kind |-> "failover"]}
    BY <1>t, <2>1, <2>2, <2>3, <2>4, TurnAgain DEF Withhold, Open
  <2>6. WithheldInv'
    BY <2>2, <2>4, <2>5 DEF Withhold, WithheldInv, Open
  <2> QED
    BY <1>t, <2>1, <2>2, <2>4, <2>5, <2>6 DEF TurnInv, RunningInv, ArmedInv, Withhold
<1>5. CASE SwitchOutFails
  BY <1>t, <1>5, TurnTold DEF SwitchOutFails
<1>6. CASE Exhausted
  BY <1>t, <1>6, TurnTold DEF Exhausted
<1>7. CASE Surface
  BY <1>t, <1>7, TurnTold DEF Surface
<1>8. CASE GraceExpires
  <2>1. /\ withheld # None /\ named = withheld /\ Open(withheld) /\ ~amiss
        /\ \E w \in waiting : w.kind = "failover" /\ w.ask = withheld
    BY <1>8 DEF GraceExpires, TurnInv, WithheldInv
  <2>2. running = None
    BY <2>1 DEF TurnInv, WaitingInv
  <2>3. ~amiss' /\ withheld' = None /\ owed' \cup late' = owed \cup late
        /\ UNCHANGED <<running, waiting, transcript, retryCtx, tried, visited, serving, armed>>
    BY <1>8, <2>1 DEF GraceExpires, Open, providers, turns
  <2>4. WaitingInv'
    BY <2>2, <2>3 DEF TurnInv, WaitingInv, Open
  <2>5. ArmedInv'
    BY <2>3 DEF TurnInv, ArmedInv, Idle, EndsWith
  <2> QED BY <1>t, <2>2, <2>3, <2>4, <2>5 DEF TurnInv, RunningInv, WithheldInv
<1>9. CASE PressRetry
  <2>1. Idle /\ EndsWith(retryCtx.ask) /\ withheld = None /\ RetryTurn("again") /\ ~armed'
    BY <1>9 DEF PressRetry, TurnInv, ArmedInv, WithheldInv, Idle
  <2>2. WaitingInv'
    BY <1>9, <1>t, <2>1, TurnAgain DEF PressRetry, Idle
  <2> QED
    BY <1>9, <1>t, <2>1, <2>2 DEF PressRetry, Idle, TurnInv, RunningInv, WithheldInv, ArmedInv
<1>10. CASE Disarm
  BY <1>10, <1>t
  DEF Disarm, providers, notices, turns, TurnInv, RunningInv, WaitingInv, WithheldInv, ArmedInv,
      EndsWith, Open
<1>11. CASE SetOptimizer
  BY <1>11, <1>t
  DEF SetOptimizer, notices, turns, TurnInv, RunningInv, WaitingInv, WithheldInv, ArmedInv,
      EndsWith, Open, Idle
<1>12. ASSUME NEW p \in Providers, PickModel(p) PROVE TurnInv'
  <2>1. Idle
    BY <1>12 DEF PickModel, OneUser
  <2> QED
    BY <1>12, <1>t, <2>1
    DEF PickModel, notices, turns, TurnInv, RunningInv, WaitingInv, WithheldInv, ArmedInv,
        EndsWith, Open, Idle
<1>13. CASE UNCHANGED vars
  BY <1>13, <1>t
  DEF vars, providers, notices, turns, TurnInv, RunningInv, WaitingInv, WithheldInv, ArmedInv,
      EndsWith, Open, Idle
<1> QED
  BY <1>1, <1>2, <1>3, <1>4, <1>5, <1>6, <1>7, <1>8, <1>9, <1>10, <1>11, <1>12, <1>13 DEF Next

-----------------------------------------------------------------------------
(***************************************************************************)
(* What follows.                                                            *)
(***************************************************************************)
\* Whatever fails, every variable keeps its type: a retry is of an ask that
\* was typed, never rolls back to beyond the end of the conversation, and is
\* flagged as pending exactly while a failure is withheld
\* (core/turn-event-wiring.ts:303).
THEOREM TypeCorrect == Spec => []TypeOK
<1>1. TypeOK /\ [Next]_vars => TypeOK'
  BY TypeNext
<1> QED BY <1>1, TypeInit, PTL DEF Spec

\* A user turn is told once and under its own name, whatever number of
\* providers it is tried on (core/turn-event-wiring.ts:209).
THEOREM ToldOnce == OneUser => (Spec => []OneNotice)
<1> SUFFICES ASSUME OneUser PROVE Spec => []OneNotice
  OBVIOUS
<1>1. TurnInv /\ [Next]_vars => TurnInv'
  BY TurnNext
<1>2. TurnInv => OneNotice
  BY DEF TurnInv, OneNotice
<1> QED BY <1>1, <1>2, TurnInit, PTL DEF Spec

\* Which action a submission comes from.
LEMMA RetriedFrom ==
    ASSUME OneUser, TurnInv, [Next]_vars, NEW w \in waiting' \ waiting, w.kind # "first"
    PROVE  \/ /\ w.kind = "failover" /\ running = w.ask
              /\ transcript = Append(transcript', w.ask)
           \/ /\ w.kind = "again" /\ running = None
              /\ transcript = Append(transcript', w.ask)
<1>1. CASE FailOver
  <2>1. running # None /\ waiting = {} /\ EndsWith(running) /\ retryCtx.ask = running
    BY <1>1, RunningAlone DEF FailOver, EndsWith
  <2>2. RetryTurn("failover")
    BY <1>1, <2>1 DEF FailOver, EndsWith
  <2> QED BY <2>1, <2>2 DEF RetryTurn, EndsWith
<1>2. CASE PressRetry
  <2>1. Idle /\ EndsWith(retryCtx.ask) /\ RetryTurn("again")
    BY <1>2 DEF PressRetry, TurnInv, ArmedInv
  <2> QED BY <2>1 DEF RetryTurn, EndsWith, Idle
<1>3. CASE ~FailOver /\ ~PressRetry
  <2>1. \A v \in waiting' \ waiting : v.kind = "first"
    BY <1>3
    DEF Next, Submit, Begin, Finish, SwitchOutFails, Exhausted, Surface, GraceExpires, Disarm,
        SetOptimizer, PickModel, vars, turns
  <2> QED BY <2>1
<1> QED BY <1>1, <1>2, <1>3

\* A failover retries the turn that failed, and nothing but its messages leaves
\* the conversation (core/stream-event-wiring.ts:199).
THEOREM RetriesTheFailedTurn == OneUser => (Spec => RetryIsFailedTurn)
<1> SUFFICES ASSUME OneUser PROVE Spec => RetryIsFailedTurn
  OBVIOUS
<1> DEFINE ByFailover == \A w \in waiting' \ waiting :
      w.kind = "failover" => running = w.ask /\ transcript = Append(transcript', w.ask)
<1>1. TurnInv /\ [Next]_vars => TurnInv'
  BY TurnNext
<1>2. TurnInv /\ [Next]_vars => [ByFailover]_vars
  BY RetriedFrom
<1> HIDE DEF ByFailover
<1>3. Spec => [][ByFailover]_vars
  BY <1>1, <1>2, TurnInit, PTL DEF Spec
<1> QED BY <1>3 DEF RetryIsFailedTurn, ByFailover

\* The retry key, however late it is pressed, retries the turn that failed last,
\* and never under a turn that runs (shell/retry-affordance.ts:2).
THEOREM KeyRetriesTheFailedTurn == OneUser => (Spec => RetryKeyIsFailedTurn)
<1> SUFFICES ASSUME OneUser PROVE Spec => RetryKeyIsFailedTurn
  OBVIOUS
<1> DEFINE ByKey == \A w \in waiting' \ waiting :
      w.kind = "again" => running = None /\ transcript = Append(transcript', w.ask)
<1>1. TurnInv /\ [Next]_vars => TurnInv'
  BY TurnNext
<1>2. TurnInv /\ [Next]_vars => [ByKey]_vars
  BY RetriedFrom
<1> HIDE DEF ByKey
<1>3. Spec => [][ByKey]_vars
  BY <1>1, <1>2, TurnInit, PTL DEF Spec
<1> QED BY <1>3 DEF RetryKeyIsFailedTurn, ByKey

\* No provider is tried twice in one user turn
\* (core/stream-event-wiring.ts:548).
THEOREM NeverTriedTwice == OneUser => (Spec => NoPingPong)
<1> SUFFICES ASSUME OneUser PROVE Spec => NoPingPong
  OBVIOUS
<1> DEFINE Fresh == \A w \in waiting \ waiting' : w.kind = "failover" => serving \notin tried
<1>1. TurnInv /\ [Next]_vars => TurnInv'
  BY TurnNext
<1>2. TurnInv /\ [Next]_vars => [Fresh]_vars
  BY DEF TurnInv, WaitingInv
<1> HIDE DEF Fresh
<1>3. Spec => [][Fresh]_vars
  BY <1>1, <1>2, TurnInit, PTL DEF Spec
<1> QED BY <1>3 DEF NoPingPong, Fresh

-----------------------------------------------------------------------------
(***************************************************************************)
(* The user's selection.                                                    *)
(***************************************************************************)
SelectionInv ==
    /\ TypeOK
    /\ record \in {None, configured}
    /\ record = None => serving = configured

\* Switching back ends at the configured model, or says that it did not.
LEMMA RestoreSelects ==
    ASSUME NEW s, NEW r \in {None, configured}, r = None => s = configured, Restore(s, r)
    PROVE  /\ record' \in {None, configured}
           /\ record' = None => serving' = configured
           /\ serving' = configured \/ stuck'
<1>1. PICK after \in Restored(s, r) :
        serving' = after[1] /\ record' = after[2] /\ stuck' = (after[2] # None)
  BY DEF Restore
<1>2. CASE after = <<configured, None>>
  BY <1>1, <1>2
<1>3. CASE after = <<s, r>> /\ r # None
  <2>1. stuck'
    BY <1>1, <1>3
  <2> QED BY <1>1, <1>3, <2>1
<1> QED BY <1>2, <1>3 DEF Restored

LEMMA SelectionNext ==
    ASSUME "repick" \notin Faults, SelectionInv, [Next]_vars PROVE SelectionInv'
<1> USE NoneAssumption
<1>t. TypeOK /\ TypeOK'
  BY TypeNext DEF SelectionInv
<1>s. record \in {None, configured} /\ (record = None => serving = configured)
  BY DEF SelectionInv
<1>1. CASE UNCHANGED <<configured, serving, record>>
  BY <1>t, <1>s, <1>1 DEF SelectionInv
<1>2. CASE UNCHANGED configured /\ Restore(serving, record)
  BY <1>t, <1>s, <1>2, RestoreSelects DEF SelectionInv
<1>3. CASE FailOver
  <2>1. PICK next \in Providers :
          IF retryCtx # None THEN serving' = next /\ record' = configured
          ELSE Restore(next, configured)
    BY <1>s, <1>3 DEF FailOver, Untried
  <2>2. configured \in Providers /\ configured' = configured
    BY <1>t, <1>3 DEF FailOver, TypeOK
  <2>3. configured # None
    BY <2>2
  <2>4. CASE retryCtx # None
    BY <1>t, <2>1, <2>2, <2>3, <2>4 DEF SelectionInv
  <2>5. CASE retryCtx = None
    BY <1>t, <2>1, <2>2, <2>3, <2>5, RestoreSelects DEF SelectionInv
  <2> QED BY <2>4, <2>5
<1>4. ASSUME NEW p \in Providers, PickModel(p) PROVE SelectionInv'
  BY <1>t, <1>4 DEF PickModel, SelectionInv
<1>5. ASSUME NEW a \in Asks, Submit(a) PROVE SelectionInv'
  BY <1>1, <1>2, <1>5 DEF Submit, Prepare
<1>6. CASE ~FailOver /\ (\A p \in Providers : ~PickModel(p)) /\ (\A a \in Asks : ~Submit(a))
  BY <1>1, <1>2, <1>6
  DEF Next, Begin, Finish, SwitchOutFails, Exhausted, Surface, GraceExpires, PressRetry, Disarm,
      SetOptimizer, vars, providers
<1> QED BY <1>3, <1>4, <1>5, <1>6

\* As long as a model is picked between failovers only, header and footer
\* have the record to tell a fallback by, also after a refused switch back
\* (core/stream-event-wiring.ts:403).
THEOREM DivergenceAlwaysShown ==
    "repick" \notin Faults => (Spec => []DivergenceIsShown)
<1> SUFFICES ASSUME "repick" \notin Faults PROVE Spec => []DivergenceIsShown
  OBVIOUS
<1>1. Init => SelectionInv
  BY TypeInit DEF Init, SelectionInv
<1>2. SelectionInv /\ [Next]_vars => SelectionInv'
  BY SelectionNext
<1>3. SelectionInv => DivergenceIsShown
  BY DEF SelectionInv, DivergenceIsShown
<1> QED BY <1>1, <1>2, <1>3, PTL DEF Spec

\* An ask that waits for its first turn finds the selection in place.
FirstInv ==
    /\ TurnInv /\ SelectionInv
    /\ \A w \in waiting : w.kind = "first" => serving = configured \/ stuck

LEMMA FirstNext == ASSUME OneUser, FirstInv, [Next]_vars PROVE FirstInv'
<1>1. TurnInv' /\ SelectionInv'
  BY TurnNext, SelectionNext DEF FirstInv, OneUser
<1>2. ASSUME NEW a \in Asks, Submit(a) PROVE FirstInv'
  <2>1. Prepare(a) /\ configured' = configured
    BY <1>2 DEF Submit, OneUser
  <2>2. serving' = configured' \/ stuck'
    BY <2>1, RestoreSelects DEF Prepare, FirstInv, SelectionInv
  <2> QED BY <1>1, <2>2 DEF FirstInv
<1>3. CASE running # None
  <2>1. waiting = {}
    BY <1>3, RunningAlone DEF FirstInv
  <2>2. \A w \in waiting' : w.kind # "first" \/ \E a \in Asks : Submit(a)
    BY <1>3, <2>1
    DEF Next, Begin, Finish, FailOver, RetryTurn, SwitchOutFails, Exhausted, Surface,
        GraceExpires, PressRetry, Disarm, SetOptimizer, PickModel, vars, turns
  <2> QED BY <1>1, <1>2, <2>2 DEF FirstInv
<1>4. ASSUME running = None, NEW p \in Providers, PickModel(p) PROVE FirstInv'
  <2>1. Idle /\ waiting' = waiting
    BY <1>4 DEF PickModel, OneUser, turns
  <2> QED BY <1>1, <2>1 DEF FirstInv, Idle
<1>5. CASE running = None /\ (\A p \in Providers : ~PickModel(p)) /\ (\A a \in Asks : ~Submit(a))
  <2>1. UNCHANGED <<serving, configured, stuck>>
    BY <1>5
    DEF Next, Begin, Finish, FailOver, SwitchOutFails, Exhausted, Surface, GraceExpires,
        PressRetry, Disarm, SetOptimizer, vars, providers
  <2>2. \A w \in waiting' : w.kind = "first" => w \in waiting
    BY <1>5
    DEF Next, Begin, Finish, FailOver, RetryTurn, SwitchOutFails, Exhausted, Surface,
        GraceExpires, PressRetry, Disarm, SetOptimizer, vars, turns
  <2> QED BY <1>1, <2>1, <2>2 DEF FirstInv
<1> QED BY <1>2, <1>3, <1>4, <1>5

\* Every ask starts on the user's selection unless the registry refused to
\* switch back (core/stream-event-wiring.ts:398).
THEOREM StartsOnSelection == OneUser => (Spec => ConfiguredFirst)
<1> SUFFICES ASSUME OneUser PROVE Spec => ConfiguredFirst
  OBVIOUS
<1> DEFINE Selected ==
      \A w \in waiting \ waiting' : w.kind = "first" => serving = configured \/ stuck
<1>1. Init => FirstInv
  BY TurnInit, TypeInit DEF Init, SelectionInv, FirstInv
<1>2. FirstInv /\ [Next]_vars => FirstInv'
  BY FirstNext
<1>3. FirstInv /\ [Next]_vars => [Selected]_vars
  BY DEF FirstInv
<1> HIDE DEF Selected
<1>4. Spec => [][Selected]_vars
  BY <1>1, <1>2, <1>3, PTL DEF Spec
<1> QED BY <1>4 DEF ConfiguredFirst, Selected
=============================================================================
