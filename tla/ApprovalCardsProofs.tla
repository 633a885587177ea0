------------------------ MODULE ApprovalCardsProofs ------------------------
(* Proofs about ApprovalCards for any asks, origins and shapes.              *)
EXTENDS ApprovalCards, TLAPS

\* A key on its way to a card that reads keys was meant for that card.
KeyMeant == hit # None /\ Reads => hit.aim = card.ask

Inv == TypeOK /\ CardIsOpen /\ KeyMeant

LEMMA OpenedType ==
    ASSUME NEW a \in Asks, NEW via \in {"prompt", "broker"}
    PROVE  /\ Opened(a, via) \in Card
           /\ Opened(a, via).ask = a
           /\ Opened(a, via).fresh = TRUE
           /\ Opened(a, via).via = via
           /\ Opened(a, via) # None
<1>1. Opened(a, via) \in Card
  <2>1. (IF Shape[a] = "exec" THEN "answer" ELSE "no") \in {"no", "reason", "answer"}
    OBVIOUS
  <2> QED BY <2>1 DEF Opened, Card
<1>2. Opened(a, via).ask = a /\ Opened(a, via).via = via
  BY DEF Opened
<1>3. Opened(a, via).fresh = TRUE
  BY Zenon DEF Opened
<1> QED BY <1>1, <1>2, <1>3, NoneAssumption

LEMMA PromptType ==
    ASSUME TypeOK, NEW a \in Asks, Prompt(a)
    PROVE  /\ card' \in Card
           /\ card'.ask = a /\ card'.fresh = TRUE /\ card'.via = "prompt" /\ card' # None
           /\ excused' \subseteq Asks
<1> DEFINE o == Opened(a, "prompt")
<1>1. o \in Card /\ o.ask = a /\ o.fresh = TRUE /\ o.via = "prompt" /\ o # None
  BY OpenedType
<1>2. card' = o
  BY DEF Prompt
<1>3. excused' \subseteq Asks
  <2>1. CASE card = None
    BY <2>1 DEF Prompt, TypeOK
  <2>2. CASE card # None
    <3>1. card.ask \in Asks
      BY <2>2 DEF TypeOK, Card
    <3> QED BY <2>2, <3>1 DEF Prompt, TypeOK
  <2> QED BY <2>1, <2>2
<1> HIDE DEF o
<1> QED BY <1>1, <1>2, <1>3

LEMMA EditedType ==
    ASSUME NEW c \in Card, NEW k \in Keys, NEW d \in Edited(c, k)
    PROVE  d \in Card /\ d.ask = c.ask /\ d.fresh = c.fresh
<1> DEFINE R == [c EXCEPT !.reply = "reason"]
           N == [c EXCEPT !.reply = "no"]
           S == [c EXCEPT !.submenu = TRUE]
           T == [c EXCEPT !.submenu = FALSE]
<1>1. d \in {c, R, N, S, T}
  BY SMTT(30) DEF Edited, NamesTier
<1> QED BY <1>1 DEF Card

LEMMA InitInv == Init => Inv
<1> SUFFICES ASSUME Init PROVE Inv
  OBVIOUS
<1>1. TypeOK
  <2>1. deferred \in Seq(Asks)
    BY DEF Init
  <2>2. aborted \in BOOLEAN
    BY Zenon DEF Init
  <2> QED BY <2>1, <2>2 DEF Init, TypeOK
<1>2. CardIsOpen
  BY DEF Init, CardIsOpen
<1>3. KeyMeant
  BY DEF Init, KeyMeant
<1> QED BY <1>1, <1>2, <1>3 DEF Inv

LEMMA TypeStep ==
    ASSUME TypeOK, CardIsOpen, [Next]_vars
    PROVE  TypeOK'
<1> USE ApprovalAssumption, NoneAssumption DEF TypeOK
<1>1. ASSUME NEW a \in Asks, RaiseLocal(a) PROVE TypeOK'
  <2>1. card' \in Card /\ excused' \subseteq Asks
    BY <1>1, PromptType DEF RaiseLocal
  <2> QED BY <1>1, <2>1 DEF RaiseLocal, TellOpen
<1>2. ASSUME NEW a \in Asks, RaiseDirect(a) PROVE TypeOK'
  <2>1. card' \in Card /\ excused' \subseteq Asks
    BY <1>2, PromptType DEF RaiseDirect
  <2> QED BY <1>2, <2>1 DEF RaiseDirect
<1>3. ASSUME NEW a \in Asks, RaiseBroker(a) PROVE TypeOK'
  BY <1>3 DEF RaiseBroker, TellOpen
<1>4. ASSUME NEW a \in Asks, Claim(a) PROVE TypeOK'
  BY <1>4 DEF Claim, TellOpen
<1>5. ASSUME NEW a \in Asks, DecideElsewhere(a) PROVE TypeOK'
  BY <1>5 DEF DecideElsewhere, SettleRecord, ClearCard
<1>6. ASSUME NEW a \in Asks, AnswerArrives(a) PROVE TypeOK'
  BY <1>6 DEF AnswerArrives, SettleRecord, ClearCard
<1>7. ASSUME NEW a \in Asks, AnswerRefused(a) PROVE TypeOK'
  BY <1>7 DEF AnswerRefused
<1>8. CASE RunDeferred
  <2>1. Head(deferred) \in Asks /\ Tail(deferred) \in Seq(Asks)
    BY <1>8 DEF RunDeferred
  <2> QED BY <1>8, <2>1, OpenedType DEF RunDeferred, OpenDeferred
<1>9. CASE SettleWindow
  BY <1>9 DEF SettleWindow, Card
<1>10. ASSUME NEW k \in Keys, Press(k) PROVE TypeOK'
  BY <1>10 DEF Press, Reads, Hit, Card
<1>11. CASE KeyElsewhere
  BY <1>11 DEF KeyElsewhere
<1>12. CASE KeyEdits
  <2>1. card \in Card /\ hit.key \in Keys
    BY <1>12 DEF KeyEdits, Reads, Hit
  <2>2. card' \in Card
    BY <1>12, <2>1, EditedType DEF KeyEdits
  <2> QED BY <1>12, <2>2 DEF KeyEdits
<1>13. CASE KeyAnswers
  <2>1. card \in Card
    BY <1>13 DEF KeyAnswers, Reads
  <2>2. aborted' \in BOOLEAN
    BY <1>13 DEF KeyAnswers, Aborts, Hunks
  <2>3. sent' \in [Asks -> {"prompt", "broker", None}] /\ status' \in [Asks -> {"new", "pending", "claimed", "settled"}]
    BY <1>13, <2>1 DEF KeyAnswers, Card
  <2> QED BY <1>13, <2>2, <2>3 DEF KeyAnswers
<1>14. CASE UNCHANGED vars
  BY <1>14 DEF vars
<1> QED
  BY <1>1, <1>2, <1>3, <1>4, <1>5, <1>6, <1>7, <1>8, <1>9, <1>10, <1>11, <1>12, <1>13, <1>14 DEF Next

(* The card stays open: every step that settles an ask takes its card down.  *)
LEMMA OpenStep ==
    ASSUME TypeOK, CardIsOpen, [Next]_vars
    PROVE  CardIsOpen'
<1> USE DEF TypeOK, CardIsOpen, Open
<1>1. ASSUME NEW a \in Asks, RaiseLocal(a) PROVE CardIsOpen'
  BY <1>1, PromptType DEF RaiseLocal
<1>2. ASSUME NEW a \in Asks, RaiseDirect(a) PROVE CardIsOpen'
  BY <1>2, PromptType DEF RaiseDirect
<1>3. ASSUME NEW a \in Asks, RaiseBroker(a) PROVE CardIsOpen'
  BY <1>3 DEF RaiseBroker, Card
<1>4. ASSUME NEW a \in Asks, Claim(a) PROVE CardIsOpen'
  BY <1>4 DEF Claim, Card
<1>5. ASSUME NEW a \in Asks, DecideElsewhere(a) PROVE CardIsOpen'
  BY <1>5 DEF DecideElsewhere, SettleRecord, ClearCard, Shows, Card
<1>6. ASSUME NEW a \in Asks, AnswerArrives(a) PROVE CardIsOpen'
  BY <1>6 DEF AnswerArrives, SettleRecord, ClearCard, Shows, Card
<1>7. ASSUME NEW a \in Asks, AnswerRefused(a) PROVE CardIsOpen'
  BY <1>7 DEF AnswerRefused
<1>8. CASE RunDeferred
  <2>1. Head(deferred) \in Asks
    BY <1>8 DEF RunDeferred
  <2>2. CASE card = None /\ Open(Head(deferred))
    <3>1. card' = Opened(Head(deferred), "broker")
      BY <1>8, <2>2 DEF RunDeferred, OpenDeferred
    <3> QED BY <1>8, <2>1, <2>2, <3>1, OpenedType DEF RunDeferred
  <2>3. CASE ~(card = None /\ Open(Head(deferred)))
    BY <1>8, <2>3 DEF RunDeferred, OpenDeferred
  <2> QED BY <2>2, <2>3
<1>9. CASE SettleWindow
  BY <1>9 DEF SettleWindow, Card
<1>10. ASSUME NEW k \in Keys, Press(k) PROVE CardIsOpen'
  BY <1>10 DEF Press
<1>11. CASE KeyElsewhere
  BY <1>11 DEF KeyElsewhere
<1>12. CASE KeyEdits
  <2>1. card \in Card /\ card # None /\ hit.key \in Keys
    BY <1>12 DEF KeyEdits, Reads, Hit
  <2>2. card'.ask = card.ask
    BY <1>12, <2>1, EditedType DEF KeyEdits
  <2> QED BY <1>12, <2>1, <2>2 DEF KeyEdits
<1>13. CASE KeyAnswers
  BY <1>13 DEF KeyAnswers
<1>14. CASE UNCHANGED vars
  BY <1>14 DEF vars
<1> QED
  BY <1>1, <1>2, <1>3, <1>4, <1>5, <1>6, <1>7, <1>8, <1>9, <1>10, <1>11, <1>12, <1>13, <1>14 DEF Next

(* A key on its way keeps its meaning: a card that comes while it travels is  *)
(* fresh, and stays so until the key has been read.                           *)
LEMMA MeantStep ==
    ASSUME TypeOK, KeyMeant, [Next]_vars
    PROVE  KeyMeant'
<1> USE DEF TypeOK, KeyMeant, Reads
<1>1. ASSUME NEW a \in Asks, RaiseLocal(a) PROVE KeyMeant'
  BY <1>1, PromptType DEF RaiseLocal
<1>2. ASSUME NEW a \in Asks, RaiseDirect(a) PROVE KeyMeant'
  BY <1>2, PromptType DEF RaiseDirect
<1>3. ASSUME NEW a \in Asks, RaiseBroker(a) PROVE KeyMeant'
  BY <1>3 DEF RaiseBroker
<1>4. ASSUME NEW a \in Asks, Claim(a) PROVE KeyMeant'
  BY <1>4 DEF Claim
<1>5. ASSUME NEW a \in Asks, DecideElsewhere(a) PROVE KeyMeant'
  BY <1>5 DEF DecideElsewhere, SettleRecord, ClearCard
<1>6. ASSUME NEW a \in Asks, AnswerArrives(a) PROVE KeyMeant'
  BY <1>6 DEF AnswerArrives, SettleRecord, ClearCard
<1>7. ASSUME NEW a \in Asks, AnswerRefused(a) PROVE KeyMeant'
  BY <1>7 DEF AnswerRefused
<1>8. CASE RunDeferred
  <2>1. Head(deferred) \in Asks
    BY <1>8 DEF RunDeferred
  <2>2. CASE card = None /\ Open(Head(deferred))
    <3>1. card' = Opened(Head(deferred), "broker")
      BY <1>8, <2>2 DEF RunDeferred, OpenDeferred
    <3>2. card' # None /\ card'.fresh = TRUE
      BY <2>1, <3>1, OpenedType
    <3> QED BY <3>2
  <2>3. CASE ~(card = None /\ Open(Head(deferred)))
    BY <1>8, <2>3 DEF RunDeferred, OpenDeferred
  <2> QED BY <2>2, <2>3
<1>9. CASE SettleWindow
  BY <1>9 DEF SettleWindow
<1>10. ASSUME NEW k \in Keys, Press(k) PROVE KeyMeant'
  BY <1>10 DEF Press
<1>11. CASE KeyElsewhere
  BY <1>11 DEF KeyElsewhere
<1>12. CASE KeyEdits
  BY <1>12 DEF KeyEdits
<1>13. CASE KeyAnswers
  BY <1>13 DEF KeyAnswers
<1>14. CASE UNCHANGED vars
  BY <1>14 DEF vars
<1> QED
  BY <1>1, <1>2, <1>3, <1>4, <1>5, <1>6, <1>7, <1>8, <1>9, <1>10, <1>11, <1>12, <1>13, <1>14 DEF Next

LEMMA InvIsInvariant == Spec => []Inv
<1>1. Inv /\ [Next]_vars => Inv'
  BY TypeStep, OpenStep, MeantStep DEF Inv
<1> QED BY InitInv, <1>1, PTL DEF Spec

(* Each lone ask is shown or about to be tried for, in whatever order its      *)
(* publication, its prompt and the microtasks come.                            *)
Queued(a) == \E i \in 1..Len(deferred) : deferred[i] = a
Kept(a) == Open(a) /\ sent[a] = None /\ a \notin excused => Shows(a) \/ Queued(a)
LoneInv == \A a \in Asks : Kept(a)

LEMMA TellKeeps ==
    ASSUME TypeOK, NEW a \in Asks, TellOpen(a)
    PROVE  /\ Shows(a) \/ Queued(a)'
           /\ \A b \in Asks : Queued(b) => Queued(b)'
<1>1. CASE Shows(a)
  BY <1>1 DEF TellOpen, Queued
<1>2. CASE ~Shows(a)
  <2>1. deferred' = Append(deferred, a) /\ deferred \in Seq(Asks)
    BY <1>2 DEF TellOpen, TypeOK
  <2>2. Len(deferred') = Len(deferred) + 1 /\ deferred'[Len(deferred')] = a
    BY <2>1
  <2>3. \A i \in 1..Len(deferred) : i \in 1..Len(deferred') /\ deferred'[i] = deferred[i]
    BY <2>1
  <2>4. Len(deferred') \in 1..Len(deferred')
    BY <2>1, <2>2
  <2> QED BY <2>2, <2>3, <2>4 DEF Queued
<1> QED BY <1>1, <1>2

LEMMA TailKeeps ==
    ASSUME TypeOK, deferred # <<>>, deferred' = Tail(deferred), NEW b \in Asks, Queued(b)
    PROVE  b = Head(deferred) \/ Queued(b)'
<1>1. PICK i \in 1..Len(deferred) : deferred[i] = b
  BY DEF Queued
<1>2. CASE i = 1
  BY <1>1, <1>2 DEF TypeOK
<1>3. CASE i # 1
  <2>1. i - 1 \in 1..Len(deferred') /\ deferred'[i - 1] = deferred[i]
    BY <1>3 DEF TypeOK
  <2> QED BY <1>1, <2>1 DEF Queued
<1> QED BY <1>2, <1>3

LEMMA LoneStep ==
    ASSUME TypeOK, TypeOK', LoneInv, [Next]_vars
    PROVE  LoneInv'
<1> SUFFICES ASSUME NEW b \in Asks PROVE Kept(b)'
  BY DEF LoneInv
<1> USE DEF TypeOK, Kept, LoneInv, Open, Shows
<1>1. ASSUME NEW a \in Asks, RaiseLocal(a) PROVE Kept(b)'
  <2>1. Queued(b) => Queued(b)'
    BY <1>1, TellKeeps DEF RaiseLocal
  <2>2. card' # None /\ card'.ask = a
    BY <1>1, PromptType DEF RaiseLocal
  <2>3. card # None => card.ask \in excused'
    BY <1>1 DEF RaiseLocal, Prompt
  <2>4. excused \subseteq excused' /\ sent' = sent
    BY <1>1 DEF RaiseLocal, Prompt
  <2>5. b # a => status'[b] = status[b]
    BY <1>1 DEF RaiseLocal
  <2> QED BY <2>1, <2>2, <2>3, <2>4, <2>5
<1>2. ASSUME NEW a \in Asks, RaiseDirect(a) PROVE Kept(b)'
  <2>1. Queued(b) => Queued(b)'
    BY <1>2 DEF RaiseDirect, Queued
  <2>2. card' # None /\ card'.ask = a
    BY <1>2, PromptType DEF RaiseDirect
  <2>3. card # None => card.ask \in excused'
    BY <1>2 DEF RaiseDirect, Prompt
  <2>4. excused \subseteq excused' /\ sent' = sent
    BY <1>2 DEF RaiseDirect, Prompt
  <2>5. b # a => status'[b] = status[b]
    BY <1>2 DEF RaiseDirect
  <2> QED BY <2>1, <2>2, <2>3, <2>4, <2>5
<1>3. ASSUME NEW a \in Asks, RaiseBroker(a) PROVE Kept(b)'
  <2>1. (Queued(b) => Queued(b)') /\ (Shows(a) \/ Queued(a)')
    BY <1>3, TellKeeps DEF RaiseBroker
  <2>2. b # a => status'[b] = status[b]
    BY <1>3 DEF RaiseBroker
  <2> QED BY <1>3, <2>1, <2>2 DEF RaiseBroker
<1>4. ASSUME NEW a \in Asks, Claim(a) PROVE Kept(b)'
  <2>1. (Queued(b) => Queued(b)') /\ (Shows(a) \/ Queued(a)')
    BY <1>4, TellKeeps DEF Claim
  <2>2. b # a => status'[b] = status[b]
    BY <1>4 DEF Claim
  <2> QED BY <1>4, <2>1, <2>2 DEF Claim
<1>5. ASSUME NEW a \in Asks, DecideElsewhere(a) PROVE Kept(b)'
  BY <1>5 DEF DecideElsewhere, SettleRecord, ClearCard, Queued
<1>6. ASSUME NEW a \in Asks, AnswerArrives(a) PROVE Kept(b)'
  <2>1. CASE Open(a)
    BY <1>6, <2>1 DEF AnswerArrives, SettleRecord, ClearCard, Queued
  <2>2. CASE ~Open(a)
    BY <1>6, <2>2 DEF AnswerArrives, Queued
  <2> QED BY <2>1, <2>2
<1>7. ASSUME NEW a \in Asks, AnswerRefused(a) PROVE Kept(b)'
  BY <1>7 DEF AnswerRefused, Queued
<1>8. CASE RunDeferred
  <2> DEFINE h == Head(deferred)
  <2>0. h \in Asks /\ deferred # <<>> /\ deferred' = Tail(deferred)
    BY <1>8 DEF RunDeferred
  <2>1. Queued(b) => b = h \/ Queued(b)'
    BY <2>0, TailKeeps
  <2>2. status' = status /\ sent' = sent
    BY <1>8 DEF RunDeferred
  <2>3. CASE card = None /\ Open(h)
    <3>1. card' = Opened(h, "broker") /\ excused' = excused
      BY <1>8, <2>3 DEF RunDeferred, OpenDeferred
    <3>2. card' # None /\ card'.ask = h
      BY <2>0, <3>1, OpenedType
    <3> HIDE DEF h
    <3> QED BY <2>1, <2>2, <2>3, <3>1, <3>2
  <2>4. CASE ~(card = None /\ Open(h))
    <3>1. card' = card /\ (card # None /\ ~Shows(h) => h \in excused') /\ excused \subseteq excused'
      BY <1>8, <2>4 DEF RunDeferred, OpenDeferred
    <3> HIDE DEF h
    <3> QED BY <2>1, <2>2, <2>4, <3>1
  <2> QED BY <2>3, <2>4
<1>9. CASE SettleWindow
  <2>1. card # None /\ card' # None /\ card'.ask = card.ask
    <3>1. card' = [card EXCEPT !.fresh = FALSE] /\ card # None /\ card \in Card
      BY <1>9 DEF SettleWindow
    <3>2. card' \in Card /\ card'.ask = card.ask
      BY <3>1 DEF Card
    <3> QED BY <3>1, <3>2, NoneAssumption
  <2> QED BY <1>9, <2>1 DEF SettleWindow, Queued
<1>10. ASSUME NEW k \in Keys, Press(k) PROVE Kept(b)'
  BY <1>10 DEF Press, Queued
<1>11. CASE KeyElsewhere
  BY <1>11 DEF KeyElsewhere, Queued
<1>12. CASE KeyEdits
  <2>1. card \in Card /\ card # None /\ hit.key \in Keys
    BY <1>12 DEF KeyEdits, Reads, Hit
  <2>2. card'.ask = card.ask /\ card' # None
    BY <1>12, <2>1, EditedType, NoneAssumption DEF KeyEdits
  <2> QED BY <1>12, <2>1, <2>2 DEF KeyEdits, Queued
<1>13. CASE KeyAnswers
  <2>1. card \in Card
    BY <1>13 DEF KeyAnswers, Reads
  <2>2. card.ask \in Asks /\ card.via # None
    BY <2>1, NoneAssumption DEF Card
  <2>3. CASE Origin[card.ask] = "direct"
    <3>1. status'[card.ask] = "settled"
      BY <1>13, <2>2, <2>3 DEF KeyAnswers
    <3>2. b # card.ask => status'[b] = status[b] /\ ~Shows(b)
      BY <1>13, <2>2, <2>3 DEF KeyAnswers
    <3> QED BY <1>13, <2>3, <3>1, <3>2 DEF KeyAnswers, Queued
  <2>4. CASE Origin[card.ask] # "direct"
    <3>1. sent'[card.ask] # None
      BY <1>13, <2>2, <2>4 DEF KeyAnswers
    <3>2. b # card.ask => sent'[b] = sent[b] /\ ~Shows(b)
      BY <1>13, <2>2, <2>4 DEF KeyAnswers
    <3> QED BY <1>13, <2>4, <3>1, <3>2 DEF KeyAnswers, Queued
  <2> QED BY <2>3, <2>4
<1>14. CASE UNCHANGED vars
  BY <1>14 DEF vars, Queued
<1> QED
  BY <1>1, <1>2, <1>3, <1>4, <1>5, <1>6, <1>7, <1>8, <1>9, <1>10, <1>11, <1>12, <1>13, <1>14 DEF Next

----------------------------------------------------------------------------
(* Every state is well typed: what is up is a card of some ask, what waits to *)
(* be opened are asks, an answer on its way came by a prompt or a card.       *)
THEOREM TypeCorrect == Spec => []TypeOK
<1>1. Inv => TypeOK
  BY DEF Inv
<1> QED BY InvIsInvariant, <1>1, PTL

(* The card on screen is never one that has been decided.                    *)
THEOREM ShownIsOpen == Spec => []CardIsOpen
<1>1. Inv => CardIsOpen
  BY DEF Inv
<1> QED BY InvIsInvariant, <1>1, PTL

(* No key answers a card it was not meant for.                               *)
THEOREM KeysAnswerCardSeen == Spec => AnswersCardSeen
<1> DEFINE Took == hit # None /\ hit' = None
                   /\ <<status, sent, aborted>>' # <<status, sent, aborted>>
<1>1. Inv /\ [Next]_vars => [Took => card # None /\ hit.aim = card.ask]_vars
  <2> SUFFICES ASSUME Inv, Next, Took PROVE card # None /\ hit.aim = card.ask
    OBVIOUS
  <2>1. ASSUME NEW a \in Asks PROVE ~RaiseLocal(a) /\ ~RaiseDirect(a) /\ ~RaiseBroker(a) /\ ~Claim(a)
    BY <2>1 DEF RaiseLocal, RaiseDirect, RaiseBroker, Claim
  <2>2. ASSUME NEW a \in Asks PROVE ~DecideElsewhere(a) /\ ~AnswerArrives(a) /\ ~AnswerRefused(a)
    BY <2>2 DEF DecideElsewhere, AnswerArrives, AnswerRefused
  <2>3. ~RunDeferred /\ ~SettleWindow /\ \A k \in Keys : ~Press(k)
    BY DEF RunDeferred, SettleWindow, Press
  <2>4. ~KeyElsewhere /\ ~KeyEdits
    BY DEF KeyElsewhere, KeyEdits
  <2>5. KeyAnswers
    BY <2>1, <2>2, <2>3, <2>4 DEF Next
  <2> QED BY <2>5 DEF KeyAnswers, Reads, Inv, KeyMeant
<1> QED BY InvIsInvariant, <1>1, PTL DEF Spec, AnswersCardSeen

(* The broker's asks never take the place of a card.                          *)
THEOREM BrokerAsksWait == Spec => CardNotStolen
<1> DEFINE Taken == card # None /\ card' # None /\ card'.ask # card.ask
           Fair == card'.via = "prompt" /\ status[card'.ask] = "new"
<1>1. Inv /\ [Next]_vars => [Taken => Fair]_vars
  <2> SUFFICES ASSUME Inv, Next, Taken PROVE Fair
    OBVIOUS
  <2> USE DEF Inv
  <2>1. ASSUME NEW a \in Asks, RaiseLocal(a) \/ RaiseDirect(a) PROVE Fair
    BY <2>1, PromptType DEF RaiseLocal, RaiseDirect
  <2>2. ASSUME NEW a \in Asks PROVE ~RaiseBroker(a) /\ ~Claim(a) /\ ~AnswerRefused(a)
    BY <2>2 DEF RaiseBroker, Claim, AnswerRefused
  <2>3. ASSUME NEW a \in Asks PROVE ~DecideElsewhere(a) /\ ~AnswerArrives(a)
    BY <2>3 DEF DecideElsewhere, AnswerArrives, SettleRecord, ClearCard
  <2>4. ~RunDeferred
    BY DEF RunDeferred, OpenDeferred
  <2>5. ~SettleWindow
    BY DEF SettleWindow, TypeOK, Card
  <2>6. ~KeyElsewhere /\ ~KeyAnswers /\ \A k \in Keys : ~Press(k)
    BY DEF KeyElsewhere, KeyAnswers, Press
  <2>7. ~KeyEdits
    <3> SUFFICES ASSUME KeyEdits PROVE FALSE
      OBVIOUS
    <3>1. card \in Card /\ hit.key \in Keys
      BY DEF KeyEdits, TypeOK, Hit
    <3> QED BY <3>1, EditedType DEF KeyEdits
  <2> QED BY <2>1, <2>2, <2>3, <2>4, <2>5, <2>6, <2>7 DEF Next
<1> QED BY InvIsInvariant, <1>1, PTL DEF Spec, CardNotStolen

(* A lone ask is on screen until it is answered.                             *)
THEOREM LoneAsksShow == Spec => []LoneAskIsShown
<1>1. Init => LoneInv
  BY DEF Init, LoneInv, Kept, Open
<1>2. Inv /\ Inv' /\ LoneInv /\ [Next]_vars => LoneInv'
  BY LoneStep DEF Inv
<1>3. LoneInv => LoneAskIsShown
  BY DEF LoneInv, Kept, LoneAskIsShown, Quiet, Queued
<1> QED BY InvIsInvariant, <1>1, <1>2, <1>3, PTL DEF Spec

=============================================================================
