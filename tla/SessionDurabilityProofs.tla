----------------------- MODULE SessionDurabilityProofs -----------------------
(***************************************************************************)
(* What holds of the session files for any number of terminals, sessions    *)
(* and turns.                                                               *)
(*                                                                          *)
(*  1. Types, whatever goes wrong (TypeInv).                                *)
(*  2. A resume brings back only the session's own conversation (OwnInv):   *)
(*     no file holds another session's turns, and no live conversation,     *)
(*     which is where files are written from.                               *)
(*  3. No two processes hold one session (SoleInv), and from it:            *)
(*  4. no completed turn is lost (SecuredInv),                              *)
(*  5. no recovery point goes unasked and a promised one stays (PointInv,   *)
(*     PromiseInv),                                                         *)
(*  6. what a recovery point owes the user is kept (OwedInv).               *)
(*                                                                          *)
(* Each theorem assumes away, by name, the faults of FaultKinds under which *)
(* the code does not keep what it states.                                   *)
(***************************************************************************)
EXTENDS SessionDurability, FiniteSetTheorems, TLAPS

\* Every file of a session holds turns of T only.
Told(d, T) ==
    /\ TurnsIn(d.store) \subseteq T
    /\ TurnsIn(d.journal) \subseteq T
    /\ TurnsIn(d.recovery) \subseteq T

LEMMA BareShelf == Bare \in Shelf /\ \A T : Told(Bare, T)
BY DEF Bare, Shelf, Contents, Told, TurnsIn

LEMMA WrittenShelf ==
    ASSUME NEW d \in Shelf, NEW f \in Files, NEW c \in Contents
    PROVE  Written(d, f, c) \in Shelf
<1>1. CASE f = "store"
  BY <1>1 DEF Shelf, Files, Written
<1>2. CASE f = "journal"
  BY <1>2 DEF Shelf, Files, Written
<1>3. CASE f = "recovery"
  BY <1>3 DEF Shelf, Files, Written
<1> QED BY <1>1, <1>2, <1>3 DEF Files

LEMMA DeletedShelf ==
    ASSUME NEW d \in Shelf, NEW f \in Files
    PROVE  Deleted(d, f) \in Shelf
<1>0. None \in Contents BY DEF Contents
<1>1. CASE f = "store"
  BY <1>0, <1>1 DEF Shelf, Files, Deleted
<1>2. CASE f = "journal"
  BY <1>0, <1>2 DEF Shelf, Files, Deleted
<1>3. CASE f = "recovery"
  BY <1>0, <1>3 DEF Shelf, Files, Deleted
<1> QED BY <1>1, <1>2, <1>3 DEF Files

LEMMA WrittenTold ==
    ASSUME NEW d \in Shelf, NEW f \in Files, NEW c, NEW T,
           Told(d, T), TurnsIn(c) \subseteq T
    PROVE  Told(Written(d, f, c), T)
<1>1. CASE f = "store"
  BY <1>1 DEF Shelf, Files, Written, Told
<1>2. CASE f = "journal"
  BY <1>2 DEF Shelf, Files, Written, Told
<1>3. CASE f = "recovery"
  BY <1>3 DEF Shelf, Files, Written, Told
<1> QED BY <1>1, <1>2, <1>3 DEF Files

LEMMA DeletedTold ==
    ASSUME NEW d \in Shelf, NEW f \in Files, NEW T, Told(d, T)
    PROVE  Told(Deleted(d, f), T)
<1>0. TurnsIn(None) \subseteq T BY DEF TurnsIn
<1>1. CASE f = "store"
  BY <1>0, <1>1 DEF Shelf, Files, Deleted, Told
<1>2. CASE f = "journal"
  BY <1>0, <1>2 DEF Shelf, Files, Deleted, Told
<1>3. CASE f = "recovery"
  BY <1>0, <1>3 DEF Shelf, Files, Deleted, Told
<1> QED BY <1>1, <1>2, <1>3 DEF Files

LEMMA ResumedTold ==
    ASSUME NEW d, NEW T, Told(d, T)
    PROVE  TurnsIn(Resumed(d)) \subseteq T
BY DEF Told, Resumed

LEMMA ResumedContents ==
    ASSUME NEW d \in Shelf, d.store # None
    PROVE  Resumed(d) \in SUBSET Messages /\ Resumed(d) # None
BY DEF Shelf, Contents, Resumed, Fresher

LEMMA FoldedFits ==
    ASSUME NEW d \in Shelf, NEW base
    PROVE  /\ Folded(d, base) \in Shelf
           /\ \A T : Told(d, T) => Told(Folded(d, base), T)
<1>1. CASE ~Fresher(d, "journal", base)
  BY <1>1 DEF Folded
<1>2. CASE Fresher(d, "journal", base)
  <2> DEFINE w == Written(d, "store", d.journal)
  <2>1. "store" \in Files /\ "journal" \in Files
    BY DEF Files
  <2>2. d.journal \in Contents
    BY DEF Shelf
  <2>3. w \in Shelf
    BY <2>1, <2>2, WrittenShelf
  <2>4. Deleted(w, "journal") \in Shelf
    BY <2>1, <2>3, DeletedShelf
  <2>5. ASSUME NEW T, Told(d, T) PROVE Told(Deleted(w, "journal"), T)
    <3>1. TurnsIn(d.journal) \subseteq T
      BY <2>5 DEF Told
    <3>2. Told(w, T)
      BY <2>1, <2>5, <3>1, WrittenTold
    <3> QED BY <2>1, <2>3, <3>2, DeletedTold
  <2>6. Folded(d, base) = Deleted(w, "journal")
    BY <1>2 DEF Folded
  <2> HIDE DEF w
  <2> QED BY <2>4, <2>5, <2>6
<1> QED BY <1>1, <1>2

LEMMA DiscardedFits ==
    ASSUME NEW d \in Shelf, NEW s
    PROVE  /\ Discarded(d, s) \in Shelf
           /\ \A T : Told(d, T) => Told(Discarded(d, s), T)
<1>1. "recovery" \in Files BY DEF Files
<1>2. Deleted(d, "recovery") \in Shelf
  BY <1>1, DeletedShelf
<1>3. \A T : Told(d, T) => Told(Deleted(d, "recovery"), T)
  BY <1>1, DeletedTold
<1> QED BY <1>2, <1>3 DEF Discarded

-----------------------------------------------------------------------------
(***************************************************************************)
(* What every phase of a process's life has and has not.                    *)
(***************************************************************************)
Placed(p) ==
    /\ pc[p] = "down" => conv[p] = {}
    /\ offer[p] # None => turn[p] = None
    /\ queued[p] # None => turn[p] = None
    /\ pc[p] \in {"applying", "applyingNamed"} => sid[p] = offer[p]

TypeInv == TypeOK /\ \A p \in Procs : Placed(p)

LEMMA TypeInit == Init => TypeInv
<1> SUFFICES ASSUME Init PROVE TypeInv
  OBVIOUS
<1>1. TypeOK
  BY BareShelf DEF Init, TypeOK, LifePhases, Contents
<1>2. \A p \in Procs : Placed(p)
  BY DEF Init, Placed
<1> QED BY <1>1, <1>2 DEF TypeInv

\* What a running process has to write, and the files it writes to.
LEMMA RunningTypes ==
    ASSUME TypeInv, NEW p \in Procs, pc[p] # "down"
    PROVE  /\ sid[p] \in Sessions /\ sid[p] # None
           /\ conv[p] \in SUBSET Messages /\ conv[p] \in Contents /\ conv[p] # None
           /\ shelf[sid[p]] \in Shelf
BY NoFileAssumption DEF TypeInv, TypeOK, Contents, Messages

\* p has opened s or holds what it held, and the files keep their type.
Settled(p, s) ==
    /\ shelf' \in [Sessions -> Shelf]
    /\ sid' \in [Procs -> Sessions \cup {None}]
    /\ conv' \in [Procs -> SUBSET Messages]
    /\ \A q \in Procs : q # p => conv'[q] = conv[q] /\ sid'[q] = sid[q]
    /\ \/ sid'[p] = s
       \/ sid'[p] = sid[p] /\ conv'[p] = conv[p]

LEMMA OpenSettles ==
    ASSUME TypeInv, NEW p \in Procs, NEW s \in Sessions, NEW d \in Shelf, d.store # None,
           OpenFromStore(p, s, d)
    PROVE  Settled(p, s) /\ sid'[p] = s
<1>1. Folded(d, "store") \in Shelf /\ Resumed(d) \in SUBSET Messages
  BY FoldedFits, ResumedContents
<1>2. /\ shelf' = [shelf EXCEPT ![s] = Folded(d, "store")]
      /\ conv' = [conv EXCEPT ![p] = Resumed(d)]
      /\ sid' = [sid EXCEPT ![p] = s]
  BY DEF OpenFromStore
<1>3. /\ shelf \in [Sessions -> Shelf] /\ conv \in [Procs -> SUBSET Messages]
      /\ sid \in [Procs -> Sessions \cup {None}]
  BY DEF TypeInv, TypeOK
<1>4. shelf' \in [Sessions -> Shelf]
  BY <1>1, <1>2, <1>3
<1>5. conv' \in [Procs -> SUBSET Messages] /\ \A q \in Procs : q # p => conv'[q] = conv[q]
  BY <1>1, <1>2, <1>3
<1>6. /\ sid' \in [Procs -> Sessions \cup {None}] /\ sid'[p] = s
      /\ \A q \in Procs : q # p => sid'[q] = sid[q]
  BY <1>2, <1>3
<1> QED BY <1>4, <1>5, <1>6 DEF Settled

LEMMA StoredSettles ==
    ASSUME TypeInv, NEW p \in Procs, NEW s \in Sessions, NEW d \in Shelf,
           shelf' = [shelf EXCEPT ![s] = d], UNCHANGED <<conv, sid>>
    PROVE  Settled(p, s)
BY DEF TypeInv, TypeOK, Settled

LEMMA PlainSettles ==
    ASSUME TypeInv, NEW p \in Procs, NEW s \in Sessions, NEW d \in Shelf, PlainResume(p, s, d)
    PROVE  Settled(p, s)
<1>1. CASE d.store # None /\ OpenFromStore(p, s, d)
  BY <1>1, OpenSettles
<1>2. CASE shelf' = [shelf EXCEPT ![s] = d] /\ UNCHANGED <<conv, sid>>
  BY <1>2, StoredSettles
<1> QED BY <1>1, <1>2 DEF PlainResume

\* An offer about s is over.
LEMMA AnsweredTypes ==
    ASSUME TypeInv, NEW p \in Procs, offer[p] # None, Settled(p, offer[p]), AfterOffer(p),
           pc[p] \in {"asking", "applyingNamed", "up", "applying"},
           UNCHANGED <<marker, turn, talk, secured>>, ledger' \subseteq Sessions,
           owed' \in [Sessions -> SUBSET Messages], promised' \in [Sessions -> Contents]
    PROVE  TypeInv'
<1>1. turn[p] = None /\ offer[p] \in Sessions /\ sid[p] # None
  BY DEF TypeInv, TypeOK, Placed
<1>2. /\ pc' \in [Procs -> LifePhases] /\ offer' \in [Procs -> Sessions \cup {None}]
      /\ queued' \in [Procs -> Sessions \cup {None}] /\ pc'[p] = "up" /\ queued'[p] = None
      /\ \A q \in Procs : q # p =>
            pc'[q] = pc[q] /\ offer'[q] = offer[q] /\ queued'[q] = queued[q]
  BY DEF TypeInv, TypeOK, AfterOffer, LifePhases
<1>3. sid'[p] # None
  BY <1>1, NoneAssumption DEF Settled
<1>4. TypeOK'
  BY <1>1, <1>2, <1>3 DEF TypeInv, TypeOK, Settled
<1>5. ASSUME NEW q \in Procs PROVE Placed(q)'
  <2>1. CASE q = p
    BY <1>1, <1>2, <2>1 DEF Placed
  <2>2. CASE q # p
    BY <1>2, <2>2 DEF Settled, TypeInv, Placed
  <2> QED BY <2>1, <2>2
<1> QED BY <1>4, <1>5 DEF TypeInv

LEMMA LaunchTypes == ASSUME TypeInv, NEW p \in Procs, Launch(p) PROVE TypeInv'
<1>1. TypeOK'
  BY NoneAssumption DEF Launch, TypeInv, TypeOK, LifePhases, files, history
<1>2. \A q \in Procs : Placed(q)'
  BY DEF Launch, TypeInv, TypeOK, Placed, files, history
<1> QED BY <1>1, <1>2 DEF TypeInv

LEMMA TurnFailedTypes == ASSUME TypeInv, NEW p \in Procs, TurnFailed(p) PROVE TypeInv'
<1>1. TypeOK'
  BY DEF TurnFailed, TypeInv, TypeOK, files, history
<1>2. \A q \in Procs : Placed(q)'
  BY DEF TurnFailed, TypeInv, TypeOK, Placed, files, history
<1> QED BY <1>1, <1>2 DEF TypeInv

LEMMA ExitAppTypes == ASSUME TypeInv, NEW p \in Procs, ExitApp(p) PROVE TypeInv'
<1>1. TypeOK'
  BY DEF ExitApp, TypeInv, TypeOK, LifePhases, files, history
<1>2. \A q \in Procs : Placed(q)'
  BY DEF ExitApp, TypeInv, TypeOK, Placed, files, history
<1> QED BY <1>1, <1>2 DEF TypeInv

\* A process is gone, and one session's files changed on the way.
LEMMA GoneTypes ==
    ASSUME TypeInv, NEW p \in Procs, Forget(p), UNCHANGED <<ledger, talk, secured, promised>>,
           marker' \in [Sessions -> Procs \cup {None}],
           owed' \in [Sessions -> SUBSET Messages], shelf' \in [Sessions -> Shelf]
    PROVE  TypeInv'
<1>1. TypeOK'
  BY DEF TypeInv, TypeOK, LifePhases, Forget
<1>2. \A q \in Procs : Placed(q)'
  BY DEF TypeInv, TypeOK, Placed, Forget
<1> QED BY <1>1, <1>2 DEF TypeInv

LEMMA CrashTypes == ASSUME TypeInv, NEW p \in Procs, Crash(p) PROVE TypeInv'
<1>1. marker' \in [Sessions -> Procs \cup {None}]
  BY DEF Crash, ClearMarkers, TypeInv, TypeOK
<1>2. /\ Forget(p) /\ UNCHANGED <<shelf, ledger, talk, secured, owed, promised>>
  BY DEF Crash, history
<1> QED BY <1>1, <1>2, GoneTypes DEF TypeInv, TypeOK

LEMMA ExitSavedTypes == ASSUME TypeInv, NEW p \in Procs, ExitSaved(p) PROVE TypeInv'
<1> DEFINE s == sid[p]
           w == Written(shelf[s], "store", conv[p])
           d == Deleted(w, "recovery")
<1>1. /\ pc[p] # "down" /\ Forget(p) /\ UNCHANGED <<ledger, talk, secured, promised>>
      /\ marker' \in [Sessions -> Procs \cup {None}]
      /\ owed' \in [Sessions -> SUBSET Messages]
  BY DEF ExitSaved, ClearMarkers, TypeInv, TypeOK
<1>2. s \in Sessions /\ "store" \in Files /\ "recovery" \in Files
  BY <1>1, RunningTypes DEF Files
<1>3. w \in Shelf
  BY <1>1, <1>2, RunningTypes, WrittenShelf
<1>4. d \in Shelf
  <2> HIDE DEF w
  <2> QED BY <1>2, <1>3, DeletedShelf
<1>5. shelf' = [shelf EXCEPT ![s] = d]
  BY <1>2 DEF ExitSaved, OwnSession, TypeInv, TypeOK
<1>6. shelf' \in [Sessions -> Shelf]
  <2> HIDE DEF s, d
  <2> QED BY <1>4, <1>5 DEF TypeInv, TypeOK
<1> QED BY <1>1, <1>6, GoneTypes

LEMMA ExitTimedOutTypes == ASSUME TypeInv, NEW p \in Procs, ExitTimedOut(p) PROVE TypeInv'
<1> DEFINE s == sid[p]
           w == Written(shelf[s], "store", conv[p])
<1>1. /\ pc[p] # "down" /\ Forget(p) /\ UNCHANGED <<ledger, talk, secured, promised>>
      /\ marker' \in [Sessions -> Procs \cup {None}]
      /\ owed' \in [Sessions -> SUBSET Messages]
  BY DEF ExitTimedOut, ClearMarkers, TypeInv, TypeOK
<1>2. s \in Sessions /\ "store" \in Files /\ shelf[s] \in Shelf
  BY <1>1, RunningTypes DEF Files
<1>3. w \in Shelf
  BY <1>1, <1>2, RunningTypes, WrittenShelf
<1>4. PICK d \in Shelf : shelf' = [shelf EXCEPT ![s] = d]
  <2> HIDE DEF s, w
  <2> QED BY <1>2, <1>3 DEF ExitTimedOut, KeepRecovery, TypeInv, TypeOK, s, w
<1>5. shelf' \in [Sessions -> Shelf]
  BY <1>4 DEF TypeInv, TypeOK
<1> QED BY <1>1, <1>5, GoneTypes

LEMMA AutosaveTypes == ASSUME TypeInv, NEW p \in Procs, Autosave(p) PROVE TypeInv'
<1> DEFINE d == Written(shelf[sid[p]], "recovery", conv[p])
<1>1. /\ sid[p] \in Sessions /\ conv[p] \in SUBSET Messages /\ d \in Shelf
  BY RunningTypes, WrittenShelf DEF Autosave, Files
<1>2. shelf' \in [Sessions -> Shelf]
  <2>1. UNCHANGED shelf \/ shelf' = [shelf EXCEPT ![sid[p]] = d]
    BY DEF Autosave
  <2> HIDE DEF d
  <2> QED BY <1>1, <2>1 DEF TypeInv, TypeOK
<1>3. TypeOK'
  BY <1>1, <1>2 DEF Autosave, TypeInv, TypeOK, memory
<1>4. \A q \in Procs : Placed(q)'
  BY DEF Autosave, TypeInv, Placed, memory
<1> QED BY <1>3, <1>4 DEF TypeInv

LEMMA SubmitTypes == ASSUME TypeInv, NEW p \in Procs, NEW t \in Turns, Submit(p, t) PROVE TypeInv'
<1> DEFINE s == sid[p]
           now == conv[p] \cup {<<t, "asked">>}
           d == Written(shelf[s], "journal", now)
<1>1. /\ s \in Sessions /\ now \in SUBSET Messages /\ shelf[s] \in Shelf
  BY RunningTypes DEF Submit, Idle, Messages
<1>2. d \in Shelf
  <2> HIDE DEF now
  <2> QED BY <1>1, WrittenShelf DEF Files, Contents
<1>3. shelf' \in [Sessions -> Shelf]
  <2>1. UNCHANGED shelf \/ shelf' = [shelf EXCEPT ![s] = d]
    BY DEF Submit
  <2> HIDE DEF d
  <2> QED BY <1>1, <1>2, <2>1 DEF TypeInv, TypeOK
<1>4. conv' \in [Procs -> SUBSET Messages]
  <2>1. conv' = [conv EXCEPT ![p] = now]
    BY DEF Submit
  <2> HIDE DEF now
  <2> QED BY <1>1, <2>1 DEF TypeInv, TypeOK
<1>5. TypeOK'
  BY <1>1, <1>3, <1>4 DEF Submit, Idle, TypeInv, TypeOK
<1>6. \A q \in Procs : Placed(q)'
  BY DEF Submit, Idle, TypeInv, TypeOK, Placed
<1> QED BY <1>5, <1>6 DEF TypeInv

LEMMA TurnCompletedTypes == ASSUME TypeInv, NEW p \in Procs, TurnCompleted(p) PROVE TypeInv'
<1> DEFINE s == sid[p]
           now == Answered(p)
           stored == Written(shelf[s], "store", now)
           journalled == Written(shelf[s], "journal", now)
<1>1. /\ s \in Sessions /\ shelf[s] \in Shelf /\ turn[p] \in Turns
      /\ now \in SUBSET Messages
  BY RunningTypes DEF TurnCompleted, Answered, Messages, TypeInv, TypeOK
<1>2. stored \in Shelf /\ journalled \in Shelf
  <2> HIDE DEF now
  <2> QED BY <1>1, WrittenShelf DEF Files, Contents
<1>3. StoredAndRotated(shelf[s], now) \in Shelf
  BY <1>2, DeletedShelf DEF Files, StoredAndRotated
<1>4. shelf' \in [Sessions -> Shelf]
  <2>1. \/ UNCHANGED shelf
        \/ shelf' = [shelf EXCEPT ![s] = StoredAndRotated(shelf[s], now)]
        \/ shelf' = [shelf EXCEPT ![s] = journalled]
    BY <1>1 DEF TurnCompleted, TypeInv, TypeOK
  <2> HIDE DEF now, journalled
  <2> QED BY <1>1, <1>2, <1>3, <2>1 DEF TypeInv, TypeOK
<1>5. conv' \in [Procs -> SUBSET Messages]
  <2>1. conv' = [conv EXCEPT ![p] = now]
    BY DEF TurnCompleted
  <2> HIDE DEF now
  <2> QED BY <1>1, <2>1 DEF TypeInv, TypeOK
<1>6. /\ secured' \subseteq Turns
      /\ owed' \in [Sessions -> SUBSET Messages]
  BY <1>1 DEF TurnCompleted, TypeInv, TypeOK
<1>7. TypeOK'
  BY <1>1, <1>4, <1>5, <1>6 DEF TurnCompleted, TypeInv, TypeOK
<1>8. \A q \in Procs : Placed(q)'
  BY DEF TurnCompleted, TypeInv, TypeOK, Placed
<1> QED BY <1>7, <1>8 DEF TypeInv

LEMMA ResumeTypes ==
    ASSUME TypeInv, NEW p \in Procs, NEW s \in Sessions, Resume(p, s) PROVE TypeInv'
<1>1. /\ shelf[s] \in Shelf /\ shelf[s].store # None /\ pc[p] = "up" /\ offer[p] = None
      /\ OpenFromStore(p, s, shelf[s])
      /\ UNCHANGED <<marker, ledger, pc, turn, offer, queued, talk, secured, owed, promised>>
  BY DEF Resume, Switchable, Idle, TypeInv, TypeOK, history
<1>2. Settled(p, s) /\ sid'[p] = s
  BY <1>1, OpenSettles
<1>3. TypeOK'
  BY <1>1, <1>2, NoneAssumption DEF Settled, TypeInv, TypeOK
<1>4. \A q \in Procs : Placed(q)'
  BY <1>1, <1>2 DEF Settled, TypeInv, Placed
<1> QED BY <1>3, <1>4 DEF TypeInv

\* The conversation of p stored as s.
LEMMA StoreAsTypes ==
    ASSUME TypeInv, NEW p \in Procs, pc[p] # "down", NEW s \in Sessions, StoreAs(p, s)
    PROVE  /\ shelf' \in [Sessions -> Shelf]
           /\ talk' \in [Sessions -> SUBSET Turns]
<1> DEFINE d == Written(shelf[s], "store", conv[p])
<1>1. d \in Shelf
  BY RunningTypes, WrittenShelf DEF Files, TypeInv, TypeOK
<1>2. shelf' = [shelf EXCEPT ![s] = d]
  BY DEF StoreAs
<1>3. shelf' \in [Sessions -> Shelf]
  <2> HIDE DEF d
  <2> QED BY <1>1, <1>2 DEF TypeInv, TypeOK
<1>4. TurnsIn(conv[p]) \subseteq Turns
  BY RunningTypes DEF TurnsIn, Messages
<1> QED BY <1>3, <1>4 DEF StoreAs, TypeInv, TypeOK

LEMMA ForkTypes ==
    ASSUME TypeInv, NEW p \in Procs, NEW n \in Sessions, Fork(p, n) PROVE TypeInv'
<1>1. pc[p] = "up" /\ StoreAs(p, n)
  BY DEF Fork, Idle
<1>2. TypeOK'
  BY <1>1, StoreAsTypes, NoneAssumption DEF Fork, TypeInv, TypeOK
<1>3. \A q \in Procs : Placed(q)'
  BY DEF Fork, Idle, TypeInv, TypeOK, Placed
<1> QED BY <1>2, <1>3 DEF TypeInv

LEMMA ClearTypes ==
    ASSUME TypeInv, NEW p \in Procs, NEW n \in Sessions, Clear(p, n) PROVE TypeInv'
<1>1. pc[p] = "up" /\ StoreAs(p, n) /\ sid[p] \in Sessions
  BY RunningTypes DEF Clear, Idle, CopyFirst
<1>2. owed' \in [Sessions -> SUBSET Messages]
  <2>1. owed' = [owed EXCEPT ![sid[p]] = {}, ![n] = owed[sid[p]]]
    BY DEF Clear
  <2>2. owed \in [Sessions -> SUBSET Messages]
    BY DEF TypeInv, TypeOK
  <2> QED BY <1>1, <2>1, <2>2
<1>3. TypeOK'
  BY <1>1, <1>2, StoreAsTypes DEF Clear, TypeInv, TypeOK
<1>4. \A q \in Procs : Placed(q)'
  BY DEF Clear, TypeInv, TypeOK, Placed
<1> QED BY <1>3, <1>4 DEF TypeInv

LEMMA LoadTypes ==
    ASSUME TypeInv, NEW p \in Procs, NEW s \in Sessions, Load(p, s) PROVE TypeInv'
<1>1. shelf[s].store \in SUBSET Messages /\ pc[p] = "up"
  BY DEF Load, Switchable, Idle, TypeInv, TypeOK, Shelf, Contents
<1>2. conv' \in [Procs -> SUBSET Messages]
  BY <1>1 DEF Load, TypeInv, TypeOK
<1>3. TypeOK'
  BY <1>2 DEF Load, files, TypeInv, TypeOK
<1>4. \A q \in Procs : Placed(q)'
  BY <1>1 DEF Load, files, TypeInv, TypeOK, Placed
<1> QED BY <1>3, <1>4 DEF TypeInv

LEMMA StoreRecoveredTypes == ASSUME TypeInv, NEW p \in Procs, StoreRecovered(p) PROVE TypeInv'
<1> DEFINE s == offer[p]
           d == Written(shelf[s], "store", conv[p])
<1>1. /\ pc[p] \in {"applying", "applyingNamed"} /\ shelf' = [shelf EXCEPT ![s] = d]
      /\ AfterOffer(p) /\ owed' = [owed EXCEPT ![s] = {}]
      /\ UNCHANGED <<marker, ledger, sid, conv, turn, talk, secured, promised>>
  BY DEF StoreRecovered
<1>2. s \in Sessions /\ s # None /\ sid[p] = s
  BY <1>1 DEF TypeInv, TypeOK, Placed
<1>3. d \in Shelf
  BY <1>1, <1>2, RunningTypes, WrittenShelf DEF Files
<1>4. Settled(p, s)
  <2> HIDE DEF s, d
  <2> QED BY <1>1, <1>2, <1>3, StoredSettles
<1>5. owed' \in [Sessions -> SUBSET Messages]
  BY <1>1 DEF TypeInv, TypeOK
<1> QED BY <1>1, <1>2, <1>4, <1>5, AnsweredTypes DEF TypeInv, TypeOK

LEMMA StoreRecoveredFailsTypes ==
    ASSUME TypeInv, NEW p \in Procs, StoreRecoveredFails(p) PROVE TypeInv'
<1>1. /\ pc[p] \in {"applying", "applyingNamed"} /\ AfterOffer(p)
      /\ UNCHANGED <<marker, ledger, turn, talk, secured, owed, promised>>
  BY DEF StoreRecoveredFails, history
<1>2. offer[p] # None /\ offer[p] \in Sessions /\ shelf[offer[p]] \in Shelf
  BY <1>1 DEF TypeInv, TypeOK
<1>3. Settled(p, offer[p])
  <2>1. CASE PlainResume(p, offer[p], shelf[offer[p]])
    BY <1>2, <2>1, PlainSettles
  <2>2. CASE UNCHANGED <<shelf, conv, sid>>
    BY <2>2 DEF TypeInv, TypeOK, Settled
  <2> QED BY <2>1, <2>2 DEF StoreRecoveredFails
<1> QED BY <1>1, <1>2, <1>3, AnsweredTypes DEF TypeInv, TypeOK

\* An answer that restored nothing and left d on s's shelf.
LEMMA WithoutItTypes ==
    ASSUME TypeInv, NEW p \in Procs, Asked(p), NEW d \in Shelf,
           WithoutIt(p, offer[p], d), UNCHANGED <<marker, turn, talk, secured>>,
           ledger' \subseteq Sessions,
           owed' \in [Sessions -> SUBSET Messages], promised' \in [Sessions -> Contents]
    PROVE  TypeInv'
<1>1. pc[p] \in {"asking", "up"} /\ offer[p] # None /\ offer[p] \in Sessions
  BY DEF Asked, TypeInv, TypeOK
<1>2. Settled(p, offer[p])
  <2>1. CASE PlainResume(p, offer[p], d)
    BY <1>1, <2>1, PlainSettles
  <2>2. CASE shelf' = [shelf EXCEPT ![offer[p]] = d] /\ UNCHANGED <<conv, sid>>
    BY <1>1, <2>2, StoredSettles
  <2> QED BY <2>1, <2>2 DEF WithoutIt
<1> QED BY <1>1, <1>2, AnsweredTypes DEF WithoutIt

LEMMA AnswerResumeGoneTypes ==
    ASSUME TypeInv, NEW p \in Procs, AnswerResumeGone(p) PROVE TypeInv'
<1>1. /\ Asked(p) /\ WithoutIt(p, offer[p], shelf[offer[p]])
      /\ UNCHANGED <<marker, ledger, turn, talk, secured, owed, promised>>
  BY DEF AnswerResumeGone, history
<1>2. shelf[offer[p]] \in Shelf
  BY <1>1 DEF Asked, TypeInv, TypeOK
<1> QED BY <1>1, <1>2, WithoutItTypes DEF TypeInv, TypeOK

LEMMA AnswerKeepTypes == ASSUME TypeInv, NEW p \in Procs, AnswerKeep(p) PROVE TypeInv'
<1>1. /\ Asked(p) /\ WithoutIt(p, offer[p], shelf[offer[p]])
      /\ UNCHANGED <<marker, ledger, turn, talk, secured, owed>>
  BY DEF AnswerKeep
<1>2. shelf[offer[p]] \in Shelf /\ offer[p] \in Sessions
  BY <1>1 DEF Asked, TypeInv, TypeOK
<1>3. promised' \in [Sessions -> Contents]
  <2>1. shelf[offer[p]].recovery \in Contents
    BY <1>2 DEF Shelf
  <2>2. \/ promised' = [promised EXCEPT ![offer[p]] = shelf[offer[p]].recovery]
        \/ promised' = promised
    BY DEF AnswerKeep
  <2> QED BY <2>1, <2>2 DEF TypeInv, TypeOK
<1> QED BY <1>1, <1>2, <1>3, WithoutItTypes DEF TypeInv, TypeOK

LEMMA AnswerRemoveTypes == ASSUME TypeInv, NEW p \in Procs, AnswerRemove(p) PROVE TypeInv'
<1> DEFINE d == Deleted(shelf[offer[p]], "recovery")
<1>1. /\ Asked(p) /\ WithoutIt(p, offer[p], d)
      /\ ledger' = ledger \cup {offer[p]}
      /\ owed' = [owed EXCEPT ![offer[p]] = {}]
      /\ promised' = [promised EXCEPT ![offer[p]] = None]
      /\ UNCHANGED <<marker, turn, talk, secured>>
  BY DEF AnswerRemove
<1>2. shelf[offer[p]] \in Shelf /\ offer[p] \in Sessions /\ "recovery" \in Files
  BY <1>1 DEF Asked, TypeInv, TypeOK, Files
<1>3. d \in Shelf
  BY <1>2, DeletedShelf
<1>4. /\ ledger' \subseteq Sessions
      /\ owed' \in [Sessions -> SUBSET Messages] /\ promised' \in [Sessions -> Contents]
  BY <1>1, <1>2 DEF TypeInv, TypeOK, Contents
<1> HIDE DEF d
<1> QED BY <1>1, <1>3, <1>4, WithoutItTypes

LEMMA AnswerResumeTypes == ASSUME TypeInv, NEW p \in Procs, AnswerResume(p) PROVE TypeInv'
<1> DEFINE s == offer[p]
           d == shelf[s]
           c == IF Fresher(d, "journal", "recovery") THEN d.journal ELSE d.recovery
<1>1. /\ pc[p] \in {"asking", "up"} /\ s # None /\ d.recovery # None
      /\ shelf' = [shelf EXCEPT ![s] = ReadAndRetire(d)]
      /\ conv' = [conv EXCEPT ![p] = c]
      /\ sid' = [sid EXCEPT ![p] = s]
      /\ pc' = [pc EXCEPT ![p] = IF @ = "asking" THEN "applyingNamed" ELSE "applying"]
      /\ promised' = [promised EXCEPT ![s] = None]
      /\ UNCHANGED <<marker, ledger, turn, offer, queued, talk, secured, owed>>
  BY DEF AnswerResume, Asked
<1>2. s \in Sessions /\ d \in Shelf /\ turn[p] = None
  BY <1>1 DEF TypeInv, TypeOK, Placed
<1>3. c \in SUBSET Messages
  BY <1>1, <1>2 DEF Shelf, Contents, Fresher
<1>4. ReadAndRetire(d) \in Shelf
  BY <1>2, FoldedFits, DeletedShelf DEF ReadAndRetire, Files
<1>5. conv' \in [Procs -> SUBSET Messages]
  <2> HIDE DEF c
  <2> QED BY <1>1, <1>3 DEF TypeInv, TypeOK
<1>6. shelf' \in [Sessions -> Shelf]
  <2> HIDE DEF s, d
  <2> QED BY <1>1, <1>4 DEF TypeInv, TypeOK
<1>7. promised' \in [Sessions -> Contents] /\ pc' \in [Procs -> LifePhases]
  BY <1>1 DEF TypeInv, TypeOK, Contents, LifePhases
<1>8. sid' \in [Procs -> Sessions \cup {None}] /\ sid'[p] = s
      /\ \A q \in Procs : q # p => sid'[q] = sid[q]
  BY <1>1, <1>2 DEF TypeInv, TypeOK
<1>9. /\ pc'[p] \in {"applying", "applyingNamed"}
      /\ pc[p] = "asking" => pc'[p] = "applyingNamed"
      /\ \A q \in Procs : q # p => pc'[q] = pc[q]
  BY <1>1 DEF TypeInv, TypeOK
<1>10. \A q \in Procs :
         /\ pc'[q] = "down" <=> sid'[q] = None
         /\ turn'[q] # None => pc'[q] = "up"
         /\ pc'[q] \in {"naming", "asking", "applying", "applyingNamed"} => offer'[q] # None
         /\ queued'[q] # None => pc'[q] \in {"asking", "applyingNamed"}
         /\ pc'[q] \in {"down", "launched", "boot", "exiting"} => offer'[q] = None
         /\ Placed(q)'
  <2> TAKE q \in Procs
  <2>1. CASE q = p
    <3> HIDE DEF c, d
    <3> QED BY <1>1, <1>2, <1>8, <1>9, <2>1 DEF TypeInv, TypeOK, Placed
  <2>2. CASE q # p
    <3>1. conv'[q] = conv[q]
      BY <1>1, <2>2 DEF TypeInv, TypeOK
    <3> HIDE DEF c, d
    <3> QED BY <1>1, <1>8, <1>9, <2>2, <3>1 DEF TypeInv, TypeOK, Placed
  <2> QED BY <2>1, <2>2
<1>11. TypeOK'
  BY <1>1, <1>5, <1>6, <1>7, <1>8, <1>10 DEF TypeInv, TypeOK
<1> QED BY <1>10, <1>11 DEF TypeInv

LEMMA OfferNamedTypes ==
    ASSUME TypeInv, NEW p \in Procs, NEW s \in Sessions, OfferNamed(p, s) PROVE TypeInv'
<1> DEFINE d == Discarded(shelf[s], s)
<1>1. /\ pc[p] = "launched"
      /\ UNCHANGED <<marker, ledger, turn, queued, talk, secured, owed, promised>>
  BY DEF OfferNamed, history
<1>2. d \in Shelf /\ turn[p] = None /\ sid[p] # None /\ offer[p] = None
  BY <1>1, DiscardedFits DEF TypeInv, TypeOK
<1>3. CASE /\ pc' = [pc EXCEPT ![p] = "naming"]
           /\ offer' = [offer EXCEPT ![p] = s]
           /\ UNCHANGED <<shelf, conv, sid>>
  <2>1. TypeOK'
    BY <1>1, <1>2, <1>3, NoneAssumption DEF TypeInv, TypeOK, LifePhases
  <2>2. \A q \in Procs : Placed(q)'
    BY <1>1, <1>2, <1>3 DEF TypeInv, TypeOK, Placed
  <2> QED BY <2>1, <2>2 DEF TypeInv
<1>4. CASE pc' = [pc EXCEPT ![p] = "boot"] /\ PlainResume(p, s, d) /\ UNCHANGED offer
  <2>1. Settled(p, s)
    BY <1>2, <1>4, PlainSettles
  <2>2. sid'[p] # None
    BY <1>2, <2>1, NoneAssumption DEF Settled
  <2>3. TypeOK'
    BY <1>1, <1>2, <1>4, <2>1, <2>2 DEF TypeInv, TypeOK, LifePhases, Settled
  <2>4. \A q \in Procs : Placed(q)'
    BY <1>1, <1>2, <1>4, <2>1 DEF TypeInv, TypeOK, Placed, Settled
  <2> QED BY <2>3, <2>4 DEF TypeInv
<1> QED BY <1>3, <1>4 DEF OfferNamed

LEMMA BootOfferTypes == ASSUME TypeInv, NEW p \in Procs, BootOffer(p) PROVE TypeInv'
<1>1. /\ pc[p] \in {"launched", "naming", "boot"}
      /\ marker' = [marker EXCEPT ![sid[p]] = p]
      /\ pc' = [pc EXCEPT ![p] = IF @ = "naming" THEN "asking" ELSE "up"]
      /\ UNCHANGED <<ledger, sid, conv, turn, talk, secured, owed, promised>>
  BY DEF BootOffer, history
<1>2. turn[p] = None /\ sid[p] # None
  BY <1>1 DEF TypeInv, TypeOK
<1>3. PICK o \in Sessions \cup {None} :
         IF pc[p] = "naming"
         THEN queued' = [queued EXCEPT ![p] = o] /\ UNCHANGED offer
         ELSE offer' = [offer EXCEPT ![p] = o] /\ UNCHANGED queued
  BY DEF BootOffer
<1>4. shelf' \in [Sessions -> Shelf]
  <2>1. PICK gone :
           shelf' = [x \in Sessions |-> IF x \in gone THEN Discarded(shelf[x], x) ELSE shelf[x]]
    BY DEF BootOffer
  <2>2. \A x \in Sessions : shelf[x] \in Shelf /\ Discarded(shelf[x], x) \in Shelf
    BY DiscardedFits DEF TypeInv, TypeOK
  <2> QED BY <2>1, <2>2
<1>5. CASE pc[p] = "naming"
  <2>1. queued' = [queued EXCEPT ![p] = o] /\ UNCHANGED offer
    BY <1>3, <1>5
  <2>2. TypeOK'
    BY <1>1, <1>2, <1>4, <1>5, <2>1 DEF TypeInv, TypeOK, LifePhases
  <2>3. \A q \in Procs : Placed(q)'
    BY <1>1, <1>2, <1>5, <2>1 DEF TypeInv, TypeOK, Placed
  <2> QED BY <2>2, <2>3 DEF TypeInv
<1>6. CASE pc[p] # "naming"
  <2>1. offer' = [offer EXCEPT ![p] = o] /\ UNCHANGED queued
    BY <1>3, <1>6
  <2>2. TypeOK'
    BY <1>1, <1>2, <1>4, <1>6, <2>1 DEF TypeInv, TypeOK, LifePhases
  <2>3. \A q \in Procs : Placed(q)'
    BY <1>1, <1>2, <1>6, <2>1 DEF TypeInv, TypeOK, Placed
  <2> QED BY <2>2, <2>3 DEF TypeInv
<1> QED BY <1>5, <1>6

LEMMA TypeNext == ASSUME TypeInv, [Next]_vars PROVE TypeInv'
<1>1. ASSUME NEW p \in Procs, Offers(p) PROVE TypeInv'
  BY <1>1, BootOfferTypes, AnswerResumeTypes, StoreRecoveredTypes, StoreRecoveredFailsTypes,
     AnswerResumeGoneTypes, AnswerKeepTypes, AnswerRemoveTypes DEF Offers
<1>2. ASSUME NEW p \in Procs, NEW s \in Sessions,
             OfferNamed(p, s) \/ Resume(p, s) \/ Fork(p, s) \/ Clear(p, s) \/ Load(p, s)
      PROVE  TypeInv'
  BY <1>2, OfferNamedTypes, ResumeTypes, ForkTypes, ClearTypes, LoadTypes
<1>3. ASSUME NEW p \in Procs,
             \/ Launch(p) \/ TurnCompleted(p) \/ TurnFailed(p) \/ Autosave(p)
             \/ ExitApp(p) \/ ExitSaved(p) \/ ExitTimedOut(p) \/ Crash(p)
      PROVE  TypeInv'
  BY <1>3, LaunchTypes, TurnCompletedTypes, TurnFailedTypes, AutosaveTypes,
     ExitAppTypes, ExitSavedTypes, ExitTimedOutTypes, CrashTypes
<1>4. CASE UNCHANGED vars
  BY <1>4 DEF vars, files, memory, history, TypeInv, TypeOK, Placed
<1> QED BY <1>1, <1>2, <1>3, <1>4, SubmitTypes DEF Next

\* Whatever is saved, journalled, recovered, forked, crashed or refused by any
\* number of terminals, every file and every process stays within its type: no
\* process without a session, no turn or offer outside the phases that have one.
THEOREM TypeCorrect == Spec => []TypeOK
<1>1. TypeInv /\ [Next]_vars => TypeInv'
  BY TypeNext
<1>2. TypeInv => TypeOK
  BY DEF TypeInv
<1> QED BY <1>1, <1>2, TypeInit, PTL DEF Spec

-----------------------------------------------------------------------------
\* The turns of a live conversation, the one in flight among them, belong to
\* the session it is held under.
HeldOwn(p) ==
    pc[p] # "down" =>
        /\ \A m \in conv[p] : m[1] \in talk[sid[p]]
        /\ turn[p] # None => turn[p] \in TurnsIn(conv[p])

Belongs ==
    /\ \A s \in Sessions : Told(shelf[s], talk[s])
    /\ \A p \in Procs : HeldOwn(p)

OwnInv == TypeInv /\ Belongs

LEMMA OwnInvImplies == OwnInv => OwnConversationOnly
BY ResumedTold DEF OwnInv, Belongs, OwnConversationOnly

LEMMA OwnInit == Init => OwnInv
<1> SUFFICES ASSUME Init PROVE OwnInv
  OBVIOUS
<1>1. \A s \in Sessions : Told(shelf[s], talk[s])
  BY BareShelf DEF Init
<1>2. \A p \in Procs : HeldOwn(p)
  BY DEF Init, HeldOwn
<1> QED BY <1>1, <1>2, TypeInit DEF OwnInv, Belongs
LEMMA ToldMore == ASSUME NEW d, NEW T, NEW U, Told(d, T), T \subseteq U PROVE Told(d, U)
BY DEF Told

\* One session's files change, and what belongs to a session only grows.
LEMMA FilesStep ==
    ASSUME OwnInv, NEW s \in Sessions, NEW d \in Shelf,
           shelf' = [shelf EXCEPT ![s] = d], Told(d, talk'[s]),
           \A x \in Sessions : talk[x] \subseteq talk'[x]
    PROVE  /\ shelf' \in [Sessions -> Shelf]
           /\ \A x \in Sessions : Told(shelf'[x], talk'[x])
<1>1. shelf \in [Sessions -> Shelf]
  BY DEF OwnInv, Belongs, TypeInv, TypeOK, Placed
<1>2. shelf' \in [Sessions -> Shelf]
  BY <1>1
<1>3. ASSUME NEW x \in Sessions PROVE Told(shelf'[x], talk'[x])
  <2>1. CASE x = s
    BY <1>1, <2>1
  <2>2. CASE x # s
    <3>1. shelf'[x] = shelf[x]
      BY <1>1, <2>2
    <3>2. Told(shelf[x], talk[x])
      BY DEF OwnInv, Belongs
    <3> QED BY <3>1, <3>2, ToldMore
  <2> QED BY <2>1, <2>2
<1> QED BY <1>2, <1>3

\* Resuming s from its files d, which hold only what belongs to s.
LEMMA OpenStep ==
    ASSUME OwnInv, NEW p \in Procs, NEW s \in Sessions, NEW d \in Shelf,
           Told(d, talk[s]), d.store # None, OpenFromStore(p, s, d), UNCHANGED talk
    PROVE  /\ shelf' \in [Sessions -> Shelf]
           /\ \A x \in Sessions : Told(shelf'[x], talk'[x])
           /\ sid' = [sid EXCEPT ![p] = s]
           /\ conv' \in [Procs -> SUBSET Messages]
           /\ \A q \in Procs : q # p => conv'[q] = conv[q] /\ sid'[q] = sid[q]
           /\ sid'[p] = s
           /\ \A m \in conv'[p] : m[1] \in talk[s]
<1>1. Folded(d, "store") \in Shelf /\ Told(Folded(d, "store"), talk'[s])
  BY FoldedFits
<1>2. /\ shelf' \in [Sessions -> Shelf]
      /\ \A x \in Sessions : Told(shelf'[x], talk'[x])
  BY <1>1, FilesStep DEF OpenFromStore
<1>3. /\ Resumed(d) \in SUBSET Messages /\ Resumed(d) # None
      /\ TurnsIn(Resumed(d)) \subseteq talk[s]
  BY ResumedContents, ResumedTold
<1>4. \A m \in Resumed(d) : m[1] \in talk[s]
  BY <1>3 DEF TurnsIn
<1>5. /\ conv' = [conv EXCEPT ![p] = Resumed(d)] /\ sid' = [sid EXCEPT ![p] = s]
      /\ conv \in [Procs -> SUBSET Messages] /\ sid \in [Procs -> Sessions \cup {None}]
  BY DEF OpenFromStore, OwnInv, Belongs, TypeInv, TypeOK, Placed
<1>6. conv'[p] = Resumed(d) /\ conv' \in [Procs -> SUBSET Messages]
  BY <1>3, <1>5
<1> QED BY <1>2, <1>4, <1>5, <1>6

\* p has opened s, or holds what it held.
Landed(p, s) ==
    /\ shelf' \in [Sessions -> Shelf]
    /\ \A x \in Sessions : Told(shelf'[x], talk'[x])
    /\ sid' \in [Procs -> Sessions \cup {None}]
    /\ conv' \in [Procs -> SUBSET Messages]
    /\ \A q \in Procs : q # p => conv'[q] = conv[q] /\ sid'[q] = sid[q]
    /\ \/ sid'[p] = s /\ \A m \in conv'[p] : m[1] \in talk[s]
       \/ sid'[p] = sid[p] /\ conv'[p] = conv[p]

LEMMA StoredStep ==
    ASSUME OwnInv, NEW p \in Procs, NEW s \in Sessions, NEW d \in Shelf,
           Told(d, talk[s]), shelf' = [shelf EXCEPT ![s] = d], UNCHANGED <<conv, sid, talk>>
    PROVE  Landed(p, s)
<1>1. /\ shelf' \in [Sessions -> Shelf]
      /\ \A x \in Sessions : Told(shelf'[x], talk'[x])
  BY FilesStep
<1> QED BY <1>1 DEF OwnInv, TypeInv, TypeOK, Landed

\* What `/session resume` without --force leaves: s opened, or only d stored.
LEMMA PlainStep ==
    ASSUME OwnInv, NEW p \in Procs, NEW s \in Sessions, NEW d \in Shelf,
           Told(d, talk[s]), PlainResume(p, s, d), UNCHANGED talk
    PROVE  Landed(p, s)
<1>1. CASE d.store # None /\ OpenFromStore(p, s, d)
  <2>1. sid' \in [Procs -> Sessions \cup {None}]
    BY <1>1 DEF OpenFromStore, OwnInv, Belongs, TypeInv, TypeOK, Placed
  <2> QED BY <1>1, <2>1, OpenStep DEF Landed
<1>2. CASE shelf' = [shelf EXCEPT ![s] = d] /\ UNCHANGED <<conv, sid>>
  BY <1>2, StoredStep
<1> QED BY <1>1, <1>2 DEF PlainResume

\* An offer about s is over.
LEMMA AnsweredStep ==
    ASSUME OwnInv, NEW p \in Procs, offer[p] # None, Landed(p, offer[p]), AfterOffer(p),
           pc[p] \in {"asking", "applyingNamed", "up", "applying"},
           UNCHANGED <<turn, talk>>
    PROVE  Belongs'
<1>1. turn[p] = None /\ offer[p] \in Sessions /\ sid[p] # None
  BY DEF OwnInv, Belongs, TypeInv, TypeOK, Placed
<1>2. /\ pc' \in [Procs -> LifePhases] /\ offer' \in [Procs -> Sessions \cup {None}]
      /\ pc'[p] = "up"
      /\ \A q \in Procs : q # p => pc'[q] = pc[q] /\ offer'[q] = offer[q]
  BY DEF OwnInv, Belongs, TypeInv, TypeOK, Placed, AfterOffer, LifePhases
<1>3. sid'[p] # None
  BY <1>1, NoneAssumption DEF Landed
<1>5. ASSUME NEW q \in Procs
      PROVE  HeldOwn(q)'
  <2>1. CASE q = p
    <3>1. \A m \in conv'[p] : m[1] \in talk[sid'[p]]
      BY DEF Landed, OwnInv, Belongs, TypeInv, TypeOK, HeldOwn, Placed
    <3> QED BY <1>1, <1>2, <2>1, <3>1 DEF HeldOwn
  <2>2. CASE q # p
    BY <1>2, <2>2 DEF Landed, OwnInv, Belongs, HeldOwn
  <2> QED BY <2>1, <2>2
<1> QED BY <1>5 DEF Belongs, Landed

LEMMA LaunchStep ==
    ASSUME OwnInv, NEW p \in Procs, Launch(p)
    PROVE  Belongs'
<1> USE DEF Launch
<1>2. \A s \in Sessions : Told(shelf'[s], talk'[s])
  BY DEF OwnInv, Belongs, files, memory, history
<1>3. \A q \in Procs : HeldOwn(q)'
  BY DEF OwnInv, Belongs, TypeInv, TypeOK, Placed, HeldOwn, files, memory, history, Unused
<1> QED BY <1>2, <1>3 DEF Belongs

LEMMA TurnFailedStep ==
    ASSUME OwnInv, NEW p \in Procs, TurnFailed(p)
    PROVE  Belongs'
<1> USE DEF TurnFailed
<1>2. \A s \in Sessions : Told(shelf'[s], talk'[s])
  BY DEF OwnInv, Belongs, files, memory, history
<1>3. \A q \in Procs : HeldOwn(q)'
  BY DEF OwnInv, Belongs, TypeInv, TypeOK, Placed, HeldOwn, files, memory, history
<1> QED BY <1>2, <1>3 DEF Belongs

LEMMA ExitAppStep ==
    ASSUME OwnInv, NEW p \in Procs, ExitApp(p)
    PROVE  Belongs'
<1> USE DEF ExitApp
<1>2. \A s \in Sessions : Told(shelf'[s], talk'[s])
  BY DEF OwnInv, Belongs, files, memory, history
<1>3. \A q \in Procs : HeldOwn(q)'
  BY DEF OwnInv, Belongs, TypeInv, TypeOK, Placed, HeldOwn, files, memory, history
<1> QED BY <1>2, <1>3 DEF Belongs

LEMMA CrashStep ==
    ASSUME OwnInv, NEW p \in Procs, Crash(p)
    PROVE  Belongs'
<1> USE DEF Crash
<1>2. \A s \in Sessions : Told(shelf'[s], talk'[s])
  BY DEF OwnInv, Belongs, files, memory, history, Forget, ClearMarkers
<1>3. \A q \in Procs : HeldOwn(q)'
  BY DEF OwnInv, Belongs, TypeInv, TypeOK, Placed, HeldOwn, files, memory, history, Forget, ClearMarkers
<1> QED BY <1>2, <1>3 DEF Belongs

LEMMA WrittenFits ==
    ASSUME NEW d \in Shelf, NEW f \in Files, NEW c \in Contents, NEW T,
           Told(d, T), TurnsIn(c) \subseteq T
    PROVE  Written(d, f, c) \in Shelf /\ Told(Written(d, f, c), T)
BY WrittenShelf, WrittenTold

LEMMA DeletedFits ==
    ASSUME NEW d \in Shelf, NEW f \in Files, NEW T, Told(d, T)
    PROVE  Deleted(d, f) \in Shelf /\ Told(Deleted(d, f), T)
BY DeletedShelf, DeletedTold

\* What a running process writes belongs to the session it holds.
LEMMA OwnContents ==
    ASSUME OwnInv, NEW p \in Procs, pc[p] # "down"
    PROVE  /\ sid[p] \in Sessions
           /\ conv[p] \in Contents
           /\ TurnsIn(conv[p]) \subseteq talk[sid[p]]
           /\ shelf[sid[p]] \in Shelf
           /\ Told(shelf[sid[p]], talk[sid[p]])
BY DEF OwnInv, Belongs, TypeInv, TypeOK, Placed, HeldOwn, TurnsIn, Contents

LEMMA AutosaveStep == ASSUME OwnInv, NEW p \in Procs, Autosave(p) PROVE Belongs'
<1> DEFINE s == sid[p]
           d == Written(shelf[s], "recovery", conv[p])
<1>1. /\ s \in Sessions /\ conv[p] \in Contents /\ conv[p] \in SUBSET Messages
      /\ UNCHANGED talk
  BY OwnContents DEF Autosave, OwnInv, Belongs, TypeInv, TypeOK, Placed
<1>2. d \in Shelf /\ Told(d, talk[s])
  BY OwnContents, WrittenFits DEF Autosave, Files
<1>7. shelf' \in [Sessions -> Shelf] /\ \A x \in Sessions : Told(shelf'[x], talk'[x])
  <2>1. CASE conv[p] = {}
    BY <2>1 DEF Autosave, OwnInv, Belongs, TypeInv, TypeOK, Placed
  <2>2. CASE conv[p] # {}
    <3>1. shelf' = [shelf EXCEPT ![s] = d]
      BY <2>2 DEF Autosave
    <3> HIDE DEF s, d
    <3> QED BY <1>1, <1>2, <3>1, FilesStep
  <2> QED BY <2>1, <2>2
<1> USE DEF Autosave
<1>9. \A q \in Procs : HeldOwn(q)'
  BY <1>1 DEF OwnInv, Belongs, TypeInv, TypeOK, Placed, HeldOwn, files, memory, history
<1> QED BY <1>7, <1>9 DEF Belongs

LEMMA SubmitStep ==
    ASSUME OwnInv, NEW p \in Procs, NEW t \in Turns, Submit(p, t) PROVE Belongs'
<1> DEFINE s == sid[p]
           now == conv[p] \cup {<<t, "asked">>}
           d == Written(shelf[s], "journal", now)
<1>1. /\ s \in Sessions /\ talk \in [Sessions -> SUBSET Turns]
      /\ talk' = [talk EXCEPT ![s] = @ \cup {t}]
      /\ conv[p] \in SUBSET Messages
  BY OwnContents DEF Submit, Idle, OwnInv, Belongs, TypeInv, TypeOK, Placed
<1>2. talk'[s] = talk[s] \cup {t} /\ \A x \in Sessions : talk[x] \subseteq talk'[x]
  BY <1>1
<1>3. now \in SUBSET Messages
  BY <1>1 DEF Messages
<1>4. \A m \in now : m[1] \in talk'[s]
  BY <1>2 DEF OwnInv, Belongs, HeldOwn, Submit, Idle
<1>5. d \in Shelf /\ Told(d, talk'[s])
  <2>1. Told(shelf[s], talk'[s])
    BY <1>1, <1>2, ToldMore DEF OwnInv, Belongs
  <2>2. TurnsIn(now) \subseteq talk'[s]
    BY <1>4 DEF TurnsIn
  <2>3. shelf[s] \in Shelf /\ now \in Contents /\ "journal" \in Files
    BY <1>1, <1>3 DEF OwnInv, Belongs, TypeInv, TypeOK, Placed, Contents, Files
  <2> HIDE DEF now
  <2> QED BY <2>1, <2>2, <2>3, WrittenFits
<1>7. shelf' \in [Sessions -> Shelf] /\ \A x \in Sessions : Told(shelf'[x], talk'[x])
  <2>1. CASE UNCHANGED shelf
    BY <1>1, <1>2, <2>1, ToldMore DEF OwnInv, Belongs, TypeInv, TypeOK, Placed
  <2>2. CASE shelf' = [shelf EXCEPT ![s] = d]
    <3> HIDE DEF s, d
    <3> QED BY <1>1, <1>2, <1>5, <2>2, FilesStep
  <2> QED BY <2>1, <2>2 DEF Submit
<1>9. \A q \in Procs : HeldOwn(q)'
  <2> TAKE q \in Procs
  <2>1. CASE q = p
    <3>1. t \in TurnsIn(now)
      <4>1. now # None
        BY <1>3, NoFileAssumption DEF Messages
      <4>2. \E m \in now : m[1] = t
        <5>1. <<t, "asked">> \in now /\ <<t, "asked">>[1] = t
          OBVIOUS
        <5> HIDE DEF now
        <5> QED BY <5>1
      <4> HIDE DEF now
      <4> QED BY <4>1, <4>2 DEF TurnsIn
    <3> HIDE DEF now
    <3>2. conv'[p] = now /\ turn'[p] = t /\ pc'[p] = "up" /\ offer'[p] = None
      BY DEF Submit, Idle, OwnInv, Belongs, TypeInv, TypeOK, Placed, now
    <3> QED BY <1>4, <2>1, <3>1, <3>2 DEF Submit, HeldOwn
  <2>2. CASE q # p
    BY <1>1, <1>2, <2>2 DEF Submit, Idle, OwnInv, Belongs, TypeInv, TypeOK, Placed, HeldOwn
  <2> QED BY <2>1, <2>2
<1> QED BY <1>7, <1>9 DEF Belongs

LEMMA TurnCompletedStep == ASSUME OwnInv, NEW p \in Procs, TurnCompleted(p) PROVE Belongs'
<1> DEFINE s == sid[p]
           now == Answered(p)
           stored == Written(shelf[s], "store", now)
           journalled == Written(shelf[s], "journal", now)
<1>1. /\ s \in Sessions /\ shelf[s] \in Shelf /\ Told(shelf[s], talk[s])
      /\ turn[p] \in Turns /\ turn[p] \in talk[s] /\ UNCHANGED talk
      /\ \A m \in conv[p] : m[1] \in talk[s]
      /\ conv[p] \in SUBSET Messages
  BY OwnContents DEF TurnCompleted, OwnInv, Belongs, TypeInv, TypeOK, Placed, HeldOwn
<1>2. /\ now \in SUBSET Messages
      /\ \A m \in now : m[1] \in talk[s]
  BY <1>1 DEF Answered, Messages
<1>3. /\ now \in Contents /\ TurnsIn(now) \subseteq talk[s]
      /\ "store" \in Files /\ "journal" \in Files
  BY <1>2 DEF Contents, TurnsIn, Files
<1>4. conv' = [conv EXCEPT ![p] = now]
  BY DEF TurnCompleted
<1>5. conv' \in [Procs -> SUBSET Messages] /\ conv'[p] = now
      /\ \A q \in Procs : q # p => conv'[q] = conv[q]
  <2> HIDE DEF now
  <2> QED BY <1>2, <1>4 DEF OwnInv, Belongs, TypeInv, TypeOK, Placed
<1>7. shelf' \in [Sessions -> Shelf] /\ \A x \in Sessions : Told(shelf'[x], talk'[x])
  <2> HIDE DEF s, now
  <2>1. CASE shelf' = [shelf EXCEPT ![s] = Deleted(stored, "journal")]
    <3>1. stored \in Shelf /\ Told(stored, talk[s])
      BY <1>1, <1>3, WrittenFits
    <3> HIDE DEF stored
    <3>2. Deleted(stored, "journal") \in Shelf /\ Told(Deleted(stored, "journal"), talk[s])
      BY <1>3, <3>1, DeletedFits
    <3> QED BY <1>1, <2>1, <3>2, FilesStep
  <2>2. CASE shelf' = [shelf EXCEPT ![s] = journalled]
    <3>1. journalled \in Shelf /\ Told(journalled, talk[s])
      BY <1>1, <1>3, WrittenFits
    <3> HIDE DEF journalled
    <3> QED BY <1>1, <2>2, <3>1, FilesStep
  <2>3. CASE UNCHANGED shelf
    BY <1>1, <2>3 DEF OwnInv, Belongs, TypeInv, TypeOK, Placed
  <2> QED BY <2>1, <2>2, <2>3 DEF TurnCompleted, StoredAndRotated, s, now
<1>9. \A q \in Procs : HeldOwn(q)'
  <2> TAKE q \in Procs
  <2>1. CASE q = p
    BY <1>1, <1>2, <1>5, <2>1 DEF TurnCompleted, OwnInv, Belongs, TypeInv, TypeOK, Placed, HeldOwn
  <2>2. CASE q # p
    BY <1>1, <1>5, <2>2 DEF TurnCompleted, OwnInv, Belongs, TypeInv, TypeOK, Placed, HeldOwn
  <2> QED BY <2>1, <2>2
<1> QED BY <1>7, <1>9 DEF Belongs

LEMMA ResumeStep ==
    ASSUME OwnInv, "midTurn" \notin Faults,
           NEW p \in Procs, NEW s \in Sessions, Resume(p, s)
    PROVE  Belongs'
<1>1. /\ shelf[s] \in Shelf /\ Told(shelf[s], talk[s]) /\ shelf[s].store # None
      /\ OpenFromStore(p, s, shelf[s]) /\ UNCHANGED talk
      /\ turn[p] = None /\ pc[p] = "up"
      /\ UNCHANGED <<marker, ledger, pc, turn, offer, queued, secured, owed, promised>>
  BY DEF Resume, Switchable, Idle, OwnInv, Belongs, TypeInv, TypeOK, Placed, history
<1>2. /\ shelf' \in [Sessions -> Shelf] /\ \A x \in Sessions : Told(shelf'[x], talk'[x])
      /\ conv' \in [Procs -> SUBSET Messages] /\ sid' = [sid EXCEPT ![p] = s]
      /\ \A q \in Procs : q # p => conv'[q] = conv[q] /\ sid'[q] = sid[q]
      /\ sid'[p] = s /\ \A m \in conv'[p] : m[1] \in talk[s]
  BY <1>1, OpenStep
<1>9. \A q \in Procs : HeldOwn(q)'
  BY <1>1, <1>2 DEF OwnInv, Belongs, HeldOwn
<1> QED BY <1>2, <1>9 DEF Belongs

\* The conversation of p stored as s.
LEMMA StoreAsFits ==
    ASSUME OwnInv, NEW p \in Procs, pc[p] # "down", NEW s \in Sessions, StoreAs(p, s)
    PROVE  /\ shelf' \in [Sessions -> Shelf]
           /\ \A x \in Sessions : Told(shelf'[x], talk'[x])
           /\ talk' \in [Sessions -> SUBSET Turns]
           /\ \A x \in Sessions : talk[x] \subseteq talk'[x]
           /\ \A m \in conv[p] : m[1] \in talk[sid[p]] /\ m[1] \in talk'[s]
<1> DEFINE d == Written(shelf[s], "store", conv[p])
<1>1. /\ TurnsIn(conv[p]) \subseteq Turns /\ conv[p] \in Contents /\ "store" \in Files
      /\ shelf[s] \in Shelf /\ Told(shelf[s], talk[s])
      /\ \A m \in conv[p] : m[1] \in talk[sid[p]]
  BY DEF OwnInv, Belongs, TypeInv, TypeOK, Placed, HeldOwn, TurnsIn, Messages, Contents, Files
<1>2. /\ talk' \in [Sessions -> SUBSET Turns]
      /\ talk'[s] = talk[s] \cup TurnsIn(conv[p])
      /\ \A x \in Sessions : talk[x] \subseteq talk'[x]
  BY <1>1 DEF StoreAs, OwnInv, Belongs, TypeInv, TypeOK, Placed
<1>3. d \in Shelf /\ Told(d, talk'[s])
  BY <1>1, <1>2, ToldMore, WrittenFits
<1>4. shelf' = [shelf EXCEPT ![s] = d]
  BY DEF StoreAs
<1>5. \A m \in conv[p] : m[1] \in talk'[s]
  <2>1. conv[p] # None
    BY NoFileAssumption DEF OwnInv, Belongs, TypeInv, TypeOK, Placed, Messages
  <2> QED BY <1>2, <2>1 DEF TurnsIn
<1> HIDE DEF d
<1> QED BY <1>1, <1>2, <1>3, <1>4, <1>5, FilesStep

LEMMA ForkStep == ASSUME OwnInv, NEW p \in Procs, NEW n \in Sessions, Fork(p, n) PROVE Belongs'
<1>1. /\ pc[p] = "up" /\ offer[p] = None /\ sid' = [sid EXCEPT ![p] = n]
      /\ owed' = [owed EXCEPT ![n] = {}]
      /\ StoreAs(p, n)
      /\ UNCHANGED <<marker, ledger, pc, conv, turn, offer, queued, secured, promised>>
  BY DEF Fork, Idle
<1>2. /\ shelf' \in [Sessions -> Shelf]
      /\ \A x \in Sessions : Told(shelf'[x], talk'[x])
      /\ talk' \in [Sessions -> SUBSET Turns]
      /\ \A x \in Sessions : talk[x] \subseteq talk'[x]
      /\ \A m \in conv[p] : m[1] \in talk'[n]
  BY <1>1, StoreAsFits
<1>9. \A q \in Procs : HeldOwn(q)'
  <2> TAKE q \in Procs
  <2>1. CASE q = p
    BY <1>1, <1>2, <2>1 DEF OwnInv, Belongs, TypeInv, TypeOK, Placed, HeldOwn
  <2>2. CASE q # p
    BY <1>1, <1>2, <2>2 DEF OwnInv, Belongs, TypeInv, TypeOK, Placed, HeldOwn
  <2> QED BY <2>1, <2>2
<1> QED BY <1>2, <1>9 DEF Belongs

LEMMA ClearStep == ASSUME OwnInv, NEW p \in Procs, NEW n \in Sessions, Clear(p, n) PROVE Belongs'
<1>1. /\ pc[p] = "up" /\ turn[p] = None /\ conv' = [conv EXCEPT ![p] = {}]
      /\ StoreAs(p, n)
      /\ owed' = [owed EXCEPT ![sid[p]] = {}, ![n] = owed[sid[p]]]
      /\ UNCHANGED <<marker, ledger, pc, sid, turn, offer, queued, secured, promised>>
  BY DEF Clear, Idle, CopyFirst
<1>2. /\ shelf' \in [Sessions -> Shelf]
      /\ \A x \in Sessions : Told(shelf'[x], talk'[x])
      /\ talk' \in [Sessions -> SUBSET Turns]
      /\ \A x \in Sessions : talk[x] \subseteq talk'[x]
  BY <1>1, StoreAsFits
<1>3. owed' \in [Sessions -> SUBSET Messages]
  <2>1. sid[p] \in Sessions
    BY <1>1, OwnContents
  <2>2. owed \in [Sessions -> SUBSET Messages]
    BY DEF OwnInv, Belongs, TypeInv, TypeOK, Placed
  <2> QED BY <1>1, <2>1, <2>2
<1>9. \A q \in Procs : HeldOwn(q)'
  <2> TAKE q \in Procs
  <2>1. CASE q = p
    BY <1>1, <2>1 DEF OwnInv, Belongs, TypeInv, TypeOK, Placed, HeldOwn
  <2>2. CASE q # p
    BY <1>1, <1>2, <2>2 DEF OwnInv, Belongs, TypeInv, TypeOK, Placed, HeldOwn
  <2> QED BY <2>1, <2>2
<1> QED BY <1>2, <1>9 DEF Belongs

\* A process is gone, and one session's files changed on the way.
LEMMA GoneStep ==
    ASSUME OwnInv, NEW p \in Procs, Forget(p), UNCHANGED talk,
           shelf' \in [Sessions -> Shelf], \A x \in Sessions : Told(shelf'[x], talk'[x])
    PROVE  Belongs'
<1>2. \A q \in Procs : HeldOwn(q)'
  BY DEF OwnInv, Belongs, TypeInv, TypeOK, Placed, HeldOwn, Forget
<1> QED BY <1>2 DEF Belongs

LEMMA ExitSavedStep == ASSUME OwnInv, NEW p \in Procs, ExitSaved(p) PROVE Belongs'
<1> DEFINE s == sid[p]
           w == Written(shelf[s], "store", conv[p])
           d == Deleted(w, "recovery")
<1>1. /\ pc[p] # "down" /\ Forget(p) /\ UNCHANGED <<ledger, talk, secured, promised>>
      /\ marker' \in [Sessions -> Procs \cup {None}]
      /\ owed' \in [Sessions -> SUBSET Messages]
  BY DEF ExitSaved, ClearMarkers, OwnInv, Belongs, TypeInv, TypeOK, Placed
<1>2. s \in Sessions /\ "store" \in Files /\ "recovery" \in Files
  BY <1>1, OwnContents DEF Files
<1>3. w \in Shelf /\ Told(w, talk[s])
  BY <1>1, <1>2, OwnContents, WrittenFits
<1>4. d \in Shelf /\ Told(d, talk'[s])
  <2> HIDE DEF w
  <2> QED BY <1>1, <1>2, <1>3, DeletedFits
<1>5. shelf' = [shelf EXCEPT ![s] = d]
  BY <1>2 DEF ExitSaved, OwnSession, OwnInv, Belongs, TypeInv, TypeOK, Placed
<1>6. shelf' \in [Sessions -> Shelf] /\ \A x \in Sessions : Told(shelf'[x], talk'[x])
  <2> HIDE DEF s, d
  <2> QED BY <1>1, <1>2, <1>4, <1>5, FilesStep
<1> QED BY <1>1, <1>6, GoneStep

LEMMA ExitTimedOutStep == ASSUME OwnInv, NEW p \in Procs, ExitTimedOut(p) PROVE Belongs'
<1> DEFINE s == sid[p]
           w == Written(shelf[s], "store", conv[p])
<1>1. /\ pc[p] # "down" /\ Forget(p) /\ UNCHANGED <<ledger, talk, secured, promised>>
      /\ marker' \in [Sessions -> Procs \cup {None}]
      /\ owed' \in [Sessions -> SUBSET Messages]
  BY DEF ExitTimedOut, ClearMarkers, OwnInv, Belongs, TypeInv, TypeOK, Placed
<1>2. s \in Sessions /\ "store" \in Files /\ shelf[s] \in Shelf /\ Told(shelf[s], talk[s])
  BY <1>1, OwnContents DEF Files
<1>3. w \in Shelf /\ Told(w, talk[s])
  BY <1>1, <1>2, OwnContents, WrittenFits
<1>4. PICK wrote \in BOOLEAN : shelf' = [shelf EXCEPT ![s] = IF wrote THEN w ELSE shelf[s]]
  BY <1>2 DEF ExitTimedOut, KeepRecovery, OwnInv, Belongs, TypeInv, TypeOK, Placed
<1> DEFINE d == IF wrote THEN w ELSE shelf[s]
<1>5. d \in Shelf /\ Told(d, talk'[s])
  <2> HIDE DEF w, s
  <2> QED BY <1>1, <1>2, <1>3
<1>6. shelf' \in [Sessions -> Shelf] /\ \A x \in Sessions : Told(shelf'[x], talk'[x])
  <2>1. shelf' = [shelf EXCEPT ![s] = d]
    BY <1>4
  <2> HIDE DEF s, d
  <2> QED BY <1>1, <1>2, <1>5, <2>1, FilesStep
<1> QED BY <1>1, <1>6, GoneStep

LEMMA StoreRecoveredStep == ASSUME OwnInv, NEW p \in Procs, StoreRecovered(p) PROVE Belongs'
<1> DEFINE s == offer[p]
           d == Written(shelf[s], "store", conv[p])
<1>1. /\ pc[p] \in {"applying", "applyingNamed"} /\ shelf' = [shelf EXCEPT ![s] = d]
      /\ AfterOffer(p) /\ owed' = [owed EXCEPT ![s] = {}]
      /\ UNCHANGED <<marker, ledger, sid, conv, turn, talk, secured, promised>>
  BY DEF StoreRecovered
<1>2. s \in Sessions /\ sid[p] = s /\ turn[p] = None /\ pc[p] # "down"
  BY <1>1 DEF OwnInv, Belongs, TypeInv, TypeOK, Placed
<1>3. d \in Shelf /\ Told(d, talk'[s])
  BY <1>1, <1>2, OwnContents, WrittenFits DEF Files
<1>7. shelf' \in [Sessions -> Shelf] /\ \A x \in Sessions : Told(shelf'[x], talk'[x])
  <2> HIDE DEF s, d
  <2> QED BY <1>1, <1>2, <1>3, FilesStep
<1>9. \A q \in Procs : HeldOwn(q)'
  BY <1>1, <1>2 DEF OwnInv, Belongs, TypeInv, TypeOK, Placed, HeldOwn, AfterOffer
<1> QED BY <1>7, <1>9 DEF Belongs

LEMMA StoreRecoveredFailsStep ==
    ASSUME OwnInv, NEW p \in Procs, StoreRecoveredFails(p) PROVE Belongs'
<1>1. /\ pc[p] \in {"applying", "applyingNamed"} /\ AfterOffer(p)
      /\ UNCHANGED <<marker, ledger, turn, talk, secured, owed, promised>>
  BY DEF StoreRecoveredFails, history
<1>2. /\ offer[p] # None /\ offer[p] \in Sessions
      /\ shelf[offer[p]] \in Shelf /\ Told(shelf[offer[p]], talk[offer[p]])
  BY <1>1 DEF OwnInv, Belongs, TypeInv, TypeOK, Placed
<1>3. Landed(p, offer[p])
  <2>1. CASE PlainResume(p, offer[p], shelf[offer[p]])
    BY <1>1, <1>2, <2>1, PlainStep
  <2>2. CASE UNCHANGED <<shelf, conv, sid>>
    BY <1>1, <2>2 DEF OwnInv, Belongs, TypeInv, TypeOK, Placed, Landed
  <2> QED BY <2>1, <2>2 DEF StoreRecoveredFails
<1> QED BY <1>1, <1>2, <1>3, AnsweredStep DEF Belongs, TypeInv, TypeOK, Placed

\* An answer that restored nothing and left d on s's shelf.
LEMMA WithoutItStep ==
    ASSUME OwnInv, NEW p \in Procs, Asked(p), NEW d \in Shelf, Told(d, talk[offer[p]]),
           WithoutIt(p, offer[p], d), UNCHANGED <<turn, talk>>
    PROVE  Belongs'
<1>1. pc[p] \in {"asking", "up"} /\ offer[p] # None /\ offer[p] \in Sessions
  BY DEF Asked, OwnInv, Belongs, TypeInv, TypeOK, Placed
<1>2. Landed(p, offer[p])
  <2>1. CASE PlainResume(p, offer[p], d)
    BY <1>1, <2>1, PlainStep
  <2>2. CASE shelf' = [shelf EXCEPT ![offer[p]] = d] /\ UNCHANGED <<conv, sid>>
    BY <1>1, <2>2, StoredStep
  <2> QED BY <2>1, <2>2 DEF WithoutIt
<1> QED BY <1>1, <1>2, AnsweredStep DEF WithoutIt

LEMMA AnswerResumeGoneStep ==
    ASSUME OwnInv, NEW p \in Procs, AnswerResumeGone(p) PROVE Belongs'
<1>1. /\ Asked(p) /\ WithoutIt(p, offer[p], shelf[offer[p]])
      /\ UNCHANGED <<turn, talk>>
  BY DEF AnswerResumeGone, history
<1>2. shelf[offer[p]] \in Shelf /\ Told(shelf[offer[p]], talk[offer[p]])
  BY <1>1 DEF Asked, OwnInv, Belongs, TypeInv, TypeOK, Placed
<1> QED BY <1>1, <1>2, WithoutItStep

LEMMA AnswerKeepStep == ASSUME OwnInv, NEW p \in Procs, AnswerKeep(p) PROVE Belongs'
<1>1. Asked(p) /\ WithoutIt(p, offer[p], shelf[offer[p]]) /\ UNCHANGED <<turn, talk>>
  BY DEF AnswerKeep
<1>2. shelf[offer[p]] \in Shelf /\ Told(shelf[offer[p]], talk[offer[p]])
  BY <1>1 DEF Asked, OwnInv, Belongs, TypeInv, TypeOK
<1> QED BY <1>1, <1>2, WithoutItStep

LEMMA AnswerRemoveStep == ASSUME OwnInv, NEW p \in Procs, AnswerRemove(p) PROVE Belongs'
<1> DEFINE d == Deleted(shelf[offer[p]], "recovery")
<1>1. Asked(p) /\ WithoutIt(p, offer[p], d) /\ UNCHANGED <<turn, talk>>
  BY DEF AnswerRemove
<1>2. /\ shelf[offer[p]] \in Shelf /\ Told(shelf[offer[p]], talk[offer[p]])
      /\ "recovery" \in Files
  BY <1>1 DEF Asked, OwnInv, Belongs, TypeInv, TypeOK, Files
<1>3. d \in Shelf /\ Told(d, talk[offer[p]])
  BY <1>2, DeletedFits
<1> HIDE DEF d
<1> QED BY <1>1, <1>3, WithoutItStep

LEMMA AnswerResumeStep == ASSUME OwnInv, NEW p \in Procs, AnswerResume(p) PROVE Belongs'
<1> DEFINE s == offer[p]
           d == shelf[s]
           c == IF Fresher(d, "journal", "recovery") THEN d.journal ELSE d.recovery
<1>1. /\ pc[p] \in {"asking", "up"} /\ s # None /\ d.recovery # None
      /\ shelf' = [shelf EXCEPT ![s] = ReadAndRetire(d)]
      /\ conv' = [conv EXCEPT ![p] = c]
      /\ sid' = [sid EXCEPT ![p] = s]
      /\ pc' = [pc EXCEPT ![p] = IF @ = "asking" THEN "applyingNamed" ELSE "applying"]
      /\ promised' = [promised EXCEPT ![s] = None]
      /\ UNCHANGED <<marker, ledger, turn, offer, queued, talk, secured, owed>>
  BY DEF AnswerResume, Asked
<1>2. s \in Sessions /\ d \in Shelf /\ Told(d, talk[s]) /\ turn[p] = None
  BY <1>1 DEF OwnInv, Belongs, TypeInv, TypeOK, Placed
<1>3. c \in SUBSET Messages /\ c # None /\ TurnsIn(c) \subseteq talk[s]
  BY <1>1, <1>2 DEF Shelf, Contents, Fresher, Told
<1>4. \A m \in c : m[1] \in talk[s]
  <2> HIDE DEF c
  <2> QED BY <1>3 DEF TurnsIn
<1>5. ReadAndRetire(d) \in Shelf /\ Told(ReadAndRetire(d), talk'[s])
  <2>1. Folded(d, "recovery") \in Shelf /\ Told(Folded(d, "recovery"), talk'[s])
    BY <1>1, <1>2, FoldedFits
  <2> QED BY <2>1, DeletedFits DEF ReadAndRetire, Files
<1>6. conv' \in [Procs -> SUBSET Messages] /\ conv'[p] = c
      /\ \A q \in Procs : q # p => conv'[q] = conv[q]
  <2> HIDE DEF c
  <2> QED BY <1>1, <1>3 DEF OwnInv, Belongs, TypeInv, TypeOK, Placed
<1>7. shelf' \in [Sessions -> Shelf] /\ \A x \in Sessions : Told(shelf'[x], talk'[x])
  <2> HIDE DEF s, d
  <2> QED BY <1>1, <1>2, <1>5, FilesStep
<1>9. ASSUME NEW q \in Procs
      PROVE  HeldOwn(q)'
  <2>1. CASE q = p
    <3> HIDE DEF c, d
    <3> QED BY <1>1, <1>2, <1>4, <1>6, <2>1 DEF OwnInv, Belongs, TypeInv, TypeOK, Placed, HeldOwn
  <2>2. CASE q # p
    <3> HIDE DEF c, d
    <3> QED BY <1>1, <1>2, <1>6, <2>2 DEF OwnInv, Belongs, TypeInv, TypeOK, Placed, HeldOwn
  <2> QED BY <2>1, <2>2
<1> QED BY <1>7, <1>9 DEF Belongs

LEMMA OfferNamedStep ==
    ASSUME OwnInv, NEW p \in Procs, NEW s \in Sessions, OfferNamed(p, s) PROVE Belongs'
<1> DEFINE d == Discarded(shelf[s], s)
<1>1. /\ pc[p] = "launched"
      /\ UNCHANGED <<marker, ledger, turn, queued, talk, secured, owed, promised>>
  BY DEF OfferNamed, history
<1>2. d \in Shelf /\ Told(d, talk[s]) /\ turn[p] = None /\ sid[p] # None /\ offer[p] = None
  BY <1>1, DiscardedFits DEF OwnInv, Belongs, TypeInv, TypeOK, Placed
<1>3. CASE /\ pc' = [pc EXCEPT ![p] = "naming"]
           /\ offer' = [offer EXCEPT ![p] = s]
           /\ UNCHANGED <<shelf, conv, sid>>
  <2>2. \A q \in Procs : HeldOwn(q)'
    BY <1>1, <1>2, <1>3 DEF OwnInv, Belongs, TypeInv, TypeOK, Placed, HeldOwn
  <2> QED BY <1>1, <1>3, <2>2 DEF OwnInv, Belongs
<1>4. CASE pc' = [pc EXCEPT ![p] = "boot"] /\ PlainResume(p, s, d) /\ UNCHANGED offer
  <2>1. Landed(p, s)
    BY <1>1, <1>2, <1>4, PlainStep
  <2>2. TypeOK'
    BY <1>1, <1>2, <1>4, <2>1, NoneAssumption DEF OwnInv, Belongs, TypeInv, TypeOK, Placed, LifePhases, Landed
  <2>3. ASSUME NEW q \in Procs
        PROVE  HeldOwn(q)'
    <3>1. CASE q = p
      <4>1. \A m \in conv'[p] : m[1] \in talk[sid'[p]]
        BY <1>1, <2>1 DEF Landed, OwnInv, Belongs, HeldOwn
      <4> QED BY <1>1, <1>2, <1>4, <3>1, <4>1 DEF OwnInv, Belongs, TypeInv, TypeOK, Placed, HeldOwn
    <3>2. CASE q # p
      BY <1>1, <1>4, <2>1, <3>2 DEF OwnInv, Belongs, TypeInv, TypeOK, Placed, HeldOwn, Landed
    <3> QED BY <3>1, <3>2
  <2> QED BY <2>1, <2>2, <2>3 DEF OwnInv, Belongs, Landed
<1> QED BY <1>3, <1>4 DEF OfferNamed

LEMMA BootOfferStep == ASSUME OwnInv, NEW p \in Procs, BootOffer(p) PROVE Belongs'
<1>1. /\ pc[p] \in {"launched", "naming", "boot"}
      /\ pc' = [pc EXCEPT ![p] = IF @ = "naming" THEN "asking" ELSE "up"]
      /\ UNCHANGED <<sid, conv, turn, talk>>
  BY DEF BootOffer, history
<1>2. turn[p] = None /\ sid[p] # None
  BY <1>1 DEF OwnInv, Belongs, TypeInv, TypeOK, Placed
<1>7. shelf' \in [Sessions -> Shelf] /\ \A x \in Sessions : Told(shelf'[x], talk'[x])
  <2>1. PICK gone :
           shelf' = [x \in Sessions |-> IF x \in gone THEN Discarded(shelf[x], x) ELSE shelf[x]]
    BY DEF BootOffer
  <2>2. ASSUME NEW x \in Sessions
        PROVE  shelf'[x] \in Shelf /\ Told(shelf'[x], talk'[x])
    <3>1. shelf[x] \in Shelf /\ Told(shelf[x], talk'[x])
      BY <1>1 DEF OwnInv, Belongs, TypeInv, TypeOK, Placed
    <3>2. Discarded(shelf[x], x) \in Shelf /\ Told(Discarded(shelf[x], x), talk'[x])
      BY <3>1, DiscardedFits
    <3> QED BY <2>1, <3>1, <3>2
  <2> QED BY <2>1, <2>2
<1>9. \A q \in Procs : HeldOwn(q)'
  BY <1>1, <1>2 DEF OwnInv, Belongs, TypeInv, TypeOK, Placed, HeldOwn
<1> QED BY <1>7, <1>9 DEF Belongs

-----------------------------------------------------------------------------
LEMMA OwnNext ==
    ASSUME "load" \notin Faults, "midTurn" \notin Faults, OwnInv, [Next]_vars
    PROVE  OwnInv'
<1>1. ASSUME NEW p \in Procs, Offers(p) PROVE Belongs'
  BY <1>1, BootOfferStep, AnswerResumeStep, StoreRecoveredStep, StoreRecoveredFailsStep,
     AnswerResumeGoneStep, AnswerKeepStep, AnswerRemoveStep DEF Offers
<1>2. ASSUME NEW p \in Procs, NEW s \in Sessions,
             OfferNamed(p, s) \/ Resume(p, s) \/ Fork(p, s) \/ Clear(p, s) \/ Load(p, s)
      PROVE  Belongs'
  BY <1>2, OfferNamedStep, ResumeStep, ForkStep, ClearStep DEF Load
<1>3. ASSUME NEW p \in Procs,
             \/ Launch(p) \/ TurnCompleted(p) \/ TurnFailed(p) \/ Autosave(p)
             \/ ExitApp(p) \/ ExitSaved(p) \/ ExitTimedOut(p) \/ Crash(p)
      PROVE  Belongs'
  BY <1>3, LaunchStep, TurnCompletedStep, TurnFailedStep, AutosaveStep,
     ExitAppStep, ExitSavedStep, ExitTimedOutStep, CrashStep
<1>4. ASSUME UNCHANGED vars PROVE Belongs'
  BY <1>4 DEF vars, files, memory, history, OwnInv, Belongs, HeldOwn
<1>5. Belongs'
  BY <1>1, <1>2, <1>3, <1>4, SubmitStep DEF Next
<1> QED BY <1>5, TypeNext DEF OwnInv

\* Every file and every live conversation of every session holds only turns
\* that belong to it, in every reachable state.
THEOREM OwnInvariant ==
    ASSUME "load" \notin Faults, "midTurn" \notin Faults
    PROVE  Spec => []OwnInv
<1>1. OwnInv /\ [Next]_vars => OwnInv'
  BY OwnNext
<1> QED BY <1>1, OwnInit, PTL DEF Spec

\* Unless /load shows a session under another's id, or a session is switched
\* while its turn runs, no resume ever brings back another session's turns
\* (core/session-resume-core.ts, the journal rebind of core/turn-event-wiring.ts).
THEOREM ResumesOwnConversation ==
    ASSUME "load" \notin Faults, "midTurn" \notin Faults
    PROVE  Spec => []OwnConversationOnly
BY OwnInvariant, OwnInvImplies, PTL
-----------------------------------------------------------------------------
(***************************************************************************)
(* One process per session.  Every step that takes a session up looks first *)
(* whether another process has it: a new id is nobody's, a resume reads the *)
(* marker, and a recovery offer is dropped when its session was opened.     *)
(***************************************************************************)

\* Each terminal sees the others' markers in time, nobody forces a resume or
\* answers an offer that is out of date, and no session is saved under the name
\* of another.
Orderly == {"lateMarker", "staleOffer", "force", "sameName"} \cap Faults = {}

SoleInv == \A p, q \in Procs : sid[p] # None /\ sid[p] = sid[q] => p = q

\* Nobody but p has s.
Free(p, s) == \A q \in Procs : q # p => sid[q] # s

LEMMA HoldersHave ==
    ASSUME TypeInv, NEW s \in Sessions
    PROVE  Holders(s) = {p \in Procs : sid[p] = s}
BY NoneAssumption DEF TypeInv, TypeOK, Holders, Running

LEMMA SoleInvImplies == ASSUME TypeInv, SoleInv PROVE OneHolder
<1> SUFFICES ASSUME NEW s \in Sessions PROVE Cardinality(Holders(s)) <= 1
  BY DEF OneHolder
<1>1. CASE Holders(s) = {}
  <2>1. Cardinality(Holders(s)) = 0
    BY <1>1, FS_EmptySet
  <2> QED BY <2>1
<1>2. CASE \E p \in Procs : Holders(s) = {p}
  <2>1. Cardinality(Holders(s)) = 1
    BY <1>2, FS_Singleton
  <2> QED BY <2>1
<1>3. Holders(s) = {} \/ \E p \in Procs : Holders(s) = {p}
  <2>1. s # None
    BY NoneAssumption
  <2> QED BY <2>1, HoldersHave DEF SoleInv
<1> QED BY <1>1, <1>2, <1>3

LEMMA UnusedFree ==
    ASSUME TypeInv, NEW p \in Procs, NEW s \in Sessions, Unused(s) PROVE Free(p, s)
BY HoldersHave DEF Unused, Free

LEMMA UncontendedFree ==
    ASSUME TypeInv, Orderly, NEW p \in Procs, NEW s \in Sessions,
           ~Live(p, s), Uncontended(p, s)
    PROVE  Free(p, s)
<1> SUFFICES ASSUME NEW q \in Procs, q # p, sid[q] = s PROVE FALSE
  BY DEF Free
<1>1. q \in Holders(s)
  BY HoldersHave
<1>2. marker[s] = q
  BY <1>1 DEF Uncontended, Orderly
<1> QED BY <1>2, NoneAssumption DEF Live

LEMMA OrphanFree ==
    ASSUME TypeInv, Orderly, NEW p \in Procs, offer[p] \in Sessions, StillOrphan(p)
    PROVE  Free(p, offer[p])
BY HoldersHave DEF StillOrphan, Orderly, Free

LEMMA OrphanOffered ==
    ASSUME Orderly, "askedTwice" \notin Faults, NEW p \in Procs, StillOrphan(p)
    PROVE  Offerable(shelf[offer[p]])
BY DEF StillOrphan, Orderly

\* p takes up a session nobody else has, keeps the one it has, or is gone.
TakesUp(p) ==
    /\ \A q \in Procs : q # p => sid'[q] = sid[q]
    /\ sid'[p] = sid[p] \/ sid'[p] = None \/ Free(p, sid'[p])

LEMMA TakenUp == ASSUME SoleInv, NEW p \in Procs, TakesUp(p) PROVE SoleInv'
<1> SUFFICES ASSUME NEW q \in Procs, NEW r \in Procs, sid'[q] # None, sid'[q] = sid'[r]
             PROVE  q = r
  BY DEF SoleInv
<1>1. CASE q # p /\ r # p
  BY <1>1 DEF TakesUp, SoleInv
<1>2. CASE q = p /\ r # p
  BY <1>2 DEF TakesUp, SoleInv, Free
<1>3. CASE q # p /\ r = p
  BY <1>3 DEF TakesUp, SoleInv, Free
<1> QED BY <1>1, <1>2, <1>3

LEMMA ForgetTakes == ASSUME TypeInv, NEW p \in Procs, Forget(p) PROVE TakesUp(p)
BY DEF Forget, TakesUp, TypeInv, TypeOK

LEMMA PlainTakes ==
    ASSUME TypeInv, Orderly, NEW p \in Procs, NEW s \in Sessions, NEW d, PlainResume(p, s, d)
    PROVE  TakesUp(p)
<1>1. CASE ~Live(p, s) /\ Uncontended(p, s) /\ OpenFromStore(p, s, d)
  BY <1>1, UncontendedFree DEF OpenFromStore, TakesUp, TypeInv, TypeOK
<1>2. CASE UNCHANGED sid
  BY <1>2 DEF TakesUp
<1> QED BY <1>1, <1>2 DEF PlainResume

LEMMA WithoutItTakes ==
    ASSUME TypeInv, Orderly, NEW p \in Procs, Asked(p), NEW d, WithoutIt(p, offer[p], d)
    PROVE  TakesUp(p)
<1>1. offer[p] \in Sessions
  BY DEF Asked, TypeInv, TypeOK
<1>2. CASE PlainResume(p, offer[p], d)
  BY <1>1, <1>2, PlainTakes
<1>3. CASE UNCHANGED sid
  BY <1>3 DEF TakesUp
<1> QED BY <1>2, <1>3 DEF WithoutIt

LEMMA OffersTake == ASSUME TypeInv, Orderly, NEW p \in Procs, Offers(p) PROVE TakesUp(p)
<1>1. CASE AnswerResume(p)
  <2>1. offer[p] \in Sessions /\ sid' = [sid EXCEPT ![p] = offer[p]] /\ StillOrphan(p)
    BY <1>1 DEF AnswerResume, Asked, TypeInv, TypeOK
  <2> QED BY <2>1, OrphanFree DEF TakesUp, TypeInv, TypeOK
<1>2. CASE StoreRecoveredFails(p)
  <2>1. offer[p] \in Sessions
    BY <1>2 DEF StoreRecoveredFails, TypeInv, TypeOK
  <2>2. CASE PlainResume(p, offer[p], shelf[offer[p]])
    BY <2>1, <2>2, PlainTakes
  <2>3. CASE UNCHANGED sid
    BY <2>3 DEF TakesUp
  <2> QED BY <1>2, <2>2, <2>3 DEF StoreRecoveredFails
<1>3. CASE AnswerResumeGone(p) \/ AnswerKeep(p) \/ AnswerRemove(p)
  <2>1. Asked(p) /\ \E d : WithoutIt(p, offer[p], d)
    BY <1>3 DEF AnswerResumeGone, AnswerKeep, AnswerRemove
  <2> QED BY <2>1, WithoutItTakes
<1>4. CASE BootOffer(p) \/ StoreRecovered(p)
  BY <1>4 DEF BootOffer, StoreRecovered, TakesUp
<1> QED BY <1>1, <1>2, <1>3, <1>4 DEF Offers

LEMMA CommandsTake ==
    ASSUME TypeInv, Orderly, NEW p \in Procs, NEW s \in Sessions,
           OfferNamed(p, s) \/ Resume(p, s) \/ Fork(p, s) \/ Clear(p, s) \/ Load(p, s)
    PROVE  TakesUp(p)
<1>1. CASE OfferNamed(p, s)
  <2>1. CASE PlainResume(p, s, Discarded(shelf[s], s))
    BY <2>1, PlainTakes
  <2>2. CASE UNCHANGED sid
    BY <2>2 DEF TakesUp
  <2> QED BY <1>1, <2>1, <2>2 DEF OfferNamed
<1>2. CASE Resume(p, s)
  <2>1. ~Live(p, s) /\ Uncontended(p, s) /\ sid' = [sid EXCEPT ![p] = s]
    BY <1>2 DEF Resume, OpenFromStore, Orderly
  <2> QED BY <2>1, UncontendedFree DEF TakesUp, TypeInv, TypeOK
<1>3. CASE Fork(p, s)
  <2>1. (Unused(s) \/ s = sid[p]) /\ sid' = [sid EXCEPT ![p] = s]
    BY <1>3 DEF Fork, Orderly
  <2> QED BY <2>1, UnusedFree DEF TakesUp, TypeInv, TypeOK
<1>4. CASE Clear(p, s) \/ Load(p, s)
  BY <1>4 DEF Clear, Load, TakesUp
<1> QED BY <1>1, <1>2, <1>3, <1>4

LEMMA OthersTake ==
    ASSUME TypeInv, NEW p \in Procs,
           \/ Launch(p) \/ TurnCompleted(p) \/ TurnFailed(p) \/ Autosave(p)
           \/ ExitApp(p) \/ ExitSaved(p) \/ ExitTimedOut(p) \/ Crash(p)
           \/ \E t \in Turns : Submit(p, t)
    PROVE  TakesUp(p)
<1>1. CASE Launch(p)
  <2>1. PICK n \in Sessions : Unused(n) /\ sid' = [sid EXCEPT ![p] = n]
    BY <1>1 DEF Launch
  <2> QED BY <2>1, UnusedFree DEF TakesUp, TypeInv, TypeOK
<1>2. CASE ExitSaved(p) \/ ExitTimedOut(p) \/ Crash(p)
  BY <1>2, ForgetTakes DEF ExitSaved, ExitTimedOut, Crash
<1>3. CASE \/ TurnCompleted(p) \/ TurnFailed(p) \/ Autosave(p) \/ ExitApp(p)
           \/ \E t \in Turns : Submit(p, t)
  BY <1>3 DEF TurnCompleted, TurnFailed, Autosave, ExitApp, Submit, memory, TakesUp
<1> QED BY <1>1, <1>2, <1>3

LEMMA SoleNext == ASSUME Orderly, TypeInv, SoleInv, [Next]_vars PROVE SoleInv'
<1>1. CASE Next
  <2>1. \E p \in Procs : TakesUp(p)
    BY <1>1, OffersTake, CommandsTake, OthersTake DEF Next
  <2> QED BY <2>1, TakenUp
<1>2. CASE UNCHANGED vars
  BY <1>2 DEF vars, memory, SoleInv
<1> QED BY <1>1, <1>2

LEMMA SoleInit == Init => SoleInv
BY DEF Init, SoleInv

\* With orderly terminals no two running processes ever hold one session,
\* whatever crashes, saves, forks, recoveries and resumes come between
\* (input/commands/session-workflow.ts, runtime/recovery-prompt.ts).
THEOREM OneProcessPerSession == ASSUME Orderly PROVE Spec => []OneHolder
<1>1. TypeInv /\ SoleInv /\ [Next]_vars => TypeInv' /\ SoleInv'
  BY TypeNext, SoleNext
<1>2. TypeInv /\ SoleInv => OneHolder
  BY SoleInvImplies
<1> QED BY <1>1, <1>2, TypeInit, SoleInit, PTL DEF Spec

-----------------------------------------------------------------------------
(***************************************************************************)
(* Completed turns.  At every moment some session is home to the turn: its  *)
(* store and journal bring it back, so does its recovery point if that is   *)
(* what the next launch would offer, and whoever holds the session has the  *)
(* turn on screen, so that nothing written there can lose it.               *)
(***************************************************************************)
Recovered(d) == IF Fresher(d, "journal", "recovery") THEN d.journal ELSE d.recovery

Keeps(d, m) ==
    /\ d.store # None /\ m \in Resumed(d)
    /\ Offerable(d) => m \in Recovered(d)

Home(m, s) == Keeps(shelf[s], m) /\ \A p \in Procs : sid[p] = s => m \in conv[p]

SecuredInv == \A t \in secured : \E s \in Sessions : Home(<<t, "answered">>, s)

\* A store, a journal record and a recovery point just written are newer than
\* the session's other files, and leave the order of those alone.
LEMMA StoreWritten ==
    ASSUME NEW d \in Shelf, NEW c \in SUBSET Messages
    PROVE  LET w == Written(d, "store", c) IN
           /\ w \in Shelf
           /\ w.store = c /\ w.journal = d.journal /\ w.recovery = d.recovery /\ c # None
           /\ ~Fresher(w, "journal", "store") /\ ~Fresher(w, "recovery", "store")
           /\ Fresher(w, "journal", "recovery") <=> Fresher(d, "journal", "recovery")
<1> DEFINE w == Written(d, "store", c)
<1>1. w \in Shelf
  BY WrittenShelf DEF Files, Contents
<1>2. c # None
  BY NoFileAssumption DEF Messages
<1>3. w.store = c /\ w.journal = d.journal /\ w.recovery = d.recovery
  BY DEF Written, Shelf
<1>4. \A f, g \in Files \ {"store"} : <<f, "store">> \notin w.newer
        /\ (<<f, g>> \in w.newer <=> <<f, g>> \in d.newer)
  BY DEF Written, Shelf, Files
<1> QED BY <1>1, <1>2, <1>3, <1>4 DEF Fresher, Files

LEMMA JournalWritten ==
    ASSUME NEW d \in Shelf, NEW c \in SUBSET Messages
    PROVE  LET w == Written(d, "journal", c) IN
           /\ w \in Shelf
           /\ w.store = d.store /\ w.journal = c /\ w.recovery = d.recovery /\ c # None
           /\ Fresher(w, "journal", "store") /\ Fresher(w, "journal", "recovery")
           /\ Fresher(w, "recovery", "store") <=> Fresher(d, "recovery", "store")
<1> DEFINE w == Written(d, "journal", c)
<1>1. w \in Shelf
  BY WrittenShelf DEF Files, Contents
<1>2. c # None
  BY NoFileAssumption DEF Messages
<1>3. w.store = d.store /\ w.journal = c /\ w.recovery = d.recovery
  BY DEF Written, Shelf
<1>4. /\ d.store # None => <<"journal", "store">> \in w.newer
      /\ d.recovery # None => <<"journal", "recovery">> \in w.newer
      /\ <<"recovery", "store">> \in w.newer <=> <<"recovery", "store">> \in d.newer
  BY DEF Written, Shelf, Files
<1> QED BY <1>1, <1>2, <1>3, <1>4 DEF Fresher

LEMMA RecoveryWritten ==
    ASSUME NEW d \in Shelf, NEW c \in SUBSET Messages
    PROVE  LET w == Written(d, "recovery", c) IN
           /\ w \in Shelf
           /\ w.store = d.store /\ w.journal = d.journal /\ w.recovery = c /\ c # None
           /\ Fresher(w, "recovery", "store") /\ ~Fresher(w, "journal", "recovery")
           /\ Fresher(w, "journal", "store") <=> Fresher(d, "journal", "store")
<1> DEFINE w == Written(d, "recovery", c)
<1>1. w \in Shelf
  BY WrittenShelf DEF Files, Contents
<1>2. c # None
  BY NoFileAssumption DEF Messages
<1>3. w.store = d.store /\ w.journal = d.journal /\ w.recovery = c
  BY DEF Written, Shelf
<1>4. /\ d.store # None => <<"recovery", "store">> \in w.newer
      /\ <<"journal", "recovery">> \notin w.newer
      /\ <<"journal", "store">> \in w.newer <=> <<"journal", "store">> \in d.newer
  BY DEF Written, Shelf, Files
<1> QED BY <1>1, <1>2, <1>3, <1>4 DEF Fresher

LEMMA RecoveryDeleted ==
    ASSUME NEW d \in Shelf
    PROVE  LET w == Deleted(d, "recovery") IN
           /\ w \in Shelf
           /\ w.store = d.store /\ w.journal = d.journal /\ w.recovery = None
           /\ Fresher(w, "journal", "store") <=> Fresher(d, "journal", "store")
<1> DEFINE w == Deleted(d, "recovery")
<1>1. w \in Shelf
  BY DeletedShelf DEF Files
<1>2. w.store = d.store /\ w.journal = d.journal /\ w.recovery = None
  BY DEF Deleted, Shelf
<1>3. <<"journal", "store">> \in w.newer <=> <<"journal", "store">> \in d.newer
  BY DEF Deleted, Shelf, Files
<1> QED BY <1>1, <1>2, <1>3 DEF Fresher

LEMMA JournalDeleted ==
    ASSUME NEW d \in Shelf
    PROVE  LET w == Deleted(d, "journal") IN
           /\ w \in Shelf
           /\ w.store = d.store /\ w.journal = None /\ w.recovery = d.recovery
           /\ Fresher(w, "recovery", "store") <=> Fresher(d, "recovery", "store")
<1> DEFINE w == Deleted(d, "journal")
<1>1. w \in Shelf
  BY DeletedShelf DEF Files
<1>2. w.store = d.store /\ w.journal = None /\ w.recovery = d.recovery
  BY DEF Deleted, Shelf
<1>3. <<"recovery", "store">> \in w.newer <=> <<"recovery", "store">> \in d.newer
  BY DEF Deleted, Shelf, Files
<1> QED BY <1>1, <1>2, <1>3 DEF Fresher

\* What the operations on a session's files do to what they bring back.
LEMMA StoreBrings ==
    ASSUME NEW d \in Shelf, NEW c \in SUBSET Messages
    PROVE  LET w == Written(d, "store", c) IN
           w.store # None /\ Resumed(w) = c /\ ~Offerable(w)
BY StoreWritten DEF Resumed, Offerable

LEMMA RotatedBrings ==
    ASSUME NEW d \in Shelf, NEW c \in SUBSET Messages
    PROVE  LET w == StoredAndRotated(d, c) IN
           w \in Shelf /\ w.store = c /\ c # None /\ Resumed(w) = c /\ ~Offerable(w)
<1> DEFINE w == Written(d, "store", c)
<1>1. w \in Shelf /\ w.store = c /\ c # None /\ ~Fresher(w, "recovery", "store")
  BY StoreWritten
<1> HIDE DEF w
<1>2. /\ Deleted(w, "journal") \in Shelf
      /\ Deleted(w, "journal").store = c /\ Deleted(w, "journal").journal = None
      /\ ~Fresher(Deleted(w, "journal"), "recovery", "store")
  BY <1>1, JournalDeleted
<1> QED BY <1>1, <1>2 DEF StoredAndRotated, Resumed, Offerable, Fresher, w

LEMMA FoldedBrings ==
    ASSUME NEW d \in Shelf, d.store # None
    PROVE  LET w == Folded(d, "store") IN
           /\ w \in Shelf /\ w.store # None /\ Resumed(w) = Resumed(d)
           /\ w = d \/ ~Offerable(w)
<1>1. CASE ~Fresher(d, "journal", "store")
  BY <1>1 DEF Folded
<1>2. CASE Fresher(d, "journal", "store")
  <2>1. d.journal \in SUBSET Messages
    BY <1>2 DEF Fresher, Shelf, Contents
  <2>2. Folded(d, "store") = StoredAndRotated(d, d.journal)
    BY <1>2 DEF Folded, StoredAndRotated
  <2> QED BY <1>2, <2>1, <2>2, RotatedBrings DEF Resumed
<1> QED BY <1>1, <1>2

LEMMA RetiredBrings ==
    ASSUME NEW d \in Shelf, d.recovery # None
    PROVE  LET w == ReadAndRetire(d) IN
           /\ w \in Shelf /\ w.recovery = None /\ ~Offerable(w)
           /\ IF Fresher(d, "journal", "recovery") THEN w.store # None /\ Resumed(w) = Recovered(d)
              ELSE w.store = d.store /\ Resumed(w) = Resumed(d)
<1> DEFINE f == Folded(d, "recovery")
<1>1. f \in Shelf
  BY FoldedFits
<1>2. IF Fresher(d, "journal", "recovery") THEN f.store # None /\ Resumed(f) = Recovered(d)
      ELSE f = d
  <2>1. CASE Fresher(d, "journal", "recovery")
    <3>1. d.journal \in SUBSET Messages
      BY <2>1 DEF Fresher, Shelf, Contents
    <3>2. f = StoredAndRotated(d, d.journal)
      BY <2>1 DEF Folded, StoredAndRotated
    <3> HIDE DEF f
    <3> QED BY <2>1, <3>1, <3>2, RotatedBrings DEF Recovered
  <2> QED BY <2>1 DEF Folded
<1> HIDE DEF f
<1>3. /\ ReadAndRetire(d) \in Shelf /\ ReadAndRetire(d).recovery = None
      /\ ReadAndRetire(d).store = f.store
      /\ Resumed(ReadAndRetire(d)) = Resumed(f)
  BY <1>1, RecoveryDeleted DEF ReadAndRetire, Resumed, f
<1> QED BY <1>2, <1>3 DEF Offerable, Fresher

\* The message survives each of them.
LEMMA StoreKeeps ==
    ASSUME NEW d \in Shelf, NEW c \in SUBSET Messages, NEW m \in c
    PROVE  /\ Keeps(Written(d, "store", c), m)
           /\ Keeps(StoredAndRotated(d, c), m)
           /\ Keeps(Deleted(Written(d, "store", c), "recovery"), m)
<1> DEFINE w == Written(d, "store", c)
<1>1. w \in Shelf /\ w.store # None /\ Resumed(w) = c
  BY StoreBrings, StoreWritten
<1>2. Keeps(w, m)
  BY StoreBrings DEF Keeps
<1>3. Keeps(StoredAndRotated(d, c), m)
  BY RotatedBrings DEF Keeps
<1> HIDE DEF w
<1>4. Keeps(Deleted(w, "recovery"), m)
  <2>1. /\ Deleted(w, "recovery").store # None /\ Resumed(Deleted(w, "recovery")) = Resumed(w)
        /\ Deleted(w, "recovery").recovery = None
    BY <1>1, RecoveryDeleted DEF Resumed
  <2> QED BY <1>1, <2>1 DEF Keeps, Offerable, Fresher
<1> QED BY <1>2, <1>3, <1>4 DEF w

LEMMA JournalKeeps ==
    ASSUME NEW d \in Shelf, NEW c \in SUBSET Messages, NEW m \in c, d.store # None
    PROVE  Keeps(Written(d, "journal", c), m)
BY JournalWritten DEF Keeps, Resumed, Recovered

LEMMA RecoveryKeeps ==
    ASSUME NEW d \in Shelf, NEW c \in SUBSET Messages, NEW m \in c, Keeps(d, m)
    PROVE  Keeps(Written(d, "recovery", c), m)
BY RecoveryWritten DEF Keeps, Resumed, Recovered

LEMMA DeletedKeeps ==
    ASSUME NEW d \in Shelf, NEW m, Keeps(d, m)
    PROVE  Keeps(Deleted(d, "recovery"), m)
<1>1. Resumed(Deleted(d, "recovery")) = Resumed(d) /\ Deleted(d, "recovery").store # None
  BY RecoveryDeleted DEF Resumed, Keeps
<1>2. ~Offerable(Deleted(d, "recovery"))
  BY RecoveryDeleted DEF Offerable, Fresher
<1> QED BY <1>1, <1>2 DEF Keeps

LEMMA DiscardedKeeps ==
    ASSUME NEW d \in Shelf, NEW s, NEW m, Keeps(d, m) PROVE Keeps(Discarded(d, s), m)
BY DeletedKeeps DEF Discarded

LEMMA FoldedKeeps ==
    ASSUME NEW d \in Shelf, NEW m, Keeps(d, m)
    PROVE  Keeps(Folded(d, "store"), m) /\ m \in Resumed(d)
BY FoldedBrings DEF Keeps

LEMMA RetiredKeeps ==
    ASSUME NEW d \in Shelf, NEW m, Keeps(d, m), Offerable(d)
    PROVE  Keeps(ReadAndRetire(d), m) /\ m \in Recovered(d)
<1>1. m \in Recovered(d) /\ d.recovery # None
  BY DEF Keeps, Offerable, Fresher
<1> QED BY <1>1, RetiredBrings DEF Keeps

\* Only p and the files of s change.
LEMMA HomeStep ==
    ASSUME TypeInv, NEW p \in Procs, NEW s \in Sessions, NEW d,
           shelf' = [shelf EXCEPT ![s] = d],
           \A q \in Procs : q # p => sid'[q] = sid[q] /\ conv'[q] = conv[q],
           NEW m, NEW x \in Sessions, Home(m, x),
           x = s => Keeps(d, m), sid'[p] = x => m \in conv'[p]
    PROVE  Home(m, x)'
<1>1. Keeps(shelf'[x], m)
  <2>1. CASE x = s
    BY <2>1 DEF TypeInv, TypeOK
  <2>2. CASE x # s
    BY <2>2 DEF TypeInv, TypeOK, Home
  <2> QED BY <2>1, <2>2
<1>2. \A q \in Procs : sid'[q] = x => m \in conv'[q]
  BY DEF Home
<1> QED BY <1>1, <1>2 DEF Home

\* No file changes.
LEMMA HomeStays ==
    ASSUME TypeInv, NEW p \in Procs, UNCHANGED shelf,
           \A q \in Procs : q # p => sid'[q] = sid[q] /\ conv'[q] = conv[q],
           NEW m, NEW x \in Sessions, Home(m, x), sid'[p] = x => m \in conv'[p]
    PROVE  Home(m, x)'
BY DEF Home

LEMMA OpenHome ==
    ASSUME TypeInv, NEW p \in Procs, NEW s \in Sessions, NEW d \in Shelf, d.store # None,
           OpenFromStore(p, s, d),
           NEW m, NEW x \in Sessions, Home(m, x), x = s => Keeps(d, m)
    PROVE  Home(m, x)'
<1>1. /\ shelf' = [shelf EXCEPT ![s] = Folded(d, "store")]
      /\ \A q \in Procs : q # p => sid'[q] = sid[q] /\ conv'[q] = conv[q]
      /\ sid'[p] = s /\ conv'[p] = Resumed(d)
  BY DEF OpenFromStore, TypeInv, TypeOK
<1>2. x = s => Keeps(Folded(d, "store"), m) /\ m \in Resumed(d)
  BY FoldedKeeps
<1> QED BY <1>1, <1>2, HomeStep

LEMMA PlainHome ==
    ASSUME TypeInv, NEW p \in Procs, NEW s \in Sessions, NEW d \in Shelf, PlainResume(p, s, d),
           NEW m, NEW x \in Sessions, Home(m, x), x = s => Keeps(d, m)
    PROVE  Home(m, x)'
<1>1. CASE d.store # None /\ OpenFromStore(p, s, d)
  BY <1>1, OpenHome
<1>2. CASE shelf' = [shelf EXCEPT ![s] = d] /\ UNCHANGED <<conv, sid>>
  <2>1. /\ \A q \in Procs : q # p => sid'[q] = sid[q] /\ conv'[q] = conv[q]
        /\ sid'[p] = x => m \in conv'[p]
    BY <1>2 DEF Home
  <2> QED BY <1>2, <2>1, HomeStep
<1> QED BY <1>1, <1>2 DEF PlainResume

LEMMA WithoutItHome ==
    ASSUME TypeInv, NEW p \in Procs, Asked(p), NEW d \in Shelf, WithoutIt(p, offer[p], d),
           NEW m, NEW x \in Sessions, Home(m, x), x = offer[p] => Keeps(d, m)
    PROVE  Home(m, x)'
<1>1. offer[p] \in Sessions
  BY DEF Asked, TypeInv, TypeOK
<1>2. CASE PlainResume(p, offer[p], d)
  BY <1>1, <1>2, PlainHome
<1>3. CASE shelf' = [shelf EXCEPT ![offer[p]] = d] /\ UNCHANGED <<conv, sid>>
  <2>1. /\ \A q \in Procs : q # p => sid'[q] = sid[q] /\ conv'[q] = conv[q]
        /\ sid'[p] = x => m \in conv'[p]
    BY <1>3 DEF Home
  <2> QED BY <1>1, <1>3, <2>1, HomeStep
<1> QED BY <1>2, <1>3 DEF WithoutIt

LEMMA OffersHome ==
    ASSUME TypeInv, Orderly, "askedTwice" \notin Faults, NEW p \in Procs, Offers(p),
           NEW m, NEW x \in Sessions, Home(m, x)
    PROVE  Home(m, x)'
<1>0. /\ \A s \in Sessions : shelf[s] \in Shelf
      /\ Keeps(shelf[x], m) /\ (sid[p] = x => m \in conv[p])
  BY DEF TypeInv, TypeOK, Home
<1>1. CASE BootOffer(p)
  <2>1. PICK gone :
           shelf' = [s \in Sessions |-> IF s \in gone THEN Discarded(shelf[s], s) ELSE shelf[s]]
    BY <1>1 DEF BootOffer
  <2>2. Keeps(shelf'[x], m)
    BY <1>0, <2>1, DiscardedKeeps
  <2>3. UNCHANGED <<sid, conv>>
    BY <1>1 DEF BootOffer
  <2> QED BY <2>2, <2>3 DEF Home
<1>2. CASE AnswerResume(p)
  <2> DEFINE s == offer[p]
  <2>1. /\ s \in Sessions /\ StillOrphan(p)
        /\ shelf' = [shelf EXCEPT ![s] = ReadAndRetire(shelf[s])]
        /\ conv' = [conv EXCEPT ![p] = Recovered(shelf[s])]
        /\ sid' = [sid EXCEPT ![p] = s]
    BY <1>2 DEF AnswerResume, Asked, TypeInv, TypeOK, Recovered
  <2>2. /\ \A q \in Procs : q # p => sid'[q] = sid[q] /\ conv'[q] = conv[q]
        /\ sid'[p] = s /\ conv'[p] = Recovered(shelf[s])
    BY <2>1 DEF TypeInv, TypeOK
  <2>3. x = s => Keeps(ReadAndRetire(shelf[s]), m) /\ m \in Recovered(shelf[s])
    BY <1>0, <2>1, OrphanOffered, RetiredKeeps
  <2> QED BY <2>1, <2>2, <2>3, HomeStep
<1>3. CASE StoreRecovered(p)
  <2> DEFINE s == offer[p]
  <2>1. /\ s \in Sessions /\ sid[p] = s /\ pc[p] # "down" /\ UNCHANGED <<sid, conv>>
        /\ shelf' = [shelf EXCEPT ![s] = Written(shelf[s], "store", conv[p])]
    BY <1>3 DEF StoreRecovered, TypeInv, TypeOK, Placed
  <2>2. x = s => Keeps(Written(shelf[s], "store", conv[p]), m)
    BY <1>0, <2>1, RunningTypes, StoreKeeps
  <2>3. /\ \A q \in Procs : q # p => sid'[q] = sid[q] /\ conv'[q] = conv[q]
        /\ sid'[p] = x => m \in conv'[p]
    BY <1>0, <2>1
  <2> QED BY <2>1, <2>2, <2>3, HomeStep
<1>4. CASE StoreRecoveredFails(p)
  <2>1. offer[p] \in Sessions
    BY <1>4 DEF StoreRecoveredFails, TypeInv, TypeOK
  <2>2. CASE PlainResume(p, offer[p], shelf[offer[p]])
    BY <1>0, <2>1, <2>2, PlainHome
  <2>3. CASE UNCHANGED <<shelf, conv, sid>>
    BY <2>3 DEF Home
  <2> QED BY <1>4, <2>2, <2>3 DEF StoreRecoveredFails
<1>5. CASE AnswerResumeGone(p) \/ AnswerKeep(p)
  <2>1. Asked(p) /\ WithoutIt(p, offer[p], shelf[offer[p]]) /\ offer[p] \in Sessions
    BY <1>5 DEF AnswerResumeGone, AnswerKeep, Asked, TypeInv, TypeOK
  <2> QED BY <1>0, <2>1, WithoutItHome
<1>6. CASE AnswerRemove(p)
  <2> DEFINE d == Deleted(shelf[offer[p]], "recovery")
  <2>1. Asked(p) /\ WithoutIt(p, offer[p], d) /\ offer[p] \in Sessions
    BY <1>6 DEF AnswerRemove, Asked, TypeInv, TypeOK
  <2>2. d \in Shelf /\ (x = offer[p] => Keeps(d, m))
    BY <1>0, <2>1, RecoveryDeleted, DeletedKeeps
  <2> HIDE DEF d
  <2> QED BY <2>1, <2>2, WithoutItHome
<1> QED BY <1>1, <1>2, <1>3, <1>4, <1>5, <1>6 DEF Offers

\* /clear moves the home to the copy it makes; nothing else moves one.
LEMMA CommandsHome ==
    ASSUME TypeInv, Orderly, "load" \notin Faults, NEW p \in Procs, NEW s \in Sessions,
           OfferNamed(p, s) \/ Resume(p, s) \/ Fork(p, s) \/ Clear(p, s) \/ Load(p, s),
           NEW m, NEW x \in Sessions, Home(m, x)
    PROVE  \E y \in Sessions : Home(m, y)'
<1>0. /\ shelf[s] \in Shelf
      /\ Keeps(shelf[x], m) /\ (sid[p] = x => m \in conv[p])
  BY DEF TypeInv, TypeOK, Home
<1>1. CASE OfferNamed(p, s)
  <2>1. Discarded(shelf[s], s) \in Shelf /\ (x = s => Keeps(Discarded(shelf[s], s), m))
    BY <1>0, DiscardedFits, DiscardedKeeps
  <2>2. CASE PlainResume(p, s, Discarded(shelf[s], s))
    BY <2>1, <2>2, PlainHome
  <2>3. CASE UNCHANGED <<shelf, conv, sid>>
    BY <2>3 DEF Home
  <2> QED BY <1>1, <2>2, <2>3 DEF OfferNamed
<1>2. CASE Resume(p, s)
  <2>1. shelf[s].store # None /\ OpenFromStore(p, s, shelf[s])
    BY <1>2 DEF Resume
  <2> QED BY <1>0, <2>1, OpenHome
<1>3. CASE Fork(p, s)
  <2>1. /\ pc[p] # "down" /\ UNCHANGED conv
        /\ shelf' = [shelf EXCEPT ![s] = Written(shelf[s], "store", conv[p])]
        /\ sid' = [sid EXCEPT ![p] = s]
        /\ s = sid[p] \/ shelf[s] = Bare
    BY <1>3 DEF Fork, Idle, StoreAs, Orderly, Unused
  <2>2. x = s => m \in conv[p]
    BY <1>0, <2>1 DEF Keeps, Bare
  <2>3. x = s => Keeps(Written(shelf[s], "store", conv[p]), m)
    BY <1>0, <2>1, <2>2, RunningTypes, StoreKeeps
  <2>4. /\ \A q \in Procs : q # p => sid'[q] = sid[q] /\ conv'[q] = conv[q]
        /\ sid'[p] = x => m \in conv'[p]
    BY <2>1, <2>2 DEF TypeInv, TypeOK
  <2> QED BY <2>1, <2>3, <2>4, HomeStep
<1>4. CASE Clear(p, s)
  <2>1. /\ pc[p] # "down" /\ UNCHANGED sid /\ Unused(s)
        /\ shelf' = [shelf EXCEPT ![s] = Written(shelf[s], "store", conv[p])]
        /\ conv' = [conv EXCEPT ![p] = {}]
    BY <1>4 DEF Clear, Idle, CopyFirst, StoreAs
  <2>2. \A q \in Procs : q # p => sid'[q] = sid[q] /\ conv'[q] = conv[q]
    BY <2>1 DEF TypeInv, TypeOK
  <2>3. x # s
    BY <1>0, <2>1 DEF Unused, Keeps, Bare
  <2>4. CASE sid[p] = x
    <3>1. Keeps(Written(shelf[s], "store", conv[p]), m)
      BY <1>0, <2>1, <2>4, RunningTypes, StoreKeeps
    <3>2. \A q \in Procs : sid'[q] # s
      BY <2>1, HoldersHave DEF Unused
    <3>3. shelf'[s] = Written(shelf[s], "store", conv[p])
      BY <2>1 DEF TypeInv, TypeOK
    <3> QED BY <3>1, <3>2, <3>3 DEF Home
  <2>5. CASE sid[p] # x
    <3>1. PICK d : shelf' = [shelf EXCEPT ![s] = d]
      BY <2>1
    <3>2. sid'[p] # x
      BY <2>1, <2>5
    <3>3. Home(m, x)'
      BY <2>2, <2>3, <3>1, <3>2, HomeStep
    <3> QED BY <3>3
  <2> QED BY <2>4, <2>5
<1> QED BY <1>1, <1>2, <1>3, <1>4 DEF Load

LEMMA OthersHome ==
    ASSUME TypeInv, NEW p \in Procs,
           \/ Launch(p) \/ TurnCompleted(p) \/ TurnFailed(p) \/ Autosave(p)
           \/ ExitApp(p) \/ ExitSaved(p) \/ ExitTimedOut(p) \/ Crash(p)
           \/ \E t \in Turns : Submit(p, t),
           NEW m, NEW x \in Sessions, Home(m, x)
    PROVE  Home(m, x)'
<1> DEFINE s == sid[p]
           c == conv[p]
<1>0. /\ Keeps(shelf[x], m) /\ (s = x => m \in c)
      /\ pc[p] # "down" => s \in Sessions /\ c \in SUBSET Messages /\ shelf[s] \in Shelf
  BY RunningTypes DEF Home
<1>1. CASE Launch(p)
  <2>1. PICK n \in Sessions : Unused(n) /\ sid' = [sid EXCEPT ![p] = n]
    BY <1>1 DEF Launch
  <2>2. x # n
    BY <1>0, <2>1 DEF Unused, Keeps, Bare
  <2>3. UNCHANGED <<shelf, conv>>
    BY <1>1 DEF Launch, files
  <2> QED BY <2>1, <2>2, <2>3, HomeStays DEF TypeInv, TypeOK
<1>2. CASE TurnFailed(p) \/ ExitApp(p)
  BY <1>2 DEF TurnFailed, ExitApp, files, Home
<1>3. CASE ExitSaved(p)
  <2> DEFINE d == Deleted(Written(shelf[s], "store", c), "recovery")
  <2>1. pc[p] # "down" /\ Forget(p)
    BY <1>3 DEF ExitSaved
  <2>2. shelf' = [shelf EXCEPT ![s] = d]
    BY <1>0, <1>3, <2>1 DEF ExitSaved, OwnSession, TypeInv, TypeOK
  <2>3. x = s => Keeps(d, m)
    BY <1>0, <2>1, StoreKeeps
  <2>4. /\ \A q \in Procs : q # p => sid'[q] = sid[q] /\ conv'[q] = conv[q]
        /\ sid'[p] # x
    BY <2>1, NoneAssumption DEF Forget, TypeInv, TypeOK
  <2> HIDE DEF d, s, c
  <2> QED BY <1>0, <2>1, <2>2, <2>3, <2>4, HomeStep
<1>4. CASE ExitTimedOut(p)
  <2>1. pc[p] # "down" /\ Forget(p)
    BY <1>4 DEF ExitTimedOut
  <2>2. PICK d \in {shelf[s], Written(shelf[s], "store", c)} : shelf' = [shelf EXCEPT ![s] = d]
    BY <1>4 DEF ExitTimedOut, KeepRecovery
  <2>3. x = s => Keeps(d, m)
    BY <1>0, <2>1, <2>2, StoreKeeps
  <2>4. /\ \A q \in Procs : q # p => sid'[q] = sid[q] /\ conv'[q] = conv[q]
        /\ sid'[p] # x
    BY <2>1, NoneAssumption DEF Forget, TypeInv, TypeOK
  <2> HIDE DEF s, c
  <2> QED BY <1>0, <2>1, <2>2, <2>3, <2>4, HomeStep
<1>5. CASE Crash(p)
  <2>1. Forget(p) /\ UNCHANGED shelf
    BY <1>5 DEF Crash
  <2>2. /\ \A q \in Procs : q # p => sid'[q] = sid[q] /\ conv'[q] = conv[q]
        /\ sid'[p] # x
    BY <2>1, NoneAssumption DEF Forget, TypeInv, TypeOK
  <2> QED BY <2>1, <2>2, HomeStays
<1>6. CASE Autosave(p)
  <2>1. pc[p] # "down" /\ UNCHANGED <<sid, conv>>
    BY <1>6 DEF Autosave, memory
  <2>2. CASE UNCHANGED shelf
    BY <2>1, <2>2 DEF Home
  <2>3. CASE shelf' = [shelf EXCEPT ![s] = Written(shelf[s], "recovery", c)]
    <3>1. x = s => Keeps(Written(shelf[s], "recovery", c), m)
      BY <1>0, <2>1, RecoveryKeeps
    <3>2. /\ \A q \in Procs : q # p => sid'[q] = sid[q] /\ conv'[q] = conv[q]
          /\ sid'[p] = x => m \in conv'[p]
      BY <1>0, <2>1
    <3> HIDE DEF s, c
    <3> QED BY <1>0, <2>1, <2>3, <3>1, <3>2, HomeStep
  <2> QED BY <1>6, <2>2, <2>3 DEF Autosave
<1>7. CASE \E t \in Turns : Submit(p, t)
  <2>1. PICK t \in Turns : Submit(p, t)
    BY <1>7
  <2> DEFINE now == c \cup {<<t, "asked">>}
  <2>2. /\ pc[p] # "down" /\ UNCHANGED sid /\ conv' = [conv EXCEPT ![p] = now]
        /\ now \in SUBSET Messages
    BY <1>0, <2>1 DEF Submit, Idle, Messages
  <2>3. /\ \A q \in Procs : q # p => sid'[q] = sid[q] /\ conv'[q] = conv[q]
        /\ conv'[p] = now /\ sid'[p] = s
    BY <2>2 DEF TypeInv, TypeOK
  <2>4. s = x => m \in now
    BY <1>0
  <2>5. CASE UNCHANGED shelf
    <3> HIDE DEF now
    <3> QED BY <2>3, <2>4, <2>5, HomeStays
  <2>6. CASE shelf' = [shelf EXCEPT ![s] = Written(shelf[s], "journal", now)]
    <3> HIDE DEF now
    <3>1. x = s => Keeps(Written(shelf[s], "journal", now), m)
      BY <1>0, <2>2, <2>4, JournalKeeps DEF Keeps
    <3> QED BY <1>0, <2>2, <2>3, <2>4, <2>6, <3>1, HomeStep
  <2> QED BY <2>1, <2>5, <2>6 DEF Submit
<1>8. CASE TurnCompleted(p)
  <2> DEFINE now == Answered(p)
  <2>1. /\ pc[p] # "down" /\ UNCHANGED sid /\ conv' = [conv EXCEPT ![p] = now]
        /\ now \in SUBSET Messages /\ c \subseteq now
    BY <1>0, <1>8 DEF TurnCompleted, Answered, Messages, TypeInv, TypeOK
  <2>2. /\ \A q \in Procs : q # p => sid'[q] = sid[q] /\ conv'[q] = conv[q]
        /\ conv'[p] = now /\ sid'[p] = s
    BY <2>1 DEF TypeInv, TypeOK
  <2> HIDE DEF now
  <2>3. s = x => m \in now
    BY <1>0, <2>1
  <2>4. CASE UNCHANGED shelf
    BY <2>2, <2>3, <2>4, HomeStays
  <2>5. CASE shelf' = [shelf EXCEPT ![s] = Written(shelf[s], "journal", now)]
    <3>1. x = s => Keeps(Written(shelf[s], "journal", now), m)
      BY <1>0, <2>1, <2>3, JournalKeeps DEF Keeps
    <3> QED BY <1>0, <2>1, <2>2, <2>3, <2>5, <3>1, HomeStep
  <2>6. CASE shelf' = [shelf EXCEPT ![s] = StoredAndRotated(shelf[s], now)]
    <3>1. x = s => Keeps(StoredAndRotated(shelf[s], now), m)
      BY <1>0, <2>1, <2>3, StoreKeeps
    <3> QED BY <1>0, <2>1, <2>2, <2>3, <2>6, <3>1, HomeStep
  <2> QED BY <1>8, <2>4, <2>5, <2>6 DEF TurnCompleted, now
<1> QED BY <1>1, <1>2, <1>3, <1>4, <1>5, <1>6, <1>7, <1>8

\* A turn that just completed has a home in the session it ran in.
LEMMA NewHome ==
    ASSUME TypeInv, SoleInv, NEW p \in Procs, TurnCompleted(p), NEW t \in secured' \ secured
    PROVE  \E s \in Sessions : Home(<<t, "answered">>, s)'
<1> DEFINE now == Answered(p)
           m == <<t, "answered">>
<1>0. PICK s \in Sessions : s = sid[p]
  BY RunningTypes DEF TurnCompleted
<1>1. /\ s = sid[p] /\ shelf[s] \in Shelf /\ turn[p] \in Turns
      /\ now \in SUBSET Messages /\ conv' = [conv EXCEPT ![p] = now] /\ UNCHANGED sid
  BY <1>0, RunningTypes DEF TurnCompleted, Answered, Messages, TypeInv, TypeOK
<1>2. t = turn[p]
  BY DEF TurnCompleted
<1>3. m \in now
  BY <1>2 DEF Answered
<1> HIDE DEF now
<1>4. \A q \in Procs : sid'[q] = s => m \in conv'[q]
  <2>1. s # None
    BY NoneAssumption
  <2>2. \A q \in Procs : sid[q] = s => q = p
    BY <1>1, <2>1 DEF SoleInv
  <2> QED BY <1>1, <1>3, <2>2 DEF TypeInv, TypeOK
<1>5. Keeps(shelf'[s], m)
  <2>1. CASE shelf' = [shelf EXCEPT ![s] = StoredAndRotated(shelf[s], now)]
    <3>1. shelf'[s] = StoredAndRotated(shelf[s], now)
      BY <1>1, <2>1 DEF TypeInv, TypeOK
    <3> QED BY <1>1, <1>3, <3>1, StoreKeeps
  <2>2. CASE shelf' = [shelf EXCEPT ![s] = Written(shelf[s], "journal", now)] /\ shelf[s].store # None
    <3>1. shelf'[s] = Written(shelf[s], "journal", now)
      BY <1>1, <2>2 DEF TypeInv, TypeOK
    <3> QED BY <1>1, <1>3, <2>2, <3>1, JournalKeeps
  <2> QED BY <1>1, <1>2, <2>1, <2>2 DEF TurnCompleted, now
<1>6. Home(m, s)'
  BY <1>4, <1>5 DEF Home
<1> QED BY <1>6

LEMMA SecuredNext ==
    ASSUME Orderly, {"askedTwice", "load"} \cap Faults = {},
           TypeInv, SoleInv, SecuredInv, [Next]_vars
    PROVE  SecuredInv'
<1> SUFFICES ASSUME NEW t \in secured' PROVE \E s \in Sessions : Home(<<t, "answered">>, s)'
  BY DEF SecuredInv
<1>1. CASE t \in secured
  <2>1. PICK x \in Sessions : Home(<<t, "answered">>, x)
    BY <1>1 DEF SecuredInv
  <2>2. CASE Next
    <3>1. "askedTwice" \notin Faults /\ "load" \notin Faults
      OBVIOUS
    <3> QED BY <2>1, <2>2, <3>1, OffersHome, CommandsHome, OthersHome DEF Next
  <2>3. CASE UNCHANGED vars
    BY <2>1, <2>3 DEF vars, files, memory, Home
  <2> QED BY <2>2, <2>3
<1>2. CASE t \notin secured
  <2>1. ASSUME NEW p \in Procs, Offers(p) PROVE UNCHANGED secured
    BY <2>1 DEF Offers, BootOffer, AnswerResume, StoreRecovered, StoreRecoveredFails,
       AnswerResumeGone, AnswerKeep, AnswerRemove, history
  <2>2. ASSUME NEW p \in Procs, NEW s \in Sessions,
               OfferNamed(p, s) \/ Resume(p, s) \/ Fork(p, s) \/ Clear(p, s) \/ Load(p, s)
        PROVE  UNCHANGED secured
    BY <2>2 DEF OfferNamed, Resume, Fork, Clear, Load, history
  <2>3. ASSUME NEW p \in Procs,
               \/ Launch(p) \/ TurnFailed(p) \/ Autosave(p) \/ ExitApp(p)
               \/ ExitSaved(p) \/ ExitTimedOut(p) \/ Crash(p) \/ \E u \in Turns : Submit(p, u)
        PROVE  UNCHANGED secured
    BY <2>3 DEF Launch, TurnFailed, Autosave, ExitApp, ExitSaved, ExitTimedOut, Crash,
       Submit, history
  <2>4. \E p \in Procs : TurnCompleted(p)
    BY <1>2, <2>1, <2>2, <2>3 DEF Next, vars, history
  <2> QED BY <1>2, <2>4, NewHome
<1> QED BY <1>1, <1>2

LEMMA SecuredInit == Init => SecuredInv
BY DEF Init, SecuredInv

LEMMA SecuredInvImplies == SecuredInv => CompletedTurnsSurvive
<1> SUFFICES ASSUME SecuredInv, NEW t \in secured PROVE <<t, "answered">> \in Resumable
  BY DEF CompletedTurnsSurvive
<1>1. PICK s \in Sessions : shelf[s].store # None /\ <<t, "answered">> \in Resumed(shelf[s])
  BY DEF SecuredInv, Home, Keeps
<1> QED BY <1>1 DEF Resumable

\* With orderly terminals, no /load and no second question about a session the
\* first one opened, a completed turn that was stored or journalled is in what
\* some resume brings back, ever after: through failed writes, crashes at any
\* point, recoveries, two questions at one launch, forks, clears, switches in
\* mid-turn and exits that time out (core/turn-event-wiring.ts,
\* core/session-resume-core.ts, runtime/recovery-prompt.ts).
THEOREM NoTurnIsLost ==
    ASSUME Orderly, {"askedTwice", "load"} \cap Faults = {}
    PROVE  Spec => []CompletedTurnsSurvive
<1>1. TypeInv /\ SoleInv /\ SecuredInv /\ [Next]_vars => TypeInv' /\ SoleInv' /\ SecuredInv'
  BY TypeNext, SoleNext, SecuredNext
<1> QED BY <1>1, TypeInit, SoleInit, SecuredInit, SecuredInvImplies, PTL DEF Spec

-----------------------------------------------------------------------------
(***************************************************************************)
(* Recovery points.  A session whose removal is on record is held by nobody *)
(* and has no point to offer, so that no launch deletes a point unasked.    *)
(***************************************************************************)
Removed(s) == s \in ledger => ~Offerable(shelf[s]) /\ \A q \in Procs : sid[q] # s

PointInv == \A s \in Sessions : Removed(s)

LEMMA PointInit == Init => PointInv
BY DEF Init, PointInv, Removed

LEMMA BareOffersNothing == ~Offerable(Bare)
BY DEF Offerable, Fresher, Bare

LEMMA NothingToDiscard ==
    ASSUME NEW s \in Sessions, Removed(s)
    PROVE  Discarded(shelf[s], s) = shelf[s]
BY DEF Discarded, Removed

\* The files of x are left alone unless p has x, takes it up, makes it, or
\* removes its recovery point.
Touches(p, x) ==
    \/ sid[p] = x \/ sid'[p] = x \/ Unused(x)
    \/ AnswerRemove(p) /\ x = offer[p] /\ (sid'[p] = x \/ shelf'[x] = Deleted(shelf[x], "recovery"))

Spared(p) == \A x \in Sessions : shelf'[x] = shelf[x] \/ Touches(p, x)

\* A session p takes up was unused, was offered to it, or was opened with
\* what the run leaves out in mind.
Taken(p, x) ==
    \/ Unused(x)
    \/ AnswerResume(p) /\ x = offer[p]
    \/ \E d : Foreseen(x, d)

Chosen(p) == \A x \in Sessions : sid'[p] = x => sid[p] = x \/ Taken(p, x)

LEMMA PlainSpares ==
    ASSUME TypeInv, NEW p \in Procs, NEW s \in Sessions, NEW d, PlainResume(p, s, d)
    PROVE  /\ \A x \in Sessions : x # s => shelf'[x] = shelf[x]
           /\ sid'[p] = s \/ shelf'[s] = d
           /\ Chosen(p)
           /\ \/ sid'[p] = s /\ d.store # None /\ ~Live(p, s) /\ OpenFromStore(p, s, d) /\ Foreseen(s, d)
              \/ UNCHANGED <<sid, conv>> /\ shelf'[s] = d
<1>1. CASE /\ d.store # None /\ ~Live(p, s) /\ Foreseen(s, d) /\ OpenFromStore(p, s, d)
  BY <1>1 DEF OpenFromStore, Chosen, Taken, TypeInv, TypeOK
<1>2. CASE shelf' = [shelf EXCEPT ![s] = d] /\ UNCHANGED <<conv, sid>>
  BY <1>2 DEF Chosen, TypeInv, TypeOK
<1> QED BY <1>1, <1>2 DEF PlainResume

LEMMA WithoutItSpares ==
    ASSUME TypeInv, NEW p \in Procs, Asked(p), NEW d, WithoutIt(p, offer[p], d)
    PROVE  /\ offer[p] \in Sessions
           /\ \A x \in Sessions : x # offer[p] => shelf'[x] = shelf[x]
           /\ sid'[p] = offer[p] \/ shelf'[offer[p]] = d
           /\ Chosen(p)
<1>1. offer[p] \in Sessions
  BY DEF Asked, TypeInv, TypeOK
<1>2. CASE PlainResume(p, offer[p], d)
  BY <1>1, <1>2, PlainSpares
<1>3. CASE shelf' = [shelf EXCEPT ![offer[p]] = d] /\ UNCHANGED <<conv, sid>>
  BY <1>1, <1>3 DEF Chosen, TypeInv, TypeOK
<1> QED BY <1>1, <1>2, <1>3 DEF WithoutIt

LEMMA OffersSpare ==
    ASSUME TypeInv, PointInv, NEW p \in Procs, Offers(p)
    PROVE  Spared(p) /\ Chosen(p)
<1>1. CASE BootOffer(p)
  <2>1. PICK gone :
           shelf' = [s \in Sessions |-> IF s \in gone THEN Discarded(shelf[s], s) ELSE shelf[s]]
    BY <1>1 DEF BootOffer
  <2>2. \A x \in Sessions : shelf'[x] = shelf[x]
    BY <2>1, NothingToDiscard DEF PointInv
  <2> QED BY <1>1, <2>2 DEF BootOffer, Spared, Chosen
<1>2. CASE AnswerResume(p)
  BY <1>2 DEF AnswerResume, Asked, Spared, Touches, Chosen, Taken, TypeInv, TypeOK
<1>3. CASE StoreRecovered(p)
  BY <1>3 DEF StoreRecovered, Spared, Touches, Chosen, TypeInv, TypeOK, Placed
<1>4. CASE StoreRecoveredFails(p)
  <2>1. offer[p] \in Sessions
    BY <1>4 DEF StoreRecoveredFails, TypeInv, TypeOK
  <2>2. CASE PlainResume(p, offer[p], shelf[offer[p]])
    BY <2>1, <2>2, PlainSpares DEF Spared, Touches
  <2>3. CASE UNCHANGED <<shelf, conv, sid>>
    BY <2>3 DEF Spared, Chosen
  <2> QED BY <1>4, <2>2, <2>3 DEF StoreRecoveredFails
<1>5. CASE AnswerResumeGone(p) \/ AnswerKeep(p)
  <2>1. Asked(p) /\ WithoutIt(p, offer[p], shelf[offer[p]])
    BY <1>5 DEF AnswerResumeGone, AnswerKeep
  <2> QED BY <2>1, WithoutItSpares DEF Spared, Touches
<1>6. CASE AnswerRemove(p)
  <2>1. Asked(p) /\ WithoutIt(p, offer[p], Deleted(shelf[offer[p]], "recovery"))
    BY <1>6 DEF AnswerRemove
  <2> QED BY <1>6, <2>1, WithoutItSpares DEF Spared, Touches
<1> QED BY <1>1, <1>2, <1>3, <1>4, <1>5, <1>6 DEF Offers

LEMMA CommandsSpare ==
    ASSUME TypeInv, Orderly, PointInv, NEW p \in Procs, NEW s \in Sessions,
           OfferNamed(p, s) \/ Resume(p, s) \/ Fork(p, s) \/ Clear(p, s) \/ Load(p, s)
    PROVE  Spared(p) /\ Chosen(p)
<1>1. CASE OfferNamed(p, s)
  <2>1. Discarded(shelf[s], s) = shelf[s]
    BY NothingToDiscard DEF PointInv
  <2>2. CASE PlainResume(p, s, Discarded(shelf[s], s))
    BY <2>1, <2>2, PlainSpares DEF Spared, Touches
  <2>3. CASE UNCHANGED <<shelf, conv, sid>>
    BY <2>3 DEF Spared, Chosen
  <2> QED BY <1>1, <2>2, <2>3 DEF OfferNamed
<1>2. CASE Resume(p, s)
  BY <1>2 DEF Resume, OpenFromStore, Spared, Touches, Chosen, Taken, TypeInv, TypeOK
<1>3. CASE Fork(p, s)
  BY <1>3 DEF Fork, StoreAs, Orderly, Spared, Touches, Chosen, Taken, TypeInv, TypeOK
<1>4. CASE Clear(p, s)
  BY <1>4 DEF Clear, CopyFirst, StoreAs, Spared, Touches, Chosen, TypeInv, TypeOK
<1>5. CASE Load(p, s)
  BY <1>5 DEF Load, files, Spared, Chosen
<1> QED BY <1>1, <1>2, <1>3, <1>4, <1>5

LEMMA OthersSpare ==
    ASSUME TypeInv, NEW p \in Procs,
           \/ Launch(p) \/ TurnCompleted(p) \/ TurnFailed(p) \/ Autosave(p)
           \/ ExitApp(p) \/ ExitSaved(p) \/ ExitTimedOut(p) \/ Crash(p)
           \/ \E t \in Turns : Submit(p, t)
    PROVE  Spared(p) /\ Chosen(p)
<1>1. CASE Launch(p)
  BY <1>1 DEF Launch, files, Spared, Chosen, Taken, TypeInv, TypeOK
<1>2. CASE TurnFailed(p) \/ ExitApp(p)
  BY <1>2 DEF TurnFailed, ExitApp, files, Spared, Chosen
<1>3. CASE ExitSaved(p) \/ ExitTimedOut(p) \/ Crash(p)
  <2>1. Chosen(p)
    BY <1>3, NoneAssumption DEF ExitSaved, ExitTimedOut, Crash, Forget, Chosen, TypeInv, TypeOK
  <2>2. \A x \in Sessions : shelf'[x] = shelf[x] \/ sid[p] = x
    BY <1>3 DEF ExitSaved, ExitTimedOut, Crash, OwnSession, TypeInv, TypeOK
  <2> QED BY <2>1, <2>2 DEF Spared, Touches
<1>4. CASE Autosave(p) \/ \E t \in Turns : Submit(p, t)
  <2>1. UNCHANGED sid
    BY <1>4 DEF Autosave, Submit, memory
  <2>2. \A x \in Sessions : shelf'[x] = shelf[x] \/ sid[p] = x
    BY <1>4 DEF Autosave, Submit, TypeInv, TypeOK
  <2> QED BY <2>1, <2>2 DEF Spared, Touches, Chosen
<1>5. CASE TurnCompleted(p)
  <2>1. UNCHANGED sid
    BY <1>5 DEF TurnCompleted
  <2>2. \A x \in Sessions : shelf'[x] = shelf[x] \/ sid[p] = x
    BY <1>5 DEF TurnCompleted, TypeInv, TypeOK
  <2> QED BY <2>1, <2>2 DEF Spared, Touches, Chosen
<1> QED BY <1>1, <1>2, <1>3, <1>4, <1>5

\* p alone moves, and only "Remove it" records a removal.
Moves(p) ==
    /\ \A q \in Procs : q # p =>
         pc'[q] = pc[q] /\ conv'[q] = conv[q]
    /\ ledger' = ledger \/ AnswerRemove(p)

LEMMA OffersMove == ASSUME TypeInv, NEW p \in Procs, Offers(p) PROVE Moves(p)
<1>1. CASE BootOffer(p) \/ AnswerResume(p) \/ StoreRecovered(p)
  BY <1>1 DEF BootOffer, AnswerResume, StoreRecovered, AfterOffer, Moves, TypeInv, TypeOK
<1>2. CASE AnswerResumeGone(p) \/ AnswerKeep(p) \/ AnswerRemove(p) \/ StoreRecoveredFails(p)
  <2>1. AfterOffer(p) /\ (ledger' = ledger \/ AnswerRemove(p))
    BY <1>2 DEF AnswerResumeGone, AnswerKeep, AnswerRemove, StoreRecoveredFails, WithoutIt
  <2>2. (\E s, d : PlainResume(p, s, d)) \/ UNCHANGED conv
    BY <1>2 DEF AnswerResumeGone, AnswerKeep, AnswerRemove, StoreRecoveredFails, WithoutIt
  <2>3. \A q \in Procs : q # p => conv'[q] = conv[q]
    BY <2>2 DEF PlainResume, OpenFromStore, TypeInv, TypeOK
  <2> QED BY <2>1, <2>3 DEF AfterOffer, Moves, TypeInv, TypeOK
<1> QED BY <1>1, <1>2 DEF Offers

LEMMA CommandsMove ==
    ASSUME TypeInv, NEW p \in Procs, NEW s \in Sessions,
           OfferNamed(p, s) \/ Resume(p, s) \/ Fork(p, s) \/ Clear(p, s) \/ Load(p, s)
    PROVE  Moves(p)
<1>1. CASE OfferNamed(p, s)
  <2>1. \A q \in Procs : q # p => conv'[q] = conv[q]
    BY <1>1 DEF OfferNamed, PlainResume, OpenFromStore, TypeInv, TypeOK
  <2> QED BY <1>1, <2>1 DEF OfferNamed, Moves, TypeInv, TypeOK
<1>2. CASE Resume(p, s) \/ Fork(p, s) \/ Clear(p, s) \/ Load(p, s)
  BY <1>2 DEF Resume, OpenFromStore, Fork, Clear, Load, files, Moves, TypeInv, TypeOK
<1> QED BY <1>1, <1>2

LEMMA OthersMove ==
    ASSUME TypeInv, NEW p \in Procs,
           \/ Launch(p) \/ TurnCompleted(p) \/ TurnFailed(p) \/ Autosave(p)
           \/ ExitApp(p) \/ ExitSaved(p) \/ ExitTimedOut(p) \/ Crash(p)
           \/ \E t \in Turns : Submit(p, t)
    PROVE  Moves(p)
BY DEF Launch, TurnCompleted, TurnFailed, Autosave, ExitApp, ExitSaved, ExitTimedOut, Crash,
   Submit, Forget, files, memory, Moves, TypeInv, TypeOK

LEMMA RemovedStays ==
    ASSUME TypeInv, Orderly, {"askedTwice", "reopenRemoved"} \cap Faults = {}, PointInv,
           NEW p \in Procs, TakesUp(p), Spared(p), Chosen(p), Moves(p), NEW s \in Sessions
    PROVE  Removed(s)'
<1> SUFFICES ASSUME s \in ledger'
             PROVE  ~Offerable(shelf'[s]) /\ \A q \in Procs : sid'[q] # s
  BY DEF Removed
<1>0. shelf[s] \in Shelf /\ ~Offerable(Deleted(shelf[s], "recovery"))
  BY RecoveryDeleted DEF TypeInv, TypeOK, Offerable, Fresher
<1>1. CASE s \in ledger
  <2>1. ~Offerable(shelf[s]) /\ \A q \in Procs : sid[q] # s
    BY <1>1 DEF PointInv, Removed
  <2>2. ~Unused(s)
    BY <1>1 DEF Unused
  <2>3. sid'[p] # s
    <3>1. CASE AnswerResume(p) /\ s = offer[p]
      BY <2>1, <3>1, OrphanOffered DEF AnswerResume
    <3>2. ~\E d : Foreseen(s, d)
      BY <1>1 DEF Foreseen
    <3> QED BY <2>1, <2>2, <3>1, <3>2 DEF Chosen, Taken
  <2>4. shelf'[s] = shelf[s] \/ shelf'[s] = Deleted(shelf[s], "recovery")
    BY <2>1, <2>2, <2>3 DEF Spared, Touches
  <2> QED BY <1>0, <2>1, <2>3, <2>4 DEF TakesUp
<1>2. CASE s \notin ledger
  <2>1. AnswerRemove(p) /\ s = offer[p]
    BY <1>2 DEF Moves, AnswerRemove
  <2>2. pc[p] = "up" /\ offer[p] # None /\ StillOrphan(p) /\ NotOpenedHere(p)
    BY <2>1 DEF AnswerRemove, Asked
  <2>3. Free(p, s) /\ sid[p] # s
    BY <2>1, <2>2, OrphanFree DEF NotOpenedHere
  <2>4. shelf'[s] = Deleted(shelf[s], "recovery") /\ UNCHANGED sid
    BY <2>1, <2>2 DEF AnswerRemove, WithoutIt, TypeInv, TypeOK
  <2> QED BY <1>0, <2>3, <2>4 DEF Free
<1> QED BY <1>1, <1>2

LEMMA StepShape ==
    ASSUME TypeInv, Orderly, PointInv, Next
    PROVE  \E p \in Procs : TakesUp(p) /\ Spared(p) /\ Chosen(p) /\ Moves(p)
<1>1. ASSUME NEW p \in Procs, Offers(p)
      PROVE  TakesUp(p) /\ Spared(p) /\ Chosen(p) /\ Moves(p)
  BY <1>1, OffersTake, OffersSpare, OffersMove
<1>2. ASSUME NEW p \in Procs, NEW s \in Sessions,
             OfferNamed(p, s) \/ Resume(p, s) \/ Fork(p, s) \/ Clear(p, s) \/ Load(p, s)
      PROVE  TakesUp(p) /\ Spared(p) /\ Chosen(p) /\ Moves(p)
  BY <1>2, CommandsTake, CommandsSpare, CommandsMove
<1>3. ASSUME NEW p \in Procs,
             \/ Launch(p) \/ TurnCompleted(p) \/ TurnFailed(p) \/ Autosave(p)
             \/ ExitApp(p) \/ ExitSaved(p) \/ ExitTimedOut(p) \/ Crash(p)
             \/ \E t \in Turns : Submit(p, t)
      PROVE  TakesUp(p) /\ Spared(p) /\ Chosen(p) /\ Moves(p)
  BY <1>3, OthersTake, OthersSpare, OthersMove
<1> QED BY <1>1, <1>2, <1>3 DEF Next

LEMMA PointNext ==
    ASSUME Orderly, {"askedTwice", "reopenRemoved"} \cap Faults = {},
           TypeInv, PointInv, [Next]_vars
    PROVE  PointInv'
<1>1. CASE Next
  <2>1. PICK p \in Procs : TakesUp(p) /\ Spared(p) /\ Chosen(p) /\ Moves(p)
    BY <1>1, StepShape
  <2> QED BY <2>1, RemovedStays DEF PointInv
<1>2. CASE UNCHANGED vars
  BY <1>2 DEF vars, files, memory, PointInv, Removed
<1> QED BY <1>1, <1>2

\* A promise holds while nobody has the session and its point is as it was.
Promise(s) ==
    promised[s] # None =>
        /\ \A q \in Procs : sid[q] # s
        /\ Offerable(shelf[s]) /\ shelf[s].recovery = promised[s]

PromiseInv == \A s \in Sessions : Promise(s)

\* Promises are made by an answer to an offer still good, about a session the
\* process is not in itself and with nothing to open after it, and end with a
\* different answer.
Promises(p) ==
    \A x \in Sessions :
        \/ promised'[x] \in {promised[x], None}
        \/ /\ AnswerKeep(p) /\ x = offer[p] /\ pc[p] = "up"
           /\ StillOrphan(p) /\ NotOpenedHere(p)
           /\ promised'[x] = shelf[x].recovery

LEMMA PromiseEnds ==
    ASSUME TypeInv, NEW p \in Procs, AnswerResume(p) \/ AnswerRemove(p)
    PROVE  promised'[offer[p]] = None
<1>1. promised' = [promised EXCEPT ![offer[p]] = None] /\ offer[p] \in Sessions
  BY DEF AnswerResume, AnswerRemove, Asked, TypeInv, TypeOK
<1> QED BY <1>1 DEF TypeInv, TypeOK

LEMMA OffersPromise ==
    ASSUME TypeInv, "keepThenOpen" \notin Faults, NEW p \in Procs, Offers(p) PROVE Promises(p)
<1>0. promised \in [Sessions -> Contents]
  BY DEF TypeInv, TypeOK
<1>2. CASE AnswerKeep(p)
  <2>1. /\ pc[p] \in {"asking", "up"}
        /\ \/ promised' = promised
           \/ /\ StillOrphan(p) /\ NotOpenedHere(p)
              /\ pc[p] = "asking" => "keepThenOpen" \in Faults
              /\ promised' = [promised EXCEPT ![offer[p]] = shelf[offer[p]].recovery]
    BY <1>2 DEF AnswerKeep, Asked
  <2> QED BY <1>0, <1>2, <2>1 DEF Promises
<1>3. CASE AnswerResume(p) \/ AnswerRemove(p)
  <2>1. promised' = [promised EXCEPT ![offer[p]] = None] /\ offer[p] \in Sessions
    BY <1>3 DEF AnswerResume, AnswerRemove, Asked, TypeInv, TypeOK
  <2> QED BY <1>0, <2>1 DEF Promises
<1>4. CASE BootOffer(p) \/ StoreRecovered(p) \/ StoreRecoveredFails(p) \/ AnswerResumeGone(p)
  <2>1. promised' = promised
    BY <1>4 DEF BootOffer, StoreRecovered, StoreRecoveredFails, AnswerResumeGone, history
  <2> QED BY <2>1 DEF Promises
<1> QED BY <1>2, <1>3, <1>4 DEF Offers

LEMMA OthersPromise ==
    ASSUME NEW p \in Procs,
           \/ Launch(p) \/ TurnCompleted(p) \/ TurnFailed(p) \/ Autosave(p)
           \/ ExitApp(p) \/ ExitSaved(p) \/ ExitTimedOut(p) \/ Crash(p)
           \/ \E t \in Turns : Submit(p, t)
           \/ \E s \in Sessions :
                OfferNamed(p, s) \/ Resume(p, s) \/ Fork(p, s) \/ Clear(p, s) \/ Load(p, s)
    PROVE  UNCHANGED promised
BY DEF Launch, TurnCompleted, TurnFailed, Autosave, ExitApp, ExitSaved, ExitTimedOut, Crash,
   Submit, OfferNamed, Resume, Fork, Clear, Load, history

LEMMA PromiseStays ==
    ASSUME TypeInv, Orderly, {"askedTwice", "keepThenOpen"} \cap Faults = {},
           PointInv, PromiseInv,
           NEW p \in Procs, TakesUp(p), Spared(p), Chosen(p),
           Promises(p), NEW s \in Sessions
    PROVE  Promise(s)'
<1> SUFFICES ASSUME promised'[s] # None
             PROVE  /\ \A q \in Procs : sid'[q] # s
                    /\ Offerable(shelf'[s]) /\ shelf'[s].recovery = promised'[s]
  BY DEF Promise
<1>1. CASE promised'[s] = promised[s]
  <2>1. /\ \A q \in Procs : sid[q] # s
        /\ Offerable(shelf[s]) /\ shelf[s].recovery = promised[s]
    BY <1>1 DEF PromiseInv, Promise
  <2>2. ~Unused(s)
    BY <2>1, BareOffersNothing DEF Unused
  <2>3. ~(AnswerResume(p) /\ s = offer[p]) /\ ~(AnswerRemove(p) /\ s = offer[p])
    BY PromiseEnds
  <2>4. sid'[p] # s
    <3>1. ~\E d : Foreseen(s, d)
      BY <1>1 DEF Foreseen
    <3> QED BY <2>1, <2>2, <2>3, <3>1 DEF Chosen, Taken
  <2>5. shelf'[s] = shelf[s]
    BY <2>1, <2>2, <2>3, <2>4 DEF Spared, Touches
  <2> QED BY <1>1, <2>1, <2>4, <2>5 DEF TakesUp
<1>2. CASE /\ AnswerKeep(p) /\ s = offer[p] /\ pc[p] = "up"
           /\ StillOrphan(p) /\ NotOpenedHere(p)
           /\ promised'[s] = shelf[s].recovery
  <2>1. Free(p, s) /\ Offerable(shelf[s])
    BY <1>2, OrphanFree, OrphanOffered
  <2>2. sid[p] # s
    BY <1>2 DEF NotOpenedHere
  <2>3. UNCHANGED sid /\ shelf'[s] = shelf[s]
    BY <1>2 DEF AnswerKeep, WithoutIt, TypeInv, TypeOK
  <2> QED BY <1>2, <2>1, <2>2, <2>3 DEF Free
<1> QED BY <1>1, <1>2 DEF Promises

LEMMA PromiseNext ==
    ASSUME Orderly, {"askedTwice", "keepThenOpen"} \cap Faults = {},
           TypeInv, PointInv, PromiseInv, [Next]_vars
    PROVE  PromiseInv'
<1>0. "keepThenOpen" \notin Faults
  OBVIOUS
<1>1. ASSUME NEW p \in Procs, Offers(p) PROVE PromiseInv'
  <2>1. TakesUp(p) /\ Spared(p) /\ Chosen(p) /\ Promises(p)
    BY <1>0, <1>1, OffersTake, OffersSpare, OffersPromise
  <2> QED BY <1>0, <2>1, PromiseStays DEF PromiseInv
<1>2. ASSUME NEW p \in Procs, NEW s \in Sessions,
             OfferNamed(p, s) \/ Resume(p, s) \/ Fork(p, s) \/ Clear(p, s) \/ Load(p, s)
      PROVE  PromiseInv'
  <2>1. TakesUp(p) /\ Spared(p) /\ Chosen(p) /\ Promises(p)
    BY <1>2, CommandsTake, CommandsSpare, OthersPromise DEF Promises
  <2> QED BY <1>0, <2>1, PromiseStays DEF PromiseInv
<1>3. ASSUME NEW p \in Procs,
             \/ Launch(p) \/ TurnCompleted(p) \/ TurnFailed(p) \/ Autosave(p)
             \/ ExitApp(p) \/ ExitSaved(p) \/ ExitTimedOut(p) \/ Crash(p)
             \/ \E t \in Turns : Submit(p, t)
      PROVE  PromiseInv'
  <2>1. TakesUp(p) /\ Spared(p) /\ Chosen(p) /\ Promises(p)
    BY <1>3, OthersTake, OthersSpare, OthersPromise DEF Promises
  <2> QED BY <1>0, <2>1, PromiseStays DEF PromiseInv
<1>4. CASE UNCHANGED vars
  BY <1>4 DEF vars, files, memory, history, PromiseInv, Promise
<1> QED BY <1>1, <1>2, <1>3, <1>4 DEF Next

LEMMA PromiseInit == Init => PromiseInv
BY DEF Init, PromiseInv, Promise

LEMMA PromiseInvImplies == ASSUME PointInv, PromiseInv PROVE KeptIsOfferedAgain
BY DEF PointInv, Removed, PromiseInv, Promise, KeptIsOfferedAgain

\* With orderly terminals and no second question about a session the first one
\* opened, a point the user was told will be offered again is there, unchanged
\* and offered, until it is answered differently: no other terminal's exit,
\* clear, launch or save takes it (runtime/recovery-prompt.ts).
THEOREM PromisesAreKept ==
    ASSUME Orderly, {"askedTwice", "reopenRemoved", "keepThenOpen"} \cap Faults = {}
    PROVE  Spec => []KeptIsOfferedAgain
<1> DEFINE Inv == TypeInv /\ PointInv /\ PromiseInv
<1>1. Init => Inv
  BY TypeInit, PointInit, PromiseInit
<1>2. Inv /\ [Next]_vars => Inv'
  <2>1. /\ {"askedTwice", "reopenRemoved"} \cap Faults = {}
        /\ {"askedTwice", "keepThenOpen"} \cap Faults = {}
    OBVIOUS
  <2> QED BY <2>1, TypeNext, PointNext, PromiseNext
<1>3. Inv => KeptIsOfferedAgain
  BY PromiseInvImplies
<1> QED BY <1>1, <1>2, <1>3, PTL DEF Spec

\* Leaving a session p takes nothing of its recovery point that is still owed.
Leaves(p) ==
    \A x \in Sessions : sid[p] = x /\ sid'[p] # x =>
        shelf'[x].recovery = shelf[x].recovery \/ owed'[x] = {}

LEMMA OffersLeave == ASSUME TypeInv, PointInv, NEW p \in Procs, Offers(p) PROVE Leaves(p)
<1>1. CASE BootOffer(p) \/ StoreRecovered(p)
  BY <1>1 DEF BootOffer, StoreRecovered, Leaves
<1>2. CASE AnswerResume(p)
  BY <1>2 DEF AnswerResume, Leaves, TypeInv, TypeOK
<1>3. CASE StoreRecoveredFails(p)
  <2>1. offer[p] = sid[p]
    BY <1>3 DEF StoreRecoveredFails, TypeInv, Placed
  <2> QED BY <1>3, <2>1 DEF StoreRecoveredFails, PlainResume, OpenFromStore, Leaves, TypeInv, TypeOK
<1>4. CASE AnswerResumeGone(p) \/ AnswerKeep(p) \/ AnswerRemove(p)
  <2>1. Asked(p) /\ \E d : WithoutIt(p, offer[p], d)
    BY <1>4 DEF AnswerResumeGone, AnswerKeep, AnswerRemove
  <2>2. sid'[p] \in {sid[p], offer[p]}
    BY <2>1 DEF WithoutIt, PlainResume, OpenFromStore, TypeInv, TypeOK
  <2> QED BY <2>1, <2>2, WithoutItSpares DEF Leaves
<1> QED BY <1>1, <1>2, <1>3, <1>4 DEF Offers

LEMMA CommandsLeave ==
    ASSUME TypeInv, PointInv, NEW p \in Procs, NEW s \in Sessions,
           OfferNamed(p, s) \/ Resume(p, s) \/ Fork(p, s) \/ Clear(p, s) \/ Load(p, s)
    PROVE  Leaves(p)
<1>1. CASE OfferNamed(p, s)
  BY <1>1 DEF OfferNamed, PlainResume, OpenFromStore, Leaves, TypeInv, TypeOK
<1>2. CASE Resume(p, s) \/ Fork(p, s)
  BY <1>2 DEF Resume, OpenFromStore, Fork, StoreAs, Leaves, TypeInv, TypeOK
<1>3. CASE Clear(p, s) \/ Load(p, s)
  BY <1>3 DEF Clear, Load, Leaves
<1> QED BY <1>1, <1>2, <1>3

LEMMA OthersLeave ==
    ASSUME TypeInv, NEW p \in Procs,
           \/ Launch(p) \/ TurnCompleted(p) \/ TurnFailed(p) \/ Autosave(p)
           \/ ExitApp(p) \/ ExitSaved(p) \/ ExitTimedOut(p) \/ Crash(p)
           \/ \E t \in Turns : Submit(p, t)
    PROVE  Leaves(p)
<1>1. CASE ExitSaved(p)
  BY <1>1 DEF ExitSaved, Leaves, TypeInv, TypeOK
<1>2. CASE ExitTimedOut(p)
  <2>1. pc[p] # "down"
    BY <1>2 DEF ExitTimedOut
  <2>2. Written(shelf[sid[p]], "store", conv[p]).recovery = shelf[sid[p]].recovery
    BY <2>1, RunningTypes, StoreWritten
  <2> QED BY <1>2, <2>2 DEF ExitTimedOut, KeepRecovery, Leaves, TypeInv, TypeOK
<1>3. CASE Launch(p) \/ TurnFailed(p) \/ ExitApp(p) \/ Crash(p)
  BY <1>3 DEF Launch, TurnFailed, ExitApp, Crash, files, Leaves
<1>4. CASE TurnCompleted(p) \/ Autosave(p) \/ \E t \in Turns : Submit(p, t)
  BY <1>4 DEF TurnCompleted, Autosave, Submit, memory, Leaves
<1> QED BY <1>1, <1>2, <1>3, <1>4

OnlyRemoveStep ==
    \A s \in Sessions :
        Offerable(shelf[s]) /\ shelf'[s].recovery = None =>
            owed'[s] = {} \/ \E p \in Procs : sid'[p] = s

LEMMA OnlyRemoved ==
    ASSUME Orderly, TypeInv, PointInv, [Next]_vars PROVE OnlyRemoveStep
<1> SUFFICES ASSUME NEW s \in Sessions, Offerable(shelf[s]), shelf'[s].recovery = None
             PROVE  owed'[s] = {} \/ \E p \in Procs : sid'[p] = s
  BY DEF OnlyRemoveStep
<1>0. shelf[s].recovery # None /\ ~Unused(s)
  BY BareOffersNothing DEF Offerable, Fresher, Unused
<1>1. CASE Next
  <2>1. \E p \in Procs : Spared(p) /\ Leaves(p)
    BY <1>1, OffersSpare, CommandsSpare, OthersSpare, OffersLeave, CommandsLeave, OthersLeave
       DEF Next
  <2>2. PICK p \in Procs : Spared(p) /\ Leaves(p)
    BY <2>1
  <2>3. AnswerRemove(p) /\ s = offer[p] => owed'[s] = {}
    BY DEF AnswerRemove, TypeInv, TypeOK
  <2> QED BY <1>0, <2>2, <2>3 DEF Spared, Touches, Leaves
<1>2. CASE UNCHANGED vars
  BY <1>0, <1>2 DEF vars, files
<1> QED BY <1>1, <1>2

\* With orderly terminals and no second question about a session the first one
\* opened, a recovery point that would be offered goes away only when the user
\* removes it, a store replaces it or a process takes its session up
\* (runtime/recovery-prompt.ts).
THEOREM PointsGoOnlyWhenAnswered ==
    ASSUME Orderly, {"askedTwice", "reopenRemoved"} \cap Faults = {}
    PROVE  Spec => OnlyRemoveDeletes
<1> DEFINE Inv == TypeInv /\ PointInv
<1>1. Init => Inv
  BY TypeInit, PointInit
<1>2. Inv /\ [Next]_vars => Inv'
  BY TypeNext, PointNext
<1>3. Inv /\ [Next]_vars => [OnlyRemoveStep]_vars
  BY OnlyRemoved
<1> QED BY <1>1, <1>2, <1>3, PTL DEF Spec, OnlyRemoveDeletes, OnlyRemoveStep

-----------------------------------------------------------------------------
(***************************************************************************)
(* What an autosave put aside.  Either nothing is owed; or the process that *)
(* took the point up has it and has still to store it; or every holder has  *)
(* it on screen and so have the files: the point itself and whatever        *)
(* answering it would restore, or, with none to offer, the store.           *)
(***************************************************************************)
Applying(p) == pc[p] \in {"applying", "applyingNamed"}

Bears(d, O) ==
    IF Offerable(d) THEN O \subseteq Recovered(d) /\ O \subseteq d.recovery
    ELSE d.store # None /\ O \subseteq Resumed(d)

Owes(s) ==
    \/ owed[s] = {}
    \/ \E p \in Procs : sid[p] = s /\ Applying(p) /\ owed[s] \subseteq conv[p]
    \/ /\ \A p \in Procs : sid[p] = s => owed[s] \subseteq conv[p]
       /\ Bears(shelf[s], owed[s])

OwedInv == \A s \in Sessions : Owes(s)

LEMMA StoreBears ==
    ASSUME NEW d \in Shelf, NEW c \in SUBSET Messages, NEW O \in SUBSET c
    PROVE  Bears(Written(d, "store", c), O)
BY StoreBrings DEF Bears

LEMMA JournalBears ==
    ASSUME NEW d \in Shelf, NEW c \in SUBSET Messages, NEW O \in SUBSET c, Bears(d, O)
    PROVE  Bears(Written(d, "journal", c), O)
BY JournalWritten DEF Bears, Resumed, Recovered, Offerable

LEMMA RecoveryBears ==
    ASSUME NEW d \in Shelf, NEW c \in SUBSET Messages
    PROVE  Bears(Written(d, "recovery", c), c)
BY RecoveryWritten DEF Bears, Recovered, Offerable

\* A store that is opened has all that a point it is opened past has.
LEMMA FoldedBears ==
    ASSUME NEW d \in Shelf, NEW O, Bears(d, O), d.store # None,
           Offerable(d) => d.recovery \subseteq Resumed(d)
    PROVE  Bears(Folded(d, "store"), O) /\ O \subseteq Resumed(d)
<1>1. O \subseteq Resumed(d)
  BY DEF Bears
<1> QED BY <1>1, FoldedBrings DEF Bears

LEMMA BareBearsNothing == ASSUME NEW O PROVE ~Bears(Bare, O)
BY BareOffersNothing DEF Bears, Bare

LEMMA NothingOwed == ASSUME NEW s, owed'[s] = {} PROVE Owes(s)'
BY DEF Owes

\* A process that holds s and has nothing left to store has what is owed.
LEMMA HolderHas ==
    ASSUME SoleInv, NEW s \in Sessions, Owes(s), NEW p \in Procs, sid[p] = s, ~Applying(p)
    PROVE  owed[s] \subseteq conv[p] /\ (owed[s] = {} \/ Bears(shelf[s], owed[s]))
<1>1. s # None
  BY NoneAssumption
<1>2. \A q \in Procs : sid[q] = s => q = p
  BY <1>1 DEF SoleInv
<1> QED BY <1>2 DEF Owes

\* So do the files of a session nobody but p can hold.
LEMMA FilesHave ==
    ASSUME NEW s \in Sessions, Owes(s), NEW p \in Procs, Free(p, s), ~Applying(p)
    PROVE  owed[s] = {} \/ Bears(shelf[s], owed[s])
BY DEF Owes, Free

LEMMA HeldOwes ==
    ASSUME SoleInv', NEW s \in Sessions, NEW p \in Procs, sid'[p] = s,
           owed'[s] \subseteq conv'[p], owed'[s] = {} \/ Bears(shelf'[s], owed'[s])
    PROVE  Owes(s)'
<1>1. s # None
  BY NoneAssumption
<1>2. \A q \in Procs : sid'[q] = s => q = p
  BY <1>1 DEF SoleInv
<1> QED BY <1>2 DEF Owes

\* p leaves s, or has nothing to do with it.
LEMMA LeftOwes ==
    ASSUME NEW s \in Sessions, Owes(s), NEW p \in Procs, TakesUp(p), Moves(p),
           sid'[p] # s, sid[p] = s => ~Applying(p),
           owed'[s] = owed[s], shelf'[s] = shelf[s] \/ Bears(shelf'[s], owed[s])
    PROVE  Owes(s)'
<1>1. \A q \in Procs : q # p => sid'[q] = sid[q] /\ conv'[q] = conv[q] /\ pc'[q] = pc[q]
  BY DEF TakesUp, Moves
<1>2. CASE owed[s] = {}
  BY <1>2, NothingOwed
<1>3. CASE \E q \in Procs : sid[q] = s /\ Applying(q) /\ owed[s] \subseteq conv[q]
  BY <1>1, <1>3 DEF Owes, Applying
<1>4. CASE /\ \A q \in Procs : sid[q] = s => owed[s] \subseteq conv[q]
           /\ Bears(shelf[s], owed[s])
  <2>1. Bears(shelf'[s], owed'[s])
    BY <1>4
  <2> QED BY <1>1, <1>4, <2>1 DEF Owes
<1> QED BY <1>2, <1>3, <1>4 DEF Owes

LEMMA ApartOwes ==
    ASSUME TypeInv, NEW p \in Procs, TakesUp(p), Spared(p), Moves(p),
           NEW s \in Sessions, Owes(s), sid[p] # s, sid'[p] # s,
           owed'[s] \in {owed[s], {}}, AnswerRemove(p) /\ s = offer[p] => owed'[s] = {}
    PROVE  Owes(s)'
<1>1. CASE owed'[s] = {}
  BY <1>1, NothingOwed
<1>2. CASE owed'[s] # {}
  <2>1. ~Unused(s)
    <3> SUFFICES ASSUME Unused(s) PROVE FALSE
      OBVIOUS
    <3>1. \A q \in Procs : sid[q] # s
      BY HoldersHave DEF Unused
    <3>2. ~Bears(shelf[s], owed[s])
      BY BareBearsNothing DEF Unused
    <3> QED BY <1>2, <3>1, <3>2 DEF Owes
  <2>2. shelf'[s] = shelf[s]
    BY <1>2, <2>1 DEF Spared, Touches
  <2> QED BY <1>2, <2>2, LeftOwes
<1> QED BY <1>1, <1>2

\* p opens a session whose point, if it has one, holds no more than its store.
LEMMA OpenOwes ==
    ASSUME TypeInv, SoleInv', "openPastPoint" \notin Faults,
           NEW p \in Procs, ~Applying(p), NEW s \in Sessions, Owes(s), Free(p, s),
           shelf[s].store # None, OpenFromStore(p, s, shelf[s]), Foreseen(s, shelf[s]),
           owed'[s] = owed[s]
    PROVE  Owes(s)'
<1>1. /\ shelf[s] \in Shelf /\ shelf'[s] = Folded(shelf[s], "store")
      /\ sid'[p] = s /\ conv'[p] = Resumed(shelf[s])
  BY DEF OpenFromStore, TypeInv, TypeOK
<1>2. owed[s] = {} \/ Bears(shelf[s], owed[s])
  BY FilesHave
<1>3. Offerable(shelf[s]) => shelf[s].recovery \subseteq Resumed(shelf[s])
  BY DEF Foreseen
<1>4. CASE owed[s] = {}
  BY <1>4, NothingOwed
<1>5. CASE Bears(shelf[s], owed[s])
  <2>1. Bears(shelf'[s], owed'[s]) /\ owed'[s] \subseteq conv'[p]
    BY <1>1, <1>3, <1>5, FoldedBears
  <2> QED BY <1>1, <2>1, HeldOwes
<1> QED BY <1>2, <1>4, <1>5

\* What p's own session and s owe once `/session resume s` has been answered.
LEMMA PlainOwes ==
    ASSUME TypeInv, Orderly, SoleInv, SoleInv', "openPastPoint" \notin Faults, OwedInv,
           NEW p \in Procs, ~Applying(p), TakesUp(p), Moves(p),
           NEW s \in Sessions, PlainResume(p, s, shelf[s]), UNCHANGED owed,
           ~Applying(p)', NEW x \in Sessions
    PROVE  Owes(x)'
<1>0. Owes(x) /\ shelf \in [Sessions -> Shelf]
  BY DEF OwedInv, TypeInv, TypeOK
<1>1. CASE /\ shelf[s].store # None /\ ~Live(p, s) /\ Uncontended(p, s) /\ Foreseen(s, shelf[s])
           /\ OpenFromStore(p, s, shelf[s])
  <2>1. CASE x = s
    BY <1>0, <1>1, <2>1, UncontendedFree, OpenOwes
  <2>2. CASE x # s
    <3>1. shelf'[x] = shelf[x] /\ sid'[p] # x
      BY <1>1, <2>2 DEF OpenFromStore, TypeInv, TypeOK
    <3> QED BY <1>0, <3>1, LeftOwes
  <2> QED BY <2>1, <2>2
<1>2. CASE shelf' = [shelf EXCEPT ![s] = shelf[s]] /\ UNCHANGED <<conv, sid>>
  <2>1. UNCHANGED shelf
    BY <1>0, <1>2
  <2>2. CASE sid[p] = x
    <3>1. owed[x] \subseteq conv[p] /\ (owed[x] = {} \/ Bears(shelf[x], owed[x]))
      BY <1>0, <2>2, HolderHas
    <3> QED BY <1>2, <2>1, <2>2, <3>1, HeldOwes
  <2>3. CASE sid[p] # x
    BY <1>0, <1>2, <2>1, <2>3, LeftOwes
  <2> QED BY <2>2, <2>3
<1> QED BY <1>1, <1>2 DEF PlainResume

\* p stays where it is and its files are left alone.
LEMMA StayOwes ==
    ASSUME TypeInv, SoleInv, SoleInv', OwedInv, NEW p \in Procs, ~Applying(p),
           TakesUp(p), Moves(p), UNCHANGED <<shelf, sid, conv, owed>>, NEW x \in Sessions
    PROVE  Owes(x)'
<1>0. Owes(x)
  BY DEF OwedInv
<1>1. CASE sid[p] = x
  <2>1. owed[x] \subseteq conv[p] /\ (owed[x] = {} \/ Bears(shelf[x], owed[x]))
    BY <1>0, <1>1, HolderHas
  <2> QED BY <1>1, <2>1, HeldOwes
<1>2. CASE sid[p] # x
  BY <1>0, <1>2, LeftOwes
<1> QED BY <1>1, <1>2


\* An offer answered, stored, declined or made at launch.
LEMMA OffersOwe ==
    ASSUME TypeInv, Orderly, SoleInv, SoleInv', PointInv, OwedInv,
           {"askedTwice", "dieApplying", "reopenRemoved", "openPastPoint"} \cap Faults = {},
           NEW p \in Procs, Offers(p), NEW x \in Sessions
    PROVE  Owes(x)'
<1>0. /\ Owes(x) /\ TakesUp(p) /\ Moves(p) /\ shelf \in [Sessions -> Shelf]
      /\ owed \in [Sessions -> SUBSET Messages] /\ sid \in [Procs -> Sessions \cup {None}]
  BY OffersTake, OffersMove DEF OwedInv, TypeInv, TypeOK
<1>1. CASE BootOffer(p)
  <2>1. PICK gone :
           shelf' = [s \in Sessions |-> IF s \in gone THEN Discarded(shelf[s], s) ELSE shelf[s]]
    BY <1>1 DEF BootOffer
  <2>2. \A s \in Sessions : Discarded(shelf[s], s) = shelf[s]
    BY NothingToDiscard DEF PointInv
  <2>3. UNCHANGED shelf
    BY <1>0, <2>1, <2>2
  <2>4. UNCHANGED <<sid, conv, owed>> /\ ~Applying(p)
    BY <1>1 DEF BootOffer, history, Applying
  <2> QED BY <1>0, <2>3, <2>4, StayOwes
<1>2. CASE AnswerResume(p)
  <2>1. /\ offer[p] \in Sessions /\ StillOrphan(p) /\ ~Applying(p) /\ UNCHANGED owed
        /\ sid'[p] = offer[p] /\ Applying(p)' /\ conv'[p] = Recovered(shelf[offer[p]])
        /\ \A y \in Sessions : y # offer[p] => shelf'[y] = shelf[y]
    BY <1>2 DEF AnswerResume, Asked, Applying, Recovered, TypeInv, TypeOK
  <2>2. CASE x = offer[p]
    <3>1. Free(p, x) /\ Offerable(shelf[x])
      BY <2>1, <2>2, OrphanFree, OrphanOffered
    <3>2. owed[x] = {} \/ Bears(shelf[x], owed[x])
      BY <1>0, <2>1, <3>1, FilesHave
    <3>3. owed'[x] \subseteq conv'[p]
      BY <2>1, <2>2, <3>1, <3>2 DEF Bears
    <3> QED BY <2>1, <2>2, <3>3 DEF Owes
  <2>3. CASE x # offer[p]
    BY <1>0, <2>1, <2>3, LeftOwes
  <2> QED BY <2>2, <2>3
<1>3. CASE StoreRecovered(p)
  <2>1. /\ offer[p] \in Sessions /\ sid[p] = offer[p] /\ sid'[p] = offer[p]
        /\ \A y \in Sessions : y # offer[p] => shelf'[y] = shelf[y] /\ owed'[y] = owed[y]
        /\ owed'[offer[p]] = {}
    BY <1>3 DEF StoreRecovered, Placed, TypeInv, TypeOK
  <2>2. CASE x = offer[p]
    BY <2>1, <2>2, NothingOwed
  <2>3. CASE x # offer[p]
    BY <1>0, <2>1, <2>3, LeftOwes
  <2> QED BY <2>2, <2>3
<1>4. CASE AnswerResumeGone(p) \/ AnswerKeep(p)
  <2>1. /\ Asked(p) /\ WithoutIt(p, offer[p], shelf[offer[p]]) /\ UNCHANGED owed
        /\ offer[p] \in Sessions /\ ~Applying(p)
    BY <1>4 DEF AnswerResumeGone, AnswerKeep, history, Asked, Applying, TypeInv, TypeOK
  <2>2. CASE pc[p] = "asking"
    <3>1. PlainResume(p, offer[p], shelf[offer[p]]) /\ ~Applying(p)'
      BY <2>1, <2>2 DEF WithoutIt, AfterOffer, Applying, TypeInv, TypeOK
    <3> QED BY <1>0, <2>1, <3>1, PlainOwes
  <2>3. CASE pc[p] # "asking"
    <3>1. shelf' = [shelf EXCEPT ![offer[p]] = shelf[offer[p]]] /\ UNCHANGED <<conv, sid>>
      BY <2>1, <2>3 DEF WithoutIt
    <3>2. UNCHANGED shelf
      BY <1>0, <2>1, <3>1
    <3> QED BY <1>0, <2>1, <3>1, <3>2, StayOwes
  <2> QED BY <2>2, <2>3
<1>5. CASE AnswerRemove(p)
  <2>1. offer[p] \in Sessions /\ pc[p] = "up" /\ WithoutIt(p, offer[p], Deleted(shelf[offer[p]], "recovery"))
    BY <1>5 DEF AnswerRemove, Asked, TypeInv, TypeOK
  <2>2. /\ UNCHANGED <<conv, sid>> /\ ~Applying(p)
        /\ shelf' = [shelf EXCEPT ![offer[p]] = Deleted(shelf[offer[p]], "recovery")]
        /\ owed' = [owed EXCEPT ![offer[p]] = {}]
    BY <1>5, <2>1 DEF AnswerRemove, WithoutIt, Applying
  <2>3. CASE x = offer[p]
    BY <1>0, <2>1, <2>2, <2>3, NothingOwed
  <2>4. CASE x # offer[p] /\ sid[p] = x
    <3>1. owed[x] \subseteq conv[p] /\ (owed[x] = {} \/ Bears(shelf[x], owed[x]))
      BY <1>0, <2>2, <2>4, HolderHas
    <3> QED BY <1>0, <2>2, <2>4, <3>1, HeldOwes
  <2>5. CASE x # offer[p] /\ sid[p] # x
    BY <1>0, <2>2, <2>5, LeftOwes
  <2> QED BY <2>3, <2>4, <2>5
<1>6. ~StoreRecoveredFails(p)
  BY DEF StoreRecoveredFails
<1> QED BY <1>1, <1>2, <1>3, <1>4, <1>5, <1>6 DEF Offers

LEMMA CommandsOwe ==
    ASSUME TypeInv, Orderly, SoleInv, SoleInv', PointInv, OwedInv,
           "openPastPoint" \notin Faults,
           NEW p \in Procs, NEW s \in Sessions,
           OfferNamed(p, s) \/ Resume(p, s) \/ Fork(p, s) \/ Clear(p, s) \/ Load(p, s),
           NEW x \in Sessions
    PROVE  Owes(x)'
<1>0. /\ Owes(x) /\ TakesUp(p) /\ Moves(p) /\ shelf \in [Sessions -> Shelf]
      /\ owed \in [Sessions -> SUBSET Messages] /\ sid \in [Procs -> Sessions \cup {None}]
      /\ conv \in [Procs -> SUBSET Messages]
  BY CommandsTake, CommandsMove DEF OwedInv, TypeInv, TypeOK
<1>1. CASE OfferNamed(p, s)
  <2>1. /\ pc[p] = "launched" /\ UNCHANGED owed /\ Discarded(shelf[s], s) = shelf[s]
        /\ ~Applying(p)
    BY <1>1, NothingToDiscard DEF OfferNamed, history, PointInv, Applying
  <2>2. CASE Offerable(shelf[s]) /\ ~Live(p, s)
    <3>1. UNCHANGED <<shelf, sid, conv>>
      BY <1>1, <2>1, <2>2 DEF OfferNamed
    <3> QED BY <1>0, <2>1, <3>1, StayOwes
  <2>3. CASE ~(Offerable(shelf[s]) /\ ~Live(p, s))
    <3>1. PlainResume(p, s, shelf[s]) /\ ~Applying(p)'
      BY <1>1, <2>1, <2>3 DEF OfferNamed, Applying, TypeInv, TypeOK
    <3> QED BY <1>0, <2>1, <3>1, PlainOwes
  <2> QED BY <2>2, <2>3
<1>2. CASE Resume(p, s)
  <2>1. /\ ~Live(p, s) /\ Uncontended(p, s) /\ Foreseen(s, shelf[s]) /\ shelf[s].store # None
        /\ OpenFromStore(p, s, shelf[s]) /\ UNCHANGED owed /\ ~Applying(p)
    BY <1>2 DEF Resume, Orderly, history, Switchable, Idle, Applying
  <2>2. Free(p, s)
    BY <2>1, UncontendedFree
  <2>3. CASE x = s
    BY <1>0, <2>1, <2>2, <2>3, OpenOwes
  <2>4. CASE x # s
    <3>1. shelf'[x] = shelf[x] /\ sid'[p] # x
      BY <1>0, <2>1, <2>4 DEF OpenFromStore
    <3> QED BY <1>0, <2>1, <3>1, LeftOwes
  <2> QED BY <2>3, <2>4
<1>3. CASE Fork(p, s)
  <2>1. /\ sid'[p] = s /\ ~Applying(p) /\ owed'[s] = {}
        /\ \A y \in Sessions : y # s => shelf'[y] = shelf[y] /\ owed'[y] = owed[y]
    BY <1>0, <1>3 DEF Fork, StoreAs, Idle, Applying
  <2>2. CASE x = s
    BY <2>1, <2>2, NothingOwed
  <2>3. CASE x # s
    BY <1>0, <2>1, <2>3, LeftOwes
  <2> QED BY <2>2, <2>3
<1>4. CASE Clear(p, s)
  <2>1. /\ pc[p] = "up" /\ ~Applying(p) /\ Unused(s) /\ UNCHANGED sid /\ sid[p] \in Sessions
        /\ shelf'[s] = Written(shelf[s], "store", conv[p])
        /\ owed' = [owed EXCEPT ![sid[p]] = {}, ![s] = owed[sid[p]]]
        /\ \A y \in Sessions : y # s => shelf'[y] = shelf[y]
    BY <1>0, <1>4, RunningTypes DEF Clear, CopyFirst, StoreAs, Idle, Applying
  <2>2. \A q \in Procs : sid[q] # s
    BY <2>1, HoldersHave DEF Unused
  <2>3. CASE x = s
    <3>1. Owes(sid[p])
      BY <2>1 DEF OwedInv
    <3>2. owed[sid[p]] \subseteq conv[p]
      BY <2>1, <3>1, HolderHas
    <3>3. owed'[s] = owed[sid[p]]
      BY <1>0, <2>1
    <3>4. Bears(shelf'[s], owed'[s])
      BY <1>0, <2>1, <3>2, <3>3, StoreBears
    <3> QED BY <2>1, <2>2, <2>3, <3>4 DEF Owes
  <2>4. CASE x # s /\ x = sid[p]
    <3>1. owed'[x] = {}
      BY <1>0, <2>1, <2>4
    <3> QED BY <3>1, NothingOwed
  <2>5. CASE x # s /\ x # sid[p]
    <3>1. owed'[x] = owed[x]
      BY <1>0, <2>1, <2>5
    <3> QED BY <1>0, <2>1, <2>5, <3>1, LeftOwes
  <2> QED BY <2>3, <2>4, <2>5
<1>5. CASE Load(p, s)
  <2>1. /\ ~Applying(p) /\ UNCHANGED <<shelf, sid>>
        /\ owed' = [owed EXCEPT ![sid[p]] = {}]
    BY <1>5 DEF Load, files, Switchable, Idle, Applying
  <2>2. CASE x = sid[p]
    <3>1. owed'[x] = {}
      BY <1>0, <2>1, <2>2
    <3> QED BY <3>1, NothingOwed
  <2>3. CASE x # sid[p]
    <3>1. owed'[x] = owed[x]
      BY <1>0, <2>1, <2>3
    <3> QED BY <1>0, <2>1, <2>3, <3>1, LeftOwes
  <2> QED BY <2>2, <2>3
<1> QED BY <1>1, <1>2, <1>3, <1>4, <1>5

\* The rest of a process's life: what is written is what is on screen, which
\* has all that the session owes.
LEMMA LaunchOwes ==
    ASSUME TypeInv, NEW p \in Procs, Launch(p), NEW x \in Sessions, Owes(x)
    PROVE  Owes(x)'
<1>1. TakesUp(p) /\ Moves(p) /\ UNCHANGED <<shelf, owed>> /\ sid[p] = None /\ ~Applying(p)
  BY OthersTake, OthersMove DEF Launch, files, history, Applying, TypeInv, TypeOK
<1>2. CASE sid'[p] = x
  <2>1. Unused(x)
    BY <1>2 DEF Launch, TypeInv, TypeOK
  <2>2. \A q \in Procs : sid[q] # x
    BY <2>1, HoldersHave DEF Unused
  <2>3. owed[x] = {}
    BY <2>1, <2>2, BareBearsNothing DEF Unused, Owes
  <2> QED BY <1>1, <2>3, NothingOwed
<1>3. CASE sid'[p] # x
  BY <1>1, <1>3, LeftOwes
<1> QED BY <1>2, <1>3

LEMMA SubmitOwes ==
    ASSUME TypeInv, SoleInv, SoleInv', NEW p \in Procs, NEW t \in Turns, Submit(p, t),
           NEW x \in Sessions, Owes(x)
    PROVE  Owes(x)'
<1> DEFINE now == conv[p] \cup {<<t, "asked">>}
<1>1. /\ TakesUp(p) /\ Moves(p) /\ ~Applying(p) /\ UNCHANGED <<sid, owed>>
      /\ sid[p] \in Sessions /\ shelf[sid[p]] \in Shelf
      /\ conv'[p] = now /\ now \in SUBSET Messages /\ conv[p] \subseteq now
  <2>1. pc[p] = "up" /\ UNCHANGED <<sid, owed>> /\ conv'[p] = now
    BY DEF Submit, Idle, TypeInv, TypeOK
  <2>2. now \in SUBSET Messages /\ conv[p] \subseteq now
    BY DEF Messages, TypeInv, TypeOK
  <2>3. TakesUp(p) /\ Moves(p)
    BY OthersTake, OthersMove
  <2> HIDE DEF now
  <2> QED BY <2>1, <2>2, <2>3, RunningTypes DEF Applying
<1>2. \/ shelf' = [shelf EXCEPT ![sid[p]] = Written(shelf[sid[p]], "journal", now)]
      \/ UNCHANGED shelf
  BY DEF Submit
<1> HIDE DEF now
<1>3. CASE sid[p] = x
  <2>1. owed[x] \subseteq conv[p] /\ (owed[x] = {} \/ Bears(shelf[x], owed[x]))
    BY <1>1, <1>3, HolderHas
  <2>2. owed[x] \in SUBSET now
    BY <1>1, <2>1
  <2>3. Bears(shelf[x], owed[x]) => Bears(Written(shelf[x], "journal", now), owed[x])
    BY <1>1, <1>3, <2>2, JournalBears
  <2>4. shelf'[x] = Written(shelf[x], "journal", now) \/ shelf'[x] = shelf[x]
    BY <1>1, <1>2, <1>3 DEF TypeInv, TypeOK
  <2> QED BY <1>1, <1>3, <2>1, <2>2, <2>3, <2>4, HeldOwes
<1>4. CASE sid[p] # x
  <2>1. shelf'[x] = shelf[x]
    BY <1>2, <1>4 DEF TypeInv, TypeOK
  <2> QED BY <1>1, <1>4, <2>1, LeftOwes
<1> QED BY <1>3, <1>4

LEMMA TurnCompletedOwes ==
    ASSUME TypeInv, SoleInv, SoleInv', NEW p \in Procs, TurnCompleted(p),
           NEW x \in Sessions, Owes(x)
    PROVE  Owes(x)'
<1> DEFINE now == Answered(p)
<1>1. /\ TakesUp(p) /\ Moves(p) /\ ~Applying(p) /\ UNCHANGED sid
      /\ sid[p] \in Sessions /\ shelf[sid[p]] \in Shelf
      /\ conv'[p] = now /\ now \in SUBSET Messages /\ conv[p] \subseteq now
  <2>1. pc[p] = "up" /\ turn[p] \in Turns /\ UNCHANGED sid /\ conv'[p] = now
    BY DEF TurnCompleted, TypeInv, TypeOK
  <2>2. now \in SUBSET Messages /\ conv[p] \subseteq now
    BY <2>1 DEF Answered, Messages, TypeInv, TypeOK
  <2>3. TakesUp(p) /\ Moves(p)
    BY OthersTake, OthersMove
  <2> HIDE DEF now
  <2> QED BY <2>1, <2>2, <2>3, RunningTypes DEF Applying
<1>2. \/ /\ shelf' = [shelf EXCEPT ![sid[p]] = StoredAndRotated(shelf[sid[p]], now)]
         /\ owed' = [owed EXCEPT ![sid[p]] = {}]
      \/ /\ shelf' = [shelf EXCEPT ![sid[p]] = Written(shelf[sid[p]], "journal", now)]
         /\ UNCHANGED owed
      \/ UNCHANGED <<shelf, owed>>
  BY DEF TurnCompleted
<1> HIDE DEF now
<1>3. CASE sid[p] = x
  <2>1. owed[x] \subseteq conv[p] /\ (owed[x] = {} \/ Bears(shelf[x], owed[x]))
    BY <1>1, <1>3, HolderHas
  <2>2. owed[x] \in SUBSET now
    BY <1>1, <2>1
  <2>3. Bears(shelf[x], owed[x]) => Bears(Written(shelf[x], "journal", now), owed[x])
    BY <1>1, <1>3, <2>2, JournalBears
  <2>4. \/ owed'[x] = {}
        \/ /\ shelf'[x] = Written(shelf[x], "journal", now) \/ shelf'[x] = shelf[x]
           /\ owed'[x] = owed[x]
    BY <1>1, <1>2, <1>3 DEF TypeInv, TypeOK
  <2>5. CASE owed'[x] = {}
    BY <2>5, NothingOwed
  <2>6. CASE /\ shelf'[x] = Written(shelf[x], "journal", now) \/ shelf'[x] = shelf[x]
             /\ owed'[x] = owed[x]
    BY <1>1, <1>3, <2>1, <2>2, <2>3, <2>6, HeldOwes
  <2> QED BY <2>4, <2>5, <2>6
<1>4. CASE sid[p] # x
  <2>1. shelf'[x] = shelf[x] /\ owed'[x] = owed[x]
    BY <1>2, <1>4 DEF TypeInv, TypeOK
  <2> QED BY <1>1, <1>4, <2>1, LeftOwes
<1> QED BY <1>3, <1>4

LEMMA AutosaveOwes ==
    ASSUME TypeInv, SoleInv, SoleInv', OwedInv, NEW p \in Procs, Autosave(p), NEW x \in Sessions
    PROVE  Owes(x)'
<1>1. /\ TakesUp(p) /\ Moves(p) /\ ~Applying(p) /\ UNCHANGED <<sid, conv>> /\ Owes(x)
      /\ sid[p] \in Sessions /\ shelf[sid[p]] \in Shelf /\ conv[p] \in SUBSET Messages
  BY OthersTake, OthersMove, RunningTypes
     DEF Autosave, memory, Applying, OwedInv, TypeInv, TypeOK
<1>2. CASE UNCHANGED <<shelf, owed>>
  BY <1>1, <1>2, StayOwes
<1>3. CASE /\ shelf' = [shelf EXCEPT ![sid[p]] = Written(shelf[sid[p]], "recovery", conv[p])]
           /\ owed' = [owed EXCEPT ![sid[p]] = conv[p]]
  <2>1. CASE sid[p] = x
    <3>1. /\ shelf'[x] = Written(shelf[x], "recovery", conv[p])
          /\ owed'[x] = conv[p]
      BY <1>3, <2>1 DEF TypeInv, TypeOK
    <3>2. Bears(shelf'[x], owed'[x])
      BY <1>1, <2>1, <3>1, RecoveryBears
    <3> QED BY <1>1, <2>1, <3>1, <3>2, HeldOwes
  <2>2. CASE sid[p] # x
    <3>1. shelf'[x] = shelf[x] /\ owed'[x] = owed[x]
      BY <1>3, <2>2 DEF TypeInv, TypeOK
    <3> QED BY <1>1, <2>2, <3>1, LeftOwes
  <2> QED BY <2>1, <2>2
<1> QED BY <1>2, <1>3 DEF Autosave

\* However a process ends, its session's files have what it owes.
LEMMA EndOwes ==
    ASSUME TypeInv, "dieApplying" \notin Faults, NEW p \in Procs,
           ExitSaved(p) \/ ExitTimedOut(p) \/ Crash(p), NEW x \in Sessions, Owes(x)
    PROVE  Owes(x)'
<1>1. /\ TakesUp(p) /\ Moves(p) /\ ~Applying(p) /\ sid'[p] # x
      /\ sid[p] \in Sessions
  BY NoneAssumption, OthersTake, OthersMove, RunningTypes
     DEF ExitSaved, ExitTimedOut, Crash, Forget, Applying, TypeInv, TypeOK
<1>2. \/ shelf'[x] = shelf[x] /\ owed'[x] = owed[x]
      \/ owed'[x] = {}
  <2>1. CASE ExitSaved(p)
    BY <1>1, <2>1 DEF ExitSaved, OwnSession, TypeInv, TypeOK
  <2>2. CASE ExitTimedOut(p)
    BY <1>1, <2>2 DEF ExitTimedOut, KeepRecovery, TypeInv, TypeOK
  <2>3. CASE Crash(p)
    BY <2>3 DEF Crash, history
  <2> QED BY <2>1, <2>2, <2>3
<1> QED BY <1>1, <1>2, NothingOwed, LeftOwes

LEMMA OthersOwe ==
    ASSUME TypeInv, SoleInv, SoleInv', OwedInv, "dieApplying" \notin Faults, NEW p \in Procs,
           \/ Launch(p) \/ TurnCompleted(p) \/ TurnFailed(p) \/ Autosave(p)
           \/ ExitApp(p) \/ ExitSaved(p) \/ ExitTimedOut(p) \/ Crash(p)
           \/ \E t \in Turns : Submit(p, t),
           NEW x \in Sessions
    PROVE  Owes(x)'
<1>0. Owes(x)
  BY DEF OwedInv
<1>1. CASE TurnFailed(p) \/ ExitApp(p)
  <2>1. /\ TakesUp(p) /\ Moves(p) /\ ~Applying(p) /\ UNCHANGED <<shelf, sid, conv, owed>>
    BY <1>1, OthersTake, OthersMove DEF TurnFailed, ExitApp, files, history, Applying
  <2> QED BY <2>1, StayOwes
<1>2. CASE \E t \in Turns : Submit(p, t)
  BY <1>0, <1>2, SubmitOwes
<1> QED BY <1>0, <1>1, <1>2, LaunchOwes, TurnCompletedOwes, AutosaveOwes, EndOwes

LEMMA OwedNext ==
    ASSUME Orderly,
           {"askedTwice", "dieApplying", "reopenRemoved", "openPastPoint"} \cap Faults = {},
           TypeInv, SoleInv, PointInv, OwedInv, [Next]_vars
    PROVE  OwedInv'
<1>0. SoleInv' /\ "dieApplying" \notin Faults /\ "openPastPoint" \notin Faults
  BY SoleNext
<1>1. ASSUME NEW p \in Procs, Offers(p) PROVE OwedInv'
  BY <1>0, <1>1, OffersOwe DEF OwedInv
<1>2. ASSUME NEW p \in Procs, NEW s \in Sessions,
             OfferNamed(p, s) \/ Resume(p, s) \/ Fork(p, s) \/ Clear(p, s) \/ Load(p, s)
      PROVE  OwedInv'
  BY <1>0, <1>2, CommandsOwe DEF OwedInv
<1>3. ASSUME NEW p \in Procs,
             \/ Launch(p) \/ TurnCompleted(p) \/ TurnFailed(p) \/ Autosave(p)
             \/ ExitApp(p) \/ ExitSaved(p) \/ ExitTimedOut(p) \/ Crash(p)
             \/ \E t \in Turns : Submit(p, t)
      PROVE  OwedInv'
  BY <1>0, <1>3, OthersOwe DEF OwedInv
<1>4. CASE UNCHANGED vars
  BY <1>4 DEF vars, files, memory, history, OwedInv, Owes, Applying
<1> QED BY <1>1, <1>2, <1>3, <1>4 DEF Next

LEMMA OwedInit == Init => OwedInv
BY DEF Init, OwedInv, Owes

LEMMA OwedInvImplies == ASSUME TypeInv, PointInv, OwedInv PROVE RecoveryPointSurvives
<1> SUFFICES ASSUME NEW s \in Sessions
             PROVE  \/ /\ Offerable(shelf[s]) /\ s \notin ledger
                       /\ owed[s] \subseteq shelf[s].recovery
                    \/ owed[s] \subseteq Resumable \cup UNION {conv[p] : p \in Running}
  BY DEF RecoveryPointSurvives
<1>0. Owes(s)
  BY DEF OwedInv
<1>1. CASE \E p \in Procs : sid[p] = s /\ Applying(p) /\ owed[s] \subseteq conv[p]
  BY <1>1 DEF Applying, Running
<1>2. CASE Bears(shelf[s], owed[s])
  BY <1>2 DEF Bears, Resumable, PointInv, Removed
<1> QED BY <1>0, <1>1, <1>2 DEF Owes

\* With orderly terminals, what an autosave put aside is still to be had, from
\* the offer, from a resume or from a running process, until the user removes
\* it or a store replaces it, whatever crashes, exits, offers, turns, resumes,
\* forks, clears and loads follow.  It takes that a recovered conversation is
\* stored once its file is retired, that no second question is answered about a
\* session the first one opened, and that no session is opened past a point
\* that holds more or after the point's removal (runtime/recovery-prompt.ts,
\* runtime/process-lifecycle.ts).
THEOREM RecoveryPointsLast ==
    ASSUME Orderly,
           {"askedTwice", "dieApplying", "reopenRemoved", "openPastPoint"} \cap Faults = {}
    PROVE  Spec => []RecoveryPointSurvives
<1> DEFINE Inv == TypeInv /\ SoleInv /\ PointInv /\ OwedInv
<1>1. Init => Inv
  BY TypeInit, SoleInit, PointInit, OwedInit
<1>2. Inv /\ [Next]_vars => Inv'
  <2>1. {"askedTwice", "reopenRemoved"} \cap Faults = {}
    OBVIOUS
  <2> QED BY <2>1, TypeNext, SoleNext, PointNext, OwedNext
<1>3. Inv => RecoveryPointSurvives
  BY OwedInvImplies
<1> QED BY <1>1, <1>2, <1>3, PTL DEF Spec
=============================================================================
