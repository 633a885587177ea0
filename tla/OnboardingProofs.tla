-------------------------- MODULE OnboardingProofs --------------------------
(***************************************************************************)
(* For any settings, requests and other writers: applying a request is a    *)
(* transaction, at no moment of it is a setting in effect without what it   *)
(* builds on, and an applied setup does not bring the wizard back.          *)
(*                                                                          *)
(* The first rests on what the rollback actions have saved: for each cell   *)
(* the oldest action whose scope has it saved what would be there without   *)
(* the request, and a cell in no action's scope is still as it would be.    *)
(* The second looks at every state the actions would go back through.       *)
(***************************************************************************)
EXTENDS OnboardingWizard, SequenceTheorems, FiniteSetTheorems, TLAPS

\* Others do not write into a file a rollback of the request would restore.
FilesApart == "sameFile" \notin Faults

\* A rollback action; one that could not be built restores nothing.
Action == {a \in [scope : SUBSET Cells, saved : [Cells -> Values] \cup {<<>>}] :
                a.scope # {} => a.saved \in [Cells -> Values]}
Forward == pc \in {"next", "apply"}

\* The actions that a failure now would run, oldest first.
Acts == IF pc = "apply" THEN Append(rollbacks, own) ELSE rollbacks

\* Running actions s in reverse from store st ends at ba.
Kept(s, st, ba) ==
    \A c \in Cells :
        /\ \A i \in DOMAIN s :
            c \in s[i].scope /\ (\A j \in 1 .. i - 1 : c \notin s[j].scope)
                => s[i].saved[c] = ba[c]
        /\ (\A i \in DOMAIN s : c \notin s[i].scope) => st[c] = ba[c]

InScope(c) == \E op \in Ops(request) : c \in op.scope

ApplyTypes ==
    /\ store \in [Cells -> Values] /\ base \in [Cells -> Values]
    /\ pc \in Places
    /\ todo \in Seq(Operations) /\ left \in Seq(Writes)
    /\ rollbacks \in Seq(Action) /\ own \in Action
    /\ Running => request \in Requests

ApplyInv ==
    /\ ApplyTypes
    /\ ~Running => rollbacks = <<>>
    /\ Forward => Ops(todo) \subseteq Ops(request) /\ excuse = {}
    /\ pc = "apply" => \A w \in Range(left) : w.cell \in own.scope \cap Touched(request)
    /\ Running => \A i \in DOMAIN Acts : \A c \in Acts[i].scope : InScope(c)
    /\ Running /\ excuse = {} => Kept(Acts, store, base)
    /\ Forward => \A c \in Cells \ Touched(request) : store[c] = base[c]

-----------------------------------------------------------------------------
(***************************************************************************)
(* Sequences.                                                               *)
(***************************************************************************)
LEMMA Appended ==
    ASSUME NEW S, NEW s \in Seq(S), NEW x \in S
    PROVE  /\ Append(s, x) \in Seq(S) /\ Len(s) \in Nat
           /\ DOMAIN s = 1 .. Len(s) /\ DOMAIN Append(s, x) = 1 .. Len(s) + 1
           /\ \A i \in 1 .. Len(s) : Append(s, x)[i] = s[i]
           /\ Append(s, x)[Len(s) + 1] = x
OBVIOUS

\* Taking the first one.
LEMMA Taken ==
    ASSUME NEW S, NEW s \in Seq(S), s # <<>>
    PROVE  /\ Head(s) \in S /\ Head(s) \in Range(s)
           /\ Tail(s) \in Seq(S) /\ Range(Tail(s)) \subseteq Range(s)
<1> DEFINE t == Tail(s)
<1>1. /\ Len(s) \in Nat /\ Len(s) >= 1 /\ DOMAIN s = 1 .. Len(s)
      /\ t \in Seq(S) /\ DOMAIN t = 1 .. Len(s) - 1
      /\ \A i \in 1 .. Len(s) - 1 : t[i] = s[i + 1]
      /\ Head(s) = s[1] /\ Head(s) \in S
    OBVIOUS
<1> HIDE DEF t
<1>2. Range(t) \subseteq Range(s)
    <2> SUFFICES ASSUME NEW i \in 1 .. Len(s) - 1 PROVE t[i] \in Range(s)
        BY <1>1 DEF Range
    <2>1. i + 1 \in DOMAIN s /\ t[i] = s[i + 1]
        BY <1>1
    <2>2. QED
        BY <2>1 DEF Range
<1>3. Head(s) \in Range(s)
    BY <1>1 DEF Range
<1>4. QED
    BY <1>1, <1>2, <1>3 DEF t

\* Removing the last one, the newest rollback action.
LEMMA NewestRemoved ==
    ASSUME NEW S, NEW s \in Seq(S), s # <<>>
    PROVE  /\ RemoveAt(s, Len(s)) \in Seq(S)
           /\ Len(s) \in Nat /\ Len(s) >= 1 /\ DOMAIN s = 1 .. Len(s)
           /\ DOMAIN RemoveAt(s, Len(s)) = 1 .. Len(s) - 1
           /\ \A i \in 1 .. Len(s) - 1 : RemoveAt(s, Len(s))[i] = s[i]
<1> DEFINE n == Len(s)
           f == SubSeq(s, 1, n - 1)
           e == SubSeq(s, n + 1, n)
<1>1. n \in Nat /\ n >= 1 /\ DOMAIN s = 1 .. n
    OBVIOUS
<1>2. f \in Seq(S) /\ Len(f) = n - 1 /\ \A i \in 1 .. n - 1 : f[i] = s[i]
    BY <1>1
<1>3. e = <<>>
    BY <1>1, SubSeqEmpty
<1>4. RemoveAt(s, Len(s)) = f \o <<>>
    BY <1>3 DEF RemoveAt
<1> HIDE DEF n, f
<1>5. f \o <<>> = f
    BY <1>2, ConcatEmptySeq
<1>6. DOMAIN f = 1 .. n - 1
    BY <1>1, <1>2
<1>7. QED
    BY <1>1, <1>2, <1>4, <1>5, <1>6 DEF n

-----------------------------------------------------------------------------
(***************************************************************************)
(* What the steps do to Kept.                                               *)
(***************************************************************************)
\* A new action saves the store as it is.
LEMMA KeptBuild ==
    ASSUME NEW st \in [Cells -> Values], NEW ba, NEW s \in Seq(Action), NEW a \in Action,
           Kept(s, st, ba), a.saved = st \/ a.scope = {}
    PROVE  Kept(Append(s, a), st, ba)
<1> DEFINE t == Append(s, a)
<1>1. /\ Len(s) \in Nat /\ DOMAIN s = 1 .. Len(s) /\ DOMAIN t = 1 .. Len(s) + 1
      /\ \A i \in 1 .. Len(s) : t[i] = s[i]
      /\ t[Len(s) + 1] = a
    BY Appended
<1> HIDE DEF t
<1>2. \A i \in 1 .. Len(s) + 1 : i \in 1 .. Len(s) \/ i = Len(s) + 1
    BY <1>1
<1>3. ASSUME NEW c \in Cells, \A i \in DOMAIN t : c \notin t[i].scope PROVE st[c] = ba[c]
    <2>1. \A i \in DOMAIN s : c \notin s[i].scope
        BY <1>1, <1>3
    <2>2. QED
        BY <2>1 DEF Kept
<1>4. ASSUME NEW c \in Cells, NEW i \in DOMAIN t, c \in t[i].scope,
             \A j \in 1 .. i - 1 : c \notin t[j].scope
      PROVE  t[i].saved[c] = ba[c]
    <2>1. CASE i \in 1 .. Len(s)
        <3>1. \A j \in 1 .. i - 1 : j \in 1 .. Len(s)
            BY <1>1, <2>1
        <3>2. c \in s[i].scope /\ \A j \in 1 .. i - 1 : c \notin s[j].scope
            BY <1>1, <1>4, <2>1, <3>1
        <3>3. QED
            BY <1>1, <2>1, <3>2 DEF Kept
    <2>2. CASE i = Len(s) + 1
        <3>1. \A j \in 1 .. Len(s) : j \in 1 .. i - 1
            BY <1>1, <2>2
        <3>2. \A j \in DOMAIN s : c \notin s[j].scope
            BY <1>1, <1>4, <3>1
        <3>3. st[c] = ba[c]
            BY <3>2 DEF Kept
        <3>4. QED
            BY <1>1, <1>4, <2>2, <3>3
    <2>3. QED
        BY <1>1, <1>2, <2>1, <2>2
<1>5. Kept(t, st, ba)
    BY <1>3, <1>4 DEF Kept
<1>6. QED
    BY <1>5 DEF t

\* What a covered cell holds makes no difference.
LEMMA KeptWrite ==
    ASSUME NEW st, NEW ba, NEW su, NEW s, Kept(s, st, ba),
           \A c \in Cells : su[c] = st[c] \/ \E i \in DOMAIN s : c \in s[i].scope
    PROVE  Kept(s, su, ba)
BY DEF Kept

\* Another's change of a cell no action has is a change without the request.
LEMMA KeptElsewhere ==
    ASSUME NEW st, NEW ba, NEW su, NEW bu, NEW s, Kept(s, st, ba),
           \A c \in Cells :
               \/ su[c] = st[c] /\ bu[c] = ba[c]
               \/ su[c] = bu[c] /\ \A i \in DOMAIN s : c \notin s[i].scope
    PROVE  Kept(s, su, bu)
<1>1. ASSUME NEW c \in Cells, NEW i \in DOMAIN s, c \in s[i].scope,
             \A j \in 1 .. i - 1 : c \notin s[j].scope
      PROVE  s[i].saved[c] = bu[c]
    BY <1>1 DEF Kept
<1>2. ASSUME NEW c \in Cells, \A i \in DOMAIN s : c \notin s[i].scope PROVE su[c] = bu[c]
    BY <1>2 DEF Kept
<1>3. QED
    BY <1>1, <1>2 DEF Kept

\* Running the newest action.
LEMMA KeptUndo ==
    ASSUME NEW st, NEW ba, NEW s \in Seq(Action), s # <<>>, Kept(s, st, ba), NEW su,
           \A c \in Cells : su[c] = IF c \in s[Len(s)].scope THEN s[Len(s)].saved[c] ELSE st[c]
    PROVE  Kept(RemoveAt(s, Len(s)), su, ba)
<1> DEFINE t == RemoveAt(s, Len(s))
<1>1. /\ Len(s) \in Nat /\ Len(s) >= 1 /\ DOMAIN s = 1 .. Len(s)
      /\ DOMAIN t = 1 .. Len(s) - 1
      /\ \A i \in 1 .. Len(s) - 1 : t[i] = s[i]
    BY NewestRemoved
<1> HIDE DEF t
<1>2. \A i \in 1 .. Len(s) : i \in 1 .. Len(s) - 1 \/ i = Len(s)
    <2>1. Len(s) \in Nat
        BY <1>1
    <2>2. QED
        BY ONLY <2>1
<1>3. ASSUME NEW c \in Cells, NEW i \in DOMAIN t, c \in t[i].scope,
             \A j \in 1 .. i - 1 : c \notin t[j].scope
      PROVE  t[i].saved[c] = ba[c]
    <2>1. i \in DOMAIN s /\ \A j \in 1 .. i - 1 : j \in 1 .. Len(s) - 1
        BY <1>1
    <2>2. c \in s[i].scope /\ \A j \in 1 .. i - 1 : c \notin s[j].scope
        BY <1>1, <1>3, <2>1
    <2>3. QED
        BY <1>1, <2>1, <2>2 DEF Kept
<1>4. ASSUME NEW c \in Cells, \A i \in DOMAIN t : c \notin t[i].scope PROVE su[c] = ba[c]
    <2>1. \A j \in 1 .. Len(s) - 1 : c \notin s[j].scope
        BY <1>1, <1>4
    <2>2. Len(s) \in DOMAIN s
        BY <1>1
    <2>3. CASE c \in s[Len(s)].scope
        BY <2>1, <2>2, <2>3 DEF Kept
    <2>4. CASE c \notin s[Len(s)].scope
        <3>1. \A i \in DOMAIN s : c \notin s[i].scope
            BY <1>1, <1>2, <2>1, <2>4
        <3>2. QED
            BY <2>4, <3>1 DEF Kept
    <2>5. QED
        BY <2>3, <2>4
<1>5. Kept(t, su, ba)
    BY <1>3, <1>4 DEF Kept
<1>6. QED
    BY <1>5 DEF t
-----------------------------------------------------------------------------
(***************************************************************************)
(* The steps of the apply: the invariant, and the step of the transaction.  *)
(***************************************************************************)
Promise == <<IF Running THEN base ELSE store, request,
             CASE Running -> "open" [] pc = "idle" -> "closed" [] OTHER -> pc>>
Promised == Whole!Next \/ UNCHANGED Promise

\* A step in which the request goes on running keeps the promise if the base
\* stays, and one in which none runs if the store does.
LEMMA QuietStep ==
    ASSUME pc \in Places, pc' \in Places, request' = request,
           \/ Running /\ Running' /\ base' = base
           \/ ~Running /\ pc' = pc /\ store' = store
    PROVE  Promised
<1>1. CASE Running /\ Running' /\ base' = base
    BY <1>1 DEF Promised, Promise, Running
<1>2. CASE ~Running /\ pc' = pc /\ store' = store
    BY <1>2 DEF Promised, Promise, Running
<1>3. QED
    BY <1>1, <1>2

\* What has the scope of an operation of the request is in scope.
LEMMA OperationsTyped ==
    ASSUME ApplyInv, NEW op \in Ops(request), Running
    PROVE  /\ op \in Operations /\ op.writes \in Seq(Writes)
           /\ Written(op) \subseteq op.scope /\ op.scope \subseteq Cells
           /\ Written(op) \subseteq Touched(request)
BY RequestsAssumption DEF ApplyInv, ApplyTypes, Operations, Touched

LEMMA BuildStep == ASSUME ApplyInv, Build PROVE ApplyInv' /\ Promised
<1> USE DEF ApplyInv
<1>1. pc = "next" /\ todo # <<>> /\ Running /\ Forward /\ Acts = rollbacks
    BY DEF Build, Running, Forward, Acts
<1>2. /\ Head(todo) \in Ops(request) /\ Tail(todo) \in Seq(Operations)
      /\ Ops(Tail(todo)) \subseteq Ops(request)
    BY <1>1, Taken DEF ApplyTypes, Ops
<1>3. /\ Head(todo).scope \subseteq Cells /\ Head(todo).writes \in Seq(Writes)
      /\ Written(Head(todo)) \subseteq Head(todo).scope
      /\ Written(Head(todo)) \subseteq Touched(request)
    BY <1>1, <1>2, OperationsTyped
<1>4. Kept(rollbacks, store, base) /\ rollbacks \in Seq(Action) /\ store \in [Cells -> Values]
    BY <1>1 DEF ApplyTypes
<1>5. /\ store' = store /\ base' = base /\ request' = request /\ excuse' = excuse
      /\ pc' \in {"apply", "undo"}
    BY DEF Build
<1>6. Promised
    BY <1>1, <1>5, QuietStep DEF Running, Places
<1>7. CASE /\ pc' = "apply" /\ own' = [scope |-> Head(todo).scope, saved |-> store]
           /\ left' = Head(todo).writes /\ todo' = Tail(todo) /\ rollbacks' = rollbacks
    <2> DEFINE a == [scope |-> Head(todo).scope, saved |-> store]
    <2>1. a \in Action /\ a.saved = store /\ a.scope = Head(todo).scope
        BY <1>3, <1>4 DEF Action
    <2> HIDE DEF a
    <2>2. Acts' = Append(rollbacks, a) /\ own' = a
        BY <1>7 DEF Acts, a
    <2>3. Kept(Acts', store', base')
        BY <1>4, <1>5, <2>1, <2>2, KeptBuild
    <2>4. \A i \in DOMAIN Acts' : \A c \in Acts'[i].scope : InScope(c)'
        <3>1. /\ DOMAIN rollbacks = 1 .. Len(rollbacks)
              /\ DOMAIN Acts' = 1 .. Len(rollbacks) + 1 /\ Len(rollbacks) \in Nat
              /\ \A i \in 1 .. Len(rollbacks) : Acts'[i] = rollbacks[i]
              /\ Acts'[Len(rollbacks) + 1] = a
            BY <1>4, <2>1, <2>2, Appended
        <3>2. \A c \in a.scope : InScope(c)'
            BY <1>2, <1>5, <2>1 DEF InScope
        <3>3. \A i \in DOMAIN rollbacks : \A c \in rollbacks[i].scope : InScope(c)'
            BY <1>1, <1>5 DEF InScope
        <3>4. QED
            BY <3>1, <3>2, <3>3
    <2>5. \A w \in Range(left') : w.cell \in own'.scope \cap Touched(request')
        BY <1>3, <1>5, <1>7, <2>1, <2>2 DEF Written
    <2>6. ApplyTypes'
        <3>1. /\ todo' \in Seq(Operations) /\ left' \in Seq(Writes)
              /\ rollbacks' \in Seq(Action) /\ own' \in Action
            BY <1>2, <1>3, <1>4, <1>7, <2>1, <2>2
        <3>2. base \in [Cells -> Values] /\ request \in Requests
            BY <1>1 DEF ApplyTypes
        <3>3. pc' \in Places
            BY <1>5 DEF Places
        <3>4. QED
            BY <1>4, <1>5, <3>1, <3>2, <3>3 DEF ApplyTypes
    <2>7. QED
        BY <1>1, <1>2, <1>5, <1>6, <1>7, <2>3, <2>4, <2>5, <2>6 DEF Running, Forward
<1>8. CASE /\ pc' = "undo" /\ rollbacks' = Append(rollbacks, NoAction)
           /\ UNCHANGED <<own, left, todo>>
    <2>1. NoAction \in Action /\ NoAction.scope = {}
        BY DEF NoAction, Action
    <2>2. Acts' = Append(rollbacks, NoAction)
        BY <1>8 DEF Acts
    <2>3. Kept(Acts', store', base')
        BY <1>4, <1>5, <2>1, <2>2, KeptBuild
    <2>4. \A i \in DOMAIN Acts' : \A c \in Acts'[i].scope : InScope(c)'
        <3>1. /\ DOMAIN rollbacks = 1 .. Len(rollbacks)
              /\ DOMAIN Acts' = 1 .. Len(rollbacks) + 1 /\ Len(rollbacks) \in Nat
              /\ \A i \in 1 .. Len(rollbacks) : Acts'[i] = rollbacks[i]
              /\ Acts'[Len(rollbacks) + 1] = NoAction
            BY <1>4, <2>1, <2>2, Appended
        <3>2. \A i \in DOMAIN rollbacks : \A c \in rollbacks[i].scope : InScope(c)'
            BY <1>1, <1>5 DEF InScope
        <3>3. QED
            BY <2>1, <3>1, <3>2
    <2>5. ApplyTypes'
        BY <1>1, <1>4, <1>5, <1>8, <2>1, Appended DEF ApplyTypes, Places, Running
    <2>6. QED
        BY <1>1, <1>5, <1>6, <1>8, <2>3, <2>4, <2>5 DEF Running, Forward
<1>9. QED
    BY <1>7, <1>8 DEF Build

LEMMA WriteStep == ASSUME ApplyInv, WriteOne PROVE ApplyInv' /\ Promised
<1> USE DEF ApplyInv
<1>1. /\ pc = "apply" /\ left # <<>> /\ Running /\ Forward
      /\ store' = [store EXCEPT ![Head(left).cell] = Head(left).value]
      /\ left' = Tail(left)
      /\ UNCHANGED <<todo, own, rollbacks, pc, request, base, excuse>>
    BY DEF WriteOne, Running, Forward
<1>2. /\ Head(left) \in Writes /\ Head(left) \in Range(left)
      /\ Tail(left) \in Seq(Writes) /\ Range(Tail(left)) \subseteq Range(left)
    BY <1>1, Taken DEF ApplyTypes
<1>3. Head(left).value \in Values /\ Head(left).cell \in own.scope \cap Touched(request)
    <2> DEFINE w == Head(left)
    <2>1. w \in Writes /\ w \in Range(left)
        BY <1>2
    <2> HIDE DEF w
    <2>2. w.value \in Values
        BY ONLY <2>1 DEF Values
    <2>3. w.cell \in own.scope \cap Touched(request)
        BY <1>1, <2>1
    <2>4. QED
        BY <2>2, <2>3 DEF w
<1>4. Acts = Append(rollbacks, own) /\ Acts' = Acts
    BY <1>1 DEF Acts
<1>5. \E i \in DOMAIN Acts : Head(left).cell \in Acts[i].scope
    <2>1. /\ Len(rollbacks) \in Nat /\ DOMAIN Acts = 1 .. Len(rollbacks) + 1
          /\ Acts[Len(rollbacks) + 1] = own
        BY <1>4, Appended DEF ApplyTypes
    <2>2. Len(rollbacks) + 1 \in DOMAIN Acts
        BY <2>1
    <2>3. QED
        BY <1>3, <2>1, <2>2
<1>6. store' \in [Cells -> Values]
      /\ \A c \in Cells : c # Head(left).cell => store'[c] = store[c]
    BY <1>1, <1>3 DEF ApplyTypes
<1>7. Kept(Acts', store', base')
    <2>1. Kept(Acts, store, base)
        BY <1>1
    <2>2. \A c \in Cells : store'[c] = store[c] \/ \E i \in DOMAIN Acts : c \in Acts[i].scope
        BY <1>5, <1>6
    <2>3. Kept(Acts, store', base)
        BY <2>1, <2>2, KeptWrite
    <2>4. QED
        BY <1>1, <1>4, <2>3
<1>8. \A i \in DOMAIN Acts' : \A c \in Acts'[i].scope : InScope(c)'
    BY <1>1, <1>4 DEF InScope
<1>9. Promised
    BY <1>1, QuietStep DEF Running, Places
<1>10. ApplyTypes'
    BY <1>1, <1>2, <1>6 DEF ApplyTypes, Running
<1>11. QED
    BY <1>1, <1>2, <1>3, <1>6, <1>7, <1>8, <1>9, <1>10 DEF Running, Forward

LEMMA OperationEnds == ASSUME ApplyInv, ApplyThrows \/ Applied PROVE ApplyInv' /\ Promised
<1> USE DEF ApplyInv
<1>1. /\ pc = "apply" /\ pc' \in {"undo", "next"} /\ Running /\ Running' /\ Forward
      /\ rollbacks' = Append(rollbacks, own)
      /\ UNCHANGED <<store, todo, left, own, request, base, excuse>>
    BY DEF ApplyThrows, AndOwn, Applied, Running, Forward
<1>2. Acts' = Acts
    BY <1>1 DEF Acts
<1>3. \A i \in DOMAIN Acts' : \A c \in Acts'[i].scope : InScope(c)'
    BY <1>1, <1>2 DEF InScope
<1>4. ApplyTypes'
    BY <1>1, Appended DEF ApplyTypes, Running, Places
<1>5. Promised
    BY <1>1, QuietStep DEF Places
<1>6. QED
    BY <1>1, <1>2, <1>3, <1>4, <1>5 DEF Forward

LEMMA VerifyStep == ASSUME ApplyInv, Verify PROVE ApplyInv' /\ Promised
<1> USE DEF ApplyInv
<1>1. /\ pc = "next" /\ Running /\ Forward /\ Acts = rollbacks
      /\ UNCHANGED <<store, request>>
    BY DEF Verify, Running, Forward, Acts
<1>2. CASE Met(request, store) /\ pc' = "applied" /\ Gone /\ base' = store
    <2>1. ~Running' /\ ~Forward'
        BY <1>2 DEF Running, Forward
    <2>2. rollbacks' = <<>> /\ todo' = <<>> /\ left' = <<>> /\ own' \in Action
        BY <1>2 DEF Gone, NoAction, Action
    <2>3. ApplyTypes'
        BY <1>1, <1>2, <2>1, <2>2 DEF ApplyTypes, Places
    <2>4. Whole!Commit
        <3>1. \A c \in (DOMAIN base) \ Touched(request) : store[c] = base[c]
            BY <1>1 DEF ApplyTypes
        <3>2. pc' # "idle" /\ Met(request, store')
            BY <1>1, <1>2
        <3>3. QED
            BY <1>1, <1>2, <2>1, <3>1, <3>2 DEF Whole!Commit, Whole!Same, Whole!Untouched
    <2>5. QED
        BY <1>1, <1>2, <2>1, <2>2, <2>3, <2>4 DEF Promised, Whole!Next
<1>3. CASE pc' = "undo" /\ UNCHANGED <<todo, left, own, rollbacks, base, excuse>>
    <2>1. Running' /\ ~Forward' /\ Acts' = Acts
        BY <1>1, <1>3 DEF Running, Forward, Acts
    <2>2. ApplyTypes'
        BY <1>1, <1>3 DEF ApplyTypes, Places
    <2>3. \A i \in DOMAIN Acts' : \A c \in Acts'[i].scope : InScope(c)'
        BY <1>1, <2>1 DEF InScope
    <2>4. Promised
        BY <1>1, <1>3, <2>1, QuietStep DEF Places
    <2>5. QED
        BY <1>1, <1>3, <2>1, <2>2, <2>3, <2>4
<1>4. CASE pc' = "torn" /\ Gone /\ base' = store /\ excuse' # {}
    <2>1. ~Running' /\ ~Forward'
        BY <1>4 DEF Running, Forward
    <2>2. rollbacks' = <<>> /\ todo' = <<>> /\ left' = <<>> /\ own' \in Action
        BY <1>4 DEF Gone, NoAction, Action
    <2>3. ApplyTypes'
        BY <1>1, <1>4, <2>1, <2>2 DEF ApplyTypes, Places
    <2>4. Whole!Tear
        BY <1>1, <1>4, <2>1 DEF Whole!Tear
    <2>5. QED
        BY <1>1, <1>4, <2>1, <2>2, <2>3, <2>4 DEF Promised, Whole!Next
<1>5. QED
    BY <1>2, <1>3, <1>4 DEF Verify

\* A rollback that throws counts as an error from then on.
LEMMA RollbackStep == ASSUME ApplyInv, RunRollback PROVE ApplyInv' /\ Promised
<1> USE DEF ApplyInv
<1> DEFINE newest == rollbacks[Len(rollbacks)]
<1>1. /\ pc = "undo" /\ rollbacks # <<>> /\ Running /\ Running' /\ ~Forward /\ ~Forward'
      /\ Acts = rollbacks /\ Acts' = rollbacks'
      /\ rollbacks' = RemoveAt(rollbacks, Len(rollbacks))
      /\ UNCHANGED <<todo, left, own, pc, request, base>>
    BY DEF RunRollback, Running, Forward, Acts, Turn, Newest
<1>2. /\ Len(rollbacks) \in Nat /\ Len(rollbacks) >= 1
      /\ DOMAIN rollbacks = 1 .. Len(rollbacks) /\ rollbacks' \in Seq(Action)
      /\ DOMAIN rollbacks' = 1 .. Len(rollbacks) - 1
      /\ \A i \in 1 .. Len(rollbacks) - 1 : rollbacks'[i] = rollbacks[i]
    BY <1>1, NewestRemoved DEF ApplyTypes
<1>3. newest \in Action
    <2>1. Len(rollbacks) \in DOMAIN rollbacks
        BY <1>2
    <2>2. QED
        BY <2>1 DEF ApplyTypes
<1>4. \A i \in DOMAIN Acts' : \A c \in Acts'[i].scope : InScope(c)'
    BY <1>1, <1>2 DEF InScope
<1>5. ASSUME NEW part \in SUBSET newest.scope, store' = Restored(newest, part)
      PROVE  store' \in [Cells -> Values]
    <2>1. CASE newest.saved \in [Cells -> Values]
        BY <1>5, <2>1 DEF Restored, ApplyTypes
    <2>2. CASE newest.scope = {}
        BY <1>5, <2>2 DEF Restored, ApplyTypes
    <2>3. QED
        BY <1>3, <2>1, <2>2 DEF Action
<1>6. store' \in [Cells -> Values]
    <2>1. \E part \in SUBSET newest.scope : store' = Restored(newest, part)
        BY DEF RunRollback, Turn, Newest
    <2>2. QED
        BY <1>5, <2>1
<1>7. excuse' = {} => Kept(Acts', store', base')
    <2> SUFFICES ASSUME excuse' = {} PROVE Kept(Acts', store', base')
        OBVIOUS
    <2>1. store' = Restored(newest, newest.scope) /\ excuse' = excuse
        BY DEF RunRollback, Turn, Newest
    <2>2. Kept(rollbacks, store, base)
        BY <1>1, <2>1
    <2>3. \A c \in Cells : store'[c] = IF c \in rollbacks[Len(rollbacks)].scope
                                       THEN rollbacks[Len(rollbacks)].saved[c] ELSE store[c]
        BY <2>1 DEF Restored
    <2>4. rollbacks \in Seq(Action)
        BY DEF ApplyTypes
    <2>5. Kept(RemoveAt(rollbacks, Len(rollbacks)), store', base)
        BY <1>1, <2>2, <2>3, <2>4, KeptUndo
    <2>6. QED
        BY <1>1, <2>5
<1>8. ApplyTypes'
    BY <1>1, <1>2, <1>6 DEF ApplyTypes
<1>9. Promised
    BY <1>1, QuietStep DEF ApplyTypes
<1>10. QED
    BY <1>1, <1>4, <1>7, <1>8, <1>9

\* Without a rollback error the settings are as they would be without it all.
LEMMA RolledBackStep == ASSUME ApplyInv, RolledBack PROVE ApplyInv' /\ Promised
<1> USE DEF ApplyInv
<1>1. /\ pc = "undo" /\ rollbacks = <<>> /\ Running /\ Acts = rollbacks
      /\ pc' = IF excuse = {} THEN "refused" ELSE "torn"
      /\ Gone /\ base' = store
      /\ UNCHANGED <<store, request, excuse>>
    BY DEF RolledBack, Running, Acts
<1>2. /\ ~Running' /\ ~Forward' /\ pc' \in Places
      /\ (excuse = {} => pc' = "refused") /\ (excuse # {} => pc' = "torn")
    BY <1>1 DEF Running, Forward, Places
<1>3. rollbacks' = <<>> /\ todo' = <<>> /\ left' = <<>> /\ own' \in Action
    BY <1>1 DEF Gone, NoAction, Action
<1>4. ApplyTypes'
    BY <1>1, <1>2, <1>3 DEF ApplyTypes
<1>5. CASE excuse = {}
    <2>1. \A c \in Cells : store[c] = base[c]
        BY <1>1, <1>5 DEF Kept
    <2>2. store = base
        BY <2>1 DEF ApplyTypes
    <2>3. Whole!Abort
        BY <1>1, <1>2, <1>5, <2>2 DEF Whole!Abort
    <2>4. QED
        BY <1>1, <1>2, <1>3, <1>4, <2>3 DEF Promised, Whole!Next
<1>6. CASE excuse # {}
    <2>1. Whole!Tear
        BY <1>1, <1>2, <1>6 DEF Whole!Tear
    <2>2. QED
        BY <1>1, <1>2, <1>3, <1>4, <2>1 DEF Promised, Whole!Next
<1>7. QED
    BY <1>5, <1>6

\* Others change what no action restores, so not what the request writes.
LEMMA OthersStep == ASSUME FilesApart, ApplyInv, OthersWrite PROVE ApplyInv' /\ Promised
<1> USE DEF ApplyInv
<1>1. PICK w \in Others :
        /\ Running => \A op \in Ops(request) : w.cell \notin op.scope
        /\ store' = [store EXCEPT ![w.cell] = w.value]
        /\ base' = [base EXCEPT ![w.cell] = w.value]
    BY DEF OthersWrite, FilesApart
<1>2. pc # "apply" /\ UNCHANGED <<todo, left, own, rollbacks, pc, request, excuse>>
    BY DEF OthersWrite
<1>3. w.value \in Values
    BY ONLY <1>1, w \in Others DEF Values
<1>4. /\ store' \in [Cells -> Values] /\ base' \in [Cells -> Values]
      /\ \A c \in Cells : c # w.cell => store'[c] = store[c] /\ base'[c] = base[c]
      /\ w.cell \in Cells => store'[w.cell] = w.value /\ base'[w.cell] = w.value
    BY <1>1, <1>3 DEF ApplyTypes
<1>5. ApplyTypes' /\ Acts' = Acts /\ Running' = Running /\ Forward' = Forward
    BY <1>2, <1>4 DEF ApplyTypes, Acts, Running, Forward
<1>6. \A c \in Cells : InScope(c)' <=> InScope(c)
    BY <1>2 DEF InScope
<1>7. CASE Running
    <2>1. \A i \in DOMAIN Acts : w.cell \notin Acts[i].scope
        BY <1>1, <1>7 DEF InScope
    <2>2. \A c \in Cells :
              \/ store'[c] = store[c] /\ base'[c] = base[c]
              \/ store'[c] = base'[c] /\ \A i \in DOMAIN Acts : c \notin Acts[i].scope
        BY <1>4, <2>1
    <2>3. excuse' = {} => Kept(Acts', store', base')
        <3> SUFFICES ASSUME excuse' = {} PROVE Kept(Acts', store', base')
            OBVIOUS
        <3>1. Kept(Acts, store, base)
            BY <1>2, <1>7
        <3>2. Kept(Acts, store', base')
            BY <2>2, <3>1, KeptElsewhere
        <3>3. QED
            BY <1>5, <3>2
    <2>4. \A i \in DOMAIN Acts' : \A c \in Acts'[i].scope : InScope(c)'
        BY <1>2, <1>5, <1>7 DEF InScope
    <2>5. Forward' => \A c \in Cells \ Touched(request') : store'[c] = base'[c]
        BY <1>2, <1>4, <1>5
    <2>6. ApplyInv'
        BY <1>2, <1>5, <1>7, <2>3, <2>4, <2>5
    <2>7. Whole!Elsewhere
        <3>1. \A op \in Ops(request) : Written(op) \subseteq op.scope /\ op.scope \subseteq Cells
            BY <1>7, OperationsTyped
        <3>2. Touched(request) \subseteq Cells /\ w.cell \notin Touched(request)
            BY <1>1, <1>7, <3>1 DEF Touched
        <3>3. \A c \in Touched(request) : base'[c] = base[c]
            BY <1>4, <3>2
        <3>4. QED
            BY <1>2, <1>5, <1>7, <3>3 DEF Whole!Elsewhere, Whole!Same, Running
    <2>8. QED
        BY <2>6, <2>7 DEF Promised, Whole!Next
<1>8. CASE ~Running
    <2>0. pc # "open" /\ pc' = pc /\ ~Running'
        BY <1>2, <1>5, <1>8 DEF ApplyTypes, Places
    <2>1. Whole!Elsewhere
        BY <1>2, <1>8, <2>0 DEF Whole!Elsewhere
    <2>2. QED
        BY <1>2, <1>5, <1>8, <2>1 DEF Promised, Whole!Next, Running, Forward
<1>9. QED
    BY <1>7, <1>8

LEMMA StartStep ==
    ASSUME ApplyInv, NEW r \in Requests, Start(r) PROVE ApplyInv' /\ Promised
<1> USE DEF ApplyInv
<1>1. /\ ~Running /\ rollbacks = <<>> /\ request' = r /\ base' = store /\ excuse' = {}
      /\ UNCHANGED <<store, left, own, rollbacks>>
    BY DEF Start
<1>2. pc # "open"
    BY DEF ApplyTypes, Places
<1>3. CASE pc' = "next" /\ todo' \in Ordered(r)
    <2>1. Running' /\ Forward' /\ Acts' = <<>>
        BY <1>1, <1>3 DEF Running, Forward, Acts
    <2>2. r \in Seq(Operations)
        BY RequestsAssumption
    <2>3. todo' \in Seq(Operations) /\ Ops(todo') \subseteq Ops(r)
        <3>1. PICK place \in [DOMAIN r -> DOMAIN r] : todo' = [i \in DOMAIN r |-> r[place[i]]]
            BY <1>3 DEF Ordered
        <3>2. DOMAIN r = 1 .. Len(r) /\ Len(r) \in Nat /\ \A i \in DOMAIN r : r[i] \in Operations
            BY <2>2
        <3>3. todo' \in Seq(Operations)
            BY <3>1, <3>2
        <3>4. QED
            BY <3>1, <3>3 DEF Ops, Range
    <2>4. Kept(<<>>, store, store)
        BY DEF Kept
    <2>5. ApplyTypes'
        BY <1>1, <1>3, <2>3 DEF ApplyTypes, Places
    <2>6. Whole!Begin
        <3>1. /\ request' \in Requests
              /\ (IF Running THEN base ELSE store) = store
              /\ (IF Running' THEN base' ELSE store') = store
            BY <1>1, <2>1
        <3>2. /\ (CASE Running -> "open" [] pc = "idle" -> "closed" [] OTHER -> pc) # "open"
              /\ (CASE Running' -> "open" [] pc' = "idle" -> "closed" [] OTHER -> pc') = "open"
            BY <1>1, <1>2, <1>3, <2>1
        <3>3. QED
            BY <3>1, <3>2 DEF Whole!Begin
    <2>7. QED
        BY <1>1, <1>3, <2>1, <2>3, <2>4, <2>5, <2>6 DEF Promised, Whole!Next
<1>4. CASE pc' = "refused" /\ UNCHANGED todo
    <2>1. ~Running' /\ ~Forward'
        BY <1>4 DEF Running, Forward
    <2>2. ApplyTypes'
        BY <1>1, <1>4, <2>1 DEF ApplyTypes, Places
    <2>3. Whole!Decline
        BY <1>1, <1>2, <1>4, <2>1 DEF Whole!Decline
    <2>4. QED
        BY <1>1, <1>4, <2>1, <2>2, <2>3 DEF Promised, Whole!Next
<1>5. QED
    BY <1>3, <1>4 DEF Start

LEMMA DieStep == ASSUME ApplyInv, Die PROVE ApplyInv' /\ Promised
<1> USE DEF ApplyInv
<1>1. /\ Gone /\ base' = store /\ UNCHANGED <<store, request>>
      /\ IF Running THEN pc' = "torn" /\ excuse' = excuse \cup {"died"}
         ELSE UNCHANGED <<pc, excuse>>
    BY DEF Die
<1>2. ~Running' /\ ~Forward' /\ pc' \in Places
    BY <1>1 DEF Running, Forward, ApplyTypes, Places
<1>3. rollbacks' = <<>> /\ todo' = <<>> /\ left' = <<>> /\ own' \in Action
    BY <1>1 DEF Gone, NoAction, Action
<1>4. ApplyInv'
    <2>1. store' \in [Cells -> Values] /\ base' \in [Cells -> Values]
        BY <1>1 DEF ApplyTypes
    <2>2. ApplyTypes'
        BY <1>2, <1>3, <2>1 DEF ApplyTypes
    <2>3. QED
        BY <1>2, <1>3, <2>2 DEF Forward
<1>5. CASE Running
    <2>1. Whole!Tear
        <3>1. /\ pc' = "torn" /\ excuse' # {} /\ request' = request
            BY <1>1, <1>5
        <3>2. /\ (CASE Running -> "open" [] pc = "idle" -> "closed" [] OTHER -> pc) = "open"
              /\ (CASE Running' -> "open" [] pc' = "idle" -> "closed" [] OTHER -> pc') = "torn"
            BY <1>2, <1>5, <3>1 DEF Running
        <3>3. QED
            BY <3>1, <3>2 DEF Whole!Tear
    <2>2. QED
        BY <1>4, <2>1 DEF Promised, Whole!Next
<1>6. CASE ~Running
    BY <1>1, <1>4, <1>6, QuietStep DEF ApplyTypes
<1>7. QED
    BY <1>5, <1>6

-----------------------------------------------------------------------------
(***************************************************************************)
(* The wizard around it.                                                    *)
(***************************************************************************)
LEMMA BeforeValues == ASSUME NEW s \in Before PROVE s \in [Cells -> Values]
<1>1. s \in [Cells -> Range(s)]
    BY BeforeAssumption
<1>2. Range(s) \subseteq Values
    BY DEF Values
<1>3. QED
    BY <1>1, <1>2

LEMMA ApplyInit == Init => ApplyInv /\ Whole!Init
<1> SUFFICES ASSUME Init PROVE ApplyInv /\ Whole!Init
    OBVIOUS
<1>1. /\ store \in Before /\ base = store /\ todo = <<>> /\ left = <<>> /\ rollbacks = <<>>
      /\ own = NoAction /\ pc = "idle"
    BY DEF Init, TransactionInit
<1>2. ~Running /\ ~Forward
    BY <1>1 DEF Running, Forward
<1>3. store \in [Cells -> Values]
    BY <1>1, BeforeValues
<1>4. own \in Action
    BY <1>1 DEF NoAction, Action
<1>5. ApplyTypes
    BY <1>1, <1>2, <1>3, <1>4 DEF ApplyTypes, Places
<1>6. QED
    BY <1>1, <1>2, <1>5 DEF ApplyInv, Whole!Init

LEMMA ApplyNext ==
    ASSUME FilesApart, ApplyInv, [Next]_vars PROVE ApplyInv' /\ Promised
<1>1. CASE Transact
    BY <1>1, BuildStep, WriteStep, OperationEnds, VerifyStep, RollbackStep, RolledBackStep,
       OthersStep DEF Transact
<1>2. CASE UNCHANGED transaction
    <2>1. ApplyInv'
        BY <1>2 DEF transaction, ApplyInv, ApplyTypes, Running, Forward, Acts, Kept, InScope
    <2>2. UNCHANGED Promise
        BY <1>2 DEF transaction, Promise, Running
    <2>3. QED
        BY <2>1, <2>2 DEF Promised
<1>3. CASE Apply
    BY <1>3, StartStep DEF Apply
<1>4. CASE Crash
    BY <1>4, DieStep DEF Crash
<1>5. QED
    BY <1>1, <1>2, <1>3, <1>4
    DEF Next, vars, Launch, Welcome, OpenByCommand, StepKey, Continue, Escape, ApplyReturns,
        CheckFails, MarkDone, Activated

(* Whatever fails, wherever the process dies and whoever else writes, as    *)
(* long as it is not into a file that a rollback restores: a request takes  *)
(* effect as a whole or not at all, or an error that is not the refusal is  *)
(* shown (apply.ts:517-614).                                                *)
THEOREM ApplyIsTransaction == ASSUME FilesApart PROVE Spec => AllOrNothing
<1>1. ApplyInv /\ [Next]_vars => ApplyInv' /\ [Whole!Next]_Promise
    BY ApplyNext DEF Promised
<1>2. QED
    BY <1>1, ApplyInit, PTL DEF Spec, AllOrNothing, Whole!Spec, Promise

-----------------------------------------------------------------------------
\* Whoever else writes, and into whatever file.
LEMMA TransactTypes == ASSUME ApplyTypes, Transact PROVE ApplyTypes'
<1> USE DEF ApplyTypes
<1>1. NoAction \in Action
    BY DEF NoAction, Action
<1>2. CASE Build
    <2>1. /\ pc = "next" /\ todo # <<>> /\ pc' \in {"apply", "undo"}
          /\ UNCHANGED <<store, request, base>>
        BY <1>2 DEF Build
    <2>2. Head(todo) \in Operations /\ Tail(todo) \in Seq(Operations)
        BY <2>1
    <2>3. Head(todo).scope \subseteq Cells /\ Head(todo).writes \in Seq(Writes)
        BY <2>2, RequestsAssumption
    <2>4. [scope |-> Head(todo).scope, saved |-> store] \in Action
        BY <2>3 DEF Action
    <2>5. /\ own' \in Action /\ left' \in Seq(Writes) /\ todo' \in Seq(Operations)
          /\ rollbacks' \in Seq(Action)
        <3>1. CASE /\ own' = [scope |-> Head(todo).scope, saved |-> store]
                   /\ left' = Head(todo).writes /\ todo' = Tail(todo) /\ rollbacks' = rollbacks
            BY <2>2, <2>3, <2>4, <3>1
        <3>2. CASE rollbacks' = Append(rollbacks, NoAction) /\ UNCHANGED <<own, left, todo>>
            BY <1>1, <3>2, Appended
        <3>3. QED
            BY <1>2, <3>1, <3>2 DEF Build
    <2>6. QED
        BY <2>1, <2>5 DEF Places, Running
<1>3. CASE WriteOne
    <2>1. /\ pc = "apply" /\ left # <<>> /\ left' = Tail(left)
          /\ store' = [store EXCEPT ![Head(left).cell] = Head(left).value]
          /\ UNCHANGED <<todo, own, rollbacks, pc, request, base>>
        BY <1>3 DEF WriteOne
    <2>2. Head(left) \in Writes /\ Tail(left) \in Seq(Writes)
        BY <2>1
    <2>3. Head(left).value \in Values
        <3> DEFINE w == Head(left)
        <3>1. w \in Writes
            BY <2>2
        <3> HIDE DEF w
        <3>2. w.value \in Values
            BY ONLY <3>1 DEF Values
        <3>3. QED
            BY <3>2 DEF w
    <2>4. store' \in [Cells -> Values]
        BY <2>1, <2>3
    <2>5. QED
        BY <2>1, <2>2, <2>4 DEF Running
<1>4. CASE ApplyThrows \/ Applied
    <2>1. /\ pc = "apply" /\ pc' \in {"undo", "next"} /\ rollbacks' = Append(rollbacks, own)
          /\ UNCHANGED <<store, todo, left, own, request, base>>
        BY <1>4 DEF ApplyThrows, AndOwn, Applied
    <2>2. rollbacks' \in Seq(Action)
        BY <2>1, Appended
    <2>3. QED
        BY <2>1, <2>2 DEF Running, Places
<1>5. CASE Verify \/ RolledBack
    <2>1. /\ pc \in {"next", "undo"} /\ pc' \in {"applied", "undo", "refused", "torn"}
          /\ UNCHANGED <<store, request>> /\ base' \in {base, store}
        BY <1>5 DEF Verify, RolledBack
    <2>2. \/ UNCHANGED <<todo, left, own, rollbacks>>
          \/ todo' = <<>> /\ left' = <<>> /\ own' = NoAction /\ rollbacks' = <<>>
        BY <1>5 DEF Verify, RolledBack, Gone
    <2>3. QED
        <3>1. /\ todo' \in Seq(Operations) /\ left' \in Seq(Writes) /\ own' \in Action
              /\ rollbacks' \in Seq(Action)
            <4>1. CASE UNCHANGED <<todo, left, own, rollbacks>>
                BY <4>1
            <4>2. CASE /\ todo' = <<>> /\ left' = <<>> /\ own' = NoAction
                       /\ rollbacks' = <<>>
                BY <1>1, <4>2
            <4>3. QED
                BY <2>2, <4>1, <4>2
        <3>2. pc' \in Places /\ request \in Requests
            BY <2>1 DEF Running, Places
        <3>3. store' \in [Cells -> Values] /\ base' \in [Cells -> Values]
            BY <2>1
        <3>4. QED
            BY <2>1, <3>1, <3>2, <3>3
<1>6. CASE RunRollback
    <2> DEFINE newest == rollbacks[Len(rollbacks)]
    <2>1. /\ rollbacks # <<>> /\ rollbacks' = RemoveAt(rollbacks, Len(rollbacks))
          /\ UNCHANGED <<todo, left, own, pc, request, base>>
          /\ \E part \in SUBSET newest.scope : store' = Restored(newest, part)
        BY <1>6 DEF RunRollback, Turn, Newest
    <2>2. newest \in Action /\ rollbacks' \in Seq(Action)
        <3>1. Len(rollbacks) \in DOMAIN rollbacks
            BY <2>1
        <3>2. QED
            BY <2>1, <3>1, NewestRemoved
    <2>3. ASSUME NEW part \in SUBSET newest.scope, store' = Restored(newest, part)
          PROVE  store' \in [Cells -> Values]
        <3>1. CASE newest.saved \in [Cells -> Values]
            BY <2>3, <3>1 DEF Restored
        <3>2. CASE newest.scope = {}
            BY <2>3, <3>2 DEF Restored
        <3>3. QED
            BY <2>2, <3>1, <3>2 DEF Action
    <2>4. QED
        BY <2>1, <2>2, <2>3 DEF Running
<1>7. CASE OthersWrite
    <2>1. PICK w \in Others : /\ store' = [store EXCEPT ![w.cell] = w.value]
                              /\ base' = [base EXCEPT ![w.cell] = w.value]
        BY <1>7 DEF OthersWrite
    <2>2. w.value \in Values
        BY ONLY <2>1, w \in Others DEF Values
    <2>3. QED
        BY <1>7, <2>1, <2>2 DEF OthersWrite, Running
<1>8. QED
    BY <1>2, <1>3, <1>4, <1>5, <1>6, <1>7 DEF Transact

LEMMA StartTypes == ASSUME ApplyTypes, NEW r \in Requests, Start(r) PROVE ApplyTypes'
<1> USE DEF ApplyTypes
<1>1. r \in Seq(Operations)
    BY RequestsAssumption
<1>2. ASSUME todo' \in Ordered(r) PROVE todo' \in Seq(Operations)
    <2>1. PICK place \in [DOMAIN r -> DOMAIN r] : todo' = [i \in DOMAIN r |-> r[place[i]]]
        BY <1>2 DEF Ordered
    <2>2. DOMAIN r = 1 .. Len(r) /\ Len(r) \in Nat /\ \A i \in DOMAIN r : r[i] \in Operations
        BY <1>1
    <2>3. QED
        BY <2>1, <2>2
<1>3. QED
    BY <1>2 DEF Start, Places

LEMMA DieTypes == ASSUME ApplyTypes, Die PROVE ApplyTypes'
<1>1. NoAction \in Action
    BY DEF NoAction, Action
<1>2. QED
    BY <1>1 DEF Die, Gone, ApplyTypes, Running, Places

LEMMA WizardTypes == ASSUME ApplyTypes, TypeOK, [Next]_vars PROVE ApplyTypes' /\ TypeOK'
<1>1. 0 \in Steps /\ (step < LastStep => step + 1 \in Steps)
    BY LastStepAssumption DEF Steps, TypeOK
<1>2. ApplyTypes'
    <2>1. CASE UNCHANGED transaction
        BY <2>1 DEF transaction, ApplyTypes, Running
    <2>2. QED
        BY <2>1, TransactTypes, StartTypes, DieTypes
        DEF Next, vars, Launch, Welcome, OpenByCommand, StepKey, Continue, Escape, Apply,
            ApplyReturns, CheckFails, MarkDone, Activated, Crash
<1>3. store' \in [Cells -> Values] /\ pc' \in Places
    BY <1>2 DEF ApplyTypes
<1>4. CASE UNCHANGED wizard
    BY <1>2, <1>3, <1>4 DEF wizard, TypeOK
<1>5. CASE Launch
    BY <1>1, <1>2, <1>3, <1>5 DEF Launch, OpenAt, ShowNothing, TypeOK
<1>6. CASE Welcome \/ OpenByCommand \/ Escape
    BY <1>1, <1>2, <1>3, <1>6 DEF Welcome, OpenByCommand, Escape, OpenAt, ShowNothing, TypeOK
<1>7. CASE StepKey \/ Continue
    BY <1>1, <1>2, <1>3, <1>7 DEF StepKey, Continue, TypeOK
<1>8. CASE Apply \/ ApplyReturns \/ CheckFails \/ MarkDone
    BY <1>2, <1>3, <1>8 DEF Apply, ApplyReturns, CheckFails, MarkDone, DeletesProgress, TypeOK
<1>9. CASE Activated \/ Crash
    BY <1>1, <1>2, <1>3, <1>9 DEF Activated, Crash, TypeOK
<1>10. QED
    BY <1>2, <1>4, <1>5, <1>6, <1>7, <1>8, <1>9 DEF Next, vars, wizard

(* Whatever fails and whoever writes what: the settings hold nothing but    *)
(* what was there or is asked for by somebody, and a saved step is one the  *)
(* wizard has (progress.ts, apply.ts).                                      *)
THEOREM TypeCorrect == Spec => []TypeOK
<1>1. Init => ApplyTypes /\ TypeOK
    <2>1. Init => ApplyTypes
        BY ApplyInit DEF ApplyInv
    <2>2. Init => TypeOK
        <3> SUFFICES ASSUME Init PROVE TypeOK
            OBVIOUS
        <3>1. store \in [Cells -> Values] /\ pc \in Places
            BY <2>1 DEF ApplyTypes
        <3>2. 0 \in Steps
            BY LastStepAssumption DEF Steps
        <3>3. QED
            BY <3>1, <3>2 DEF Init, TypeOK
    <2>3. QED
        BY <2>1, <2>2
<1>2. ApplyTypes /\ TypeOK /\ [Next]_vars => ApplyTypes' /\ TypeOK'
    BY WizardTypes
<1>3. QED
    BY <1>1, <1>2, PTL DEF Spec

-----------------------------------------------------------------------------
\* The marker can be written and the progress deleted, and no step key gets
\* through to a wizard whose apply is under way.
Unhindered == WizardFaults \cap {"noMarker", "noUnlink", "keysPending"} = {}

DoneInv ==
    /\ phase = "activate" => progress = None
    /\ done => screen # "wizard" /\ progress = None

LEMMA DoneNext == ASSUME Unhindered, DoneInv, [Next]_vars PROVE DoneInv'
<1>1. CASE UNCHANGED wizard
    BY <1>1 DEF wizard, DoneInv
<1>2. CASE Launch \/ Welcome \/ OpenByCommand \/ Escape
    BY <1>2 DEF Launch, Welcome, OpenByCommand, Escape, OpenAt, ShowNothing, DoneInv
<1>3. CASE StepKey
    BY <1>3 DEF StepKey, Unhindered, DoneInv
<1>4. CASE Continue \/ Apply \/ ApplyReturns \/ CheckFails
    BY <1>4 DEF Continue, Apply, ApplyReturns, CheckFails, DoneInv
<1>5. CASE MarkDone
    BY <1>5 DEF MarkDone, DeletesProgress, Unhindered, DoneInv
<1>6. CASE Activated
    BY <1>6 DEF Activated, DoneInv
<1>7. CASE Crash
    BY <1>7 DEF Crash, DoneInv
<1>8. QED
    BY <1>1, <1>2, <1>3, <1>4, <1>5, <1>6, <1>7 DEF Next, vars, wizard

(* An applied setup leaves no progress that would bring the wizard up again *)
(* at a later launch, however the wizard is closed, reopened or killed      *)
(* while the apply is under way (progress.ts:112-117).                      *)
THEOREM AppliedIsOver == ASSUME Unhindered PROVE Spec => []AppliedStaysDone
<1>1. Init => DoneInv
    BY DEF Init, DoneInv
<1>2. DoneInv /\ [Next]_vars => DoneInv'
    BY DoneNext
<1>3. DoneInv => AppliedStaysDone
    BY DEF DoneInv, AppliedStaysDone
<1>4. QED
    BY <1>1, <1>2, <1>3, PTL DEF Spec
-----------------------------------------------------------------------------
(***************************************************************************)
(* Soundness.  Suppose the actions were now run one after the other, newest *)
(* first: h[i] is what they would leave on their way back to before the     *)
(* i-th operation.  No h[i] has, in the cells the request covers, anything  *)
(* but what was there and what is asked for, or a setting it asks for       *)
(* without what that builds on.                                             *)
(***************************************************************************)
Covered(r) == UNION {op.scope : op \in Ops(r)}

Fair(s, r, ba) == \A c \in Covered(r) :
    /\ s[c] = ba[c] \/ Asks(r, c, s[c])
    /\ \A b \in Builds :
        b.cell = c /\ s[c] = b.value /\ ba[c] # b.value /\ b.on \in Covered(r)
            => s[b.on] \in b.in

Unwinds(h, a, st, r, ba) ==
    /\ \A i \in 1 .. Len(a) + 1 : Fair(h[i], r, ba)
    /\ \A c \in Covered(r) : h[Len(a) + 1][c] = st[c]
    /\ \A i \in 1 .. Len(a) : \A c \in Covered(r) :
          h[i][c] = IF c \in a[i].scope THEN a[i].saved[c] ELSE h[i + 1][c]

\* What has been applied is in effect, and of no later kind than what has not.
InTurn ==
    /\ \A op \in Ops(request) : \A w \in Range(op.writes) :
          \/ op \in Ops(todo)
          \/ pc = "apply" /\ w \in Range(left)
          \/ Asks(request, w.cell, store[w.cell])
    /\ \A i, j \in 1 .. Len(todo) : i < j => Rank(todo[i]) <= Rank(todo[j])
    /\ pc = "apply" => \E op \in Ops(request) :
          /\ Range(left) \subseteq Range(op.writes)
          /\ \A o \in Ops(todo) : Rank(op) <= Rank(o)

\* What the request leaves alone and builds on is there.
Ready(r, ba) == \A b \in Builds :
    Asks(r, b.cell, b.value) => b.on \in Touched(r) \/ ba[b.on] \in b.in

SoundInv ==
    /\ Running => excuse \subseteq {"undo"} /\ Ready(request, base)
    /\ Running /\ excuse = {} => \E h : Unwinds(h, Acts, store, request, base)
    /\ Forward => InTurn

LEMMA RankTyped == ASSUME NEW op \in Operations PROVE Rank(op) \in Nat
<1>1. PICK k \in DOMAIN Kinds : Kinds[k] = op.kind
    BY RequestsAssumption DEF Range
<1>2. Rank(op) \in DOMAIN Kinds
    BY <1>1 DEF Rank
<1>3. QED
    BY <1>2 DEF Kinds

LEMMA RequestTyped ==
    ASSUME NEW r \in Requests
    PROVE  /\ Ops(r) \subseteq Operations
           /\ \A op \in Ops(r) :
                /\ op.writes \in Seq(Writes) /\ Range(op.writes) \subseteq Writes
                /\ Written(op) \subseteq op.scope
                /\ \A w \in Range(op.writes) : w.cell \in Written(op)
           /\ Touched(r) \subseteq Covered(r) /\ Covered(r) \subseteq Cells
<1>1. Ops(r) \subseteq Operations
    BY DEF Operations
<1>2. ASSUME NEW op \in Ops(r)
      PROVE  /\ op.writes \in Seq(Writes) /\ Range(op.writes) \subseteq Writes
             /\ Written(op) \subseteq op.scope /\ op.scope \subseteq Cells
             /\ \A w \in Range(op.writes) : w.cell \in Written(op)
    <2>1. op.writes \in Seq(Writes) /\ Written(op) \subseteq op.scope /\ op.scope \subseteq Cells
        BY <1>1, RequestsAssumption
    <2>2. Range(op.writes) \subseteq Writes
        BY <1>1 DEF Writes
    <2>3. QED
        BY <2>1, <2>2 DEF Written
<1>3. QED
    BY <1>1, <1>2 DEF Touched, Covered

\* Sorting leaves nothing out: the places are distinct, and as many as there are.
LEMMA OrderedWhole ==
    ASSUME NEW r \in Requests, NEW t \in Ordered(r)
    PROVE  /\ t \in Seq(Operations) /\ Ops(t) = Ops(r)
           /\ \A i, j \in 1 .. Len(t) : i < j => Rank(t[i]) <= Rank(t[j])
<1> DEFINE D == 1 .. Len(r)
<1>1. /\ Len(r) \in Nat /\ DOMAIN r = D /\ \A i \in D : r[i] \in Operations /\ Rank(r[i]) \in Nat
    BY RequestsAssumption, RankTyped
<1>2. PICK f \in [D -> D] :
          /\ t = [i \in D |-> r[f[i]]]
          /\ \A i, j \in D : i < j => Precedes(r, f[i], f[j])
    BY <1>1 DEF Ordered
<1>3. ASSUME NEW i \in D, NEW j \in D, i < j PROVE f[i] # f[j] /\ Rank(t[i]) <= Rank(t[j])
    <2>1. Precedes(r, f[i], f[j]) /\ f[i] \in D /\ f[j] \in D
        BY <1>2, <1>3
    <2>2. /\ Rank(r[f[i]]) \in Nat /\ Rank(r[f[j]]) \in Nat
          /\ \/ Rank(r[f[i]]) < Rank(r[f[j]])
             \/ Rank(r[f[i]]) = Rank(r[f[j]]) /\ f[i] < f[j]
        BY <1>1, <2>1 DEF Precedes
    <2>3. f[i] # f[j]
        BY <1>1, <2>1, <2>2
    <2>4. t[i] = r[f[i]] /\ t[j] = r[f[j]]
        BY <1>2
    <2>5. QED
        BY <2>2, <2>3, <2>4
<1>4. f \in Injection(D, D)
    <2>1. \A i, j \in D : i # j => i < j \/ j < i
        BY <1>1
    <2>2. \A i, j \in D : f[i] = f[j] => i = j
        BY <1>3, <2>1
    <2>3. QED
        BY <2>2 DEF Injection, IsInjective
<1>5. f \in Surjection(D, D)
    <2>1. IsFiniteSet(D)
        BY <1>1, FS_Interval
    <2>2. QED
        BY <1>4, <2>1, FS_Injection
<1>6. \A k \in D : \E i \in D : f[i] = k
    BY <1>5 DEF Surjection
<1>7. t \in Seq(Operations) /\ DOMAIN t = D /\ Len(t) = Len(r)
    <2>1. \A i \in D : r[f[i]] \in Operations
        BY <1>1, <1>2
    <2>2. t \in [D -> Operations]
        BY <1>2, <2>1
    <2>3. QED
        BY <1>1, <2>2
<1>8. Ops(t) = Ops(r)
    <2>1. \A i \in D : t[i] = r[f[i]] /\ f[i] \in D
        BY <1>2
    <2>2. QED
        BY <1>1, <1>6, <1>7, <2>1 DEF Ops, Range
<1>9. QED
    BY <1>1, <1>3, <1>7, <1>8

\* Taking the first operation of those in order.
LEMMA TakenInTurn ==
    ASSUME NEW t \in Seq(Operations), t # <<>>,
           \A i, j \in 1 .. Len(t) : i < j => Rank(t[i]) <= Rank(t[j])
    PROVE  /\ Ops(t) = {Head(t)} \cup Ops(Tail(t))
           /\ \A o \in Ops(Tail(t)) : Rank(Head(t)) <= Rank(o)
           /\ \A i, j \in 1 .. Len(Tail(t)) :
                i < j => Rank(Tail(t)[i]) <= Rank(Tail(t)[j])
<1> DEFINE u == Tail(t)
<1>1. /\ Len(t) \in Nat /\ Len(t) >= 1 /\ DOMAIN t = 1 .. Len(t)
      /\ u \in Seq(Operations) /\ Len(u) = Len(t) - 1 /\ DOMAIN u = 1 .. Len(t) - 1
      /\ \A i \in 1 .. Len(t) - 1 : u[i] = t[i + 1]
      /\ Head(t) = t[1]
    OBVIOUS
<1> HIDE DEF u
<1>2. \A i \in 1 .. Len(t) - 1 : i + 1 \in 1 .. Len(t) /\ 1 < i + 1
    BY <1>1
<1>3. \A k \in 1 .. Len(t) : k = 1 \/ (k - 1 \in 1 .. Len(t) - 1 /\ k = (k - 1) + 1)
    BY <1>1
<1>4. Ops(t) = {Head(t)} \cup Ops(u)
    <2>1. 1 \in DOMAIN t
        BY <1>1
    <2>2. \A k \in DOMAIN t : t[k] = t[1] \/ (k - 1 \in DOMAIN u /\ t[k] = u[k - 1])
        BY <1>1, <1>3
    <2>3. \A i \in DOMAIN u : i + 1 \in DOMAIN t /\ u[i] = t[i + 1]
        BY <1>1, <1>2
    <2>4. QED
        BY <1>1, <2>1, <2>2, <2>3 DEF Ops, Range
<1>5. ASSUME NEW o \in Ops(u) PROVE Rank(Head(t)) <= Rank(o)
    <2>1. PICK i \in DOMAIN u : o = u[i]
        BY DEF Ops, Range
    <2>2. o = t[i + 1] /\ i + 1 \in 1 .. Len(t) /\ 1 \in 1 .. Len(t) /\ 1 < i + 1
        BY <1>1, <1>2, <2>1
    <2>3. QED
        BY <1>1, <2>2
<1>6. ASSUME NEW i \in 1 .. Len(u), NEW j \in 1 .. Len(u), i < j
      PROVE  Rank(u[i]) <= Rank(u[j])
    <2>1. /\ i + 1 \in 1 .. Len(t) /\ j + 1 \in 1 .. Len(t) /\ i + 1 < j + 1
          /\ u[i] = t[i + 1] /\ u[j] = t[j + 1]
        BY <1>1, <1>6
    <2>2. QED
        BY <2>1
<1>7. QED
    BY <1>4, <1>5, <1>6 DEF u

\* Only what the request covers counts.
LEMMA FairSame ==
    ASSUME NEW s, NEW t, NEW r, NEW ba, NEW bb, Fair(s, r, ba),
           \A c \in Covered(r) : t[c] = s[c] /\ bb[c] = ba[c]
    PROVE  Fair(t, r, bb)
BY DEF Fair

\* What is fair is sound, where what was there is.
LEMMA FairIsSound ==
    ASSUME NEW r \in Requests, NEW st, NEW ba, Fair(st, r, ba), Ready(r, ba), Sound(ba),
           \A c \in Cells \ Covered(r) : st[c] = ba[c]
    PROVE  Sound(st)
<1> SUFFICES ASSUME NEW b \in Builds, st[b.cell] = b.value PROVE st[b.on] \in b.in
    BY DEF Sound
<1>1. /\ b.cell \in Cells /\ b.on \in Cells
      /\ \A w \in Writes : w.cell = b.on => w.value \in b.in
    BY BuildsAssumption
<1>2. ba[b.cell] = b.value => ba[b.on] \in b.in
    BY DEF Sound
<1>3. \A v : Asks(r, b.on, v) => v \in b.in
    BY <1>1, RequestTyped DEF Asks
<1>4. b.on \in Covered(r) => st[b.on] = ba[b.on] \/ Asks(r, b.on, st[b.on])
    BY DEF Fair
<1>5. b.on \notin Covered(r) => st[b.on] = ba[b.on]
    BY <1>1
<1>6. CASE ba[b.cell] = b.value
    BY <1>2, <1>3, <1>4, <1>5, <1>6
<1>7. CASE ba[b.cell] # b.value
    <2>1. b.cell \in Covered(r)
        BY <1>1, <1>7
    <2>2. Asks(r, b.cell, b.value)
        BY <1>7, <2>1 DEF Fair
    <2>3. b.on \in Touched(r) \/ ba[b.on] \in b.in
        BY <2>2 DEF Ready
    <2>4. CASE b.on \in Covered(r)
        BY <1>7, <2>1, <2>4 DEF Fair
    <2>5. CASE b.on \notin Covered(r)
        BY <1>5, <2>3, <2>5, RequestTyped
    <2>6. QED
        BY <2>4, <2>5
<1>8. QED
    BY <1>6, <1>7

\* A new action, which saves the store or restores nothing.
LEMMA UnwindsBuild ==
    ASSUME NEW h, NEW st \in [Cells -> Values], NEW ba, NEW r \in Requests,
           NEW s \in Seq(Action), NEW a \in Action, Unwinds(h, s, st, r, ba),
           a.saved = st \/ a.scope = {}
    PROVE  \E g : Unwinds(g, Append(s, a), st, r, ba)
<1> DEFINE t == Append(s, a)
           n == Len(s)
           g == [i \in 1 .. n + 2 |-> IF i = n + 2 THEN st ELSE h[i]]
<1>1. /\ n \in Nat /\ Len(t) = n + 1
      /\ \A i \in 1 .. n : t[i] = s[i]
      /\ t[n + 1] = a
    BY Appended
<1>2. /\ \A i \in 1 .. n + 1 : g[i] = h[i]
      /\ g[n + 2] = st
    BY <1>1
<1>3. /\ \A i \in 1 .. n + 1 : Fair(h[i], r, ba)
      /\ \A c \in Covered(r) : h[n + 1][c] = st[c]
      /\ \A i \in 1 .. n : \A c \in Covered(r) :
            h[i][c] = IF c \in s[i].scope THEN s[i].saved[c] ELSE h[i + 1][c]
    BY DEF Unwinds
<1> HIDE DEF t, n, g
<1>4. Fair(st, r, ba)
    <2>1. n + 1 \in 1 .. n + 1
        BY <1>1
    <2>2. Fair(h[n + 1], r, ba)
        BY <1>3, <2>1
    <2>3. QED
        BY <1>3, <2>2, FairSame
<1>5. \A i \in 1 .. n + 2 : Fair(g[i], r, ba)
    <2>1. \A i \in 1 .. n + 2 : i \in 1 .. n + 1 \/ i = n + 2
        BY <1>1
    <2>2. QED
        BY <1>2, <1>3, <1>4, <2>1
<1>6. ASSUME NEW i \in 1 .. n + 1, NEW c \in Covered(r)
      PROVE  g[i][c] = IF c \in t[i].scope THEN t[i].saved[c] ELSE g[i + 1][c]
    <2>1. i \in 1 .. n \/ i = n + 1
        BY <1>1
    <2>2. CASE i \in 1 .. n
        <3>1. i \in 1 .. n + 1 /\ i + 1 \in 1 .. n + 1
            BY <1>1, <2>2
        <3>2. g[i] = h[i] /\ g[i + 1] = h[i + 1] /\ t[i] = s[i]
            BY <1>1, <1>2, <2>2, <3>1
        <3>3. QED
            BY <1>3, <2>2, <3>2
    <2>3. CASE i = n + 1
        <3>1. g[i] = h[n + 1] /\ g[i + 1] = st /\ t[i] = a
            <4>1. i + 1 = n + 2 /\ n + 1 \in 1 .. n + 1
                BY <1>1, <2>3
            <4>2. QED
                BY <1>1, <1>2, <2>3, <4>1
        <3>2. g[i][c] = st[c] /\ g[i + 1][c] = st[c]
            BY <1>3, <3>1
        <3>3. QED
            BY <3>1, <3>2
    <2>4. QED
        BY <2>1, <2>2, <2>3
<1>7. Unwinds(g, t, st, r, ba)
    <2>1. Len(t) = n + 1 /\ (n + 1) + 1 = n + 2
        BY <1>1
    <2>2. QED
        BY <1>2, <1>5, <1>6, <2>1 DEF Unwinds
<1>8. QED
    BY <1>7 DEF t

\* A write into what the newest action would restore.
LEMMA UnwindsWrite ==
    ASSUME NEW h, NEW st, NEW ba, NEW su, NEW r \in Requests,
           NEW s \in Seq(Action), NEW a \in Action, Unwinds(h, Append(s, a), st, r, ba),
           Fair(su, r, ba), \A c \in Covered(r) : su[c] = st[c] \/ c \in a.scope
    PROVE  \E g : Unwinds(g, Append(s, a), su, r, ba)
<1> DEFINE t == Append(s, a)
           n == Len(s)
           g == [i \in 1 .. n + 2 |-> IF i = n + 2 THEN su ELSE h[i]]
<1>1. n \in Nat /\ Len(t) = n + 1 /\ t[n + 1] = a
    BY Appended
<1>2. /\ \A i \in 1 .. n + 1 : g[i] = h[i]
      /\ g[n + 2] = su
    BY <1>1
<1>3. /\ \A i \in 1 .. n + 2 : Fair(h[i], r, ba)
      /\ \A c \in Covered(r) : h[n + 2][c] = st[c]
      /\ \A i \in 1 .. n + 1 : \A c \in Covered(r) :
            h[i][c] = IF c \in t[i].scope THEN t[i].saved[c] ELSE h[i + 1][c]
    <2>1. (n + 1) + 1 = n + 2
        BY <1>1
    <2>2. QED
        BY <1>1, <2>1 DEF Unwinds
<1> HIDE DEF t, n, g
<1>4. \A i \in 1 .. n + 2 : Fair(g[i], r, ba)
    <2>1. \A i \in 1 .. n + 2 : i \in 1 .. n + 1 \/ i = n + 2
        BY <1>1
    <2>2. QED
        BY <1>2, <1>3, <2>1
<1>5. ASSUME NEW i \in 1 .. n + 1, NEW c \in Covered(r)
      PROVE  g[i][c] = IF c \in t[i].scope THEN t[i].saved[c] ELSE g[i + 1][c]
    <2>1. g[i] = h[i] /\ i + 1 \in 2 .. n + 2 /\ (i \in 1 .. n \/ i = n + 1)
        BY <1>1, <1>2
    <2>2. CASE i \in 1 .. n
        <3>1. i + 1 \in 1 .. n + 1
            BY <1>1, <2>2
        <3>2. QED
            BY <1>2, <1>3, <2>1, <3>1
    <2>3. CASE i = n + 1
        <3>1. g[i + 1] = su /\ h[i + 1][c] = st[c] /\ t[i] = a
            <4>1. i + 1 = n + 2
                BY <1>1, <2>3
            <4>2. QED
                BY <1>1, <1>2, <1>3, <2>3, <4>1
        <3>2. QED
            BY <1>3, <2>1, <3>1
    <2>4. QED
        BY <2>1, <2>2, <2>3
<1>6. Unwinds(g, t, su, r, ba)
    <2>1. Len(t) = n + 1 /\ (n + 1) + 1 = n + 2
        BY <1>1
    <2>2. QED
        BY <1>2, <1>4, <1>5, <2>1 DEF Unwinds
<1>7. QED
    BY <1>6 DEF t

\* Running the newest action.
LEMMA UnwindsUndo ==
    ASSUME NEW h, NEW st, NEW ba, NEW su, NEW r \in Requests,
           NEW s \in Seq(Action), s # <<>>, Unwinds(h, s, st, r, ba),
           \A c \in Covered(r) :
              su[c] = IF c \in s[Len(s)].scope THEN s[Len(s)].saved[c] ELSE st[c]
    PROVE  Unwinds(h, RemoveAt(s, Len(s)), su, r, ba)
<1> DEFINE t == RemoveAt(s, Len(s))
           n == Len(s)
<1>1. /\ n \in Nat /\ n >= 1 /\ Len(t) = n - 1
      /\ \A i \in 1 .. n - 1 : t[i] = s[i]
    BY NewestRemoved
<1>2. /\ \A i \in 1 .. n + 1 : Fair(h[i], r, ba)
      /\ \A c \in Covered(r) : h[n + 1][c] = st[c]
      /\ \A i \in 1 .. n : \A c \in Covered(r) :
            h[i][c] = IF c \in s[i].scope THEN s[i].saved[c] ELSE h[i + 1][c]
    BY DEF Unwinds
<1>3. \A c \in Covered(r) : h[n][c] = su[c]
    <2>1. n \in 1 .. n
        BY <1>1
    <2>2. QED
        BY <1>2, <2>1
<1> HIDE DEF t, n
<1>4. \A i \in 1 .. n : i \in 1 .. n + 1
    BY <1>1
<1>5. \A i \in 1 .. n - 1 : i \in 1 .. n /\ t[i] = s[i]
    BY <1>1
<1>6. Unwinds(h, t, su, r, ba)
    <2>1. (n - 1) + 1 = n
        BY <1>1
    <2>2. QED
        BY <1>1, <1>2, <1>3, <1>4, <1>5, <2>1 DEF Unwinds
<1>7. QED
    BY <1>6 DEF t

LEMMA FairNow ==
    ASSUME NEW h, NEW s \in Seq(Action), NEW st, NEW r, NEW ba, Unwinds(h, s, st, r, ba)
    PROVE  Fair(st, r, ba)
<1>1. Len(s) + 1 \in 1 .. Len(s) + 1
    OBVIOUS
<1>2. Fair(h[Len(s) + 1], r, ba) /\ \A c \in Covered(r) : st[c] = h[Len(s) + 1][c]
    BY <1>1 DEF Unwinds
<1>3. QED
    BY <1>2, FairSame

StaysSound == Sound(store) /\ Sound(base) => Sound(store') \/ "undo" \in excuse'

\* After a step in which the request goes on running.
LEMMA RunningIsSound ==
    ASSUME ApplyInv', SoundInv', Running', base' = base PROVE StaysSound
<1>1. CASE excuse' # {}
    BY <1>1 DEF SoundInv, StaysSound
<1>2. CASE excuse' = {}
    <2>1. PICK h : Unwinds(h, Acts', store', request', base')
        BY <1>2 DEF SoundInv
    <2>2. Acts' \in Seq(Action)
        BY DEF ApplyInv, ApplyTypes, Acts
    <2>3. Fair(store', request', base')
        BY <2>1, <2>2, FairNow
    <2>4. request' \in Requests /\ Ready(request', base')
        BY DEF ApplyInv, ApplyTypes, SoundInv
    <2>5. ASSUME NEW c \in Cells \ Covered(request') PROVE store'[c] = base'[c]
        <3>1. \A i \in DOMAIN Acts' : c \notin Acts'[i].scope
            BY <2>5 DEF ApplyInv, InScope, Covered
        <3>2. Kept(Acts', store', base')
            BY <1>2 DEF ApplyInv
        <3>3. QED
            BY <3>1, <3>2 DEF Kept
    <2>6. Sound(base') => Sound(store')
        BY <2>3, <2>4, <2>5, FairIsSound
    <2>7. QED
        BY <2>6 DEF StaysSound
<1>3. QED
    BY <1>1, <1>2

LEMMA BuildSound == ASSUME ApplyInv, SoundInv, Build PROVE SoundInv' /\ StaysSound
<1>1. /\ pc = "next" /\ todo # <<>> /\ Running /\ Forward /\ Acts = rollbacks
      /\ store' = store /\ base' = base /\ request' = request /\ excuse' = excuse
    BY DEF Build, Running, Forward, Acts
<1>2. /\ excuse = {} /\ Ops(todo) \subseteq Ops(request) /\ request \in Requests
      /\ todo \in Seq(Operations) /\ rollbacks \in Seq(Action)
      /\ store \in [Cells -> Values]
    BY <1>1 DEF ApplyInv, ApplyTypes
<1>3. InTurn /\ Ready(request, base)
    BY <1>1 DEF SoundInv
<1>4. PICK h : Unwinds(h, rollbacks, store, request, base)
    BY <1>1, <1>2 DEF SoundInv
<1>5. /\ Ops(todo) = {Head(todo)} \cup Ops(Tail(todo))
      /\ \A o \in Ops(Tail(todo)) : Rank(Head(todo)) <= Rank(o)
      /\ \A i, j \in 1 .. Len(Tail(todo)) : i < j => Rank(Tail(todo)[i]) <= Rank(Tail(todo)[j])
    BY <1>1, <1>2, <1>3, TakenInTurn DEF InTurn
<1>6. CASE /\ pc' = "apply" /\ own' = [scope |-> Head(todo).scope, saved |-> store]
           /\ left' = Head(todo).writes /\ todo' = Tail(todo) /\ rollbacks' = rollbacks
    <2> DEFINE a == [scope |-> Head(todo).scope, saved |-> store]
    <2>1. a \in Action /\ a.saved = store
        <3>1. Head(todo).scope \subseteq Cells
            BY <1>1, <1>2, <1>5, OperationsTyped
        <3>2. QED
            BY <1>2, <3>1 DEF Action
    <2> HIDE DEF a
    <2>2. \E g : Unwinds(g, Append(rollbacks, a), store, request, base)
        BY <1>2, <1>4, <2>1, UnwindsBuild
    <2>3. Acts' = Append(rollbacks, a)
        BY <1>6 DEF Acts, a
    <2>4. InTurn'
        <3>1. ASSUME NEW op \in Ops(request), NEW w \in Range(op.writes)
              PROVE  \/ op \in Ops(todo') \/ w \in Range(left')
                     \/ Asks(request, w.cell, store[w.cell])
            BY <1>1, <1>3, <1>5, <1>6 DEF InTurn
        <3>2. /\ Head(todo) \in Ops(request) /\ Range(left') \subseteq Range(Head(todo).writes)
              /\ \A o \in Ops(todo') : Rank(Head(todo)) <= Rank(o)
            BY <1>2, <1>5, <1>6
        <3>3. \A i, j \in 1 .. Len(todo') : i < j => Rank(todo'[i]) <= Rank(todo'[j])
            BY <1>5, <1>6
        <3>4. QED
            BY <1>1, <1>6, <3>1, <3>2, <3>3 DEF InTurn
    <2>5. QED
        BY <1>1, <1>2, <1>3, <2>2, <2>3, <2>4 DEF SoundInv, StaysSound
<1>7. CASE /\ pc' = "undo" /\ rollbacks' = Append(rollbacks, NoAction)
    <2>1. NoAction \in Action /\ NoAction.scope = {}
        BY DEF NoAction, Action
    <2>2. \E g : Unwinds(g, Append(rollbacks, NoAction), store, request, base)
        BY <1>2, <1>4, <2>1, UnwindsBuild
    <2>3. Acts' = Append(rollbacks, NoAction) /\ ~Forward'
        BY <1>7 DEF Acts, Forward
    <2>4. QED
        BY <1>1, <1>2, <1>3, <2>2, <2>3 DEF SoundInv, StaysSound
<1>8. QED
    BY <1>6, <1>7 DEF Build

LEMMA WriteSound == ASSUME ApplyInv, SoundInv, WriteOne PROVE SoundInv' /\ StaysSound
<1> DEFINE w == Head(left)
<1>1. /\ pc = "apply" /\ left # <<>> /\ Running /\ Forward
      /\ store' = [store EXCEPT ![w.cell] = w.value]
      /\ left' = Tail(left)
      /\ UNCHANGED <<todo, own, rollbacks, pc, request, base, excuse>>
    BY DEF WriteOne, Running, Forward
<1>2. /\ excuse = {} /\ request \in Requests /\ store \in [Cells -> Values]
      /\ rollbacks \in Seq(Action) /\ own \in Action /\ left \in Seq(Writes)
      /\ \A v \in Range(left) : v.cell \in own.scope \cap Touched(request)
      /\ \A c \in Cells \ Touched(request) : store[c] = base[c]
    BY <1>1 DEF ApplyInv, ApplyTypes
<1>3. InTurn /\ Ready(request, base)
    BY <1>1 DEF SoundInv
<1>4. PICK h : Unwinds(h, Append(rollbacks, own), store, request, base)
    BY <1>1, <1>2 DEF SoundInv, Acts
<1>5. /\ w \in Range(left) /\ w \in Writes
      /\ Range(left) = {w} \cup Range(Tail(left))
    <2>1. w \in Range(left) /\ w \in Writes /\ Range(Tail(left)) \subseteq Range(left)
        BY <1>1, <1>2, Taken
    <2>2. ASSUME NEW i \in DOMAIN left PROVE left[i] = w \/ left[i] \in Range(Tail(left))
        <3>1. /\ Len(left) \in Nat /\ DOMAIN left = 1 .. Len(left) /\ w = left[1]
              /\ DOMAIN Tail(left) = 1 .. Len(left) - 1
              /\ \A j \in 1 .. Len(left) - 1 : Tail(left)[j] = left[j + 1]
            BY <1>1, <1>2
        <3>2. i = 1 \/ (i - 1 \in DOMAIN Tail(left) /\ left[i] = Tail(left)[i - 1])
            BY <3>1
        <3>3. QED
            BY <3>1, <3>2 DEF Range
    <2>3. QED
        BY <2>1, <2>2 DEF Range
<1>6. PICK op \in Ops(request) :
          /\ Range(left) \subseteq Range(op.writes)
          /\ \A o \in Ops(todo) : Rank(op) <= Rank(o)
    BY <1>1, <1>3 DEF InTurn
<1>7. /\ op \in Operations /\ w \in Range(op.writes) /\ w.cell \in Written(op)
      /\ w.cell \in Cells /\ w.cell \in own.scope /\ Asks(request, w.cell, w.value)
    BY <1>2, <1>5, <1>6, RequestTyped DEF Asks, Touched
<1> HIDE DEF w
<1>8. /\ store'[w.cell] = w.value
      /\ \A c \in Cells : c # w.cell => store'[c] = store[c]
    BY <1>1, <1>2, <1>7
<1>9. Fair(store, request, base)
    <2>1. Append(rollbacks, own) \in Seq(Action)
        BY <1>2, Appended
    <2>2. QED
        BY <1>4, <2>1, FairNow
<1>10. \* what the write builds on is there
       ASSUME NEW b \in Builds, b.cell = w.cell, b.value = w.value, b.on \in Covered(request)
       PROVE  store'[b.on] \in b.in
    <2>1. /\ b.on \in Cells
          /\ \A v \in Writes : v.cell = b.on => v.value \in b.in
          /\ \A k \in Ops(request) : b.on \in Written(k) => Rank(k) < Rank(op)
        BY <1>2, <1>6, <1>7, <1>10, BuildsAssumption
    <2>2. CASE b.on = w.cell
        BY <1>5, <1>8, <2>1, <2>2
    <2>3. CASE b.on # w.cell /\ b.on \in Touched(request)
        <3>1. PICK k \in Ops(request) : b.on \in Written(k)
            BY <2>3 DEF Touched
        <3>2. PICK v \in Range(k.writes) : v.cell = b.on
            BY <3>1 DEF Written
        <3>3. Rank(k) < Rank(op) /\ Rank(op) \in Nat /\ Rank(k) \in Nat
            BY <1>2, <1>7, <2>1, <3>1, RankTyped, RequestTyped
        <3>4. k \notin Ops(todo)
            BY <1>6, <3>3
        <3>5. v \notin Range(left)
            <4>1. SUFFICES ASSUME v \in Range(op.writes) PROVE FALSE
                BY <1>6
            <4>2. b.on \in Written(op)
                BY <3>2, <4>1 DEF Written
            <4>3. Rank(op) < Rank(op)
                BY <2>1, <4>2
            <4>4. QED
                BY <3>3, <4>3
        <3>6. Asks(request, b.on, store[b.on])
            BY <1>3, <3>1, <3>2, <3>4, <3>5 DEF InTurn
        <3>7. store[b.on] \in b.in
            BY <1>2, <2>1, <3>6, RequestTyped DEF Asks
        <3>8. QED
            BY <1>8, <2>1, <2>3, <3>7
    <2>4. CASE b.on \notin Touched(request)
        <3>1. base[b.on] \in b.in
            BY <1>3, <1>7, <1>10, <2>4 DEF Ready
        <3>2. b.on # w.cell
            BY <1>2, <1>5, <2>4
        <3>3. QED
            BY <1>2, <1>8, <2>1, <2>4, <3>1, <3>2
    <2>5. QED
        BY <2>2, <2>3, <2>4
<1>11. Fair(store', request, base)
    <2>1. Covered(request) \subseteq Cells
        BY <1>2, RequestTyped
    <2>2. ASSUME NEW c \in Covered(request)
          PROVE  store'[c] = base[c] \/ Asks(request, c, store'[c])
        BY <1>7, <1>8, <1>9, <2>1 DEF Fair
    <2>3. ASSUME NEW c \in Covered(request), NEW b \in Builds, b.cell = c,
                 store'[c] = b.value, base[c] # b.value, b.on \in Covered(request)
          PROVE  store'[b.on] \in b.in
        <3>1. CASE c = w.cell
            BY <1>8, <1>10, <2>3, <3>1
        <3>2. CASE c # w.cell
            <4>1. store[b.on] \in b.in
                BY <1>8, <1>9, <2>1, <2>3, <3>2 DEF Fair
            <4>2. b.on = w.cell => w.value \in b.in
                BY <1>5, BuildsAssumption
            <4>3. QED
                BY <1>8, <2>1, <2>3, <4>1, <4>2
        <3>3. QED
            BY <3>1, <3>2
    <2>4. QED
        BY <2>2, <2>3 DEF Fair
<1>12. \E g : Unwinds(g, Append(rollbacks, own), store', request, base)
    <2>1. \A c \in Covered(request) : store'[c] = store[c] \/ c \in own.scope
        BY <1>2, <1>7, <1>8, RequestTyped
    <2>2. QED
        BY <1>2, <1>4, <1>11, <2>1, UnwindsWrite
<1>13. InTurn'
    <2>1. ASSUME NEW o \in Ops(request), NEW v \in Range(o.writes)
          PROVE  \/ o \in Ops(todo) \/ v \in Range(left')
                 \/ Asks(request, v.cell, store'[v.cell])
        <3>1. \/ o \in Ops(todo) \/ v \in Range(left)
              \/ Asks(request, v.cell, store[v.cell])
            BY <1>3 DEF InTurn
        <3>2. v.cell \in Cells
            BY <1>2, RequestTyped DEF Touched
        <3>3. CASE v \in Range(left)
            <4>1. v = w \/ v \in Range(left')
                BY <1>1, <1>5, <3>3
            <4>2. QED
                BY <1>7, <1>8, <4>1
        <3>4. CASE Asks(request, v.cell, store[v.cell])
            BY <1>7, <1>8, <3>2, <3>4
        <3>5. QED
            BY <3>1, <3>3, <3>4
    <2>2. Range(left') \subseteq Range(op.writes)
        BY <1>1, <1>5, <1>6
    <2>3. \A i, j \in 1 .. Len(todo) : i < j => Rank(todo[i]) <= Rank(todo[j])
        BY <1>3 DEF InTurn
    <2>4. QED
        BY <1>1, <1>6, <2>1, <2>2, <2>3 DEF InTurn
<1>14. SoundInv' /\ Running'
    <2>1. Acts' = Append(rollbacks, own) /\ Running'
        BY <1>1 DEF Acts, Running
    <2>2. QED
        BY <1>1, <1>2, <1>3, <1>12, <1>13, <2>1 DEF SoundInv
<1>15. ApplyInv'
    BY WriteStep
<1>16. QED
    BY <1>1, <1>14, <1>15, RunningIsSound

LEMMA EndSound ==
    ASSUME ApplyInv, SoundInv, Applied \/ ApplyThrows \/ Verify
    PROVE  SoundInv' /\ StaysSound
<1>1. /\ Running /\ Forward /\ store' = store /\ request' = request
    BY DEF Applied, ApplyThrows, Verify, Running, Forward
<1>2. excuse = {} /\ InTurn /\ Ready(request, base)
    BY <1>1 DEF ApplyInv, SoundInv
<1>3. \E h : Unwinds(h, Acts, store, request, base)
    BY <1>1, <1>2 DEF SoundInv
<1>4. CASE Applied
    <2>1. /\ Acts' = Acts /\ base' = base /\ pc' = "next" /\ pc = "apply"
          /\ left = <<>> /\ todo' = todo /\ excuse' = excuse
        BY <1>4 DEF Applied, Acts
    <2>2. Range(left) = {}
        BY <2>1 DEF Range
    <2>3. InTurn'
        BY <1>1, <1>2, <2>1, <2>2 DEF InTurn
    <2>4. QED
        BY <1>1, <1>2, <1>3, <2>1, <2>3 DEF SoundInv, StaysSound
<1>5. CASE ApplyThrows
    <2>1. Acts' = Acts /\ base' = base /\ excuse' = excuse /\ ~Forward'
        BY <1>5 DEF ApplyThrows, AndOwn, Acts, Forward
    <2>2. QED
        BY <1>1, <1>2, <1>3, <2>1 DEF SoundInv, StaysSound
<1>6. CASE Verify
    <2>1. \/ ~Running' /\ ~Forward'
          \/ Acts' = Acts /\ base' = base /\ excuse' = excuse /\ ~Forward'
        BY <1>6 DEF Verify, Running, Forward, Acts
    <2>2. QED
        BY <1>1, <1>2, <1>3, <2>1 DEF SoundInv, StaysSound
<1>7. QED
    BY <1>4, <1>5, <1>6

LEMMA RollbackSound == ASSUME ApplyInv, SoundInv, RunRollback PROVE SoundInv' /\ StaysSound
<1>1. /\ pc = "undo" /\ pc' = "undo" /\ rollbacks # <<>> /\ Acts = rollbacks
      /\ Running /\ Running' /\ ~Forward' /\ Acts' = rollbacks'
      /\ rollbacks' = RemoveAt(rollbacks, Len(rollbacks))
      /\ request' = request /\ base' = base
    BY DEF RunRollback, Turn, Newest, Acts, Running, Forward
<1>2. Ready(request, base) /\ excuse \subseteq {"undo"}
    BY <1>1 DEF SoundInv
<1>3. /\ request \in Requests /\ rollbacks \in Seq(Action)
    BY <1>1 DEF ApplyInv, ApplyTypes
<1>4. excuse' = excuse \/ excuse' = excuse \cup {"undo"}
    BY DEF RunRollback
<1>5. ASSUME excuse' = {} PROVE \E h : Unwinds(h, Acts', store', request, base)
    <2>1. excuse = {} /\ "undo" \notin excuse'
        BY <1>4, <1>5
    <2>2. PICK h : Unwinds(h, rollbacks, store, request, base)
        BY <1>1, <2>1 DEF SoundInv
    <2>3. store' = Restored(rollbacks[Len(rollbacks)], rollbacks[Len(rollbacks)].scope)
        BY <2>1 DEF RunRollback, Turn, Newest
    <2>4. \A c \in Covered(request) :
              store'[c] = IF c \in rollbacks[Len(rollbacks)].scope
                          THEN rollbacks[Len(rollbacks)].saved[c] ELSE store[c]
        BY <1>3, <2>3, RequestTyped DEF Restored
    <2>5. Unwinds(h, RemoveAt(rollbacks, Len(rollbacks)), store', request, base)
        BY <1>1, <1>3, <2>2, <2>4, UnwindsUndo
    <2>6. QED
        BY <1>1, <2>5
<1>6. SoundInv'
    <2>1. excuse' \subseteq {"undo"}
        BY <1>2, <1>4
    <2>2. QED
        BY <1>1, <1>2, <1>5, <2>1 DEF SoundInv
<1>7. ApplyInv'
    BY RollbackStep
<1>8. QED
    BY <1>1, <1>6, <1>7, RunningIsSound

LEMMA OthersSound ==
    ASSUME FilesApart, ApplyInv, SoundInv, OthersWrite PROVE SoundInv' /\ StaysSound
<1>1. PICK w \in Others :
          /\ Running => \A op \in Ops(request) : w.cell \notin op.scope
          /\ store' = [store EXCEPT ![w.cell] = w.value]
          /\ base' = [base EXCEPT ![w.cell] = w.value]
    BY DEF OthersWrite, FilesApart
<1>2. /\ pc # "apply" /\ UNCHANGED <<todo, left, own, rollbacks, pc, request, excuse>>
      /\ store \in [Cells -> Values] /\ base \in [Cells -> Values]
      /\ Running' = Running /\ Forward' = Forward /\ Acts' = Acts
    BY DEF OthersWrite, ApplyInv, ApplyTypes, Running, Forward, Acts
<1>3. \A c \in Cells :
          /\ store'[c] = IF c = w.cell THEN w.value ELSE store[c]
          /\ base'[c] = IF c = w.cell THEN w.value ELSE base[c]
    BY <1>1, <1>2
<1>4. \A b \in Builds :
          /\ b.cell \in Cells /\ b.on \in Cells
          /\ b.on = w.cell => w.value \in b.in
          /\ b.cell = w.cell => w.value # b.value
    BY BuildsAssumption
<1>5. StaysSound
    BY <1>3, <1>4 DEF StaysSound, Sound
<1>6. CASE Running
    <2>1. request \in Requests /\ Ready(request, base) /\ excuse' \subseteq {"undo"}
        BY <1>2, <1>6 DEF ApplyInv, ApplyTypes, SoundInv
    <2>2. Covered(request) \subseteq Cells /\ w.cell \notin Covered(request)
        BY <1>1, <1>6, <2>1, RequestTyped DEF Covered
    <2>3. \A c \in Covered(request) : store'[c] = store[c] /\ base'[c] = base[c]
        BY <1>3, <2>2
    <2>4. Ready(request, base')
        BY <1>3, <1>4, <2>1 DEF Ready
    <2>5. ASSUME excuse = {} PROVE \E h : Unwinds(h, Acts', store', request, base')
        <3>1. PICK h : Unwinds(h, Acts, store, request, base)
            BY <1>6, <2>5 DEF SoundInv
        <3>2. \A i \in 1 .. Len(Acts) + 1 : Fair(h[i], request, base')
            BY <2>3, <3>1, FairSame DEF Unwinds
        <3>3. Unwinds(h, Acts, store', request, base')
            BY <2>3, <3>1, <3>2 DEF Unwinds
        <3>4. QED
            BY <1>2, <3>3
    <2>6. ASSUME Forward PROVE InTurn'
        <3>1. InTurn
            BY <2>6 DEF SoundInv
        <3>2. \A op \in Ops(request) : \A v \in Range(op.writes) : store'[v.cell] = store[v.cell]
            BY <2>1, <2>3, RequestTyped DEF Touched
        <3>3. QED
            BY <1>2, <3>1, <3>2 DEF InTurn
    <2>7. QED
        BY <1>2, <1>5, <2>1, <2>4, <2>5, <2>6 DEF SoundInv
<1>7. CASE ~Running
    BY <1>2, <1>5, <1>7 DEF SoundInv, Running, Forward
<1>8. QED
    BY <1>6, <1>7

LEMMA StartSound ==
    ASSUME ApplyInv, NEW r \in Requests, Start(r) PROVE SoundInv' /\ StaysSound
<1>1. /\ ~Running /\ rollbacks' = <<>> /\ request' = r /\ base' = store /\ excuse' = {}
      /\ store' = store /\ Provided(r)
    BY DEF Start, ApplyInv
<1>2. StaysSound
    BY <1>1 DEF StaysSound
<1>3. CASE pc' = "next" /\ todo' \in Ordered(r)
    <2>1. Acts' = <<>> /\ Len(<<>>) = 0
        BY <1>1, <1>3 DEF Acts
    <2>2. Fair(store, r, store)
        BY DEF Fair
    <2>3. \E h : Unwinds(h, Acts', store', r, base')
        <3> DEFINE h == [i \in 1 .. 1 |-> store]
        <3>1. h[1] = store /\ \A i \in 1 .. 1 : h[i] = store
            OBVIOUS
        <3> HIDE DEF h
        <3>2. Unwinds(h, <<>>, store, r, store)
            BY <2>1, <2>2, <3>1 DEF Unwinds
        <3>3. QED
            BY <1>1, <2>1, <3>2
    <2>4. Ready(r, store)
        BY <1>1 DEF Provided, Ready
    <2>5. InTurn'
        BY <1>1, <1>3, OrderedWhole DEF InTurn
    <2>6. QED
        BY <1>1, <1>2, <2>3, <2>4, <2>5 DEF SoundInv
<1>4. CASE pc' = "refused"
    BY <1>2, <1>4 DEF SoundInv, Running, Forward
<1>5. QED
    BY <1>3, <1>4 DEF Start

LEMMA SoundNext ==
    ASSUME FilesApart, ApplyInv, SoundInv, [Next]_vars PROVE SoundInv' /\ StaysSound
<1>1. CASE RolledBack
    BY <1>1 DEF RolledBack, SoundInv, StaysSound, Running, Forward
<1>2. CASE Transact
    BY <1>1, <1>2, BuildSound, WriteSound, EndSound, RollbackSound, OthersSound DEF Transact
<1>3. CASE UNCHANGED transaction
    <2>1. SoundInv'
        BY <1>3 DEF transaction, SoundInv, InTurn, Running, Forward, Acts
    <2>2. QED
        BY <1>3, <2>1 DEF transaction, StaysSound
<1>4. CASE Apply
    BY <1>4, StartSound DEF Apply
<1>5. CASE Crash
    <2>1. ~Running' /\ ~Forward' /\ store' = store
        BY <1>5 DEF Crash, Die, Running, Forward
    <2>2. QED
        BY <2>1 DEF SoundInv, StaysSound
<1>6. QED
    BY <1>2, <1>3, <1>4, <1>5
    DEF Next, vars, Launch, Welcome, OpenByCommand, StepKey, Continue, Escape, ApplyReturns,
        CheckFails, MarkDone, Activated

(* At no moment, so wherever the process dies, is a setting in effect       *)
(* without what it builds on, unless a rollback has failed: neither while a *)
(* request is applied nor half way through its undoing (apply.ts:113-123,   *)
(* 442-470).                                                                *)
THEOREM NothingStandsAlone == ASSUME FilesApart PROVE Spec => SoundAtAnyMoment
<1>1. Init => ApplyInv /\ SoundInv
    BY ApplyInit DEF Init, TransactionInit, SoundInv, Running, Forward
<1>2. ApplyInv /\ SoundInv /\ [Next]_vars => ApplyInv' /\ SoundInv' /\ [StaysSound]_transaction
    BY ApplyNext, SoundNext
<1>3. QED
    BY <1>1, <1>2, PTL DEF Spec, SoundAtAnyMoment, StaysSound
=============================================================================
