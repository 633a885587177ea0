------------------------ MODULE SelectionQueueProofs ------------------------
(***************************************************************************)
(* For any set of callers and any queue limit: the callback slot belongs to *)
(* the modal on screen, a waiting queue always has a drain on its way, and  *)
(* the modal with its queue implements the desk of CallerDesk.              *)
(***************************************************************************)
EXTENDS SelectionQueue, FiniteSetTheorems, SequenceTheorems, TLAPS

IInv == TypeOK /\ SlotBelongsToShown /\ NoStrandedQueue

USE NoRequestAssumption, MaxQueuedAssumption

(* A drain that is appended last is in the queue. *)
LEMMA LastIsIn ==
    ASSUME NEW S, NEW s \in Seq(S), NEW x \in S
    PROVE  x \in ToSet(s \o <<x>>)
<1>1. s \o <<x>> \in Seq(S) /\ Len(s \o <<x>>) = Len(s) + 1
    OBVIOUS
<1>2. (s \o <<x>>)[Len(s) + 1] = x
    OBVIOUS
<1>3. QED
    BY <1>1, <1>2 DEF ToSet

(* openSelection keeps the invariant's three facts about the modal. *)
LEMMA RequestModalKeeps ==
    ASSUME TypeOK, SlotBelongsToShown, NEW r \in Requests, RequestModal(r)
    PROVE  /\ showing' \in Requests \cup {NoRequest}
           /\ slot' \in Requests \cup {NoRequest}
           /\ pending' \in Seq(Requests) /\ Len(pending') <= MaxQueued
           /\ answers' \in [Requests -> Nat]
           /\ SlotBelongsToShown'
           /\ showing' # NoRequest
<1>1. CASE showing # NoRequest /\ Len(pending) >= MaxQueued
    BY <1>1 DEF RequestModal, TypeOK, SlotBelongsToShown, Answer
<1>2. CASE showing # NoRequest /\ Len(pending) < MaxQueued
    <2>1. /\ pending' = Append(pending, r)
          /\ showing' = showing /\ slot' = slot /\ answers' = answers
        BY <1>2 DEF RequestModal, TypeOK
    <2>2. pending \in Seq(Requests)
        BY DEF TypeOK
    <2>3. pending' \in Seq(Requests) /\ Len(pending') = Len(pending) + 1
        BY <2>1, <2>2
    <2>4. Len(pending) \in Nat
        BY <2>2
    <2>5. QED
        BY <1>2, <2>1, <2>3, <2>4 DEF TypeOK, SlotBelongsToShown
<1>3. CASE showing = NoRequest
    BY <1>3 DEF RequestModal, TypeOK, SlotBelongsToShown
<1>4. QED
    BY <1>1, <1>2, <1>3 DEF TypeOK

(* Resolving the modal keeps the types and leaves a drain when it closed.   *)
LEMMA ResolveKeeps ==
    ASSUME TypeOK, NEW chained \in Requests \cup {NoRequest},
           NEW later \in Continuations, Resolve(chained, later)
    PROVE  /\ showing' = chained
           /\ pending' = pending
           /\ microtasks' \in Seq(Requests \cup {Drain})
           /\ answers' \in [Requests -> Nat]
           /\ issued' \subseteq Requests
           /\ exited' \in BOOLEAN
           /\ chained = NoRequest => Drain \in ToSet(microtasks')
<1>1. later \in Seq(Requests) /\ ToSet(later) \subseteq Requests
    <2>1. CASE later = <<>>
        BY <2>1 DEF ToSet
    <2>2. CASE \E r \in Requests : later = <<r>>
        BY <2>2 DEF ToSet
    <2>3. QED
        BY <2>1, <2>2 DEF Continuations
<1>2. later \in Seq(Requests \cup {Drain})
    BY <1>1
<1>3. chained = NoRequest => Drain \in ToSet(microtasks')
    BY <1>2, LastIsIn DEF Resolve, DrainIfClosed
<1>4. microtasks' \in Seq(Requests \cup {Drain})
    <2>1. DrainIfClosed(chained) \in Seq(Requests \cup {Drain})
        <3>1. <<>> \in Seq(Requests \cup {Drain})
            OBVIOUS
        <3>2. <<Drain>> \in Seq(Requests \cup {Drain})
            OBVIOUS
        <3>3. QED
            BY <3>1, <3>2, Zenon DEF DrainIfClosed
    <2>2. QED
        BY <1>2, <2>1 DEF Resolve
<1>5. QED
    BY <1>1, <1>3, <1>4 DEF Resolve, TypeOK, Answer

(* The invariant holds initially. *)
LEMMA InitEstablishes == Init => IInv
<1> SUFFICES ASSUME Init PROVE IInv
    OBVIOUS
<1>1. pending \in Seq(Requests) /\ Len(pending) <= MaxQueued
    BY DEF Init
<1>2. microtasks \in Seq(Requests \cup {Drain})
    BY DEF Init
<1>3. QED
    BY <1>1, <1>2 DEF Init, IInv, TypeOK, SlotBelongsToShown, NoStrandedQueue

(* Every step keeps it. *)
LEMMA StepKeeps == IInv /\ [Next]_vars => IInv'
<1> SUFFICES ASSUME IInv, [Next]_vars PROVE IInv'
    OBVIOUS
<1> USE DEF IInv
<1>1. ASSUME NEW r \in Requests, OpenSelection(r) PROVE IInv'
    <2>1. RequestModal(r) /\ microtasks' = microtasks /\ exited' = exited
          /\ issued' = issued \cup {r}
        BY <1>1 DEF OpenSelection
    <2>2. QED
        BY <2>1, RequestModalKeeps DEF TypeOK, NoStrandedQueue
<1>2. CASE Select
    <2>1. PICK chained \in (Requests \ issued) \cup {NoRequest},
               later \in Continuations :
                 Resolve(chained, later) /\ slot' = SlotAfterSelect(chained)
        BY <1>2 DEF Select
    <2>2. chained \in Requests \cup {NoRequest}
        OBVIOUS
    <2>3. SlotBelongsToShown' /\ slot' \in Requests \cup {NoRequest}
        BY <2>1, <2>2, ResolveKeeps DEF SlotAfterSelect, SlotBelongsToShown, TypeOK
    <2>4. QED
        BY <2>1, <2>2, <2>3, ResolveKeeps DEF TypeOK, NoStrandedQueue
<1>3. CASE Escape
    <2>1. PICK later \in Continuations : Resolve(NoRequest, later) /\ slot' = slot
        BY <1>3 DEF Escape
    <2>2. NoRequest \in Requests \cup {NoRequest}
        OBVIOUS
    <2>3. QED
        BY <2>1, <2>2, ResolveKeeps DEF TypeOK, SlotBelongsToShown, NoStrandedQueue
<1>4. CASE RunMicrotask
    <2>1. /\ microtasks # <<>>
          /\ microtasks' = Tail(microtasks)
          /\ microtasks' \in Seq(Requests \cup {Drain})
          /\ issued' = issued /\ exited' = exited
        BY <1>4 DEF RunMicrotask, TypeOK
    <2>2. CASE Head(microtasks) = Drain /\ DrainQueue /\ answers' = answers
        <3>1. CASE showing # NoRequest \/ pending = <<>>
            BY <2>1, <2>2, <3>1 DEF DrainQueue, TypeOK, SlotBelongsToShown, NoStrandedQueue
        <3>2. CASE showing = NoRequest /\ pending # <<>>
            <4>1. pending \in Seq(Requests) /\ Len(pending) \in Nat
                BY DEF TypeOK
            <4>2. /\ Head(pending) \in Requests
                  /\ Tail(pending) \in Seq(Requests)
                  /\ Len(Tail(pending)) = Len(pending) - 1
                BY <3>2, <4>1
            <4>3. Len(Tail(pending)) <= MaxQueued
                BY <4>1, <4>2 DEF TypeOK
            <4>4. showing' = Head(pending) /\ slot' = Head(pending) /\ pending' = Tail(pending)
                BY <2>2, <3>2 DEF DrainQueue
            <4>5. QED
                BY <2>1, <2>2, <4>2, <4>3, <4>4
                DEF TypeOK, SlotBelongsToShown, NoStrandedQueue
        <3>3. QED
            BY <3>1, <3>2
    <2>3. CASE Head(microtasks) # Drain /\ RequestModal(Head(microtasks))
        <3>1. Head(microtasks) \in Requests
            BY <2>1, <2>3 DEF TypeOK
        <3>2. QED
            BY <2>1, <2>3, <3>1, RequestModalKeeps DEF TypeOK, NoStrandedQueue
    <2>4. QED
        BY <1>4, <2>2, <2>3 DEF RunMicrotask
<1>5. CASE ExitApp
    BY <1>5 DEF ExitApp, ClearOnExit, Answer, TypeOK, SlotBelongsToShown, NoStrandedQueue
<1>6. CASE UNCHANGED vars
    BY <1>6 DEF vars, TypeOK, SlotBelongsToShown, NoStrandedQueue
<1>7. QED
    BY <1>1, <1>2, <1>3, <1>4, <1>5, <1>6 DEF Next

(* The invariant in every reachable state. *)
LEMMA Invariance == Spec => []IInv
<1>1. QED
    BY InitEstablishes, StepKeeps, PTL DEF Spec

(* A key pressed in the open modal always reaches the caller whose rows are *)
(* shown, for any number of callers and any queue limit.                    *)
THEOREM ShownOwnsSlot == Spec => []SlotBelongsToShown
<1>1. IInv => SlotBelongsToShown
    BY DEF IInv
<1>2. QED
    BY <1>1, Invariance, PTL

(* Requests never wait behind a closed modal without a drain on its way.   *)
THEOREM QueueIsDrained == Spec => []NoStrandedQueue
<1>1. IInv => NoStrandedQueue
    BY DEF IInv
<1>2. QED
    BY <1>1, Invariance, PTL
-----------------------------------------------------------------------------
(***************************************************************************)
(* Where a request can be.  Between two tasks a request is nowhere, on      *)
(* screen or queued, scheduled by a continuation, or answered: never in two *)
(* of these places, and never nowhere once its call was made.               *)
(***************************************************************************)
Scheduled == ToSet(microtasks) \ {Drain}
Distinct(s) == \A i, j \in DOMAIN s : s[i] = s[j] => i = j

\* The resolving task schedules at most one continuation, and the drain last.
OneRequestOrDrain ==
    \/ microtasks = <<>>
    \/ microtasks = <<Drain>>
    \/ \E r \in Requests : microtasks = <<r>> \/ microtasks = <<r, Drain>>

EachInOnePlace ==
    /\ \A r \in Requests : answers[r] \in {0, 1}
    /\ \A r \in Requests : answers[r] = 1 => ~InLine(r) /\ r \notin Scheduled
    /\ \A r \in Requests : InLine(r) => r \notin Scheduled
    /\ \A r \in Requests :
        r \in issued <=> answers[r] = 1 \/ InLine(r) \/ r \in Scheduled
    /\ showing \notin ToSet(pending)
    /\ Distinct(pending)

PlaceInv == IInv /\ OneRequestOrDrain /\ EachInOnePlace

USE DrainAssumption

(* Appending to a queue adds one request and no duplicate. *)
LEMMA AppendedQueue ==
    ASSUME NEW S, NEW q \in Seq(S), NEW r \in S
    PROVE  /\ ToSet(Append(q, r)) = ToSet(q) \cup {r}
           /\ Distinct(q) /\ r \notin ToSet(q) => Distinct(Append(q, r))
<1> DEFINE p == Append(q, r)
<1>1. /\ p \in Seq(S) /\ Len(p) = Len(q) + 1 /\ Len(q) \in Nat
      /\ DOMAIN p = 1 .. Len(q) + 1 /\ DOMAIN q = 1 .. Len(q)
      /\ \A i \in 1 .. Len(q) : p[i] = q[i]
      /\ p[Len(q) + 1] = r
    OBVIOUS
<1> HIDE DEF p
<1>2. ToSet(p) = ToSet(q) \cup {r}
    BY <1>1 DEF ToSet
<1>3. ASSUME Distinct(q), r \notin ToSet(q) PROVE Distinct(p)
    BY <1>1, <1>3 DEF ToSet, Distinct
<1>4. QED
    BY <1>2, <1>3 DEF p

(* Taking the oldest off a queue without duplicates leaves all the others.  *)
LEMMA OldestTaken ==
    ASSUME NEW S, NEW q \in Seq(S), q # <<>>
    PROVE  /\ ToSet(q) = {Head(q)} \cup ToSet(Tail(q))
           /\ Distinct(q) => Head(q) \notin ToSet(Tail(q)) /\ Distinct(Tail(q))
<1> DEFINE p == Tail(q)
<1>1. /\ Len(q) \in Nat /\ Len(q) >= 1
      /\ DOMAIN p = 1 .. Len(q) - 1 /\ DOMAIN q = 1 .. Len(q)
      /\ \A i \in 1 .. Len(q) - 1 : p[i] = q[i + 1]
      /\ Head(q) = q[1]
    OBVIOUS
<1> HIDE DEF p
<1>2. ToSet(q) \subseteq {Head(q)} \cup ToSet(p)
    <2> SUFFICES ASSUME NEW i \in 1 .. Len(q), i # 1 PROVE q[i] \in ToSet(p)
        BY <1>1 DEF ToSet
    <2>1. i - 1 \in 1 .. Len(q) - 1 /\ p[i - 1] = q[i]
        BY <1>1
    <2>2. QED
        BY <1>1, <2>1 DEF ToSet
<1>3. {Head(q)} \cup ToSet(p) \subseteq ToSet(q)
    BY <1>1 DEF ToSet
<1>4. ASSUME Distinct(q) PROVE Head(q) \notin ToSet(p) /\ Distinct(p)
    <2>1. ASSUME NEW i \in 1 .. Len(q) - 1 PROVE p[i] # Head(q)
        <3>1. 1 \in DOMAIN q /\ i + 1 \in DOMAIN q /\ i + 1 # 1
            BY <1>1
        <3>2. q[i + 1] # q[1]
            BY <1>4, <3>1 DEF Distinct
        <3>3. QED
            BY <1>1, <3>2
    <2>2. ASSUME NEW i \in 1 .. Len(q) - 1, NEW j \in 1 .. Len(q) - 1, p[i] = p[j]
          PROVE  i = j
        <3>1. i + 1 \in DOMAIN q /\ j + 1 \in DOMAIN q /\ q[i + 1] = q[j + 1]
            BY <1>1, <2>2
        <3>2. i + 1 = j + 1
            BY <1>4, <3>1 DEF Distinct
        <3>3. QED
            BY <3>2
    <2>3. QED
        BY <1>1, <2>1, <2>2 DEF ToSet, Distinct
<1>5. QED
    BY <1>2, <1>3, <1>4 DEF p

(* No more callers wait than the queue holds, and the one on screen. *)
LEMMA RoomForWaiting ==
    ASSUME NEW q \in Seq(Requests), NEW top, NEW n \in Nat, Len(q) <= n,
           NEW W, W \subseteq {top} \cup ToSet(q)
    PROVE  Cardinality(W) <= n + 1
<1>0. Len(q) \in Nat
    OBVIOUS
<1>1. IsFiniteSet(1 .. Len(q)) /\ Cardinality(1 .. Len(q)) = Len(q)
    <2>1. 1 \in Int /\ Len(q) \in Int
        BY <1>0
    <2>2. /\ IsFiniteSet(1 .. Len(q))
          /\ Cardinality(1 .. Len(q)) = IF 1 > Len(q) THEN 0 ELSE Len(q) - 1 + 1
        BY ONLY <2>1, FS_Interval, Zenon
    <2>3. QED
        BY <1>0, <2>2
<1>2. IsFiniteSet(ToSet(q)) /\ Cardinality(ToSet(q)) <= Len(q)
    <2> DEFINE f == [i \in 1 .. Len(q) |-> q[i]]
    <2>1. f \in Surjection(1 .. Len(q), ToSet(q))
        BY DEF Surjection, ToSet
    <2> HIDE DEF f
    <2>2. QED
        BY <1>1, <2>1, FS_Surjection
<1>3. /\ IsFiniteSet(ToSet(q) \cup {top})
      /\ Cardinality(ToSet(q) \cup {top}) <= Cardinality(ToSet(q)) + 1
      /\ Cardinality(ToSet(q)) \in Nat
    <2>1. Cardinality(ToSet(q)) \in Nat
        BY <1>2, FS_CardinalityType
    <2>2. /\ IsFiniteSet(ToSet(q) \cup {top})
          /\ Cardinality(ToSet(q) \cup {top})
               = IF top \in ToSet(q) THEN Cardinality(ToSet(q))
                                    ELSE Cardinality(ToSet(q)) + 1
        BY ONLY <1>2, FS_AddElement, Zenon
    <2>3. QED
        BY <2>1, <2>2
<1>4. Cardinality(W) <= Cardinality(ToSet(q) \cup {top})
      /\ Cardinality(W) \in Nat /\ Cardinality(ToSet(q) \cup {top}) \in Nat
    BY <1>3, FS_Subset, FS_CardinalityType
<1>5. QED
    BY <1>0, <1>2, <1>3, <1>4

(* The desk of CallerDesk reads a request's place.                          *)
Placed(r) ==
    /\ Standing(r) = "answered" <=> answers[r] = 1
    /\ Standing(r) = "waiting" <=> InLine(r)
    /\ Standing(r) = "away" <=> answers[r] = 0 /\ ~InLine(r)

LEMMA StandingIsPlace == EachInOnePlace => \A r \in Requests : Placed(r)
<1> SUFFICES ASSUME EachInOnePlace, NEW r \in Requests PROVE Placed(r)
    OBVIOUS
<1>1. answers[r] \in {0, 1} /\ (answers[r] = 1 => ~InLine(r))
    BY DEF EachInOnePlace
<1>2. r \in issued /\ answers[r] = 0 /\ ~InLine(r) => r \in ToSet(microtasks)
    BY DEF EachInOnePlace, Scheduled
<1>3. CASE answers[r] = 1
    BY <1>1, <1>3 DEF Standing, Placed
<1>4. CASE answers[r] = 0 /\ InLine(r)
    <2>1. Standing(r) = "waiting"
        BY <1>4 DEF Standing
    <2>2. QED
        BY <1>4, <2>1 DEF Placed
<1>5. CASE answers[r] = 0 /\ ~InLine(r)
    <2>1. Standing(r) = "away"
        BY <1>2, <1>5 DEF Standing
    <2>2. QED
        BY <1>5, <2>1 DEF Placed
<1>6. QED
    BY <1>1, <1>3, <1>4, <1>5

LEMMA StandingIsPlaceNext == EachInOnePlace' => (\A r \in Requests : Placed(r))'
    BY StandingIsPlace, PTL

(* What a step may do to the callers while the program runs. *)
CallersKept ==
    /\ \A r \in Requests : answers[r] = 1 => answers'[r] = 1
    /\ \A r \in Requests : InLine(r) => InLine(r)' \/ answers'[r] = 1
    /\ \A r, s \in Requests :
        /\ answers[r] = 0 /\ answers'[r] = 1
        /\ answers[s] = 0 /\ answers'[s] = 1
        => r = s

(* Such a step is one of the desk, which never takes in more than its room. *)
LEMMA KeptIsServed ==
    ASSUME PlaceInv, PlaceInv', ~exited, exited' = exited, CallersKept
    PROVE  Desk!Serve
<1>1. /\ \A r \in Requests : Placed(r)
      /\ \A r \in Requests : Placed(r)'
    BY StandingIsPlace, StandingIsPlaceNext DEF PlaceInv
<1>2. \A r \in Requests : answers[r] \in {0, 1} /\ answers'[r] \in {0, 1}
    BY DEF PlaceInv, EachInOnePlace
<1>3. \A r \in Requests : Desk!Stays(r) \/ Desk!Calls(r) \/ Desk!IsAnswered(r)
    BY <1>1, <1>2 DEF Desk!Stays, Desk!Calls, Desk!IsAnswered, Placed, CallersKept
<1>4. \A r, s \in Requests : Desk!IsAnswered(r) /\ Desk!IsAnswered(s) => r = s
    BY <1>1, <1>2 DEF Desk!IsAnswered, Placed, CallersKept
<1>5. Desk!Cardinality(Desk!Waiting') <= MaxQueued + 1
    <2>1. Desk!Waiting' \subseteq {showing'} \cup ToSet(pending')
        BY <1>1 DEF Desk!Waiting, Placed, InLine
    <2>2. pending' \in Seq(Requests) /\ Len(pending') <= MaxQueued
        BY DEF PlaceInv, IInv, TypeOK
    <2>3. Cardinality(Desk!Waiting') <= MaxQueued + 1
        BY <2>1, <2>2, RoomForWaiting
    <2>4. Cardinality(Desk!Waiting') = Desk!Cardinality(Desk!Waiting')
        BY DEF Cardinality, Desk!Cardinality
    <2>5. QED
        BY <2>3, <2>4
<1>6. QED
    BY <1>3, <1>4, <1>5 DEF Desk!Serve

(* openSelection answers the new caller at once or puts it in the line, and *)
(* leaves every other caller where it was.                                  *)
LEMMA RequestModalPlaces ==
    ASSUME PlaceInv, NEW r \in Requests, answers[r] = 0, ~InLine(r), RequestModal(r)
    PROVE  /\ \A s \in Requests : s # r => answers'[s] = answers[s]
           /\ \A s \in Requests : s # r => (InLine(s)' <=> InLine(s))
           /\ \/ answers'[r] = 1 /\ ~InLine(r)'
              \/ answers'[r] = 0 /\ InLine(r)'
           /\ showing' \notin ToSet(pending') /\ Distinct(pending')
<1>1. pending \in Seq(Requests) /\ answers \in [Requests -> Nat]
    BY DEF PlaceInv, IInv, TypeOK
<1>2. showing \notin ToSet(pending) /\ Distinct(pending)
      /\ r # showing /\ r \notin ToSet(pending)
    BY DEF PlaceInv, EachInOnePlace, InLine
<1>3. CASE showing # NoRequest /\ Len(pending) >= MaxQueued
    <2>1. showing' = showing /\ pending' = pending /\ Answer({r})
        BY <1>3, <1>1 DEF RequestModal, PlaceInv, IInv, TypeOK
    <2>2. QED
        BY <1>1, <1>2, <2>1 DEF Answer, InLine
<1>4. CASE showing # NoRequest /\ Len(pending) < MaxQueued
    <2>1. showing' = showing /\ pending' = Append(pending, r) /\ answers' = answers
        BY <1>4, <1>1 DEF RequestModal, PlaceInv, IInv, TypeOK
    <2>2. ToSet(pending') = ToSet(pending) \cup {r} /\ Distinct(pending')
        BY <1>1, <1>2, <2>1, AppendedQueue
    <2>3. QED
        BY <1>2, <2>1, <2>2 DEF InLine
<1>5. CASE showing = NoRequest
    <2>1. showing' = r /\ pending' = pending /\ answers' = answers
        BY <1>5 DEF RequestModal
    <2>2. QED
        BY <1>2, <1>5, <2>1 DEF InLine
<1>6. QED
    BY <1>1, <1>3, <1>4, <1>5 DEF PlaceInv, IInv, TypeOK

(* A call from a task of its own. *)
LEMMA OpenSelectionPlaces ==
    ASSUME PlaceInv, NEW r \in Requests, OpenSelection(r)
    PROVE  OneRequestOrDrain' /\ EachInOnePlace' /\ CallersKept
<1>1. /\ RequestModal(r) /\ r \notin issued
      /\ issued' = issued \cup {r} /\ microtasks' = microtasks
    BY DEF OpenSelection
<1>2. answers[r] = 0 /\ ~InLine(r) /\ r \notin Scheduled
    BY <1>1 DEF PlaceInv, EachInOnePlace
<1>3. /\ \A s \in Requests : s # r => answers'[s] = answers[s]
      /\ \A s \in Requests : s # r => (InLine(s)' <=> InLine(s))
      /\ \/ answers'[r] = 1 /\ ~InLine(r)'
         \/ answers'[r] = 0 /\ InLine(r)'
      /\ showing' \notin ToSet(pending') /\ Distinct(pending')
    BY <1>1, <1>2, RequestModalPlaces
<1>4. Scheduled' = Scheduled
    BY <1>1 DEF Scheduled
<1>5. EachInOnePlace'
    BY <1>1, <1>2, <1>3, <1>4 DEF PlaceInv, EachInOnePlace
<1>6. CallersKept
    BY <1>2, <1>3 DEF CallersKept
<1>7. QED
    BY <1>1, <1>5, <1>6 DEF PlaceInv, OneRequestOrDrain

(* A continuation in front of the drain. *)
LEMMA TwoTasks ==
    ASSUME NEW a, NEW b
    PROVE  <<a>> \o <<b>> = <<a, b>> /\ Tail(<<a, b>>) = <<b>> /\ Tail(<<a>>) = <<>>
<1> DEFINE S == {a, b}
<1>1. <<a>> \in Seq(S) /\ <<b>> \in Seq(S) /\ <<a, b>> \in Seq(S)
    OBVIOUS
<1>2. /\ <<a>> \o <<b>> \in Seq(S) /\ Len(<<a>> \o <<b>>) = 2
      /\ (<<a>> \o <<b>>)[1] = a /\ (<<a>> \o <<b>>)[2] = b
    BY <1>1
<1>3. <<a>> \o <<b>> = <<a, b>>
    <2> DEFINE ab == <<a>> \o <<b>>
    <2>1. Len(ab) = Len(<<a, b>>)
        BY <1>2
    <2>2. \A i \in 1 .. Len(ab) : ab[i] = <<a, b>>[i]
        BY <1>2
    <2>3. ab \in Seq(S)
        BY <1>2
    <2> HIDE DEF ab
    <2>4. ab = <<a, b>>
        BY <1>1, <2>1, <2>2, <2>3, SeqEqual
    <2>5. QED
        BY <2>4 DEF ab
<1>4. Tail(<<a, b>>) = <<b>>
    <2>1. /\ Tail(<<a, b>>) \in Seq(S) /\ Len(Tail(<<a, b>>)) = 1
          /\ Tail(<<a, b>>)[1] = b
        BY <1>1
    <2>2. QED
        BY <1>1, <2>1, SeqEqual
<1>5. Tail(<<a>>) = <<>>
    <2>1. Tail(<<a>>) \in Seq(S) /\ Len(Tail(<<a>>)) = 0
        BY <1>1
    <2>2. QED
        BY <2>1, SeqEqual
<1>6. QED
    BY <1>3, <1>4, <1>5

(* What a resolving task leaves in the microtask queue. *)
LEMMA ResolveSchedules ==
    ASSUME PlaceInv, NEW chained \in (Requests \ issued) \cup {NoRequest},
           NEW later \in Continuations, Resolve(chained, later)
    PROVE  /\ OneRequestOrDrain'
           /\ Scheduled' = ToSet(later)
           /\ ToSet(later) \subseteq Requests \ issued
           /\ \A r, s \in ToSet(later) : r = s
<1>1. microtasks' = later \o DrainIfClosed(chained)
    BY DEF Resolve
<1>2. CASE later = <<>>
    <2>1. microtasks' \in {<<>>, <<Drain>>}
        BY <1>1, <1>2 DEF DrainIfClosed
    <2>2. QED
        BY <1>2, <2>1 DEF Scheduled, OneRequestOrDrain, ToSet
<1>3. ASSUME NEW r \in Requests \ issued, later = <<r>> PROVE
           /\ OneRequestOrDrain'
           /\ Scheduled' = ToSet(later)
           /\ ToSet(later) \subseteq Requests \ issued
           /\ \A s, t \in ToSet(later) : s = t
    <2>1. ToSet(later) = {r} /\ r # Drain
        BY <1>3 DEF ToSet
    <2>2. CASE chained = NoRequest
        <3>1. microtasks' = <<r, Drain>>
            <4>1. microtasks' = <<r>> \o <<Drain>>
                BY <1>1, <1>3, <2>2 DEF DrainIfClosed
            <4>2. QED
                BY <4>1, TwoTasks
        <3>2. ToSet(microtasks') = {r, Drain}
            BY <3>1 DEF ToSet
        <3>3. OneRequestOrDrain'
            BY <3>1 DEF OneRequestOrDrain
        <3>4. QED
            BY <2>1, <3>2, <3>3 DEF Scheduled
    <2>3. CASE chained # NoRequest
        <3>1. microtasks' = <<r>>
            BY <1>1, <1>3, <2>3 DEF DrainIfClosed
        <3>2. OneRequestOrDrain'
            BY <3>1 DEF OneRequestOrDrain
        <3>3. QED
            BY <1>3, <2>1, <3>1, <3>2 DEF Scheduled
    <2>4. QED
        BY <2>2, <2>3
<1>4. QED
    BY <1>2, <1>3 DEF Continuations

(* A resolving key answers the caller on screen; what its callback opens    *)
(* takes the screen, what it schedules is opened by a microtask.            *)
LEMMA ResolvePlaces ==
    ASSUME PlaceInv, NEW chained \in (Requests \ issued) \cup {NoRequest},
           NEW later \in {l \in Continuations : chained \notin ToSet(l)},
           Resolve(chained, later)
    PROVE  OneRequestOrDrain' /\ EachInOnePlace' /\ CallersKept
<1>1. /\ showing # NoRequest /\ slot # NoRequest /\ Answer({slot})
      /\ showing' = chained /\ pending' = pending
      /\ issued' = issued \cup ToSet(later) \cup ({chained} \ {NoRequest})
    BY DEF Resolve
<1>2. slot = showing /\ showing \in Requests /\ answers \in [Requests -> Nat]
    BY <1>1 DEF PlaceInv, IInv, SlotBelongsToShown, TypeOK
<1>3. /\ answers[showing] = 0 /\ answers'[showing] = 1
      /\ \A r \in Requests : r # showing => answers'[r] = answers[r]
    BY <1>1, <1>2 DEF Answer, PlaceInv, EachInOnePlace, InLine
<1>4. Scheduled = {}
    BY DEF Resolve, Scheduled, ToSet
<1>5. /\ OneRequestOrDrain'
      /\ Scheduled' = ToSet(later)
      /\ ToSet(later) \subseteq Requests \ issued
    BY ResolveSchedules
<1>6. \A r \in Requests : InLine(r)' <=> r = chained \/ r \in ToSet(pending)
    BY <1>1 DEF InLine
<1>7. \A r \in Requests : r \in ToSet(pending) => r \in issued /\ r # showing
    BY DEF PlaceInv, EachInOnePlace, InLine
<1>8. chained \notin ToSet(pending) /\ chained # showing
    <2>1. CASE chained = NoRequest
        <3>1. pending \in Seq(Requests)
            BY DEF PlaceInv, IInv, TypeOK
        <3>2. QED
            BY <1>1, <2>1, <3>1 DEF ToSet
    <2>2. CASE chained \in Requests \ issued
        BY <1>2, <1>7, <2>2 DEF PlaceInv, EachInOnePlace, InLine
    <2>3. QED
        BY <2>1, <2>2
<1>9. EachInOnePlace'
    <2>1. showing' \notin ToSet(pending') /\ Distinct(pending')
        BY <1>1, <1>8 DEF PlaceInv, EachInOnePlace
    <2>2. ASSUME NEW r \in Requests
          PROVE  /\ answers'[r] \in {0, 1}
                 /\ answers'[r] = 1 => ~InLine(r)' /\ r \notin Scheduled'
                 /\ InLine(r)' => r \notin Scheduled'
                 /\ r \in issued' <=> answers'[r] = 1 \/ InLine(r)' \/ r \in Scheduled'
        <3>1. /\ answers[r] \in {0, 1}
              /\ answers[r] = 1 => ~InLine(r)
              /\ r \in issued <=> answers[r] = 1 \/ InLine(r)
            BY <1>4 DEF PlaceInv, EachInOnePlace
        <3>2. InLine(r) <=> r = showing \/ r \in ToSet(pending)
            BY DEF InLine
        <3>3. r \in issued' <=> r \in issued \/ r \in ToSet(later) \/ r = chained
            BY <1>1
        <3>4. chained \notin ToSet(later) /\ (r = chained => r \notin issued)
            OBVIOUS
        <3>5. QED
            BY <1>3, <1>5, <1>6, <1>7, <1>8, <3>1, <3>2, <3>3, <3>4
    <2>3. QED
        BY <2>1, <2>2 DEF EachInOnePlace
<1>10. CallersKept
    BY <1>3, <1>6 DEF CallersKept, InLine
<1>11. QED
    BY <1>5, <1>9, <1>10

(* A microtask opens a scheduled request or the oldest queued one. *)
LEMMA RunMicrotaskPlaces ==
    ASSUME PlaceInv, RunMicrotask
    PROVE  OneRequestOrDrain' /\ EachInOnePlace' /\ CallersKept
<1>1. /\ microtasks # <<>> /\ microtasks' = Tail(microtasks) /\ issued' = issued
      /\ \/ Head(microtasks) = Drain /\ DrainQueue /\ answers' = answers
         \/ Head(microtasks) # Drain /\ RequestModal(Head(microtasks))
    BY DEF RunMicrotask
<1>2. CASE microtasks = <<Drain>>
    <2>1. /\ Head(microtasks) = Drain /\ microtasks' = <<>>
        BY <1>1, <1>2
    <2>2. Scheduled = {} /\ Scheduled' = {}
        BY <1>2, <2>1 DEF Scheduled, ToSet
    <2>3. CASE showing' = showing /\ pending' = pending
        BY <1>1, <2>1, <2>2, <2>3
        DEF PlaceInv, EachInOnePlace, CallersKept, InLine, OneRequestOrDrain
    <2>4. CASE /\ showing = NoRequest /\ pending # <<>>
               /\ showing' = Head(pending) /\ pending' = Tail(pending)
        <3>1. pending \in Seq(Requests)
            BY DEF PlaceInv, IInv, TypeOK
        <3>2. /\ ToSet(pending) = {Head(pending)} \cup ToSet(Tail(pending))
              /\ Head(pending) \notin ToSet(Tail(pending)) /\ Distinct(Tail(pending))
            BY <2>4, <3>1, OldestTaken DEF PlaceInv, EachInOnePlace
        <3>3. \A r \in Requests : InLine(r)' <=> InLine(r)
            BY <2>4, <3>2 DEF InLine
        <3>4. QED
            BY <1>1, <2>1, <2>2, <2>4, <3>2, <3>3
            DEF PlaceInv, EachInOnePlace, CallersKept, OneRequestOrDrain
    <2>5. QED
        BY <1>1, <2>1, <2>3, <2>4 DEF DrainQueue
<1>3. ASSUME NEW r \in Requests, microtasks = <<r>> \/ microtasks = <<r, Drain>>
      PROVE  OneRequestOrDrain' /\ EachInOnePlace' /\ CallersKept
    <2>1. Head(microtasks) = r /\ r # Drain
        BY <1>3
    <2>2. Scheduled = {r} /\ Scheduled' = {} /\ OneRequestOrDrain'
        <3>1. microtasks' = <<>> \/ microtasks' = <<Drain>>
            BY <1>1, <1>3, TwoTasks
        <3>2. ToSet(microtasks') \subseteq {Drain}
            BY <3>1 DEF ToSet
        <3>3. ToSet(microtasks) = {r} \/ ToSet(microtasks) = {r, Drain}
            BY <1>3 DEF ToSet
        <3>4. QED
            BY <2>1, <3>1, <3>2, <3>3 DEF Scheduled, OneRequestOrDrain
    <2>3. answers[r] = 0 /\ ~InLine(r) /\ r \in issued
        BY <2>2 DEF PlaceInv, EachInOnePlace
    <2>4. /\ \A s \in Requests : s # r => answers'[s] = answers[s]
          /\ \A s \in Requests : s # r => (InLine(s)' <=> InLine(s))
          /\ \/ answers'[r] = 1 /\ ~InLine(r)'
             \/ answers'[r] = 0 /\ InLine(r)'
          /\ showing' \notin ToSet(pending') /\ Distinct(pending')
        BY <1>1, <2>1, <2>3, RequestModalPlaces
    <2>5. EachInOnePlace'
        BY <1>1, <2>2, <2>3, <2>4 DEF PlaceInv, EachInOnePlace
    <2>6. CallersKept
        BY <2>3, <2>4 DEF CallersKept
    <2>7. QED
        BY <2>2, <2>5, <2>6
<1>4. QED
    BY <1>1, <1>2, <1>3 DEF PlaceInv, OneRequestOrDrain

(* The places are kept by every step, and a step of the running program is  *)
(* one of the desk; exit answers the whole line but the caller on screen.   *)
LEMMA PlacesInit == Init => PlaceInv /\ Desk!Init
<1> SUFFICES ASSUME Init PROVE PlaceInv /\ Desk!Init
    OBVIOUS
<1>1. EachInOnePlace
    BY DEF Init, EachInOnePlace, InLine, Scheduled, ToSet, Distinct
<1>2. PlaceInv
    BY <1>1, InitEstablishes DEF Init, PlaceInv, OneRequestOrDrain
<1>3. \A r \in Requests : Standing(r) = "away"
    BY <1>1, StandingIsPlace DEF Placed, Init, InLine, ToSet
<1>4. Desk!Init
    BY <1>3 DEF Desk!Init, Init
<1>5. QED
    BY <1>2, <1>4

LEMMA ExitCloses ==
    ASSUME PlaceInv, ExitApp
    PROVE  OneRequestOrDrain' /\ EachInOnePlace' /\ Desk!Close
<1>1. /\ ~exited /\ exited' = TRUE /\ microtasks' = microtasks /\ issued' = issued
      /\ showing' = showing /\ pending' = <<>> /\ Answer(ToSet(pending))
    BY DEF ExitApp, ClearOnExit
<1>2. Scheduled = {} /\ Scheduled' = {} /\ OneRequestOrDrain'
    BY <1>1 DEF ExitApp, Scheduled, ToSet, OneRequestOrDrain
<1>3. \A r \in Requests : answers'[r] = IF r \in ToSet(pending) THEN 1 ELSE answers[r]
    BY <1>1 DEF Answer, PlaceInv, EachInOnePlace, InLine
<1>4. ToSet(pending') = {} /\ Distinct(pending') /\ showing \notin ToSet(pending)
    BY <1>1 DEF ToSet, Distinct, PlaceInv, EachInOnePlace
<1>5. \A r \in Requests : InLine(r)' <=> r = showing
    BY <1>1, <1>4 DEF InLine
<1>6. EachInOnePlace'
    BY <1>1, <1>2, <1>3, <1>4, <1>5 DEF PlaceInv, EachInOnePlace, InLine
<1>7. /\ \A r \in Requests : Placed(r)
      /\ \A r \in Requests : Placed(r)'
    BY <1>6, StandingIsPlace, StandingIsPlaceNext DEF PlaceInv
<1>8. \A r \in Requests : answers[r] \in {0, 1} /\ answers'[r] \in {0, 1}
    BY <1>6 DEF PlaceInv, EachInOnePlace
<1>9. \A r \in Desk!Waiting : IF r = showing THEN Desk!Stays(r) ELSE Desk!IsAnswered(r)
    BY <1>3, <1>5, <1>7, <1>8
    DEF Desk!Waiting, Desk!Stays, Desk!IsAnswered, Placed, InLine
<1>10. \A r \in Desk!Waiting : r # showing => ~Desk!Stays(r)
    BY <1>9 DEF Desk!Stays, Desk!IsAnswered
<1>11. \A r \in Requests : r \notin Desk!Waiting => Desk!Stays(r)
    BY <1>3, <1>5, <1>7, <1>8 DEF Desk!Waiting, Desk!Stays, Placed, InLine
<1>12. QED
    BY <1>1, <1>2, <1>6, <1>9, <1>10, <1>11 DEF Desk!Close

LEMMA PlacesStep ==
    PlaceInv /\ [Next]_vars
        => PlaceInv' /\ (Desk!Next \/ UNCHANGED <<[r \in Requests |-> Standing(r)], exited>>)
<1> SUFFICES ASSUME PlaceInv, [Next]_vars
             PROVE  /\ PlaceInv'
                    /\ Desk!Next \/ UNCHANGED <<[r \in Requests |-> Standing(r)], exited>>
    OBVIOUS
<1>1. IInv'
    BY StepKeeps DEF PlaceInv
<1>2. ASSUME ~exited, exited' = exited,
             OneRequestOrDrain' /\ EachInOnePlace' /\ CallersKept
      PROVE  PlaceInv' /\ Desk!Next
    <2>1. PlaceInv'
        BY <1>1, <1>2 DEF PlaceInv
    <2>2. Desk!Serve
        BY <1>2, <2>1, KeptIsServed
    <2>3. QED
        BY <2>1, <2>2 DEF Desk!Next
<1>3. ASSUME NEW r \in Requests, OpenSelection(r) PROVE PlaceInv' /\ Desk!Next
    BY <1>2, <1>3, OpenSelectionPlaces DEF OpenSelection
<1>4. CASE Select
    <2>1. PICK chained \in (Requests \ issued) \cup {NoRequest} :
          \E later \in {l \in Continuations : chained \notin ToSet(l)} :
              Resolve(chained, later)
        BY <1>4 DEF Select
    <2>2. PICK later \in {l \in Continuations : chained \notin ToSet(l)} :
              Resolve(chained, later)
        BY <2>1
    <2>3. QED
        BY <1>2, <2>2, ResolvePlaces DEF Resolve
<1>5. CASE Escape
    <2>1. PICK later \in Continuations : Resolve(NoRequest, later)
        BY <1>5 DEF Escape
    <2>2. ToSet(later) \subseteq Requests
        BY <2>1, ResolveSchedules
    <2>3. NoRequest \in (Requests \ issued) \cup {NoRequest}
          /\ later \in {l \in Continuations : NoRequest \notin ToSet(l)}
        BY <2>2
    <2>4. QED
        BY <1>2, <2>1, <2>3, ResolvePlaces DEF Resolve
<1>6. CASE RunMicrotask
    BY <1>2, <1>6, RunMicrotaskPlaces DEF RunMicrotask
<1>7. CASE ExitApp
    BY <1>1, <1>7, ExitCloses DEF PlaceInv, Desk!Next
<1>8. CASE UNCHANGED vars
    <2>1. PlaceInv'
        BY <1>1, <1>8 DEF vars, PlaceInv, OneRequestOrDrain, EachInOnePlace, InLine,
                          Scheduled, Distinct
    <2>2. \A r \in Requests : Standing(r)' = Standing(r)
        BY <1>8 DEF vars, Standing, InLine
    <2>3. QED
        BY <1>8, <2>1, <2>2 DEF vars
<1>9. QED
    BY <1>3, <1>4, <1>5, <1>6, <1>7, <1>8 DEF Next

(* However the callbacks chain and the drains run, the modal, its slot, the *)
(* queue and the microtasks together serve every caller as CallerDesk says. *)
THEOREM QueueServesCallers == Spec => CallersServed
<1>1. PlaceInv /\ [Next]_vars
        => PlaceInv' /\ [Desk!Next]_<<[r \in Requests |-> Standing(r)], exited>>
    BY PlacesStep
<1>2. QED
    BY <1>1, PlacesInit, PTL DEF Spec, CallersServed, Desk!Spec
=============================================================================
