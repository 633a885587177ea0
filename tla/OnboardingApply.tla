-------------------------- MODULE OnboardingApply --------------------------
(***************************************************************************)
(* Applying what the setup wizard asks for (runtime/onboarding/apply.ts,    *)
(* verify.ts).  A request is a list of operations on configuration keys,    *)
(* the local users, the secret files and the acknowledgements.  They are    *)
(* validated, put in an order, applied one after the other, each with an    *)
(* action that puts back what it changes, and verified; on a failure the    *)
(* actions run in reverse.  Nothing is journalled, so a process that dies   *)
(* leaves what it had got to.                                               *)
(***************************************************************************)
EXTENDS Naturals, Sequences, SequencesExt

CONSTANTS
    Cells,       \* what is stored, each with one value
    Before,      \* the possible contents at the start: [Cells -> values]
    Requests,    \* sequences of operations
    Others,      \* [cell, value]: what other code writes in the meantime
    Builds,      \* [cell, value, on, in]: cell has this value only where the
                 \* cell on has one of the values in
    Faults       \* what goes wrong in an instance, of FaultKinds

FaultKinds == {
    "undo",       \* a rollback action throws, having restored a part
    "verify",     \* the verification throws
    "sameFile"}   \* others write what a rollback restores
ASSUME FaultsAssumption == Faults \subseteq FaultKinds

(***************************************************************************)
(* An operation is a record                                                 *)
(*   kind    "policy", "auth", "secret", "config" or "acknowledge"          *)
(*   writes  what it stores, in order: [cell, value, accepts], accepts the  *)
(*           values that verification lets pass                             *)
(*   scope   the cells its rollback action restores: one configuration key, *)
(*           or everything in the files it writes                           *)
(***************************************************************************)
Kinds == <<"policy", "auth", "secret", "config", "acknowledge">>

VARIABLES
    store,      \* what is in effect
    todo,       \* operations still to apply
    left,       \* writes of the current operation still to make
    own,        \* its rollback action: [scope, saved]
    rollbacks,  \* the actions of those applied
    pc,         \* where applyOnboardingRequest is
    request,    \* its argument
    \* history
    base,       \* what would be in effect without this request
    excuse      \* {}, or of "undo" (a failed rollback is in the errors),
                \* "verify" (the call threw), "died"

transaction == <<store, todo, left, own, rollbacks, pc, request, base, excuse>>

Places == {"idle", "next", "apply", "undo", "applied", "refused", "torn"}
Running == pc \in {"next", "apply", "undo"}

NoAction == [scope |-> {}, saved |-> <<>>]

\* The function returns, or the process dies: its variables are gone.
Gone == todo' = <<>> /\ left' = <<>> /\ own' = NoAction /\ rollbacks' = <<>>

Ops(r) == Range(r)
Written(op) == {w.cell : w \in Range(op.writes)}
Touched(r) == UNION {Written(op) : op \in Ops(r)}
Passes(op, s) == \A w \in Range(op.writes) : s[w.cell] \in w.accepts
Met(r, s) == \A op \in Ops(r) : Passes(op, s)

Operations == UNION {Ops(r) : r \in Requests}
Writes == UNION {Range(op.writes) : op \in Operations}
Values == (UNION {Range(s) : s \in Before}) \cup {w.value : w \in Writes \cup Others}

ASSUME BeforeAssumption == \A s \in Before : s \in [Cells -> Range(s)]
ASSUME RequestsAssumption ==
    /\ \A r \in Requests : r \in Seq(Operations)
    /\ \A op \in Operations :
        /\ op.kind \in Range(Kinds)
        /\ op.writes \in Seq(Writes)
        /\ Written(op) \subseteq op.scope /\ op.scope \subseteq Cells

\* Operations by kind, in the order of Kinds; those of a kind as they came.
Rank(op) == CHOOSE k \in DOMAIN Kinds : Kinds[k] = op.kind
Precedes(r, i, j) == Rank(r[i]) < Rank(r[j]) \/ (Rank(r[i]) = Rank(r[j]) /\ i < j)
AsGiven(r) == {r}
Ordered(r) ==
    {[i \in DOMAIN r |-> r[place[i]]] :
        place \in {f \in [DOMAIN r -> DOMAIN r] :
                     \A i, j \in DOMAIN r : i < j => Precedes(r, f[i], f[j])}}

Asks(r, c, v) == \E op \in Ops(r) : \E w \in Range(op.writes) : w.cell = c /\ w.value = v

\* What something builds on is written by operations of an earlier kind, and
\* to what it is to be.
ASSUME BuildsAssumption == \A b \in Builds :
    /\ b.cell \in Cells /\ b.on \in Cells
    /\ \A w \in Writes \cup Others : w.cell = b.on => w.value \in b.in
    /\ \A w \in Others : w.cell = b.cell => w.value # b.value
    /\ \A r \in Requests : \A op, k \in Ops(r) : \A w \in Range(op.writes) :
          w.cell = b.cell /\ w.value = b.value /\ b.on \in Written(k) => Rank(k) < Rank(op)

TransactionInit ==
    /\ store \in Before
    /\ base = store
    /\ todo = <<>> /\ left = <<>> /\ rollbacks = <<>>
    /\ own = NoAction
    /\ request = <<>>
    /\ pc = "idle"
    /\ excuse = {}

\* The wizard asks for an account with the server unless there is a local
\* user and no bootstrap credential, and for a secret with the reference to
\* it.  It looks in its snapshot, here the store when the apply begins.
Provided(r) == \A b \in Builds :
    Asks(r, b.cell, b.value) => b.on \in Touched(r) \/ store[b.on] \in b.in

\* Prevalidation: an invalid operation ends it before anything is written.
Start(r) ==
    /\ ~Running
    /\ Provided(r)
    /\ request' = r
    /\ base' = store
    /\ excuse' = {}
    /\ \/ pc' = "next" /\ todo' \in Ordered(r)
       \/ pc' = "refused" /\ UNCHANGED todo
    /\ UNCHANGED <<store, left, own, rollbacks>>

\* buildRollbackAction: what the operation may change, as it is now; when
\* that cannot be read the action does nothing and the operation fails.
Build ==
    /\ pc = "next"
    /\ todo # <<>>
    /\ \/ /\ pc' = "apply"
          /\ own' = [scope |-> Head(todo).scope, saved |-> store]
          /\ left' = Head(todo).writes
          /\ todo' = Tail(todo)
          /\ UNCHANGED rollbacks
       \/ /\ pc' = "undo"
          /\ rollbacks' = Append(rollbacks, NoAction)
          /\ UNCHANGED <<own, left, todo>>
    /\ UNCHANGED <<store, request, base, excuse>>

WriteOne ==
    /\ pc = "apply"
    /\ left # <<>>
    /\ store' = [store EXCEPT ![Head(left).cell] = Head(left).value]
    /\ left' = Tail(left)
    /\ UNCHANGED <<todo, own, rollbacks, pc, request, base, excuse>>

\* An operation that throws half way is undone as well.
WithoutOwn == UNCHANGED rollbacks
AndOwn == rollbacks' = Append(rollbacks, own)

ApplyThrows ==
    /\ pc = "apply"
    /\ AndOwn
    /\ pc' = "undo"
    /\ UNCHANGED <<store, todo, left, own, request, base, excuse>>

Applied ==
    /\ pc = "apply"
    /\ left = <<>>
    /\ rollbacks' = Append(rollbacks, own)
    /\ pc' = "next"
    /\ UNCHANGED <<store, todo, left, own, request, base, excuse>>

\* An item may also fail for a reason outside the store: a secret that the
\* environment overrides.  When it throws nothing is rolled back, and the
\* wizard says that it could not persist the settings: all of them stand.
Verify ==
    /\ pc = "next"
    /\ todo = <<>>
    /\ \/ Met(request, store) /\ pc' = "applied" /\ Gone /\ base' = store /\ UNCHANGED excuse
       \/ pc' = "undo" /\ UNCHANGED <<todo, left, own, rollbacks, base, excuse>>
       \/ /\ "verify" \in Faults
          /\ pc' = "torn" /\ Gone /\ base' = store /\ excuse' = excuse \cup {"verify"}
    /\ UNCHANGED <<store, request>>

Newest == Len(rollbacks)
Oldest == 1
Turn == Newest

Restored(action, cells) ==
    [c \in Cells |-> IF c \in cells THEN action.saved[c] ELSE store[c]]

RunRollback ==
    /\ pc = "undo"
    /\ rollbacks # <<>>
    /\ \/ /\ store' = Restored(rollbacks[Turn], rollbacks[Turn].scope)
          /\ UNCHANGED excuse
       \/ /\ "undo" \in Faults
          /\ \E part \in SUBSET rollbacks[Turn].scope :
                store' = Restored(rollbacks[Turn], part)
          /\ excuse' = excuse \cup {"undo"}
    /\ rollbacks' = RemoveAt(rollbacks, Turn)
    /\ UNCHANGED <<todo, left, own, pc, request, base>>

RolledBack ==
    /\ pc = "undo"
    /\ rollbacks = <<>>
    /\ pc' = IF excuse = {} THEN "refused" ELSE "torn"
    /\ Gone
    /\ base' = store
    /\ UNCHANGED <<store, request, excuse>>

\* Other code runs while this one awaits.
OthersWrite ==
    /\ pc # "apply"
    /\ \E w \in Others :
        /\ Running /\ "sameFile" \notin Faults =>
              \A op \in Ops(request) : w.cell \notin op.scope
        /\ store' = [store EXCEPT ![w.cell] = w.value]
        /\ base' = [base EXCEPT ![w.cell] = w.value]
    /\ UNCHANGED <<todo, left, own, rollbacks, pc, request, excuse>>

Die ==
    /\ IF Running
       THEN pc' = "torn" /\ excuse' = excuse \cup {"died"}
       ELSE UNCHANGED <<pc, excuse>>
    /\ Gone
    /\ base' = store
    /\ UNCHANGED <<store, request>>

Transact ==
    \/ Build
    \/ WriteOne
    \/ ApplyThrows
    \/ Applied
    \/ Verify
    \/ RunRollback
    \/ RolledBack
    \/ OthersWrite
-----------------------------------------------------------------------------
(* A request takes effect as a whole or not at all, whatever fails and      *)
(* wherever, and a rollback undoes nobody else's change; a torn result      *)
(* comes with an error of the rollback or of the call itself, or from a     *)
(* process that died (apply.ts:517-614).                                    *)
Whole == INSTANCE SettingsTransaction
    WITH settings <- IF Running THEN base ELSE store,
         state <- CASE Running -> "open"
                    [] pc = "idle" -> "closed"
                    [] OTHER -> pc,
         excuse <- excuse # {}
AllOrNothing == Whole!Spec

(* At no moment, so wherever the process dies, is there a setting without   *)
(* what it builds on: the server exposed without any local user, or with    *)
(* the bootstrap credential still valid, or a configured reference to a     *)
(* secret that is not stored.  Order and reverse order together see to it;  *)
(* only a failed rollback can break it (apply.ts:113-123, 442-470).         *)
Sound(s) == \A b \in Builds : s[b.cell] = b.value => s[b.on] \in b.in
SoundAtAnyMoment ==
    [][Sound(store) /\ Sound(base) =>
            Sound(store') \/ "undo" \in excuse']_transaction
=============================================================================
