--------------------------- MODULE SelectionQueue ---------------------------
(***************************************************************************)
(* The one selection modal of the terminal UI and the FIFO of openSelection *)
(* calls made while it is showing (input/selection-modal-queue.ts), with    *)
(* the write-backs of the key routes that resolve it                        *)
(* (input/handler-modal-routes.ts, input/handler-modal-stack.ts).           *)
(*                                                                          *)
(* The program is one JavaScript thread: a key, a timer or a command is a   *)
(* task that runs to completion, and the microtasks it queued run before    *)
(* the next task.  The callback that resolves the modal may open the next   *)
(* one synchronously (an executed command does) or from a promise           *)
(* continuation (an `await ask(...)` does).                                 *)
(***************************************************************************)
EXTENDS Naturals, Sequences, SequencesExt

CONSTANTS
    Requests,    \* the openSelection calls of a run, each with its callback
    NoRequest,   \* no request: the modal is closed, the slot is null
    MaxQueued    \* MAX_QUEUED_SELECTIONS

ASSUME NoRequestAssumption == NoRequest \notin Requests
ASSUME MaxQueuedAssumption == MaxQueued \in Nat

VARIABLES
    showing,     \* the request the active modal was opened for
    slot,        \* handler.selectionCallback: whose callback a key would call
    pending,     \* the queued requests, oldest first
    microtasks,  \* "drain" and the requests that promise continuations open
    answers,     \* how often each callback has been given a final answer
    issued,      \* requests whose openSelection call has been made or is queued
    exited       \* exitApp has run

vars == <<showing, slot, pending, microtasks, answers, issued, exited>>

Drain == "drain"

ASSUME DrainAssumption == Drain \notin Requests

TypeOK ==
    /\ showing \in Requests \cup {NoRequest}
    /\ slot \in Requests \cup {NoRequest}
    /\ pending \in Seq(Requests) /\ Len(pending) <= MaxQueued
    /\ microtasks \in Seq(Requests \cup {Drain})
    /\ answers \in [Requests -> Nat]
    /\ issued \subseteq Requests
    /\ exited \in BOOLEAN

Init ==
    /\ showing = NoRequest
    /\ slot = NoRequest
    /\ pending = <<>>
    /\ microtasks = <<>>
    /\ answers = [r \in Requests |-> 0]
    /\ issued = {}
    /\ exited = FALSE

Answer(rs) == answers' = [r \in Requests |-> answers[r] + IF r \in rs THEN 1 ELSE 0]

\* A callback that opened nothing leaves the modal closed, and only then is
\* the queue drained, after the resolving task has ended.
NeverDrain(chained) == <<>>
DrainIfClosed(chained) == IF chained = NoRequest THEN <<Drain>> ELSE <<>>

(***************************************************************************)
(* openSelection while a modal is showing queues the request, or answers it *)
(* null at once when the queue is full; otherwise it opens the modal.       *)
(***************************************************************************)
OverwriteModal(r) ==
    /\ showing' = r
    /\ slot' = r
    /\ UNCHANGED <<pending, answers>>

RequestModal(r) ==
    \/ /\ showing # NoRequest
       /\ Len(pending) >= MaxQueued
       /\ Answer({r})
       /\ UNCHANGED <<showing, slot, pending>>
    \/ /\ showing # NoRequest
       /\ Len(pending) < MaxQueued
       /\ pending' = Append(pending, r)
       /\ UNCHANGED <<showing, slot, answers>>
    \/ /\ showing = NoRequest
       /\ showing' = r
       /\ slot' = r
       /\ UNCHANGED <<pending, answers>>

\* A command or a timer of its own calls openSelection.
OpenSelection(r) ==
    /\ ~exited
    /\ microtasks = <<>>
    /\ r \notin issued
    /\ issued' = issued \cup {r}
    /\ RequestModal(r)
    /\ UNCHANGED <<microtasks, exited>>

(***************************************************************************)
(* The slot after a resolving key.  The select route nulls the slot before  *)
(* it calls the callback and re-reads it afterwards; withState then takes   *)
(* `override ?? old`, so a null override leaves the resolved callback in    *)
(* the slot of the closed modal.  The Escape route never re-reads: whatever *)
(* the callback stored is overwritten by the callback it started with.      *)
(***************************************************************************)
WriteBackOldSlot(chained) == slot
SlotAfterSelect(chained) == IF chained = NoRequest THEN slot ELSE chained

\* What promise continuations the resolved callback schedules: none or one.
Continuations == {<<>>} \cup {<<r>> : r \in Requests \ issued}

Resolve(chained, later) ==
    /\ ~exited
    /\ microtasks = <<>>
    /\ showing # NoRequest
    /\ slot # NoRequest
    /\ Answer({slot})
    /\ showing' = chained
    /\ issued' = issued \cup ToSet(later) \cup ({chained} \ {NoRequest})
    /\ microtasks' = later \o DrainIfClosed(chained)
    /\ UNCHANGED <<pending, exited>>

\* Enter on a row (or a claimed key): the modal closes and the callback runs,
\* and may open another selection modal before it returns.
Select ==
    \E chained \in (Requests \ issued) \cup {NoRequest} :
        \E later \in {l \in Continuations : chained \notin ToSet(l)} :
            /\ Resolve(chained, later)
            /\ slot' = SlotAfterSelect(chained)

\* Escape: the callback is answered null.  No caller in the program opens a
\* modal synchronously from that answer.
Escape ==
    \E later \in Continuations :
        /\ Resolve(NoRequest, later)
        /\ slot' = slot

\* drain(): leaves the queue alone when something else opened a modal.
DrainQueue ==
    \/ /\ showing # NoRequest \/ pending = <<>>
       /\ UNCHANGED <<showing, slot, pending>>
    \/ /\ showing = NoRequest
       /\ pending # <<>>
       /\ showing' = Head(pending)
       /\ slot' = Head(pending)
       /\ pending' = Tail(pending)

RunMicrotask ==
    /\ ~exited
    /\ microtasks # <<>>
    /\ microtasks' = Tail(microtasks)
    /\ \/ /\ Head(microtasks) = Drain
          /\ DrainQueue
          /\ UNCHANGED answers
       \/ /\ Head(microtasks) # Drain
          /\ RequestModal(Head(microtasks))
    /\ UNCHANGED <<issued, exited>>

\* The wrapped exitApp answers every queued request null before it exits.
ClearOnExit == Answer(ToSet(pending)) /\ pending' = <<>>

ExitApp ==
    /\ ~exited
    /\ microtasks = <<>>
    /\ ClearOnExit
    /\ exited' = TRUE
    /\ UNCHANGED <<showing, slot, microtasks, issued>>

Next ==
    \/ \E r \in Requests : OpenSelection(r)
    \/ Select
    \/ Escape
    \/ RunMicrotask
    \/ ExitApp

\* Microtasks always run; a user who keeps a picker open for ever is not a
\* defect, so liveness is claimed of users who eventually dismiss each one.
Fairness == WF_vars(RunMicrotask) /\ WF_vars(Escape)

Spec == Init /\ [][Next]_vars
FairSpec == Spec /\ Fairness
-----------------------------------------------------------------------------
(* A key pressed in the modal reaches the caller whose rows are on screen: *)
(* no write-back of a resolving key route leaves another callback in the    *)
(* slot of an open modal (selection-modal-queue.ts:19-33).                  *)
SlotBelongsToShown == showing # NoRequest => slot = showing

(* Every caller is served as CallerDesk says: however callbacks chain and   *)
(* drains run, none is forgotten, none is answered twice, and exit leaves   *)
(* only the modal on screen unanswered (selection-modal-queue.ts:4-16).     *)
InLine(r) == showing = r \/ r \in ToSet(pending)
Standing(r) ==
    CASE answers[r] = 1               -> "answered"
      [] answers[r] = 0 /\ InLine(r)  -> "waiting"
      [] answers[r] = 0 /\ ~InLine(r)
         /\ (r \in issued => r \in ToSet(microtasks)) -> "away"
      [] OTHER                        -> "wronged"
Desk == INSTANCE CallerDesk
    WITH Callers <- Requests,
         Room <- MaxQueued + 1,
         desk <- [r \in Requests |-> Standing(r)],
         closed <- exited
CallersServed == Desk!Spec

(* A queue never waits behind a closed modal without a drain on its way:    *)
(* the hang the queue was written to end.                                   *)
NoStrandedQueue ==
    showing = NoRequest /\ pending # <<>> => Drain \in ToSet(microtasks)

(* A queued caller is answered in the end: null when the program exits while *)
(* it waits, otherwise by the user once its turn to be shown has come.       *)
QueuedIsAnswered ==
    \A r \in Requests :
        r \in ToSet(pending) ~> answers[r] > 0 \/ (exited /\ showing = r)
=============================================================================
