---------------------------- MODULE TurnFailover ----------------------------
(***************************************************************************)
(* What happens when a turn fails: failover to another provider             *)
(* (core/stream-event-wiring.ts), the rollback and re-submission of the     *)
(* turn (retryTurn in main.ts), the retry key (shell/retry-affordance.ts),  *)
(* and the one notice a user turn ends with, whatever number of attempts it *)
(* takes (core/turn-event-wiring.ts).                                       *)
(*                                                                          *)
(* The orchestrator is external: it runs one turn at a time, a submission   *)
(* waits for the memory-recall refresh and for the turn that runs, and a    *)
(* turn ends by completing, being cancelled or failing.  An event reaches   *)
(* both wirings, and the microtask the notice waits for runs, before any    *)
(* other callback, so a turn's end is one action.  A provider stands for    *)
(* its registry key.                                                        *)
(***************************************************************************)
EXTENDS Naturals, Sequences

CONSTANTS
    Asks,           \* what is asked of the model, each once
    Typed,          \* the asks submitted through submitInput; the others come
                    \* from a companion, another surface or a plan
    Providers,      \* capable and not synthetic
    None,
    Faults          \* what goes wrong in this run (FaultKinds)

FaultKinds ==
    {"overlap",     \* an ask is submitted before the one before it has ended
     "repick",      \* the user picks a model before a failover is undone
     "switchOut",   \* setCurrentModel throws on the way out
     "switchBack",  \* ... or on the way back
     "slow"}        \* a retry takes longer to start than the grace period

ASSUME TypedAssumption == Typed \subseteq Asks
ASSUME NoneAssumption ==
    None \notin Asks \cup Providers \cup [ask : Asks, count : Nat]
ASSUME FaultsAssumption == Faults \subseteq FaultKinds

VARIABLES
    optimizer,      \* providerOptimizer.enabled
    configured,     \* config provider.model
    serving,        \* providerRegistry.getCurrentModel()
    record,         \* failoverState.current()?.configuredRegistryKey
    visited,        \* failoverVisited
    retryCtx,       \* what retryTurn re-submits, and to how many messages it
                    \* rolls back
    armed,          \* retryAffordance.armed
    transcript,     \* the asks in the conversation, a turn's messages being one
    waiting,        \* submissions that have not started
    running,        \* the ask of the running turn
    retryPending,   \* failoverRetryPending
    withheld,       \* the ask of withheldFailure
    named,          \* turnText: the ask the next notice names
    asked,          \* history: asks submitted so far
    owed,           \* history: asks of user turns that await their notice
    late,           \* ... whose retry was told as failed before it started
    amiss,          \* history: a notice was given twice or named another ask
    tried,          \* history: providers the current user turn was tried on
    stuck           \* history: the last switch back failed

providers == <<optimizer, configured, serving, record, visited, stuck>>
notices == <<retryPending, withheld, named, owed, late, amiss>>
turns == <<transcript, waiting, running, tried>>
vars == <<providers, notices, turns, retryCtx, armed, asked>>

Submission == [ask : asked, kind : {"first", "failover", "again"}]

TypeOK ==
    /\ optimizer \in BOOLEAN
    /\ configured \in Providers /\ serving \in Providers
    /\ record \in Providers \cup {None}
    /\ visited \subseteq Providers
    /\ retryCtx = None \/ retryCtx \in [ask : Typed \cap asked, count : 0 .. Len(transcript)]
    /\ armed \in BOOLEAN /\ (armed => retryCtx # None)
    /\ transcript \in Seq(Asks)
    /\ waiting \subseteq Submission
    /\ running \in asked \cup {None}
    /\ retryPending \in BOOLEAN
    /\ withheld \in asked \cup {None} /\ (retryPending <=> withheld # None)
    /\ named \in asked \cup {None}
    /\ owed \subseteq asked /\ late \subseteq asked /\ asked \subseteq Asks
    /\ amiss \in BOOLEAN
    /\ tried \subseteq Providers
    /\ stuck \in BOOLEAN

Init ==
    /\ optimizer \in BOOLEAN
    /\ configured \in Providers
    /\ serving = configured
    /\ record = None
    /\ visited = {}
    /\ retryCtx = None
    /\ armed = FALSE
    /\ transcript = <<>>
    /\ waiting = {}
    /\ running = None
    /\ retryPending = FALSE
    /\ withheld = None
    /\ named = None
    /\ asked = {} /\ owed = {} /\ late = {}
    /\ amiss = FALSE
    /\ tried = {}
    /\ stuck = FALSE

Idle == running = None /\ waiting = {}

-----------------------------------------------------------------------------
(***************************************************************************)
(* Switching back, and the notice.                                          *)
(***************************************************************************)
\* restoreConfiguredSelection, with provider s serving and record r.
ForgetsRecord(s, r) ==
    IF r # None /\ "switchBack" \in Faults THEN {<<r, None>>, <<s, None>>}
    ELSE {<<IF r = None THEN s ELSE r, None>>}
Restored(s, r) ==
    IF r \in {None, s} THEN {<<s, None>>}
    ELSE {<<r, None>>} \cup (IF "switchBack" \in Faults THEN {<<s, r>>} ELSE {})

NoWayBack(s, r) == UNCHANGED <<serving, record, stuck>>
Restore(s, r) ==
    \E after \in Restored(s, r) :
        /\ serving' = after[1]
        /\ record' = after[2]
        /\ stuck' = (after[2] # None)

\* notifyTurnEnd for a turn of ask a.
Tell(a) ==
    /\ retryPending' = FALSE
    /\ withheld' = None
    /\ owed' = owed \ {a}
    /\ late' = late \ {a}
    /\ amiss' = (amiss \/ a \notin owed \cup late \/ named # a)
    /\ UNCHANGED named

\* onTurnError when the failover path has re-submitted the turn.
TellAnyway(a) == Tell(a)
WithholdForGood(a) ==
    /\ retryPending' = TRUE
    /\ UNCHANGED <<withheld, named, owed, late, amiss>>
Withhold(a) ==
    /\ retryPending' = TRUE
    /\ withheld' = a
    /\ UNCHANGED <<named, owed, late, amiss>>

-----------------------------------------------------------------------------
(***************************************************************************)
(* Submissions and the user.                                                *)
(***************************************************************************)
SnapshotLate(a) == [ask |-> a, count |-> Len(transcript) + 1]
Snapshot(a) == [ask |-> a, count |-> Len(transcript)]

\* The retry key once a key has been typed.
StillArmed == armed
AfterTyping == FALSE

\* What submitInput does for a typed ask: the snapshot, clearFailoverVisited.
Prepare(a) ==
    /\ retryCtx' = Snapshot(a)
    /\ visited' = {}
    /\ Restore(serving, record)
    /\ armed' = AfterTyping

Submit(a) ==
    /\ a \notin asked
    /\ Idle \/ "overlap" \in Faults
    /\ IF a \in Typed THEN Prepare(a)
       ELSE UNCHANGED <<retryCtx, visited, serving, record, stuck, armed>>
    /\ asked' = asked \cup {a}
    /\ owed' = owed \cup {a}
    /\ waiting' = waiting \cup {[ask |-> a, kind |-> "first"]}
    /\ UNCHANGED <<optimizer, configured, transcript, running, tried, retryPending, withheld,
                   named, late, amiss>>

\* retryTurn: roll back and re-submit.
RetryTurn(kind) ==
    /\ transcript' = SubSeq(transcript, 1, retryCtx.count)
    /\ waiting' = waiting \cup {[ask |-> retryCtx.ask, kind |-> kind]}

PressRetry ==
    /\ armed
    /\ armed' = FALSE
    /\ RetryTurn("again")
    /\ owed' = owed \cup {retryCtx.ask}
    /\ UNCHANGED <<providers, retryPending, withheld, named, late, amiss, retryCtx, asked,
                   running, tried>>

\* Another key, or the 60 s timer.
Disarm ==
    /\ armed
    /\ armed' = FALSE
    /\ UNCHANGED <<providers, notices, turns, retryCtx, asked>>

\* The model picker, @model:
PickModel(p) ==
    /\ p # configured
    /\ (Idle /\ record = None) \/ "repick" \in Faults
    /\ configured' = p
    /\ serving' = p
    /\ UNCHANGED <<optimizer, record, visited, stuck, notices, turns, retryCtx, armed, asked>>

\* /provider optimizer on|off
SetOptimizer ==
    /\ optimizer' = ~optimizer
    /\ UNCHANGED <<configured, serving, record, visited, stuck, notices, turns, retryCtx, armed, asked>>

-----------------------------------------------------------------------------
(***************************************************************************)
(* Turns.                                                                   *)
(***************************************************************************)
\* TURN_SUBMITTED; the re-submission of a withheld failure goes on with its
\* user turn.
Continues == retryPending /\ withheld # None

Begin(w) ==
    /\ running = None
    /\ waiting' = waiting \ {w}
    /\ running' = w.ask
    /\ transcript' = Append(transcript, w.ask)
    /\ tried' = IF w.kind = "failover" THEN tried \cup {serving} ELSE {serving}
    /\ retryPending' = FALSE
    /\ withheld' = None
    /\ named' = IF Continues THEN named ELSE w.ask
    /\ UNCHANGED <<providers, owed, late, amiss, retryCtx, armed, asked>>

\* TURN_COMPLETED, TURN_CANCEL
Finish ==
    /\ running # None
    /\ running' = None
    /\ visited' = {}
    /\ Restore(serving, record)
    /\ Tell(running)
    /\ UNCHANGED <<optimizer, configured, transcript, waiting, tried, retryCtx, armed, asked>>

\* What the failover may choose next after provider s failed.
NotThisOne(s) == Providers \ {s}
Untried(s) == Providers \ (visited \cup {s})

\* TURN_ERROR with the optimizer on: the next provider, and the turn again.
FailOver ==
    /\ running # None /\ optimizer
    /\ running' = None
    /\ \E next \in Untried(serving) :
         /\ visited' = visited \cup {serving, next}
         /\ LET r == IF record = None THEN configured ELSE record
            IN IF retryCtx # None
               THEN /\ serving' = next
                    /\ record' = r
                    /\ RetryTurn("failover")
                    /\ Withhold(running)
                    /\ UNCHANGED stuck
               ELSE /\ Restore(next, r)
                    /\ Tell(running)
                    /\ UNCHANGED <<transcript, waiting>>
    /\ UNCHANGED <<optimizer, configured, tried, retryCtx, armed, asked>>

SwitchOutFails ==
    /\ "switchOut" \in Faults
    /\ running # None /\ optimizer
    /\ Untried(serving) # {}
    /\ running' = None
    /\ visited' = visited \cup {serving}
    /\ Restore(serving, record)
    /\ Tell(running)
    /\ UNCHANGED <<optimizer, configured, transcript, waiting, tried, retryCtx, armed, asked>>

Exhausted ==
    /\ running # None /\ optimizer
    /\ Untried(serving) = {}
    /\ running' = None
    /\ visited' = visited \cup {serving}
    /\ Restore(serving, record)
    /\ armed' = (retryCtx # None \/ armed)
    /\ Tell(running)
    /\ UNCHANGED <<optimizer, configured, transcript, waiting, tried, retryCtx, asked>>

\* TURN_ERROR with the optimizer off; nothing is switched back.
Surface ==
    /\ running # None /\ ~optimizer
    /\ running' = None
    /\ armed' = (retryCtx # None \/ armed)
    /\ Tell(running)
    /\ UNCHANGED <<providers, transcript, waiting, tried, retryCtx, asked>>

\* The failure that was withheld is told after all.
GraceExpires ==
    /\ "slow" \in Faults
    /\ withheld # None
    /\ retryPending' = FALSE
    /\ withheld' = None
    /\ owed' = owed \ {withheld}
    /\ late' = late \cup {withheld}
    /\ amiss' = (amiss \/ withheld \notin owed \cup late \/ named # withheld)
    /\ UNCHANGED <<providers, turns, named, retryCtx, armed, asked>>

Next ==
    \/ \E a \in Asks : Submit(a)
    \/ \E w \in waiting : Begin(w)
    \/ Finish \/ FailOver \/ SwitchOutFails \/ Exhausted \/ Surface
    \/ GraceExpires \/ PressRetry \/ Disarm \/ SetOptimizer
    \/ \E p \in Providers : PickModel(p)

Spec == Init /\ [][Next]_vars

\* Submissions start, except that a retry may wait for its refresh for ever,
\* the grace timer fires and turns end; users promise nothing.
FairSpec ==
    /\ Spec
    /\ WF_vars(\E w \in waiting : w.kind # "failover" /\ Begin(w))
    /\ WF_vars(GraceExpires)
    /\ WF_vars(Finish \/ FailOver \/ SwitchOutFails \/ Exhausted \/ Surface)

-----------------------------------------------------------------------------
(***************************************************************************)
(* A failover retries the turn that failed: it takes that turn's messages   *)
(* out of the conversation, no others, and submits the same ask again       *)
(* (turn-event-wiring.ts:205: the failover path re-submits the failed turn; *)
(* stream-event-wiring.ts:199: a turn that did not come from the composer   *)
(* is not retried).                                                         *)
(***************************************************************************)
RetryIsFailedTurn ==
    [][\A w \in waiting' \ waiting :
         w.kind = "failover" => running = w.ask /\ transcript = Append(transcript', w.ask)]_vars

(***************************************************************************)
(* So does the retry key, and it never rolls the conversation back under a  *)
(* turn that runs (retry-affordance.ts:2: right after a user-visible        *)
(* TURN_ERROR).                                                             *)
(***************************************************************************)
RetryKeyIsFailedTurn ==
    [][\A w \in waiting' \ waiting :
         w.kind = "again" => running = None /\ transcript = Append(transcript', w.ask)]_vars

(***************************************************************************)
(* The user's selection is where every ask starts, whatever the one before  *)
(* failed over to, unless the registry refused to switch back               *)
(* (stream-event-wiring.ts:398: the configured selection is authoritative). *)
(***************************************************************************)
ConfiguredFirst ==
    [][\A w \in waiting \ waiting' : w.kind = "first" => serving = configured \/ stuck]_vars

(***************************************************************************)
(* While another provider serves than the one configured, the failover      *)
(* record says so, and with it header and footer; also when switching back  *)
(* failed (stream-event-wiring.ts:403).                                     *)
(***************************************************************************)
DivergenceIsShown == serving # configured => record = configured

(***************************************************************************)
(* No provider is tried twice in one user turn, so two failing providers    *)
(* cannot ping-pong (stream-event-wiring.ts:548).                           *)
(***************************************************************************)
NoPingPong ==
    [][\A w \in waiting \ waiting' : w.kind = "failover" => serving \notin tried]_vars

(***************************************************************************)
(* A user turn is told once, under the name of what was asked, for how it   *)
(* finally ended; only one whose retry was late to start is told as failed  *)
(* before (turn-event-wiring.ts:209).                                       *)
(***************************************************************************)
OneNotice == ~amiss

(***************************************************************************)
(* Every user turn is told in the end (turn-event-wiring.ts:368: a failure  *)
(* is withheld only while its retry is on its way).                         *)
(***************************************************************************)
EndIsTold == \A a \in Asks : a \in owed ~> a \notin owed
=============================================================================
