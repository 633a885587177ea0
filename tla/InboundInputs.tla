--------------------------- MODULE InboundInputs ---------------------------
(***************************************************************************)
(* How a steer typed at another surface (the web UI, say) reaches the       *)
(* conversation in this terminal: the daemon queues it on its session, and  *)
(* the terminal's poller (runtime/session-inbound-inputs.ts) lists what is  *)
(* queued on its own session, hands each to the turn machinery and          *)
(* acknowledges it.                                                         *)
(*                                                                          *)
(* A pass of the poller is one asynchronous function: what it does between  *)
(* two awaits is one action, and the user, the daemon and the timer act in  *)
(* between.  Handing over is calling onSteer; that the call throws makes no *)
(* difference to the poller.  The daemon's queue is external: a list of     *)
(* inputs in creation order, of which `since` leaves out those not created  *)
(* later.                                                                   *)
(***************************************************************************)
EXTENDS Naturals

CONSTANTS
    Inputs,     \* inputs queued at the daemon in a run
    Mine,       \* those this terminal wrote, or that are no steer or follow-up
    Sessions,
    None,       \* no session, no input
    MaxTime,    \* bound on the daemon's clock
    Faults      \* what goes wrong in this run (FaultKinds)

FaultKinds ==
    {"list",        \* a list call fails
     "ack",         \* a deliver call fails
     "swap",        \* the user resumes another session, at any time
     "overlap",     \* ... and another before the poller has heard of the first
     "silent",      \* ... by a command that does not tell the poller, or by a
                    \*     resume that fails half-way
     "sameInstant"} \* two inputs of a session are created in one millisecond

ASSUME NoneAssumption == None \notin Sessions \cup Inputs
ASSUME MineAssumption == Mine \subseteq Inputs
ASSUME MaxTimeAssumption == MaxTime \in Nat
ASSUME FaultsAssumption == Faults \subseteq FaultKinds

VARIABLES
    box,            \* the daemon's record of each input
    clock,          \* the daemon's clock
    held,           \* runtime.sessionId: the session of the live conversation
    ref,            \* runtimeSessionIdRef.value, which the poller reads
    telling,        \* resumed sessions the reference is not set to yet
    wired,          \* the poller has a client and its timer runs
    stage,          \* where the pass in flight, if any, waits
    asked,          \* the sessionId of that pass
    batch,          \* inputs it still has to look at
    acking,         \* the input whose acknowledgement it waits for
    cursor,
    cursorSession,
    crossed,        \* history: a switch was under way when the pass in flight
                    \* began, or has come since
    handed,         \* history: inputs handed over
    stay,           \* history: inputs handed over since the poller last turned
                    \* to another session
    again           \* history: inputs handed over a second time in one stay

daemon == <<box, clock>>
conversation == <<held, ref, telling>>
pass == <<stage, asked, batch, acking, cursor, cursorSession, crossed>>
history == <<handed, stay, again>>
vars == <<daemon, conversation, wired, pass, history>>

Record == [session : Sessions \cup {None}, at : 0 .. MaxTime,
           state : {"unborn", "queued", "delivered"}]

TypeOK ==
    /\ box \in [Inputs -> Record]
    /\ clock \in 0 .. MaxTime
    /\ held \in Sessions
    /\ ref \in Sessions
    /\ telling \subseteq Sessions
    /\ wired \in BOOLEAN
    /\ stage \in {"idle", "listing", "acking"}
    /\ asked \in Sessions \cup {None} /\ (stage = "idle" <=> asked = None)
    /\ batch \subseteq Inputs \ Mine
    /\ acking \in (Inputs \ Mine) \cup {None} /\ (stage = "acking" <=> acking # None)
    /\ cursor \in 0 .. MaxTime
    /\ cursorSession \in Sessions \cup {None}
    /\ crossed \in BOOLEAN /\ (stage = "idle" => ~crossed)
    /\ handed \subseteq Inputs \ Mine
    /\ stay \subseteq Inputs \ Mine
    /\ again \subseteq Inputs

Init ==
    /\ box = [i \in Inputs |-> [session |-> None, at |-> 0, state |-> "unborn"]]
    /\ clock = 0
    /\ held \in Sessions
    /\ ref = held
    /\ telling = {}
    /\ wired = FALSE
    /\ stage = "idle"
    /\ asked = None
    /\ batch = {}
    /\ acking = None
    /\ cursor = 0
    /\ cursorSession = None
    /\ crossed = FALSE
    /\ handed = {}
    /\ stay = {}
    /\ again = {}

-----------------------------------------------------------------------------
(***************************************************************************)
(* The daemon and the user.                                                 *)
(***************************************************************************)
Queue(i, s) ==
    /\ box[i].state = "unborn"
    /\ \E t \in {clock, clock + 1} \cap 1 .. MaxTime :
         /\ \A j \in Inputs :
              box[j].session = s /\ box[j].at = t => "sameInstant" \in Faults
         /\ clock' = t
         /\ box' = [box EXCEPT ![i] = [session |-> s, at |-> t, state |-> "queued"]]
    /\ UNCHANGED <<conversation, wired, pass, history>>

Activate ==
    /\ ~wired
    /\ wired' = TRUE
    /\ UNCHANGED <<daemon, conversation, pass, history>>

\* deactivate, dispose: no pass is started; one in flight is not stopped.
Deactivate ==
    /\ wired
    /\ wired' = FALSE
    /\ UNCHANGED <<daemon, conversation, pass, history>>

\* The resume handler of the session browser replaces the conversation and
\* waits for the session's model to be selected, before the reference is set
\* (TellPoller).  `/session resume`, fork, save and a restored snapshot never
\* set it, and neither does a resume that throws after the replacement.
SwitchSession(s) ==
    /\ "swap" \in Faults
    /\ telling # {} => "overlap" \in Faults
    /\ s # held
    /\ held' = s
    /\ \/ telling' = telling \cup {s}
       \/ "silent" \in Faults /\ UNCHANGED telling
    /\ crossed' = (stage # "idle")
    /\ UNCHANGED <<daemon, ref, wired, stage, asked, batch, acking, cursor,
                   cursorSession, history>>

\* onSessionIdChanged: the model is selected, or selecting it has failed.
TellPoller(s) ==
    /\ s \in telling
    /\ ref' = s
    /\ telling' = telling \ {s}
    /\ UNCHANGED <<daemon, held, wired, pass, history>>

-----------------------------------------------------------------------------
(***************************************************************************)
(* pollOnce.                                                                *)
(***************************************************************************)
\* A session swap resets the cursor.
CursorKept(s) == cursor
CursorFor(s) == IF s = cursorSession THEN cursor ELSE 0

TargetFixed == IF cursorSession = None THEN ref ELSE cursorSession
Target == ref

StartPass ==
    /\ wired /\ stage = "idle"
    /\ cursor' = CursorFor(Target)
    /\ cursorSession' = Target
    /\ asked' = Target
    /\ stage' = "listing"
    /\ crossed' = (telling # {})
    /\ stay' = IF Target = cursorSession THEN stay ELSE {}
    /\ UNCHANGED <<daemon, conversation, wired, batch, acking, handed, again>>

EndPass ==
    /\ stage' = "idle"
    /\ asked' = None
    /\ batch' = {}
    /\ acking' = None
    /\ crossed' = FALSE

HandOver(i) ==
    /\ handed' = handed \cup {i}
    /\ stay' = stay \cup {i}
    /\ again' = again \cup ({i} \cap stay)

\* The cursor after the inputs seen, own ones included.
LatestUnmoved(seen) == {cursor}
Latest(seen) ==
    {t \in {cursor} \cup {box[i].at : i \in seen} :
        t >= cursor /\ \A i \in seen : t >= box[i].at}

\* The loop up to its next await: own inputs are skipped, the first other one
\* is handed over and its acknowledgement sent.
Advance(rest) ==
    \/ /\ rest \subseteq Mine
       /\ cursor' \in Latest(rest)
       /\ EndPass
       /\ UNCHANGED history
    \/ \E i \in rest \ Mine :
         /\ cursor' \in Latest((rest \cap Mine) \cup {i})
         /\ HandOver(i)
         /\ stage' = "acking"
         /\ acking' = i
         /\ batch' = rest \ (Mine \cup {i})
         /\ UNCHANGED asked /\ UNCHANGED crossed

\* What the daemon lists for the pass.
Listed == {i \in Inputs : box[i].session = asked /\ box[i].state = "queued" /\ box[i].at > cursor}

ListAnswered ==
    /\ stage = "listing"
    /\ Advance(Listed)
    /\ UNCHANGED <<daemon, conversation, wired, cursorSession>>

ListFailed ==
    /\ "list" \in Faults
    /\ stage = "listing"
    /\ EndPass
    /\ UNCHANGED <<daemon, conversation, wired, cursor, cursorSession, history>>

\* The inputs an acknowledgement marks delivered.
AckUpToCursor(i) == {j \in Inputs : box[j].session = asked /\ box[j].at <= cursor}
Acknowledged(i) == {i}

AckAnswered ==
    /\ stage = "acking"
    /\ box' = [i \in Inputs |->
           IF i \in Acknowledged(acking) THEN [box[i] EXCEPT !.state = "delivered"] ELSE box[i]]
    /\ Advance(batch)
    /\ UNCHANGED <<clock, conversation, wired, cursorSession>>

AckFailed ==
    /\ "ack" \in Faults
    /\ stage = "acking"
    /\ Advance(batch)
    /\ UNCHANGED <<daemon, conversation, wired, cursorSession>>

Poll == StartPass \/ ListAnswered \/ ListFailed \/ AckAnswered \/ AckFailed

Next ==
    \/ \E i \in Inputs, s \in Sessions : Queue(i, s)
    \/ Activate \/ Deactivate
    \/ \E s \in Sessions : SwitchSession(s) \/ TellPoller(s)
    \/ Poll

Spec == Init /\ [][Next]_vars

\* The timer ticks while the poller is wired, a call to the daemon is answered
\* or fails, and one that is made over and over is answered in the end.  The
\* selection of a resumed session's model succeeds or fails.
Fairness ==
    /\ \A s \in Sessions : WF_vars(TellPoller(s))
    /\ WF_vars(StartPass)
    /\ WF_vars(AckAnswered \/ AckFailed)
    /\ SF_vars(ListAnswered)
    /\ SF_vars(AckAnswered)

FairSpec == Spec /\ Fairness

-----------------------------------------------------------------------------
(***************************************************************************)
(* While the poller stays with a session no input is injected twice, even   *)
(* if every acknowledgement fails: the cursor keeps it from being relisted  *)
(* (session-inbound-inputs.ts:169).                                         *)
(***************************************************************************)
InjectedOnce == again = {}

(***************************************************************************)
(* What the daemon shows every surface as delivered has been handed to this *)
(* conversation: nothing still waiting in a pass is acknowledged with it    *)
(* (session-inbound-inputs.ts:196).                                         *)
(***************************************************************************)
DeliveryTruth == \A i \in Inputs : box[i].state = "delivered" => i \in handed

(***************************************************************************)
(* A steer lands in the conversation of the session it was queued on        *)
(* (session-inbound-inputs.ts:17: "a steer for another session can never    *)
(* land here"), but for the one pass that a switch overtakes or that begins *)
(* before the poller is told of it: every later pass is back with the       *)
(* conversation on screen, whatever is switched, fails or is detached.      *)
(***************************************************************************)
StraysOnlyInASwitch ==
    [][acking' # acking /\ acking' # None
         => box[acking'].session = held \/ crossed]_vars

(***************************************************************************)
(* A pass asks for the session the conversation belongs to, once the poller *)
(* has been told of every switch (session-inbound-inputs.ts:71: read on     *)
(* every tick so that a session swap re-targets the poll automatically).    *)
(***************************************************************************)
PollsHeldSession ==
    [][stage = "idle" /\ stage' = "listing" => asked' = held \/ telling # {}]_vars

(***************************************************************************)
(* The poller implements the mailbox: through lost answers, failed calls    *)
(* and session swaps an input is injected only while it is queued, on the   *)
(* session the poller turned to, at most once in a stay, and acknowledged   *)
(* after that (session-inbound-inputs.ts:149-213).  So what the daemon      *)
(* shows every surface as delivered was injected, and nothing is injected   *)
(* once it has been delivered.                                              *)
(***************************************************************************)
Box ==
    INSTANCE Mailbox WITH
        Steers <- Inputs \ Mine,
        of <- [i \in Inputs |-> box[i].session],
        state <- [i \in Inputs |-> box[i].state],
        injected <- handed,
        at <- cursorSession,
        seen <- stay
ServesMailbox == Box!Spec

Waiting(i) == box[i].state = "queued" /\ box[i].session = held /\ wired

(***************************************************************************)
(* A steer queued on the session shown here is injected in the end, through *)
(* failing list calls and after session swaps, while the poller stays wired *)
(* and the session stays (the charter in the head of                        *)
(* session-inbound-inputs.ts).                                              *)
(***************************************************************************)
QueuedIsCollected ==
    \A i \in Inputs \ Mine :
        Waiting(i) ~> i \in handed \/ held # box[i].session \/ ~wired

(***************************************************************************)
(* An injected steer is acknowledged in the end, an acknowledgement that    *)
(* failed being retried (session-inbound-inputs.ts:199: "deliver ack        *)
(* failed; will retry").                                                    *)
(***************************************************************************)
AckIsRetried ==
    \A i \in Inputs \ Mine :
        i \in handed /\ Waiting(i) ~> ~Waiting(i)
=============================================================================
