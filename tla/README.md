# Formal model of goodvibes-tui

goodvibes-tui is a terminal front end for an agent runtime. One process draws
the screen, reads keys, submits what the user asks to an orchestrator and shows
its answers; the orchestrator, the permission broker, the WRFC controller and
the session store come from `@pellux/goodvibes-sdk`, which is a dependency and
not in the repository. What the repository itself decides, and what this
directory models, is the glue in which the hard bugs of such a program live: who
owns the one modal and the one approval card, which of three files a
conversation is brought back from, what happens to a turn when its provider
fails, how work queued at a daemon reaches the conversation once, and how the
program changes what it stands on: its settings, its service unit and its own
files.

Every module is written from the TypeScript under `src/src/`. Paths below are
relative to it. `PROJECT.json` gives, for each definition, the lines it models.

Contents: 1 the system, 2 modules and code, 3 the runs, 4 fairness,
5 a disagreement found, 6 proofs, 7 what is not covered, 8 plan, 9 how to run.

## 1. The system

One process is one JavaScript thread: a key, a timer or a network answer runs to
completion, with the microtasks it queued, before the next. So an action of a
module is one synchronous stretch of code, and what interleaves is what lies
between two `await`s, between a timer's arming and its firing, and between two
processes that share a directory.

| Part | State it keeps | Operations | What is hard | What makes it correct |
|---|---|---|---|---|
| Selection modal queue (`input/selection-modal-queue.ts`, `handler-modal-routes.ts`) | the open modal, the callback slot, the FIFO | open, select, escape, drain, exit | callbacks that open the next modal, synchronously or later; the key routes' write-back of the slot | the slot belongs to the rows on screen; each caller is answered once; nobody waits for ever |
| Approval card (`permissions/broker-approval-card.ts`, `shell/blocking-input.ts`, `main.ts`) | the slot `pendingPermission`, the broker's records | ask (prompt, broker, diff), claim, decide elsewhere, keys | other surfaces decide at the same time; a card appears under a key; many asks, one slot | no key answers a card the user did not see; the card is never stale; no ask is left without one |
| Session durability (`core/turn-event-wiring.ts`, `core/session-resume-core.ts`, `runtime/recovery-autosave.ts`, `runtime/process-lifecycle.ts`, `input/commands/session-*.ts`) | per session: store snapshot, journal, recovery file, liveness marker; per process: session id and conversation | launch, turn, autosave, resume, fork, save, clear, load, exit, crash | crashes and failing writes between any two steps; several terminals | a completed turn comes back; one process per session; no conversation in another's file |
| Recovery offer (`runtime/recovery-prompt.ts`, `recovery-offer-wiring.ts`, `cli/tui-startup.ts`, `runtime/recovery-decisions.ts`) | the offer on screen, the decision ledger | offer, resume, keep, remove | the file may change while the offer is on screen; it is deleted by the read that restores it | what was kept is offered again; only Remove removes |
| Turn failover (`core/stream-event-wiring.ts`, `core/turn-event-wiring.ts`, `main.ts`, `shell/retry-affordance.ts`) | the failover record, the visited set, the retry context, the withheld failure | begin, end, switch, roll back, re-submit, restore, retry key | two listeners of one event; a grace timer; contexts that outlive their turn | what is retried is what failed; no ping-pong; one notice for one turn; the user's selection comes back |
| Inbound inputs (`runtime/session-inbound-inputs.ts`) | cursor, cursor session, pass in flight | attach, detach, poll pass, hand over, acknowledge | session state read before an `await` and used after; lost answers | injected once, into its own conversation, and in the end |
| WRFC chain snapshot (`runtime/wrfc-persistence.ts`) | the file, the history, the debounce timer | event, timer, flush, rehydrate | crash within the debounce; bounded history; the zombie reap | ends are final and reach the file; nothing is forgotten but for a later end |
| Onboarding apply (`runtime/onboarding/apply.ts`, `verify.ts`) | the operations to do, the rollback actions of those done | validate, order, apply, verify, roll back | nothing is journalled: a failure or death after any write; other writers | all or nothing; no setting without what it builds on |
| Setup wizard (`input/handler-onboarding.ts`, `runtime/onboarding/fast-path.ts`, `progress.ts`, `markers.ts`, `cli/tui-startup.ts`) | the step, the progress file, the marker | launch, step, continue, apply, check, mark | restarts, a file that cannot be written, the long apply under an open wizard | an applied setup does not come back |
| Acknowledgement file (`runtime/onboarding/state.ts`) | the answers, an advisory lock file | lock, read, merge, write, release | terminals and daemon on one file; stale locks; attempts that run out | an answer is never lost silently |
| Daemon migration and reconcile (`runtime/legacy-daemon-migration.ts`, `legacy-daemon-reconcile.ts`) | two systemd units | install, start, check, roll back, stop, disable, remove | each call fails or times out with its effect unknown; daemons exit, hosts reboot | a daemon that can serve is always left, on the configured endpoint |
| Self-update (`cli/launch-auto-update.ts`, `input/commands/update-runtime.ts`) | program and addon with their `.previous` | check, download, swap, restart, roll back | slow or dead network, a budget that runs out, several terminals | launches do not hang; "deferred" is true; program and addon match |
| Decision ledger (`runtime/recovery-decisions.ts`) | one JSON file, at most 200 entries of at most 90 days | record, prune, read | rewritten by several processes without a lock | a recorded removal is kept |
| Voice (`audio/wake-runtime.ts`, `voice-input-session.ts`) | the microphone, the engine | start, stop, reconcile | stop during an awaited start | one owner of the microphone |
| Type-ahead gate (`runtime/startup-typeahead-gate.ts`) | keys held back | hold, replay | a modal opening between two keys | no key lost, reordered or given to the modal |
| MCP reload (`mcp/runtime-reload.ts`) | the reload in flight | change, reload | a change seen during a reload | the last change is loaded |
| Stall watchdog, cancellation (`core/stream-stall-watchdog.ts`, `turn-cancellation.ts`) | the last delta's time | delta, tick, cancel | a late delta | a stalled turn is shown as one |
| Daemon attach (`runtime/client/`) | the client | probe, attach, replace | two starters of one daemon | one daemon, of the right version |
| Hosted sessions, fleet (`views/hosted-session-feed.ts`, `fleet-stop.ts`) | feed cursor, armed stop | feed, stop, confirm | reordered feed pages | a stop reaches what was confirmed |
| Shell, commands, composer, the wizard's forms, settings, renderer, views, store, CLI, policy, scripts | wiring, drafts, layout | | little: single-threaded, or presentation of SDK state | unit tests |

How they interact: every key passes the approval card first, then the retry key
and the fix-session key, then the modal stack, then the composer. A turn's end
is one event that the failover wiring, the notifier and the journal all hear. A
session switch changes the id under the journal, the autosave, the liveness
marker and the inbound poller, each of which reads it at its own time. The
recovery offer and the `--continue` question both go through the selection
modal queue at launch. Before any of it a launch may replace the program and
restart onto the new file. The setup wizard applies its request, records what the
user acknowledged, and is where the migration of the service unit is consented to.

## 2. Modules and the code they model

Each module has an `MC` module beside it (constants and symmetry for TLC), at
least one `.cfg`, and, where something is proved, a `...Proofs` module (`SharedFilesProofs`
for `AcknowledgementFile` and `SelfUpdate`, `OnboardingProofs` for both onboarding modules). The
definitions under "as" in the mutants of `PROJECT.json` (`OverwriteModal`,
`TargetFixed`, `NeverRewrites` and the like) are defective variants of the definition
after them: plausible bugs, used to show that the properties of the run notice
them. They are not part of the specification.

**SelectionQueue.** `showing`, `slot` and `pending` are the active modal,
`handler.selectionCallback` and the FIFO; `microtasks` holds queued drains and
the openings that promise continuations make. `OpenSelection` is
`openSelection`; `Select` and `Escape` are the two key routes with the callback
they call, whatever it opens, and the write-back that follows; `RunMicrotask`
runs a drain or a continuation; `ExitApp` is the teardown, which answers what is
queued. While a microtask is queued no task runs. What a request is about is
abstracted to its name. `CallerDesk` is what a caller sees of it: it waits, or is turned
away when there is no room, and is answered once, one at a time, until the desk closes.
`SelectionQueue` implements it (`CallersServed`) under the mapping `desk <- Standing`: a
caller is "waiting" while its request is shown or queued and not answered, "answered" when
its promise has been, and "away" before, also while a continuation that will open its
request is still among the microtasks.

**ApprovalCards.** `card` is the slot with the state a key's meaning depends on
(within the settle window or not, reason or answer being typed, submenu open);
`status` is the broker's record of each ask. A local ask publishes to the broker
and opens its own prompt; a broker ask defers a microtask that opens a card only
if the ask is still open and the slot empty; a direct ask (applying a diff) has
no record. `Claim` and `DecideElsewhere` are other surfaces. `Press` and the
three reads of a key are apart, so that a card can appear, settle, be replaced or
go between them; `hit.aim` is the card the user had seen. Which button the arrows
chose, which hunks are picked and whether something has been typed are left
open: what a key may do is then a set of outcomes, wider than the code's.
`SettleWindow` waits for a key already pressed: a key pressed before a card came
is read within the card's 350 ms.

**SessionDurability.** `shelf[s]` holds the three files of a session and which
is the newer; `marker[s]` the process its liveness marker names; `pc` where each
process is in its life. A file is the set of messages it would bring back. The
actions are launch, with or without a named session, the offers, their
answers, the two steps of applying a snapshot (read and delete the file, then
store), submit, completion with its store and journal rotation, failure, the
autosave tick, resume, save, fork, clear with its copy, load, exit (saved or
timed out) and crash. `talk`, `secured`, `owed` and `promised` are history: whose
conversation a turn belongs to, which turns the program owes to a resume, what a
recovery point owes the user and what the user was told will be offered again.
The two questions of a launch are asked as in the code: `OfferNamed` opens the
modal about the named session and nobody waits for its answer (`main.ts:750`), so
`BootOffer` looks for recovery points at once, as long as nothing is answered, and
its own question waits in `queued` behind the first.

**InboundInputs.** The daemon's queue (`box`, `clock`) is external. A pass is
`StartPass`, `ListAnswered` or `ListFailed`, then for each input a hand-over with
`AckAnswered` or `AckFailed`: one action per stretch between awaits. `held` is the
session of the conversation, `ref` the reference the poller reads, which are
different things in the code and may differ: `SwitchSession` replaces the
conversation, and `TellPoller` sets the reference when the model selection it
awaits in between is settled; `telling` holds the sessions the reference has still
to be told of. `crossed` is history: a switch was under way when the pass began, or
has come since. `Mailbox` is the promise to whoever leaves an
input: it is injected while it is queued on the session attended to, once in a stay there,
and delivered after that, for good. Mapping: `at <- cursorSession`, `seen <- stay`, and
from `box` the session and state of each input.

**TurnFailover.** `configured` is the user's model, `serving` the registry's
current one, `record` the failover record. `Begin`, `Finish`, `FailOver`,
`SwitchOutFails`, `Exhausted` and `Surface` are the ways a turn starts and ends,
each with what both wirings do; `GraceExpires` is the timer of a withheld
failure; `PressRetry`, `Disarm`, `PickModel` and `SetOptimizer` are the user. The
orchestrator is external: one turn at a time.

**WrfcPersistence.** `Start` is rehydrate with the reap and the write-back,
`Create`, `Progress`, `Finish` and `Forget` are the controller's (external) with
the event handler that arms the debounce, `TimerFires` and `BeginQuit` write. A quit
takes two steps: `BeginQuit` flushes and removes the listeners, and until `Exit` the
terminal is in `closing` and its chains still run, with nobody listening. A chain
is absent, active, or ended at a time.

**OnboardingApply** and **OnboardingWizard.** A request is a sequence of operations, each
with what it writes and the scope its rollback action restores (one configuration key, or
the whole of a file). `Provided` is what the wizard makes sure of when it builds a request:
an account is asked for with the server, unless the snapshot shows a local user, of
whatever role, and no bootstrap credential is left; and a secret with the reference to it. `Start` is the validation and the ordering by kind, `Build` takes
the snapshot of an operation, `WriteOne` is one write, `Verify` the comparison at the end,
which passes, starts the rollback or throws,
`RunRollback` one action in reverse. `OthersWrite` is code that runs while the apply
awaits; `base` is what the settings would be without this request. `SettingsTransaction` is
the promise: a request commits, with everything it asked for in effect, or is aborted with
nothing changed, and may come out torn only with a rollback error on screen, after a
death, or when the verification threw. Mapping: `settings` is `base` while a request runs and the store otherwise; `state`
is `pc` with its running phases joined into "open". The wizard extends it: `Launch`,
`Welcome` and `OpenByCommand` show it, `StepKey` and `Continue` move (only the first saves
progress), `Apply` to `Activated` are the handler around the apply, one action per await,
and `Crash` ends the process anywhere.

**AcknowledgementFile.** One action per file operation of a process, since the whole call
is synchronous within one: look at the lock's age, take it over, create it exclusively,
read, write, release. After `MaxTries` attempts a writer warns and goes on.
`AcknowledgementRegister` is the promise, a register per answer that `Record` changes one
at a time; mapping: `acks <- file`.

**DaemonMigration**, on **ServiceUnits**, which declares the units and states what is
promised of them. For each of the two units: who wrote its file, whether it is enabled,
and its process ("failed" is one systemd will start again). One action per `systemctl` call
or probe, of the consented migration (`mig`) and of the unattended reconcile (`rec`), each
with the outcomes done, not done and unknown; systemd, the daemons, the user and reboots
are external. In this repository only tests call the reconcile; it is the daemon's.

**SelfUpdate**, on **InstalledFiles**, which declares the pair of files and states what is
promised of it. `live` and `previous` are the versions of the two installed files and their
kept copies. `Launch`, `Checked`, `CheckSkipped` and `OutOfBudget` are the launch with its
two timers; `Resolve`, `Throws`, `Downloaded` and `Swapped` are `applyUpdate`, started by a
launch or a command; `SwapStep` is one rename of the SDK's swap; `Rollback` the command.

### Faults

All modules but `SelectionQueue` and `ApprovalCards` have a constant `Faults`
(`OnboardingWizard` a second, `WizardFaults`): the set of things that go wrong in an
instance (`FaultKinds` lists them with a line each). A fault is either in the environment (a failing
write or call) or a course of events under which the code does not keep a
property; guards such as `Foreseen` and `Uncontended` leave the latter out unless
their fault is enabled. So each run says under which courses its properties
hold; add a fault of the last column to a cfg's `Faults` and TLC shows what it
breaks.

| Module | In the runs | In no run |
|---|---|---|
| SessionDurability | save, append, dieApplying, keepThenOpen, reopenRemoved, openPastPoint (`session_files`); save, append, load (`recovery_points`) | lateMarker, staleOffer, askedTwice, force, sameName, midTurn |
| InboundInputs | list, ack, swap | overlap, silent, sameInstant |
| TurnFailover | switchOut, switchBack, slow | overlap, repick (and `Typed # Asks`: a companion's turn) |
| WrfcPersistence | disk | starved |
| OnboardingApply | undo, verify | sameFile |
| OnboardingWizard | noProgress | noMarker, noUnlink, keysPending |
| AcknowledgementFile | disk | foreign, race, slow |
| DaemonMigration | none | again, window, flaky, noEndpoint, lateStart |
| SelfUpdate | none: its network is slow, dead or wrong in every instance | together, outdated |

Weaknesses of the code met while modelling, with the fault that stands for each:

- `lateMarker`: `/session fork`, `save` and `resume` change the session id but its
  liveness marker is written at the next autosave tick, so for up to a minute a
  second terminal may open the same session: `OneHolder` is false.
- `staleOffer`: an offer answered Resume after another terminal advanced the
  session restores the older snapshot. `force`: the user says so. `sameName`:
  `/session save` under an existing name replaces it. `midTurn`: a turn
  that is running when the session is switched completes in the new one.
- `askedTwice`: with `--continue` or a named session, `main.ts:750` does not await the
  question about that session's recovery point, and lines 787-795 look for points before
  anything is answered. So the second modal, queued behind the first, may be about the
  same session, though `runtime/recovery-prompt.ts:243` says of the two that "an answer given
  to either binds both" (and line 43, like `docs/getting-started.md:232`, that Keep "stays quiet
  for the rest of the run"). Not now in the first opens the session from store and
  journal; Resume in the second then puts the older snapshot over what only the journal
  had: `CompletedTurnsSurvive` is false, if a store write fails. Resume in the first deletes the
  file; Keep in the second promises it all the same (line 371, `KeptIsOfferedAgain`), and
  Remove records a removal for a session that is open, whose next point is then neither
  offered nor kept: `RecoveryPointSurvives`, `OnlyRemoveDeletes`.
- `dieApplying`: the recovery file is deleted by the read that restores it; a crash
  or a failing store before it is stored leaves it nowhere. It is enabled in
  `session_files`; `RecoveryPointSurvives`, checked in `recovery_points`, is false
  with it. So with `openPastPoint`: opening a session from its store past a
  recovery point that alone held a turn whose store and journal writes had failed.
- `load`: `/load` shows another session's conversation under this session's id and
  the next turn stores it there. What the replaced conversation's recovery point still
  owed the user is given up with it: the next autosave writes over the file. It is enabled
  in `recovery_points`; `OwnConversationOnly` is false with it.
- `keepThenOpen`: after Keep in the offer of `--continue` the same session is opened from
  its store (`cli/tui-startup.ts:108`), and its journal fold, next turn or clean exit
  replaces or deletes the kept file, though `runtime/recovery-prompt.ts:371` says "it will
  be offered again next launch": `KeptIsOfferedAgain` is false.
- `reopenRemoved`: the ledger remembers the session and not the snapshot
  (`runtime/recovery-prompt.ts:288`), so a session opened again after a removal loses its
  next recovery point without a question, though `docs/getting-started.md:228` says "Only
  `Remove it` deletes anything": `OnlyRemoveDeletes` is false.
- No fault stands for this one, it is part of the model: a pass reads the session once,
  before its awaits (`runtime/session-inbound-inputs.ts:151`), and a resume replaces the
  conversation (`core/session-resume-core.ts:87-93`) and awaits the model selection
  (line 130) before the poller's reference follows (`runtime/bootstrap-hook-bridge.ts:92-102`,
  `runtime/bootstrap.ts:295-297`). So a pass that a switch crosses puts the old session's
  steer in the new conversation, against line 17 ("a steer for another session can never
  land here"). `StraysOnlyInASwitch` says that it is that pass only. `overlap` is a second
  switch before the first has been told: the reference may then stay with the first.
- Nor for this one: the chain file is flushed and its listeners are removed at the start of
  the shutdown (`runtime/bootstrap.ts:711`, `runtime/bootstrap-core.ts:517`), which then
  awaits other steps up to its hard timeout (`runtime/process-lifecycle.ts:278-316`). A chain
  that ends meanwhile is announced as interrupted at the next launch, though
  `bootstrap-core.ts:515-516` says "final chain state is never silently dropped during a
  SIGINT/teardown". `InterruptedIsTrue` excuses that chain and the ones a crash loses.
- `Typed # Asks`: the retry context is set by each typed ask and never cleared
  (`main.ts:709`), so when a turn a companion submitted fails, failover rolls back to, and
  repeats, the ask typed before, against `core/stream-event-wiring.ts:198` ("False means
  ... the failed turn did not come from the composer"): `RetryIsFailedTurn` is false.
- `silent`: `/session resume` does not tell the poller, nor does a resume that throws
  half-way; it stays on the old session and hands that one's inputs to the new
  conversation (`PollsHeldSession` and `StraysOnlyInASwitch` are false). `sameInstant`: the cursor is exclusive and
  in milliseconds, so the second input of one millisecond is never listed.
- With the fault `ack` a failed acknowledgement is not retried (`AckIsRetried` is
  false), against the log line that says it will be.
- `overlap`: an ask submitted while a turn runs takes over the retry context. If the
  running turn then fails, the queued ask is what is repeated. `repick`: a model
  picked before a failover is undone is itself undone (`ConfiguredFirst`).
- `starved`: every event re-arms the debounce, with no longest wait. And with two
  terminals on one directory the chain file is whole-file last-writer-wins:
  `NothingForgotten` and `InterruptedIsTrue` are false, which is why the run has one.
- `verify`: a verification that throws is caught by nobody in the apply
  (`runtime/onboarding/apply.ts:584`, `verify.ts:99`), so no rollback runs, and the handler
  says that these settings could not be persisted (`input/handler-onboarding.ts:320-327`)
  while all of them stand. It is enabled in `onboarding`; the promise calls it torn.
- `foreign`: a file of answers that does not validate, or of another version, is read as
  empty, and the next write drops the other answers without a warning
  (`runtime/onboarding/state.ts:156`, 207): `AnswersAreKept` is false.
- `race`: two writers may see the same stale lock; the slower one's unlink then removes the
  lock the faster one has created (`runtime/onboarding/state.ts:95-105`). `slow`: the same
  without a race, when a holder is suspended for five seconds. Either breaks
  `HolderOwnsLock` and `AnswersAreKept`, without a warning.
- `sameFile`: a rollback restores a whole file, and with it what another writer changed in
  it since the snapshot (`AllOrNothing`).
- `keysPending`: a step key pressed while an apply is pending saves progress again, after
  the apply deleted it or before; the next launch opens a wizard whose setup was applied
  (`AppliedStaysDone`), against `runtime/onboarding/progress.ts:115-116`. `noMarker`: a
  marker that cannot be written throws before the progress is deleted
  (`input/handler-onboarding.ts:298-310`). `noUnlink`: a progress file that cannot be deleted
  is left without a word (`runtime/onboarding/progress.ts:119-122`), with the same effect. And the Continue button does not save progress
  at all (lines 122-144).
- `window`: the migration asks `is-active` a moment after the start. A new daemon that
  cannot serve, or that cannot have the port because the legacy one still holds it (the
  normal case), is active only until it has tried to bind; the legacy unit is then stopped
  for a daemon that may never come up: `KeepsADaemon`, `EndpointKept`. `flaky` is the other
  way round: one failed `is-active` uninstalls a managed unit that runs. `again`: the user
  migrates with the managed unit in place, whose rollback takes it away. The legacy unit's
  file is removed even when its stop and disable failed, and the receipt then still says
  that it was stopped and disabled.
- `lateStart`: the legacy unit is started between the reconcile's look at its process and
  `disable --now`, which stops it: `NeverStopsRunning`, `EndpointKept`. `noEndpoint`: without
  a configured endpoint the probe is left out and passes
  (`runtime/legacy-daemon-reconcile.ts:314`): `EndpointKept`. Nothing in the repository
  passes one.
- `together`: nothing locks the installed files; two swaps at one time may mix two
  releases: `NoStaleAddon`. Even one after the other, two terminals launched together after a
  release both swap, and the second keeps as `.previous` what the first installed:
  `KeepsAnother` in `InstalledFiles`, in no run, states what
  `input/commands/update-runtime.ts:19-23` says and is false. After `/update rollback` the
  advised restart updates again unless `autoUpdateAtLaunch` is off. The line "updated
  in background" has no counterpart: the swap is synchronous, so no timer fires in it.
- `outdated`: an update compares the release with the version that runs when it starts
  (`input/commands/update-runtime.ts:289-304`), and not with what another terminal has
  installed by the time it is downloaded. So a slow download of a release from before the
  addon may go over one that ships it; the addon stays, and a later update and rollback, which
  exchange each file with its own previous, pair a program with an older addon: `NoStaleAddon`.

## 3. The runs

| Run | Instance | States it shows | Properties |
|---|---|---|---|
| `selection_queue` | four callers, queue of two | one shown, two waiting, one refused; chains and continuations | SlotBelongsToShown, NoStrandedQueue, CallersServed, QueuedIsAnswered |
| `approval_cards` | three of four asks, one of each shape; all three origins | every order of asking, claiming, deciding elsewhere and pressing | CardIsOpen, LoneAskIsShown, AnswersCardSeen, CardNotStolen |
| `session_files` | two terminals, two sessions, two turns, six faults | a turn stored, journalled or lost; forks and recoveries by another terminal; launches with two questions | CompletedTurnsSurvive, OneHolder, OwnConversationOnly |
| `recovery_points` | two terminals, two sessions, one turn; save, append, load | every answer to an offer, kept points through later launches | RecoveryPointSurvives, KeptIsOfferedAgain, OnlyRemoveDeletes |
| `turn_failover` | two typed asks, three providers; three faults | two hops, both ways back failing, late retries, the second ask after a failed first | DivergenceIsShown, OneNotice, RetryIsFailedTurn, RetryKeyIsFailedTurn, ConfiguredFirst, NoPingPong, EndIsTold |
| `inbound_inputs` | two steers and one own input, two sessions, three instants; list, ack, swap | relisted inputs, lost acknowledgements, a return to a session, passes that a switch crosses | InjectedOnce, ServesMailbox, StraysOnlyInASwitch, QueuedIsCollected |
| `wrfc_chains` | one terminal, three chains, room for one ended chain; disk | a full history, crash in the debounce, ends in a shutdown, reaped imports | HistoryIsOnFile, NothingForgotten, InterruptedIsTrue, EndIsSaved |
| `onboarding` | three requests over seven cells, one step before the review; undo, verify, noProgress | failures and deaths at each write, rollbacks that restore a part, a second setup, a server turned on again beside the account that is there | AllOrNothing, SoundAtAnyMoment, AppliedStaysDone |
| `acknowledgements` | three processes, two answers, two attempts; disk | locks left by the dead, takeovers, a writer without the lock among two | HolderOwnsLock, AnswersAreKept |
| `daemon_migration` | the two units; no fault kind, every call's outcomes | rollbacks that get half way, `disable` with unknown effect, reboots in between | KeepsADaemon, EndpointKept, NeverStopsRunning |
| `self_update` | two terminals, four releases, the addon from the third on | deferrals with a download under way, updates across two releases, rollbacks | DeferredIsTrue, NoStaleAddon, LaunchEnds |
| `hidden_ask` | two broker asks | section 5 | NoHiddenAsk, violated |

Each module has a type invariant, `TypeOK`. It is not among the properties of the runs: it
is proved, without assumptions on the faults, for every module (as `TypeCorrect`,
`UpdateTypeCorrect`, `ServiceTypeCorrect`, or within the inductive invariant `IInv` of
`SelectionQueue`).

**What each property says** is in the comment above it. The ones that took most
thought: `CompletedTurnsSurvive` relates turns that completed to what *some* resume
would bring back through every later switch, crash and failing write;
`AnswersCardSeen` relates an answer to what the user had on screen when pressing the
key, not when it is read; `NothingForgotten` lets a chain leave the file only for
`MaxHistory` others that ended no earlier; `RetryIsFailedTurn` relates a rollback to
the messages of the turn that failed; `LoneAskIsShown` and `NoHiddenAsk` say when an
ask may be without a card, one true and one not. `CallersServed`, `ServesMailbox`,
`AllOrNothing` and `AnswersAreKept` are refinements: every step of the module is a step of
the promise, or none. `SoundAtAnyMoment` is what the order of the operations and the reverse order of the
rollbacks are for; it excuses only a state that was unsound before and
a rollback that failed.

**Why the bounds are enough.** A queue of two is the least that has an order, and
one more caller meets the limit. Two sessions and two processes are the least for a
conversation in the wrong file or a session held twice; a second turn is the least
for an older file to win over a newer one. A launch whose second question is about
another session than its first needs a third one; that is left to the proofs, which
cover both cases. Three providers are the least for a
second hop that must avoid the first, and a second ask is the least for a context
that outlives its turn. Two inputs in three instants are the least for a cursor
that runs ahead of one. Three chains with room for one make the history drop
something while another is running. Asks meet in threes so that a card may be
replaced while a third is waiting. The requests write every kind of operation that
another builds on, or leave it alone, and are applied to what the others left; three writers are the least for
one without the lock to meet a holder and a third; four releases are the
least for an update without the addon, one with it and one after, and a rollback between any
two.

**Bounds in guards.** `MaxQueued` is `MAX_QUEUED_SELECTIONS`, `MaxHistory` is
`MAX_TERMINAL_HISTORY`; `MaxTime` bounds the daemon's clock and the number of ends;
`MaxTries` is `LOCK_MAX_RETRIES`, `MaxVersion` the number of releases; `ThreeAsked` is a
state constraint of one cfg; turns, asks, requests and session
ids are each used once. `FileView` leaves out of a state, in `session_files`, the
history no property of the run mentions and `answeredThisRun` where it is no
longer read. `Symmetry` permutes terminals, sessions and turns, in runs without
liveness properties only.

**Deadlock** is off where something is used up: requests, asks, random session ids,
inputs. The other runs check it.

Every property of a passing run has a mutant: one defective definition under which
TLC finds the property violated in the same configuration.

## 4. Fairness

Machinery is fair and users are not, except where a claim is about a user who acts.

- `SelectionQueue`: microtasks run. Escape is weakly fair: `QueuedIsAnswered` is a
  claim about users who do not keep a picker open for ever.
- `InboundInputs`: the poll interval fires (WF `StartPass`) and every deliver call
  answers or fails (WF). A list call that is tried again and again succeeds at some
  time, and so does an acknowledgement (SF): a daemon that refuses for ever collects
  nothing, and the code claims nothing of it. The model selection a resume awaits settles,
  one way or the other (WF `TellPoller`).
- `TurnFailover`: a submission starts, a turn ends and the grace timer fires (WF). The
  start of a failover's own retry is *not* fair: a retry that never starts is what the
  grace timer is for.
- `WrfcPersistence`: an armed timer fires (WF), so events pause for 250 ms now and then;
  the fault `starved` is the course in which they do not. A shutdown ends (WF `Exit`): it
  has a hard timeout.
- `SelfUpdate`: both timers of a launch fire and a swap that has begun goes on (WF). The
  network owes nothing, which is what the timers are for.
- `SessionDurability`, `ApprovalCards`, `OnboardingWizard`, `AcknowledgementFile` and
  `DaemonMigration` have safety properties only: processes may crash at any time, users may
  never answer and `systemctl` may always fail.

## 5. A disagreement between code and documentation

`hidden_ask`, which TLC finds violated; `PROJECT.json` quotes the line. A broker ask
published while a card is up gives up for good (`broker-approval-card.ts:182`); when that
card goes nothing looks for the others, though the card had counted them as waiting behind
it. Others of the kind, which no run shows, are in the list of section 2 with the fault
that reproduces each: `keepThenOpen`, `reopenRemoved`, `askedTwice`, `Typed # Asks`,
`keysPending`, `race`, and `KeepsAnother`; two more are in the model without a fault, the
poll pass that a switch crosses and the chain that ends in a shutdown.

## 6. Proofs

TLAPS proves these for every value of the constants that meets the assumptions declared
beside them (TLC evaluates those in the runs). "None" in the last column means any faults.

| Module | Theorems | Assumed besides |
|---|---|---|
| SelectionQueueProofs | ShownOwnsSlot, QueueIsDrained, QueueServesCallers | none |
| ApprovalCardsProofs | TypeCorrect, ShownIsOpen, KeysAnswerCardSeen, BrokerAsksWait, LoneAsksShow | none |
| SessionDurabilityProofs | TypeCorrect | none |
| | OwnInvariant, ResumesOwnConversation | neither `load` nor `midTurn` |
| | OneProcessPerSession | `Orderly` |
| | NoTurnIsLost | `Orderly`, neither `askedTwice` nor `load` |
| | PromisesAreKept | `Orderly`, no `askedTwice`, `reopenRemoved`, `keepThenOpen` |
| | PointsGoOnlyWhenAnswered | `Orderly`, neither `askedTwice` nor `reopenRemoved` |
| | RecoveryPointsLast | `Orderly`, no `askedTwice`, `dieApplying`, `reopenRemoved`, `openPastPoint` |
| InboundInputsProofs | TypeCorrect, NeverInjectedTwice, DeliveredWasHandedOver, PollerServesMailbox | none |
| | SteersTheirOwn, PollsItsOwn | `AlwaysTold` |
| TurnFailoverProofs | TypeCorrect | none |
| | DivergenceAlwaysShown | no `repick` |
| | ToldOnce, RetriesTheFailedTurn, KeyRetriesTheFailedTurn, NeverTriedTwice, StartsOnSelection | `OneUser` |
| WrfcPersistenceProofs | TypeCorrect | none |
| | HistoryStaysOnFile, OnlyInterruptedAnnounced | `Alone` |
| | FileForgetsNothing | `Alone`, no `starved` |
| OnboardingProofs | TypeCorrect | none |
| | ApplyIsTransaction, NothingStandsAlone | `FilesApart` |
| | AppliedIsOver | `Unhindered` |
| SharedFilesProofs | TypeCorrect (of AcknowledgementFile) | none |
| | HoldersOwnLock | neither `race` nor `slow` |
| | ImplementsRegister | no `race`, `slow`, `foreign` |
| | UpdateTypeCorrect, DeferredStaysDeferred (of SelfUpdate) | none |
| | AddonKeepsUp | `Sequential` |
| | ServiceTypeCorrect (of DaemonMigration) | none |
| | ADaemonIsKept | `Careful` |
| | EndpointIsKept | `Careful`, neither `lateStart` nor `noEndpoint` |
| | RunningIsLeftAlone | no `lateStart` |

The hypotheses leave out courses of events that section 2 lists, with what each breaks;
everything else that goes wrong in a module, the failing writes and calls, the crashes at
any point and the other terminals, is covered.
`Orderly` is none of `lateMarker`, `staleOffer`, `force` and `sameName`.
`AlwaysTold` is neither `silent` nor `overlap`: the poller is told of every session switch,
and before the next one, at any point of a pass and after any number of passes in between. `OneUser` is `Typed = Asks` without `overlap` and
`repick`: one user who types one ask after another and picks no model in between. `Alone`
is one terminal on the directory. `FilesApart` is no `sameFile`, `Unhindered` none of
`noMarker`, `noUnlink` and `keysPending`, `Sequential` neither `together` nor `outdated`,
`Careful` none of `again`, `window` and `flaky`. The onboarding assumptions `RequestsAssumption` and
`BuildsAssumption` say how an operation relates to the scope of its rollback, and that what
a setting builds on is written by an operation of an earlier kind and only to values it can
build on; others who write it do so too. `DrainAssumption` says that the drain is no
caller's request.

**The arguments.**

*SelectionQueue*: `IInv` is TypeOK, SlotBelongsToShown and NoStrandedQueue. The slot's
owner alone is not preserved by a select, whose write-back keeps what the callback
chained, without the types of the queue; that a stranded queue has a drain on its way
needs the owner to know when a resolve has left the modal closed. For `CallersServed`,
`PlaceInv` puts each caller in one place: on screen, once in the queue, once among the
microtasks, answered or not yet come. A step then moves one caller and so maps to one step
of the desk.

*ApprovalCards*: `Inv` is TypeOK, CardIsOpen and `KeyMeant`. The last says that a key
on its way was meant for the card that now reads keys, whenever one does: a key
pressed before a card came is read in its settle window, and a replacement starts a
window of its own. `LoneInv` adds, for LoneAskIsShown, that an open ask that is not on
screen is queued, answered or excused.

*SessionDurability*: `OwnInv` says that every file and every live conversation of a
session holds only turns that belong to it. One lemma per operation on a shelf
(`Written`, `Deleted`, `Resumed`, `Folded`) bounds what the operation yields; each
action is then an instance. The rest builds on `SoleInv`: whatever phase two processes are
in, they are not in one session. `SecuredInv`, for CompletedTurnsSurvive, says that some
session is `Home` to each turn that completed: its store and journal bring it back, so does
its recovery point if that is what the next launch would offer, and whoever holds the
session has the turn on screen. The last part is what makes it inductive, since it is the
holder's conversation that the next write puts over the file. `PointInv`, for the recovery
points, says that a session whose removal is on record has no point to offer and no holder;
`PromiseInv` that a kept point is
on file as it was and nobody is in its session. `OwedInv` follows what a point owes: the
process that took the point up has it and has still to store it, or every holder has it on
screen and the files bear it (`Bears`: the point itself and what answering it would
restore, or, with none to offer, the store).

*InboundInputs*: `OnceInv` adds to the types that an input handed over in this stay
lies at or before the cursor and is not in the batch, so no later pass lists it,
however many acknowledgements fail. `TruthInv` adds to DeliveryTruth that the input whose
acknowledgement is awaited has been handed over. `OwnInv` says that the poller's reference
is the conversation's session, or is about to be set to it, and that a pass under way asked for
the session of the conversation unless a switch has crossed it. `BoxInv`, for ServesMailbox,
says that a pass asks for the session the poller turned to, and that all in the batch is
queued there still, which holds through any switch; an acknowledgement then delivers what was injected in this stay, and the loop goes
on to inject what was not.

*TurnFailover*: `TurnInv` has four parts, one per thing a turn's end may leave behind
(what runs, what waits, what is withheld, what the retry key would do), and says of
each that the retry context still names the last turn of the transcript. `SelectionInv`
and `FirstInv` track the visited set and the selection.

*WrfcPersistence*: `OnceOver` says that a chain ends once: one that is recorded is no longer
listed, or with the end that is recorded. `TrueInv` says that a chain which has ended and
still counts as running, on file or in the process, lost its end with a process that died
before it wrote, or ended after the flush of its shutdown. `KnowsInv`, for NothingForgotten, relates the file to the process: each
chain on file is still listed, or the history is `Safe` for it, which is to say has it or is
full of ends no earlier than its own.

*OnboardingApply*: for the transaction, `Kept`: for each cell the oldest rollback action
whose scope has it saved its `base`, and a cell no action covers still equals `base`; so
the actions, run in reverse from wherever the apply stands, end at `base`. That end alone
says nothing of the way there. For `SoundAtAnyMoment`, `Unwinds` names every state the
actions would pass through, and `Fair` says of each, and of the store, that a setting the
request changed has what it builds on. A write keeps it because what has not been applied
is of no earlier kind than what is being applied (`InTurn`; the sort leaves nothing out,
`OrderedWhole`, since its places are distinct and as many as there are), and a rollback
steps from one named state to the one before. `DoneInv` is the wizard's part.

*AcknowledgementFile*: that a holder owns its lock needs the lock to be young while it is
held and a takeover to find it either gone or stale. For the register, the invariant says
that unless somebody has warned every writer in its section holds the lock, so that what it
has read is what is on file when it writes. Each step
then maps to `Record`, `LastWriterWins`, `Warn` or a stutter.

*SelfUpdate*: a deferral comes with the signal and before the swap, and the signal stops what
is left of the job before it replaces anything (`DeferInv`). For `NoStaleAddon`, `Matched`
relates all four files, since a rollback makes the kept pair the installed one: there is no
addon only while program and previous program are from before it, and the addon a rollback
would leave is no older than the program it would leave. Each update and each rollback takes a
matched four to a matched four (`MatchedNew`, `MatchedBack`); in between, `Swap` says of each
point of a swap that what it has still to do will make them match. The first attempt at this
proof is what brought `outdated` to light: with three releases no instance reached it.
The proofs instantiate `SelfUpdate` over the files `InstalledFiles` declares.

*DaemonMigration*, instantiated over `ServiceUnits`: `KeptInv` says which unit can be relied
on. Until the managed daemon has served it is the legacy one (`LegacyKept`): enabled, never
stopped, and holding the port against a managed daemon that is not there to stay. From then
on it is the managed one (`ManagedKept`): installed, enabled, up or coming up, and past the
point where a migration would roll it back. `StepsInv` says what the guards on the way to each
step have established and nobody can have undone since, `OtherPortInv` that a reconcile goes
no further than its probe while the managed daemon has another port than the configured one,
and `RetiredInv` that a legacy unit it found not running stays so until it is disabled. A run with each set of faults shows the hypotheses to be the least: any
fault more breaks the property.

**Only model-checked**: the liveness properties (`QueuedIsAnswered`, `QueuedIsCollected`,
`EndIsSaved`, `EndIsTold`, `LaunchEnds`), which with fairness and ENABLED are out of the
prover's reach.

## 7. What is not covered

In the modelled parts: `/session delete`, `rename` and `export`, the anchor and
work-tree sidecars, the reaper of orphaned files, files with equal timestamps, the
SDK's own crash window within a write; the quarantine of a corrupt chain file; the
tier an answer remembers, the hunks it picks and the alert of a card; the stream
metrics and what a notice says; preflight failures and an optimizer switched off in the
middle of a failover; what the orchestrator does with an injected steer; the wizard's forms
and how they build a request, its runtime snapshot, provider and Cloudflare actions, service
restarts after an apply, the age at which progress expires; hosts without systemd, the
handover of an old daemon binary, dry runs; `/update check`, `review` and `bundle`, installs
that are not one binary, and a restart that cannot be spawned after a swap (it exits 0).
`SelfUpdate` takes it that the SDK's swap does not await between the last byte and the first
rename; if it did, a budget could run out in between.

Not modelled at all (the last column of `PROJECT.json`'s components gives the reason):
presentation, editing, forms, command wrappers, launch and packaging, which are
single-threaded or show state the SDK keeps. Voice capture (`audio/`) is not modelled
because what can go wrong there, a stop during an awaited start on one microphone, is decided
in the SDK's `PushToTalkSession` and `WakeListener`. Known to be hard and planned:

- `mcp/runtime-reload.ts`: a configuration change seen while a reload runs is dropped;
- `runtime/recovery-decisions.ts`: two processes rewrite the ledger without a lock, and
  pruning reads and writes it apart from recording;
- the fix-session key arms without a settle window, unlike the card;
- the promise of applying a diff is not settled when a prompt displaces its card.

## 8. Plan

Every safety property of a run has its theorem. Parts that are hard and not yet modelled:

1. `DecisionLedger`: the ledger file with its cap and age, rewritten by several
   processes; then `SessionDurability`'s set as its abstraction.
2. `ConfigReload` (MCP) and `StartupTypeahead` (keys held for a startup modal).
3. The fix-session key and the diff promise in `ApprovalCards`; a module
   `KeyRouting` that composes card, retry key, fix-session key and `SelectionQueue`.
4. `CompanionTurns`: `InboundInputs` feeding `TurnFailover`.
5. `StallWatchdog` with cancellation; hosted feed and fleet stop; daemon attach.

## 9. How to run

In this directory, with TLC and the community modules on the path:

    tlc -workers 2 -config MCSelectionQueue.cfg MCSelectionQueue
    tlapm SelectionQueueProofs.tla

The runs take from a second to a minute or two each; `approval_cards`, with around a
million states, is the longest.
