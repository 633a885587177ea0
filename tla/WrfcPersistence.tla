-------------------------- MODULE WrfcPersistence --------------------------
(***************************************************************************)
(* The snapshot of WRFC chains (runtime/wrfc-persistence.ts): every         *)
(* workflow event arms a trailing debounce, whose timer writes the chains   *)
(* the controller lists together with a bounded history of those that       *)
(* ended; a new process reads the file, imports what had not ended and      *)
(* announces it as interrupted.                                             *)
(*                                                                          *)
(* The controller is external: it lists a chain from its creation until     *)
(* some time (60 s) after its end, and may end an imported chain on the     *)
(* spot (the zombie reap).  Writing and reading the file are synchronous,   *)
(* so each action is one callback.  bootstrap.ts rehydrates before anything *)
(* can start a chain, and a signal before that is a crash.  A shutdown      *)
(* writes once more and stops listening, and then awaits the rest of its    *)
(* work while the chains still run.                                         *)
(***************************************************************************)
EXTENDS Naturals, FiniteSets

CONSTANTS
    Chains,
    Terminals,      \* processes opened on the same directory
    MaxHistory,     \* MAX_TERMINAL_HISTORY
    MaxTime,        \* bound on the number of ends in a run
    Faults          \* what goes wrong in this run (FaultKinds)

FaultKinds ==
    {"disk",        \* a write fails; _writeSnapshot swallows that
     "starved"}     \* events re-arm the debounce for longer than a chain that
                    \* ended is listed

ASSUME ChainsAssumption == IsFiniteSet(Chains)
ASSUME MaxHistoryAssumption == MaxHistory \in Nat
ASSUME MaxTimeAssumption == MaxTime \in Nat
ASSUME FaultsAssumption == Faults \subseteq FaultKinds

\* A chain as a listing carries it; at is completedAt.
Absent == [state |-> "absent", at |-> 0]
Active == [state |-> "active", at |-> 0]
Ended(t) == [state |-> "ended", at |-> t]
Record == {Absent, Active} \cup {Ended(t) : t \in 1 .. MaxTime}
Listing == [Chains -> Record]

VARIABLES
    file,           \* wrfc-chains.json
    up,             \* terminals past rehydrate()
    closing,        \* those of them whose shutdown is under way
    live,           \* listChains() of each terminal
    history,        \* _terminalHistory
    interrupted,    \* _interruptedChains
    armed,          \* terminals whose _debounceTimer is set
    unrecorded,     \* listed chains that ended since the terminal's last write
    clock,          \* number of ends so far
    hasEnded,       \* history: chains that ended in some terminal
    lost,           \* history: chains the file was behind on when their terminal
                    \* died or could not write, or that ended in its shutdown
    behind          \* history: terminals whose last write failed

process == <<up, closing, live, history, interrupted, armed, unrecorded>>
vars == <<file, process, clock, hasEnded, lost, behind>>

Present(l) == {c \in Chains : l[c] # Absent}
Running(l) == {c \in Chains : l[c] = Active}
Over(l) == Present(l) \ Running(l)
None == [c \in Chains |-> Absent]
Only(l, S) == [c \in Chains |-> IF c \in S THEN l[c] ELSE Absent]

TypeOK ==
    /\ file \in Listing
    /\ up \subseteq Terminals
    /\ closing \subseteq up
    /\ live \in [Terminals -> Listing]
    /\ history \in [Terminals -> Listing]
    /\ \A t \in Terminals :
         Running(history[t]) = {} /\ Cardinality(Over(history[t])) <= MaxHistory
    /\ interrupted \in [Terminals -> SUBSET Chains]
    /\ armed \subseteq up \ closing
    /\ unrecorded \in [Terminals -> SUBSET Chains]
    /\ clock \in 0 .. MaxTime
    /\ hasEnded \subseteq Chains /\ lost \subseteq Chains
    /\ behind \subseteq Terminals

Init ==
    /\ file = None
    /\ up = {}
    /\ closing = {}
    /\ live = [t \in Terminals |-> None]
    /\ history = [t \in Terminals |-> None]
    /\ interrupted = [t \in Terminals |-> {}]
    /\ armed = {}
    /\ unrecorded = [t \in Terminals |-> {}]
    /\ clock = 0
    /\ hasEnded = {} /\ lost = {} /\ behind = {}

-----------------------------------------------------------------------------
\* _mergeWithHistory: a live entry wins.
MergedLiveOnly(l, h) == l
Merged(l, h) == [c \in Chains |-> IF l[c] # Absent THEN l[c] ELSE h[c]]

\* takeMostRecentTerminal: the MaxHistory ends of a listing that came last,
\* any of them among equals.
MostRecent(l) ==
    {Only(l, S) : S \in {S \in SUBSET Over(l) :
        /\ \/ Cardinality(S) = MaxHistory
           \/ S = Over(l) /\ Cardinality(S) < MaxHistory
        /\ \A c \in S, o \in Over(l) \ S : l[c].at >= l[o].at}}

\* _recordTerminalHistory: ended chains of the listing replace their entries.
Recorded(t, l) == MostRecent(Merged(Only(l, Over(l)), history[t]))

\* _writeSnapshot replaces the file or, with a failing disk, leaves it.
WriteFile(t, l) ==
    \/ file' = l /\ behind' = behind \ {t}
    \/ "disk" \in Faults /\ UNCHANGED file /\ behind' = behind \cup {t}

\* _writeCurrentSnapshot
WriteCurrent(t) ==
    \E h \in Recorded(t, live[t]) :
        /\ history' = [history EXCEPT ![t] = h]
        /\ WriteFile(t, Merged(live[t], h))

-----------------------------------------------------------------------------
\* Chains of the file that rehydrate() takes for unfinished.
Unfinished(l) == Running(l)

\* Whether rehydrate() rewrites the file it has read.
NeverRewrites(reaped, pruned) == FALSE
Rewrites(reaped, pruned) == reaped # {} \/ pruned

\* A process starts and rehydrates; the import ends some of the chains.
Start(t) ==
    /\ t \notin up
    /\ \E reaped \in SUBSET Unfinished(file) :
         LET found == [c \in Chains |-> IF c \in reaped THEN Ended(clock + 1) ELSE file[c]]
             kept == Unfinished(file) \ reaped
         IN /\ clock' = IF reaped = {} THEN clock ELSE clock + 1
            /\ clock' <= MaxTime
            /\ live' = [live EXCEPT ![t] = Only(found, Unfinished(file))]
            /\ interrupted' = [interrupted EXCEPT ![t] = kept]
            /\ hasEnded' = hasEnded \cup reaped
            /\ \E h \in MostRecent(Only(found, Chains \ kept)) :
                 /\ history' = [history EXCEPT ![t] = h]
                 /\ IF Rewrites(reaped, Over(file) \ Over(h) # {})
                    THEN WriteFile(t, Merged(Only(found, kept), h))
                    ELSE UNCHANGED file /\ behind' = behind \ {t}
    /\ up' = up \cup {t}
    /\ UNCHANGED <<closing, armed, unrecorded, lost>>

\* The terminals whose debounce is set after an event in t, which no longer
\* listens in its shutdown.
ArmsNothing(t) == armed
ArmedBy(t) == armed \cup ({t} \ closing)

\* WORKFLOW_CHAIN_CREATED
Create(t, c) ==
    /\ t \in up
    /\ c \notin Present(file) \cup hasEnded \cup lost
    /\ \A u \in Terminals : live[u][c] = Absent
    /\ live' = [live EXCEPT ![t][c] = Active]
    /\ armed' = ArmedBy(t)
    /\ UNCHANGED <<file, up, closing, history, interrupted, unrecorded, clock, hasEnded, lost, behind>>

\* The other events of a running chain (state change, review, fix, gate).
Progress(t, c) ==
    /\ t \in up /\ live[t][c] = Active
    /\ armed' = ArmedBy(t)
    /\ UNCHANGED <<file, up, closing, live, history, interrupted, unrecorded, clock, hasEnded,
                   lost, behind>>

\* WORKFLOW_CHAIN_PASSED, WORKFLOW_CHAIN_FAILED
Finish(t, c) ==
    /\ t \in up /\ live[t][c] = Active
    /\ clock < MaxTime
    /\ clock' = clock + 1
    /\ live' = [live EXCEPT ![t][c] = Ended(clock + 1)]
    /\ armed' = ArmedBy(t)
    /\ unrecorded' = [unrecorded EXCEPT ![t] = @ \cup {c}]
    /\ hasEnded' = hasEnded \cup {c}
    /\ lost' = IF t \in closing THEN lost \cup {c} ELSE lost
    /\ UNCHANGED <<file, up, closing, history, interrupted, behind>>

\* The debounce has long fired when the controller forgets a chain.
Forget(t, c) ==
    /\ t \in up /\ c \in Over(live[t])
    /\ c \in unrecorded[t] => "starved" \in Faults
    /\ live' = [live EXCEPT ![t][c] = Absent]
    /\ unrecorded' = [unrecorded EXCEPT ![t] = @ \ {c}]
    /\ UNCHANGED <<file, up, closing, history, interrupted, armed, clock, hasEnded, lost, behind>>

TimerFires(t) ==
    /\ t \in armed
    /\ armed' = armed \ {t}
    /\ WriteCurrent(t)
    /\ unrecorded' = [unrecorded EXCEPT ![t] = {}]
    /\ UNCHANGED <<up, closing, live, interrupted, clock, hasEnded, lost>>

\* What a process that ends leaves in memory.
Down(t) ==
    /\ up' = up \ {t}
    /\ closing' = closing \ {t}
    /\ live' = [live EXCEPT ![t] = None]
    /\ history' = [history EXCEPT ![t] = None]
    /\ interrupted' = [interrupted EXCEPT ![t] = {}]
    /\ armed' = armed \ {t}
    /\ unrecorded' = [unrecorded EXCEPT ![t] = {}]
    /\ behind' = behind \ {t}
    /\ UNCHANGED <<file, clock, hasEnded>>

\* Chains the file does not show as the process knows them.
Unsaved(t) == {c \in Chains : file[c] # Merged(live[t], history[t])[c]}

Crash(t) ==
    /\ t \in up
    /\ Down(t)
    /\ lost' = lost \cup Unsaved(t)

\* flush(), whether or not the timer is set.
FlushNothing(t) == UNCHANGED <<file, behind, history>>
Flush(t) == WriteCurrent(t)

\* A clean shutdown begins: the snapshot is flushed and the listeners of attach()
\* are removed before anything is awaited.
BeginQuit(t) ==
    /\ t \in up \ closing
    /\ Flush(t)
    /\ closing' = closing \cup {t}
    /\ armed' = armed \ {t}
    /\ unrecorded' = [unrecorded EXCEPT ![t] = {}]
    /\ lost' = IF t \in behind' THEN lost \cup Unsaved(t) ELSE lost
    /\ UNCHANGED <<up, live, interrupted, clock, hasEnded>>

\* process.exit, when the shutdown is through or its hard timeout is over.
Exit(t) ==
    /\ t \in closing
    /\ Down(t)
    /\ UNCHANGED lost

Next ==
    \E t \in Terminals :
        \/ Start(t) \/ TimerFires(t) \/ Crash(t) \/ BeginQuit(t) \/ Exit(t)
        \/ \E c \in Chains : Create(t, c) \/ Progress(t, c) \/ Finish(t, c) \/ Forget(t, c)

Spec == Init /\ [][Next]_vars

\* An armed timer fires: events do not follow each other within 250 ms for ever.
\* A shutdown ends, at its hard timeout at the latest.
FairSpec == Spec /\ \A t \in Terminals : WF_vars(TimerFires(t)) /\ WF_vars(Exit(t))

-----------------------------------------------------------------------------
(***************************************************************************)
(* A chain that is on the file leaves it only to make room for MaxHistory   *)
(* chains that ended no earlier: neither the controller forgetting it, nor  *)
(* a restart, a crash or a failing write makes the file forget it           *)
(* (wrfc-persistence.ts:327: "so the persisted file never loses a terminal  *)
(* chain").                                                                 *)
(***************************************************************************)
NothingForgotten ==
    [][\A c \in Present(file) \ Present(file') :
         \E S \in SUBSET Over(file') :
             Cardinality(S) = MaxHistory /\ \A o \in S : file'[o].at >= file[c].at]_vars

(***************************************************************************)
(* What the resume notice is told to be over (knownChains) is on the file   *)
(* as over, unless the last write failed: a chain reaped at the start is    *)
(* not reaped again by the next one (wrfc-persistence.ts:244).              *)
(***************************************************************************)
HistoryIsOnFile ==
    \A t \in up \ behind : \A c \in Over(history[t]) : file[c] = history[t][c]

(***************************************************************************)
(* "was interrupted by a restart" is said of a chain only if it is running  *)
(* in no other terminal, and had not ended, unless the terminal it was in   *)
(* crashed, or was shutting down and could not write or had written already *)
(* when it ended: no end that came before a clean shutdown is lost          *)
(* (bootstrap-core.ts:515).                                                 *)
(***************************************************************************)
InterruptedIsTrue ==
    [][\A t \in Terminals : \A c \in interrupted'[t] \ interrupted[t] :
         /\ \A u \in Terminals \ {t} : live[u][c] # Active
         /\ c \in hasEnded => c \in lost]_vars

(***************************************************************************)
(* The end of a chain reaches the file, unless the process ends first or a  *)
(* write fails (wrfc-persistence.ts:283, the debounce).                     *)
(***************************************************************************)
EndIsSaved ==
    \A t \in Terminals, c \in Chains :
        c \in unrecorded[t] ~> file[c].state = "ended" \/ t \notin up \/ t \in behind
=============================================================================
