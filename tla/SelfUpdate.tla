----------------------------- MODULE SelfUpdate -----------------------------
(***************************************************************************)
(* A binary install that replaces itself: at every launch                   *)
(* (cli/launch-auto-update.ts) and on /update apply and /update rollback    *)
(* (input/commands/update-runtime.ts).  Several terminals are started from  *)
(* one pair of files, the program and the vector addon beside it, and       *)
(* nothing locks them.  The network may answer late or never.               *)
(***************************************************************************)
EXTENDS InstalledFiles, Sequences

CONSTANT Faults  \* what goes wrong in an instance, of FaultKinds

FaultKinds == {
    "together",   \* two processes replace the files at the same time
    "outdated"}   \* a release from before the addon is installed over a later one
ASSUME FaultsAssumption == Faults \subseteq FaultKinds

VARIABLES
    latest,    \* the release the server names
    auto,      \* update.autoUpdateAtLaunch
    runs,      \* version a process runs, or Nothing
    pc,        \* "off", "check" and "install" (launching), "session"
    target,    \* the version its job installs
    todo,      \* file operations its swap has still to make
    signal     \* its job has been aborted

vars == <<latest, auto, installed, runs, pc, job, target, todo, signal, said>>

TypeOK ==
    /\ latest \in Versions /\ auto \in BOOLEAN
    /\ live \in [Files -> Versions \cup {Nothing}]
    /\ previous \in [Files -> Versions \cup {Nothing}]
    /\ runs \in [Processes -> Versions \cup {Nothing}]
    /\ pc \in [Processes -> {"off", "check", "install", "session"}]
    /\ job \in [Processes -> {"none", "resolve", "download", "swap"}]
    /\ target \in [Processes -> Versions \cup {Nothing}]
    /\ todo \in [Processes -> Seq({"keep", "place"} \X Files)]
    /\ signal \in [Processes -> BOOLEAN]
    /\ said \in [Processes -> {"", "deferred"}]

Shipped(v) == IF v >= FirstAddon THEN Files ELSE {"app"}

\* The install script has put the first release there.
Init ==
    /\ latest = 1 /\ auto \in BOOLEAN
    /\ live = [f \in Files |-> IF f \in Shipped(1) THEN 1 ELSE Nothing]
    /\ previous = [f \in Files |-> Nothing]
    /\ runs = [p \in Processes |-> Nothing]
    /\ pc = [p \in Processes |-> "off"]
    /\ job = [p \in Processes |-> "none"]
    /\ target = [p \in Processes |-> Nothing]
    /\ todo = [p \in Processes |-> <<>>]
    /\ signal = [p \in Processes |-> FALSE]
    /\ said = [p \in Processes |-> ""]

Set(var, p, value) == [var EXCEPT ![p] = value]
FilesFree(p) == "together" \in Faults \/ \A q \in Processes \ {p} : ~Swapping(q)
-----------------------------------------------------------------------------
\* The server and the user (external).
Release ==
    /\ latest < MaxVersion
    /\ latest' = latest + 1
    /\ UNCHANGED <<auto, installed, runs, pc, job, target, todo, signal, said>>

Setting ==
    /\ auto' = ~auto
    /\ UNCHANGED <<latest, installed, runs, pc, job, target, todo, signal, said>>

Quit(p) ==
    /\ pc[p] = "session"
    /\ ~Swapping(p)
    /\ pc' = Set(pc, p, "off")
    /\ runs' = Set(runs, p, Nothing)
    /\ job' = Set(job, p, "none")
    /\ said' = Set(said, p, "")
    /\ UNCHANGED <<latest, auto, installed, target, todo, signal>>

-----------------------------------------------------------------------------
\* A launch.
Launch(p) ==
    /\ pc[p] = "off"
    /\ live["app"] # Nothing
    /\ runs' = Set(runs, p, live["app"])
    /\ pc' = Set(pc, p, IF auto THEN "check" ELSE "session")
    /\ signal' = Set(signal, p, FALSE)
    /\ UNCHANGED <<latest, auto, installed, job, target, todo, said>>

\* The version check: an answer, or the timer.
Checked(p) ==
    /\ pc[p] = "check"
    /\ IF runs[p] >= latest
       THEN pc' = Set(pc, p, "session") /\ UNCHANGED job
       ELSE pc' = Set(pc, p, "install") /\ job' = Set(job, p, "resolve")
    /\ UNCHANGED <<latest, auto, installed, runs, target, todo, signal, said>>

CheckSkipped(p) ==
    /\ pc[p] = "check"
    /\ pc' = Set(pc, p, "session")
    /\ UNCHANGED <<latest, auto, installed, runs, job, target, todo, signal, said>>

\* The budget of the installation; it does not run out during the swap, which
\* is synchronous.
DownloadsOnly(p) == job[p] = "download"
Budgeted(p) == ~Swapping(p)
OutOfBudget(p) ==
    /\ pc[p] = "install"
    /\ Budgeted(p)
    /\ pc' = Set(pc, p, "session")
    /\ signal' = Set(signal, p, TRUE)
    /\ said' = Set(said, p, "deferred")
    /\ UNCHANGED <<latest, auto, installed, runs, job, target, todo>>

\* What runLaunchAutoUpdate does when applyUpdate returns: restart onto the
\* new file.  The new process takes the marker and does not check again.
Onto(p) ==
    IF pc[p] = "install"
    THEN pc' = Set(pc, p, "session") /\ runs' = Set(runs, p, live'["app"])
    ELSE UNCHANGED <<pc, runs>>

\* ... and when it throws.
Carries(p) == pc' = Set(pc, p, IF pc[p] = "install" THEN "session" ELSE pc[p])
-----------------------------------------------------------------------------
\* applyUpdate.
UserApplies(p) ==
    /\ pc[p] = "session"
    /\ job[p] = "none"
    /\ job' = Set(job, p, "resolve")
    /\ signal' = Set(signal, p, FALSE)
    /\ said' = Set(said, p, "")
    /\ UNCHANGED <<latest, auto, installed, runs, pc, target, todo>>

Unheeded(p) == TRUE
MayGoOn(p) == ~signal[p]

\* The tag, and whether this process runs something older.
Resolve(p) ==
    /\ job[p] = "resolve"
    /\ MayGoOn(p)
    /\ IF runs[p] >= latest
       THEN /\ job' = Set(job, p, "none")
            /\ UNCHANGED <<target, pc>>
       ELSE /\ job' = Set(job, p, "download")
            /\ target' = Set(target, p, latest)
            /\ UNCHANGED pc
    /\ UNCHANGED <<latest, auto, installed, runs, todo, signal, said>>

\* A fetch is refused, cut off by the signal, or its checksum is wrong.
Throws(p) ==
    /\ job[p] \in {"resolve", "download"}
    /\ job' = Set(job, p, "none")
    /\ Carries(p)
    /\ UNCHANGED <<latest, auto, installed, runs, target, todo, signal, said>>

AddonOnce(v) == IF live["addon"] = Nothing THEN Shipped(v) ELSE {"app"}
Replaced(v) == Shipped(v)

\* Nothing compares the release with what another has installed meanwhile.
Timely(p) ==
    "outdated" \in Faults \/ target[p] >= FirstAddon \/ target[p] >= live["app"]

\* Everything is there and verified: the swap, file by file, begins.
Downloaded(p) ==
    /\ job[p] = "download"
    /\ MayGoOn(p)
    /\ FilesFree(p)
    /\ Timely(p)
    /\ job' = Set(job, p, "swap")
    /\ todo' = Set(todo, p, <<<<"keep", "app">>, <<"place", "app">>>> \o
          IF "addon" \in Replaced(target[p])
          THEN <<<<"keep", "addon">>, <<"place", "addon">>>> ELSE <<>>)
    /\ UNCHANGED <<latest, auto, installed, runs, pc, target, signal, said>>

\* One rename of the swap (external): the old file to <path>.previous if there
\* is one, then the new one into place.
SwapStep(p) ==
    /\ Swapping(p)
    /\ todo[p] # <<>>
    /\ LET f == Head(todo[p])[2]
       IN  \/ /\ Head(todo[p])[1] = "keep"
              /\ previous' = IF live[f] = Nothing THEN previous
                             ELSE [previous EXCEPT ![f] = live[f]]
              /\ live' = [live EXCEPT ![f] = Nothing]
           \/ /\ Head(todo[p])[1] = "place"
              /\ live' = [live EXCEPT ![f] = target[p]]
              /\ UNCHANGED previous
    /\ todo' = Set(todo, p, Tail(todo[p]))
    /\ UNCHANGED <<latest, auto, runs, pc, job, target, signal, said>>

Swapped(p) ==
    /\ Swapping(p)
    /\ todo[p] = <<>>
    /\ job' = Set(job, p, "none")
    /\ UNCHANGED <<latest, auto, installed, target, todo, signal, said>>
    /\ Onto(p)

\* /update rollback: each file that has one is exchanged with its previous.
Rollback(p) ==
    /\ pc[p] = "session"
    /\ job[p] = "none"
    /\ FilesFree(p)
    /\ LET Kept == {f \in Files : previous[f] # Nothing}
       IN  /\ live' = [f \in Files |-> IF f \in Kept THEN previous[f] ELSE live[f]]
           /\ previous' = [f \in Files |-> IF f \in Kept THEN live[f] ELSE previous[f]]
    /\ UNCHANGED <<latest, auto, runs, pc, job, target, todo, signal, said>>

Process(p) ==
    \/ Quit(p)
    \/ Launch(p) \/ Checked(p) \/ CheckSkipped(p) \/ OutOfBudget(p)
    \/ UserApplies(p)
    \/ Resolve(p) \/ Throws(p) \/ Downloaded(p) \/ SwapStep(p) \/ Swapped(p)
    \/ Rollback(p)

Next ==
    \/ Release \/ Setting
    \/ \E p \in Processes : Process(p)

\* Timers fire and a swap that has begun goes on; the network owes nothing.
Fairness ==
    \A p \in Processes :
        /\ WF_vars(CheckSkipped(p))
        /\ WF_vars(OutOfBudget(p))
        /\ WF_vars(SwapStep(p) \/ Swapped(p))

Spec == Init /\ [][Next]_vars /\ Fairness
-----------------------------------------------------------------------------
(* No launch is held up for good, whatever the network and the other        *)
(* terminals do (launch-auto-update.ts:16-18).                              *)
LaunchEnds == \A p \in Processes : pc[p] \in {"check", "install"} ~> pc[p] = "session"
=============================================================================
