------------------------ MODULE AcknowledgementFile ------------------------
(***************************************************************************)
(* The onboarding acknowledgement file and its advisory lock                *)
(* (runtime/onboarding/state.ts).  The terminals and the daemon of one host *)
(* each read the file, change one answer and write it back, under a lock    *)
(* file that is created exclusively, taken over when it is five seconds old *)
(* and removed at the end.  A writer never waits: after a fixed number of   *)
(* attempts it logs a warning and goes on without the lock.                 *)
(*                                                                          *)
(* Within a process the whole call is synchronous; what interleaves is the  *)
(* file operations of different processes, so an action is one of those.    *)
(***************************************************************************)
EXTENDS Naturals

CONSTANTS
    Procs,      \* the processes that write the file
    Targets,    \* what is acknowledged: providers, subscriptions, auth
    None,       \* no lock file, no owner
    MaxTries,   \* LOCK_MAX_RETRIES
    Faults      \* what goes wrong in an instance, of FaultKinds

FaultKinds == {
    "disk",    \* the read or the write of the state file throws
    "foreign", \* the state file is not valid, or another version's
    "slow",    \* a holder is suspended for LOCK_STALE_MS: its lock looks stale
    "race"}    \* two writers see the same stale lock and both take it over

ASSUME NoneAssumption == None \notin Procs
ASSUME MaxTriesAssumption == MaxTries \in Nat \ {0}
ASSUME FaultsAssumption == Faults \subseteq FaultKinds

VARIABLES
    file,     \* acknowledgements on disk
    owner,    \* who created the lock file, None when there is none
    old,      \* the lock file is at least LOCK_STALE_MS old
    pc,       \* where each process is in writeOnboardingAcknowledgementState
    tries,    \* attempts made by acquireLock
    held,     \* `acquired`
    copy,     \* the acknowledgements each process read
    warned    \* the lock-exhausted warning was logged since no writer was in
              \* its section (history)

vars == <<file, owner, old, pc, tries, held, copy, warned>>

Places == {"idle", "stat", "takeOver", "open", "read", "write", "release"}
Section == {"read", "write", "release"}
Acks == [Targets -> BOOLEAN]

TypeOK ==
    /\ file \in Acks
    /\ owner \in Procs \cup {None}
    /\ old \in BOOLEAN
    /\ pc \in [Procs -> Places]
    /\ tries \in [Procs -> 0 .. MaxTries]
    /\ held \in [Procs -> BOOLEAN]
    /\ copy \in [Procs -> Acks]
    /\ warned \in BOOLEAN

Init ==
    /\ file \in Acks
    /\ owner = None
    /\ old = FALSE
    /\ pc = [p \in Procs |-> "idle"]
    /\ tries = [p \in Procs |-> 0]
    /\ held = [p \in Procs |-> FALSE]
    /\ copy = [p \in Procs |-> file]
    /\ warned = FALSE

At(p, here, there) == pc[p] = here /\ pc' = [pc EXCEPT ![p] = there]

\* Nobody but p is reading or writing the file.
Quiet(p) == \A q \in Procs \ {p} : pc[q] \notin Section

Call(p) ==
    /\ At(p, "idle", "stat")
    /\ tries' = [tries EXCEPT ![p] = 0]
    /\ UNCHANGED <<file, owner, old, held, copy, warned>>

(***************************************************************************)
(* One attempt: look at the age of the lock, remove it when it is stale     *)
(* whoever has it by then, and create it exclusively.                       *)
(***************************************************************************)
TakeOverAny(p) == owner # None
IsStale(p) == owner # None /\ old

\* No second writer has seen the same stale lock.
Uncontended(p) == \A q \in Procs \ {p} : pc[q] # "takeOver"

Stat(p) ==
    /\ \/ /\ IsStale(p)
          /\ "race" \in Faults \/ Uncontended(p)
          /\ At(p, "stat", "takeOver")
       \/ /\ ~IsStale(p)
          /\ At(p, "stat", "open")
    /\ UNCHANGED <<file, owner, old, tries, held, copy, warned>>

TakeOver(p) ==
    /\ At(p, "takeOver", "open")
    /\ owner' = None
    /\ old' = FALSE
    /\ UNCHANGED <<file, tries, held, copy, warned>>

OpenExclusive(p) ==
    /\ owner = None
    /\ At(p, "open", "read")
    /\ owner' = p
    /\ held' = [held EXCEPT ![p] = TRUE]
    /\ UNCHANGED <<file, old, tries, copy, warned>>

OpenFails(p) ==
    /\ owner # None
    /\ tries' = [tries EXCEPT ![p] = @ + 1]
    /\ \/ /\ tries[p] + 1 < MaxTries
          /\ At(p, "open", "stat")
          /\ UNCHANGED warned
       \/ /\ tries[p] + 1 = MaxTries   \* exhausted: warn, go on without
          /\ At(p, "open", "read")
          /\ warned' = TRUE
    /\ UNCHANGED <<file, owner, old, held, copy>>

(***************************************************************************)
(* The section: read afresh, merge one answer, write, release.              *)
(***************************************************************************)
ReadBefore(p) == copy[p]
ReadInside(p) == file

\* What is not valid is read as empty, without a warning.
NoAnswers == [t \in Targets |-> FALSE]

Read(p) ==
    /\ At(p, "read", "write")
    /\ \/ copy' = [copy EXCEPT ![p] = ReadInside(p)]
       \/ "foreign" \in Faults /\ copy' = [copy EXCEPT ![p] = NoAnswers]
    /\ UNCHANGED <<file, owner, old, tries, held, warned>>

Write(p) ==
    /\ At(p, "write", "release")
    /\ \E t \in Targets, v \in BOOLEAN : file' = [copy[p] EXCEPT ![t] = v]
    /\ UNCHANGED <<owner, old, tries, held, copy, warned>>

\* The finally block releases after a throw, too.
Throw(p) ==
    /\ "disk" \in Faults
    /\ pc[p] \in {"read", "write"}
    /\ pc' = [pc EXCEPT ![p] = "release"]
    /\ UNCHANGED <<file, owner, old, tries, held, copy, warned>>

UnlinkAlways(p) == owner' = None /\ old' = FALSE
UnlinkIfHeld(p) ==
    \/ held[p] /\ owner' = None /\ old' = FALSE
    \/ ~held[p] /\ UNCHANGED <<owner, old>>

Release(p) ==
    /\ At(p, "release", "idle")
    /\ UnlinkIfHeld(p)
    /\ held' = [held EXCEPT ![p] = FALSE]
    /\ warned' = (warned /\ ~Quiet(p))
    /\ UNCHANGED <<file, tries, copy>>

\* The process dies, and is started again; its lock file stays.
Crash(p) ==
    /\ pc[p] # "idle"
    /\ pc' = [pc EXCEPT ![p] = "idle"]
    /\ held' = [held EXCEPT ![p] = FALSE]
    /\ warned' = (warned /\ ~Quiet(p))
    /\ UNCHANGED <<file, owner, old, tries, copy>>

\* LOCK_STALE_MS pass: for the lock of a dead process, or of one suspended
\* while it holds it.  A section takes microseconds.
LockAges ==
    /\ owner # None
    /\ ~old
    /\ ~held[owner] \/ "slow" \in Faults
    /\ old' = TRUE
    /\ UNCHANGED <<file, owner, pc, tries, held, copy, warned>>

Step(p) ==
    \/ Stat(p)
    \/ TakeOver(p)
    \/ OpenExclusive(p)
    \/ OpenFails(p)
    \/ Read(p)
    \/ Write(p)
    \/ Throw(p)
    \/ Release(p)

Next ==
    \/ \E p \in Procs : Call(p) \/ Step(p) \/ Crash(p)
    \/ LockAges

Spec == Init /\ [][Next]_vars
-----------------------------------------------------------------------------
(* A writer that has acquired the lock has it until it releases it: no      *)
(* other writer holds it too, and no release or takeover removes a lock     *)
(* that somebody else is working under (state.ts:19-31).                    *)
HolderOwnsLock ==
    \A p \in Procs : held[p] => owner = p

(* Writers that change different answers keep each other's, through any     *)
(* interleaving, crash or failing write; an answer is lost only when a      *)
(* writer has warned that it had to go on without the lock, so never        *)
(* silently (state.ts:181-193).                                             *)
Register == INSTANCE AcknowledgementRegister
    WITH acks <- file, Answers <- BOOLEAN
AnswersAreKept == Register!Spec
=============================================================================
