-------------------------- MODULE SharedFilesProofs --------------------------
(***************************************************************************)
(* What several processes of one host do to files they share.               *)
(*                                                                          *)
(* The acknowledgement file, for every set of processes and answers and any *)
(* number of attempts: the lock is exclusive and an answer is lost only     *)
(* after a warning, unless a holder is suspended or two writers take over   *)
(* one stale lock.                                                          *)
(*                                                                          *)
(* The installed files, for every set of terminals and any releases: a      *)
(* program that said its update was deferred replaces nothing, and unless   *)
(* two replace the files at once, or one replaces them with a release from  *)
(* before the addon, no program runs beside an addon older than itself.     *)
(*                                                                          *)
(* The unit files, whatever systemctl calls do: a daemon that can serve is  *)
(* kept unless is-active errs or the user migrates twice, and unless it is  *)
(* started at the wrong moment one that runs is not stopped unattended.     *)
(***************************************************************************)
EXTENDS AcknowledgementFile, InstalledFiles, ServiceUnits, SequenceTheorems, TLAPS

-----------------------------------------------------------------------------
(***************************************************************************)
(* The acknowledgement file.                                                *)
(***************************************************************************)
\* A holder is in its section and its lock is its own and fresh.
HolderInv ==
    \A p \in Procs : held[p] => pc[p] \in Section /\ owner = p /\ ~old

\* A writer about to take over still sees what it saw, and is the only one.
TakerInv ==
    \A p \in Procs : pc[p] = "takeOver" =>
        /\ owner # None /\ old
        /\ \A q \in Procs : pc[q] = "takeOver" => q = p

\* Only a lock file has an age.
OldInv == owner = None => ~old

\* Without a warning every writer in its section holds the lock, so what it
\* has read is what is on disk.
CopyInv ==
    ~warned => \A p \in Procs :
        /\ pc[p] \in Section => held[p]
        /\ pc[p] = "write" /\ "foreign" \notin Faults => copy[p] = file

Inv == TypeOK /\ HolderInv /\ TakerInv /\ OldInv /\ CopyInv

-----------------------------------------------------------------------------
(* Types (state.ts:85-118, 170-225). *)
THEOREM TypeCorrect == Spec => []TypeOK
<1>1. ASSUME Init PROVE TypeOK
  <2>1. tries \in [Procs -> 0 .. MaxTries]
    BY <1>1, MaxTriesAssumption DEF Init
  <2>2. copy \in [Procs -> Acks]
    BY <1>1 DEF Init
  <2>3. pc \in [Procs -> Places] /\ held \in [Procs -> BOOLEAN]
    BY <1>1 DEF Init, Places
  <2>4. QED BY <1>1, <2>1, <2>2, <2>3 DEF Init, TypeOK
<1>2. TypeOK /\ [Next]_vars => TypeOK'
  <2> SUFFICES ASSUME TypeOK, [Next]_vars
               PROVE  TypeOK'
    OBVIOUS
  <2> USE MaxTriesAssumption DEF TypeOK, Acks, Places, At
  <2>1. ASSUME NEW p \in Procs, Call(p) PROVE TypeOK'
    BY <2>1 DEF Call
  <2>2. ASSUME NEW p \in Procs, Stat(p) PROVE TypeOK'
    BY <2>2 DEF Stat
  <2>3. ASSUME NEW p \in Procs, TakeOver(p) PROVE TypeOK'
    BY <2>3 DEF TakeOver
  <2>4. ASSUME NEW p \in Procs, OpenExclusive(p) PROVE TypeOK'
    BY <2>4 DEF OpenExclusive
  <2>5. ASSUME NEW p \in Procs, OpenFails(p) PROVE TypeOK'
    <3>1. tries[p] + 1 \in 0 .. MaxTries
      BY <2>5 DEF OpenFails
    <3>2. QED BY <2>5, <3>1 DEF OpenFails
  <2>6. ASSUME NEW p \in Procs, Read(p) PROVE TypeOK'
    <3>1. NoAnswers \in Acks
      BY DEF NoAnswers
    <3>2. CASE copy' = [copy EXCEPT ![p] = ReadInside(p)]
      BY <2>6, <3>2 DEF Read, ReadInside
    <3>3. CASE copy' = [copy EXCEPT ![p] = NoAnswers]
      BY <2>6, <3>1, <3>3 DEF Read
    <3>4. QED BY <2>6, <3>2, <3>3 DEF Read
  <2>7. ASSUME NEW p \in Procs, Write(p) PROVE TypeOK'
    BY <2>7 DEF Write
  <2>8. ASSUME NEW p \in Procs, Throw(p) PROVE TypeOK'
    BY <2>8 DEF Throw
  <2>9. ASSUME NEW p \in Procs, Release(p) PROVE TypeOK'
    BY <2>9 DEF Release, UnlinkIfHeld, Quiet
  <2>10. ASSUME NEW p \in Procs, Crash(p) PROVE TypeOK'
    BY <2>10 DEF Crash, Quiet
  <2>11. CASE LockAges
    BY <2>11 DEF LockAges
  <2>12. CASE UNCHANGED vars
    BY <2>12 DEF vars
  <2>13. QED
    BY <2>1, <2>2, <2>3, <2>4, <2>5, <2>6, <2>7, <2>8, <2>9, <2>10, <2>11, <2>12
       DEF Next, Step
<1>3. QED BY <1>1, <1>2, PTL DEF Spec

-----------------------------------------------------------------------------
\* One lemma per file operation on the lock.
LEMMA StatKeeps ==
    ASSUME Inv, "race" \notin Faults, NEW p \in Procs, Stat(p)
    PROVE  HolderInv' /\ TakerInv' /\ OldInv' /\ CopyInv'
BY DEF Inv, TypeOK, HolderInv, TakerInv, OldInv, CopyInv, Stat, IsStale, Uncontended, At,
       Section, Places

LEMMA TakeOverKeeps ==
    ASSUME Inv, NEW p \in Procs, TakeOver(p)
    PROVE  HolderInv' /\ TakerInv' /\ OldInv' /\ CopyInv'
<1> USE DEF Inv, TypeOK, At, Section, Places
<1>1. \A q \in Procs : ~held[q]
  BY DEF HolderInv, TakerInv, TakeOver
<1>2. HolderInv'
  BY <1>1 DEF HolderInv, TakeOver
<1>3. TakerInv'
  BY DEF TakerInv, TakeOver
<1>4. OldInv' /\ CopyInv'
  BY DEF OldInv, CopyInv, TakeOver
<1>5. QED BY <1>2, <1>3, <1>4

LEMMA OpenKeeps ==
    ASSUME Inv, NEW p \in Procs, OpenExclusive(p) \/ OpenFails(p)
    PROVE  HolderInv' /\ TakerInv' /\ OldInv' /\ CopyInv'
<1> USE NoneAssumption DEF Inv, TypeOK, At, Section, Places
<1>1. CASE OpenExclusive(p)
  <2>1. \A q \in Procs : ~held[q] /\ pc[q] # "takeOver"
    BY <1>1 DEF HolderInv, TakerInv, OpenExclusive
  <2>2. ~old
    BY <1>1 DEF OldInv, OpenExclusive
  <2>3. HolderInv' /\ TakerInv' /\ OldInv'
    BY <1>1, <2>1, <2>2 DEF HolderInv, TakerInv, OldInv, OpenExclusive
  <2>4. CopyInv'
    BY <1>1 DEF CopyInv, OpenExclusive
  <2>5. QED BY <2>3, <2>4
<1>2. CASE OpenFails(p)
  <2>1. ~held[p]
    BY <1>2 DEF HolderInv, OpenFails
  <2>2. HolderInv'
    BY <1>2, <2>1 DEF HolderInv, OpenFails
  <2>3. TakerInv' /\ OldInv'
    BY <1>2 DEF TakerInv, OldInv, OpenFails
  <2>4. CopyInv'
    BY <1>2 DEF CopyInv, OpenFails
  <2>5. QED BY <2>2, <2>3, <2>4
<1>3. QED BY <1>1, <1>2

\* The section, for the properties that depend on who is in it.
LEMMA SectionKeeps ==
    ASSUME Inv, NEW p \in Procs, Call(p) \/ Read(p) \/ Write(p) \/ Throw(p)
    PROVE  HolderInv' /\ TakerInv' /\ OldInv' /\ CopyInv'
<1> USE DEF Inv, TypeOK, At, Section, Places
<1>1. CASE Call(p)
  BY <1>1 DEF HolderInv, TakerInv, OldInv, CopyInv, Call
<1>2. CASE Read(p)
  BY <1>2 DEF HolderInv, TakerInv, OldInv, CopyInv, Read, ReadInside
<1>3. CASE Write(p)
  <2>1. HolderInv' /\ TakerInv' /\ OldInv'
    BY <1>3 DEF HolderInv, TakerInv, OldInv, Write
  <2>2. ASSUME ~warned, NEW q \in Procs \ {p} PROVE pc[q] \notin Section
    BY <1>3, <2>2 DEF HolderInv, CopyInv, Write
  <2>3. CopyInv'
    BY <1>3, <2>2 DEF CopyInv, Write
  <2>4. QED BY <2>1, <2>3
<1>4. CASE Throw(p)
  BY <1>4 DEF HolderInv, TakerInv, OldInv, CopyInv, Throw
<1>5. QED BY <1>1, <1>2, <1>3, <1>4

\* Leaving the section, by the finally block or by dying.
LEMMA LeaveKeeps ==
    ASSUME Inv, NEW p \in Procs, Release(p) \/ Crash(p)
    PROVE  HolderInv' /\ TakerInv' /\ OldInv' /\ CopyInv'
<1> USE NoneAssumption DEF Inv, TypeOK, At, Section, Places
<1>1. CASE Release(p)
  <2>1. \A q \in Procs : held[q] /\ held[p] => q = p
    BY DEF HolderInv
  <2>2. \A q \in Procs : held[p] => pc[q] # "takeOver"
    BY DEF HolderInv, TakerInv
  <2>3. HolderInv' /\ TakerInv' /\ OldInv'
    <3>1. CASE held[p]
      BY <1>1, <2>1, <2>2, <3>1
         DEF HolderInv, TakerInv, OldInv, Release, UnlinkIfHeld
    <3>2. CASE ~held[p]
      BY <1>1, <3>2 DEF HolderInv, TakerInv, OldInv, Release, UnlinkIfHeld
    <3>3. QED BY <3>1, <3>2
  <2>4. CopyInv'
    BY <1>1 DEF CopyInv, Release, Quiet
  <2>5. QED BY <2>3, <2>4
<1>2. CASE Crash(p)
  <2>1. HolderInv' /\ TakerInv' /\ OldInv'
    BY <1>2 DEF HolderInv, TakerInv, OldInv, Crash
  <2>2. CopyInv'
    BY <1>2 DEF CopyInv, Crash, Quiet
  <2>3. QED BY <2>1, <2>2
<1>3. QED BY <1>1, <1>2

LEMMA AgeKeeps ==
    ASSUME Inv, "slow" \notin Faults, LockAges
    PROVE  HolderInv' /\ TakerInv' /\ OldInv' /\ CopyInv'
BY DEF Inv, TypeOK, HolderInv, TakerInv, OldInv, CopyInv, LockAges

\* The inductive invariant holds of every run.
LEMMA InvHolds ==
    ASSUME "race" \notin Faults, "slow" \notin Faults
    PROVE  Spec => []Inv
<1>1. Init => HolderInv /\ TakerInv /\ OldInv /\ CopyInv
  BY DEF Init, HolderInv, TakerInv, OldInv, CopyInv, Section
<1>2. Inv /\ TypeOK' /\ [Next]_vars
        => HolderInv' /\ TakerInv' /\ OldInv' /\ CopyInv'
  <2> SUFFICES ASSUME Inv, [Next]_vars
               PROVE  HolderInv' /\ TakerInv' /\ OldInv' /\ CopyInv'
    OBVIOUS
  <2>1. ASSUME NEW p \in Procs, Call(p) \/ Step(p) \/ Crash(p)
        PROVE  HolderInv' /\ TakerInv' /\ OldInv' /\ CopyInv'
    BY <2>1, StatKeeps, TakeOverKeeps, OpenKeeps, SectionKeeps, LeaveKeeps
       DEF Step
  <2>2. CASE LockAges
    BY <2>2, AgeKeeps
  <2>3. CASE UNCHANGED vars
    BY <2>3 DEF vars, Inv, TypeOK, HolderInv, TakerInv, OldInv, CopyInv
  <2>4. QED BY <2>1, <2>2, <2>3 DEF Next
<1>3. QED BY <1>1, <1>2, TypeCorrect, PTL DEF Inv, Spec

-----------------------------------------------------------------------------
(* A writer that holds the lock owns it until it lets go                    *)
(* (state.ts:92-118, 193-222).                                              *)
THEOREM HoldersOwnLock ==
    ASSUME "race" \notin Faults, "slow" \notin Faults
    PROVE  Spec => []HolderOwnsLock
<1>1. Inv => HolderOwnsLock
  BY DEF Inv, HolderInv, HolderOwnsLock
<1>2. QED BY <1>1, InvHolds, PTL

(* The file implements the register: an answer is lost only after the       *)
(* warning (state.ts:181-193), or when the file was not valid.              *)
THEOREM ImplementsRegister ==
    ASSUME "race" \notin Faults, "slow" \notin Faults, "foreign" \notin Faults
    PROVE  Spec => AnswersAreKept
<1>1. Init => Register!Init
  BY DEF Init, Register!Init, Acks
<1>2. Inv /\ TypeOK' /\ [Next]_vars => [Register!Next]_<<file, warned>>
  <2> SUFFICES ASSUME Inv, TypeOK', [Next]_vars
               PROVE  Register!Next \/ UNCHANGED <<file, warned>>
    OBVIOUS
  <2> warned' \in BOOLEAN
    BY DEF TypeOK
  <2>1. ASSUME NEW p \in Procs, Write(p)
        PROVE  Register!Next
    <3>1. CASE warned
      BY <2>1, <3>1 DEF TypeOK, Acks, Register!Next, Register!LastWriterWins
    <3>2. CASE ~warned
      <4>1. copy[p] = file
        BY <2>1, <3>2 DEF Inv, CopyInv, Write, At
      <4>2. QED
        BY <2>1, <4>1 DEF Write, Register!Next, Register!Record
    <3>3. QED BY <3>1, <3>2 DEF Inv, TypeOK
  <2>2. ASSUME NEW p \in Procs, Call(p) \/ Step(p) \/ Crash(p), ~Write(p)
        PROVE  UNCHANGED file
    BY <2>2 DEF Step, Call, Stat, TakeOver, OpenExclusive, OpenFails, Read,
       Throw, Release, Crash
  <2>3. LockAges \/ UNCHANGED vars => UNCHANGED file
    BY DEF LockAges, vars
  <2>4. UNCHANGED file => Register!Next
    BY DEF Register!Next, Register!Warn
  <2>5. QED BY <2>1, <2>2, <2>3, <2>4 DEF Next
<1>3. QED BY <1>1, <1>2, InvHolds, TypeCorrect, PTL
     DEF Spec, AnswersAreKept, Register!Spec

-----------------------------------------------------------------------------
(***************************************************************************)
(* The installed files.                                                     *)
(***************************************************************************)
CONSTANT UpdateFaults
VARIABLES latest, auto, runs, at, target, todo, signal

Update == INSTANCE SelfUpdate WITH Faults <- UpdateFaults, pc <- at

\* Whoever says "deferred" is up, and has aborted its job before the swap.
DeferInv ==
    \A p \in Processes :
        said[p] = "deferred" => signal[p] /\ job[p] # "swap" /\ at[p] # "off"

UpdateTypes ==
    /\ signal \in [Processes -> BOOLEAN] /\ said \in [Processes -> {"", "deferred"}]
    /\ at \in [Processes -> {"off", "check", "install", "session"}]
    /\ job \in [Processes -> {"none", "resolve", "download", "swap"}]

LEMMA DeferNext ==
    ASSUME UpdateTypes, DeferInv, [Update!Next]_Update!vars
    PROVE  UpdateTypes' /\ DeferInv'
<1> USE DEF UpdateTypes, DeferInv, Update!Set
<1>1. CASE UNCHANGED Update!vars
    BY <1>1 DEF Update!vars
<1>2. CASE Update!Release \/ Update!Setting
    BY <1>2 DEF Update!Release, Update!Setting
<1>3. ASSUME NEW p \in Processes, Update!Process(p) PROVE UpdateTypes' /\ DeferInv'
    <2>1. CASE Update!Quit(p)
        BY <2>1 DEF Update!Quit
    <2>2. CASE Update!Launch(p)
        BY <2>2 DEF Update!Launch
    <2>3. CASE Update!Checked(p) \/ Update!CheckSkipped(p)
        <3>1. at[p] = "check" /\ UNCHANGED <<signal, said>>
            BY <2>3 DEF Update!Checked, Update!CheckSkipped
        <3>2. \/ at' = [at EXCEPT ![p] = "session"] /\ job' = job
              \/ at' = [at EXCEPT ![p] = "install"] /\ job' = [job EXCEPT ![p] = "resolve"]
            BY <2>3 DEF Update!Checked, Update!CheckSkipped
        <3>3. QED
            BY <3>1, <3>2
    <2>4. CASE Update!OutOfBudget(p)
        BY <2>4 DEF Update!OutOfBudget, Update!Budgeted, Update!Swapping
    <2>5. CASE Update!UserApplies(p)
        BY <2>5 DEF Update!UserApplies
    <2>6. CASE Update!Resolve(p)
        BY <2>6 DEF Update!Resolve
    <2>7. CASE Update!Throws(p)
        BY <2>7 DEF Update!Throws, Update!Carries
    <2>8. CASE Update!Downloaded(p)
        BY <2>8 DEF Update!Downloaded, Update!MayGoOn
    <2>9. CASE Update!SwapStep(p) \/ Update!Rollback(p)
        BY <2>9 DEF Update!SwapStep, Update!Rollback
    <2>10. CASE Update!Swapped(p)
        BY <2>10 DEF Update!Swapped, Update!Onto
    <2>11. QED
        BY <1>3, <2>1, <2>2, <2>3, <2>4, <2>5, <2>6, <2>7, <2>8, <2>9, <2>10
        DEF Update!Process
<1>4. QED
    BY <1>1, <1>2, <1>3 DEF Update!Next

(* Whatever goes wrong and however many terminals there are, one that said  *)
(* "update deferred" replaces no file of its own accord afterwards          *)
(* (launch-auto-update.ts:21-27).                                           *)
THEOREM DeferredStaysDeferred == Update!Spec => []DeferredIsTrue
<1>1. Update!Init => UpdateTypes /\ DeferInv
    <2> SUFFICES ASSUME Update!Init PROVE UpdateTypes /\ DeferInv
        OBVIOUS
    <2>1. /\ at = [p \in Processes |-> "off"] /\ job = [p \in Processes |-> "none"]
          /\ signal = [p \in Processes |-> FALSE] /\ said = [p \in Processes |-> ""]
        BY DEF Update!Init
    <2>2. QED
        BY <2>1 DEF UpdateTypes, DeferInv
<1>2. UpdateTypes /\ DeferInv /\ [Update!Next]_Update!vars => UpdateTypes' /\ DeferInv'
    BY DeferNext
<1>3. DeferInv => DeferredIsTrue
    BY DEF DeferInv, DeferredIsTrue, Swapping
<1>4. QED
    BY <1>1, <1>2, <1>3, PTL DEF Update!Spec

-----------------------------------------------------------------------------
(***************************************************************************)
(* Program and addon.  With a and d installed and b and e kept for a        *)
(* rollback: the addon, once there, stays, and is no older than the program *)
(* beside it, before a rollback and after.                                  *)
(***************************************************************************)
Matched(a, d, b, e) ==
    /\ a # 0
    /\ d = 0 => a < FirstAddon /\ b < FirstAddon /\ e = 0
    /\ d # 0 => d >= FirstAddon /\ d >= a
    /\ e # 0 => e >= FirstAddon
    /\ LET x == IF e # 0 THEN e ELSE d
       IN  x # 0 => x >= IF b # 0 THEN b ELSE a

Match == Matched(live["app"], live["addon"], previous["app"], previous["addon"])

\* What a swap to t will leave, seen from each of its renames.
KeptAddon == IF live["addon"] # 0 THEN live["addon"] ELSE previous["addon"]

SwapsBoth(t, steps) ==
    \/ /\ steps = <<<<"keep", "app">>, <<"place", "app">>,
                    <<"keep", "addon">>, <<"place", "addon">>>>
       /\ live["app"] # 0 /\ Matched(t, t, live["app"], KeptAddon)
    \/ /\ steps = <<<<"place", "app">>, <<"keep", "addon">>, <<"place", "addon">>>>
       /\ Matched(t, t, previous["app"], KeptAddon)
    \/ /\ steps = <<<<"keep", "addon">>, <<"place", "addon">>>>
       /\ live["app"] = t /\ Matched(t, t, previous["app"], KeptAddon)
    \/ /\ steps = <<<<"place", "addon">>>>
       /\ live["app"] = t /\ Matched(t, t, previous["app"], previous["addon"])

SwapsProgram(t, steps) ==
    \/ /\ steps = <<<<"keep", "app">>, <<"place", "app">>>>
       /\ live["app"] # 0 /\ Matched(t, live["addon"], live["app"], previous["addon"])
    \/ /\ steps = <<<<"place", "app">>>>
       /\ Matched(t, live["addon"], previous["app"], previous["addon"])

Swap(t, steps) ==
    \/ steps = <<>> /\ Match
    \/ SwapsBoth(t, steps)
    \/ SwapsProgram(t, steps)

MatchTypes ==
    /\ live \in [Files -> Nat] /\ previous \in [Files -> Nat]
    /\ live["addon"] <= MaxVersion /\ previous["addon"] <= MaxVersion
    /\ at \in [Processes -> {"off", "check", "install", "session"}]
    /\ job \in [Processes -> {"none", "resolve", "download", "swap"}]
    /\ todo \in [Processes -> Seq({"keep", "place"} \X Files)]
    /\ latest \in 1 .. MaxVersion
    /\ target \in [Processes -> 0 .. MaxVersion]

JobInv ==
    \A p \in Processes :
        /\ at[p] \in {"off", "check"} => job[p] = "none"
        /\ job[p] \in {"download", "swap"} => target[p] # 0

SwapInv ==
    /\ \A p, q \in Processes : job[p] = "swap" /\ job[q] = "swap" => p = q
    /\ (\A p \in Processes : job[p] # "swap") => Match
    /\ \A p \in Processes : job[p] = "swap" => Swap(target[p], todo[p])

MatchInv == MatchTypes /\ JobInv /\ SwapInv

\* Updates of one installation come one after another, and none goes back to
\* before the addon.
Sequential == "together" \notin UpdateFaults /\ "outdated" \notin UpdateFaults

LEMMA MatchedNew ==
    ASSUME NEW a \in Nat, NEW d \in Nat, NEW b \in Nat, NEW e \in Nat, NEW t \in Nat,
           t # 0, Matched(a, d, b, e)
    PROVE  /\ t >= FirstAddon => Matched(t, t, a, IF d # 0 THEN d ELSE e)
           /\ t < FirstAddon /\ t >= a => Matched(t, d, a, e)
BY VersionsAssumption DEF Matched

LEMMA MatchedBack ==
    ASSUME NEW a \in Nat, NEW d \in Nat, NEW b \in Nat, NEW e \in Nat,
           Matched(a, d, b, e)
    PROVE  Matched(IF b # 0 THEN b ELSE a, IF e # 0 THEN e ELSE d,
                   IF b # 0 THEN a ELSE b, IF e # 0 THEN d ELSE e)
BY VersionsAssumption DEF Matched

LEMMA InitMatch ==
    ASSUME Update!Init
    PROVE  MatchInv
<1> USE VersionsAssumption
<1>1. /\ live = [f \in Files |-> IF f \in Update!Shipped(1) THEN 1 ELSE 0]
      /\ previous = [f \in Files |-> 0]
    BY DEF Update!Init, Update!Files, Update!Nothing, Files
<1>2. live \in [Files -> Nat] /\ previous \in [Files -> Nat]
    BY <1>1
<1>3. live["app"] = 1 /\ live["addon"] = IF 1 >= FirstAddon THEN 1 ELSE 0
    BY <1>1 DEF Update!Shipped, Update!Files, Files
<1>4. previous["app"] = 0 /\ previous["addon"] = 0
    BY <1>1 DEF Files
<1>5. Match
    BY <1>3, <1>4 DEF Match, Matched
<1>6. /\ at = [p \in Processes |-> "off"] /\ job = [p \in Processes |-> "none"]
      /\ target = [p \in Processes |-> 0] /\ todo = [p \in Processes |-> <<>>] /\ latest = 1
    BY DEF Update!Init, Update!Nothing
<1>7. MatchTypes
    BY <1>2, <1>3, <1>4, <1>6 DEF MatchTypes
<1>8. JobInv /\ SwapInv
    BY <1>5, <1>6 DEF JobInv, SwapInv
<1>9. QED
    BY <1>7, <1>8 DEF MatchInv

\* The steps that touch no file and neither begin nor end a swap.
LEMMA Aside ==
    ASSUME SwapInv, UNCHANGED <<live, previous, todo>>,
           \A p \in Processes : job'[p] = "swap" <=> job[p] = "swap",
           \A p \in Processes : job[p] = "swap" => target'[p] = target[p]
    PROVE  SwapInv'
<1>1. Match => Match'
    BY DEF Match
<1>2. \A t, s : Swap(t, s) => Swap(t, s)'
    BY <1>1 DEF Swap, SwapsBoth, SwapsProgram, KeptAddon
<1>3. \A p \in Processes : job'[p] = "swap" => Swap(target[p], todo[p])'
    BY <1>2 DEF SwapInv
<1>4. QED
    BY <1>1, <1>3 DEF SwapInv

LEMMA Renames ==
    /\ <<<<"keep", "app">>, <<"place", "app">>>> \o <<<<"keep", "addon">>, <<"place", "addon">>>>
       = <<<<"keep", "app">>, <<"place", "app">>, <<"keep", "addon">>, <<"place", "addon">>>>
    /\ <<<<"keep", "app">>, <<"place", "app">>>> \o <<>> = <<<<"keep", "app">>, <<"place", "app">>>>
<1> DEFINE Moves == {"keep", "place"} \X Files
           x == <<<<"keep", "app">>, <<"place", "app">>>>
           y == <<<<"keep", "addon">>, <<"place", "addon">>>>
           z == <<<<"keep", "app">>, <<"place", "app">>, <<"keep", "addon">>, <<"place", "addon">>>>
<1>1. x \in Seq(Moves) /\ y \in Seq(Moves) /\ z \in Seq(Moves)
    BY DEF Files
<1>2. Len(x) = 2 /\ Len(y) = 2 /\ Len(z) = 4
    OBVIOUS
<1>3. /\ z[1] = x[1] /\ z[2] = x[2] /\ z[3] = y[1] /\ z[4] = y[2]
    OBVIOUS
<1> HIDE DEF Moves, x, y, z
<1>4. x \o y \in Seq(Moves) /\ Len(x \o y) = 4
    <2>1. x \o y \in Seq(Moves) /\ Len(x \o y) = Len(x) + Len(y)
        BY <1>1, ConcatProperties
    <2>2. Len(x) + Len(y) = 4
        BY <1>2
    <2>3. QED
        BY <2>1, <2>2
<1>5. \A i \in 1 .. 4 : (x \o y)[i] = IF i <= 2 THEN x[i] ELSE y[i - 2]
    <2>1. \A i \in 1 .. Len(x) + Len(y) :
              (x \o y)[i] = IF i <= Len(x) THEN x[i] ELSE y[i - Len(x)]
        BY <1>1, ConcatProperties
    <2>2. Len(x) = 2 /\ Len(x) + Len(y) = 4
        BY <1>2
    <2>3. QED
        BY <2>1, <2>2, Zenon
<1>6. \A i \in 1 .. Len(x \o y) : (x \o y)[i] = z[i]
    BY <1>3, <1>4, <1>5
<1>7. x \o y = z
    BY <1>1, <1>2, <1>4, <1>6, SeqEqual
<1>8. x \o <<>> = x
    BY <1>1, ConcatEmptySeq
<1>9. QED
    BY <1>7, <1>8 DEF x, y, z

LEMMA TypesAndJobsNext ==
    ASSUME MatchTypes, JobInv, [Update!Next]_Update!vars
    PROVE  MatchTypes' /\ JobInv'
<1> USE VersionsAssumption DEF MatchTypes, JobInv, Update!Set, Update!installed
<1>1. CASE UNCHANGED Update!vars
    BY <1>1 DEF Update!vars
<1>2. CASE Update!Release \/ Update!Setting
    BY <1>2 DEF Update!Release, Update!Setting
<1>3. ASSUME NEW p \in Processes, Update!Process(p) PROVE MatchTypes' /\ JobInv'
    <2>1. CASE Update!Quit(p)
        BY <2>1 DEF Update!Quit
    <2>2. CASE Update!Launch(p)
        BY <2>2 DEF Update!Launch
    <2>3. CASE Update!Checked(p) \/ Update!CheckSkipped(p)
        <3>1. at[p] = "check" /\ UNCHANGED <<live, previous, todo, latest, target>>
            BY <2>3 DEF Update!Checked, Update!CheckSkipped
        <3>2. \/ at' = [at EXCEPT ![p] = "session"] /\ job' = job
              \/ at' = [at EXCEPT ![p] = "install"] /\ job' = [job EXCEPT ![p] = "resolve"]
            BY <2>3 DEF Update!Checked, Update!CheckSkipped
        <3>3. QED
            BY <3>1, <3>2
    <2>4. CASE Update!OutOfBudget(p)
        BY <2>4 DEF Update!OutOfBudget
    <2>5. CASE Update!UserApplies(p)
        BY <2>5 DEF Update!UserApplies
    <2>6. CASE Update!Resolve(p)
        <3>1. job[p] = "resolve" /\ UNCHANGED <<live, previous, todo, latest, at>>
            BY <2>6 DEF Update!Resolve
        <3>2. \/ job' = [job EXCEPT ![p] = "none"] /\ target' = target
              \/ job' = [job EXCEPT ![p] = "download"] /\ target' = [target EXCEPT ![p] = latest]
            BY <2>6 DEF Update!Resolve
        <3>3. latest \in 0 .. MaxVersion /\ latest # 0
            OBVIOUS
        <3>4. target' \in [Processes -> 0 .. MaxVersion]
            BY <3>2, <3>3
        <3>5. QED
            BY <3>1, <3>2, <3>3, <3>4
    <2>7. CASE Update!Throws(p)
        BY <2>7 DEF Update!Throws, Update!Carries
    <2>8. CASE Update!Downloaded(p)
        <3>1. /\ job[p] = "download" /\ job' = [job EXCEPT ![p] = "swap"]
              /\ UNCHANGED <<live, previous, latest, at, target>>
            BY <2>8 DEF Update!Downloaded
        <3>2. PICK s \in Seq({"keep", "place"} \X Files) : todo' = [todo EXCEPT ![p] = s]
            <4>1. /\ <<<<"keep", "app">>, <<"place", "app">>,
                        <<"keep", "addon">>, <<"place", "addon">>>>
                        \in Seq({"keep", "place"} \X Files)
                  /\ <<<<"keep", "app">>, <<"place", "app">>>>
                        \in Seq({"keep", "place"} \X Files)
                BY DEF Files
            <4>2. QED
                BY <2>8, <4>1, Renames DEF Update!Downloaded
        <3>3. QED
            BY <3>1, <3>2
    <2>9. CASE Update!SwapStep(p)
        <3>1. /\ job[p] = "swap" /\ todo[p] # <<>> /\ todo' = [todo EXCEPT ![p] = Tail(todo[p])]
              /\ UNCHANGED <<latest, at, job, target>>
            BY <2>9 DEF Update!SwapStep, Update!Swapping
        <3>2. Tail(todo[p]) \in Seq({"keep", "place"} \X Files)
            BY <3>1
        <3>3. PICK f \in Files :
                \/ /\ previous' = IF live[f] = 0 THEN previous ELSE [previous EXCEPT ![f] = live[f]]
                   /\ live' = [live EXCEPT ![f] = 0]
                \/ live' = [live EXCEPT ![f] = target[p]] /\ previous' = previous
            <4>1. Head(todo[p])[2] \in Files
                <5>1. Head(todo[p]) \in {"keep", "place"} \X Files
                    BY <3>1
                <5>2. QED
                    BY <5>1
            <4>2. QED
                BY <2>9, <4>1 DEF Update!SwapStep, Update!Nothing
        <3>4. live' \in [Files -> Nat] /\ previous' \in [Files -> Nat]
            <4>1. target[p] \in Nat /\ live[f] \in Nat
                OBVIOUS
            <4>2. live' \in [Files -> Nat]
                <5>1. \E n \in Nat : live' = [live EXCEPT ![f] = n]
                    BY <3>3, <4>1
                <5>2. QED
                    BY <5>1
            <4>3. previous' \in [Files -> Nat]
                BY <3>3, <4>1
            <4>4. QED
                BY <4>2, <4>3
        <3>5. live'["addon"] <= MaxVersion /\ previous'["addon"] <= MaxVersion
            BY <3>3 DEF Files
        <3>6. QED
            BY <3>1, <3>2, <3>4, <3>5
    <2>10. CASE Update!Swapped(p)
        BY <2>10 DEF Update!Swapped, Update!Onto
    <2>11. CASE Update!Rollback(p)
        <3>1. UNCHANGED <<latest, at, job, target, todo>>
            BY <2>11 DEF Update!Rollback
        <3>2. /\ live' = [f \in Files |-> IF previous[f] # 0 THEN previous[f] ELSE live[f]]
              /\ previous' = [f \in Files |-> IF previous[f] # 0 THEN live[f] ELSE previous[f]]
            BY <2>11 DEF Update!Rollback, Update!Files, Files, Update!Nothing
        <3>3. live' \in [Files -> Nat] /\ previous' \in [Files -> Nat]
            BY <3>2
        <3>4. live'["addon"] <= MaxVersion /\ previous'["addon"] <= MaxVersion
            BY <3>2 DEF Files
        <3>5. QED
            BY <3>1, <3>3, <3>4
    <2>12. QED
        BY <1>3, <2>1, <2>2, <2>3, <2>4, <2>5, <2>6, <2>7, <2>8, <2>9, <2>10, <2>11
        DEF Update!Process
<1>4. QED
    BY <1>1, <1>2, <1>3 DEF Update!Next

\* A swap begins where none is under way ...
LEMMA SwapBegins ==
    ASSUME Sequential, MatchTypes, JobInv, SwapInv,
           NEW p \in Processes, Update!Downloaded(p)
    PROVE  SwapInv'
<1> USE VersionsAssumption
<1>1. /\ job[p] = "download" /\ job' = [job EXCEPT ![p] = "swap"]
      /\ UNCHANGED <<live, previous, target>>
      /\ \A q \in Processes \ {p} : job[q] # "swap"
    BY DEF Update!Downloaded, Update!FilesFree, Update!Swapping, Update!installed, Update!Set,
           Sequential
<1>2. \A q \in Processes : job'[q] = "swap" <=> q = p
    BY <1>1 DEF MatchTypes
<1>3. Match
    BY <1>1 DEF SwapInv
<1> DEFINE t == target[p]   a == live["app"]   d == live["addon"]
           b == previous["app"]   e == previous["addon"]
<1>4. /\ t \in Nat /\ t # 0 /\ a \in Nat /\ d \in Nat /\ b \in Nat /\ e \in Nat
      /\ Matched(a, d, b, e) /\ a # 0
    BY <1>1, <1>3 DEF MatchTypes, JobInv, Match, Matched, Files
<1>5. t >= FirstAddon \/ t >= a
    BY DEF Update!Downloaded, Update!Timely, Sequential
<1>6. todo' = [todo EXCEPT ![p] = <<<<"keep", "app">>, <<"place", "app">>>> \o
          IF t >= FirstAddon THEN <<<<"keep", "addon">>, <<"place", "addon">>>> ELSE <<>>]
    BY DEF Update!Downloaded, Update!Replaced, Update!Shipped, Update!Files, Update!Set
<1>7. CASE t >= FirstAddon
    <2>1. todo'[p] = <<<<"keep", "app">>, <<"place", "app">>,
                       <<"keep", "addon">>, <<"place", "addon">>>>
        BY <1>6, <1>7, Renames DEF MatchTypes
    <2>2. Matched(t, t, a, IF d # 0 THEN d ELSE e)
        <3> HIDE DEF t, a, d, b, e
        <3>1. QED BY <1>4, <1>7, MatchedNew
    <2>3. Matched(t, t, live["app"], KeptAddon)'
        BY <2>2, <1>1 DEF KeptAddon, Matched
    <2>4. SwapsBoth(target[p], todo[p])'
        BY <1>1, <1>4, <2>1, <2>3 DEF SwapsBoth, Matched, KeptAddon
    <2>5. QED
        BY <1>2, <2>4 DEF SwapInv, Swap
<1>8. CASE ~(t >= FirstAddon)
    <2>1. todo'[p] = <<<<"keep", "app">>, <<"place", "app">>>>
        BY <1>6, <1>8, Renames DEF MatchTypes
    <2>2. Matched(t, d, a, e)
        <3>1. t < FirstAddon /\ t >= a
            BY <1>4, <1>5, <1>8
        <3> HIDE DEF t, a, d, b, e
        <3>2. QED BY <1>4, <3>1, MatchedNew
    <2>3. SwapsProgram(target[p], todo[p])'
        BY <1>1, <1>4, <2>1, <2>2 DEF SwapsProgram, Matched
    <2>4. QED
        BY <1>2, <2>3 DEF SwapInv, Swap
<1>9. QED
    BY <1>7, <1>8

\* ... goes rename by rename towards what it will leave ...
LEMMA SwapGoesOn ==
    ASSUME MatchTypes, JobInv, SwapInv,
           NEW p \in Processes, Update!SwapStep(p)
    PROVE  SwapInv'
<1>1. /\ job[p] = "swap" /\ todo[p] # <<>> /\ todo' = [todo EXCEPT ![p] = Tail(todo[p])]
      /\ UNCHANGED <<job, target>>
    BY DEF Update!SwapStep, Update!Swapping, Update!Set
<1>2. todo'[p] = Tail(todo[p])
    BY <1>1 DEF MatchTypes
<1>3. \A q \in Processes : job'[q] = "swap" <=> q = p
    BY <1>1 DEF SwapInv
<1>4. Swap(target[p], todo[p])
    BY <1>1 DEF SwapInv
<1>5. \A f \in Files : Head(todo[p]) = <<"keep", f>> =>
         /\ live' = [live EXCEPT ![f] = 0]
         /\ previous' = IF live[f] = 0 THEN previous ELSE [previous EXCEPT ![f] = live[f]]
    BY DEF Update!SwapStep, Update!Nothing
<1>6. \A f \in Files : Head(todo[p]) = <<"place", f>> =>
         live' = [live EXCEPT ![f] = target[p]] /\ previous' = previous
    BY DEF Update!SwapStep
<1>7. target[p] \in Nat /\ target[p] # 0
    BY <1>1 DEF MatchTypes, JobInv
<1>8. Swap(target[p], todo[p])'
    <2> USE DEF Files
    <2>1. CASE todo[p] = <<<<"keep", "app">>, <<"place", "app">>,
                           <<"keep", "addon">>, <<"place", "addon">>>>
        <3>1. live["app"] # 0 /\ Matched(target[p], target[p], live["app"], KeptAddon)
            BY <1>4, <2>1 DEF Swap, SwapsBoth, SwapsProgram
        <3>2. live' = [live EXCEPT !["app"] = 0] /\ previous' = [previous EXCEPT !["app"] = live["app"]]
            BY <1>5, <2>1, <3>1
        <3>3. KeptAddon' = KeptAddon /\ previous'["app"] = live["app"]
            BY <3>2 DEF KeptAddon, MatchTypes
        <3>4. Tail(todo[p]) = <<<<"place", "app">>, <<"keep", "addon">>, <<"place", "addon">>>>
            BY <2>1
        <3>5. QED
            BY <1>1, <1>2, <3>1, <3>3, <3>4 DEF Swap, SwapsBoth, Matched
    <2>2. CASE todo[p] = <<<<"place", "app">>, <<"keep", "addon">>, <<"place", "addon">>>>
        <3>1. Matched(target[p], target[p], previous["app"], KeptAddon)
            BY <1>4, <2>2 DEF Swap, SwapsBoth, SwapsProgram
        <3>2. live' = [live EXCEPT !["app"] = target[p]] /\ previous' = previous
            BY <1>6, <2>2
        <3>3. KeptAddon' = KeptAddon /\ live'["app"] = target[p]
            BY <3>2 DEF KeptAddon, MatchTypes
        <3>4. Tail(todo[p]) = <<<<"keep", "addon">>, <<"place", "addon">>>>
            BY <2>2
        <3>5. QED
            BY <1>1, <1>2, <3>1, <3>2, <3>3, <3>4 DEF Swap, SwapsBoth, Matched
    <2>3. CASE todo[p] = <<<<"keep", "addon">>, <<"place", "addon">>>>
        <3>1. live["app"] = target[p] /\ Matched(target[p], target[p], previous["app"], KeptAddon)
            BY <1>4, <2>3 DEF Swap, SwapsBoth, SwapsProgram
        <3>2. /\ live' = [live EXCEPT !["addon"] = 0]
              /\ previous' = IF live["addon"] = 0 THEN previous
                             ELSE [previous EXCEPT !["addon"] = live["addon"]]
            BY <1>5, <2>3
        <3>3. /\ previous'["addon"] = KeptAddon /\ previous'["app"] = previous["app"]
              /\ live'["app"] = target[p]
            BY <3>1, <3>2 DEF KeptAddon, MatchTypes
        <3>4. Tail(todo[p]) = <<<<"place", "addon">>>>
            BY <2>3
        <3>5. QED
            BY <1>1, <1>2, <3>1, <3>3, <3>4 DEF Swap, SwapsBoth, Matched
    <2>4. CASE todo[p] = <<<<"place", "addon">>>>
        <3>1. /\ live["app"] = target[p]
              /\ Matched(target[p], target[p], previous["app"], previous["addon"])
            BY <1>4, <2>4 DEF Swap, SwapsBoth, SwapsProgram
        <3>2. live' = [live EXCEPT !["addon"] = target[p]] /\ previous' = previous
            BY <1>6, <2>4
        <3>3. live'["app"] = target[p] /\ live'["addon"] = target[p]
            BY <3>1, <3>2 DEF MatchTypes
        <3>4. Tail(todo[p]) = <<>>
            BY <2>4
        <3>5. QED
            BY <1>2, <3>1, <3>2, <3>3, <3>4 DEF Swap, Match, Matched
    <2>5. CASE todo[p] = <<<<"keep", "app">>, <<"place", "app">>>>
        <3>1. /\ live["app"] # 0
              /\ Matched(target[p], live["addon"], live["app"], previous["addon"])
            BY <1>4, <2>5 DEF Swap, SwapsBoth, SwapsProgram
        <3>2. live' = [live EXCEPT !["app"] = 0] /\ previous' = [previous EXCEPT !["app"] = live["app"]]
            BY <1>5, <2>5, <3>1
        <3>3. /\ live'["addon"] = live["addon"] /\ previous'["app"] = live["app"]
              /\ previous'["addon"] = previous["addon"]
            BY <3>2 DEF MatchTypes
        <3>4. Tail(todo[p]) = <<<<"place", "app">>>>
            BY <2>5
        <3>5. QED
            BY <1>1, <1>2, <3>1, <3>3, <3>4 DEF Swap, SwapsProgram, Matched
    <2>6. CASE todo[p] = <<<<"place", "app">>>>
        <3>1. Matched(target[p], live["addon"], previous["app"], previous["addon"])
            BY <1>4, <2>6 DEF Swap, SwapsBoth, SwapsProgram
        <3>2. live' = [live EXCEPT !["app"] = target[p]] /\ previous' = previous
            BY <1>6, <2>6
        <3>3. live'["app"] = target[p] /\ live'["addon"] = live["addon"]
            BY <3>2 DEF MatchTypes
        <3>4. Tail(todo[p]) = <<>>
            BY <2>6
        <3>5. QED
            BY <1>2, <3>1, <3>2, <3>3, <3>4 DEF Swap, Match, Matched
    <2>7. QED
        BY <1>1, <1>4, <2>1, <2>2, <2>3, <2>4, <2>5, <2>6 DEF Swap, SwapsBoth, SwapsProgram
<1>9. QED
    BY <1>3, <1>8 DEF SwapInv

\* ... and leaves it.
LEMMA SwapEnds ==
    ASSUME MatchTypes, SwapInv, NEW p \in Processes, Update!Swapped(p)
    PROVE  SwapInv'
<1>1. /\ job[p] = "swap" /\ todo[p] = <<>> /\ job' = [job EXCEPT ![p] = "none"]
      /\ UNCHANGED <<live, previous>>
    BY DEF Update!Swapped, Update!Swapping, Update!Set, Update!installed
<1>2. \A q \in Processes : job'[q] # "swap"
    BY <1>1 DEF SwapInv, MatchTypes
<1>3. Match
    BY <1>1 DEF SwapInv, Swap, SwapsBoth, SwapsProgram
<1>4. QED
    BY <1>1, <1>2, <1>3 DEF SwapInv, Match

LEMMA GoesBack ==
    ASSUME Sequential, MatchTypes, SwapInv, NEW p \in Processes, Update!Rollback(p)
    PROVE  SwapInv'
<1>1. /\ job' = job /\ \A q \in Processes : job[q] # "swap"
    BY DEF Update!Rollback, Update!FilesFree, Update!Swapping, Sequential
<1>2. /\ live' = [f \in Files |-> IF previous[f] # 0 THEN previous[f] ELSE live[f]]
      /\ previous' = [f \in Files |-> IF previous[f] # 0 THEN live[f] ELSE previous[f]]
    BY DEF Update!Rollback, Update!Files, Files, Update!Nothing
<1> DEFINE a == live["app"]   d == live["addon"]   b == previous["app"]   e == previous["addon"]
<1>3. /\ a \in Nat /\ d \in Nat /\ b \in Nat /\ e \in Nat /\ Matched(a, d, b, e)
    BY <1>1 DEF MatchTypes, SwapInv, Match, Files
<1>4. Matched(IF b # 0 THEN b ELSE a, IF e # 0 THEN e ELSE d,
              IF b # 0 THEN a ELSE b, IF e # 0 THEN d ELSE e)
    <2> HIDE DEF a, d, b, e
    <2>1. QED BY <1>3, MatchedBack
<1>5. /\ live'["app"] = IF b # 0 THEN b ELSE a
      /\ live'["addon"] = IF e # 0 THEN e ELSE d
      /\ previous'["app"] = IF b # 0 THEN a ELSE b
      /\ previous'["addon"] = IF e # 0 THEN d ELSE e
    BY <1>2 DEF Files
<1>6. Match'
    <2> HIDE DEF a, d, b, e
    <2>1. QED BY <1>4, <1>5 DEF Match
<1>7. QED
    BY <1>1, <1>6 DEF SwapInv

LEMMA MatchNext ==
    ASSUME Sequential, MatchInv, [Update!Next]_Update!vars
    PROVE  MatchInv'
<1> USE DEF MatchInv
<1>1. MatchTypes' /\ JobInv'
    BY TypesAndJobsNext
<1>2. SwapInv'
    <2> USE DEF Update!Set, Update!installed
    <2>1. CASE UNCHANGED Update!vars \/ Update!Release \/ Update!Setting
        <3>1. UNCHANGED <<live, previous, todo, job, target>>
            BY <2>1 DEF Update!vars, Update!Release, Update!Setting
        <3>2. QED
            BY <3>1, Aside
    <2>2. ASSUME NEW p \in Processes, Update!Process(p) PROVE SwapInv'
        <3>1. CASE \/ Update!Quit(p) \/ Update!Launch(p) \/ Update!Checked(p)
                   \/ Update!CheckSkipped(p) \/ Update!OutOfBudget(p) \/ Update!UserApplies(p)
                   \/ Update!Resolve(p) \/ Update!Throws(p)
            <4>1. UNCHANGED <<live, previous, todo>>
                BY <3>1 DEF Update!Quit, Update!Launch, Update!Checked, Update!CheckSkipped,
                    Update!OutOfBudget, Update!UserApplies, Update!Resolve, Update!Throws
            <4>2. \/ job' = job
                  \/ /\ job[p] # "swap"
                     /\ \E j \in {"none", "resolve", "download"} : job' = [job EXCEPT ![p] = j]
                <5>1. CASE Update!Checked(p)
                    BY <5>1 DEF Update!Checked, MatchTypes, JobInv
                <5>2. CASE Update!Resolve(p)
                    BY <5>2 DEF Update!Resolve
                <5>3. QED
                    BY <3>1, <5>1, <5>2 DEF Update!Quit, Update!Launch, Update!CheckSkipped,
                        Update!OutOfBudget, Update!UserApplies, Update!Throws, Update!Swapping
            <4>3. \/ target' = target
                  \/ job[p] # "swap" /\ target' = [target EXCEPT ![p] = latest]
                <5>1. CASE Update!Resolve(p)
                    BY <5>1 DEF Update!Resolve
                <5>2. QED
                    BY <3>1, <5>1 DEF Update!Quit, Update!Launch, Update!Checked,
                        Update!CheckSkipped, Update!OutOfBudget, Update!UserApplies, Update!Throws
            <4>4. \A q \in Processes : job'[q] = "swap" <=> job[q] = "swap"
                BY <4>2 DEF MatchTypes
            <4>5. \A q \in Processes : job[q] = "swap" => target'[q] = target[q]
                BY <4>3 DEF MatchTypes
            <4>6. QED
                BY <4>1, <4>4, <4>5, Aside
        <3>2. CASE Update!Downloaded(p)
            BY <3>2, SwapBegins
        <3>3. CASE Update!SwapStep(p)
            BY <3>3, SwapGoesOn
        <3>4. CASE Update!Swapped(p)
            BY <3>4, SwapEnds
        <3>5. CASE Update!Rollback(p)
            BY <3>5, GoesBack
        <3>6. QED
            BY <2>2, <3>1, <3>2, <3>3, <3>4, <3>5 DEF Update!Process
    <2>3. QED
        BY <2>1, <2>2 DEF Update!Next
<1>3. QED
    BY <1>1, <1>2

(* Updates that come one after another, and none back to before the addon,  *)
(* leave no program beside an addon older than itself, whichever releases   *)
(* they skip and however they are rolled back (update-runtime.ts:312-314).  *)
THEOREM AddonKeepsUp == ASSUME Sequential PROVE Update!Spec => []NoStaleAddon
<1>1. Update!Init => MatchInv
    BY InitMatch
<1>2. MatchInv /\ [Update!Next]_Update!vars => MatchInv'
    BY MatchNext
<1>3. MatchInv => NoStaleAddon
    BY DEF MatchInv, MatchTypes, SwapInv, Match, Matched, Files, NoStaleAddon,
           Swapping, Nothing
<1>4. QED
    BY <1>1, <1>2, <1>3, PTL DEF Update!Spec

LEMMA UpdateTypeNext ==
    ASSUME Update!TypeOK, [Update!Next]_Update!vars
    PROVE  Update!TypeOK'
<1> USE DEF Update!TypeOK, Update!Set, Update!Nothing, Update!installed
<1>1. CASE UNCHANGED Update!vars
    BY <1>1 DEF Update!vars
<1>2. CASE Update!Release \/ Update!Setting
    <2>1. latest' \in Update!Versions
        <3>1. latest' = latest \/ (latest < MaxVersion /\ latest' = latest + 1)
            BY <1>2 DEF Update!Release, Update!Setting
        <3>2. latest \in Update!Versions
            OBVIOUS
        <3>3. QED
            BY ONLY <3>1, <3>2, VersionsAssumption DEF Update!Versions
    <2>2. auto' \in BOOLEAN
        BY <1>2 DEF Update!Release, Update!Setting
    <2>3. UNCHANGED <<live, previous, runs, at, job, target, todo, signal, said>>
        BY <1>2 DEF Update!Release, Update!Setting
    <2>4. QED
        BY <2>1, <2>2, <2>3
<1>3. ASSUME NEW p \in Processes, Update!Process(p) PROVE Update!TypeOK'
    <2>1. CASE Update!Quit(p)
        BY <2>1 DEF Update!Quit
    <2>2. CASE Update!Launch(p)
        <3>1. live["app"] \in Update!Versions \cup {0}
            BY DEF Update!Files
        <3>2. QED
            BY <2>2, <3>1 DEF Update!Launch
    <2>3. CASE Update!Checked(p) \/ Update!CheckSkipped(p)
        <3>1. UNCHANGED <<latest, auto, live, previous, runs, target, todo, signal, said>>
            BY <2>3 DEF Update!Checked, Update!CheckSkipped
        <3>2. \/ at' = [at EXCEPT ![p] = "session"] /\ job' = job
              \/ at' = [at EXCEPT ![p] = "install"] /\ job' = [job EXCEPT ![p] = "resolve"]
            BY <2>3 DEF Update!Checked, Update!CheckSkipped
        <3>3. QED
            BY <3>1, <3>2
    <2>4. CASE Update!OutOfBudget(p)
        BY <2>4 DEF Update!OutOfBudget
    <2>5. CASE Update!UserApplies(p)
        BY <2>5 DEF Update!UserApplies
    <2>6. CASE Update!Resolve(p)
        BY <2>6 DEF Update!Resolve
    <2>7. CASE Update!Throws(p)
        BY <2>7 DEF Update!Throws, Update!Carries
    <2>8. CASE Update!Downloaded(p)
        <3>1. PICK s \in Seq({"keep", "place"} \X Update!Files) : todo' = [todo EXCEPT ![p] = s]
            <4>1. /\ <<<<"keep", "app">>, <<"place", "app">>,
                        <<"keep", "addon">>, <<"place", "addon">>>>
                        \in Seq({"keep", "place"} \X Update!Files)
                  /\ <<<<"keep", "app">>, <<"place", "app">>>>
                        \in Seq({"keep", "place"} \X Update!Files)
                BY ONLY DEF Update!Files
            <4>2. QED
                BY <2>8, <4>1, Renames DEF Update!Downloaded
        <3>2. UNCHANGED <<latest, auto, live, previous, runs, at, target, signal, said>>
              /\ job' = [job EXCEPT ![p] = "swap"]
            BY <2>8 DEF Update!Downloaded
        <3>3. QED
            BY <3>1, <3>2
    <2>9. CASE Update!SwapStep(p)
        <3>1. /\ todo[p] # <<>> /\ todo' = [todo EXCEPT ![p] = Tail(todo[p])]
              /\ UNCHANGED <<latest, auto, runs, at, job, target, signal, said>>
            BY <2>9 DEF Update!SwapStep
        <3>2. /\ Head(todo[p]) \in {"keep", "place"} \X Update!Files
              /\ Tail(todo[p]) \in Seq({"keep", "place"} \X Update!Files)
            <4>1. todo \in [Processes -> Seq({"keep", "place"} \X Update!Files)]
                OBVIOUS
            <4>2. todo[p] \in Seq({"keep", "place"} \X Update!Files)
                BY ONLY <4>1, p \in Processes
            <4>3. todo[p] # <<>>
                BY <3>1
            <4>4. QED
                BY ONLY <4>2, <4>3
        <3>3. PICK f \in Update!Files :
                \/ /\ previous' = IF live[f] = 0 THEN previous ELSE [previous EXCEPT ![f] = live[f]]
                   /\ live' = [live EXCEPT ![f] = 0]
                \/ live' = [live EXCEPT ![f] = target[p]] /\ previous' = previous
            <4>1. Head(todo[p])[2] \in Update!Files
                BY <3>2
            <4>2. QED
                BY <2>9, <4>1 DEF Update!SwapStep
        <3>4. /\ live' \in [Update!Files -> Update!Versions \cup {0}]
              /\ previous' \in [Update!Files -> Update!Versions \cup {0}]
            <4> DEFINE V == Update!Versions \cup {0}
            <4>1. /\ 0 \in V /\ target[p] \in V /\ live[f] \in V
                  /\ live \in [Update!Files -> V] /\ previous \in [Update!Files -> V]
                OBVIOUS
            <4> HIDE DEF V
            <4>2. live' \in [Update!Files -> V] /\ previous' \in [Update!Files -> V]
                BY <3>3, <4>1
            <4>3. QED
                BY <4>2 DEF V
        <3>5. todo' \in [Processes -> Seq({"keep", "place"} \X Update!Files)]
            BY <3>1, <3>2
        <3>6. QED
            BY <3>1, <3>4, <3>5
    <2>10. CASE Update!Swapped(p)
        <3>1. live["app"] \in Update!Versions \cup {0}
            BY DEF Update!Files
        <3>2. QED
            BY <2>10, <3>1 DEF Update!Swapped, Update!Onto
    <2>11. CASE Update!Rollback(p)
        BY <2>11 DEF Update!Rollback
    <2>12. QED
        BY <1>3, <2>1, <2>2, <2>3, <2>4, <2>5, <2>6, <2>7, <2>8, <2>9, <2>10, <2>11
        DEF Update!Process
<1>4. QED
    BY <1>1, <1>2, <1>3 DEF Update!Next

(* Whatever goes wrong, every installed or kept file is of a release or not *)
(* there, and a swap has only renames of the two files left to make         *)
(* (update-runtime.ts:312-374).                                             *)
THEOREM UpdateTypeCorrect == Update!Spec => []Update!TypeOK
<1>1. Update!Init => Update!TypeOK
    <2> SUFFICES ASSUME Update!Init PROVE Update!TypeOK
        OBVIOUS
    <2>1. 1 \in Update!Versions
        BY VersionsAssumption DEF Update!Versions
    <2>2. /\ live \in [Update!Files -> Update!Versions \cup {0}]
          /\ previous \in [Update!Files -> Update!Versions \cup {0}]
        BY <2>1 DEF Update!Init, Update!Nothing
    <2>3. todo \in [Processes -> Seq({"keep", "place"} \X Update!Files)]
        <3>1. todo = [p \in Processes |-> <<>>]
            BY DEF Update!Init
        <3>2. QED
            BY ONLY <3>1
    <2>4. QED
        BY <2>1, <2>2, <2>3 DEF Update!Init, Update!TypeOK, Update!Nothing
<1>2. Update!TypeOK /\ [Update!Next]_Update!vars => Update!TypeOK'
    BY UpdateTypeNext
<1>3. QED
    BY <1>1, <1>2, PTL DEF Update!Spec

-----------------------------------------------------------------------------
(***************************************************************************)
(* The unit files.                                                          *)
(***************************************************************************)
CONSTANT ServiceFaults
VARIABLES resolved, mig, by

Service == INSTANCE DaemonMigration WITH Faults <- ServiceFaults

UnitTypes ==
    /\ unitFile \in [Units -> {"none", "script", "hand", "tui"}]
    /\ enabled \in [Units -> BOOLEAN]
    /\ proc \in [Units -> {"stopped", "failed", "forked", "serving"}]
    /\ port \in BOOLEAN /\ works \in BOOLEAN
    /\ resolved \in Units
    /\ mig \in Service!Migration
    /\ rec \in Service!Reconcile
    /\ by \in Units

\* A migration is to the managed unit, which it has installed before it starts
\* it.  A reconcile goes on only while the daemon that runs it serves.
StepsInv ==
    /\ mig # "idle" => resolved = "managed"
    /\ mig \in {"start", "check"} => Boots("managed")
    /\ rec # "idle" => proc[by] = "serving"
    /\ rec \notin {"idle", "canonical", "legacy"} => by = "managed"
    /\ proc["managed"] = "serving" => works

\* Once the legacy unit is known not to run it does not, until it is disabled.
RetiredInv == rec \in {"probe", "marker", "disable"} => ~Active("legacy")

\* The legacy daemon is kept as long as the managed one has not served, and
\* keeps the port from it except where that one is there to stay.
LegacyKept ==
    /\ Boots("legacy") /\ proc["legacy"] # "stopped"
    /\ proc["managed"] # "serving" /\ port
    /\ mig \in {"idle", "install", "start", "check", "rollback"}
    /\ works /\ proc["managed"] \in {"forked", "failed"} =>
          \/ proc["legacy"] = "serving"
          \/ Boots("managed") /\ mig = "idle"
          \/ mig = "check" /\ proc["managed"] = "forked"

\* The managed daemon is there to stay.
ManagedKept ==
    /\ works /\ Boots("managed") /\ proc["managed"] # "stopped"
    /\ \/ mig \in {"idle", "stop", "disable", "remove"}
       \/ mig = "check" /\ proc["managed"] = "serving"

\* Beside a managed daemon on another port the legacy unit is not given up.
OtherPortInv ==
    ~port => /\ ManagedKept /\ mig = "idle"
             /\ rec \in {"idle", "canonical", "legacy", "probe"}
             /\ rec = "probe" => ~Active("legacy")

KeptInv == LegacyKept \/ ManagedKept

\* A systemctl call works or has no effect.
LEMMA Stops ==
    ASSUME NEW u \in Units, NEW outcome, Service!Stop(u, outcome)
    PROVE  \/ proc' = [proc EXCEPT ![u] = "stopped"] /\ rec' = IF by = u THEN "idle" ELSE rec
           \/ proc' = proc /\ rec' = rec
BY DEF Service!Stop, Service!Set, Service!RecOf

LEMMA Disables ==
    ASSUME NEW u \in Units, NEW outcome, Service!Disable(u, outcome)
    PROVE  enabled' = [enabled EXCEPT ![u] = FALSE] \/ enabled' = enabled
BY DEF Service!Disable

LEMMA UnitTypesNext ==
    ASSUME UnitTypes, [Service!Next]_Service!vars
    PROVE  UnitTypes'
<1> USE DEF UnitTypes, Units, Service!Migration, Service!Reconcile, Service!Set, Service!host,
            Service!units, Service!Remove
<1>1. CASE UNCHANGED Service!vars
    BY <1>1 DEF Service!vars
<1>2. ASSUME NEW u \in Units, Service!Serve(u) \/ Service!Exit(u) \/ Service!Restart(u)
      PROVE  UnitTypes'
    BY <1>2 DEF Service!Serve, Service!Exit, Service!Restart
<1>3. ASSUME NEW u \in Units, Service!Begin(u) PROVE UnitTypes'
    BY <1>3 DEF Service!Begin
<1>4. CASE Service!UserStarts \/ Service!Reboot
    <2>1. CASE Service!UserStarts
        BY <2>1 DEF Service!UserStarts
    <2>2. CASE Service!Reboot
        <3>1. proc' \in [Units -> {"stopped", "failed", "forked", "serving"}]
            BY <2>2 DEF Service!Reboot, Service!Units
        <3>2. QED
            BY <2>2, <3>1 DEF Service!Reboot
    <2>3. QED
        BY <1>4, <2>1, <2>2
<1>5. CASE Service!Consent \/ Service!MigrationDies
    BY <1>5 DEF Service!Consent, Service!MigrationDies
<1>6. CASE Service!Install
    BY <1>6 DEF Service!Install
<1>7. CASE Service!Start \/ Service!Check
    BY <1>7 DEF Service!Start, Service!Check
<1>8. CASE Service!Rollback
    <2>1. /\ \/ proc' = [proc EXCEPT ![resolved] = "stopped"]
                /\ rec' = IF by = resolved THEN "idle" ELSE rec
             \/ proc' = proc /\ rec' = rec
          /\ enabled' = [enabled EXCEPT ![resolved] = FALSE] \/ enabled' = enabled
        BY <1>8, Stops, Disables DEF Service!Rollback
    <2>2. QED
        BY <1>8, <2>1 DEF Service!Rollback
<1>9. CASE Service!StopLegacy
    <2>1. \/ proc' = [proc EXCEPT !["legacy"] = "stopped"] /\ rec' \in {"idle", rec}
          \/ proc' = proc /\ rec' = rec
        BY <1>9, Stops DEF Service!StopLegacy
    <2>2. QED
        BY <1>9, <2>1 DEF Service!StopLegacy
<1>10. CASE Service!DisableLegacy
    <2>1. enabled' = [enabled EXCEPT !["legacy"] = FALSE] \/ enabled' = enabled
        BY <1>10, Disables DEF Service!DisableLegacy
    <2>2. QED
        BY <1>10, <2>1 DEF Service!DisableLegacy
<1>11. CASE Service!RemoveLegacy
    BY <1>11 DEF Service!RemoveLegacy
<1>12. CASE Service!Refuse \/ Service!Canonical \/ Service!Legacy \/ Service!Probe
            \/ Service!Marker \/ Service!Inspect
    BY <1>12 DEF Service!Refuse, Service!Canonical, Service!Legacy, Service!Probe,
       Service!Marker, Service!Inspect
<1>13. CASE Service!DisableNow
    <2>1. /\ enabled' = [enabled EXCEPT !["legacy"] = FALSE] \/ enabled' = enabled
          /\ proc' = [proc EXCEPT !["legacy"] = "stopped"] \/ proc' = proc
          /\ rec' \in {"idle", "remove", "inspect"}
        BY <1>13, Disables DEF Service!DisableNow
    <2>2. QED
        BY <1>13, <2>1 DEF Service!DisableNow
<1>14. CASE Service!RemoveRedundant
    BY <1>14 DEF Service!RemoveRedundant
<1>15. QED
    BY <1>1, <1>2, <1>3, <1>4, <1>5, <1>6, <1>7, <1>8, <1>9, <1>10, <1>11, <1>12, <1>13, <1>14
    DEF Service!Next, Service!Migrate, Service!ReconcileStep, Service!Units

LEMMA StepsNext ==
    ASSUME UnitTypes, StepsInv, [Service!Next]_Service!vars
    PROVE  StepsInv'
<1> USE DEF UnitTypes, StepsInv, Boots, Units, Service!Migration, Service!Reconcile, Service!Set,
            Service!host, Service!units, Service!Remove
<1>1. CASE UNCHANGED Service!vars
    BY <1>1 DEF Service!vars
<1>2. ASSUME NEW u \in Units, Service!Serve(u) \/ Service!Exit(u) \/ Service!Restart(u)
      PROVE  StepsInv'
    BY <1>2 DEF Service!Serve, Service!Exit, Service!Restart, Service!Able
<1>3. ASSUME NEW u \in Units, Service!Begin(u) PROVE StepsInv'
    BY <1>3 DEF Service!Begin
<1>4. CASE Service!UserStarts
    BY <1>4 DEF Service!UserStarts
<1>5. CASE Service!Reboot
    <2>1. proc'["managed"] # "serving" /\ mig' = "idle" /\ rec' = "idle"
        BY <1>5 DEF Service!Reboot, Service!Units
    <2>2. QED
        BY <2>1
<1>6. CASE Service!Consent \/ Service!MigrationDies
    BY <1>6 DEF Service!Consent, Service!MigrationDies, Service!Refused
<1>7. CASE Service!Install
    BY <1>7 DEF Service!Install
<1>8. CASE Service!Start \/ Service!Check
    BY <1>8 DEF Service!Start, Service!Check, Service!Active
<1>9. CASE Service!Rollback
    <2>1. /\ mig' = "idle" /\ UNCHANGED <<works, by>>
          /\ \/ proc' = [proc EXCEPT ![resolved] = "stopped"]
                /\ rec' = IF by = resolved THEN "idle" ELSE rec
             \/ proc' = proc /\ rec' = rec
        BY <1>9, Stops DEF Service!Rollback
    <2>2. QED
        BY <2>1
<1>10. CASE Service!StopLegacy
    <2>1. /\ mig' = "disable" /\ mig = "stop" /\ UNCHANGED <<works, by, resolved>>
          /\ \/ proc' = [proc EXCEPT !["legacy"] = "stopped"]
                /\ rec' = IF by = "legacy" THEN "idle" ELSE rec
             \/ proc' = proc /\ rec' = rec
        BY <1>10, Stops DEF Service!StopLegacy
    <2>2. QED
        BY <2>1
<1>11. CASE Service!DisableLegacy \/ Service!RemoveLegacy
    BY <1>11 DEF Service!DisableLegacy, Service!RemoveLegacy
<1>12. CASE Service!Refuse \/ Service!Canonical \/ Service!Legacy \/ Service!Probe
            \/ Service!Marker \/ Service!Inspect
    BY <1>12 DEF Service!Refuse, Service!Canonical, Service!Legacy, Service!Probe,
       Service!Marker, Service!Inspect
<1>13. CASE Service!DisableNow
    <2>1. /\ by = "managed" /\ rec' \in {"idle", "remove", "inspect"}
          /\ UNCHANGED <<works, by, resolved, mig, unitFile>>
          /\ enabled' = [enabled EXCEPT !["legacy"] = FALSE] \/ enabled' = enabled
          /\ proc' = [proc EXCEPT !["legacy"] = "stopped"] \/ proc' = proc
        BY <1>13, Disables DEF Service!DisableNow
    <2>2. proc["managed"] = "serving"
        BY <1>13, <2>1 DEF Service!DisableNow
    <2>3. proc'["managed"] = "serving" /\ enabled'["managed"] = enabled["managed"]
        BY <2>1, <2>2
    <2>4. QED
        BY <2>1, <2>2, <2>3
<1>14. CASE Service!RemoveRedundant
    BY <1>14 DEF Service!RemoveRedundant
<1>15. QED
    BY <1>1, <1>2, <1>3, <1>4, <1>5, <1>6, <1>7, <1>8, <1>9, <1>10, <1>11, <1>12, <1>13, <1>14
    DEF Service!Next, Service!Migrate, Service!ReconcileStep, Service!Units

LEMMA RetiredNext ==
    ASSUME "lateStart" \notin ServiceFaults,
           UnitTypes, StepsInv, RetiredInv, [Service!Next]_Service!vars
    PROVE  RetiredInv'
<1> USE DEF UnitTypes, RetiredInv, Active, Units, Service!Migration, Service!Reconcile,
            Service!Set, Service!host, Service!units, Service!Remove
<1>1. CASE UNCHANGED Service!vars
    BY <1>1 DEF Service!vars
<1>2. ASSUME NEW u \in Units, Service!Serve(u) \/ Service!Exit(u) PROVE RetiredInv'
    BY <1>2 DEF Service!Serve, Service!Exit
<1>3. ASSUME NEW u \in Units, Service!Restart(u) PROVE RetiredInv'
    BY <1>3 DEF Service!Restart, Service!Examined
<1>4. ASSUME NEW u \in Units, Service!Begin(u) PROVE RetiredInv'
    BY <1>4 DEF Service!Begin
<1>5. CASE Service!UserStarts
    BY <1>5 DEF Service!UserStarts, Service!Examined
<1>6. CASE Service!Reboot
    BY <1>6 DEF Service!Reboot
<1>7. CASE Service!Consent \/ Service!MigrationDies \/ Service!Install \/ Service!Check
    BY <1>7 DEF Service!Consent, Service!MigrationDies, Service!Install, Service!Check
<1>8. CASE Service!Start
    <2>1. resolved = "managed" /\ rec' = rec
        BY <1>8 DEF Service!Start, StepsInv
    <2>2. proc'["legacy"] = proc["legacy"]
        BY <1>8, <2>1 DEF Service!Start
    <2>3. QED
        BY <2>1, <2>2
<1>9. CASE Service!Rollback \/ Service!StopLegacy
    <2>1. PICK u \in Units :
             \/ proc' = [proc EXCEPT ![u] = "stopped"] /\ rec' \in {"idle", rec}
             \/ proc' = proc /\ rec' = rec
        <3>1. CASE Service!Rollback
            BY <3>1, Stops DEF Service!Rollback
        <3>2. CASE Service!StopLegacy
            BY <3>2, Stops DEF Service!StopLegacy
        <3>3. QED
            BY <1>9, <3>1, <3>2
    <2>2. QED
        BY <2>1
<1>10. CASE Service!DisableLegacy \/ Service!RemoveLegacy
    BY <1>10 DEF Service!DisableLegacy, Service!RemoveLegacy
<1>11. CASE Service!Refuse \/ Service!Canonical \/ Service!Legacy \/ Service!Probe
            \/ Service!Marker \/ Service!Inspect
    BY <1>11 DEF Service!Refuse, Service!Canonical, Service!Legacy, Service!NotRunning,
       Service!Active, Service!Probe, Service!Marker, Service!Inspect
<1>12. CASE Service!DisableNow
    BY <1>12 DEF Service!DisableNow
<1>13. CASE Service!RemoveRedundant
    BY <1>13 DEF Service!RemoveRedundant
<1>14. QED
    BY <1>1, <1>2, <1>3, <1>4, <1>5, <1>6, <1>7, <1>8, <1>9, <1>10, <1>11, <1>12, <1>13
    DEF Service!Next, Service!Migrate, Service!ReconcileStep, Service!Units

\* The course of events under which one daemon is always kept.
Careful == ServiceFaults \cap {"again", "window", "flaky"} = {}

\* The managed daemon, once it is there, stays ...
LEMMA ManagedStays ==
    ASSUME Careful, UnitTypes, StepsInv, ManagedKept, [Service!Next]_Service!vars
    PROVE  ManagedKept'
<1> USE DEF UnitTypes, StepsInv, ManagedKept, Boots, Units, Careful, Service!Migration,
            Service!Reconcile, Service!Set, Service!host, Service!units, Service!Remove
<1>1. CASE UNCHANGED Service!vars
    BY <1>1 DEF Service!vars
<1>2. ASSUME NEW u \in Units, Service!Serve(u) \/ Service!Exit(u) \/ Service!Restart(u)
      PROVE  ManagedKept'
    BY <1>2 DEF Service!Serve, Service!Exit, Service!Restart
<1>3. ASSUME NEW u \in Units, Service!Begin(u) PROVE ManagedKept'
    BY <1>3 DEF Service!Begin
<1>4. CASE Service!UserStarts
    BY <1>4 DEF Service!UserStarts
<1>5. CASE Service!Reboot
    <2>1. proc'["managed"] = "failed"
        BY <1>5 DEF Service!Reboot, Service!Units, Service!Boots
    <2>2. QED
        BY <1>5, <2>1 DEF Service!Reboot
<1>6. CASE Service!Consent \/ Service!MigrationDies
    BY <1>6 DEF Service!Consent, Service!MigrationDies, Service!Refused, Service!NothingToMigrate
<1>7. CASE Service!Install \/ Service!Start \/ Service!Rollback
    BY <1>7 DEF Service!Install, Service!Start, Service!Rollback
<1>8. CASE Service!Check
    BY <1>8 DEF Service!Check, Service!Healthy, Service!Active
<1>9. CASE Service!StopLegacy
    <2>1. /\ mig' = "disable" /\ UNCHANGED <<works, unitFile, enabled>>
          /\ proc' = [proc EXCEPT !["legacy"] = "stopped"] \/ proc' = proc
        BY <1>9, Stops DEF Service!StopLegacy
    <2>2. QED
        BY <2>1
<1>10. CASE Service!DisableLegacy
    <2>1. /\ mig' = "remove" /\ UNCHANGED <<works, unitFile, proc>>
          /\ enabled' = [enabled EXCEPT !["legacy"] = FALSE] \/ enabled' = enabled
        BY <1>10, Disables DEF Service!DisableLegacy
    <2>2. QED
        BY <2>1
<1>11. CASE Service!RemoveLegacy
    BY <1>11 DEF Service!RemoveLegacy
<1>12. CASE Service!Refuse \/ Service!Canonical \/ Service!Legacy \/ Service!Probe
            \/ Service!Marker \/ Service!Inspect
    BY <1>12 DEF Service!Refuse, Service!Canonical, Service!Legacy, Service!Probe,
       Service!Marker, Service!Inspect
<1>13. CASE Service!DisableNow
    <2>1. /\ UNCHANGED <<works, unitFile, mig>>
          /\ enabled' = [enabled EXCEPT !["legacy"] = FALSE] \/ enabled' = enabled
          /\ proc' = [proc EXCEPT !["legacy"] = "stopped"] \/ proc' = proc
        BY <1>13, Disables DEF Service!DisableNow
    <2>2. QED
        BY <2>1
<1>14. CASE Service!RemoveRedundant
    BY <1>14 DEF Service!RemoveRedundant
<1>15. QED
    BY <1>1, <1>2, <1>3, <1>4, <1>5, <1>6, <1>7, <1>8, <1>9, <1>10, <1>11, <1>12, <1>13, <1>14
    DEF Service!Next, Service!Migrate, Service!ReconcileStep, Service!Units

\* ... and until it is, the legacy one does.
LEMMA LegacyStays ==
    ASSUME Careful, UnitTypes, StepsInv, LegacyKept, [Service!Next]_Service!vars
    PROVE  LegacyKept' \/ ManagedKept'
<1> USE DEF UnitTypes, StepsInv, LegacyKept, Boots, Units, Careful, Service!Migration,
            Service!Reconcile, Service!Set, Service!host, Service!units, Service!Remove
<1>1. CASE UNCHANGED Service!vars
    BY <1>1 DEF Service!vars
\* A daemon that serves is the legacy one, so a reconcile does not get far.
<1>2. rec \in {"idle", "canonical", "legacy"} /\ (rec # "idle" => by = "legacy")
    OBVIOUS
<1>3. ASSUME NEW u \in Units, Service!Serve(u) PROVE LegacyKept' \/ ManagedKept'
    <2>1. CASE u = "legacy"
        BY <1>3, <2>1 DEF Service!Serve
    <2>2. CASE u = "managed"
        <3>1. proc["legacy"] # "serving"
            BY <1>3, <2>2 DEF Service!Serve, Service!OnPort, Service!Answered, Service!Units
        <3>2. ManagedKept'
            BY <1>3, <2>2, <3>1 DEF Service!Serve, Service!Able, ManagedKept
        <3>3. QED
            BY <3>2
    <2>3. QED
        BY <2>1, <2>2
<1>4. ASSUME NEW u \in Units, Service!Exit(u) PROVE LegacyKept' \/ ManagedKept'
    <2>1. CASE u = "legacy"
        BY <1>4, <2>1 DEF Service!Exit, Service!Able, Service!Answered, Service!Units
    <2>2. CASE u = "managed"
        BY <1>4, <2>2 DEF Service!Exit, Service!Able, Service!Answered, Service!Units
    <2>3. QED
        BY <2>1, <2>2
<1>5. ASSUME NEW u \in Units, Service!Restart(u) PROVE LegacyKept' \/ ManagedKept'
    BY <1>5 DEF Service!Restart
<1>6. ASSUME NEW u \in Units, Service!Begin(u) PROVE LegacyKept' \/ ManagedKept'
    BY <1>6 DEF Service!Begin
<1>7. CASE Service!UserStarts
    BY <1>7 DEF Service!UserStarts
<1>8. CASE Service!Reboot
    <2>1. /\ proc'["legacy"] = "failed"
          /\ proc'["managed"] \in {"failed", "stopped"}
          /\ proc'["managed"] = "failed" => Boots("managed")
        BY <1>8 DEF Service!Reboot, Service!Units, Service!Boots
    <2>2. QED
        BY <1>8, <2>1 DEF Service!Reboot
<1>9. CASE Service!Consent
    BY <1>9 DEF Service!Consent, Service!Refused, Service!NothingToMigrate
<1>10. CASE Service!MigrationDies
    BY <1>10 DEF Service!MigrationDies
<1>11. CASE Service!Install
    BY <1>11 DEF Service!Install
<1>12. CASE Service!Start
    BY <1>12 DEF Service!Start, Service!Active
<1>13. CASE Service!Check
    BY <1>13 DEF Service!Check, Service!Healthy, Service!Active, Service!Able, ManagedKept
<1>14. CASE Service!Rollback
    <2>1. /\ mig' = "idle" /\ UNCHANGED <<works, port>> /\ resolved = "managed"
          /\ proc' = [proc EXCEPT !["managed"] = "stopped"] \/ proc' = proc
          /\ enabled' = [enabled EXCEPT !["managed"] = FALSE] \/ enabled' = enabled
          /\ unitFile' = [unitFile EXCEPT !["managed"] = "none"] \/ unitFile' = unitFile
          /\ mig = "rollback"
        BY <1>14, Stops, Disables DEF Service!Rollback
    <2>2. QED
        BY <2>1
<1>15. CASE Service!StopLegacy \/ Service!DisableLegacy \/ Service!RemoveLegacy
    BY <1>15 DEF Service!StopLegacy, Service!DisableLegacy, Service!RemoveLegacy
<1>16. CASE Service!Refuse \/ Service!Canonical
    BY <1>16 DEF Service!Refuse, Service!Canonical
<1>17. CASE Service!Legacy \/ Service!Probe \/ Service!Marker \/ Service!DisableNow
            \/ Service!Inspect \/ Service!RemoveRedundant
    BY <1>2, <1>17 DEF Service!Legacy, Service!Probe, Service!Marker, Service!DisableNow,
       Service!Inspect, Service!RemoveRedundant
<1>18. QED
    BY <1>1, <1>3, <1>4, <1>5, <1>6, <1>7, <1>8, <1>9, <1>10, <1>11, <1>12, <1>13, <1>14,
       <1>15, <1>16, <1>17
    DEF Service!Next, Service!Migrate, Service!ReconcileStep, Service!Units

\* The port a managed unit was installed with is the configured one for good.
LEMMA PortStays ==
    ASSUME UnitTypes, [Service!Next]_Service!vars
    PROVE  port' = port \/ port' = TRUE
<1> USE DEF Service!host, Service!units
<1>1. QED
    BY DEF Service!Next, Service!vars, Service!Migrate, Service!ReconcileStep, UnitTypes,
       Service!Serve, Service!Exit, Service!Restart, Service!Begin, Service!UserStarts,
       Service!Reboot, Service!Consent, Service!Install, Service!Start, Service!Check,
       Service!Rollback, Service!StopLegacy, Service!DisableLegacy, Service!RemoveLegacy,
       Service!MigrationDies, Service!Refuse, Service!Canonical, Service!Legacy,
       Service!Probe, Service!Marker, Service!DisableNow, Service!Inspect,
       Service!RemoveRedundant

LEMMA OtherPortNext ==
    ASSUME Careful, "noEndpoint" \notin ServiceFaults, UnitTypes, StepsInv, RetiredInv',
           OtherPortInv, [Service!Next]_Service!vars
    PROVE  OtherPortInv'
<1> USE DEF OtherPortInv, Service!host, Service!units
<1> SUFFICES ASSUME ~port' PROVE OtherPortInv'
    OBVIOUS
<1>1. port' = port
    BY PortStays DEF UnitTypes
<1>2. ManagedKept'
    BY <1>1, ManagedStays
<1>3. mig' = "idle"
    BY <1>1 DEF Service!Next, Service!vars, Service!Migrate, Service!ReconcileStep, UnitTypes,
       ManagedKept, Boots, Careful, Service!Refused, Service!NothingToMigrate,
       Service!Serve, Service!Exit, Service!Restart, Service!Begin, Service!UserStarts,
       Service!Reboot, Service!Consent, Service!Install, Service!Start, Service!Check,
       Service!Rollback, Service!StopLegacy, Service!DisableLegacy, Service!RemoveLegacy,
       Service!MigrationDies, Service!Refuse, Service!Canonical, Service!Legacy,
       Service!Probe, Service!Marker, Service!DisableNow, Service!Inspect,
       Service!RemoveRedundant
\* Nothing answers on the configured port: that would be the legacy daemon.
<1>4. rec = "probe" => ~Service!Answered
    BY <1>1 DEF Service!Answered, Service!OnPort, Service!Units, Active
<1>5. rec' \in {"idle", "canonical", "legacy", "probe"}
    BY <1>1, <1>4 DEF Service!Next, Service!vars, Service!Migrate, Service!ReconcileStep,
       Service!RecOf, Service!Stop, Service!Served,
       Service!Serve, Service!Exit, Service!Restart, Service!Begin, Service!UserStarts,
       Service!Reboot, Service!Consent, Service!Install, Service!Start, Service!Check,
       Service!Rollback, Service!StopLegacy, Service!DisableLegacy, Service!RemoveLegacy,
       Service!MigrationDies, Service!Refuse, Service!Canonical, Service!Legacy,
       Service!Probe, Service!Marker, Service!DisableNow, Service!Inspect,
       Service!RemoveRedundant
<1>6. QED
    BY <1>2, <1>3, <1>5 DEF RetiredInv

LEMMA InitUnits ==
    ASSUME Service!Init
    PROVE  UnitTypes /\ StepsInv /\ RetiredInv /\ KeptInv /\ OtherPortInv
<1> USE DEF Service!Units, Units
<1>1. UnitTypes
    BY DEF Service!Init, UnitTypes, Service!Migration, Service!Reconcile
<1>2. mig = "idle" /\ rec = "idle"
    BY DEF Service!Init
<1>3. proc["managed"] = "serving" => works
    BY DEF Service!Init
<1>4. CASE Boots("legacy") /\ proc["legacy"] = "serving" /\ proc["managed"] = "stopped" /\ port
    BY <1>1, <1>2, <1>4 DEF StepsInv, RetiredInv, KeptInv, OtherPortInv, LegacyKept
<1>5. CASE works /\ Boots("managed") /\ proc["managed"] # "stopped"
    BY <1>1, <1>2, <1>3, <1>5 DEF StepsInv, RetiredInv, KeptInv, OtherPortInv, ManagedKept
<1>6. QED
    BY <1>4, <1>5 DEF Service!Init, Boots

(* The daemons, the unit files and the two sequences stay what they may be, *)
(* whatever goes wrong (legacy-daemon-migration.ts,                         *)
(* legacy-daemon-reconcile.ts).                                             *)
THEOREM ServiceTypeCorrect == Service!Spec => []Service!TypeOK
<1>1. Service!Init => UnitTypes
    BY InitUnits
<1>2. UnitTypes /\ [Service!Next]_Service!vars => UnitTypes'
    BY UnitTypesNext
<1>3. UnitTypes => Service!TypeOK
    BY DEF UnitTypes, Service!TypeOK, Units, Service!Units
<1>4. QED
    BY <1>1, <1>2, <1>3, PTL DEF Service!Spec

(* Unless is-active errs or a managed unit is migrated to again, a daemon   *)
(* that can serve stays started, and enabled for the next boot: wherever a  *)
(* migration or a reconcile stops, whatever its calls do, and whenever the  *)
(* host restarts or the user starts the legacy unit                         *)
(* (legacy-daemon-migration.ts:26-35, legacy-daemon-reconcile.ts:161-191).  *)
THEOREM ADaemonIsKept == ASSUME Careful PROVE Service!Spec => []KeepsADaemon
<1> DEFINE KInv == UnitTypes /\ StepsInv /\ KeptInv
<1>1. Service!Init => KInv
    BY InitUnits
<1>2. KInv /\ [Service!Next]_Service!vars => KInv'
    BY UnitTypesNext, StepsNext, LegacyStays, ManagedStays DEF KeptInv
<1>3. KInv => KeepsADaemon
    BY DEF KeptInv, LegacyKept, ManagedKept, KeepsADaemon, Able, Units
<1>4. QED
    BY <1>1, <1>2, <1>3, PTL DEF Service!Spec

(* If besides the legacy unit is not started in the middle of a reconcile,  *)
(* and the reconcile is told the endpoint, neither path takes away the last *)
(* unit that would serve the endpoint the clients are configured for        *)
(* (legacy-daemon-reconcile.ts:177-185).                                    *)
THEOREM EndpointIsKept ==
    ASSUME Careful, "lateStart" \notin ServiceFaults, "noEndpoint" \notin ServiceFaults
    PROVE  Service!Spec => EndpointKept
<1> DEFINE EInv == UnitTypes /\ StepsInv /\ RetiredInv /\ KeptInv /\ OtherPortInv
<1>1. Service!Init => EInv
    BY InitUnits
<1>2. EInv /\ [Service!Next]_Service!vars => EInv'
    <2> SUFFICES ASSUME EInv, [Service!Next]_Service!vars PROVE EInv'
        OBVIOUS
    <2>1. UnitTypes' /\ StepsInv'
        BY UnitTypesNext, StepsNext
    <2>2. RetiredInv'
        BY RetiredNext
    <2>3. KeptInv'
        BY LegacyStays, ManagedStays DEF KeptInv
    <2>4. OtherPortInv'
        BY <2>2, OtherPortNext
    <2>5. QED
        BY <2>1, <2>2, <2>3, <2>4
<1>3. EInv /\ EInv' /\ [Service!Next]_Service!vars => (Reachable => Reachable')
    <2> SUFFICES ASSUME EInv, EInv', [Service!Next]_Service!vars, Reachable PROVE Reachable'
        OBVIOUS
    <2>1. CASE port'
        BY <2>1 DEF KeptInv, LegacyKept, ManagedKept, Reachable, Able, OnPort, Units
    <2>2. CASE ~port'
        <3>1. LegacyKept' => Reachable'
            BY DEF LegacyKept, Reachable, Able, OnPort, Units
        <3>2. CASE ~port
            <4>1. mig = "idle" /\ rec \in {"idle", "canonical", "legacy", "probe"}
                BY <3>2 DEF OtherPortInv
            <4>2. UNCHANGED <<unitFile, enabled, works>>
                BY <4>1 DEF Service!Next, Service!vars, Service!units, Service!host,
                   Service!Migrate, Service!ReconcileStep,
                   Service!Serve, Service!Exit, Service!Restart, Service!Begin,
                   Service!UserStarts, Service!Reboot, Service!Consent, Service!Install,
                   Service!Start, Service!Check, Service!Rollback, Service!StopLegacy,
                   Service!DisableLegacy, Service!RemoveLegacy, Service!MigrationDies,
                   Service!Refuse, Service!Canonical, Service!Legacy, Service!Probe,
                   Service!Marker, Service!DisableNow, Service!Inspect,
                   Service!RemoveRedundant
            <4>3. QED
                BY <2>2, <3>2, <4>2 DEF Reachable, Able, OnPort, Boots, UnitTypes
        <3>3. CASE port
            BY <2>2, <3>3, PortStays
        <3>4. QED
            BY <3>2, <3>3
    <2>3. QED
        BY <2>1, <2>2
<1>4. UNCHANGED <<unitFile, enabled, port, works>> => Reachable' = Reachable
    BY DEF Reachable, Able, OnPort, Boots
<1>5. QED
    BY <1>1, <1>2, <1>3, <1>4, PTL DEF Service!Spec, EndpointKept

(* Whatever the calls do, the reconcile never stops a legacy daemon that    *)
(* runs, if none is started between its look and its disable                *)
(* (legacy-daemon-reconcile.ts:177-181).                                    *)
THEOREM RunningIsLeftAlone ==
    ASSUME "lateStart" \notin ServiceFaults
    PROVE  Service!Spec => NeverStopsRunning
<1> DEFINE RInv == UnitTypes /\ StepsInv /\ RetiredInv
<1>1. Service!Init => RInv
    BY InitUnits
<1>2. RInv /\ [Service!Next]_Service!vars => RInv'
    BY UnitTypesNext, StepsNext, RetiredNext
<1>3. RInv => (rec = "disable" => ~Active("legacy"))
    BY DEF RetiredInv
<1>4. QED
    BY <1>1, <1>2, <1>3, PTL DEF Service!Spec, NeverStopsRunning
=============================================================================
