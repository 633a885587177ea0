-------------------------- MODULE OnboardingWizard --------------------------
(***************************************************************************)
(* The setup wizard over restarts: what a launch shows, the progress that   *)
(* is saved as the user goes from step to step, the apply at the end, and   *)
(* the marker that says setup has been seen to (cli/tui-startup.ts,         *)
(* runtime/onboarding/fast-path.ts, markers.ts, progress.ts,                *)
(* input/handler-onboarding.ts).  Applying is OnboardingApply.              *)
(***************************************************************************)
EXTENDS OnboardingApply

CONSTANTS
    LastStep,   \* index of the review step, which has the apply button
    None        \* no progress file

ASSUME LastStepAssumption == LastStep \in Nat

WizardFaultKinds == {
    "noMarker",     \* the marker cannot be written
    "noProgress",   \* the progress file cannot be written
    "noUnlink",     \* the progress file cannot be deleted
    "keysPending"}  \* step keys are pressed while an apply is under way
CONSTANT WizardFaults
ASSUME WizardFaultsAssumption == WizardFaults \subseteq WizardFaultKinds

VARIABLES
    up,         \* the process runs
    screen,     \* "none", "welcome" (the fast path's question) or "wizard"
    step,       \* the wizard's stepIndex
    phase,      \* of the apply handler: "none", "apply", "check", "activate"
    marker,     \* onboarding-check.json exists
    progress,   \* step in onboarding-progress.json, or None
    done        \* the setup the user saw last was applied (history)

wizard == <<up, screen, step, phase, marker, progress, done>>
vars == <<transaction, wizard>>

Steps == 0 .. LastStep

TypeOK ==
    /\ store \in [Cells -> Values]
    /\ pc \in Places
    /\ up \in BOOLEAN
    /\ screen \in {"none", "welcome", "wizard"}
    /\ step \in Steps
    /\ phase \in {"none", "apply", "check", "activate"}
    /\ marker \in BOOLEAN
    /\ progress \in Steps \cup {None}
    /\ done \in BOOLEAN

Init ==
    /\ TransactionInit
    /\ up = FALSE /\ screen = "none" /\ step = 0 /\ phase = "none"
    /\ marker \in BOOLEAN
    /\ progress = None
    /\ done = FALSE

OpenAt(s) == screen' = "wizard" /\ step' = s /\ done' = FALSE
ShowNothing == screen' = "none" /\ UNCHANGED <<step, done>>

-----------------------------------------------------------------------------
\* A launch (applyInitialTuiCliState).
Launch ==
    /\ ~up
    /\ up' = TRUE
    /\ UNCHANGED <<transaction, phase, progress>>
    /\ \/ OpenAt(0) /\ UNCHANGED marker      \* `goodvibes onboarding`
       \/ ShowNothing /\ UNCHANGED marker    \* a flag that opens a session
       \/ /\ ~marker                         \* startOnboardingFastPath:
          /\ \/ OpenAt(0) /\ UNCHANGED marker           \* cannot tell
             \/ ShowNothing /\ marker' = TRUE           \* a provider is there
             \/ screen' = "welcome" /\ UNCHANGED <<step, done, marker>>
       \/ /\ marker
          /\ IF progress # None THEN OpenAt(progress) ELSE ShowNothing
          /\ UNCHANGED marker

\* The question of the fast path: set up now, or start (or dismissed).
Welcome ==
    /\ screen = "welcome"
    /\ \/ OpenAt(0) /\ UNCHANGED marker
       \/ ShowNothing /\ marker' = TRUE
    /\ UNCHANGED <<transaction, up, phase, progress>>

\* /onboarding; an apply under way goes on.
OpenByCommand ==
    /\ up
    /\ screen = "none"
    /\ OpenAt(0)
    /\ UNCHANGED <<transaction, up, phase, marker, progress>>

\* Left, right, tab or a digit: the step is saved, if the file can be
\* written.
StepKey ==
    /\ screen = "wizard"
    /\ phase # "none" => "keysPending" \in WizardFaults
    /\ step' \in Steps \ {step}
    /\ \/ progress' = step'
       \/ "noProgress" \in WizardFaults /\ UNCHANGED progress
    /\ UNCHANGED <<transaction, up, screen, phase, marker, done>>

\* The button at the end of a step goes on without saving.
Continue ==
    /\ screen = "wizard"
    /\ phase = "none"
    /\ step < LastStep
    /\ step' = step + 1
    /\ UNCHANGED <<transaction, up, screen, phase, marker, progress, done>>

Escape ==
    /\ screen = "wizard"
    /\ ShowNothing
    /\ UNCHANGED <<transaction, up, phase, marker, progress>>

-----------------------------------------------------------------------------
\* The apply handler.
Apply ==
    /\ screen = "wizard"
    /\ step = LastStep
    /\ phase = "none"
    /\ \E r \in Requests : Start(r)
    /\ phase' = "apply"
    /\ UNCHANGED <<up, screen, step, marker, progress, done>>

\* The errors are shown, or everything is verified once more.
ApplyReturns ==
    /\ phase = "apply"
    /\ ~Running
    /\ phase' = IF pc = "applied" THEN "check" ELSE "none"
    /\ UNCHANGED <<transaction, up, screen, step, marker, progress, done>>

CheckFails ==
    /\ phase = "check"
    /\ phase' = "none"
    /\ UNCHANGED <<transaction, up, screen, step, marker, progress, done>>

KeepsProgress == UNCHANGED progress
DeletesProgress == progress' = None

MarkDone ==
    /\ phase = "check"
    /\ Met(request, store)
    /\ phase' = "activate"
    /\ \/ marker' = TRUE /\ DeletesProgress
       \/ marker' = TRUE /\ "noUnlink" \in WizardFaults /\ UNCHANGED progress
       \/ "noMarker" \in WizardFaults /\ UNCHANGED <<marker, progress>>
    /\ UNCHANGED <<transaction, up, screen, step, done>>

\* The services have restarted, or what followed has thrown: an error is
\* shown and the wizard stays.
Activated ==
    /\ phase = "activate"
    /\ phase' = "none"
    /\ \/ screen' = "none" /\ done' = TRUE
       \/ UNCHANGED <<screen, done>>
    /\ UNCHANGED <<transaction, up, step, marker, progress>>

\* The process dies or is quit, at any point.
Crash ==
    /\ up
    /\ Die
    /\ up' = FALSE
    /\ screen' = "none"
    /\ phase' = "none"
    /\ step' = 0
    /\ UNCHANGED <<marker, progress, done>>

Next ==
    \/ up /\ Transact /\ UNCHANGED wizard
    \/ Launch \/ Welcome \/ OpenByCommand
    \/ StepKey \/ Continue \/ Escape
    \/ Apply \/ ApplyReturns \/ CheckFails \/ MarkDone \/ Activated
    \/ Crash

Spec == Init /\ [][Next]_vars
-----------------------------------------------------------------------------
(* A setup that was applied is over: no progress is left that would bring   *)
(* the wizard up again (progress.ts:112-117).                               *)
AppliedStaysDone == done /\ screen # "wizard" => progress = None
=============================================================================
