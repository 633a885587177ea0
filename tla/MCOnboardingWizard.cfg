CONSTANTS
    Cells <- MCCells
    Before <- MCBefore
    Requests <- MCRequests
    Others <- MCOthers
    Builds <- MCBuilds
    Faults = {"undo", "verify"}
    WizardFaults = {"noProgress"}
    LastStep = 1
    None = None
SPECIFICATION Spec
INVARIANT AppliedStaysDone
PROPERTIES AllOrNothing SoundAtAnyMoment
