SPECIFICATION FairSpec
CHECK_DEADLOCK FALSE
CONSTANTS
    own = own
    i1 = i1
    i2 = i2
    s1 = s1
    s2 = s2
    None = None
    Inputs <- ThreeInputs
    Mine <- OwnInput
    Sessions <- TwoSessions
    MaxTime = 2
    Faults = {"list", "ack", "swap"}
INVARIANT InjectedOnce
PROPERTY StraysOnlyInASwitch
PROPERTY ServesMailbox
PROPERTY QueuedIsCollected
