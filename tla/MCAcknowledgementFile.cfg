CONSTANTS
    p1 = p1
    p2 = p2
    p3 = p3
    providers = providers
    auth = auth
    None = None
    Procs = {p1, p2, p3}
    Targets = {providers, auth}
    MaxTries = 2
    Faults = {"disk"}
SPECIFICATION Spec
SYMMETRY Symmetry
INVARIANT HolderOwnsLock
PROPERTY AnswersAreKept
