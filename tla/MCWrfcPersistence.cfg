SPECIFICATION FairSpec
CONSTANTS
    c1 = c1
    c2 = c2
    c3 = c3
    t1 = t1
    t2 = t2
    Chains = {c1, c2, c3}
    Terminals = {t1}
    MaxHistory = 1
    MaxTime = 3
    Faults = {"disk"}
INVARIANT HistoryIsOnFile
PROPERTIES NothingForgotten InterruptedIsTrue EndIsSaved
