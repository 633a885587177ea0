CONSTANTS
    p1 = p1
    p2 = p2
    s1 = s1
    s2 = s2
    s3 = s3
    t1 = t1
    t2 = t2
    None = None
    Procs = {p1, p2}
    Sessions = {s1, s2}
    Turns = {t1}
    Faults = {"save", "append", "load"}
SPECIFICATION Spec
SYMMETRY Symmetry
INVARIANTS RecoveryPointSurvives KeptIsOfferedAgain
PROPERTY OnlyRemoveDeletes
\* Session ids run out: random ids are bounded here.
CHECK_DEADLOCK FALSE
