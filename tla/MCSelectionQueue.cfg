SPECIFICATION FairSpec
CONSTANTS
    Requests = {r1, r2, r3, r4}
    NoRequest = NoRequest
    MaxQueued = 2
INVARIANTS
    SlotBelongsToShown
    NoStrandedQueue
PROPERTIES
    CallersServed
    QueuedIsAnswered
\* Requests are bounded: the user runs out of things to open.
CHECK_DEADLOCK FALSE
