CONSTANTS
    p1 = p1
    p2 = p2
    Processes = {p1, p2}
    MaxVersion = 4
    FirstAddon = 3
    Faults = {}
SPECIFICATION Spec
INVARIANTS DeferredIsTrue 
PROPERTY LaunchEnds
