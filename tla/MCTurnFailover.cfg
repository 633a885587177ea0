SPECIFICATION FairSpec
CONSTANTS
    a1 = a1
    a2 = a2
    p1 = p1
    p2 = p2
    p3 = p3
    None = None
    Asks = {a1, a2}
    Typed = {a1, a2}
    Providers = {p1, p2, p3}
    Faults = {"switchOut", "switchBack", "slow"}
INVARIANTS DivergenceIsShown OneNotice
PROPERTIES RetryIsFailedTurn RetryKeyIsFailedTurn ConfiguredFirst NoPingPong EndIsTold
