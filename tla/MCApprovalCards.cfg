SPECIFICATION Spec
CONSTANTS
    None = None
    call = call
    command = command
    offer = offer
    diff = diff
    Asks = {call, command, offer, diff}
    Origin <- Origins
    Shape <- Shapes
\* Asks are bounded: when all are settled only keys are left.
CHECK_DEADLOCK FALSE
CONSTRAINT ThreeAsked
INVARIANTS CardIsOpen LoneAskIsShown
PROPERTIES AnswersCardSeen CardNotStolen
