SPECIFICATION Spec
CONSTANTS
    None = None
    call = call
    command = command
    offer = offer
    diff = diff
    Asks = {call, offer}
    Origin <- OfferOrigins
    Shape <- OfferShapes
\* Asks are bounded: when all are settled only keys are left.
CHECK_DEADLOCK FALSE
INVARIANT NoHiddenAsk
