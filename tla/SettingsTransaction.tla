------------------------ MODULE SettingsTransaction ------------------------
(***************************************************************************)
(* What applying an onboarding request promises about the settings: all of  *)
(* the request takes effect or none of it, and nothing that somebody else   *)
(* changes meanwhile is lost.  It may come out torn only when an error      *)
(* other than the refusal was shown or the process died.                    *)
(***************************************************************************)
CONSTANTS
    Requests,      \* what can be asked for
    Met(_, _),     \* Met(request, settings): everything asked for is in effect
    Touched(_)     \* the cells a request writes
VARIABLES
    settings,    \* as they are to be if the open request does not succeed
    request,     \* the open request, or the last one
    state,       \* "closed", "open", "applied", "refused" or "torn"
    excuse       \* such an error was shown, or the process died

Untouched == (DOMAIN settings) \ Touched(request)
Same(cells) == \A c \in cells : settings'[c] = settings[c]

Begin ==
    /\ state # "open"
    /\ request' \in Requests
    /\ state' = "open"
    /\ UNCHANGED settings

\* Not valid: nothing is begun.
Decline ==
    /\ state # "open"
    /\ request' \in Requests
    /\ state' = "refused"
    /\ UNCHANGED settings

Commit ==
    /\ state = "open"
    /\ state' = "applied"
    /\ Met(request, settings')
    /\ Same(Untouched)
    /\ UNCHANGED request

Abort ==
    /\ state = "open"
    /\ state' = "refused"
    /\ UNCHANGED <<settings, request>>

Tear ==
    /\ state = "open"
    /\ state' = "torn"
    /\ excuse'
    /\ UNCHANGED request

\* Somebody else changes what the open request does not.
Elsewhere ==
    /\ state = "open" => Same(Touched(request))
    /\ UNCHANGED <<request, state>>

Init == state = "closed"
Next == Begin \/ Decline \/ Commit \/ Abort \/ Tear \/ Elsewhere
Spec == Init /\ [][Next]_<<settings, request, state>>
=============================================================================
