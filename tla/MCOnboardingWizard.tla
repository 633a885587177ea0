------------------------- MODULE MCOnboardingWizard -------------------------
(* A full setup, and later ones that turn the server off and on again.      *)
(* Values: 0 is absent or off, 1 what there was, 2 what is asked for.       *)
EXTENDS OnboardingWizard

MCCells == {"account", "bootstrap", "user", "secret", "reference",
            "exposed", "theme"}

Write(c, v) == [cell |-> c, value |-> v, accepts |-> {v}]
Rotate(c, v) == [cell |-> c, value |-> v, accepts |-> {1, v}]
Op(k, ws, scope) == [kind |-> k, writes |-> ws, scope |-> scope]
Config(k, v) == Op("config", <<Write(k, v)>>, {k})
Auth(ws) == Op("auth", ws, {"account", "bootstrap", "user"})
Secret(v) == Op("secret", <<Write("secret", v)>>, {"secret"})

FullSetup == <<
    Config("exposed", 2),
    Auth(<<Rotate("account", 2), Write("bootstrap", 0)>>),
    Config("reference", 2),
    Secret(2)>>
LocalOnly == <<Config("exposed", 0)>>
ServerAgain == <<Config("exposed", 2)>>
MCRequests == {FullSetup, LocalOnly, ServerAgain}

\* A new home; a setup that was applied is where the next one starts.
MCBefore == {[c \in MCCells |-> IF c = "bootstrap" THEN 1 ELSE 0]}

\* A setting no request touches; with the fault, also a user in the file that
\* an auth operation's rollback restores.
MCOthers ==
    {[cell |-> "theme", value |-> 2]} \cup
    IF "sameFile" \in Faults THEN {[cell |-> "user", value |-> 2]} ELSE {}

MCBuilds == {
    [cell |-> "exposed", value |-> 2, on |-> "account", in |-> {1, 2}],
    [cell |-> "exposed", value |-> 2, on |-> "bootstrap", in |-> {0}],
    [cell |-> "reference", value |-> 2, on |-> "secret", in |-> {1, 2}]}
=============================================================================
