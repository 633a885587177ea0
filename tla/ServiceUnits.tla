---------------------------- MODULE ServiceUnits ----------------------------
(***************************************************************************)
(* The two service units of the daemon on a host, the install script's (the *)
(* legacy one) and the one this program manages, and what whoever retires   *)
(* one of them promises.                                                    *)
(***************************************************************************)
Units == {"legacy", "managed"}

VARIABLES
    unitFile,  \* "none", or who wrote the unit file: "script", "hand", "tui"
    enabled,   \* the unit is started at boot
    proc,      \* "stopped", "failed" (systemd will start it), "forked", "serving"
    port,      \* the managed daemon's: TRUE when it is the configured one
    works,     \* the managed daemon can serve
    rec        \* the next step of reconcileRedundantLegacyUnit

Active(u) == proc[u] \in {"forked", "serving"}   \* is-active, a live MainPID
Able(u) == u = "legacy" \/ works
Boots(u) == unitFile[u] # "none" /\ enabled[u]
OnPort(u) == u = "legacy" \/ port               \* of the configured endpoint
-----------------------------------------------------------------------------
(* Wherever a migration or a reconcile stops, fails or is killed, a daemon  *)
(* that can serve is started, and a unit is left that starts one at the     *)
(* next boot (legacy-daemon-migration.ts:26-35,                             *)
(* legacy-daemon-reconcile.ts:161-191).                                     *)
KeepsADaemon ==
    /\ \E u \in Units : Able(u) /\ proc[u] # "stopped"
    /\ \E u \in Units : Able(u) /\ Boots(u)

(* Neither takes away the last unit that would serve the endpoint the       *)
(* clients are configured for (legacy-daemon-reconcile.ts:177-185).         *)
Reachable == \E u \in Units : Able(u) /\ Boots(u) /\ OnPort(u)
EndpointKept == [][Reachable => Reachable']_<<unitFile, enabled, port, works>>

(* The unattended path never stops a legacy daemon that runs                *)
(* (legacy-daemon-reconcile.ts:177-181).                                    *)
NeverStopsRunning ==
    [][rec = "disable" /\ rec' \in {"remove", "inspect"} /\ Active("legacy") =>
            proc'["legacy"] # "stopped"]_<<rec, proc>>
=============================================================================
