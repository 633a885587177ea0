-------------------------- MODULE DaemonMigration --------------------------
(***************************************************************************)
(* Two service units for one daemon: the install script's                   *)
(* goodvibes-daemon.service (the legacy unit) and the goodvibes.service     *)
(* this program manages.  The user can migrate from the first to the second *)
(* (runtime/legacy-daemon-migration.ts, from the setup wizard), and a       *)
(* daemon that starts retires a redundant legacy unit by itself             *)
(* (runtime/legacy-daemon-reconcile.ts).  Both are sequences of systemctl   *)
(* calls, each of which can fail or time out with its effect unknown, among *)
(* what systemd and the user do to the same units.                          *)
(***************************************************************************)
EXTENDS ServiceUnits

CONSTANT Faults    \* what goes wrong in an instance, of FaultKinds

FaultKinds == {
    "again",      \* the user migrates though the managed unit is there already
    "window",     \* is-active comes before a daemon that cannot serve has exited
    "flaky",      \* is-active fails though the unit is active
    "noEndpoint", \* the reconcile is called without a configured endpoint
    "lateStart"}  \* the legacy unit is started while a reconcile is between
                  \* asking for its process and disabling it

ASSUME FaultsAssumption == Faults \subseteq FaultKinds

VARIABLES
    resolved,  \* the unit that service.serviceName names, which the service
               \* manager installs, starts and uninstalls
    mig,       \* the next step of runLegacyDaemonMigration
    by         \* the unit whose daemon runs the reconcile

host == <<works, resolved>>
units == <<unitFile, enabled, proc, port, host>>
vars == <<units, mig, rec, by>>

Migration == {"idle", "install", "start", "check", "rollback",
              "stop", "disable", "remove"}
Reconcile == {"idle", "canonical", "legacy", "probe", "marker",
              "disable", "inspect", "remove"}

TypeOK ==
    /\ unitFile \in [Units -> {"none", "script", "hand", "tui"}]
    /\ enabled \in [Units -> BOOLEAN]
    /\ proc \in [Units -> {"stopped", "failed", "forked", "serving"}]
    /\ port \in BOOLEAN /\ works \in BOOLEAN
    /\ resolved \in Units
    /\ mig \in Migration
    /\ rec \in Reconcile
    /\ by \in Units

Answered == \E u \in Units : OnPort(u) /\ proc[u] = "serving"

\* A legacy unit that runs, or a managed one beside a legacy one that waits.
Init ==
    /\ \/ /\ unitFile \in [Units -> {"none", "script", "hand"}]
          /\ unitFile["legacy"] # "none" /\ unitFile["managed"] = "none"
          /\ enabled = [u \in Units |-> u = "legacy"]
          /\ proc = [u \in Units |-> IF u = "legacy" THEN "serving" ELSE "stopped"]
          /\ port = TRUE /\ works \in BOOLEAN
          /\ resolved \in Units
       \/ /\ unitFile \in [Units -> {"script", "hand", "tui"}]
          /\ unitFile["legacy"] # "tui" /\ unitFile["managed"] = "tui"
          /\ enabled \in [Units -> BOOLEAN] /\ enabled["managed"]
          /\ proc = [u \in Units |-> IF u = "managed" THEN "serving" ELSE "stopped"]
          /\ port \in BOOLEAN /\ works = TRUE
          /\ resolved = "managed"
    /\ mig = "idle" /\ rec = "idle" /\ by = "managed"

Set(u, p) == proc' = [proc EXCEPT ![u] = p]
\* A reconcile goes on while the daemon that runs it does.
RecOf(u) == rec' = IF by = u THEN "idle" ELSE rec
-----------------------------------------------------------------------------
\* systemd, the daemons and the user (external).
Serve(u) ==
    /\ proc[u] = "forked"
    /\ Able(u)
    /\ OnPort(u) => ~Answered
    /\ Set(u, "serving")
    /\ UNCHANGED <<unitFile, enabled, port, host, mig, rec, by>>

\* It cannot serve or have the port, and exits; systemd starts it again.
Exit(u) ==
    /\ proc[u] = "forked"
    /\ ~Able(u) \/ (OnPort(u) /\ Answered)
    /\ Set(u, "failed")
    /\ UNCHANGED <<unitFile, enabled, port, host, mig, rec, by>>

Examined == rec \in {"probe", "marker", "disable"}

Restart(u) ==
    /\ proc[u] = "failed"
    /\ u = "legacy" /\ Examined => "lateStart" \in Faults
    /\ Set(u, "forked")
    /\ UNCHANGED <<unitFile, enabled, port, host, mig, rec, by>>

UserStarts ==
    /\ proc["legacy"] = "stopped"
    /\ unitFile["legacy"] # "none"
    /\ Examined => "lateStart" \in Faults
    /\ Set("legacy", "forked")
    /\ UNCHANGED <<unitFile, enabled, port, host, mig, rec, by>>

\* The host restarts: the enabled units are started, in any order.
Reboot ==
    /\ proc' = [u \in Units |-> IF Boots(u) THEN "failed" ELSE "stopped"]
    /\ mig' = "idle"
    /\ rec' = "idle"
    /\ UNCHANGED <<unitFile, enabled, port, host, by>>
-----------------------------------------------------------------------------
\* systemctl calls.  "ok" and "fails" are known; "null" is a call that timed
\* out, with or without effect.
Stop(u, outcome) ==
    \/ outcome # "fails" /\ Set(u, "stopped") /\ RecOf(u)
    \/ outcome # "ok" /\ UNCHANGED <<proc, rec>>

Disable(u, outcome) ==
    \/ outcome # "fails" /\ enabled' = [enabled EXCEPT ![u] = FALSE]
    \/ outcome # "ok" /\ UNCHANGED enabled

Known == {"ok", "fails"}
Outcomes == {"ok", "fails", "null"}

\* The file is there no more; a call about the unit still works until the
\* daemon-reload that follows at once.
Remove(u) == unitFile' = [unitFile EXCEPT ![u] = "none"]
-----------------------------------------------------------------------------
\* The migration, with the user's consent: new up, then old down.
NothingToMigrate ==
    \/ unitFile["legacy"] = "none"
    \/ unitFile["managed"] # "none" /\ "again" \notin Faults
Refused == NothingToMigrate \/ resolved = "legacy"

Consent ==
    /\ mig = "idle"
    /\ ~Refused
    /\ mig' = "install"
    /\ UNCHANGED <<units, rec, by>>

\* Writes the unit file and enables the unit; after an error nothing follows.
Install ==
    /\ mig = "install"
    /\ LET Written == unitFile' = [unitFile EXCEPT ![resolved] = "tui"] /\ port' = TRUE
           Enabled == enabled' = [enabled EXCEPT ![resolved] = TRUE]
       IN  \/ Written /\ Enabled /\ mig' = "start"
           \/ Written /\ UNCHANGED enabled /\ mig' = "idle"
           \/ UNCHANGED <<unitFile, port, enabled>> /\ mig' = "idle"
    /\ UNCHANGED <<proc, host, rec, by>>

Start ==
    /\ mig = "start"
    /\ \/ /\ mig' = "check"
          /\ Set(resolved, IF Active(resolved) THEN proc[resolved] ELSE "forked")
       \/ mig' = "rollback" /\ UNCHANGED proc
    /\ UNCHANGED <<unitFile, enabled, port, host, rec, by>>

\* is-active, a moment after the start.
NotLooked == TRUE
Healthy == Active(resolved)

Check ==
    /\ mig = "check"
    /\ Active(resolved) /\ ~Able(resolved) => "window" \in Faults
    /\ \/ Healthy /\ mig' = "stop"
       \/ ~Healthy /\ mig' = "rollback"
       \/ "flaky" \in Faults /\ mig' = "rollback"
    /\ UNCHANGED <<units, rec, by>>

\* uninstall: stop, disable and remove, as far as it gets.
Rollback ==
    /\ mig = "rollback"
    /\ \E outcome \in Known : Stop(resolved, outcome)
    /\ \E outcome \in Known : Disable(resolved, outcome)
    /\ Remove(resolved) \/ UNCHANGED unitFile
    /\ mig' = "idle"
    /\ UNCHANGED <<port, host, by>>

StopLegacy ==
    /\ mig = "stop"
    /\ \E outcome \in Outcomes : Stop("legacy", outcome)
    /\ mig' = "disable"
    /\ UNCHANGED <<unitFile, enabled, port, host, by>>

DisableLegacy ==
    /\ mig = "disable"
    /\ \E outcome \in Outcomes : Disable("legacy", outcome)
    /\ mig' = "remove"
    /\ UNCHANGED <<unitFile, proc, port, host, rec, by>>

RemoveLegacy ==
    /\ mig = "remove"
    /\ Remove("legacy") \/ UNCHANGED unitFile
    /\ mig' = "idle"
    /\ UNCHANGED <<enabled, proc, port, host, rec, by>>

Migrate ==
    \/ Install \/ Start \/ Check \/ Rollback
    \/ StopLegacy \/ DisableLegacy \/ RemoveLegacy

\* The program that migrates is killed.
MigrationDies ==
    /\ mig # "idle"
    /\ mig' = "idle"
    /\ UNCHANGED <<units, rec, by>>
-----------------------------------------------------------------------------
\* The reconcile of a daemon that has started.  Every guard may also refuse
\* because its call failed, timed out or was skipped at the deadline.
Begin(u) ==
    /\ rec = "idle"
    /\ proc[u] = "serving"
    /\ unitFile["legacy"] # "none"
    /\ rec' = "canonical"
    /\ by' = u
    /\ UNCHANGED <<units, mig>>

Refuse ==
    /\ rec \in {"canonical", "legacy", "probe", "marker"}
    /\ rec' = "idle"
    /\ UNCHANGED <<units, mig, by>>

\* The canonical unit is active and its main process is alive.
Canonical ==
    /\ rec = "canonical"
    /\ Active("managed")
    /\ rec' = "legacy"
    /\ UNCHANGED <<units, mig, by>>

UnknownIsStopped == TRUE
NotRunning == ~Active("legacy")

\* It does not run under the legacy unit, and that one is known not to run.
Legacy ==
    /\ rec = "legacy"
    /\ by # "legacy"
    /\ NotRunning
    /\ rec' = "probe"
    /\ UNCHANGED <<units, mig, by>>

AliveIsServed == TRUE
Served == Answered

\* Something answers on the endpoint the clients are configured for, if the
\* caller says which that is.
Probe ==
    /\ rec = "probe"
    /\ Served \/ "noEndpoint" \in Faults
    /\ rec' = "marker"
    /\ UNCHANGED <<units, mig, by>>

Marker ==
    /\ rec = "marker"
    /\ unitFile["legacy"] = "script"
    /\ rec' = "disable"
    /\ UNCHANGED <<units, mig, by>>

\* disable --now: the symlinks go first, then the unit is stopped.
DisableNow ==
    /\ rec = "disable"
    /\ \/ /\ enabled' = [enabled EXCEPT !["legacy"] = FALSE]
          /\ Set("legacy", "stopped")
          /\ rec' = "remove"
       \/ /\ UNCHANGED <<enabled, proc>>
          /\ rec' = "idle"
       \/ /\ Disable("legacy", "null")
          /\ Set("legacy", "stopped") \/ UNCHANGED proc
          /\ rec' = "inspect"
    /\ UNCHANGED <<unitFile, port, host, mig, by>>

ConfirmedDisabled == ~enabled["legacy"]

Inspect ==
    /\ rec = "inspect"
    /\ \/ ConfirmedDisabled /\ rec' = "remove"
       \/ rec' = "idle"
    /\ UNCHANGED <<units, mig, by>>

RemoveRedundant ==
    /\ rec = "remove"
    /\ Remove("legacy") \/ UNCHANGED unitFile
    /\ rec' = "idle"
    /\ UNCHANGED <<enabled, proc, port, host, mig, by>>

ReconcileStep ==
    \/ Refuse \/ Canonical \/ Legacy \/ Probe \/ Marker
    \/ DisableNow \/ Inspect \/ RemoveRedundant

Next ==
    \/ \E u \in Units : Serve(u) \/ Exit(u) \/ Restart(u) \/ Begin(u)
    \/ UserStarts \/ Reboot
    \/ Consent \/ Migrate \/ MigrationDies
    \/ ReconcileStep

Spec == Init /\ [][Next]_vars
=============================================================================
