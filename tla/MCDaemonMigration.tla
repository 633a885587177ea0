-------------------------- MODULE MCDaemonMigration --------------------------
(* One legacy and one managed unit, as on every host. *)
EXTENDS DaemonMigration
=============================================================================
