---------------------------- MODULE MCSelfUpdate ----------------------------
(* Two terminals; two releases without the addon and two with it. *)
EXTENDS SelfUpdate
=============================================================================
