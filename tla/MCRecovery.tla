----------------------------- MODULE MCRecovery -----------------------------
(* Recovery of what two handlers left with three requests on two versions. *)
EXTENDS Recovery

MCVersions == 1..2
=============================================================================
