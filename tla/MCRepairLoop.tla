---------------------------- MODULE MCRepairLoop ----------------------------
(* One unit and its service in Checkmk. *)
EXTENDS RepairLoop
=============================================================================
