---------------------------- MODULE MCHomelabUpdate ----------------------------
(***************************************************************************)
(* Instance of HomelabUpdate for TLC: a container without snapshots, one   *)
(* with, a VM, and the host last.                                          *)
(***************************************************************************)
EXTENDS HomelabUpdate

CONSTANTS dns, wazuh, samba

InOrder == <<dns, wazuh, samba, Host>>
==============================================================================
