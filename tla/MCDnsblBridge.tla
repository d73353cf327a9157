---------------------------- MODULE MCDnsblBridge ----------------------------
(* Two processes of the bridge, so that an old one could outlive a stop. *)
EXTENDS DnsblBridge
==============================================================================
