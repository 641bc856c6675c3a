------------------------------ MODULE RelayMC ------------------------------
(* Relay on small instances; the cfg files give the constants values. *)
EXTENDS Relay
=============================================================================
