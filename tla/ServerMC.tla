------------------------------ MODULE ServerMC ------------------------------
(* Server with the constants that the cfg files choose from. *)
EXTENDS Server, TLC

\* Clients, endpoints and interface names are only ever compared for equality.
Symmetric == Permutations(Client) \cup Permutations(Addr) \cup Permutations(NIC)
=============================================================================
