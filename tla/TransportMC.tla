----------------------------- MODULE TransportMC -----------------------------
(* Transport with the constants that the cfg files choose from. *)
EXTENDS Transport, TLC

\* Local addresses are only ever compared for equality.
Symmetric == Permutations(LAddr)
=============================================================================
