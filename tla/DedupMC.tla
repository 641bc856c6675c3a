------------------------------- MODULE DedupMC -------------------------------
(* Dedup with the constants that the cfg files choose from. *)
EXTENDS Dedup
=============================================================================
