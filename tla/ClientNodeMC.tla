---------------------------- MODULE ClientNodeMC ----------------------------
(* ClientNode on a small instance; the cfg file gives the constants values. *)
EXTENDS ClientNode
=============================================================================
