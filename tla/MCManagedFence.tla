--------------------------- MODULE MCManagedFence ---------------------------
(* Instances of ManagedFence for TLC. *)
EXTENDS ManagedFence
=============================================================================
