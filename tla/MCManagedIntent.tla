-------------------------- MODULE MCManagedIntent ---------------------------
(* Instances of ManagedIntent for TLC. *)
EXTENDS ManagedIntent
=============================================================================
