--------------------------- MODULE MCSignedSession --------------------------
(* Instances of SignedSession for TLC. *)
EXTENDS SignedSession
=============================================================================
