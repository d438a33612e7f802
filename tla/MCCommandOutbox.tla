--------------------------- MODULE MCCommandOutbox --------------------------
(* TLC instances of CommandOutbox.                                         *)
EXTENDS CommandOutbox, TLC

\* Command ids are interchangeable.
CmdSymmetry == Permutations(Cmd)
=============================================================================
