-------------------------- MODULE MCFirewallConfirm -------------------------
(* TLC instances of FirewallConfirm.                                       *)
EXTENDS FirewallConfirm, TLC

\* Rulesets are interchangeable, and so are the applies.
Symmetry == Permutations(Ruleset) \cup Permutations(Applies)
=============================================================================
