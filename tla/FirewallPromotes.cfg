SPECIFICATION Spec
CONSTANTS
  Applies = {p1, p2}
  Confirms = {c1}
  Offs = {f1}
  Rehangs = {h1}
  Ruleset = {A, B}
  NoRules = NoRules
  OpsOverlap = FALSE
  Stalls = TRUE
  GuardOverlaps = FALSE
  Reapplies = TRUE
  MayRefuse = {"timer", "rules"}
  MaxDeaths = 0
  MaxReboots = 1
INVARIANTS
  RollbackRecordIsTrue
PROPERTIES
  PromotesWhatWasNamed
  ConfirmedIsLive
