SPECIFICATION FairSpec
CONSTANTS
  Applies = {p1, p2}
  Confirms = {c1}
  Offs = {f1}
  Rehangs = {}
  Ruleset = {A, B}
  NoRules = NoRules
  OpsOverlap = FALSE
  Stalls = TRUE
  GuardOverlaps = FALSE
  Reapplies = FALSE
  MayRefuse = {"timer", "rules"}
  MaxDeaths = 1
  MaxReboots = 0
INVARIANTS
  TypeOK
  UnconfirmedIsGuarded
PROPERTIES
  UnconfirmedEnds
