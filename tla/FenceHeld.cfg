SPECIFICATION FairSpec
CHECK_DEADLOCK FALSE
CONSTANTS
  Command = {c1}
  Guard = guard
  Healer = healer
  Nobody = nobody
  StartsReplaced = FALSE
  MaxCommands = 2
  MaxBoots = 1
  MaxMishaps = 2
  MaxEvents = 3
INVARIANTS
  TypeOK
  NoSecondPrimary
  HoldUntilAnswered
PROPERTIES
  FencedIsStopped
  StalePrimaryIsStopped
  CurrentPrimaryServes
