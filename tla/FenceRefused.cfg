SPECIFICATION Spec
CHECK_DEADLOCK FALSE
CONSTANTS
  Command = {c1}
  Guard = guard
  Healer = healer
  Nobody = nobody
  StartsReplaced = TRUE
  MaxCommands = 2
  MaxBoots = 1
  MaxMishaps = 0
  MaxEvents = 3
INVARIANT
  NoSecondPrimary
