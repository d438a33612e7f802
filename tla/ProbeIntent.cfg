SPECIFICATION FairSpec
CONSTANTS
  Command = {c1}
  HostCommand = {}
  Probe = probe
  Threshold = 3
  MaxEvents = 3
  Races = FALSE
  MaxCommands = 2
  MaxMishaps = 1
INVARIANTS
  TypeOK
  NoFalseReport
  StopStaysMarked
PROPERTY
  DeadPrimaryReported
