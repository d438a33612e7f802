SPECIFICATION FairSpec
CHECK_DEADLOCK FALSE
CONSTANTS
  MaxHeld = 2
  MaxSockets = 2
  MaxSends = 3
  MaxFrames = 2
  MaxMishaps = 1
INVARIANTS
  TypeOK
  SendOrderKept
  NoUnsignedReport
  InSequence
  NoFalseRefusal
PROPERTIES
  SilentOutsideSession
  ReportsLeave
