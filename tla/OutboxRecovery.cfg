SPECIFICATION Spec
CONSTANTS
  Cmd = {c1}
  Runs = 2
  Attaches = {a1}
  PeerKinds = {"recovers"}
  BurstMax = 1
  UnackedMax = 1
  MaxCrashes = 1
  StaleHappens = TRUE
  EvictionHappens = TRUE
  JournalMayFail = FALSE
  AttachOutlivesSocket = FALSE
INVARIANTS
  TypeOK
  OneHandlerAtATime
  NeverForgotten
  UnackedHasResender
PROPERTIES
  RefinesDelivery
