SPECIFICATION Spec
CONSTANTS
  Cmd = {c1}
  Runs = 1
  Attaches = {a1}
  PeerKinds = {"recovers", "older"}
  BurstMax = 1
  UnackedMax = 1
  MaxCrashes = 1
  StaleHappens = FALSE
  EvictionHappens = FALSE
  JournalMayFail = FALSE
  AttachOutlivesSocket = TRUE
INVARIANTS
  ForgottenOnlyAfterSend
  UnackedNeedsConfirmingPeer
