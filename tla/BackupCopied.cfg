SPECIFICATION FairSpec
CONSTANTS
  MaxRuns = 3
  Settled = 2
  Parts = 2
  Keep = 1
  MAX_ATTEMPTS = 3
  NON_RETRYABLE_ATTEMPTS = 2
  UploadsDir = TRUE
  DeletesOverlap = FALSE
  Deletable = {3}
  MaxDeletes = 1
  MaxMishaps = 1
  MaxWire = 1
INVARIANTS TypeOK CopiedIsStored  NoCopyOfDeleted
  
