SPECIFICATION Spec
CONSTANTS
  MaxRuns = 2
  Settled = 1
  Parts = 2
  Keep = 1
  MAX_ATTEMPTS = 3
  NON_RETRYABLE_ATTEMPTS = 2
  UploadsDir = FALSE
  DeletesOverlap = FALSE
  Deletable = {2}
  MaxDeletes = 0
  MaxMishaps = 0
  MaxWire = 1
INVARIANT ProgressKept
