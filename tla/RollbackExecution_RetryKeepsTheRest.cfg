CONSTANTS
  N = 5
  BatchSize = 4
  MaxBytes = 5
  Sizes <- OneSize
  MinBatch = 2
  MaxCrashes = 1
  None = None
  Partial = Partial
SPECIFICATION Spec
CHECK_DEADLOCK FALSE
INVARIANT RetryKeepsTheRest
