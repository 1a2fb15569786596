CONSTANTS
  N = 5
  BatchSize = 4
  MaxBytes = 5
  Sizes <- TwoSizes
  MinBatch = 2
  MaxCrashes = 1
  None = None
  Partial = Partial
SPECIFICATION FairSpec
CHECK_DEADLOCK FALSE
INVARIANTS
  TypeOK
  BatchesPartition
  BatchesWithinLimits
  AppliedAtMostOnce
  CheckpointNotAhead
  CheckpointReadable
PROPERTIES
  AppliedInOrder
  ImplementsPromise
  ExecutionEnds
