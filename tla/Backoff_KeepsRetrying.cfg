CONSTANTS
  MaxAttempts = 60
SPECIFICATION Spec
CHECK_DEADLOCK FALSE
INVARIANT KeepsRetrying
