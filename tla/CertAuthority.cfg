CONSTANTS
  c1 = c1
  r1 = r1
  r2 = r2
  None = None
  Checks <- OneCheck
  Revokers <- TwoRevokers
  MaxSerial = 3
  MaxStarts = 2
SPECIFICATION FairSpec
CHECK_DEADLOCK FALSE
INVARIANTS
  TypeOK
  PromisedIsStored
  RefusedWasRevoked
  RootIsStored
PROPERTIES
  CallsReturn
