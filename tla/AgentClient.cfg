CONSTANTS
  c1 = c1
  c2 = c2
  c3 = c3
  None = None
  Conns <- ThreeConns
SPECIFICATION FairSpec
CHECK_DEADLOCK FALSE
INVARIANTS
  TypeOK
  ConnectionsReleased
PROPERTIES
  Redials
  ClosingUnblocks
