CONSTANTS
  a1 = a1
  c1 = c1
  c2 = c2
  c3 = c3
  k1 = k1
  k2 = k2
  None = None
  Agents <- OneAgent
  Conns <- TwoConns
  Calls <- OneCall
  AgentOf <- ConnsOfA1
  Target <- CallsToA1
  Timed <- NoneTimed
SPECIFICATION Spec
CHECK_DEADLOCK FALSE
INVARIANT LiveIsConnected
