CONSTANTS
  a1 = a1
  c1 = c1
  c2 = c2
  c3 = c3
  k1 = k1
  k2 = k2
  None = None
  Agents <- OneAgent
  Conns <- TwoConns
  Calls <- TwoCalls
  AgentOf <- ConnsOfA1
  Target <- CallsToA1
  Timed <- FirstTimed
SPECIFICATION FairSpec
CHECK_DEADLOCK FALSE
INVARIANTS
  TypeOK
  NoCallerAbandoned
  NoDanglingRegistration
PROPERTIES
  ImplementsPromise
  CallsEnd
