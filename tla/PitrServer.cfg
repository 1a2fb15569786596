CONSTANTS
  o1 = o1
  a1 = a1
  e1 = e1
  e2 = e2
  c1 = c1
  c2 = c2
  Run = Run
  Ops <- OneOp
  Agents <- OneAgent
  AgentOf <- SameAgent
  ExecReqs <- TwoExecs
  CancelReqs <- TwoCancels
SPECIFICATION FairSpec
INVARIANTS
  TypeOK
  NoneStranded
  ExecutePrecededByPreview
  CompletedIsAudited
PROPERTIES
  ImplementsPromise
  WorkEnds
