SPECIFICATION Spec
CONSTANTS
  nodeA = nodeA
  nodeB = nodeB
  w1 = w1
  w2 = w2
  w3 = w3
  Node <- MCNode
  NoNode = NoNode
  Worker <- MCWorker
  NoWorker = NoWorker
  NodeOf <- MCNodeOf
  NumJobs = 1
  ParentJobs = {}
  PlainJobs = {1}
  TargetCount = 2
  Slots = 1
  ClaimTimeout = 1
  MaxTime = 3
  MaxSaves = 1
  MaxCrashes = 1
  MaxLost = 1
  MaxResets = 0
CHECK_DEADLOCK FALSE
INVARIANTS
  TypeOK
  RunnersBounded
  RunnerOwnsJob
PROPERTIES
  TakeoverOnlyExpired
  LifecycleForward
  ImplementsJobQueue
