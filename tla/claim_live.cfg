SPECIFICATION RestartSpec
CONSTANTS
  nodeA = nodeA
  nodeB = nodeB
  w1 = w1
  w2 = w2
  w3 = w3
  Node <- MCOne
  NoNode = NoNode
  Worker <- MCSingle
  NoWorker = NoWorker
  NodeOf <- MCSingleOf
  NumJobs = 2
  ParentJobs = {2}
  PlainJobs = {}
  TargetCount = 2
  Slots = 1
  ClaimTimeout = 1
  MaxTime = 2
  MaxSaves = 0
  MaxCrashes = 1
  MaxLost = 0
  MaxResets = 1
CHECK_DEADLOCK FALSE
PROPERTIES
  EveryJobFinishes
  NoClaimStuck
