SPECIFICATION Spec
CONSTANTS
  r1 = r1
  r2 = r2
  r3 = r3
  nodeA = nodeA
  nodeB = nodeB
  NoReq = NoReq
  Node <- MCNode
  Lease <- MCLease
  Event <- MCEvent
  Opening <- MCOpening
  Req <- MCReads
  Kind <- ReadsKind
  EventOf <- ReadsEventOf
  Amount <- ReadsAmount
  DueOf <- ReadsDueOf
  Earned <- ReadsEarned
  EndDate = 0
  Days = 1
  NodeOf <- ReadsNodeOf
  After <- ReadsFree
  Attempts = 2
  Retries = 2
  MaxTime = 1
  MaxFaults = 0
CHECK_DEADLOCK FALSE
INVARIANTS
  CreditedOnce
