SPECIFICATION FairSpec
CONSTANTS
  r1 = r1
  r2 = r2
  r3 = r3
  nodeA = nodeA
  nodeB = nodeB
  NoReq = NoReq
  Node <- MCNode
  Lease <- MCLease
  Event <- MCEvent
  Opening <- MCOpening
  Req <- MCReq
  Kind <- MCKind
  EventOf <- MCEventOf
  Amount <- MCAmount
  DueOf <- MCDueOf
  Earned <- MCEarned
  EndDate = 2
  Days = 1
  NodeOf <- MCNodeOf
  After <- MCFree
  Attempts = 2
  Retries = 2
  MaxTime = 2
  MaxFaults = 1
CHECK_DEADLOCK FALSE
INVARIANTS
  TypeOK
  BalanceBacked
  EntriesKept
  CreditBounded
PROPERTIES
  EveryRequestAnswered
