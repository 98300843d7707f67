SPECIFICATION FairSpec
CONSTANTS
  t1 = t1
  t2 = t2
  t3 = t3
  t4 = t4
  t5 = t5
  t6 = t6
  e1 = e1
  e2 = e2
  e3 = e3
  e4 = e4
  nodeA = nodeA
  nodeB = nodeB
  m1 = m1
  m2 = m2
  m3 = m3
  NoTurn = NoTurn
  Event <- MCEvent
  Newer = {}
  Profile = {}
  Node <- MCNode
  Navigate <- ThreeNavigate
  Resettling = {t3}
  Manual = {}
  NodeOf <- NoNodeOf
  Exits = {}
  Swaps = {}
  Lease = 2
  Attempts = 2
  Punctual = TRUE
  MaxTime = 3
  MaxLost = 1
  MaxCrashes = 1
  Turn <- MCThree
  EventOf <- MCEventOf
  DueOf <- ThreeLate
  After <- ThirdLater
CHECK_DEADLOCK FALSE
INVARIANTS
  LeaseExclusive
  CountBounded
PROPERTIES
  EveryTurnAnswered
  JourneysKept
