SPECIFICATION Spec
CONSTANTS
  t1 = t1
  t2 = t2
  t3 = t3
  t4 = t4
  t5 = t5
  t6 = t6
  e1 = e1
  e2 = e2
  e3 = e3
  e4 = e4
  nodeA = nodeA
  nodeB = nodeB
  m1 = m1
  m2 = m2
  m3 = m3
  NoTurn = NoTurn
  Event <- MCEvent
  Newer = {}
  Profile = {}
  Node <- MCNode
  Navigate <- ThreeNavigate
  Resettling = {}
  Manual = {}
  NodeOf <- NoNodeOf
  Exits = {}
  Swaps = {}
  Lease = 2
  Attempts = 2
  Punctual = TRUE
  MaxTime = 3
  MaxLost = 0
  MaxCrashes = 0
  Turn <- MCThree
  EventOf <- MCEventOf
  DueOf <- ThreeEarly
  After <- ThreeFree
CHECK_DEADLOCK FALSE
INVARIANTS
  LeaseExclusive
