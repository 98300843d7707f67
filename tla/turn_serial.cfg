SPECIFICATION Spec
CONSTANTS
  t1 = t1
  t2 = t2
  t3 = t3
  t4 = t4
  t5 = t5
  t6 = t6
  e1 = e1
  e2 = e2
  e3 = e3
  e4 = e4
  nodeA = nodeA
  nodeB = nodeB
  m1 = m1
  m2 = m2
  m3 = m3
  NoTurn = NoTurn
  Event <- MCEvent
  Newer = {t3}
  Profile = {t1}
  Node <- MCNode
  Navigate <- SixNavigate
  Resettling = {t5}
  Manual <- Operators
  NodeOf <- OperatorsOf
  Exits = {m2}
  Swaps = {m3}
  Lease = 1
  Attempts = 2
  Punctual = FALSE
  MaxTime = 3
  MaxLost = 1
  MaxCrashes = 1
  Turn <- MCSix
  EventOf <- SixOf
  DueOf <- SixDue
  After <- Chain
CHECK_DEADLOCK FALSE
INVARIANTS
  TypeOK
  CountBounded
