SPECIFICATION FairSpec
CONSTANTS
  nodeA = nodeA
  nodeB = nodeB
  c1 = c1
  c2 = c2
  c3 = c3
  Node <- MCNode
  Caller <- MCCaller
  Reader <- MCReader
  Writer <- MCWriter
  Again <- MCAgain
  Near <- MCNear
  NumLocks = 2
  NoValue = NoValue
  NoNode = NoNode
  MaxVersion = 1
CHECK_DEADLOCK FALSE
INVARIANTS
  TypeOK
  KeyUsable
  NoLockLeak
  OneInside
PROPERTIES
  CallsReturn
  Converges
