SPECIFICATION FairSpec
CONSTANTS
  d1 = d1
  d2 = d2
  w1 = w1
  w2 = w2
  Delivery <- MCDelivery
  Worker <- MCWorker
  Nobody = Nobody
  Lengths <- MCLengths
  RecordsPerChunk = 2
CHECK_DEADLOCK FALSE
INVARIANTS
  TypeOK
  LinesAccounted
  RunsBounded
  ChunksPartition
PROPERTIES
  Settles
