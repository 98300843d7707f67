SPECIFICATION FairSpec
CONSTANTS
  NumLines = 8
  NullLines = {5}
  WriteFrequency = 3
  ProgressInterval = 6
  MaxCrashes = 2
  MaxLost = 2
  MaxResets = 2
CHECK_DEADLOCK FALSE
INVARIANTS
  TypeOK
  ProgressSound
  CompleteMeansAll
  ReworkBounded
  ResultsMatch
PROPERTY RunReports
