SPECIFICATION Spec
CONSTANTS
  NumLines = 3
  NullLines = {}
  WriteFrequency = 4
  ProgressInterval = 8
  MaxCrashes = 0
  MaxLost = 0
  MaxResets = 1
CHECK_DEADLOCK FALSE
INVARIANT FailedOnlyOnError
