SPECIFICATION Spec
CONSTANTS
  p1 = p1
  p2 = p2
  p3 = p3
  file = file
  dir = dir
  Process <- MCProcess
  Path <- MCPath
  Tree <- MCTree
  Missing <- MCMissing
  Plan <- MCPlan
  NoProcess = NoProcess
  Original = Original
  Edited = Edited
  Absent = Absent
  Remnant = Remnant
  MaxDeaths = 1
  MaxEdits = 1
SYMMETRY MCSymmetry
CHECK_DEADLOCK FALSE
INVARIANTS
  TypeOK
  OneMutates
  NothingLost
  AllOrNothing
