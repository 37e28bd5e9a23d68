SPECIFICATION FairSpec
CONSTANTS
  Jobs = {j1}
  Requests = {q1, q2}
  Workers = {w1, w2}
  Db <- SameDb
  Selections = {s1}
  Nothing = Nothing
  Limit = 2
  SingleUse = TRUE
  MaxQueue = 2
  MaxAlter = 1
  MaxCrash = 1
INVARIANTS OneGeneration CanceledLeavesNothing AvailableHasFile NoResidue
PROPERTY Settles
CHECK_DEADLOCK FALSE
