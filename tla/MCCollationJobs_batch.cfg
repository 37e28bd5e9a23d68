SPECIFICATION JobsSpec
CONSTANTS
  j1 = j1
  j2 = j2
  d1 = d1
  d2 = d2
  Nothing = Nothing
  Order <- MCOrder
  MaxRequests = 2
  Workers = {w1}
  Db <- MCDb
  Selections = {"all"}
  Everything = "all"
  Plan <- MCPlan
  MaxAlter = 1
  MaxQueue = 2
  MaxCrash = 1
INVARIANTS
  EnqueuedWaits
PROPERTIES
  ConvertsConfirmed
  
CHECK_DEADLOCK FALSE
