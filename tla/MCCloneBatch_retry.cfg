\* Two batches towards one existing target (the second a retry), one restart, one drift.
SPECIFICATION Spec
CONSTANTS
  created = created
  Batches = {b1, b2}
  Dbs = {d1}
  Mode <- MixedMode
  None = None
  MaxDrift = 1
  MaxCrash = 1
SYMMETRY BatchSymmetry
INVARIANTS SerialRows
PROPERTIES RetrySound
\* Every batch over and the bounds used up: nothing is left to do.
CHECK_DEADLOCK FALSE
