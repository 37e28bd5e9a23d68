SPECIFICATION Spec
CONSTANTS
  Requests = {r1, r2}
  Processes = {p1, p2}
  People = {ana, eva}
  Nobody = Nobody
  MaxPasswords = 2
  SnapshotIsolation = TRUE
SYMMETRY Symmetry
INVARIANTS
  OpenedByTwo
  GreenIsProbed
  NoOrphanAccount
CHECK_DEADLOCK FALSE
