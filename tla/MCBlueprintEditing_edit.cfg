CONSTANTS
  DBs = {1, 2}
  Handlers = {h1, h2}
  h1 = h1
  h2 = h2
  Top = 2
  MaxMigs = 4
  MaxVersion = 4
  MaxFaults = 1
SPECIFICATION Spec
SYMMETRY Symmetry
INVARIANTS PointersTrue EditsTraced
CHECK_DEADLOCK FALSE
