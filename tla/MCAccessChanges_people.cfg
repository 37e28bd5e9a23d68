CONSTANTS
  ana = ana
  eva = eva
  leo = leo
  Users = {ana, eva, leo}
  Root = ana
  Handlers = {h1, h2}
  Starts <- MCStarts
  MaxRows = 2
SPECIFICATION Spec
SYMMETRY Alike
INVARIANTS ElevatedByTwo AdminRemains OfficerStandsAlone
CHECK_DEADLOCK FALSE
