\* Two executions of one comparison, the target entering and leaving the inventory.
SPECIFICATION Spec
CONSTANTS
  Requests = {r1, r2}
  Comparisons = {c1}
  Differences <- SomeDifferences
  NoOne = NoOne
  MaxEpoch = 2
  MaxOutside = 1
SYMMETRY Symmetry
INVARIANTS
  SelectionExact
  BaseBeforeDependent
  NoRepeat
  ResultsTrue
CHECK_DEADLOCK FALSE
