\* One batch of a target to create and an existing one, one restart.
SPECIFICATION FairSpec
CONSTANTS
  created = created
  Batches = {b1}
  Dbs = {created, d1}
  Mode <- MixedMode
  None = None
  MaxDrift = 0
  MaxCrash = 1
INVARIANTS DoneMeansCopied NothingRunsWhenOver
PROPERTIES BatchSettles
\* Every batch over and the bounds used up: nothing is left to do.
CHECK_DEADLOCK FALSE
