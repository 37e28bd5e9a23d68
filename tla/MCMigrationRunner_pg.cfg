\* Two concurrent requests on PostgreSQL, one transaction per version, in an
\* environment that blocks destructive versions.
SPECIFICATION Spec
CONSTANTS
  r1 = r1
  r2 = r2
  NoOne = NoOne
  Requests = {r1, r2}
  NV = 2
  Size <- MixedSize
  HasDown <- MixedDown
  Resumable = {1, 2}
  Destructive = {2}
  EnvBlocks = TRUE
  Transactional = TRUE
  Ops = {"apply", "rollback", "stamp"}
  Modes = {"leave"}
  MaxLost = 1
SYMMETRY Symmetry
INVARIANTS
  LedgerIsTruth
  HolderRuns
  NoDestructiveUnderBlock
PROPERTIES
  ImplementsChain
