\* One request at a time on MySQL/MariaDB (AUTOCOMMIT), every operation.
SPECIFICATION FairSpec
CONSTANTS
  r1 = r1
  r2 = r2
  NoOne = NoOne
  Requests = {r1}
  NV = 2
  Size <- MixedSize
  HasDown <- MixedDown
  Resumable = {1, 2}
  Destructive = {2}
  EnvBlocks = FALSE
  Transactional = FALSE
  Ops = {"apply", "rollback", "stamp", "reconcile"}
  Modes = {"auto", "reconcile", "leave"}
  MaxLost = 1
INVARIANTS
  BooksWithinLost
  ResumeSound
  PartialAtTheEdge
PROPERTIES
  LockReleased
