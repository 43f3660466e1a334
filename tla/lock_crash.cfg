\* Two of three processes may die, an operation may fail, anyone may be slow.
SPECIFICATION FairSpec
CONSTANTS
  Proc = {p1, p2, p3}
  NoProc = NoProc
  MaxDead = 2
  Slow = TRUE
  MaxFaults = 1
INVARIANTS
  MutexUnlessFalseReclaim
  NoOrphanLock
PROPERTIES
  OrphanCleared
