\* A heavy and two fast jobs; a runner may be killed anywhere.  The system stops when all are served.
SPECIFICATION Spec
CONSTANTS
  Client = {h, f1, f2}
  NoClient = NoClient
  Fast = {f1, f2}
  StaleThreshold = 2
  K = 1
  MayBeAged = TRUE
  Slow = FALSE
  Unreadable = FALSE
  WrapperKills = 0
  RunnerKills = 1
  Faults = 0
CHECK_DEADLOCK FALSE
SYMMETRY Symmetry
INVARIANTS
  OneBuild
  HeavyNotStarved

  
