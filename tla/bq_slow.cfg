\* Every interleaving; a wrapper and a runner may be killed, an operation may fail.  The system stops when all have ended.
SPECIFICATION FairSpec
CONSTANTS
  Client = {h1, f1}
  NoClient = NoClient
  Fast = {f1}
  StaleThreshold = 2
  K = 1
  MayBeAged = TRUE
  Slow = TRUE
  Unreadable = FALSE
  WrapperKills = 1
  RunnerKills = 1
  Faults = 1
CHECK_DEADLOCK FALSE

  
PROPERTIES
  EveryoneServed
