\* A call that ends before its commit, and the call after it.
SPECIFICATION Spec
CONSTANTS
  MaxFaults = 2
INVARIANTS
  RerunIsSafe
CHECK_DEADLOCK FALSE
