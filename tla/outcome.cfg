\* Kills anywhere; two operations on files fail.  All ends when everybody was told or killed.
SPECIFICATION Spec
CONSTANTS
  Faults = 2
CHECK_DEADLOCK FALSE
INVARIANTS
  NoFalseGreen
  RecordedIsTold
PROPERTIES
  OutcomeTold
