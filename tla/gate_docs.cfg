\* Every document of up to 5 lines, with and without test evidence.
SPECIFICATION Spec
CONSTANTS
  Lines <- AllLines
  MaxLines = 5
  MaxTests = 2
INVARIANT RouterAgreesWithGate
PROPERTIES
  NothingOwed
  CoherentWithTopStatus
  TicksNoDeliverable
CHECK_DEADLOCK FALSE
