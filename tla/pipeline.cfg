\* Three documents; seven environments of a feature and three of a bug; one crash and one drift of the code.
SPECIFICATION FairSpec
CONSTANTS
  Docs <- AllDocs
  Environments <- Envs
  SpikeCap = 2
  MaxTests = 1
  MaxCrashes = 1
  MaxDrifts = 1
INVARIANTS
  CompletionClaimHasReceipt
  ClosedOwesNothing
  RoutedIsAccepted
PROPERTIES
  ReceiptEarned
  InterruptedIsResumed
  Served
CHECK_DEADLOCK FALSE
