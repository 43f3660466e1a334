\* One hook or command at a time: two runs; up to three emissions, a registry of two, two debts, four of them in all.
SPECIFICATION Spec
CONSTANTS
  Call = {a, b}
  NoCall = NoCall
  Owner = Owner
  Other = Other
  NoSession = NoSession
  Text = {p, h}
  Hardening = {h}
  Cap = 2
  Cloud = FALSE
  Overlap = FALSE
  MaxRuns = 2
  MaxEmissions = 3
  MaxDebt = 2
  MaxWork = 4
SYMMETRY MCSymmetry
INVARIANTS
  OneDispatchPerEmission
  DebtPaidOnce
  NoBystanderDebt
  OrchestratorBinds
  VerbatimRefireStands
  WorkerNeedsDispatch
PROPERTIES
  OwnRunOnly
