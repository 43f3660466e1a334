\* One process dies; everybody else is prompt and every operation succeeds.
SPECIFICATION Spec
CONSTANTS
  Proc = {p1, p2, p3}
  NoProc = NoProc
  MaxDead = 1
  Slow = FALSE
  MaxFaults = 0
SYMMETRY Symmetry
INVARIANTS
  NoFalseReclaim
