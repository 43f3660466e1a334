\* Two workers and two items, every step of every operation, crashes, and
\* stale clocks.  Ticks are half seconds; a lease lasts one second.
SPECIFICATION Spec
CONSTANTS
  Worker = {w1, w2}
  NoWorker = NoWorker
  Item = {a, b}
  Slot = {s1}
  NoSlot = NoSlot
  TTL = 2
  Second = 2
  LockTimeout = 1
  Pause = 0
  MaxClock = 3
  MaxToken = 2
SYMMETRY Symmetry
INVARIANTS
  OneHolderPerToken
PROPERTIES
  FencedForEver
  LeaseHonoured
  ImplementsFencedLease
