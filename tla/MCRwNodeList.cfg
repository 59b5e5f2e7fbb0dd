CONSTANTS
  Size = 5
  Counters = {c1}
  Swappers = {s1, s2}
  None = None
SPECIFICATION Spec
CHECK_DEADLOCK FALSE
INVARIANTS
  ListIntact
  ComparesNeighbours
  NeverLocksNull
  DeadlockNeedsStalePlace
