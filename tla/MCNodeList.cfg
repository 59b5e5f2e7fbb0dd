CONSTANTS
  Size = 5
  Counters = {c1}
  Swappers = {s1, s2}
  None = None
SPECIFICATION Spec
INVARIANTS
  TypeOK
  ListIntact
  NeverLocksNull
  ComparesNeighbours
PROPERTY Termination
