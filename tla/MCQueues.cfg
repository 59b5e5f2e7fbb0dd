CONSTANTS
  Writers = {w1, w2}
  Readers = {r1, r2}
  qmonitor = qmonitor
  max_count = 2
  IntRange = 3
  None = None
SPECIFICATION LinkSpec
INVARIANTS
  TypeOK
  NoLostSignal
  SemaphoresExact
PROPERTIES
  FifoSpec
  Progress
