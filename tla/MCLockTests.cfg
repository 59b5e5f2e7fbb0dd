CONSTANTS
  Threads = {main, t1, t2, t3}
  main = main
  None = None
  Iterations = 2
SPECIFICATION TestSpec
INVARIANTS
  TypeOK
  MutualExclusion
  NoStrandedWaiter
  NoneFailed
PROPERTIES
  LockSpec
  Termination
