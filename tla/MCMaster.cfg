CONSTANTS
  Conns = {c1, c2, c3, c4}
  MAX_BACKEND_NUM = 2
  MAX_BACKEND_CONNECTIONS_NUM = 2
  Faults = {"accept", "send", "receive", "add"}
  None = None
CHECK_DEADLOCK FALSE
SPECIFICATION FairSpec
INVARIANTS
  TypeOK
  BackendsInBounds
  SentToBackend
PROPERTY Delivered
