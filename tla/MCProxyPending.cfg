CONSTANTS
  r1 = r1  r2 = r2  r3 = r3
  b1 = b1  b2 = b2
  k1 = k1  k2 = k2
  h1 = h1  h2 = h2
  Reqs = {r1, r3}
  Backends = {b1, b2}
  Keys = {k1, k2}
  Buckets = {h1}
  Bucket <- Colliding
  KeyOf <- TwoKeys
  PathOf <- TwoKeys
  BackendOf <- TwoBackends
  PACKET_SIZE = 1
  Lengths = {1}
  Faults = {}
  ConcurrentMisses = FALSE
CHECK_DEADLOCK FALSE
SPECIFICATION Spec
INVARIANT RegisteredIsListed
