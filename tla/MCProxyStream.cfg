CONSTANTS
  r1 = r1  r2 = r2  r3 = r3
  b1 = b1  b2 = b2
  k1 = k1  k2 = k2
  h1 = h1  h2 = h2
  Reqs = {r1, r2}
  Backends = {b1, b2}
  Keys = {k1}
  Buckets = {h1}
  Bucket <- Separate
  KeyOf <- OneKey
  PathOf <- OneKey
  BackendOf <- TwoBackends
  PACKET_SIZE = 1
  Lengths = {1, 2}
  Faults = {"read"}
  ConcurrentMisses = FALSE
CHECK_DEADLOCK FALSE
SPECIFICATION FairSpec
INVARIANTS
  RegisteredIsListed
  StreamFaithful
PROPERTY JoinerServed
