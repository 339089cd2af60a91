\* Two threads, two keys, one of them too large for L1, expiry after a tick.
SPECIFICATION Spec
CONSTANTS
  a = a
  b = b
  t1 = t1
  t2 = t2
  Threads = {t1, t2}
  Keys = {a, b}
  Capability <- TwoCapabilities
  DependsOn <- BFromA
  Mid = {a, b}
  Large = {a}
  Sessions = {"s"}
  MaxSize = 1
  MaxTurns = 1
  TTL = 0
  Epoch = 100
  MaxClock = 1
  MaxWrites = 2
  None = None
INVARIANTS TypeOK LayersAgree InvalidatedNotServed
SYMMETRY SameThreads
