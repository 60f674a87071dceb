SPECIFICATION WindowSpec
CONSTANTS
  c1 = c1
  c2 = c2
  k1 = k1
  k2 = k2
  Client = {c1, c2}
  Caller = {k1, k2}
  Burst = 2
  Cost = 2
  CleanupInterval = 2
  MaxWindow = 4
  Null = Null
INVARIANT BurstAndRate
CHECK_DEADLOCK FALSE
