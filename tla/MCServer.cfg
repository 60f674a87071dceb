SPECIFICATION Spec
CONSTANTS
  c1 = c1
  Client = {c1}
  Caller = {k1, k2}
  Burst = 1
  Cost = 2
  CleanupInterval = 0
  Null = Null
  MaxRetries = 2
  ClientOf <- ClientOfMC
INVARIANTS CleanExitLeavesNothing ShutdownCutsTheLadder
PROPERTIES ImplementsBucket ShutdownEnds
CHECK_DEADLOCK FALSE
