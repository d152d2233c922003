CONSTANTS
  Threads = {a, b, c, d}
  InitialCount = 1
  MaxCount = 2
  MaxSignals = 4
SPECIFICATION Spec
INVARIANTS
  CountExact
PROPERTY CountReachesWaiter
CHECK_DEADLOCK FALSE
