CONSTANTS
  Threads = {a, b, c}
  NoOwner = NoOwner
  MaxNotify = 3
  ClosePolicy = "quiescent"
SPECIFICATION Spec
SYMMETRY Symmetry
INVARIANTS
  CloseSafe
  NoLostWakeup
PROPERTY ImplementsMonitor
