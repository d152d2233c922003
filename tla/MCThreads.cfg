CONSTANTS
  Threads = {m, a, b}
  main = m
  Objects = {o1, o2, o3, o4}
  None = None
  MaxFrames = 3
SPECIFICATION Spec
SYMMETRY Symmetry
CONSTRAINT Bounded
INVARIANTS
  LockDiscipline
  NeverAborts
  RootSafety
  ArgsOutliveChild
  
PROPERTY RootsFrozenDuringScan
