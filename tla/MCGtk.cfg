SPECIFICATION Spec
CONSTANTS
  Programs <- MCPrograms
  MaxDepth = 2
  MaxBatches = 2
  MaxEdits = 2
INVARIANT ReleasedExactly
PROPERTIES
  NoLateCallback
  SaveKeepsEdits
  DrainEnds
CHECK_DEADLOCK FALSE
