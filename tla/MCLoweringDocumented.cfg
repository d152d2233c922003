SPECIFICATION Spec
CONSTANTS
  Programs <- MCPrograms
  MaxOutcomes = 5
INVARIANT AsDocumented
CHECK_DEADLOCK FALSE
