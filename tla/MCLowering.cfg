SPECIFICATION Spec
CONSTANTS
  Programs <- MCPrograms
  MaxOutcomes = 5
INVARIANTS RunsAsWritten AnalyzerSound
CHECK_DEADLOCK FALSE
