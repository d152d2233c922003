\* Statements of at most 9 tokens over 16 vocabularies; nesting limit 4; integers of 4 bits.
SPECIFICATION Spec
CONSTANTS
  Vocabularies <- MCVocabularies
  maximumNesting = 4
  Width = 4
INVARIANTS ParsesGrammar ExecutesExactly FoldsExactly
CHECK_DEADLOCK FALSE
