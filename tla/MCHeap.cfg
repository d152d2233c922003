CONSTANTS
  Objects = {o1, o2, o3}
  None = None
  MaxDepth = 5
  FlatDepth = 3
  ChainLength = 2
SPECIFICATION Spec
SYMMETRY Symmetry
CONSTRAINT Bounded
INVARIANTS CollectionExact UnwindingExact
PROPERTY DestroyedForever
