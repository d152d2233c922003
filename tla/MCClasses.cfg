SPECIFICATION Spec
CONSTANTS
  ClassNames <- MCClassNames
  Families <- MCFamilies
  NoClass = NoClass
INVARIANTS
  LayoutExact
  
  CastAgrees
  DispatchFinal
  LifecycleOrdered
CHECK_DEADLOCK FALSE
