CONSTANTS
  c1 = c1
  c2 = c2
  Clients = {c1, c2}
  Worlds <- MCWorlds

SPECIFICATION FairSpec

INVARIANTS
  OutputExact
  NoUseAfterFree
  SignalsOnlyOurChild
  CloseLeavesNothing

PROPERTY CallsEnd
