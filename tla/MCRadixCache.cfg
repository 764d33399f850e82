SPECIFICATION Spec
CONSTANTS
  NumPages = 3
  MaxDepth = 3
  MaxRematches = 1
  Requests = {r1, r2}
  Keys = {k1, k2}
SYMMETRY Symmetry
INVARIANTS
  LockAccounting
  OnePlace
  ContentMatchesPath
  TreeWellFormed
  EvictableIsReal
PROPERTIES
  ImplementsStore
CHECK_DEADLOCK FALSE
