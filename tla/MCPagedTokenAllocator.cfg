SPECIFICATION Spec
CONSTANTS
  PageSize = 2
  NumPages = 4
  MaxBatch = 2
  MaxLen = 5
  Requests = {r1, r2}
SYMMETRY Symmetry
INVARIANTS
  TypeOK
  PagesExclusive
  PagesConserved
  RowLayout
PROPERTIES
  ImplementsLedger
