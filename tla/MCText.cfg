SPECIFICATION Spec
CONSTANTS
  r1 = r1
  r2 = r2
  p1 = p1
  p2 = p2
  p3 = p3
  Requests = {r1, r2}
  Prompts = {p1, p2, p3}
  MaxTokens = 3
  MaxRetracts = 1
  CacheSize = 2
  MaxDecoded = 2
  LruSize = 2
  BatchSize = 3
  TokenIds = {"first", "last", "eos"}
INVARIANTS
  PromptsAnswered
  DeltasAreWhole
  CacheTransparent
  StreamedIsOutput
  StatesCurrent
SYMMETRY Symmetry
CHECK_DEADLOCK FALSE
