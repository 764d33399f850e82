SPECIFICATION FairSpec
CONSTANTS
  r1 = r1
  Requests = {r1, r2, r3}
  PromptLen <- MCPromptLen
  MaxTokens <- MCMaxTokens
  PageSize = 2
  MaxExtendLen = 12
  NumPages = 15
  MaxNumSeqs = 3
  Ratios = {10, 85}
INVARIANTS
  LengthsAgree
PROPERTIES
  ImplementsGeneration
  EveryRequestFinishes
CHECK_DEADLOCK FALSE
