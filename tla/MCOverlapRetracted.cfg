SPECIFICATION Spec
CONSTANTS
  r1 = r1
  Requests = {r1, r2, r3}
  PromptLen <- MCPromptLen
  MaxTokens <- MCMaxTokens
  PageSize = 2
  MaxExtendLen = 12
  NumPages = 5
  MaxNumSeqs = 3
  Ratios = {10, 85}
INVARIANT DropsOnlyStale
CHECK_DEADLOCK FALSE
