SPECIFICATION Spec
CONSTANTS
  r1 = r1
  Requests = {r1, r2, r3}
  PromptLen <- MCPromptLen
  MaxTokens <- MCMaxTokens
  PageSize = 2
  MaxExtendLen = 12
  NumPages = 12
  MaxNumSeqs = 2
  Ratios = {10, 85}
INVARIANT RowsSuffice
CHECK_DEADLOCK FALSE
