SPECIFICATION Spec
CONSTANTS
  r1 = r1
  Requests = {r1, r2, r3, r4}
  PromptLen <- MCPromptLen
  MaxTokens <- MCMaxTokens
  PageSize = 2
  MaxExtendLen = 12
  NumPages = 5
  MaxNumSeqs = 3
  Ratios = {10, 85}
INVARIANTS
  PinnedIsTheirs
  OnePlace
  HoldingsReturned
  BatchAligned
  PrefillFits
  NothingLeft
CHECK_DEADLOCK FALSE
