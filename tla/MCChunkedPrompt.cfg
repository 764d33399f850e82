SPECIFICATION Spec
CONSTANTS
  Requests = {1, 2, 3, 4, 5, 6, 7}
  Arrivals <- MCArrivals
  MaxRunning = 2
  MaxChunks = 0
  MaxNew <- MCMaxNew
  Prompts <- MCPrompts
  PromptLen <- MCLen
  Shared = 2
  PageSize = 2
  NumPages = 5
  MaxBatch = 4
  MaxLen = 4
  NumExperts = 4
  EPSize = 2
  TPSize = 2
  BlockM = 2
  SmallNumel = 4
  SmallExperts = 4
  HiddenCols = 2
  CaptureSizes = {1, 2}
  MaxCalls = 2
  Routings <- MCRoutings
  Batches = 3
  RowsOfBatch <- MCRows
  Pools <- MCPools
  ChunkSize = 6
  Orders <- MCOrders
INVARIANT PromptPrefilled
CHECK_DEADLOCK FALSE
