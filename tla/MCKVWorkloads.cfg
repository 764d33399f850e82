SPECIFICATION WorkloadSpec
CONSTANTS
  PageSize = 4
  NumPages = 4
  r1 = r1
  r2 = r2
  r3 = r3
  Requests = {r1, r2}
  Prompt <- MCPrompt
  Tokens = {1}
  MaxRequests = 2
  MaxOutput = 4
  MaxLocks = 2
  Workloads <- AnyAndSound
INVARIANTS
  RowsAreExclusive
  PrefixStays
  PagesOnePlace
  RowsLaidOut
CHECK_DEADLOCK FALSE
