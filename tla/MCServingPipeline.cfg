SPECIFICATION Spec
CONSTANTS
  Calls <- MCCalls
  PromptsOf <- MCPrompts
  Streams <- MCStreams
  Alone <- MCAlone
  MaxTokens <- MCMaxTokens
  Capacity = 1
  MaxDisturbances = 1
  TokenIds = {"char"}
INVARIANTS
  OwnAnswers
  TextMatchesTokens
  AnswersNotLost
  TablesAreLive
PROPERTY HangsOnlyJammed
CHECK_DEADLOCK FALSE
