SPECIFICATION FairServingSpec
CONSTANTS
  x = x
  y = y
  eos = eos
  Eos = eos
  None = None
  Uids <- MCThree
  Prompt <- MCPagedPrompt
  MaxTokens <- MCPagedTokens
  Vocab <- MCVocab
  MaxSeqLen = 9
  PrefillBudget = 6
  ShortOutput = 1
  CanAbort = {}
  Overlap = TRUE
  P2 = TRUE
  P2Governor = TRUE
  DecodeRunSteps = 2
  SliceBudget = 2
  PageSize = 2
  NumPages = 12
  NumSlots = 2
  Radix = TRUE
  Backend <- MCPaged
  GraphSizes = {1, 2}
  TableWidth = 10
INVARIANTS
  FinishedRemembered
  TokensExact
  MetricsExact
PROPERTIES
  AllAnswered
CHECK_DEADLOCK FALSE
