SPECIFICATION ServingSpec
CONSTANTS
  x = x
  y = y
  eos = eos
  Eos = eos
  None = None
  Uids <- MCFour
  Prompt <- MCPrompt
  MaxTokens <- MCMaxTokens
  Vocab <- MCVocab
  MaxSeqLen = 6
  PrefillBudget = 4
  ShortOutput = 1
  CanAbort = {1, 2}
  Overlap = FALSE
  P2 = FALSE
  P2Governor = FALSE
  DecodeRunSteps = 1
  SliceBudget = 1
  PageSize = 1
  NumPages = 7
  NumSlots = 2
  Radix = TRUE
  Backend <- MCHybrid
  GraphSizes = {2}
  TableWidth = 6
INVARIANTS
  ServingTypeOK
  SlotsPartition
  NeverCrashes
  IdleIntegrity
  RepliesEnd
  TokensExact
  CacheExact
  MetricsExact
PROPERTIES
  AbortEnds
  ImplementsPrefixStore
CHECK_DEADLOCK FALSE
