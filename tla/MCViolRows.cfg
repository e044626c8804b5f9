SPECIFICATION ServingSpec
CONSTANTS
  x = x
  y = y
  eos = eos
  Eos = eos
  None = None
  Uids <- MCThree
  Prompt <- MCPrompt
  MaxTokens <- MCMaxTokens
  Vocab <- MCVocab
  MaxSeqLen = 6
  PrefillBudget = 6
  ShortOutput = 1
  CanAbort = {}
  Overlap = FALSE
  P2 = FALSE
  P2Governor = FALSE
  DecodeRunSteps = 1
  SliceBudget = 1
  PageSize = 1
  NumPages = 6
  NumSlots = 2
  Radix = TRUE
  Backend <- MCHybrid
  GraphSizes = {2}
  TableWidth = 6
INVARIANTS
  RowsExact
CHECK_DEADLOCK FALSE
