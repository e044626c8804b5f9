SPECIFICATION Spec
CONSTANTS
  x = x
  y = y
  eos = eos
  Eos = eos
  None = None
  Uids <- MCThree
  Prompt <- MCPrompt
  MaxTokens <- MCMaxTokens
  Vocab <- MCVocab
  MaxSeqLen = 6
  PrefillBudget = 6
  ShortOutput = 1
  CanAbort = {1}
  Overlap = TRUE
  P2 = FALSE
  P2Governor = FALSE
  DecodeRunSteps = 1
  SliceBudget = 1
  PageSize = 1
  NumPages = 15
  NumSlots = 2
  Radix = TRUE
INVARIANTS
  SlotsPartition
CHECK_DEADLOCK FALSE
