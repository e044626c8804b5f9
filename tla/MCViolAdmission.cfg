SPECIFICATION Spec
CONSTANTS
  x = x
  y = y
  eos = eos
  Eos = eos
  None = None
  Uids <- MCTwo
  Prompt <- MCPrompt
  MaxTokens <- MCLongTokens
  Vocab <- MCVocab
  MaxSeqLen = 8
  PrefillBudget = 6
  ShortOutput = 1
  CanAbort = {}
  Overlap = TRUE
  P2 = FALSE
  P2Governor = FALSE
  DecodeRunSteps = 1
  SliceBudget = 1
  PageSize = 1
  NumPages = 8
  NumSlots = 2
  Radix = TRUE
INVARIANTS
  NeverCrashes
CHECK_DEADLOCK FALSE
