SPECIFICATION Spec
CONSTANTS
  x = x
  y = y
  eos = eos
  Eos = eos
  None = None
  Uids <- MCThree
  Prompt <- MCPagedPrompt
  MaxTokens <- MCPagedTokens
  Vocab <- MCVocab
  MaxSeqLen = 9
  PrefillBudget = 4
  ShortOutput = 1
  CanAbort = {1, 2}
  Overlap = TRUE
  P2 = FALSE
  P2Governor = FALSE
  DecodeRunSteps = 1
  SliceBudget = 1
  PageSize = 2
  NumPages = 5
  NumSlots = 2
  Radix = TRUE
INVARIANTS
  NoExcess
  FaultsAreAborts
CHECK_DEADLOCK FALSE
