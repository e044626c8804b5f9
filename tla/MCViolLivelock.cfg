SPECIFICATION FairSpec
CONSTANTS
  x = x
  y = y
  eos = eos
  Eos = eos
  None = None
  Uids <- MCTwo
  Prompt <- MCTwoLong
  MaxTokens <- MCLongThenOne
  Vocab <- MCVocab
  MaxSeqLen = 6
  PrefillBudget = 2
  ShortOutput = 1
  CanAbort = {}
  Overlap = FALSE
  P2 = FALSE
  P2Governor = FALSE
  DecodeRunSteps = 1
  SliceBudget = 1
  PageSize = 1
  NumPages = 6
  NumSlots = 2
  Radix = FALSE
PROPERTIES
  AllAnswered
CHECK_DEADLOCK FALSE
