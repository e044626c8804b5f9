SPECIFICATION FairSpec
CONSTANTS
  Root = rank0
  Followers = {rank1}
  Uids <- MCTwo
  Short = {2}
  MaxTokens <- MCMaxTokens
  EosAt <- MCEosAt
  Budget = 1
  Overlap = TRUE
INVARIANTS
  RanksAgree
PROPERTIES
  AllServed
CHECK_DEADLOCK FALSE
