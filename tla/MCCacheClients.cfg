SPECIFICATION Spec
CONSTANTS
  a = a
  b = b
  NoReq = NoReq
  Reqs = {r1, r2}
  PageSize = 2
  NumPages = 5
  NumSlots = 2
  Radix = TRUE
  MaxLen = 5
  Prompts <- MCPrompts
  Tokens <- MCTokens
SYMMETRY RequestSymmetry
INVARIANTS
  TypeOK
  TreeShape
  LocksExact
  SizesExact
  PagesPartition
  EvictionSucceeds
  UnlockSucceeds
PROPERTIES
  ImplementsPrefixStore
