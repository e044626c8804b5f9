SPECIFICATION FairSpec
CONSTANTS
  Setups <- MCSetups
  Imbalance = 2
  ModelSize = 5
  BigMemory = 19
  Tokens = 2
  TopK = 2
  Layers = 2
  SmallBlock = 2
  LargeBlock = 3
INVARIANTS
  ReadyMeansAll
  AddressesServed
  EnginesAgree
  ShardsCover
  ForwardExact
  CallsMatch
PROPERTIES
  Progress
CHECK_DEADLOCK FALSE
