SPECIFICATION FairSpec
CONSTANTS
  W = 3
  IntW = 5
  MAX_SUBNETS = 3
  Configs <- AllConfigs
  MaxFaults = 2
CHECK_DEADLOCK FALSE
INVARIANT TypeOK
INVARIANT ReadyComplete
INVARIANT PrefixesPartition
PROPERTY StartsUnlessDoomed
PROPERTY DoomedForGood
