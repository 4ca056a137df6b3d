SPECIFICATION FairSpec
CONSTANTS
  Keys = {k1, k2}
  MaxChanges = 3
  MaxCloses = 2
CHECK_DEADLOCK FALSE
INVARIANT TypeOK
INVARIANT QueueLeadsToAPI
INVARIANT QueueHasItems
PROPERTY CallsSpec
PROPERTY CatchesUp
