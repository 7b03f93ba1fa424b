SPECIFICATION FairSpec
CONSTANTS
  Holders = {e1, e2}
  NoHolder = NoHolder
  LockTtl = 2
  Resources = {1, 2, 3}
  Keys = {1, 2, 3}
  Key <- DistinctKeys
  Requests = {{1, 2}, {2, 3}, {1, 2, 3}, {}}
  Timeout = 1
INVARIANTS
  OverlapOnlyAfterTtl
  NoCircularWait
  EndedHoldNothing
PROPERTY
  LocksEnd
