CONSTANTS
  w1 = w1
  w2 = w2
  r1 = r1
  Watchers <- MCWatchers
  Refreshers <- MCRefreshers
  Kinds <- PoolKinds
  MaxVer = 3
  Empty <- MCEmpty
  MaxFaults = 1
SPECIFICATION FairSpec
INVARIANTS
  TypeOK
  HotTruth
  MovesTold
PROPERTIES
  Converges
CHECK_DEADLOCK FALSE
