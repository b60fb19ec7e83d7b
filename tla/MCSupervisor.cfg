CONSTANTS
  onchain = onchain
  evm = evm
  base = base
  bsc = bsc
  eth = eth
  tail = tail
  Jobs <- MCJobs
  Kids <- MCKids
  Gathering <- MCGathering
  MaxDelay = 3
  MaxFails = 3
SPECIFICATION FairSpec
INVARIANTS
  TypeOK
  FailureIsolated
  CopiesEarned
PROPERTIES
  WatchedAgain
  StopsAll
CHECK_DEADLOCK FALSE
