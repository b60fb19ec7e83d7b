CONSTANTS
  a = a
  b = b
  x = x
  y = y
  None = None
  Jobs <- MCJobs
  Keys <- MCKeys
  Deltas <- MCDeltas
  Active = 2
  Hot = 4
  MaxBatch = 2
  MaxSignals = 2
  MaxUpsets = 1
SPECIFICATION FairSpec
INVARIANTS
  TypeOK
  TierGrounded
PROPERTIES
  RoundsEnd
  TiersAgree
