CONSTANTS
  w1 = w1
  w2 = w2
  Workers <- MCWorkers
  MaxMsgs = 4
  Malformed <- MCMalformed
  MaxLen = 2
  Count = 2
  MaxFaults = 2
SPECIFICATION FairSpec
INVARIANTS
  TypeOK
  AtMostOnce
  ExclusiveBatches
  LossPerFault
PROPERTIES
  AckAfterWork
  OrphansStay
  QueueSpec
  EverySettles
CHECK_DEADLOCK FALSE
