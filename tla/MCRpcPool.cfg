CONSTANTS
  t1 = t1
  t2 = t2
  Tasks <- MCTasks
  N = 3
SPECIFICATION FairSpec
INVARIANTS
  TypeOK
  InFlightExact
  UnhealthyEarned
PROPERTIES
  CallEnds
