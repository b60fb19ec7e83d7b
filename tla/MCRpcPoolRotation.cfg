CONSTANTS
  t1 = t1
  t2 = t2
  Tasks <- OneTask
  N = 2
SPECIFICATION FairSpec
PROPERTIES
  UnhealthyRetried
