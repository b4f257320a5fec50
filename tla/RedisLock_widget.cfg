SPECIFICATION FairSpec
CONSTANTS
  t1 = t1
  t2 = t2
  t3 = t3
  Tasks <- ThreeTasks
  NoToken = NoToken
  LockTTL = 10
  TaskLimit = 6
  SoftLimit = 5
PROPERTIES
  ImplementsMutex
  LockAlwaysFreed
