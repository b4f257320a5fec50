SPECIFICATION FairSpec
CONSTANTS
  r1 = r1
  r2 = r2
  Requests <- TwoRequests
  SkipDeploy <- SecondRequest
  Flushing <- SecondRequest
  Free = Free
  Leaked = Leaked
  Healer = Healer
  MaxLosses = 1
CHECK_DEADLOCK FALSE
INVARIANTS
  NeverStranded
  MeteredBuildsRun
  LockProtects
PROPERTIES
  BuildingResolves
