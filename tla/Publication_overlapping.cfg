SPECIFICATION FairSpec
CONSTANTS
  b1 = b1
  b2 = b2
  d1 = d1
  k1 = k1
  Builders <- TwoBuilds
  Redeploys <- OneRedeploy
  Rollbacks <- OneRollback
  First = First
  None = None
CHECK_DEADLOCK FALSE
INVARIANTS
  UrlFollows
  AliasIsUrl
PROPERTIES
  RollbackGoesBack
  PublishersEnd
