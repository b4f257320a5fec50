SPECIFICATION BillingSpec
CONSTANTS
  h1 = h1
  h2 = h2
  w1 = w1
  w2 = w2
  w3 = w3
  s1 = s1
  Handlers = {h}
  Sessions = {s1}
  Plans <- MCPlans
  PlanOf <- MCPlanOf
  NoSession = NoSession
  MaxChanges = 0
  MaxOverlaps = 0
  MaxFaults = 0
  Presses = {h1, h2}
  Widgets = {w1, w2, w3}
  BuildLimit <- MCBuildLimit
  LiveLimit <- MCLiveLimit
  Month = 2
  MaxClock = 2
  MaxRequests = 3
  MaxNews = 2
SYMMETRY MCSymmetry
CHECK_DEADLOCK FALSE
INVARIANT OvershootBounded
