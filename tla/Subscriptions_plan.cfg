\* Two checkouts of different plans, two handlers at once, two changes at Stripe.
SPECIFICATION FairSpec
CONSTANTS
  s1 = s1
  s2 = s2
  studio = studio
  scale = scale
  Handlers = {h1, h2}
  Sessions = {s1, s2}
  Plans = {studio, scale}
  PlanOf <- TwoPlans
  NoSession = NoSession
  MaxChanges = 2
  MaxOverlaps = 1
  MaxFaults = 1
INVARIANTS
  RowAgrees
  EntitledOncePaid
PROPERTIES
  PaidTakesEffect
CHECK_DEADLOCK FALSE
