SPECIFICATION FairSpec
CONSTANTS
  w1 = w1
  c1 = c1
  h1 = h1
  h2 = h2
  NoSession = NoSession
  Handlers <- TwoHandlers
  Sessions <- OneSession
  Widgets <- OneWidget
  WidgetOf <- ForWidget
  MaxFaults = 2
CHECK_DEADLOCK FALSE
INVARIANTS
  PaidIsPaidFor
  RefundHonoured
PROPERTIES
  PaidIsConfirmed
