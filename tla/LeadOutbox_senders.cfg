SPECIFICATION FairSpec
CONSTANTS
  l1 = l1
  p1 = p1
  s1 = s1
  mail = mail
  Leads <- OneLead
  Presses <- OnePress
  Sweeps <- OneSweep
  Rows <- OneRow
  LeadOf <- LeadOfRow
  Emails <- OneRow
  MaxAttempts = 2
  MaxLosses = 1
CHECK_DEADLOCK FALSE
PROPERTIES
  ImplementsOutbox
  EverySettles
