SPECIFICATION DeliverySpec
CONSTANTS
  l1 = l1
  mail = mail
  Leads = {l1}
  Presses = {}
  Sweeps = {}
  Rows = {mail}
  LeadOf <- MCLeadOf
  Emails = {mail}
  MaxAttempts = 1
  MaxLosses = 0
  Ids = {1, 2}
  Providers = {"crm"}
  Keys = {"old", "new"}
  Urls = {"u", "v"}
  Submissions = {"l"}
  Handlers = {"h1", "h2"}
  Batches = {"s"}
  MaxChanges = 3
CHECK_DEADLOCK FALSE
INVARIANT PausedStaysPaused
INVARIANT PanelTrue
PROPERTY Recovers
