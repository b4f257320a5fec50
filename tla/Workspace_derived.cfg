SPECIFICATION WorkspaceSpec
CONSTANTS
    ada = ada
    bob = bob
    s1 = s1
    NoSession = NoSession
    Handlers = {h1, h2}
    Visits <- MCVisits
    Events <- MCEvents
    Plans <- MCPlans
    LeadLimit <- MCLeadLimit
    WidgetCap = 1
    Window = 0
    MaxClock = 1
    MaxRequests = 3
    MaxChanges = 1
    MaxFaults = 1
    People = {"ann", "ben"}
    Tools = {"t", "u"}
    Codes = {"c1", "c2"}
    MaxTeamRequests = 4
    Top = 2
    Weight <- MCWeight
    Decisions <- MCDecisions
    Edits <- MCEdits
    Screens <- MCScreens
    MaxSaves = 1
    MaxVisits = 1
    Processes = {p1, p2}
    Passwords = {w1, w2}
    MaxAsked = 3
    MaxOutages = 1
    Ids = {1, 2, 3}
    Columns = {"created_at"}
    Scores = {0}
    PageSize = 1
    MaxExport = 2
    MaxDay = 1
    MaxMoves = 1
SYMMETRY Alike
CHECK_DEADLOCK FALSE
INVARIANT DerivedValidates
