SPECIFICATION StudioSpec
CONSTANTS
    b1 = b1
    b2 = b2
    Builds = {b1, b2}
    p1 = p1
    p2 = p2
    Processes = {p1, p2}
    Echoing = {b2}
    MaxAttempts = 3
    MaxFaults = 1
    h1 = h1
    h2 = h2
    t1 = t1
    t2 = t2
    Handlers = {h1, h2}
    Tools = {t1, t2}
    quiz = quiz
    red = red
    blue = blue
    calculator = calculator
    Types = {quiz, calculator}
    MaxLooks = 1
    MaxRequests = 3
    MaxMishaps = 2
    Inner = {1, 2}
    Palettes <- MCPalettes
    MaxPages = 2
    MaxHops = 1
    MaxColours = 2
    Menus <- MCMenus
    Moved <- MCMoved
    MaxEdits = 1
SYMMETRY MCSymmetry
CHECK_DEADLOCK FALSE
INVARIANT ReadyInOneProcess
INVARIANT OutageSurvived
INVARIANT ClaimedOnce
INVARIANT WorkKept
INVARIANT LiveAsRecorded
PROPERTY SpendBounded
INVARIANT LooksFollow
