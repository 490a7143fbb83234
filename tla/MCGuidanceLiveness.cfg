SPECIFICATION FairSpec
CONSTANTS
    b1 = b1
    b2 = b2
    b3 = b3
    p1 = p1
    p2 = p2
    p3 = p3
    Brains = {b1, b2, b3}
    Ancestors <- Linear
    MainMoves <- LinearMoves
    TriggerMoves <- NoMoves
    Inert <- LinearInert
    Sources = {s1, s2}
    Providers = {p1, p2}
    Cohorts <- TwoCohorts
    PageSize = 1
    FirstMain = b1
    Unpinned = Unpinned
    None = None
    ManualPins = {}
    MaxTriggers = 3
    MaxFaults = 0
PROPERTIES
    CycleCompletes
    ChainsEnd
CHECK_DEADLOCK FALSE
