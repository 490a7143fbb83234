SPECIFICATION Spec
CONSTANTS
    b1 = b1
    b2 = b2
    b3 = b3
    p1 = p1
    p2 = p2
    p3 = p3
    Brains = {b1, b2, b3}
    Ancestors <- Forked
    MainMoves <- ForkedMoves
    TriggerMoves <- ForkedMoves
    Inert <- ForkedInert
    Sources = {s1, s2}
    Providers = {p1, p2}
    Cohorts <- OneCohort
    PageSize = 1
    FirstMain = b1
    Unpinned = Unpinned
    None = None
    ManualPins = {b1}
    MaxTriggers = 3
    MaxFaults = 1
INVARIANTS
    TypeOK
    CompletedHasRows
    RowsUnderHeader
PROPERTIES
    BrainMonotonic
    SourcePinned
CHECK_DEADLOCK FALSE
