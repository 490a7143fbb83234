CONSTANTS
    Strategies <- MCStrategies
    Issues = {{}}
    Ledgers <- MCLedgers
    ForceRows <- MCForceRows
    ModelAnswers <- MCModelAnswers
    UnknownRoles = {"proxy"}
    Reasons = {"transport"}
    Window = 3
    MaxUnavailable = 1
    MaxHypotheses = 2
SPECIFICATION Spec
INVARIANTS TypeOK EverySlotCounts HandoverIsEarned
PROPERTIES FailuresReachModel
CHECK_DEADLOCK FALSE
