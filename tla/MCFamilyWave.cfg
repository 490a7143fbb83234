SPECIFICATION Spec
CONSTANTS
    alpha = alpha
    beta = beta
    gamma = gamma
    delta = delta
    epsilon = epsilon
    Providers <- Cohort
    TargetRank <- ByName
    Checkout <- CheckoutOf
    Compilable = {gamma, epsilon}
    PageSizes = {1, 3}
    MaxBlocks = 1
    MaxVerdicts = 1
INVARIANTS TypeOK FamilyCovered ValidatedFansOut MarksAreCurrent WitnessesFirst
