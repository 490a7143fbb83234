SPECIFICATION Spec
CONSTANTS
    ScopeOrder <- BlocOnly
    Mutations <- MCMutations
    Offers <- MCOffers
    Blockable <- MCBlockable
    Executed <- MCExecuted
    Evidence <- ReplayEvidence
    ChallengeSeen = TRUE
    Rejections <- MCRejections
    MaxHypotheses = 2
    Budget = 30
    TimeoutSeconds = 48
    Durations <- NoDelayOrHalfMinute
    None = None
    b1 = b1
    b2 = b2
    p1 = p1
    d1 = d1
INVARIANTS
    CausalLayerKept
