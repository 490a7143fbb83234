SPECIFICATION Spec
CONSTANTS
    ScopeOrder <- BlocThenPatch
    Mutations <- MCMutations
    Offers <- MCOffers
    Blockable <- MCBlockable
    Executed <- MCExecuted
    Evidence <- MemoryEvidence
    ChallengeSeen = FALSE
    Rejections <- MCRejections
    MaxHypotheses = 4
    Budget = 120
    TimeoutSeconds = 48
    Durations <- UpToAMinute
    None = None
    b1 = b1
    b2 = b2
    p1 = p1
    d1 = d1
INVARIANTS TypeOK DistinctCandidates NegativeMemoryRespected WithinBudget EveryCandidateStarts
PROPERTIES RejectionsReachNext
