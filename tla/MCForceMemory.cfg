CONSTANTS
    movie = movie
    series = series
    bloc = bloc
    patch = patch
    data = data
    NoMutation = NoMutation
    Selected <- MCSelected
    Mutations <- MCMutations
    Owner <- MCOwner
    Scope <- MCScope
    Portfolio = 2
    WorkerCounts = {1, 2}
    MaxVerdicts = 2
    MaxDrifts = 1
    MaxBatches = 2
SPECIFICATION Spec
INVARIANTS TypeOK PlannerRefusesLess WrittenIsSequential
PROPERTIES PlannedIsPublished NoKnownRejectionPublished
CHECK_DEADLOCK FALSE
