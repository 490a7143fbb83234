SPECIFICATION Spec
CONSTANTS
    w1 = w1
    w2 = w2
    Workers = {w1, w2}
    NoWorker = NoWorker
    Maximum <- MCMaximum
    Ceiling = 8
    InRate = 1
    OutRate = 2
    Overhead = 1
    Requests <- MCRequests
    Usages <- MCUsages
    MaxCalls = 2
INVARIANTS
    TypeOK
    WithinCeiling
    BilledIsCovered
    PendingCoversCalls
    CountersAgree
PROPERTIES
    AtomicSpec
CHECK_DEADLOCK FALSE
