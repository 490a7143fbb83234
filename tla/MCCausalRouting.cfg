CONSTANTS
    Sites <- MCSites
    MaxCalls = 4
SPECIFICATION Spec
INVARIANTS TypeOK AuthorityOnlyShrinks ChallengeNeverMutates RepairCallCanSucceed LiveSurvivesRetries
CHECK_DEADLOCK FALSE
