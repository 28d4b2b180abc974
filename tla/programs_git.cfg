SPECIFICATION Spec
CONSTANTS
    Milestones <- ChainMilestones
    Mode <- ChainMode
    Deps <- ChainDeps
    Roles <- ChainRoles
    Statuses = {"completed"}
    Scopes = {}
    Verdicts = {"accepted", "rejected"}
    Faults = {"conflict", "dirty", "lost", "enqueue", "cancel"}
    MaxExec = 2
    MaxReview = 2
    MaxRev = 14
    MaxStart = 1
    MaxBundle = 1
    MaxFail = 1
    MaxForeign = 1
INVARIANTS TypeOK LedgerTrunkIsGit OneExecutor FailuresReachHuman
PROPERTIES ImplementsReviewedTrunk EffectsSettle
CHECK_DEADLOCK FALSE
