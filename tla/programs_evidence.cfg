SPECIFICATION Spec
CONSTANTS
    Milestones <- MixedMilestones
    Mode <- MixedMode
    Deps <- MixedDeps
    Roles <- MixedRoles
    Statuses = {"completed"}
    Scopes = {}
    Verdicts = {"accepted", "rejected"}
    Faults = {"spoil", "cancel", "lost", "adopt", "enqueue"}
    MaxExec = 2
    MaxReview = 1
    MaxRev = 14
    MaxStart = 1
    MaxBundle = 1
    MaxFail = 1
    MaxForeign = 0
INVARIANTS CompletedMeansClosed
CHECK_DEADLOCK FALSE
