SPECIFICATION FairHSpec
CONSTANTS
    Dispatches = {1, 2}
    InspectionBudget = 1
    ContinuationBudget = 0
    RetryBudget <- NoRetries
    MaxAttempt = 1
    MaxEpoch = 1
    NativeProfile = TRUE
PROPERTIES
    DeadChildrenAreReaped
    ServiceResumes
CHECK_DEADLOCK FALSE
