SPECIFICATION HSpec
CONSTANTS
    Dispatches = {1}
    InspectionBudget = 2
    ContinuationBudget = 1
    RetryBudget <- OneRetry
    MaxAttempt = 2
    MaxEpoch = 2
    NativeProfile = FALSE
INVARIANTS
    HTypeOK
    RecordedExitsAreReal
    ResultsAreProduced
    OneWorkerPerDispatch
    CancelledWorkIsStopped
PROPERTIES
    Spec
CHECK_DEADLOCK FALSE
