SPECIFICATION Spec
CONSTANTS
    Dispatches = {1}
    InspectionBudget = 2
    ContinuationBudget = 1
    RetryBudget <- OneRetry
    MaxAttempt = 2
    MaxEpoch = 2
INVARIANTS
    TypeOK
    RowsValid
    RunningWorkerIsOwned
PROPERTIES
    TerminalRowsAreFinal
    ClaimsFollowExit
    AttemptsArePaidFor
CHECK_DEADLOCK FALSE
