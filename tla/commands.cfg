SPECIFICATION Spec
CONSTANTS
    Steers = {"steer"}
    Interrupts = {"interrupt"}
    MaxTurns = 2
    MaxAttempts = 2
    MaxCrash = 1
    MaxLost = 1
INVARIANTS
    TypeOK
    CallsAreExact
    VerdictsAreEarned
    ToldIsTrue
CHECK_DEADLOCK FALSE
