SPECIFICATION Spec
CONSTANTS
    Modes <- BothModes
    Statuses = {"completed"}
    Blockers = {"none", "decision"}
    MaxHead = 2
    MaxEdits = 1
    MaxCrash = 1
    MaxLost = 1
INVARIANTS
    TypeOK
    AcceptedIsReviewed
    ArchitectureIsLate
PROPERTIES
    ReviewsConclude
CHECK_DEADLOCK FALSE
