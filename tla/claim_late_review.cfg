SPECIFICATION Spec
CONSTANTS
    Modes <- BothModes
    Statuses = {"completed", "needs_decision"}
    Blockers = {"none", "decision"}
    MaxHead = 2
    MaxEdits = 0
    MaxCrash = 0
    MaxLost = 0
PROPERTIES
    GreenReachesArchitecture
CHECK_DEADLOCK FALSE
