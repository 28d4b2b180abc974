SPECIFICATION Spec
CONSTANTS
    Modes <- OneMode
    Statuses = {"completed", "needs_decision"}
    Blockers = {"none", "decision"}
    MaxHead = 2
    MaxEdits = 0
    MaxCrash = 0
    MaxLost = 0
PROPERTIES
    RepeatedReviewChangesNothing
CHECK_DEADLOCK FALSE
