SPECIFICATION Spec
CONSTANTS
    Execs <- PairExecs
    Workspaces <- PairWorkspaces
    Ws <- PairWs
    Lane <- PairLane
    Hosting = {"sdk", "host"}
    MaxEdits = 3
    MaxCrash = 2
INVARIANTS TypeOK WorkspaceExclusive CallsNeverRepeated
PROPERTIES AcceptedWorkSurvives
CHECK_DEADLOCK FALSE
