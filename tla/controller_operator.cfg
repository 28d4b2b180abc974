SPECIFICATION Spec
CONSTANTS
    Effects = {"acknowledge_only", "rearm_checkpoint"}
    Sources = {TRUE}
    MaxCycle = 1
    MaxLaunch = 1
    MaxCrash = 0
    MaxHuman = 1
    MayFinish = TRUE
PROPERTIES
    CommittedEffectIsFinal
    HumanClaimIsRespected
CHECK_DEADLOCK FALSE
