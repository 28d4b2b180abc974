SPECIFICATION Spec
CONSTANTS
    Effects = {"require_human_attention", "retry_dispatch", "cancel_dispatch"}
    Sources = {FALSE}
    MaxCycle = 1
    MaxLaunch = 3
    MaxCrash = 1
    MaxHuman = 0
    MayFinish = FALSE
INVARIANTS
    TypeOK
    OneEffectPerDecision
    EffectFromCurrentGeneration
    InspectionReadOnce
    OwedAcknowledgementHasProcess
CHECK_DEADLOCK FALSE
