\* Two stages in parallel, and a stage that needs both; no faults.
SPECIFICATION Spec
CONSTANTS
    Stages <- JoinStages
    Order <- JoinOrder
    Needs <- JoinNeeds
    If <- JoinIf
    ApprovalStages <- NoGate
    InitialRuns = {"running"}
    OnTimeout <- PauseAll
    Tick = Tick
    MaxTasks = 4
    MaxFaults = 0
INVARIANT OneTaskPerStage
CHECK_DEADLOCK FALSE
