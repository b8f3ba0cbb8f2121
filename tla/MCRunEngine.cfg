\* A chain without faults: safety and the end of the run.
SPECIFICATION FairSpec
CONSTANTS
    Stages <- ChainStages
    Order <- ChainOrder
    Needs <- ChainNeeds
    If <- ChainIf
    ApprovalStages <- TwoGates
    InitialRuns = {"running"}
    OnTimeout <- RejectFirst
    Tick = Tick
    MaxTasks = 4
    MaxFaults = 0
INVARIANTS
    GateHolds
    SuccessJustified
    OneTaskPerStage
PROPERTIES
    PassedNotRepeated
    GateFailsByDecision
    RunEnds
\* A run that has ended leaves nothing to do.
CHECK_DEADLOCK FALSE
