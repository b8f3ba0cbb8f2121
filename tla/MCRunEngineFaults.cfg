\* A test runs beside the gate, in a running run or a pending one; two faults.
SPECIFICATION Spec
CONSTANTS
    Stages <- AsideStages
    Order <- AsideOrder
    Needs <- AsideNeeds
    If <- AsideIf
    ApprovalStages <- TheGate
    InitialRuns = {"pending", "running"}
    OnTimeout <- PauseAll
    Tick = Tick
    MaxTasks = 2
    MaxFaults = 2
INVARIANTS
    GateHolds
\* A run that has ended leaves nothing to do.
CHECK_DEADLOCK FALSE
