\* A pipeline listed in the order of its needs: safety, refinement, liveness.
SPECIFICATION SchedulerFairSpec
CONSTANTS
    Stages <- MCStages
    Order <- TopologicalOrder
    Needs <- MCNeeds
    If <- MCIf
    ApprovalStages <- MCApproval
INVARIANTS
    NeedsSettled
    StartAllowed
    SkipJustified
PROPERTIES
    ImplementsLifecycle
    EventuallyDone
\* The loop stops when every stage is done.
CHECK_DEADLOCK FALSE
