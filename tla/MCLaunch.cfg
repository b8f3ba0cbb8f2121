\* Two concurrent calls and their tasks, with one fault.
SPECIFICATION FairSpec
CONSTANTS
    c1 = c1
    c2 = c2
    Seed = Seed
    Nobody = Nobody
    Calls <- MCCalls
    Ops <- PairedOps
    StageCount = 2
    Backing = {TRUE, FALSE}
    MaxTasks = 2
    MaxRetry = 2
    MaxFaults = 1
INVARIANTS
    NumbersDense
    SuccessCheckedOut
PROPERTIES
    SaveIsNewest
    CheckedOutRunEnds
\* The calls and the tasks come to an end.
CHECK_DEADLOCK FALSE
