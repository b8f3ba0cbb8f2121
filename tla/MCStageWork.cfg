\* A producer, a parallel stage and a consumer, delivered twice, with one fault.
SPECIFICATION Spec
CONSTANTS
    Stages <- MCStages
    Needs <- MCNeeds
    Programs <- MCPrograms
    Names = {"dist", "site"}
    Plugins <- MCPlugins
    Versions <- MCVersions
    MaxDeliveries = 2
    MaxFaults = 1
INVARIANTS
    OutputsKept
    SuccessRows
    ArtifactWhole
CHECK_DEADLOCK FALSE
