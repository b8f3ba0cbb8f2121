\* Three hosts under every strategy, threshold and width; a second delivery of
\* a serial deployment, by a death of the worker or beside the first one.
SPECIFICATION Spec
CONSTANTS
    N = 3
    MaxThreshold = 2
    MaxWidth = 2
    Scripts = {"restart"}
    MaxRepeats = 1
    MaxMeddling = 1
    RepeatsIn = {"serial"}
    RepeatsAt = {1}
    MeddlesAt = {1}
INVARIANTS
    FailuresBounded
    RolledBack
CHECK_DEADLOCK FALSE
