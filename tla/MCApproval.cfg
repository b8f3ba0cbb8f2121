\* Two gates with every on_timeout, concurrent votes, a cancel and one crash.
SPECIFICATION FairSpec
CONSTANTS
    Gates <- BothGates
    Users <- MCUsers
    Approvers <- QaOpen
    Anyone = Anyone
    Mode <- MCMode
    OnTimeouts <- MCOnTimeouts
    Nobody = Nobody
    MaxCrashes = 1
INVARIANTS
    ApprovedJustified
    LastVoteCounts
PROPERTIES
    VoteDecisionFinal
    ApprovedResumes
    TimeoutDecides
\* The run may end with nothing left to do.
CHECK_DEADLOCK FALSE
