SPECIFICATION FairSpec
CONSTANTS
    q1 = q1
    q2 = q2
    Requests <- TwoRequests
CHECK_DEADLOCK FALSE
INVARIANTS
    StopReachesLoad
PROPERTIES
    OutcomeIsKept
    StopEndsRun
