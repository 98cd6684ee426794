SPECIFICATION Spec
CONSTANTS
    a1 = a1
    a2 = a2
    f1 = f1
    f2 = f2
    Runs <- FourRuns
    Fleet <- TwoFleets
    Groups <- TwoGroups
    Max = 1
    MaxCrashes = 1
CHECK_DEADLOCK FALSE
SYMMETRY Alike
INVARIANTS
    LeftBehindAreSwept
