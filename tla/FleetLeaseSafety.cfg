SPECIFICATION Spec
CONSTANTS
    w1 = w1
    w2 = w2
    Slots <- TwoSlots
    Workers <- TwoWorkers
    Hint <- NoHints
    CanServe <- AnyEngine
    Outcomes = {"completed", "unreadable"}
    LeaseTicks = 0
    ProvisionTicks = 0
    RunTicks = 0
    CeilingTicks = 1
    MaxIds = 2
    MaxFaults = 1
CHECK_DEADLOCK FALSE
SYMMETRY SameImage
CONSTRAINT Watched
INVARIANTS
    TypeOK
    ReportFromHolder
    HoldersAgree
    StartsAtT0
PROPERTIES
    ReleaseIsWhole
    ImplementsSlotClaims
