SPECIFICATION FairSpec
CONSTANTS
    w1 = w1
    w2 = w2
    Slots <- TwoSlots
    Workers <- OneWorker
    Hint <- HintTop
    CanServe <- AnyEngine
    Outcomes = {"completed", "failed"}
    LeaseTicks = 0
    ProvisionTicks = 0
    RunTicks = 0
    CeilingTicks = 1
    MaxIds = 3
    MaxFaults = 2
CHECK_DEADLOCK FALSE
INVARIANTS
    ClaimingHoldsOne
PROPERTIES
    ReleaseReaches
    FleetFinishes
