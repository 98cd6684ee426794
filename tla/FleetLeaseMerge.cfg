SPECIFICATION Spec
CONSTANTS
    w1 = w1
    w2 = w2
    Slots <- TwoSlots
    Workers <- TwoWorkers
    Hint <- NoHints
    CanServe <- AnyEngine
    Outcomes = {"completed"}
    LeaseTicks = 0
    ProvisionTicks = 0
    RunTicks = 0
    CeilingTicks = 1
    MaxIds = 2
    MaxFaults = 0
CHECK_DEADLOCK FALSE
INVARIANTS
    MergeCoversEverySlot
