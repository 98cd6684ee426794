SPECIFICATION Spec
CONSTANTS
    w1 = w1
    w2 = w2
    Slots <- TwoSlots
    Workers <- TwoWorkers
    MaxIds = 2
    MaxLapses = 1
    MaxInFlight = 2
CHECK_DEADLOCK FALSE
SYMMETRY SameImage
CONSTRAINT Crowded
INVARIANTS
    ClaimsAreExclusive
    ReadyFleetIsReleased
