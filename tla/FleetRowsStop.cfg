SPECIFICATION Spec
CONSTANTS
    w1 = w1
    w2 = w2
    Slots <- OneSlot
    Workers <- TwoWorkers
    MaxIds = 1
    MaxLapses = 1
    MaxInFlight = 2
CHECK_DEADLOCK FALSE
SYMMETRY SameImage
CONSTRAINT Unfinished
PROPERTIES
    StopSticks
