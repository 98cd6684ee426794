SPECIFICATION MCSpec
CONSTANTS
    Plans <- AllPlans
    Tasks = {1, 2}
    TickS = 1
    Minute = 4
    MaxPause = 1
    Catchup = 1
    DrainBudget = 1
    MinSamples = 1
    RefusedFor = 1
    RefusedCount = 2
    LagLimit = 5
    Horizon = 30
    Slots = {0, 1}
    Streams <- AllStreams
    TargetNames = {"t1"}
    Labels = {"l1"}
    Versions = {"v1", "v2"}
    Uids = {"u1", "u2"}
    Missing404 = Missing404
    Sources <- AllSources
    MaxRecords = 3
    RetryAttempts = 2
    FleetLaunches <- AllLaunches
    NoFleet = NoFleet
CHECK_DEADLOCK FALSE
INVARIANTS
    DeliversItsDuration
    ArrivalsAreAccounted
    SeriesAddsUp
    BootRowsAreKept
    RecordsAreCounted
    NothingIsForgotten
PROPERTIES
    RunEnds
    ControlReachesWorkers
    CopyCatchesUp
