SPECIFICATION MCSpec
CONSTANTS
    Searches = {"s1", "s2"}
    Settings <- AllSettings
    MaxConcurrent = 1
    Viewers = {"u1", "u2"}
    Panels = {"p1"}
    Visits <- AllVisits
    Lookback = 3
    BreachSamples = 2
    MaxPolls = 4
    Situations <- AllSituations
    NoValue = NoValue
    SubBits = 2
    MaxShift = 4
    Recorders = {"w1", "w2"}
    Latencies = {0, 3, 9, 11, 32, 39, 79}
    MaxValues = 4
    Exports <- AllExports
    HandWritten <- ByHand
    Selections <- AllSelections
    WritingLines = {"collect"}
    TargetTexts <- TextsThere
    OneMinute = 3
    OneHour = 12
    OneDay = 48
    Moments = {400, 431, 436}
    Jitters = {0, 4}
    NoName = NoName
    NoFile = NoFile
    NoScenario = NoScenario
    InProcess = {"r1"}
    Fleets = {"r2"}
    Peers = {"i1", "i2"}
    Buckets = {"b1"}
    Occasions <- AllOccasions
    Orders <- AllOrders
    Density <- Dense
    Totals = {0, 4, 9}
    NoOrder = NoOrder
    RunIds = {"r1", "r2"}
    SlotIds = {0, 1}
    StepIds = {"s1", "s2"}
    Endings <- AllEndings
    Gates <- AllGates
    Lost = Lost
    Whole = Whole
    Unknown = Unknown
    ScenarioNames = {"a", "b", "c"}
    Versions = {"v0", "v1", "v2", "bad"}
    Uploads <- AllArchives
    Unloadable = {"bad"}
    Stories <- AllStories
    MaxMembers = 2
    MaxBytes = 2
    NoCopy = NoCopy
    NoStory = NoStory
CHECK_DEADLOCK FALSE
INVARIANTS
    OneLoginPerRefusal
    SearchesAreSettled
    OneLoginPerSession
    StopIsEarned
    FleetPercentiles
    ExportIsTheSameLoad
    WritersNeedLeave
    LockIsLetGo
    ProvenanceIsHonest
    LoadIsDealtOut
    VerdictIsEarned
    HistoryFollows
    RemoteCopiesFollow
