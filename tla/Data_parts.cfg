SPECIFICATION Spec
CONSTANTS
    KlineDays = 4
    Lookback = 2
    Chunk = 2
    Moves = {0, 1}
    MaxEvents = 2
    MaxPasses = 2
    Jobs = {"daily", "rebuild"}
    Sources = {"tencent", "em", "banned"}
    WeekLen = 2
    CatchUpCodes = {"a", "b", "c"}
    CatchUpDays = 5
    Weekend = {4}
    Holidays = {3}
    CountWindow = 6
    MaxBackfill = 4
    Percent = 90
    CatchUpBreaker = 2
    EveningLookback = 3
    MaxFaults = 4
    RepairCodes <- TwoCodes
    Truth <- RepairTruth
    Shift = 10
    MaxBad = 2
    MaxJobs = 2
    FreezeRun = 3
    MisalignRun = 2
    Ratio = 5
    Buffer = 5
    MinPeriods = 2
    Pad = 1
    RepairBreaker = 2
    LimitCodes = 1
    FeedCodes <- ThreeCodes
    MaxVersion = 3
    MaxRuns = 2
    MaxNews = 2
    RefreshDays = 1
    StaleCap = 1
    MissingCap = 1
    FeedBreaker = 2
    BoardCodes = {"a", "b"}
    BoardDays = 3
    BoardClosed = {}
    BoardWindow = 4
    LowRatio = 60
    LowWarn = 90
    MissingFail = 40
    Factors = {"f"}
    MaxChecks = 2
INVARIANTS StoreTrue CatchUpSound RepairSound FeedsSound BoardSound
PROPERTIES StoresKeep
CHECK_DEADLOCK FALSE
