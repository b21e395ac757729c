\* Fair threads, no fault: a failed step comes to light, the long-task queue drains.
CONSTANTS
    Ids = {i1, i2, i3, i4}
    Steps <- MCLong
    Critical <- MCLong
    Last = "paper_tick"
    Tasks <- MCLong
    StepOf <- LongStepOf
    DataTasks = {}
    LongTasks <- MCLong
    Cron <- LongCron
    TradeDays = {1}
    RetryMax = 1
    MaxDay = 1
    MaxManual = 2
    MaxFaults = 0
    NoTask = NoTask
SPECIFICATION FairSpec
PROPERTIES FailuresSurface LogsClose
CHECK_DEADLOCK FALSE
