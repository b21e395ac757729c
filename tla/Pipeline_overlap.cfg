\* One trade day: cron, retry and manual executions overlap, with a crash or a database error
\* anywhere, then the patrol.
CONSTANTS
    Ids = {i1, i2, i3, i4}
    Steps <- MCSteps
    Critical <- MCCritical
    Last = "paper_tick"
    Tasks <- MCTasks
    StepOf <- MCStepOf
    DataTasks <- MCData
    LongTasks <- MCLong
    Cron <- TwoCron
    TradeDays = {1}
    RetryMax = 1
    MaxDay = 1
    MaxManual = 1
    MaxFaults = 1
    NoTask = NoTask
SYMMETRY MCSymmetry
SPECIFICATION Spec
INVARIANTS TypeOK NoSilentFailure RunningHasOwner AlertsBacked RetriesBounded VerdictSound StepMatchesLog
PROPERTIES GreenReopenedByStart
CHECK_DEADLOCK FALSE
