\* Two trade days and a holiday: executions and retries cross midnight.
CONSTANTS
    Ids = {i1, i2, i3}
    Steps <- MCSteps
    Critical <- MCCritical
    Last = "paper_tick"
    Tasks <- MCTasks
    StepOf <- MCStepOf
    DataTasks <- MCData
    LongTasks <- MCLong
    Cron <- OneCron
    TradeDays = {1, 2}
    RetryMax = 1
    MaxDay = 3
    MaxManual = 0
    MaxFaults = 1
    NoTask = NoTask
SYMMETRY MCSymmetry
SPECIFICATION Spec
INVARIANTS Coherent
PROPERTIES BoardSpec
CHECK_DEADLOCK FALSE
