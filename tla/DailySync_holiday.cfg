\* A holiday and two trade days after the past one; one code of three may be missing.
CONSTANTS
    Runs = {r1, r2, r3}
    Codes = {c1, c2, c3}
    Paths <- Legacy
    TradeDays = {0, 2, 3}
    Horizon <- FullCalendar
    Lookback = 3
    Percent = 60
    Deadline = 10
    MaxDay = 3
    MaxFaults = 2
SYMMETRY MCSymmetry
SPECIFICATION Spec
INVARIANT SkipsOnlyHolidays
PROPERTIES RetryHeals CompleteDayIsLeftAlone
CHECK_DEADLOCK FALSE
