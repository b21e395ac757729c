\* Windows overlap and the source serves just the window.
CONSTANTS
    Runs = {r1, r2, r3}
    Codes = {c1, c2}
    Paths <- Legacy
    TradeDays = {0, 1, 2}
    Horizon <- FullCalendar
    Lookback = 1
    Percent = 90
    Deadline = 10
    MaxDay = 2
    MaxFaults = 0
SYMMETRY MCSymmetry
SPECIFICATION Spec
PROPERTY RepeatIsSafe
CHECK_DEADLOCK FALSE
