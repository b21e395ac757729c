\* Two trade days, both write paths, two crashes, bans or errors; the source serves just
\* the window it is asked for.
CONSTANTS
    Runs = {r1, r2, r3}
    Codes = {c1, c2}
    Paths <- Both
    TradeDays = {0, 1, 2}
    Horizon <- FullCalendar
    Lookback = 1
    Percent = 90
    Deadline = 10
    MaxDay = 2
    MaxFaults = 2
SYMMETRY MCSymmetry
SPECIFICATION Spec
INVARIANTS TypeOK NothingForgotten LookbackCovers
CHECK_DEADLOCK FALSE
