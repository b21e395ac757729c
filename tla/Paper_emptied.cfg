SPECIFICATION Spec
CONSTANTS
    s1 = s1
    s2 = s2
    s3 = s3
    s4 = s4
    Codes = {s1, s2, s3, s4}
    TopN = 2
    Lot = 2
    Slip = 1
    MinFee = 1
    Rate = 10
    Duty = 10
    InitialCash = 60
    Horizon = 6
    WeekLen = 2
    Calendars <- MCNoHoliday
    Markets <- MCMarkets
    Closed <- MCClosed
    Calm <- MCCalm
    Unusual = 1
    PauseDays = {}
    Rankings <- MCRankings
    Drifts <- MCDrifts
    Orderly = TRUE
INVARIANTS SharesAreTrades
