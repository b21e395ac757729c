------------------------------ MODULE MCData ------------------------------
(* Instances of the modules about stored data, one part per behaviour: the    *)
(* parts share no variable, so each is checked as it is on its own. What a    *)
(* part leaves out of sight is 0.                                             *)
EXTENDS Integers, Sequences, TLC

CONSTANTS
    KlineDays, Lookback, Chunk, Moves, MaxEvents, MaxPasses, Jobs, Sources, WeekLen, \* KlineStore
    CatchUpCodes, CatchUpDays, Weekend, Holidays, CountWindow, MaxBackfill, Percent, CatchUpBreaker,
    EveningLookback, MaxFaults, \* Backfill
    RepairCodes, Truth, Shift, MaxBad, MaxJobs, FreezeRun, MisalignRun, Ratio, Buffer,
    MinPeriods, Pad, RepairBreaker, LimitCodes,  \* DataRepair
    FeedCodes, MaxVersion, MaxRuns, MaxNews, RefreshDays, StaleCap, MissingCap, FeedBreaker, \* Feeds
    BoardCodes, BoardDays, BoardClosed, BoardWindow, LowRatio, LowWarn, MissingFail, Factors,
    MaxChecks  \* QualityBoard

VARIABLES
    focus,  \* the part this behaviour is of
    price, paid, bars, factor, job, flawed, passes,  \* KlineStore
    day, late, settled, catchUp, synced, owed, between, filled, faults,  \* Backfill
    frame, bad, task, jobs, mended,  \* DataRepair
    served, stored, seatRows, fin, pool, news, run, runs, last,  \* Feeds
    calendar, kinds, rows, health, checks  \* QualityBoard

TwoCodes == <<"a", "b">>
ThreeCodes == <<"a", "b", "c">>
\* Six days of two stocks.
RepairTruth == [a |-> <<10, 11, 12, 11, 13, 12>>, b |-> <<20, 20, 20, 21, 20, 22>>]

Kline == INSTANCE KlineStore WITH Horizon <- KlineDays
ASSUME KlineAssumption == Kline!Parameters

CatchUp == INSTANCE Backfill WITH
    Codes <- CatchUpCodes, Horizon <- CatchUpDays, Breaker <- CatchUpBreaker,
    Lookback <- EveningLookback
ASSUME CatchUpAssumption == CatchUp!Parameters
\* So is what the theorem about the catch-up asks of the window of its baseline.
ASSUME BaselineAssumption == CatchUp!AllDaysCounted

Repair == INSTANCE DataRepair WITH Codes <- RepairCodes, Breaker <- RepairBreaker, job <- task
ASSUME RepairAssumption == Repair!Parameters
\* So is what the theorem about the repair asks of prices and broken levels.
ASSUME SteadyAssumption == Repair!Steady

Feed == INSTANCE Feeds WITH Codes <- FeedCodes, Breaker <- FeedBreaker
ASSUME FeedAssumption == Feed!Parameters

Board == INSTANCE QualityBoard WITH
    Codes <- BoardCodes, Horizon <- BoardDays, Closed <- BoardClosed,
    CountWindow <- BoardWindow, bars <- kinds
ASSUME BoardAssumption == Board!Parameters

klineVars == <<price, paid, bars, factor, job, flawed, passes>>
catchupVars == <<day, late, settled, catchUp, synced, owed, between, filled, faults>>
repairVars == <<frame, bad, task, jobs, mended>>
feedVars == <<served, stored, seatRows, fin, pool, news, run, runs, last>>
boardVars == <<calendar, kinds, rows, health, checks>>
vars == <<focus, klineVars, catchupVars, repairVars, feedVars, boardVars>>

\* The variables of a part that is not looked at.
KlineOff == price = 0 /\ paid = 0 /\ bars = 0 /\ factor = 0 /\ job = 0 /\ flawed = 0 /\ passes = 0
CatchUpOff == day = 0 /\ late = 0 /\ settled = 0 /\ catchUp = 0 /\ synced = 0 /\ owed = 0 /\ between = 0 /\ filled = 0 /\ faults = 0
RepairOff == frame = 0 /\ bad = 0 /\ task = 0 /\ jobs = 0 /\ mended = 0
FeedOff == served = 0 /\ stored = 0 /\ seatRows = 0 /\ fin = 0 /\ pool = 0 /\ news = 0 /\ run = 0 /\ runs = 0 /\ last = 0
BoardOff == calendar = 0 /\ kinds = 0 /\ rows = 0 /\ health = 0 /\ checks = 0

Init ==
    \/ focus = "kline" /\ Kline!Init /\ CatchUpOff /\ RepairOff /\ FeedOff /\ BoardOff
    \/ focus = "backfill" /\ CatchUp!Init /\ KlineOff /\ RepairOff /\ FeedOff /\ BoardOff
    \/ focus = "repair" /\ Repair!Init /\ KlineOff /\ CatchUpOff /\ FeedOff /\ BoardOff
    \/ focus = "feeds" /\ Feed!Init /\ KlineOff /\ CatchUpOff /\ RepairOff /\ BoardOff
    \/ focus = "board" /\ Board!Init /\ KlineOff /\ CatchUpOff /\ RepairOff /\ FeedOff
Next ==
    \/ focus = "kline" /\ Kline!Next /\ UNCHANGED <<focus, catchupVars, repairVars, feedVars, boardVars>>
    \/ focus = "backfill" /\ CatchUp!Next /\ UNCHANGED <<focus, klineVars, repairVars, feedVars, boardVars>>
    \/ focus = "repair" /\ Repair!Next /\ UNCHANGED <<focus, klineVars, catchupVars, feedVars, boardVars>>
    \/ focus = "feeds" /\ Feed!Next /\ UNCHANGED <<focus, klineVars, catchupVars, repairVars, boardVars>>
    \/ focus = "board" /\ Board!Next /\ UNCHANGED <<focus, klineVars, catchupVars, repairVars, feedVars>>
Spec == Init /\ [][Next]_vars

\* sync_kline: at rest, and after a rebuild whatever came before it, the factors, the prices as
\* they are read and the acceptance check agree with the corporate actions, and a price series
\* read up to a past day does not show a later one.
StoreTrue == focus = "kline" => Kline!StoreTrue

\* backfill: a broken-off catch-up is found again by the next start, a clean one leaves no
\* day incomplete that it was to price.
CatchUpSound == focus = "backfill" => CatchUp!CatchUpSound

\* repair_daily, _check_adjustment_break: detectors, patrol and repair tell dirty bars from
\* true ones, and what was repaired is true.
RepairSound == focus = "repair" => Repair!RepairSound

\* The keyed feeds, the finance sync, the pool snapshots and the news: what is stored is what
\* the sources served, and one failing item costs nothing but itself.
FeedsSound == focus = "feeds" => Feed!FeedsSound

\* quality_service, factor_health_service: nothing unmeasured is green, and the factor rows
\* are those of one check.
BoardSound == focus = "board" => Board!BoardSound

\* What no step may take away again: a return within a window, an amount, the score of a news item,
\* the alarm of a truncated day, the rows of the other job.
StoresKeep ==
    [][/\ focus = "kline" => Kline!ReturnsKept
       /\ focus = "repair" => Repair!AmountsGrow
       /\ focus = "feeds" => Feed!ScoresSurvive
       /\ focus = "board" => Board!TruncationFails /\ Board!OthersRowsKept]_vars

================================================================================
