------------------------------ MODULE Backfill ------------------------------
(***************************************************************************)
(* The catch-up of daily_prices when the backend starts: the gap between   *)
(* the stored days and today is found from settled-row counts, and a       *)
(* background thread syncs the whole pool over it, code by code, beside    *)
(* the evening sync of the day. The process may die and start again        *)
(* anywhere. Days are calendar days 1, 2, ...                              *)
(***************************************************************************)
EXTENDS Integers, FiniteSets, FiniteSetsExt

CONSTANTS
    Codes,        \* the latest stock_pool snapshot
    Horizon,      \* bound of the model: days
    Weekend,      \* the days that are no weekdays
    Holidays,     \* weekdays the exchange is closed
    CountWindow,  \* _COUNT_WINDOW
    MaxBackfill,  \* MAX_BACKFILL_DAYS
    Percent,      \* _COMPLETENESS_RATIO in percent
    Breaker,      \* _CIRCUIT_BREAKER
    Lookback,     \* _LOOKBACK_DAYS of the evening sync
    MaxFaults     \* bound of the model: failed fetches and restarts

VARIABLES
    day, late,    \* today, and whether it is _TODAY_ELIGIBLE_HOUR
    settled,      \* codes with a settled bar (pct_change), per day
    catchUp,      \* the startup thread: window, codes left, consecutive failures; whether all
                  \* went well, and whether the evening sync ran meanwhile
    synced,       \* whether the evening sync of today has run
    owed,         \* history: the trading days of the last broken-off run that it was to price
    between,      \* history: an evening sync has come since that run began
    filled,       \* history: the days that runs without any failure have priced
    faults

vars == <<day, late, settled, catchUp, synced, owed, between, filled, faults>>
NoThread == [lo |-> 0, hi |-> 0, left |-> {}, bad |-> 0, clean |-> TRUE, met |-> FALSE]
Trading == (1..Horizon) \ (Weekend \cup Holidays)
\* What the parameters are: day 1 is a trading day with a bar of every code.
Parameters ==
    /\ IsFiniteSet(Codes) /\ Codes # {}
    /\ {Horizon, CountWindow, MaxBackfill, Breaker, Lookback, MaxFaults} \subseteq Nat
    /\ Horizon >= 2 /\ 1 \in Trading /\ Breaker > 0 /\ Percent \in 0..100
Size(d) == Cardinality(settled[d])

\* latest_complete_trade_date
Latest == Max({d \in 1..day : settled[d] # {}})

\* settled_counts: the most recent dates that have settled bars.
SettledDates ==
    LET dates == {d \in 1..day : settled[d] # {}}
    IN  {d \in dates : Cardinality({x \in dates : x > d}) < CountWindow}

Partial ==
    LET baseline == Max({Size(d) : d \in SettledDates})
    IN  {d \in SettledDates : 100 * Size(d) < Percent * baseline}

\* What the baseline takes for granted: no day has more bars than the fullest of the dates it
\* counts, and no day it does not count any more is partial. When a run that broke off has left
\* all the dates it counts equally incomplete, it takes that for the norm.
BaselineTrue ==
    \A d, x \in {e \in 1..day : settled[e] # {}} :
        /\ \E y \in SettledDates : Size(x) <= Size(y)
        /\ d \in SettledDates \/ 100 * Size(d) >= Percent * Size(x)
\* So it is as long as the baseline counts every day since day 1.
AllDaysCounted == Cardinality(Trading) <= CountWindow

\* mutant: only days after the latest one count
DetectGapForward ==
    IF SettledDates = {} THEN {} ELSE {d \in Latest + 1..Min({IF late THEN day ELSE day - 1, Latest + MaxBackfill}) : d \notin Weekend}

\* detect_gap: from the earliest partial day, else from the day after the latest one; without
\* any settled day there is nothing to go by.
DetectGap ==
    IF SettledDates = {} THEN {} ELSE
    LET start == IF Partial = {} THEN Latest + 1 ELSE Min(Partial)
        cap == Min({IF late THEN day ELSE day - 1, Latest + MaxBackfill})
    IN  {d \in start..cap : d \notin Weekend}

-----------------------------------------------------------------------------
\* A week that is complete, up to yesterday.
Init ==
    /\ day = 2 /\ late = FALSE /\ synced = FALSE
    /\ settled = [d \in 1..Horizon |-> IF d = 1 THEN Codes ELSE {}]
    /\ catchUp = NoThread /\ owed = {} /\ between = FALSE /\ filled = {} /\ faults = 0

\* The day goes on: 17:00, then midnight.
Clock ==
    /\ IF late THEN day < Horizon /\ day' = day + 1 /\ late' = FALSE /\ synced' = FALSE
       ELSE late' = TRUE /\ UNCHANGED <<day, synced>>
    /\ UNCHANGED <<settled, catchUp, owed, between, filled, faults>>

\* A return is the change from the row before, so Tencent's first row has none; eastmoney
\* publishes one with every row. The upsert writes either.
Priced(window) == {d \in window : \E v \in window : v < d}
Upserted(window, codes, published) ==
    [d \in 1..Horizon |-> IF d \notin window THEN settled[d]
                          ELSE IF d \in Priced(window) THEN settled[d] \cup codes
                          ELSE (settled[d] \ codes) \cup published]

Window == (catchUp.lo..catchUp.hi) \cap Trading
\* A run that was not over leaves owed what it was to price.
BrokenOff == owed' = Priced(Window) /\ between' = catchUp.met

\* The process starts, for the first time or after it died: backfill_on_startup.
Startup ==
    /\ faults < MaxFaults /\ faults' = faults + 1
    /\ catchUp' = IF DetectGap = {} THEN NoThread
                  ELSE [lo |-> Min(DetectGap), hi |-> Max(DetectGap), left |-> Codes,
                        bad |-> 0, clean |-> TRUE, met |-> FALSE]
    /\ IF catchUp = NoThread THEN owed' = {} /\ between' = FALSE ELSE BrokenOff
    /\ UNCHANGED <<day, late, settled, synced, filled>>

\* mutant: the breaker counts, but never opens
SyncCodeOn(c, outcome) ==
    /\ c \in catchUp.left
    /\ outcome = "error" /\ faults < MaxFaults /\ faults' = faults + 1
    /\ catchUp' = [catchUp EXCEPT !.left = @ \ {c}, !.bad = @ + 1]
    /\ UNCHANGED <<day, late, settled, synced, owed, between, filled>>

\* mutant: one request for the last day of the window only
SyncCodeLastDay(c, outcome) ==
    /\ c \in catchUp.left /\ outcome = "em"
    /\ settled' = [settled EXCEPT ![catchUp.hi] = IF catchUp.hi \in Trading THEN @ \cup {c} ELSE @]
    /\ catchUp' = IF catchUp.left = {c} THEN NoThread ELSE [catchUp EXCEPT !.left = @ \ {c}]
    /\ filled' = IF catchUp.left = {c} THEN filled \cup Priced(Window) ELSE filled
    /\ UNCHANGED <<day, late, synced, owed, between, faults>>

\* A code is synced over the window in one request: rows of either source for its trading
\* days, none (suspended), or an exception.
Answers == {"tencent", "em"}
SyncCode(c, outcome) ==
    LET thread == [catchUp EXCEPT
                      !.left = @ \ {c},
                      !.bad = IF outcome = "error" THEN @ + 1 ELSE 0,
                      !.clean = @ /\ outcome \in Answers]
        over == thread.left = {} \/ thread.bad = Breaker
    IN  /\ c \in catchUp.left
        /\ IF outcome \in Answers THEN UNCHANGED faults
           ELSE faults < MaxFaults /\ faults' = faults + 1
        /\ settled' = IF outcome \notin Answers THEN settled
                      ELSE Upserted(Window, {c}, IF outcome = "em" THEN {c} ELSE {})
        /\ catchUp' = IF over THEN NoThread ELSE thread
        /\ IF ~over THEN UNCHANGED <<owed, between>>
           ELSE IF thread.left # {} THEN BrokenOff ELSE owed' = {} /\ between' = FALSE
        /\ filled' = IF over /\ thread.clean /\ ~thread.met THEN filled \cup Priced(Window) ELSE filled
        /\ UNCHANGED <<day, late, synced>>

\* run_daily_sync_full at 17:30 over its look-back window, which may end early.
Evening == ((day - Lookback)..day) \cap Trading
EveningSync(codes, published) ==
    /\ late /\ day \in Trading /\ ~synced
    /\ synced' = TRUE
    /\ settled' = Upserted(Evening, codes, published)
    /\ filled' = filled \ (Evening \ Priced(Evening))
    /\ between' = TRUE
    /\ catchUp' = [catchUp EXCEPT !.met = catchUp # NoThread]
    /\ UNCHANGED <<day, late, owed, faults>>

Next ==
    \/ Clock \/ Startup
    \/ \E c \in Codes, outcome \in Answers \cup {"empty", "error"} : SyncCode(c, outcome)
    \/ \E codes \in SUBSET Codes : \E published \in SUBSET codes : EveningSync(codes, published)

Spec == Init /\ [][Next]_vars
-----------------------------------------------------------------------------
TypeOK ==
    /\ day \in 1..Horizon /\ late \in BOOLEAN /\ synced \in BOOLEAN
    /\ settled \in [1..Horizon -> SUBSET Codes]
    /\ \A d \in 1..Horizon : d > day \/ d \notin Trading => settled[d] = {}
    /\ catchUp.left \subseteq Codes /\ catchUp.bad < Breaker
    /\ catchUp.lo <= catchUp.hi /\ catchUp.hi <= day
    /\ owed \subseteq Trading /\ between \in BOOLEAN /\ filled \subseteq Trading /\ faults \in 0..MaxFaults

Incomplete == {d \in owed : 100 * Size(d) < Percent * Max({Size(x) : x \in 1..Horizon})}

\* A run that was broken off, by the breaker or by the death of the process, is found
\* again by the next start: what it left incomplete is in the gap, unless an evening sync
\* came in between.
BrokenRunIsFound ==
    (catchUp = NoThread \/ catchUp.left = Codes) /\ ~between =>
        Incomplete \subseteq IF catchUp = NoThread THEN DetectGap ELSE catchUp.lo..catchUp.hi

\* A day that a run without a failure has priced is fetched again only because a day before
\* it is incomplete, until an evening window begins on it.
CleanRunCloses == \A d \in DetectGap \cap filled : \E p \in Partial : p < d

\* The gap detection misses nothing a broken run left, and finds nothing after a clean one.
CatchUpSound == TypeOK /\ BrokenRunIsFound /\ CleanRunCloses

=============================================================================
