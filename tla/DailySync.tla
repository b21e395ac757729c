------------------------------ MODULE DailySync ------------------------------
(***************************************************************************)
(* The 17:30 daily-K sync of the stock pool and its 23:00 compensation:    *)
(* the lazily loaded trading calendar, the list of failed codes that runs  *)
(* share without a lock, the completeness self-check, sources that stop    *)
(* answering, and the deadline of the task runner.                         *)
(*                                                                         *)
(* A run is one execution of either task in a thread of its own; cron and  *)
(* console launch them, after the close, and they overlap.  A run ends     *)
(* before the close of the next day (guards of Launch and Midnight).  Days are weekdays (cron: mon-fri);   *)
(* day 0 is the last trade day of the past, complete in the tables.        *)
(***************************************************************************)
EXTENDS Integers, FiniteSets

CONSTANTS
    Runs,        \* executions
    Codes,       \* the latest stock_pool snapshot
    Paths,       \* write targets in use: "legacy", "v2" or both
    TradeDays,   \* days on which the exchange trades
    Horizon,     \* Horizon[d]: last day of the calendar as published on d
    Lookback,    \* _LOOKBACK_DAYS, in weekdays
    Percent,     \* 100 * _COMPLETENESS_RATIO
    Deadline,    \* codes a run can process within _TASK_DEADLINE_SEC
    MaxDay, MaxFaults \* bounds: days; crashes, errors, misfires and bans

Days == 0..MaxDay

ASSUME ParametersAssumption ==
    /\ Codes # {} /\ IsFiniteSet(Codes) /\ Paths # {} /\ Paths \subseteq {"legacy", "v2"}
    /\ MaxDay \in Nat \ {0} /\ TradeDays \subseteq Days /\ 0 \in TradeDays
    /\ Horizon \in [Days -> Nat \ {0}]
    /\ Lookback \in Nat /\ Percent \in Nat /\ Deadline \in Nat /\ MaxFaults \in Nat

VARIABLES
    today, slot,   \* date.today(), and how many of the two cron times have come
    faults,        \* faults so far
    banned,        \* no source answers: hosts cooling down, soft bans
    calLoaded,     \* _trade_cal_loaded
    calUntil,      \* last day in _trade_cal (0: None)
    failedCodes,   \* _last_run_failed_codes
    stored,        \* stored[p][c]: days whose bar of c is in the table of path p
    settled,       \* settled[c]: days whose bar in daily_prices has a pct_change
    run            \* the executions

vars == <<today, slot, faults, banned, calLoaded, calUntil, failedCodes, stored, settled, run>>
clock    == <<today, slot>>
calendar == <<calLoaded, calUntil>>
tables   == <<stored, settled>>

Kinds == {"main", "retry"}
PCs == {"none", "judge", "calendar", "pool", "sync", "replay", "done"}
Outcomes == {"none", "skipped", "ok", "raised"}

\* kind: the task; day: today as the run read it last; checked: the day that the
\* self-check of a compensation was about; core: the run is inside
\* _do_daily_sync; swallowed: what raised inside a compensation; todo: codes the
\* loop has left; failed: codes it booked as failed; silent: codes no source
\* answered for; spent: codes processed; outcome: what the core returned, before
\* the deadline is looked at.
RunRec == [kind : Kinds, pc : PCs, day : Days, checked : Days, core : BOOLEAN,
           swallowed : {"nothing", "check", "core"},
           todo : SUBSET Codes, failed : SUBSET Codes, silent : SUBSET Codes,
           spent : Nat, outcome : Outcomes]
NoRun  == [kind |-> "main", pc |-> "none", day |-> 0, checked |-> 0, core |-> FALSE,
           swallowed |-> "nothing", todo |-> {}, failed |-> {}, silent |-> {},
           spent |-> 0, outcome |-> "none"]

Init ==
    /\ today = 1 /\ slot = 0 /\ faults = 0 /\ banned = FALSE
    /\ calLoaded = FALSE /\ calUntil = 0 /\ failedCodes = {}
    /\ stored = [p \in Paths |-> [c \in Codes |-> {0}]]
    /\ settled = [c \in Codes |-> {0}]
    /\ run = [r \in Runs |-> NoRun]

Fault == faults < MaxFaults /\ faults' = faults + 1

Set(r, rec) == run' = [run EXCEPT ![r] = rec]

-----------------------------------------------------------------------------
(* Launches, the clock and the outside world.                              *)

\* Both tasks begin with a look at the calendar, the compensation in its
\* self-check.
Launch(k) ==
    /\ \A q \in Runs : run[q].pc \notin {"none", "done"} => run[q].day = today
    /\ \E r \in Runs :
        /\ run[r].pc = "none"
        /\ Set(r, [NoRun EXCEPT !.kind = k, !.pc = "judge", !.day = today, !.checked = today,
                                !.core = k = "main"])

CronFire ==
    /\ slot < 2 /\ slot' = slot + 1
    /\ Launch(IF slot = 0 THEN "main" ELSE "retry")
    /\ UNCHANGED <<today, faults, banned, calendar, failedCodes, tables>>

CronMissed ==
    /\ slot < 2 /\ slot' = slot + 1 /\ Fault
    /\ UNCHANGED <<today, banned, calendar, failedCodes, tables, run>>

ManualRun ==
    /\ \E k \in Kinds : Launch(k)
    /\ UNCHANGED <<clock, faults, banned, calendar, failedCodes, tables>>

Midnight ==
    /\ slot = 2 /\ today < MaxDay
    /\ \A q \in Runs : run[q].pc \notin {"none", "done"} => run[q].day = today
    /\ today' = today + 1 /\ slot' = 0
    /\ UNCHANGED <<faults, banned, calendar, failedCodes, tables, run>>

\* The process dies and starts again: what only its memory held is gone.
Crash ==
    /\ Fault
    /\ run' = [r \in Runs |-> IF run[r].pc = "none" THEN NoRun ELSE [NoRun EXCEPT !.pc = "done"]]
    /\ calLoaded' = FALSE /\ calUntil' = 0 /\ failedCodes' = {}
    /\ UNCHANGED <<clock, banned, tables>>

\* The sources stop answering, and answer again.
Ban ==
    /\ banned' = ~banned
    /\ IF banned THEN UNCHANGED faults ELSE Fault
    /\ UNCHANGED <<clock, calendar, failedCodes, tables, run>>

-----------------------------------------------------------------------------
(* _is_trade_day and _load_trade_calendar.                                 *)

JudgedNoneAsEmpty(d) == d \in TradeDays /\ d <= calUntil \* mutant: no calendar, no trade day
Judged(d) == calUntil = 0 \/ (d \in TradeDays /\ d <= calUntil)

\* The flag is set before the calendar is fetched: whoever asks in between finds None.
FetchCalendar(r) ==
    /\ run[r].pc = "calendar"
    /\ \/ calUntil' = Horizon[today] /\ UNCHANGED faults
       \/ Fault /\ UNCHANGED calUntil
    /\ Set(r, [run[r] EXCEPT !.pc = "judge"])
    /\ UNCHANGED <<clock, banned, calLoaded, failedCodes, tables>>

-----------------------------------------------------------------------------
(* The completeness self-check of the compensation, and what follows.      *)

\* settled_counts, and today's against the best day before.
Count(d) == Cardinality({c \in Codes : d \in settled[c]})

\* mutants: only an empty day is incomplete; a day that is merely no better, too
IncompleteIfEmpty(d) == Count(d) = 0
IncompleteUnlessMore(d) == \E p \in Days : p < d /\ Count(p) > 0 /\ Count(d) <= Count(p)

Incomplete(d) ==
    \E p \in Days : /\ p < d /\ Count(p) > 0
                    /\ 100 * Count(d) < Percent * Count(p)

\* The compensation reaches the replay of the codes in the list.
Replay(rec, list) ==
    IF list = {} THEN [rec EXCEPT !.pc = "done", !.outcome = "ok", !.core = FALSE]
    ELSE [rec EXCEPT !.pc = "replay", !.core = FALSE, !.day = today,
                     !.todo = list, !.failed = {}, !.silent = {}]

\* The core raises: a compensation swallows it and goes on to the replay.
Raise(rec, list) ==
    IF rec.kind = "main" THEN [rec EXCEPT !.pc = "done", !.outcome = "raised"]
    ELSE Replay([rec EXCEPT !.swallowed = "core"], list)

\* What a run does with the answer to "is it a trade day": the core skips the day
\* or reads the pool; the self-check re-runs the core or leaves it to the replay.
AfterJudging(r, isTrade) ==
    IF run[r].core
    THEN IF isTrade
         THEN Set(r, [run[r] EXCEPT !.pc = "pool"]) /\ UNCHANGED failedCodes
         ELSE Set(r, [run[r] EXCEPT !.pc = "done", !.outcome = "skipped"]) /\ failedCodes' = {}
    ELSE /\ Set(r, IF isTrade /\ Incomplete(run[r].day)
                   THEN [run[r] EXCEPT !.core = TRUE, !.day = today]
                   ELSE Replay(run[r], failedCodes))
         /\ UNCHANGED failedCodes

Judge(r) ==
    /\ run[r].pc = "judge"
    /\ IF calLoaded
       THEN AfterJudging(r, Judged(run[r].day)) /\ UNCHANGED calLoaded
       ELSE /\ calLoaded' = TRUE
            /\ Set(r, [run[r] EXCEPT !.pc = "calendar"]) /\ UNCHANGED failedCodes
    /\ UNCHANGED <<clock, faults, banned, calUntil, tables>>

\* The queries of the self-check fail: logged, and on to the replay.
SelfCheckFails(r) ==
    /\ run[r].pc = "judge" /\ ~run[r].core /\ Fault
    /\ Set(r, Replay([run[r] EXCEPT !.swallowed = "check"], failedCodes))
    /\ UNCHANGED <<clock, banned, calendar, failedCodes, tables>>

-----------------------------------------------------------------------------
(* _do_daily_sync past the calendar, and the loop it shares with the replay. *)

\* mutant: a main run starts with an empty list of failed codes
ReadPoolClears(r) ==
    /\ run[r].pc = "pool" /\ failedCodes' = {}
    /\ Set(r, [run[r] EXCEPT !.pc = "sync", !.todo = Codes])
    /\ UNCHANGED <<clock, faults, banned, calendar, tables>>

ReadPool(r) ==
    /\ run[r].pc = "pool"
    /\ \/ UNCHANGED faults
          /\ Set(r, [run[r] EXCEPT !.pc = "sync", !.todo = Codes, !.failed = {}, !.silent = {}])
       \/ Fault /\ Set(r, Raise(run[r], failedCodes))
    /\ UNCHANGED <<clock, banned, calendar, failedCodes, tables>>

\* mutant: the window starts a day late
WindowShort(d) == {w \in TradeDays : d - Lookback < w /\ w <= d}

\* The bars that a source serves for the window of a run of day d: its return is the
\* change from the row before, so the first has none.
Window(d) == {w \in TradeDays : d - Lookback <= w /\ w <= d}
Priced(d) == {w \in Window(d) : \E v \in Window(d) : v < w}

\* sync_one_stock and sync_one_stock_v2: upserts of the window of c on the paths P.
Upsert(c, d, P) ==
    /\ stored' = [p \in Paths |->
                    IF p \in P THEN [stored[p] EXCEPT ![c] = @ \cup Window(d)] ELSE stored[p]]
    /\ settled' = IF "legacy" \in P
                  THEN [settled EXCEPT ![c] = (@ \ Window(d)) \cup Priced(d)] ELSE settled

\* mutant: a code that was tried stays to do when it is the last
ProcessedButLast(rec, cs) ==
    [rec EXCEPT !.todo = IF @ = cs THEN @ ELSE @ \ cs]

Processed(rec, cs) ==
    [rec EXCEPT !.todo = @ \ cs, !.spent = @ + Cardinality(cs)]

\* Each path fails or goes unanswered (fetch_daily_quotes returns [], which no one
\* takes for a failure) independently of the other, and a write may fail once its
\* bars are committed.
SyncCode(r) ==
    /\ run[r].pc \in {"sync", "replay"}
    /\ \E c \in run[r].todo :
          LET rec    == Processed(run[r], {c})
              failed == [rec EXCEPT !.failed = @ \cup {c}]
              silent == [rec EXCEPT !.silent = @ \cup {c}]
          IN  \/ ~banned /\ Upsert(c, rec.day, Paths) /\ Set(r, rec) /\ UNCHANGED faults
              \/ ~banned /\ Fault
                 /\ \E P \in SUBSET Paths :
                       Upsert(c, rec.day, P) /\ (Set(r, failed) \/ (P # Paths /\ Set(r, silent)))
              \/ banned /\ Set(r, silent) /\ UNCHANGED <<faults, tables>>
    /\ UNCHANGED <<clock, banned, calendar, failedCodes>>

\* The session loses its connection: every later write of the loop fails.
LoseConnection(r) ==
    /\ run[r].pc \in {"sync", "replay"} /\ run[r].todo # {} /\ ~banned /\ Fault
    /\ Set(r, [Processed(run[r], run[r].todo) EXCEPT !.failed = @ \cup run[r].todo])
    /\ UNCHANGED <<clock, banned, calendar, failedCodes, tables>>

FinishSync(r) ==
    /\ run[r].pc = "sync" /\ run[r].todo = {}
    /\ failedCodes' = run[r].failed
    /\ Set(r, IF run[r].failed = Codes THEN Raise(run[r], run[r].failed)
              ELSE [run[r] EXCEPT !.pc = "done", !.outcome = "ok"])
    /\ UNCHANGED <<clock, faults, banned, calendar, tables>>

FinishReplay(r) ==
    /\ run[r].pc = "replay" /\ run[r].todo = {}
    /\ failedCodes' = {}
    /\ Set(r, [run[r] EXCEPT !.pc = "done", !.outcome = "ok"])
    /\ UNCHANGED <<clock, faults, banned, calendar, tables>>

Advance(r) ==
    \/ Judge(r) \/ FetchCalendar(r) \/ SelfCheckFails(r) \/ ReadPool(r)
    \/ SyncCode(r) \/ LoseConnection(r) \/ FinishSync(r) \/ FinishReplay(r)

Next ==
    \/ CronFire \/ CronMissed \/ ManualRun \/ Midnight \/ Crash \/ Ban
    \/ \E r \in Runs : Advance(r)

Spec == Init /\ [][Next]_vars

-----------------------------------------------------------------------------
(* Properties.                                                             *)

\* Every variable has its type, a run accounts for a code once, and a bar is in
\* daily_prices before it is settled there.
TypeOK ==
    /\ today \in Days /\ slot \in 0..2 /\ faults \in 0..MaxFaults /\ banned \in BOOLEAN
    /\ calLoaded \in BOOLEAN /\ calUntil \in Nat /\ (calUntil # 0 => calLoaded)
    /\ failedCodes \subseteq Codes /\ run \in [Runs -> RunRec]
    /\ \A r \in Runs : /\ run[r].failed \cap run[r].todo = {}
                       /\ run[r].silent \cap (run[r].todo \cup run[r].failed) = {}
    /\ stored \in [Paths -> [Codes -> SUBSET TradeDays]]
    /\ settled \in [Codes -> SUBSET TradeDays]
    /\ "legacy" \in Paths => \A c \in Codes : settled[c] \subseteq stored["legacy"][c]

\* A run skips no trade day: "a calendar miss only wastes one sync run, while
\* wrongly skipping a real trading day would lose a day of data" (scheduler.py).
SkipsOnlyHolidays ==
    \A r \in Runs : run[r].outcome = "skipped" => run[r].day \notin TradeDays

\* A code that a finished run of today's trade day booked as failed is in the list
\* for 23:00, or another run has stored its bar on every path meanwhile, or got no
\* answer for it, which nobody books: runs that overlap overwrite the list, and no
\* other failure drops out of it before a compensation replays it.
NothingForgotten ==
    \A r \in Runs : \A c \in run[r].failed :
        (/\ run[r].pc = "done" /\ run[r].kind = "main" /\ run[r].day = today
         /\ today \in TradeDays
         /\ ~\E q \in Runs : /\ run[q].kind = "retry" /\ run[q].day = today
                             /\ ~run[q].core /\ run[q].pc \in {"replay", "done"})
        => \/ c \in failedCodes
           \/ \A p \in Paths : today \in stored[p][c]
           \/ \E q \in Runs : run[q].day = today /\ c \in run[q].silent

\* "With no failure record the retry is a no-op and the next 17:30 run still covers
\* everything": whatever was missed on the days before, skipped, failed or
\* killed, a finished core leaves the whole look-back window of every code it
\* did not fail and a source answered for, on every path.
LookbackCovers ==
    \A r \in Runs :
        (run[r].outcome = "ok" /\ run[r].core) =>
            \A c \in Codes \ (run[r].failed \cup run[r].silent) : \A p \in Paths :
                {w \in TradeDays : run[r].day - Lookback <= w /\ w <= run[r].day}
                    \subseteq stored[p][c]

Ends(r) == run[r].pc # "done" /\ run'[r].outcome \in {"ok", "raised"}

\* A compensation that had nothing in its way leaves its trade day no longer short of
\* any earlier one, whatever the 17:30 run lost and although a restart wiped the list.
RetryHeals ==
    [][\A r \in Runs :
          (/\ Ends(r) /\ run[r].kind = "retry" /\ run[r].checked \in TradeDays
           /\ run'[r].failed = {} /\ run'[r].silent = {} /\ run'[r].swallowed = "nothing")
          => ~ \E p \in Days : /\ p < run[r].checked
                                /\ 100 * Count(run[r].checked)' < Percent * Count(p)']_vars

\* The self-check sends a compensation through the whole market only when the day
\* lacks a bar in a table that is written: "today's daily-K row count is far
\* below the recent baseline".
CompleteDayIsLeftAlone ==
    [][\A r \in Runs :
          run[r].kind = "retry" /\ ~run[r].core /\ run'[r].core
          => \E c \in Codes, p \in Paths : run[r].day \notin stored[p][c]]_vars

\* What run_task books for a run: the core's outcome, or failure past the deadline.
BookedFailed(r) ==
    run[r].pc = "done" /\ (run[r].outcome = "raised" \/ run[r].spent > Deadline)

\* "The call is safe to repeat": an upsert never takes the pct_change from a bar
\* that had one.
RepeatIsSafe == [][\A c \in Codes : settled[c] \subseteq settled'[c]]_settled
=============================================================================
