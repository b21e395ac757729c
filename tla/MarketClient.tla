---------------------------- MODULE MarketClient ----------------------------
(***************************************************************************)
(* The market-data client of akshare_client.py as its calling threads see  *)
(* it: every fetch walks a chain of sources; Tencent hosts are paced under *)
(* one lock and cool down after a 501 challenge, eastmoney calls are       *)
(* throttled without a lock and run on a small pool under a wall-clock     *)
(* deadline, abandoned calls keeping their worker until they end.          *)
(*                                                                         *)
(* Time is relative: timers count down, ages saturate.                      *)
(***************************************************************************)
EXTENDS Integers, Sequences, FiniteSets

CONSTANTS
    Threads,        \* sync jobs, admin tasks and requests that fetch
    Fetches,        \* the kinds of fetch each of them makes
    MinInterval, Jitter, \* _TENCENT_MIN_INTERVAL_SEC, _TENCENT_JITTER_SEC
    Cooldown,       \* _TENCENT_WAF_COOLDOWN_SEC
    MinCall,        \* _MIN_INTERVAL_SEC of _throttle
    Timeout,        \* _FETCH_TIMEOUT_SEC
    Workers,        \* max_workers of the timeout executor
    Attempts, Wait, \* tenacity: stop_after_attempt, wait between attempts
    Pages,          \* pages of the Tencent board rank that hold the market
    OrphanCap       \* bound of the model: abandoned calls counted in the queue

Hosts == {"alt", "classic", "minute"}
Free == "free"
Orphan == "orphan"

(* The fetchers: the sources in the order they are asked; how many calls a     *)
(* source takes; whether failures of akshare are raised; how often the whole   *)
(* is tried; whether the pace of eastmoney is kept for every call.             *)
Fetcher(sources, calls, raises, attempts, each) ==
    [sources |-> sources, calls |-> calls, raises |-> raises, attempts |-> attempts, each |-> each]

\* _fetch_daily_quotes_tencent: both hosts serve the newest bars, cut to the window.
DailyHosts == <<"alt", "classic">>
\* fetch_daily_quotes, _raw, _hfq: the adjust basis makes no difference here. Their tenacity
\* has nothing to retry, as every source swallows its failures.
Quotes == Fetcher(Append(DailyHosts, "em"), 1, FALSE, 1, TRUE)
RawQuotes == Quotes
HfqQuotes == Quotes
\* fetch_minute_quotes: eastmoney when Tencent has nothing.
Minutes == Fetcher(<<"minute", "em">>, 1, FALSE, 1, TRUE)
\* fetch_index_quotes has no second source.
Index == Fetcher(<<"classic">>, 1, FALSE, 1, TRUE)
\* fetch_spot_table: one call to eastmoney, then the board rank page by page.
Spot == Fetcher(<<"em", "alt">>, Pages, FALSE, 1, TRUE)
\* fetch_financial_abstract, as fetch_dragon_tiger, fetch_sector_list, the flows and news.
Table == Fetcher(<<"em">>, 1, TRUE, Attempts, TRUE)
\* fetch_dragon_tiger_seats: the buying and the selling side after one pause.
Seats == Fetcher(<<"em">>, 2, TRUE, Attempts, FALSE)
\* fetch_north_flow: Shanghai, then Shenzhen.
NorthFlow == Fetcher(<<"em">>, 2, TRUE, Attempts, TRUE)
\* fetch_trade_calendar is not tried again.
TradeCalendar == Fetcher(<<"em">>, 1, TRUE, 1, TRUE)

Fetchers == [quotes |-> Quotes, raw |-> RawQuotes, hfq |-> HfqQuotes, minutes |-> Minutes,
             index |-> Index, spot |-> Spot, table |-> Table, seats |-> Seats,
             north |-> NorthFlow, calendar |-> TradeCalendar]
Kinds == DOMAIN Fetchers

ASSUME ParametersAssumption ==
    /\ Free \notin Threads /\ Orphan \notin Threads
    /\ Fetches \in [Threads -> (SUBSET Kinds) \ {{}}]
    /\ MinInterval \in Nat /\ Jitter \in Nat /\ MinCall \in Nat /\ Timeout \in Nat /\ Wait \in Nat
    /\ Cooldown \in Nat \ {0} /\ Workers \in Nat \ {0} /\ OrphanCap \in Nat
    /\ Attempts \in Nat \ {0} /\ Pages \in Nat \ {0}

VARIABLES
    pc, kind, src, tries, page,  \* per thread: step, fetch, position in its calls
    timer,          \* per thread: time left of its sleep or deadline
    result,         \* per thread: what its last fetch returned
    lock, since,    \* _tencent_pace_lock, age of _tencent_last_ts
    cooling,        \* _waf_cooldown_until: time left per host
    asked,          \* history: requests a thread sent a host while it cooled down
    sinceCall,      \* age of _last_call_ts
    queue, running, zombies \* the executor: waiting calls, live calls, abandoned ones

threadVars == <<pc, kind, src, tries, page, timer, result>>
paceVars == <<lock, since, cooling, asked>>
poolVars == <<sinceCall, queue, running, zombies>>
vars == <<pc, kind, src, tries, page, timer, result, lock, since, cooling, asked,
          sinceCall, queue, running, zombies>>

Fetch(t) == Fetchers[kind[t]]
Source(t) == Fetch(t).sources[src[t]]
Larger(x, y) == IF x >= y THEN x ELSE y
Least(x, y) == IF x <= y THEN x ELSE y
Left(x) == IF x > 0 THEN x ELSE 0
Entry(source) == IF source = "em" THEN "throttle" ELSE "gate"
Goto(t, step) == pc' = [pc EXCEPT ![t] = step]

Init ==
    /\ pc = [t \in Threads |-> "idle"]
    /\ kind = [t \in Threads |-> CHOOSE k \in Fetches[t] : TRUE]
    /\ src = [t \in Threads |-> 1] /\ tries = [t \in Threads |-> 1]
    /\ page = [t \in Threads |-> 1] /\ timer = [t \in Threads |-> 0]
    /\ result = [t \in Threads |-> "none"]
    /\ lock = Free /\ since = MinInterval /\ cooling = [h \in Hosts |-> 0]
    /\ asked = [t \in Threads |-> [h \in Hosts |-> 0]]
    /\ sinceCall = MinCall /\ queue = <<>> /\ running = {} /\ zombies = 0

Begin(t, k) ==
    /\ pc[t] = "idle"
    /\ kind' = [kind EXCEPT ![t] = k]
    /\ src' = [src EXCEPT ![t] = 1] /\ tries' = [tries EXCEPT ![t] = 1]
    /\ page' = [page EXCEPT ![t] = 1]
    /\ Goto(t, Entry(Fetchers[k].sources[1]))
    /\ UNCHANGED <<timer, result, paceVars, poolVars>>

-----------------------------------------------------------------------------
\* The fetch ends with an answer for its caller.
Return(t, res) ==
    /\ Goto(t, "idle")
    /\ result' = [result EXCEPT ![t] = res]
    /\ timer' = [timer EXCEPT ![t] = 0]
    /\ UNCHANGED <<kind, src, tries, page>>

\* No more calls: the answer is what the earlier ones brought.
Ended(t) == Return(t, IF page[t] = 1 THEN "empty" ELSE "part")

\* No rows from this source: the next one, else the answer so far.
FallThrough(t) ==
    IF src[t] = Len(Fetch(t).sources) THEN Ended(t)
    ELSE /\ src' = [src EXCEPT ![t] = @ + 1]
         /\ Goto(t, Entry(Fetch(t).sources[src[t] + 1]))
         /\ timer' = [timer EXCEPT ![t] = 0]
         /\ UNCHANGED <<kind, tries, page, result>>

\* _fetch_spot_table_tencent: page by page until one does not come.
Paged(t) == kind[t] = "spot" /\ Source(t) # "em"

\* The next call of the same source.
NextCall(t) ==
    /\ page' = [page EXCEPT ![t] = @ + 1]
    /\ timer' = [timer EXCEPT ![t] = 0]
    /\ Goto(t, IF Fetch(t).each THEN Entry(Source(t)) ELSE "resubmit")
    /\ UNCHANGED <<kind, src, tries, result>>
More(t) == page[t] < Fetch(t).calls /\ (Paged(t) \/ Fetch(t).raises)

\* An empty call: of several tables the next one, of the rank its end, else the next source.
NoRows(t) == IF Paged(t) THEN Ended(t) ELSE IF More(t) THEN NextCall(t) ELSE FallThrough(t)

\* Rows: the next call, or the answer.
Rows(t) == IF More(t) THEN NextCall(t) ELSE Return(t, "rows")

-----------------------------------------------------------------------------
\* mutant: the lock covers the check only, the sleep is outside it
GateThenSleep(t) ==
    /\ pc[t] = "gate" /\ lock = Free
    /\ IF cooling[Source(t)] > 0 THEN NoRows(t) /\ UNCHANGED paceVars
       ELSE /\ \E j \in 0..Jitter :
                  timer' = [timer EXCEPT ![t] = Left(MinInterval + j - since)]
            /\ Goto(t, "pacing")
            /\ UNCHANGED <<kind, src, tries, page, result, paceVars>>
    /\ UNCHANGED poolVars

\* mutant: the cooldown is not looked at
GateBlind(t) ==
    /\ pc[t] = "gate" /\ lock = Free
    /\ lock' = t
    /\ timer' = [timer EXCEPT ![t] = Left(MinInterval - since)]
    /\ Goto(t, "pacing")
    /\ UNCHANGED <<kind, src, tries, page, result, since, cooling, asked, poolVars>>

\* _tencent_get: under the lock, a cooling host is refused; else sleep out the interval.
Gate(t) ==
    /\ pc[t] = "gate" /\ lock = Free
    /\ IF cooling[Source(t)] > 0 THEN NoRows(t) /\ UNCHANGED paceVars
       ELSE /\ lock' = t
            /\ \E j \in 0..Jitter :
                  timer' = [timer EXCEPT ![t] = Left(MinInterval + j - since)]
            /\ Goto(t, "pacing")
            /\ UNCHANGED <<kind, src, tries, page, result, since, cooling, asked>>
    /\ UNCHANGED poolVars

\* The sleep is over: the time is stamped and the lock released.
Stamp(t) ==
    /\ pc[t] = "pacing" /\ timer[t] = 0
    /\ since' = 0 /\ lock' = Free
    /\ Goto(t, "send")
    /\ UNCHANGED <<kind, src, tries, page, timer, result, cooling, asked, poolVars>>

\* The request leaves, outside the lock.
Send(t) ==
    /\ pc[t] = "send"
    /\ asked' = IF cooling[Source(t)] = 0 THEN asked
                ELSE [asked EXCEPT ![t][Source(t)] = Least(@ + 1, 2)]
    /\ Goto(t, "await")
    /\ UNCHANGED <<kind, src, tries, page, timer, result, lock, since, cooling, poolVars>>

\* The host answers: rows, a valid empty answer, a 501 challenge, or a failure.
Answer(t, answer) ==
    /\ pc[t] = "await"
    /\ IF answer = "rows" THEN Rows(t) ELSE NoRows(t)
    /\ cooling' = IF answer = "challenge" THEN [cooling EXCEPT ![Source(t)] = Cooldown] ELSE cooling
    /\ UNCHANGED <<lock, since, asked, poolVars>>

-----------------------------------------------------------------------------
\* _throttle, first half: how long to sleep, from an age read without a lock.
Throttle(t) ==
    /\ pc[t] = "throttle"
    /\ timer' = [timer EXCEPT ![t] = Left(MinCall - sinceCall)]
    /\ Goto(t, "throttled")
    /\ UNCHANGED <<kind, src, tries, page, result, paceVars, poolVars>>

\* Second half (the second side of the seats comes without one), and _with_timeout
\* hands the call to the executor.
Submit(t) ==
    /\ pc[t] \in {"throttled", "resubmit"} /\ timer[t] = 0
    /\ sinceCall' = IF pc[t] = "throttled" THEN 0 ELSE sinceCall
    /\ queue' = Append(queue, t)
    /\ timer' = [timer EXCEPT ![t] = Timeout]
    /\ Goto(t, "wait")
    /\ UNCHANGED <<kind, src, tries, page, result, paceVars, running, zombies>>

\* mutant: an abandoned call is replaced by a new worker
WorkerAlways ==
    /\ queue # <<>> /\ Cardinality(running) < Workers
    /\ queue' = Tail(queue)
    /\ IF Head(queue) = Orphan THEN UNCHANGED <<running, zombies>>
       ELSE running' = running \cup {Head(queue)} /\ UNCHANGED zombies
    /\ UNCHANGED <<threadVars, paceVars, sinceCall>>

\* A free worker takes the oldest call, abandoned or not.
WorkerTakes ==
    /\ queue # <<>> /\ Cardinality(running) + zombies < Workers
    /\ queue' = Tail(queue)
    /\ IF Head(queue) = Orphan THEN zombies' = zombies + 1 /\ UNCHANGED running
       ELSE running' = running \cup {Head(queue)} /\ UNCHANGED zombies
    /\ UNCHANGED <<threadVars, paceVars, sinceCall>>

\* mutant: tenacity is told to retry without a stop
FailedForever(t) ==
    IF ~Fetch(t).raises THEN FallThrough(t)
    ELSE /\ tries' = [tries EXCEPT ![t] = @ + 1] /\ page' = [page EXCEPT ![t] = 1]
         /\ timer' = [timer EXCEPT ![t] = Wait]
         /\ Goto(t, "backoff")
         /\ UNCHANGED <<kind, src, result>>

\* The kline, minute and spot fetchers swallow the failure; the tables raise it into
\* tenacity, which tries again and at last reraises.
Failed(t) ==
    IF ~Fetch(t).raises THEN FallThrough(t)
    ELSE IF tries[t] = Fetch(t).attempts THEN Return(t, "error")
    ELSE /\ tries' = [tries EXCEPT ![t] = @ + 1] /\ page' = [page EXCEPT ![t] = 1]
         /\ timer' = [timer EXCEPT ![t] = Wait]
         /\ Goto(t, "backoff")
         /\ UNCHANGED <<kind, src, result>>

\* akshare answers in time; a frame without any pct_change counts as empty.
Reply(t, answer) ==
    /\ pc[t] = "wait" /\ t \in running
    /\ running' = running \ {t}
    /\ CASE answer = "rows" -> Rows(t)
         [] answer = "empty" -> NoRows(t)
         [] answer = "failed" -> Failed(t)
    /\ UNCHANGED <<paceVars, sinceCall, queue, zombies>>

\* mutant: the caller waits for its worker as long as it runs
DeadlineQueuedOnly(t) ==
    /\ pc[t] = "wait" /\ timer[t] = 0 /\ t \notin running
    /\ queue' = SelectSeq(queue, LAMBDA x : x # t)
    /\ Failed(t)
    /\ UNCHANGED <<paceVars, sinceCall, running, zombies>>

\* mutant: the next call is taken for the one still running
DeadlineKeeps(t) ==
    /\ pc[t] = "wait" /\ timer[t] = 0
    /\ Failed(t)
    /\ UNCHANGED <<paceVars, sinceCall, queue, running, zombies>>

\* The call of t in the queue: abandoned there, or, past the bound of the model, gone.
Place(t) == CHOOSE i \in DOMAIN queue : queue[i] = t
Abandoned(t) ==
    IF Cardinality({i \in DOMAIN queue : queue[i] = Orphan}) < OrphanCap
    THEN [queue EXCEPT ![Place(t)] = Orphan]
    ELSE [i \in 1..Len(queue) - 1 |-> IF i < Place(t) THEN queue[i] ELSE queue[i + 1]]

\* The deadline passes: the caller leaves, the call stays in the executor.
Deadline(t) ==
    /\ pc[t] = "wait" /\ timer[t] = 0
    /\ IF t \in running
       THEN running' = running \ {t} /\ zombies' = zombies + 1 /\ UNCHANGED queue
       ELSE queue' = Abandoned(t) /\ UNCHANGED <<running, zombies>>
    /\ Failed(t)
    /\ UNCHANGED <<paceVars, sinceCall>>

\* The socket of an abandoned call closes at last.
ZombieEnds ==
    /\ zombies > 0 /\ zombies' = zombies - 1
    /\ UNCHANGED <<threadVars, paceVars, sinceCall, queue, running>>

Backoff(t) ==
    /\ pc[t] = "backoff" /\ timer[t] = 0
    /\ Goto(t, "throttle")
    /\ UNCHANGED <<kind, src, tries, page, timer, result, paceVars, poolVars>>

Tick ==
    /\ timer' = [t \in Threads |-> Left(timer[t] - 1)]
    /\ since' = Least(since + 1, MinInterval + Jitter)
    /\ sinceCall' = Least(sinceCall + 1, MinCall)
    /\ cooling' = [h \in Hosts |-> Left(cooling[h] - 1)]
    /\ asked' = [t \in Threads |-> [h \in Hosts |-> IF cooling[h] <= 1 THEN 0 ELSE asked[t][h]]]
    /\ UNCHANGED <<pc, kind, src, tries, page, result, lock, queue, running, zombies>>

Step(t) == Stamp(t) \/ Send(t) \/ Throttle(t) \/ Submit(t) \/ Deadline(t) \/ Backoff(t)
Next ==
    \/ \E t \in Threads : Step(t) \/ Gate(t)
    \/ \E t \in Threads : \E k \in Fetches[t] : Begin(t, k)
    \/ \E t \in Threads, a \in {"rows", "empty", "challenge", "failed"} : Answer(t, a)
    \/ \E t \in Threads, a \in {"rows", "empty", "failed"} : Reply(t, a)
    \/ WorkerTakes \/ ZombieEnds \/ Tick

\* Clock and threads go on, the lock is passed on, and a Tencent request ends (requests
\* times it out); nothing is assumed of eastmoney.
Fairness ==
    /\ WF_vars(Tick)
    /\ \A t \in Threads : /\ WF_vars(Step(t)) /\ SF_vars(Gate(t))
                          /\ WF_vars(\E a \in {"rows", "empty", "challenge", "failed"} : Answer(t, a))
Spec == Init /\ [][Next]_vars /\ Fairness

-----------------------------------------------------------------------------
TypeOK ==
    /\ pc \in [Threads -> {"idle", "gate", "pacing", "send", "await", "throttle", "throttled", "resubmit",
                           "wait", "backoff"}]
    /\ (\A t \in Threads : kind[t] \in Fetches[t]) /\ tries \in [Threads -> 1..Attempts] /\ page \in [Threads -> 1..Larger(Pages, 2)]
    /\ result \in [Threads -> {"none", "rows", "part", "empty", "error"}]
    /\ lock \in Threads \cup {Free} /\ since \in 0..MinInterval + Jitter /\ sinceCall \in 0..MinCall
    /\ cooling \in [Hosts -> 0..Cooldown] /\ running \subseteq Threads /\ zombies \in 0..Workers

\* Two slots for requests to Tencent are never closer than the interval, whichever threads
\* reserve them: a slot is taken under the lock, after the sleep.  (The request leaves once the
\* lock is free again, so a thread that is held up there may come closer to the next.)
SlotsPaced == [][\A t \in Threads : pc[t] = "pacing" /\ pc'[t] = "send" => since >= MinInterval]_vars

\* A thread touches a host that cools down at most once: the request it had already been
\* let through.
BanTouchedOnce == \A t \in Threads, h \in Hosts : asked[t][h] <= 1

\* A call waits in the executor exactly while its thread waits for it, so no answer can
\* reach a later call of the same thread.
OwnAnswer ==
    \A t \in Threads :
        LET places == {i \in DOMAIN queue : queue[i] = t}
        IN  /\ (t \in running \/ places # {}) <=> pc[t] = "wait"
            /\ Cardinality(places) + (IF t \in running THEN 1 ELSE 0) <= 1

\* Abandoned and live calls never hold more than the pool.
PoolBounded == Cardinality(running) + zombies <= Workers

\* Every fetch ends, even when no call to eastmoney ever ends.
FetchEnds == \A t \in Threads : pc[t] # "idle" ~> pc[t] = "idle"

\* The executor never mixes up calls, nor runs more than its workers.
ExecutorSound == TypeOK /\ OwnAnswer /\ PoolBounded

=============================================================================
