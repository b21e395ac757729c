---------------------------- MODULE HistoryQueue ----------------------------
(***************************************************************************)
(* The two polled queues that fill years of history stock by stock:        *)
(* sa_history_sync_state (history_backfill.py) and sa_kline_sync_state     *)
(* (kline_rebuild.py). A tick, or a batch from the console, loads its rows *)
(* once and works on those copies while the table moves on underneath.     *)
(*                                                                         *)
(* The history of a stock is Chunks windows; a window with no bar in it    *)
(* fails the fill ratio of 0.9.                                            *)
(***************************************************************************)
EXTENDS Integers, Sequences, FiniteSets, Functions

CONSTANTS
    Stocks,       \* numbers: the order of their rows
    Known,        \* stocks of the first snapshot
    Fresh,        \* stocks whose first bar is in the last window
    Chunks,       \* windows of chunk_windows, the last one ends today
    Kinds,        \* the queues: "history", "rebuild"
    BatchSize,    \* history_batch_size, kline_rebuild_batch_size
    MaxAttempts,  \* MAX_ATTEMPTS
    Breaker,      \* _CIRCUIT_BREAKER
    MaxEvents     \* bound of the model: what the console starts or puts back, batches cut off

Workers == {"tick", "console"}
Windows == 1..Chunks
Absent == "absent"

ASSUME ParametersAssumption ==
    /\ Stocks \subseteq Nat /\ IsFiniteSet(Stocks) /\ Known \subseteq Stocks /\ Fresh \subseteq Stocks
    /\ Kinds \subseteq {"history", "rebuild"}
    /\ Chunks \in Nat \ {0} /\ BatchSize \in Nat \ {0} /\ MaxAttempts \in Nat \ {0}
    /\ Breaker \in Nat \ {0} /\ MaxEvents \in Nat

VARIABLES
    queue,    \* which of the queues this is
    since,    \* first window in which the source has bars of the stock
    target,   \* target_start of the stock: the listing window if known, else the first
    pool,     \* stocks of the latest stock_pool snapshot
    filled,   \* windows with bars, per stock
    row,      \* state row per stock: status, attempts, priority
    work,     \* per worker: the rows it loaded, its place, the failures in a row
    events,   \* so far
    misses,   \* history: passes that failed a stock since it was put back while no batch held it
    shared    \* history: stocks that two batches ever held at once

vars == <<queue, since, target, pool, filled, row, work, events, misses, shared>>
world == <<queue, since, target, pool>>
Idle == [batch |-> <<>>, at |-> 1, errors |-> 0, fetched |-> "no"]
NoRow == [status |-> Absent, attempts |-> 0, priority |-> 1]

\* _is_complete: the earliest bar reaches the target and no window is missing.
Complete(s) == target[s]..Chunks \subseteq filled[s]
\* _complete_from_own_start
CompleteFromOwnStart(s) == \E lo \in filled[s] : filled[s] = lo..Chunks

\* Contaminated stocks first, then fewest attempts, then the oldest row.
Urgency(r, a, b) ==
    \/ r[a].priority < r[b].priority
    \/ /\ r[a].priority = r[b].priority
       /\ \/ r[a].attempts < r[b].attempts
          \/ r[a].attempts = r[b].attempts /\ a < b

\* next_pending: copies of the most urgent rows with attempts left, the most urgent first.
\* (There is one such batch; it is described, not computed, so that it can be reasoned about.)
NextPending(r) ==
    LET due == {s \in Stocks : r[s].status = "pending" /\ r[s].attempts < MaxAttempts}
        size == IF Cardinality(due) < BatchSize THEN Cardinality(due) ELSE BatchSize
        urgent == {b \in [1..size -> due] :
                      /\ \A i, j \in 1..size : i < j => Urgency(r, b[i], b[j])
                      /\ \A s \in due \ Range(b) : \A i \in 1..size : Urgency(r, b[i], s)}
    IN  {[i \in 1..size |-> [stock |-> b[i], attempts |-> r[b[i]].attempts]] : b \in urgent}

\* The row of a stock that was never seen: nothing to do if its bars are there already.
FreshRow(s) == [NoRow EXCEPT !.status = IF Complete(s) THEN "done" ELSE "pending"]

\* ensure_state: rows for the stocks of the snapshot that have none; the others stay.
Seeded == [s \in Stocks |-> IF row[s].status = Absent /\ s \in pool THEN FreshRow(s) ELSE row[s]]

-----------------------------------------------------------------------------
Init ==
    /\ queue \in Kinds
    /\ since \in [Stocks -> Windows] /\ \A s \in Stocks : since[s] = Chunks <=> s \in Fresh
    /\ target \in [Stocks -> Windows] /\ \A s \in Stocks : target[s] \in {1, since[s]}
    /\ pool = Known
    /\ filled = [s \in Stocks |-> {}]
    /\ row = [s \in Stocks |-> NoRow]
    /\ work = [w \in Workers |-> Idle]
    /\ events = 0
    /\ misses = [s \in Stocks |-> 0] /\ shared = {}

Spend == events < MaxEvents /\ events' = events + 1

\* A batch has loaded the row of the stock.
Held(s) == \E w \in Workers : \E i \in DOMAIN work[w].batch : work[w].batch[i].stock = s

\* A batch begins: new stocks are seeded, the rows to work on are loaded.
Begin(w) ==
    /\ work[w] = Idle
    /\ row' = Seeded
    /\ \E batch \in NextPending(Seeded) : work' = [work EXCEPT ![w] = [Idle EXCEPT !.batch = batch]]
    /\ shared' = shared \cup {s \in Stocks : Held(s) /\ \E i \in DOMAIN work'[w].batch : work'[w].batch[i].stock = s}
    /\ UNCHANGED <<world, filled, misses>>

\* The scheduler; in the quiet window of the daily sync it returns at once, a stutter.
Tick == Begin("tick") /\ UNCHANGED events
\* The batch task of the console.
ConsoleBatch == Begin("console") /\ Spend

Copy(w) == work[w].batch[work[w].at]

\* sync_stock_history: the windows of the stock one by one. A failed fetch is an empty
\* answer; what raises is the database. The bars stored before stay.
Fetch(w, raises) ==
    /\ work[w].batch # <<>> /\ work[w].fetched = "no"
    /\ LET s == Copy(w).stock
           has == {c \in target[s]..Chunks : c >= since[s]}
       IN  \E served \in SUBSET (has \ filled[s]) : filled' = [filled EXCEPT ![s] = @ \cup served]
    /\ work' = [work EXCEPT ![w].fetched = IF raises THEN "error" ELSE "rows"]
    /\ UNCHANGED <<world, row, events, misses, shared>>

\* mutant: after a first failed pass anything with bars is accepted
AcceptedAny(copy) == Complete(copy.stock) \/ (copy.attempts >= 1 /\ filled[copy.stock] # {})

\* After a first failed pass the history queue accepts what has no hole from its own first bar.
AcceptedHistory(copy) == copy.attempts >= 1 /\ CompleteFromOwnStart(copy.stock)

\* The completeness gate, all there is in the rebuild.
Accepted(copy) == Complete(copy.stock) \/ (queue = "history" /\ AcceptedHistory(copy))

\* The next stock of the batch, or its end.
Advance(w, errors, stop) ==
    work' = [work EXCEPT ![w] =
        IF stop \/ work[w].at = Len(work[w].batch) THEN Idle
        ELSE [work[w] EXCEPT !.at = @ + 1, !.errors = errors, !.fetched = "no"]]

\* mutant: parked one attempt early
MissedEarly(copy) ==
    [row EXCEPT ![copy.stock].attempts = copy.attempts + 1,
                ![copy.stock].status = IF copy.attempts + 1 >= MaxAttempts - 1 THEN "failed" ELSE @]

\* mutant: the attempt is counted on the copy alone, which no session saves
MissedOnCopy(copy) ==
    [row EXCEPT ![copy.stock].status = IF copy.attempts + 1 >= MaxAttempts THEN "failed" ELSE @]

\* One more attempt, counted from the copy; the last one parks the row.
Missed(copy) ==
    [row EXCEPT ![copy.stock].attempts = copy.attempts + 1,
                ![copy.stock].status = IF copy.attempts + 1 >= MaxAttempts THEN "failed" ELSE @]
Miss(s) == misses' = [misses EXCEPT ![s] = IF @ < MaxAttempts THEN @ + 1 ELSE @]

\* The pass ended without an exception.
SettlePass(w) ==
    /\ work[w].fetched = "rows"
    /\ IF Accepted(Copy(w))
       THEN row' = [row EXCEPT ![Copy(w).stock].status = "done"] /\ UNCHANGED misses
       ELSE row' = Missed(Copy(w)) /\ Miss(Copy(w).stock)
    /\ Advance(w, 0, FALSE)
    /\ UNCHANGED <<world, filled, events, shared>>

\* mutant: the batch is committed when it ends, and the breaker ends it before
SettleErrorLate(w) ==
    /\ work[w].fetched = "error"
    /\ LET trips == work[w].errors + 1 >= Breaker
       IN  /\ IF work[w].at < Len(work[w].batch) \/ trips THEN UNCHANGED row
              ELSE row' = Missed(Copy(w))
           /\ Advance(w, work[w].errors + 1, trips)
    /\ Miss(Copy(w).stock)
    /\ UNCHANGED <<world, filled, events, shared>>

\* The breaker leaves the loop before its commit; the rebuild commits once more.
CommitsLast(trips) == ~trips \/ queue = "rebuild"

\* The pass raised: one more attempt, if it is committed; the breaker ends the batch.
SettleError(w) ==
    /\ work[w].fetched = "error"
    /\ LET trips == work[w].errors + 1 >= Breaker
       IN  /\ IF CommitsLast(trips) THEN row' = Missed(Copy(w)) ELSE UNCHANGED row
           /\ Advance(w, work[w].errors + 1, trips)
    /\ Miss(Copy(w).stock)
    /\ UNCHANGED <<world, filled, events, shared>>

\* The process dies, or the session no longer works: what is not committed is gone.
Crash(w) ==
    /\ work[w] # Idle /\ Spend
    /\ work' = [work EXCEPT ![w] = Idle]
    /\ UNCHANGED <<world, row, filled, misses, shared>>

-----------------------------------------------------------------------------
\* enqueue_priority: the contaminated stocks of the rebuild.
EnqueuePriority(s) ==
    /\ queue = "rebuild" /\ Spend
    /\ row' = [row EXCEPT ![s] = [status |-> "pending", attempts |-> 0, priority |-> 0]]
    /\ misses' = [misses EXCEPT ![s] = IF Held(s) THEN @ ELSE 0]
    /\ UNCHANGED <<world, filled, work, shared>>

\* reset_failed
ResetFailed ==
    /\ Spend /\ \E s \in Stocks : row[s].status = "failed"
    /\ row' = [s \in Stocks |-> IF row[s].status # "failed" THEN row[s]
                                ELSE [row[s] EXCEPT !.status = "pending", !.attempts = 0]]
    /\ misses' = [s \in Stocks |-> IF row[s].status = "failed" /\ ~Held(s) THEN 0 ELSE misses[s]]
    /\ UNCHANGED <<world, filled, work, shared>>

\* A new snapshot lists another stock.
Listed(s) ==
    /\ s \notin pool /\ pool' = pool \cup {s}
    /\ UNCHANGED <<queue, since, target, filled, row, work, events, misses, shared>>

Work(w) == SettlePass(w) \/ SettleError(w) \/ \E raises \in BOOLEAN : Fetch(w, raises)
Next ==
    \/ Tick \/ ConsoleBatch
    \/ \E w \in Workers : Work(w) \/ Crash(w)
    \/ \E s \in Stocks : EnqueuePriority(s) \/ Listed(s)
    \/ ResetFailed

\* The polling job keeps firing, as every quiet window ends, and a batch works on.
Fairness ==
    /\ WF_vars(Tick)
    /\ \A w \in Workers : WF_vars(Work(w))
Spec == Init /\ [][Next]_vars /\ Fairness
-----------------------------------------------------------------------------
TypeOK ==
    /\ \A s \in Stocks : /\ row[s].status \in {Absent, "pending", "done", "failed"}
                         /\ row[s].attempts \in 0..MaxAttempts /\ row[s].priority \in {0, 1}
                         /\ filled[s] \subseteq since[s]..Chunks /\ misses[s] \in 0..MaxAttempts
    /\ \A w \in Workers : work[w] # Idle => work[w].at \in DOMAIN work[w].batch
    /\ events \in 0..MaxEvents

\* A row marked done has no hole from its first bar on, unless two batches once held the
\* stock: the later one may open a hole below the bars the other accepted. In the rebuild
\* it has none from its target, whichever worker marked it.
DoneHasNoHole ==
    \A s \in Stocks : row[s].status = "done" =>
        IF queue = "rebuild" THEN Complete(s) ELSE s \in shared \/ CompleteFromOwnStart(s)

\* A row is parked only after MAX_ATTEMPTS failed passes, though lost and doubled counts.
ParkedInTime == \A s \in Stocks : row[s].status = "failed" => misses[s] = MaxAttempts

\* Every pending stock is settled in the end, done or parked, whatever fails.
QueueDrains == \A s \in Stocks : row[s].status = "pending" ~> row[s].status # "pending"

\* What the queue calls done is done, and what it calls failed was tried often enough.
SettledTruly == TypeOK /\ DoneHasNoHole /\ ParkedInTime

=============================================================================
