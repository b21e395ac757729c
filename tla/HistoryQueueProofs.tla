-------------------------- MODULE HistoryQueueProofs --------------------------
(***************************************************************************)
(* The two polled queues for any number of stocks, windows, attempts and   *)
(* console events. Stored bars are never taken away, and in the rebuild    *)
(* every worker, whatever copy it works on, marks a row done only on       *)
(* stored bars: a stale copy can delay a stock, not lose one.              *)
(***************************************************************************)
EXTENDS HistoryQueue, FiniteSetTheorems, TLAPS

\* Rows and windows belong to stocks, and a row has a status.
Shape ==
    /\ DOMAIN row = Stocks /\ DOMAIN filled = Stocks
    /\ \A s \in Stocks : "status" \in DOMAIN row[s]

\* Bars are only added, and what is looked for does not change: completeness is for good.
BarsStay ==
    /\ target' = target /\ queue' = queue
    /\ \A s \in Stocks : filled[s] \subseteq filled'[s]

\* In the rebuild a row marked done has all its windows from its target on.
RebuildDoneIsWhole == queue = "rebuild" => \A s \in Stocks : row[s].status = "done" => Complete(s)

IInv == Shape /\ RebuildDoneIsWhole

\* What a step may do to a row: leave it, mark it done, or say something else.
RowsMove ==
    \A s \in Stocks : \/ row'[s].status = row[s].status
                      \/ row'[s].status # "done"
                      \/ queue = "rebuild" => Complete(s)

-----------------------------------------------------------------------------
\* Completeness of a stock outlives every step that only adds bars.
LEMMA CompleteStays == ASSUME BarsStay, NEW s \in Stocks, Complete(s) PROVE Complete(s)'
  BY DEF BarsStay, Complete

\* Seeding marks a stock done only when its bars are there already.
LEMMA BeginMoves ==
    ASSUME Shape, NEW w \in Workers, Begin(w)
    PROVE  Shape' /\ BarsStay /\ RowsMove
  <1>1. row' = Seeded /\ filled' = filled /\ target' = target /\ queue' = queue
    BY DEF Begin, world
  <1>2. \A s \in Stocks : /\ "status" \in DOMAIN FreshRow(s)
                          /\ FreshRow(s).status = "done" => Complete(s)
    BY DEF FreshRow, NoRow
  <1> QED BY <1>1, <1>2 DEF Seeded, Shape, BarsStay, RowsMove

\* A counted miss never marks a row done.
LEMMA MissedMoves ==
    ASSUME Shape, NEW copy
    PROVE  /\ DOMAIN Missed(copy) = Stocks
           /\ \A s \in Stocks : /\ "status" \in DOMAIN Missed(copy)[s]
                                /\ \/ Missed(copy)[s].status = row[s].status
                                   \/ Missed(copy)[s].status = "failed"
  BY DEF Missed, Shape

\* Fetching adds bars and leaves the rows alone.
LEMMA FetchMoves ==
    ASSUME Shape, NEW w \in Workers, NEW raises \in BOOLEAN, Fetch(w, raises)
    PROVE  Shape' /\ BarsStay /\ RowsMove
  BY DEF Fetch, Shape, BarsStay, RowsMove, world

\* A pass is accepted in the rebuild only when the stock is complete.
LEMMA SettlePassMoves ==
    ASSUME Shape, NEW w \in Workers, SettlePass(w)
    PROVE  Shape' /\ BarsStay /\ RowsMove
  <1>1. filled' = filled /\ target' = target /\ queue' = queue
    BY DEF SettlePass, world
  <1>2. CASE Accepted(Copy(w)) /\ row' = [row EXCEPT ![Copy(w).stock].status = "done"]
    <2>1. queue = "rebuild" => Complete(Copy(w).stock)
      BY <1>2 DEF Accepted
    <2> QED BY <1>1, <1>2, <2>1 DEF Shape, BarsStay, RowsMove
  <1>3. CASE row' = Missed(Copy(w))
    BY <1>1, <1>3, MissedMoves DEF Shape, BarsStay, RowsMove
  <1> QED BY <1>2, <1>3 DEF SettlePass

\* A pass that raised counts a miss, or nothing when the breaker trips before the commit.
LEMMA SettleErrorMoves ==
    ASSUME Shape, NEW w \in Workers, SettleError(w)
    PROVE  Shape' /\ BarsStay /\ RowsMove
  <1>1. filled' = filled /\ target' = target /\ queue' = queue
    BY DEF SettleError, world
  <1>2. row' = row \/ row' = Missed(Copy(w))
    BY DEF SettleError
  <1> QED BY <1>1, <1>2, MissedMoves DEF Shape, BarsStay, RowsMove

\* A requeued or reset row is pending; the other steps leave rows and bars alone.
LEMMA ConsoleMoves ==
    ASSUME Shape, \/ ResetFailed
                  \/ \E s \in Stocks : EnqueuePriority(s) \/ Listed(s)
                  \/ \E w \in Workers : Crash(w)
                  \/ UNCHANGED vars
    PROVE  Shape' /\ BarsStay /\ RowsMove
  <1>1. CASE ResetFailed
    BY <1>1 DEF ResetFailed, Shape, BarsStay, RowsMove, world
  <1>2. ASSUME NEW s \in Stocks, EnqueuePriority(s) PROVE Shape' /\ BarsStay /\ RowsMove
    BY <1>2 DEF EnqueuePriority, Shape, BarsStay, RowsMove, world
  <1>3. ASSUME NEW s \in Stocks, Listed(s) PROVE Shape' /\ BarsStay /\ RowsMove
    BY <1>3 DEF Listed, Shape, BarsStay, RowsMove
  <1>4. ASSUME NEW w \in Workers, Crash(w) PROVE Shape' /\ BarsStay /\ RowsMove
    BY <1>4 DEF Crash, Shape, BarsStay, RowsMove, world
  <1>5. CASE UNCHANGED vars
    BY <1>5 DEF vars, Shape, BarsStay, RowsMove
  <1> QED BY <1>1, <1>2, <1>3, <1>4, <1>5

\* Every step of either queue.
LEMMA StepMoves == ASSUME Shape, [Next]_vars PROVE Shape' /\ BarsStay /\ RowsMove
  <1>1. "tick" \in Workers /\ "console" \in Workers
    BY DEF Workers
  <1>2. CASE Tick \/ ConsoleBatch
    BY <1>1, <1>2, BeginMoves DEF Tick, ConsoleBatch
  <1>3. ASSUME NEW w \in Workers, Work(w) PROVE Shape' /\ BarsStay /\ RowsMove
    BY <1>3, FetchMoves, SettlePassMoves, SettleErrorMoves DEF Work
  <1> QED BY <1>2, <1>3, ConsoleMoves DEF Next

-----------------------------------------------------------------------------
\* The queue starts without rows.
LEMMA InitIInv == Init => IInv
  BY DEF Init, IInv, Shape, RebuildDoneIsWhole, NoRow, Absent

\* A done row keeps its bars, and a row that becomes done has them.
LEMMA StepIInv == IInv /\ [Next]_vars => IInv'
  <1> SUFFICES ASSUME IInv, [Next]_vars PROVE IInv'
    OBVIOUS
  <1>1. Shape' /\ BarsStay /\ RowsMove
    BY StepMoves DEF IInv
  <1>2. ASSUME queue' = "rebuild", NEW s \in Stocks, row'[s].status = "done"
        PROVE  Complete(s)'
    <2>1. queue = "rebuild"
      BY <1>1, <1>2 DEF BarsStay
    <2>2. Complete(s)
      BY <1>1, <1>2, <2>1 DEF RowsMove, IInv, RebuildDoneIsWhole
    <2> QED BY <1>1, <2>2, CompleteStays
  <1>3. RebuildDoneIsWhole'
    BY <1>2 DEF RebuildDoneIsWhole
  <1> QED BY <1>1, <1>3 DEF IInv

\* kline_rebuild: with any interleaving of ticks, console batches, requeues, resets and
\* crashes, a row that says done has every window from its target on.
THEOREM RebuildDoneHolds == Spec => [](queue = "rebuild" => DoneHasNoHole)
  <1>1. Init /\ [][Next]_vars => []IInv
    BY InitIInv, StepIInv, PTL
  <1>2. IInv => (queue = "rebuild" => DoneHasNoHole)
    BY DEF IInv, RebuildDoneIsWhole, DoneHasNoHole
  <1> QED BY <1>1, <1>2, PTL DEF Spec

-----------------------------------------------------------------------------
(* What the queues call done and failed, for batches that overlap.          *)

RowRec == [status : {Absent, "pending", "done", "failed"}, attempts : 0..MaxAttempts,
           priority : {0, 1}]
Item == [stock : Stocks, attempts : 0..MaxAttempts - 1]
WorkRec == [batch : Seq(Item), at : Nat, errors : Nat, fetched : {"no", "error", "rows"}]

Types ==
    /\ queue \in {"history", "rebuild"} /\ events \in 0..MaxEvents
    /\ since \in [Stocks -> Windows] /\ target \in [Stocks -> Windows] /\ pool \subseteq Stocks
    /\ row \in [Stocks -> RowRec] /\ misses \in [Stocks -> 0..MaxAttempts]
    /\ filled \in [Stocks -> SUBSET Windows]
    /\ \A s \in Stocks : filled[s] \subseteq target[s]..Chunks /\ filled[s] \subseteq since[s]..Chunks
    /\ work \in [Workers -> WorkRec]

\* The places of a batch that are still to be worked on.
Rest(w, i) == i \in DOMAIN work[w].batch /\ work[w].at <= i
StockAt(w, i) == work[w].batch[i].stock

\* A batch has a stock once, two batches that have it share it.
Batches ==
    /\ \A w \in Workers : work[w] # Idle => work[w].at \in DOMAIN work[w].batch
    /\ \A w \in Workers : \A i, j \in DOMAIN work[w].batch : StockAt(w, i) = StockAt(w, j) => i = j
    /\ \A w, v \in Workers : \A i \in DOMAIN work[w].batch, j \in DOMAIN work[v].batch :
          w # v /\ StockAt(w, i) = StockAt(v, j) => StockAt(w, i) \in shared

\* Only a batch that shares the stock can mark a row done while another has it to do.
Mine ==
    \A w \in Workers : \A i \in DOMAIN work[w].batch : Rest(w, i) =>
        /\ row[StockAt(w, i)].status # Absent
        /\ row[StockAt(w, i)].status = "done" => StockAt(w, i) \in shared

\* No row and no copy counts a pass that did not fail.
Counted ==
    /\ \A s \in Stocks : row[s].attempts <= misses[s]
    /\ ParkedInTime
    /\ \A w \in Workers : \A i \in DOMAIN work[w].batch :
          Rest(w, i) => work[w].batch[i].attempts <= misses[StockAt(w, i)]

DoneInHistory ==
    queue = "history" => \A s \in Stocks : row[s].status = "done" => s \in shared \/ CompleteFromOwnStart(s)

QueueInv == Types /\ Batches /\ Mine /\ Counted /\ DoneInHistory

-----------------------------------------------------------------------------
\* A stock is as complete as its bars say.
LEMMA CompleteIsFromOwnStart ==
    ASSUME Types, NEW s \in Stocks, Complete(s) PROVE CompleteFromOwnStart(s)
  <1>1. target[s] \in 1..Chunks /\ filled[s] \subseteq target[s]..Chunks
    BY DEF Types, Windows
  <1>2. filled[s] = target[s]..Chunks
    BY <1>1 DEF Complete
  <1>3. target[s] \in target[s]..Chunks
    BY <1>1, ParametersAssumption
  <1> QED
    BY <1>2, <1>3 DEF CompleteFromOwnStart

\* Seeding touches the rows that were absent, and invents no attempts.
LEMMA SeededRows ==
    ASSUME Types
    PROVE  /\ Seeded \in [Stocks -> RowRec]
           /\ \A s \in Stocks : \/ Seeded[s] = row[s]
                                \/ /\ row[s].status = Absent /\ Seeded[s].attempts = 0
                                   /\ \/ Seeded[s].status = "pending"
                                      \/ Seeded[s].status = "done" /\ Complete(s)
  <1>1. \A s \in Stocks : /\ FreshRow(s) \in RowRec /\ FreshRow(s).attempts = 0
                          /\ \/ FreshRow(s).status = "pending"
                             \/ FreshRow(s).status = "done" /\ Complete(s)
    BY ParametersAssumption DEF FreshRow, NoRow, RowRec
  <1> QED
    BY <1>1 DEF Seeded, Types

\* No row is more urgent than itself.
LEMMA UrgencyStrict ==
    ASSUME NEW r \in [Stocks -> RowRec], NEW s \in Stocks PROVE ~Urgency(r, s, s)
  BY ParametersAssumption DEF Urgency, RowRec

\* A batch is copies of pending rows with attempts left, none of them twice.
LEMMA BatchOfDue ==
    ASSUME NEW r \in [Stocks -> RowRec], NEW batch \in NextPending(r)
    PROVE  /\ batch \in Seq(Item)
           /\ \A i \in DOMAIN batch : /\ batch[i].stock \in Stocks
                                      /\ r[batch[i].stock].status = "pending"
                                      /\ batch[i].attempts = r[batch[i].stock].attempts
           /\ \A i, j \in DOMAIN batch : batch[i].stock = batch[j].stock => i = j
  <1> DEFINE due == {s \in Stocks : r[s].status = "pending" /\ r[s].attempts < MaxAttempts}
             size == IF Cardinality(due) < BatchSize THEN Cardinality(due) ELSE BatchSize
  <1>1. size \in Nat
    <2>1. IsFiniteSet(due)
      BY ParametersAssumption, FS_Subset
    <2> QED
      BY <2>1, FS_CardinalityType, ParametersAssumption
  <1>2. PICK b \in [1..size -> due] :
          /\ \A i, j \in 1..size : i < j => Urgency(r, b[i], b[j])
          /\ batch = [i \in 1..size |-> [stock |-> b[i], attempts |-> r[b[i]].attempts]]
    BY DEF NextPending
  <1> HIDE DEF size
  <1>3. \A s \in due : s \in Stocks /\ r[s].status = "pending" /\ r[s].attempts \in 0..MaxAttempts - 1
    BY ParametersAssumption DEF RowRec
  <1>4. \A i \in 1..size : b[i] \in due
    BY <1>2
  <1>5. \A i, j \in 1..size : b[i] = b[j] => i = j
    <2> SUFFICES ASSUME NEW i \in 1..size, NEW j \in 1..size, b[i] = b[j], i # j PROVE FALSE
      OBVIOUS
    <2>1. i < j \/ j < i
      BY <1>1
    <2>2. Urgency(r, b[i], b[i])
      BY <1>2, <2>1
    <2> QED
      BY <1>3, <1>4, <2>2, UrgencyStrict
  <1> HIDE DEF due
  <1>6. /\ DOMAIN batch = 1..size
        /\ \A i \in 1..size : batch[i].stock = b[i] /\ batch[i].attempts = r[b[i]].attempts
    BY <1>2
  <1>7. batch \in [1..size -> Item]
    BY <1>2, <1>3, <1>4 DEF Item
  <1>8. batch \in Seq(Item)
    BY <1>1, <1>7
  <1> QED
    BY <1>3, <1>4, <1>5, <1>6, <1>8

\* A counted pass: what it makes of the rows.
LEMMA MissedRows ==
    ASSUME Types, NEW copy \in Item
    PROVE  /\ Missed(copy) \in [Stocks -> RowRec]
           /\ \A s \in Stocks \ {copy.stock} : Missed(copy)[s] = row[s]
           /\ Missed(copy)[copy.stock].attempts = copy.attempts + 1
           /\ Missed(copy)[copy.stock].status =
                 IF copy.attempts + 1 >= MaxAttempts THEN "failed" ELSE row[copy.stock].status
  <1>1. copy.stock \in Stocks /\ copy.attempts + 1 \in 0..MaxAttempts
    BY ParametersAssumption DEF Item
  <1>2. row[copy.stock] \in RowRec
    BY <1>1 DEF Types
  <1> DEFINE s   == copy.stock
             to  == IF copy.attempts + 1 >= MaxAttempts THEN "failed" ELSE row[s].status
             new == [row[s] EXCEPT !.attempts = copy.attempts + 1, !.status = to]
  <1>3. Missed(copy) = [row EXCEPT ![s] = new]
    BY <1>1, <1>2 DEF Missed, Types, RowRec
  <1>4. new \in RowRec /\ new.attempts = copy.attempts + 1 /\ new.status = to
    BY <1>1, <1>2 DEF RowRec
  <1> HIDE DEF new
  <1> QED
    BY <1>1, <1>3, <1>4 DEF Types

\* The next stock, or the end: what is left of a batch is what was left of it before,
\* without the stock just worked on.
LEMMA AdvanceRest ==
    ASSUME Types, Batches, NEW w \in Workers, work[w] # Idle, NEW errors \in Nat,
           NEW stop \in BOOLEAN, Advance(w, errors, stop)
    PROVE  /\ work' \in [Workers -> WorkRec]
           /\ work'[w] # Idle => work'[w].at \in DOMAIN work'[w].batch
           /\ \A v \in Workers \ {w} : work'[v] = work[v]
           /\ work'[w].batch \in {work[w].batch, <<>>}
           /\ work'[w].batch = <<>> \/ work'[w].at = work[w].at + 1
  <1>1. work[w] \in WorkRec /\ work[w].at \in DOMAIN work[w].batch /\ Idle \in WorkRec
    BY DEF Types, Batches, WorkRec, Idle
  <1>2. CASE stop \/ work[w].at = Len(work[w].batch)
    <2>1. work' = [work EXCEPT ![w] = Idle]
      BY <1>2 DEF Advance
    <2>2. work'[w] = Idle /\ work'[w].batch = <<>>
      BY <2>1 DEF Types, Idle
    <2> QED
      BY <1>1, <2>1, <2>2 DEF Types
  <1>3. CASE ~(stop \/ work[w].at = Len(work[w].batch))
    <2> DEFINE new == [work[w] EXCEPT !.at = @ + 1, !.errors = errors, !.fetched = "no"]
    <2>1. work' = [work EXCEPT ![w] = new]
      BY <1>3 DEF Advance
    <2>2. new \in WorkRec /\ new.batch = work[w].batch /\ new.at = work[w].at + 1
      <3>1. work[w].at + 1 \in Nat /\ {"no", "error", "rows"} = {"no"} \cup {"error", "rows"}
        BY <1>1 DEF WorkRec
      <3> QED
        BY <1>1, <3>1 DEF WorkRec
    <2> HIDE DEF new
    <2>3. work'[w] = new /\ work' \in [Workers -> WorkRec]
      BY <2>1, <2>2 DEF Types
    <2>4. work[w].at + 1 \in DOMAIN work[w].batch
      <3>1. DOMAIN work[w].batch = 1..Len(work[w].batch) /\ Len(work[w].batch) \in Nat
        BY <1>1 DEF WorkRec
      <3> QED
        BY <1>1, <1>3, <3>1
    <2> QED
      BY <2>1, <2>2, <2>3, <2>4 DEF Types
  <1> QED
    BY <1>2, <1>3

\* A step that loads no batch: every batch stays or is gone, and its worker goes on.
Shrunk ==
    /\ shared \subseteq shared' /\ work' \in [Workers -> WorkRec]
    /\ \A v \in Workers : /\ work'[v] # Idle => work'[v].at \in DOMAIN work'[v].batch
                          /\ \/ work'[v].batch = <<>>
                             \/ work'[v].batch = work[v].batch /\ work[v].at <= work'[v].at

LEMMA ShrunkBatches ==
    ASSUME Types, Batches, Shrunk
    PROVE  /\ Batches'
           /\ \A v \in Workers : \A i \in DOMAIN work'[v].batch :
                 /\ i \in DOMAIN work[v].batch /\ work'[v].batch[i] = work[v].batch[i]
                 /\ work'[v].batch = work[v].batch
                 /\ Rest(v, i)' => Rest(v, i)
                 /\ StockAt(v, i)' = StockAt(v, i) /\ StockAt(v, i) \in Stocks
  <1>1. \A v \in Workers : /\ work[v].at \in Nat /\ work'[v].at \in Nat
                           /\ work[v].batch \in Seq(Item) /\ work'[v].batch \in Seq(Item)
    BY DEF Types, Shrunk, WorkRec
  <1>2. ASSUME NEW v \in Workers, NEW i \in DOMAIN work'[v].batch
        PROVE  /\ i \in DOMAIN work[v].batch /\ work'[v].batch[i] = work[v].batch[i]
               /\ work'[v].batch = work[v].batch
               /\ Rest(v, i)' => Rest(v, i)
               /\ StockAt(v, i)' = StockAt(v, i) /\ StockAt(v, i) \in Stocks
    <2>1. work'[v].batch # <<>>
      BY <1>1, <1>2
    <2>2. work'[v].batch = work[v].batch /\ work[v].at <= work'[v].at
      BY <2>1 DEF Shrunk
    <2>3. work[v].batch[i] \in Item /\ i \in Nat
      BY <1>1, <1>2, <2>2
    <2> QED
      BY <1>1, <1>2, <2>2, <2>3 DEF Rest, StockAt, Item
  <1>3. \A v \in Workers : \A i, j \in DOMAIN work'[v].batch :
           StockAt(v, i)' = StockAt(v, j)' => i = j
    BY <1>2 DEF Batches
  <1>4. \A w, v \in Workers : \A i \in DOMAIN work'[w].batch, j \in DOMAIN work'[v].batch :
           w # v /\ StockAt(w, i)' = StockAt(v, j)' => StockAt(w, i)' \in shared'
    BY <1>2 DEF Batches, Shrunk
  <1>5. \A v \in Workers : work'[v] # Idle => work'[v].at \in DOMAIN work'[v].batch
    BY DEF Shrunk
  <1> QED
    BY <1>2, <1>3, <1>4, <1>5 DEF Batches

\* What such a step may do to the rows: nobody else's place becomes absent or done, and
\* no count passes the misses.
LEMMA ShrunkKeeps ==
    ASSUME QueueInv, Shrunk,
           row' \in [Stocks -> RowRec], misses' \in [Stocks -> 0..MaxAttempts],
           \A s \in Stocks : /\ row[s].status # Absent => row'[s].status # Absent
                             /\ row'[s].attempts <= misses'[s]
                             /\ row'[s].status = "failed" => misses'[s] = MaxAttempts
                             /\ misses'[s] >= misses[s] \/ ~Held(s),
           \A v \in Workers : \A i \in DOMAIN work'[v].batch : LET s == StockAt(v, i) IN
              Rest(v, i)' /\ row[s].status # "done" /\ row'[s].status = "done" => s \in shared
    PROVE  Batches' /\ Mine' /\ Counted'
  <1>1. Batches' /\ \A v \in Workers : \A i \in DOMAIN work'[v].batch :
                 /\ i \in DOMAIN work[v].batch /\ work'[v].batch[i] = work[v].batch[i]
                 /\ Rest(v, i)' => Rest(v, i)
                 /\ StockAt(v, i)' = StockAt(v, i) /\ StockAt(v, i) \in Stocks
    BY ShrunkBatches DEF QueueInv
  <1>2. Mine'
    <2> SUFFICES ASSUME NEW v \in Workers, NEW i \in DOMAIN work'[v].batch, Rest(v, i)'
                 PROVE  /\ row'[StockAt(v, i)'].status # Absent
                        /\ row'[StockAt(v, i)'].status = "done" => StockAt(v, i)' \in shared'
      BY DEF Mine
    <2> DEFINE s == StockAt(v, i)
    <2>1. /\ s \in Stocks /\ StockAt(v, i)' = s /\ row[s].status # Absent
          /\ row[s].status = "done" => s \in shared
      BY <1>1 DEF QueueInv, Mine
    <2>2. row'[s].status = "done" => s \in shared'
      BY <2>1 DEF Shrunk
    <2> QED
      BY <2>1, <2>2
  <1>3. ASSUME NEW v \in Workers, NEW i \in DOMAIN work'[v].batch, Rest(v, i)'
        PROVE  work'[v].batch[i].attempts <= misses'[StockAt(v, i)']
    <2> DEFINE s == StockAt(v, i)
    <2>1. /\ s \in Stocks /\ StockAt(v, i)' = s /\ work'[v].batch[i] = work[v].batch[i]
          /\ Held(s)
      BY <1>1, <1>3 DEF Held, StockAt
    <2>2. work[v].batch[i].attempts <= misses[s]
      BY <1>1, <1>3 DEF QueueInv, Counted
    <2>3. misses[s] <= misses'[s]
      BY <2>1
    <2>4. work[v].batch[i].attempts \in Nat /\ misses[s] \in Nat /\ misses'[s] \in Nat
      <3>1. work[v].batch \in Seq(Item) /\ i \in DOMAIN work[v].batch
        BY <1>1, <1>3 DEF QueueInv, Types, WorkRec
      <3>2. work[v].batch[i] \in Item
        BY <3>1
      <3>3. work[v].batch[i].attempts \in Nat
        BY <3>2, ParametersAssumption DEF Item
      <3>4. \A u \in Stocks : misses[u] \in Nat /\ misses'[u] \in Nat
        BY ParametersAssumption DEF QueueInv, Types
      <3> QED
        BY <2>1, <3>3, <3>4
    <2> HIDE DEF s
    <2> QED
      BY <2>1, <2>2, <2>3, <2>4
  <1>4. Counted'
    BY <1>3 DEF Counted, ParkedInTime
  <1> QED
    BY <1>1, <1>2, <1>4

\* The row a worker is at.
LEMMA AtWork ==
    ASSUME QueueInv, NEW w \in Workers, work[w] # Idle
    PROVE  /\ work[w].at \in DOMAIN work[w].batch /\ Copy(w) \in Item
           /\ Copy(w).stock = StockAt(w, work[w].at) /\ Rest(w, work[w].at)
           /\ Copy(w).attempts <= misses[Copy(w).stock] /\ Held(Copy(w).stock)
           /\ row[Copy(w).stock].status # Absent
           /\ row[Copy(w).stock].status = "done" => Copy(w).stock \in shared
  <1>1. /\ work[w].at \in DOMAIN work[w].batch /\ work[w].batch \in Seq(Item)
        /\ work[w].at \in Nat
    BY DEF QueueInv, Batches, Types, WorkRec
  <1>2. Copy(w) \in Item /\ Rest(w, work[w].at)
    BY <1>1 DEF Copy, Rest
  <1> QED
    BY <1>1, <1>2 DEF QueueInv, Mine, Counted, Copy, StockAt, Held

\* A worker past its idle state is idle in no field.
LEMMA WorkNotIdle ==
    ASSUME Types, NEW w \in Workers, work[w].fetched # "no" \/ work[w].batch # <<>>
    PROVE  work[w] # Idle
  BY DEF Idle

\* A worker that goes on leaves the stock it worked on to those it shares it with.
LEMMA AdvanceShrinks ==
    ASSUME QueueInv, NEW w \in Workers, work[w] # Idle, NEW errors \in Nat,
           NEW stop \in BOOLEAN, Advance(w, errors, stop), shared' = shared
    PROVE  /\ Shrunk
           /\ \A v \in Workers : \A i \in DOMAIN work'[v].batch :
                 Rest(v, i)' /\ StockAt(v, i) = Copy(w).stock => StockAt(v, i) \in shared
  <1>1. /\ work' \in [Workers -> WorkRec]
        /\ work'[w] # Idle => work'[w].at \in DOMAIN work'[w].batch
        /\ \A v \in Workers \ {w} : work'[v] = work[v]
        /\ work'[w].batch \in {work[w].batch, <<>>}
        /\ work'[w].batch = <<>> \/ work'[w].at = work[w].at + 1
    BY AdvanceRest DEF QueueInv
  <1>2. \A v \in Workers : work[v].at \in Nat
    BY DEF QueueInv, Types, WorkRec
  <1>3. Shrunk
    BY <1>1, <1>2 DEF Shrunk, QueueInv, Batches
  <1>4. ASSUME NEW v \in Workers, NEW i \in DOMAIN work'[v].batch, Rest(v, i)',
               StockAt(v, i) = Copy(w).stock
        PROVE  StockAt(v, i) \in shared
    <2>1. /\ i \in DOMAIN work[v].batch /\ Rest(v, i) /\ work'[v].batch = work[v].batch
      BY <1>3, <1>4, ShrunkBatches DEF QueueInv
    <2>2. work[w].at \in DOMAIN work[w].batch /\ Copy(w).stock = StockAt(w, work[w].at)
      BY AtWork
    <2>3. CASE v # w
      BY <1>4, <2>1, <2>2, <2>3 DEF QueueInv, Batches
    <2>4. CASE v = w
      <3>1. i = work[w].at
        BY <1>4, <2>1, <2>2, <2>4 DEF QueueInv, Batches
      <3>2. DOMAIN work'[w].batch # {} /\ work'[w].at <= i
        BY <1>4, <2>4 DEF Rest
      <3>3. work'[w].batch # <<>>
        BY <3>2
      <3> QED
        BY <1>1, <1>2, <3>1, <3>2, <3>3
    <2> QED
      BY <2>3, <2>4
  <1> QED
    BY <1>3, <1>4

-----------------------------------------------------------------------------
(* One lemma per action.                                                    *)

\* Fetched bars are bars of the source from the target on, for a row that is not done,
\* or that two batches share.
LEMMA FetchStep ==
    ASSUME QueueInv, NEW w \in Workers, NEW raises \in BOOLEAN, Fetch(w, raises)
    PROVE  QueueInv'
  <1> DEFINE s == Copy(w).stock
             to == IF raises THEN "error" ELSE "rows"
  <1>1. work[w] # Idle
    BY WorkNotIdle DEF Fetch, QueueInv
  <1>2. /\ s \in Stocks
        /\ row[s].status = "done" => s \in shared
    BY <1>1, AtWork DEF Item
  <1>3. PICK served \in SUBSET {c \in target[s]..Chunks : c >= since[s]} :
          filled' = [filled EXCEPT ![s] = @ \cup served]
    BY DEF Fetch
  <1>4. /\ work' = [work EXCEPT ![w].fetched = to]
        /\ UNCHANGED <<queue, since, target, pool, row, events, misses, shared>>
    BY DEF Fetch, world
  <1> HIDE DEF s
  <1>5. served \subseteq Windows /\ served \subseteq target[s]..Chunks /\ served \subseteq since[s]..Chunks
    <2>1. target[s] \in 1..Chunks /\ since[s] \in 1..Chunks
      BY <1>2 DEF QueueInv, Types, Windows
    <2> QED
      BY <1>3, <2>1, ParametersAssumption DEF Windows
  <1>6. /\ filled' \in [Stocks -> SUBSET Windows]
        /\ \A u \in Stocks \ {s} : filled'[u] = filled[u]
        /\ filled'[s] = filled[s] \cup served
    BY <1>2, <1>3, <1>5 DEF QueueInv, Types
  <1>7. /\ work' \in [Workers -> WorkRec]
        /\ \A v \in Workers : /\ work'[v].batch = work[v].batch /\ work'[v].at = work[v].at
                              /\ work'[v] # Idle => work[v] # Idle
    <2>1. work[w] \in WorkRec /\ to \in {"no", "error", "rows"}
      BY DEF QueueInv, Types
    <2>2. [work[w] EXCEPT !.fetched = to] \in WorkRec
      BY <2>1 DEF WorkRec
    <2>3. work'[w] = [work[w] EXCEPT !.fetched = to] /\ \A v \in Workers \ {w} : work'[v] = work[v]
      BY <1>4 DEF QueueInv, Types
    <2>4. work'[w].batch = work[w].batch /\ work'[w].at = work[w].at
      BY <2>1, <2>3 DEF WorkRec
    <2> QED
      BY <1>1, <1>4, <2>2, <2>3, <2>4 DEF QueueInv, Types
  <1>8. \A v \in Workers : work[v].at \in Nat
    BY DEF QueueInv, Types, WorkRec
  <1>9. Shrunk
    BY <1>4, <1>7, <1>8 DEF Shrunk, QueueInv, Batches
  <1>10. \A u \in Stocks : misses[u] \in Nat
    BY ParametersAssumption DEF QueueInv, Types
  <1>11. Batches' /\ Mine' /\ Counted'
    BY <1>4, <1>9, <1>10, ShrunkKeeps DEF QueueInv, Types, Counted, ParkedInTime
  <1>12. Types'
    BY <1>4, <1>5, <1>6, <1>7 DEF QueueInv, Types
  <1>13. DoneInHistory'
    BY <1>2, <1>4, <1>6 DEF QueueInv, DoneInHistory, CompleteFromOwnStart
  <1> QED
    BY <1>11, <1>12, <1>13 DEF QueueInv

\* What settles a pass: the row of the stock, and of it alone.
LEMMA SettleStep ==
    ASSUME QueueInv, NEW w \in Workers, work[w] # Idle, NEW errors \in Nat,
           NEW stop \in BOOLEAN, Advance(w, errors, stop),
           UNCHANGED <<queue, since, target, pool, filled, events, shared>>,
           \/ /\ row' = [row EXCEPT ![Copy(w).stock].status = "done"] /\ misses' = misses
              /\ queue = "history" => CompleteFromOwnStart(Copy(w).stock)
           \/ row' = Missed(Copy(w)) /\ Miss(Copy(w).stock)
           \/ row' = row /\ Miss(Copy(w).stock)
    PROVE  QueueInv'
  <1> DEFINE s == Copy(w).stock
  <1>1. /\ s \in Stocks /\ Copy(w) \in Item /\ Copy(w).attempts <= misses[s]
        /\ row[s].status # Absent
    BY AtWork DEF Item
  <1>2. /\ Shrunk
        /\ \A v \in Workers : \A i \in DOMAIN work'[v].batch :
              Rest(v, i)' /\ StockAt(v, i) = s => StockAt(v, i) \in shared
    BY AdvanceShrinks
  <1>3. Copy(w).attempts \in 0..MaxAttempts - 1 /\ misses[s] \in 0..MaxAttempts /\ MaxAttempts \in Nat
    BY <1>1, ParametersAssumption DEF Item, QueueInv, Types
  <1>4. \/ misses' = misses
        \/ /\ misses' \in [Stocks -> 0..MaxAttempts]
           /\ \A u \in Stocks \ {s} : misses'[u] = misses[u]
           /\ misses'[s] = IF misses[s] < MaxAttempts THEN misses[s] + 1 ELSE misses[s]
    <2>1. CASE Miss(s)
      BY <1>1, <1>3, <2>1 DEF Miss, QueueInv, Types
    <2> QED
      BY <2>1
  <1>5. /\ row' \in [Stocks -> RowRec] /\ \A u \in Stocks \ {s} : row'[u] = row[u]
        /\ \/ /\ row'[s].status = "done" /\ row'[s].attempts = row[s].attempts /\ misses' = misses
              /\ queue = "history" => CompleteFromOwnStart(s)
           \/ /\ row'[s].attempts = Copy(w).attempts + 1 /\ Miss(s)
              /\ row'[s].status = IF Copy(w).attempts + 1 >= MaxAttempts THEN "failed" ELSE row[s].status
           \/ row'[s] = row[s]
    <2>1. CASE /\ row' = [row EXCEPT ![s].status = "done"] /\ misses' = misses
               /\ queue = "history" => CompleteFromOwnStart(s)
      <3>1. row[s] \in RowRec
        BY <1>1 DEF QueueInv, Types
      <3>2. [row[s] EXCEPT !.status = "done"] \in RowRec
        BY <3>1 DEF RowRec
      <3>3. [row[s] EXCEPT !.status = "done"].status = "done"
            /\ [row[s] EXCEPT !.status = "done"].attempts = row[s].attempts
        BY <3>1 DEF RowRec
      <3> HIDE DEF s
      <3> QED
        BY <1>1, <2>1, <3>2, <3>3 DEF QueueInv, Types
    <2>2. CASE row' = Missed(Copy(w)) /\ Miss(s)
      BY <1>1, <2>2, MissedRows DEF QueueInv
    <2>3. CASE row' = row
      BY <2>3 DEF QueueInv, Types
    <2> QED
      BY <2>1, <2>2, <2>3
  <1> HIDE DEF s
  <1>6. \A u \in Stocks : /\ row[u].attempts <= misses[u] /\ row[u].attempts \in Nat
                          /\ row[u].status = "failed" => misses[u] = MaxAttempts
                          /\ misses[u] \in 0..MaxAttempts
    BY <1>3 DEF QueueInv, Types, Counted, ParkedInTime, RowRec
  <1>7. misses' \in [Stocks -> 0..MaxAttempts] /\ \A u \in Stocks : misses'[u] >= misses[u]
    BY <1>3, <1>4, <1>6 DEF QueueInv, Types
  <1>8. \A u \in Stocks : /\ row[u].status # Absent => row'[u].status # Absent
                          /\ row'[u].attempts <= misses'[u]
                          /\ row'[u].status = "failed" => misses'[u] = MaxAttempts
    <2>1. \A u \in Stocks \ {s} : misses'[u] = misses[u]
      BY <1>4
    <2>2. ASSUME Miss(s) PROVE misses'[s] = IF misses[s] < MaxAttempts THEN misses[s] + 1 ELSE misses[s]
      BY <1>1, <2>2 DEF Miss, QueueInv, Types
    <2>3. row'[s].attempts <= misses'[s]
      BY <1>1, <1>3, <1>4, <1>5, <1>6, <1>7, <2>2
    <2>4. row'[s].status = "failed" => misses'[s] = MaxAttempts
      BY <1>1, <1>3, <1>4, <1>5, <1>6, <1>7, <2>2
    <2>5. row'[s].status # Absent
      BY <1>1, <1>5 DEF Absent
    <2> QED
      BY <1>5, <1>6, <2>1, <2>3, <2>4, <2>5
  <1>9. \A v \in Workers : \A i \in DOMAIN work'[v].batch : LET u == StockAt(v, i) IN
           Rest(v, i)' /\ row[u].status # "done" /\ row'[u].status = "done" => u \in shared
    <2> SUFFICES ASSUME NEW v \in Workers, NEW i \in DOMAIN work'[v].batch, Rest(v, i)',
                        row[StockAt(v, i)].status # "done", row'[StockAt(v, i)].status = "done"
                 PROVE  StockAt(v, i) \in shared
      OBVIOUS
    <2>1. StockAt(v, i) \in Stocks
      BY <1>2, ShrunkBatches DEF QueueInv
    <2>2. StockAt(v, i) = s
      BY <1>5, <2>1
    <2> QED
      BY <1>2, <2>2
  <1>10. Batches' /\ Mine' /\ Counted'
    BY <1>2, <1>5, <1>7, <1>8, <1>9, ShrunkKeeps
  <1>11. Types'
    BY <1>2, <1>5, <1>7 DEF QueueInv, Types, Shrunk
  <1>12. DoneInHistory'
    <2> SUFFICES ASSUME queue = "history", NEW u \in Stocks, row'[u].status = "done"
                 PROVE  u \in shared \/ CompleteFromOwnStart(u)
      BY DEF DoneInHistory, CompleteFromOwnStart
    <2>1. CASE row[u].status = "done"
      BY <2>1 DEF QueueInv, DoneInHistory
    <2>2. CASE row[u].status # "done"
      BY <1>5, <2>2
    <2> QED
      BY <2>1, <2>2
  <1> QED
    BY <1>10, <1>11, <1>12 DEF QueueInv

LEMMA SettlePassStep == ASSUME QueueInv, NEW w \in Workers, SettlePass(w) PROVE QueueInv'
  <1>1. work[w] # Idle
    BY WorkNotIdle DEF SettlePass, QueueInv
  <1>2. Copy(w).stock \in Stocks
    BY <1>1, AtWork DEF Item
  <1>3. Accepted(Copy(w)) => (queue = "history" => CompleteFromOwnStart(Copy(w).stock))
    BY <1>2, CompleteIsFromOwnStart DEF Accepted, AcceptedHistory, QueueInv
  <1> QED
    BY <1>1, <1>3, SettleStep DEF SettlePass, world

LEMMA SettleErrorStep == ASSUME QueueInv, NEW w \in Workers, SettleError(w) PROVE QueueInv'
  <1>1. work[w] # Idle
    BY WorkNotIdle DEF SettleError, QueueInv
  <1>2. work[w].errors + 1 \in Nat /\ (work[w].errors + 1 >= Breaker) \in BOOLEAN
    BY DEF QueueInv, Types, WorkRec
  <1>3. Advance(w, work[w].errors + 1, work[w].errors + 1 >= Breaker)
    BY DEF SettleError
  <1> QED
    BY <1>1, <1>2, <1>3, SettleStep DEF SettleError, world

\* What a step that touches no batch may do to the rows.
LEMMA OutsideStep ==
    ASSUME QueueInv, UNCHANGED <<queue, since, target, filled, shared>>,
           work' \in [Workers -> WorkRec], \A v \in Workers : work'[v] \in {work[v], Idle},
           row' \in [Stocks -> RowRec], misses' \in [Stocks -> 0..MaxAttempts],
           pool' \subseteq Stocks, events' \in 0..MaxEvents,
           \A s \in Stocks : \/ row'[s] = row[s] /\ misses'[s] = misses[s]
                             \/ /\ row'[s].status = "pending" /\ row'[s].attempts = 0
                                /\ misses'[s] = misses[s] \/ ~Held(s)
    PROVE  QueueInv'
  <1>1. \A v \in Workers : work[v].at \in Nat /\ Idle.batch = <<>>
    BY DEF QueueInv, Types, WorkRec, Idle
  <1>2. Shrunk
    BY <1>1 DEF Shrunk, QueueInv, Batches
  <1>3. \A s \in Stocks : /\ misses[s] \in Nat /\ misses'[s] \in Nat
                          /\ row[s].attempts <= misses[s]
                          /\ row[s].status = "failed" => misses[s] = MaxAttempts
    BY ParametersAssumption DEF QueueInv, Types, Counted, ParkedInTime
  <1>4. Batches' /\ Mine' /\ Counted'
    <2>1. \A s \in Stocks : /\ row[s].status # Absent => row'[s].status # Absent
                            /\ row'[s].attempts <= misses'[s]
                            /\ row'[s].status = "failed" => misses'[s] = MaxAttempts
                            /\ misses'[s] >= misses[s] \/ ~Held(s)
                            /\ row'[s].status = "done" => row[s].status = "done"
      BY <1>3 DEF Absent
    <2>2. \A v \in Workers : \A i \in DOMAIN work'[v].batch : StockAt(v, i) \in Stocks
      BY <1>2, ShrunkBatches DEF QueueInv
    <2> QED
      BY <1>2, <2>1, <2>2, ShrunkKeeps
  <1>5. Types'
    BY DEF QueueInv, Types
  <1>6. DoneInHistory'
    BY DEF QueueInv, DoneInHistory, CompleteFromOwnStart
  <1> QED
    BY <1>4, <1>5, <1>6 DEF QueueInv

LEMMA SpendTyped == ASSUME Types, Spend PROVE events' \in 0..MaxEvents
  BY ParametersAssumption DEF Types, Spend

LEMMA CrashStep == ASSUME QueueInv, NEW w \in Workers, Crash(w) PROVE QueueInv'
  <1>1. Idle \in WorkRec
    BY DEF Idle, WorkRec
  <1>2. work' = [work EXCEPT ![w] = Idle] /\ UNCHANGED <<world, row, filled, misses, shared>>
    BY DEF Crash
  <1>3. work' \in [Workers -> WorkRec] /\ \A v \in Workers : work'[v] \in {work[v], Idle}
    BY <1>1, <1>2 DEF QueueInv, Types
  <1>4. events' \in 0..MaxEvents
    BY SpendTyped DEF Crash, QueueInv
  <1> QED
    BY <1>2, <1>3, <1>4, OutsideStep DEF world, QueueInv, Types

LEMMA EnqueueStep == ASSUME QueueInv, NEW s \in Stocks, EnqueuePriority(s) PROVE QueueInv'
  <1> DEFINE new == [status |-> "pending", attempts |-> 0, priority |-> 0]
  <1>1. new \in RowRec
    BY ParametersAssumption DEF RowRec
  <1>2. row' \in [Stocks -> RowRec] /\ row'[s] = new /\ \A u \in Stocks \ {s} : row'[u] = row[u]
    BY <1>1 DEF EnqueuePriority, QueueInv, Types
  <1>3. /\ misses' \in [Stocks -> 0..MaxAttempts] /\ \A u \in Stocks \ {s} : misses'[u] = misses[u]
        /\ misses'[s] = misses[s] \/ ~Held(s)
    BY ParametersAssumption DEF EnqueuePriority, QueueInv, Types
  <1>4. events' \in 0..MaxEvents
    BY SpendTyped DEF EnqueuePriority, QueueInv
  <1>5. new.status = "pending" /\ new.attempts = 0
    OBVIOUS
  <1> HIDE DEF new
  <1> QED
    BY <1>2, <1>3, <1>4, <1>5, OutsideStep DEF EnqueuePriority, world, QueueInv, Types

LEMMA ResetStep == ASSUME QueueInv, ResetFailed PROVE QueueInv'
  <1>1. \A s \in Stocks : /\ [row[s] EXCEPT !.status = "pending", !.attempts = 0] \in RowRec
                          /\ [row[s] EXCEPT !.status = "pending", !.attempts = 0].status = "pending"
                          /\ [row[s] EXCEPT !.status = "pending", !.attempts = 0].attempts = 0
    <2> SUFFICES ASSUME NEW s \in Stocks
                 PROVE  /\ [row[s] EXCEPT !.status = "pending", !.attempts = 0] \in RowRec
                        /\ [row[s] EXCEPT !.status = "pending", !.attempts = 0].status = "pending"
                        /\ [row[s] EXCEPT !.status = "pending", !.attempts = 0].attempts = 0
      OBVIOUS
    <2> DEFINE r == row[s]
               mid == [r EXCEPT !.status = "pending"]
    <2>1. r \in RowRec
      BY DEF QueueInv, Types
    <2>2. 0 \in 0..MaxAttempts
      BY ParametersAssumption
    <2> HIDE DEF r
    <2>3. mid \in RowRec /\ mid.status = "pending"
      BY <2>1 DEF RowRec
    <2>4. DOMAIN mid = {"status", "attempts", "priority"}
      BY <2>3 DEF RowRec
    <2> HIDE DEF mid
    <2>5. /\ [mid EXCEPT !.attempts = 0] \in RowRec
          /\ [mid EXCEPT !.attempts = 0].status = "pending"
          /\ [mid EXCEPT !.attempts = 0].attempts = 0
      BY <2>2, <2>3, <2>4 DEF RowRec
    <2> QED
      BY <2>5 DEF mid, r
  <1>2. /\ row' \in [Stocks -> RowRec]
        /\ \A s \in Stocks : IF row[s].status # "failed" THEN row'[s] = row[s]
                             ELSE row'[s].status = "pending" /\ row'[s].attempts = 0
    BY <1>1 DEF ResetFailed, QueueInv, Types
  <1>3. /\ misses' \in [Stocks -> 0..MaxAttempts]
        /\ \A s \in Stocks : /\ row[s].status # "failed" => misses'[s] = misses[s]
                             /\ misses'[s] = misses[s] \/ ~Held(s)
    <2>1. misses' = [s \in Stocks |-> IF row[s].status = "failed" /\ ~Held(s) THEN 0 ELSE misses[s]]
      BY DEF ResetFailed
    <2>2. misses \in [Stocks -> 0..MaxAttempts]
      BY DEF QueueInv, Types
    <2>3. 0 \in 0..MaxAttempts
      BY ParametersAssumption
    <2> QED
      BY <2>1, <2>2, <2>3
  <1>4. events' \in 0..MaxEvents
    BY SpendTyped DEF ResetFailed, QueueInv
  <1> QED
    BY <1>2, <1>3, <1>4, OutsideStep DEF ResetFailed, world, QueueInv, Types

LEMMA ListedStep == ASSUME QueueInv, NEW s \in Stocks, Listed(s) PROVE QueueInv'
  BY OutsideStep DEF Listed, QueueInv, Types

\* A batch begins with rows that are pending, and shares what another batch holds.
LEMMA BeginStep ==
    ASSUME QueueInv, NEW w \in Workers, Begin(w), events' \in 0..MaxEvents PROVE QueueInv'
  <1>1. PICK batch \in NextPending(Seeded) : work' = [work EXCEPT ![w] = [Idle EXCEPT !.batch = batch]]
    BY DEF Begin
  <1>2. /\ row' = Seeded /\ UNCHANGED <<queue, since, target, pool, filled, misses>>
        /\ shared' = shared \cup {s \in Stocks : Held(s) /\ \E i \in DOMAIN work'[w].batch : work'[w].batch[i].stock = s}
    BY DEF Begin, world
  <1> DEFINE new == [Idle EXCEPT !.batch = batch]
  <1>3. /\ batch \in Seq(Item)
        /\ \A i \in DOMAIN batch : /\ batch[i].stock \in Stocks
                                   /\ Seeded[batch[i].stock].status = "pending"
                                   /\ batch[i].attempts = Seeded[batch[i].stock].attempts
        /\ \A i, j \in DOMAIN batch : batch[i].stock = batch[j].stock => i = j
    BY BatchOfDue, SeededRows DEF QueueInv
  <1>4. /\ new \in WorkRec /\ new.batch = batch /\ new.at = 1
        /\ new # Idle => 1 \in DOMAIN batch
    <2>1. new = [batch |-> batch, at |-> 1, errors |-> 0, fetched |-> "no"]
      BY DEF Idle
    <2>2. batch = <<>> \/ 1 \in DOMAIN batch
      BY <1>3
    <2> QED
      BY <1>3, <2>1, <2>2 DEF WorkRec, Idle
  <1> HIDE DEF new
  <1>5. /\ work' \in [Workers -> WorkRec] /\ work'[w] = new
        /\ \A v \in Workers \ {w} : work'[v] = work[v]
    BY <1>1, <1>4 DEF QueueInv, Types, new
  <1>6. /\ Seeded \in [Stocks -> RowRec]
        /\ \A s \in Stocks : \/ Seeded[s] = row[s]
                             \/ /\ row[s].status = Absent /\ Seeded[s].attempts = 0
                                /\ \/ Seeded[s].status = "pending"
                                   \/ Seeded[s].status = "done" /\ Complete(s)
    BY SeededRows DEF QueueInv
  <1>7. \A v \in Workers \ {w} : \A i \in DOMAIN work[v].batch :
           StockAt(v, i)' = StockAt(v, i) /\ (Rest(v, i)' <=> Rest(v, i)) /\ Held(StockAt(v, i))
           /\ StockAt(v, i) \in Stocks
    <2>1. ASSUME NEW v \in Workers \ {w}, NEW i \in DOMAIN work[v].batch
          PROVE  work[v].batch[i] \in Item
      BY <2>1 DEF QueueInv, Types, WorkRec
    <2> QED
      BY <1>5, <2>1 DEF StockAt, Rest, Held, Item
  <1>8. \A i \in DOMAIN batch : StockAt(w, i)' = batch[i].stock
    BY <1>4, <1>5 DEF StockAt
  <1>9. \A v \in Workers \ {w} : \A i \in DOMAIN work[v].batch, j \in DOMAIN batch :
           StockAt(v, i) = batch[j].stock => StockAt(v, i) \in shared'
    BY <1>2, <1>4, <1>5, <1>7
  <1>10. Batches'
    <2>1. \A v \in Workers : work'[v] # Idle => work'[v].at \in DOMAIN work'[v].batch
      BY <1>4, <1>5 DEF QueueInv, Batches
    <2>2. \A v \in Workers : \A i, j \in DOMAIN work'[v].batch : StockAt(v, i)' = StockAt(v, j)' => i = j
      BY <1>3, <1>4, <1>5, <1>7, <1>8 DEF QueueInv, Batches
    <2>3. ASSUME NEW u \in Workers, NEW v \in Workers, u # v, NEW i \in DOMAIN work'[u].batch,
                 NEW j \in DOMAIN work'[v].batch, StockAt(u, i)' = StockAt(v, j)'
          PROVE  StockAt(u, i)' \in shared'
      <3>1. CASE u = w
        BY <1>4, <1>5, <1>7, <1>8, <1>9, <2>3, <3>1
      <3>2. CASE v = w
        BY <1>4, <1>5, <1>7, <1>8, <1>9, <2>3, <3>2
      <3>3. CASE u # w /\ v # w
        BY <1>2, <1>5, <1>7, <2>3, <3>3 DEF QueueInv, Batches
      <3> QED
        BY <3>1, <3>2, <3>3
    <2> QED
      BY <2>1, <2>2, <2>3 DEF Batches
  <1>11. Mine'
    <2> SUFFICES ASSUME NEW v \in Workers, NEW i \in DOMAIN work'[v].batch, Rest(v, i)'
                 PROVE  /\ Seeded[StockAt(v, i)'].status # Absent
                        /\ Seeded[StockAt(v, i)'].status = "done" => StockAt(v, i)' \in shared'
      BY <1>2 DEF Mine
    <2>1. CASE v = w
      BY <1>3, <1>4, <1>5, <1>8, <2>1 DEF Absent
    <2>2. CASE v # w
      BY <1>2, <1>5, <1>6, <1>7, <2>2 DEF QueueInv, Mine
    <2> QED
      BY <2>1, <2>2
  <1>12. \A s \in Stocks : misses[s] \in Nat /\ row[s].attempts <= misses[s] /\ Seeded[s].attempts <= misses[s]
    BY <1>6, ParametersAssumption DEF QueueInv, Types, Counted
  <1>13. Counted'
    <2>1. ParkedInTime'
      BY <1>2, <1>6 DEF ParkedInTime, QueueInv, Counted
    <2>2. ASSUME NEW v \in Workers, NEW i \in DOMAIN work'[v].batch, Rest(v, i)'
          PROVE  work'[v].batch[i].attempts <= misses[StockAt(v, i)']
      <3>1. CASE v = w
        BY <1>3, <1>4, <1>5, <1>8, <1>12, <3>1
      <3>2. CASE v # w
        BY <1>5, <1>7, <2>2, <3>2 DEF QueueInv, Counted
      <3> QED
        BY <3>1, <3>2
    <2> QED
      BY <1>2, <1>12, <2>1, <2>2 DEF Counted
  <1>14. DoneInHistory'
    <2> SUFFICES ASSUME queue = "history", NEW s \in Stocks, Seeded[s].status = "done"
                 PROVE  s \in shared' \/ CompleteFromOwnStart(s)
      BY <1>2 DEF DoneInHistory, CompleteFromOwnStart
    <2>1. CASE Seeded[s] = row[s]
      BY <1>2, <2>1 DEF QueueInv, DoneInHistory
    <2>2. CASE Seeded[s].status = "done" /\ Complete(s)
      BY <2>2, CompleteIsFromOwnStart DEF QueueInv
    <2> QED
      BY <1>6, <2>1, <2>2
  <1>15. Types'
    BY <1>2, <1>5, <1>6 DEF QueueInv, Types
  <1> QED
    BY <1>10, <1>11, <1>13, <1>14, <1>15 DEF QueueInv

LEMMA InitQueueInv == Init => QueueInv
  <1> SUFFICES ASSUME Init PROVE QueueInv
    OBVIOUS
  <1>1. NoRow \in RowRec /\ NoRow.status = Absent /\ NoRow.attempts = 0
    BY ParametersAssumption DEF NoRow, RowRec
  <1>2. Idle \in WorkRec /\ Idle.batch = <<>>
    BY DEF Idle, WorkRec
  <1>3. Types
    BY <1>1, <1>2, ParametersAssumption DEF Init, Types
  <1>4. /\ \A w \in Workers : work[w] = Idle /\ DOMAIN work[w].batch = {}
        /\ \A s \in Stocks : row[s] = NoRow /\ misses[s] = 0
    BY <1>2 DEF Init
  <1>5. Batches /\ Mine
    BY <1>4 DEF Batches, Mine
  <1>6. Counted /\ DoneInHistory
    BY <1>1, <1>4 DEF Counted, DoneInHistory, ParkedInTime, Absent
  <1> QED
    BY <1>3, <1>5, <1>6 DEF QueueInv

LEMMA NextQueueInv == QueueInv /\ [Next]_vars => QueueInv'
  <1> SUFFICES ASSUME QueueInv, [Next]_vars PROVE QueueInv'
    OBVIOUS
  <1>1. "tick" \in Workers /\ "console" \in Workers
    BY DEF Workers
  <1>2. CASE Tick
    BY <1>1, <1>2, BeginStep DEF Tick, QueueInv, Types
  <1>3. CASE ConsoleBatch
    BY <1>1, <1>3, BeginStep, SpendTyped DEF ConsoleBatch, QueueInv
  <1>4. ASSUME NEW w \in Workers, Work(w) PROVE QueueInv'
    BY <1>4, FetchStep, SettlePassStep, SettleErrorStep DEF Work
  <1>5. CASE UNCHANGED vars
    BY <1>5, OutsideStep DEF vars, QueueInv, Types
  <1> QED
    BY <1>2, <1>3, <1>4, <1>5, CrashStep, EnqueueStep, ListedStep, ResetStep DEF Next

\* Both queues, with ticks and console batches that overlap, lost and doubled counts,
\* requeues, resets and crashes: what is marked done has no hole, unless two batches shared
\* the stock, and what is parked has missed MAX_ATTEMPTS passes.
THEOREM QueueSettlesTruly == Spec => []SettledTruly
  <1>1. Init /\ [][Next]_vars => []QueueInv
    BY InitQueueInv, NextQueueInv, PTL
  <1>2. Init /\ [][Next]_vars => [](queue = "rebuild" => DoneHasNoHole)
    <2>1. IInv => (queue = "rebuild" => DoneHasNoHole)
      BY DEF IInv, RebuildDoneIsWhole, DoneHasNoHole
    <2> QED
      BY <2>1, InitIInv, StepIInv, PTL
  <1>3. QueueInv /\ (queue = "rebuild" => DoneHasNoHole) => SettledTruly
    <2> SUFFICES ASSUME QueueInv, queue = "rebuild" => DoneHasNoHole PROVE SettledTruly
      OBVIOUS
    <2>1. DoneHasNoHole
      BY DEF QueueInv, Types, DoneInHistory, DoneHasNoHole
    <2>2. TypeOK
      BY DEF QueueInv, Types, Batches, RowRec, TypeOK
    <2> QED
      BY <2>1, <2>2 DEF SettledTruly, QueueInv, Counted
  <1> QED
    BY <1>1, <1>2, <1>3, PTL DEF Spec
===============================================================================
