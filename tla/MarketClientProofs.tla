------------------------- MODULE MarketClientProofs -------------------------
(* Theorems about MarketClient for every number of threads and every value *)
(* of its timing parameters.                                                *)
EXTENDS MarketClient, FiniteSetTheorems, TLAPS

PCs == {"idle", "gate", "pacing", "send", "await", "throttle", "throttled", "resubmit",
        "wait", "backoff"}
Results == {"none", "rows", "part", "empty", "error"}

\* What every fetcher says of itself.
FetcherOK(f) ==
    /\ f.sources \in Seq({"alt", "classic", "minute", "em"}) /\ f.sources # <<>>
    /\ f.calls \in 1..Larger(Pages, 2) /\ f.raises \in BOOLEAN
    /\ f.attempts \in 1..Attempts /\ f.each \in BOOLEAN

\* The thread's part of the state.
ThreadsOK ==
    /\ pc \in [Threads -> PCs] /\ kind \in [Threads -> Kinds]
    /\ tries \in [Threads -> 1..Attempts] /\ page \in [Threads -> 1..Larger(Pages, 2)]
    /\ timer \in [Threads -> Nat] /\ result \in [Threads -> Results] /\ src \in [Threads -> Nat]
    /\ \A t \in Threads : /\ kind[t] \in Fetches[t] /\ tries[t] <= Fetch(t).attempts
                          /\ page[t] <= Fetch(t).calls

PaceOK ==
    /\ lock \in Threads \cup {Free} /\ since \in 0..MinInterval + Jitter /\ sinceCall \in 0..MinCall
    /\ cooling \in [Hosts -> 0..Cooldown] /\ asked \in [Threads -> [Hosts -> 0..2]]

\* A call of a thread that waits is in the executor once: it runs, or it has one place in
\* the queue.
PoolOK ==
    /\ queue \in Seq(Threads \cup {Orphan}) /\ running \subseteq Threads /\ zombies \in Nat
    /\ IsFiniteSet(running) /\ Cardinality(running) + zombies <= Workers
    /\ \A i, j \in DOMAIN queue : queue[i] = queue[j] => i = j \/ queue[i] = Orphan
    /\ \A i \in DOMAIN queue : queue[i] \notin running
    /\ \A t \in Threads : (t \in running \/ \E i \in DOMAIN queue : queue[i] = t) <=> pc[t] = "wait"

Inv == ThreadsOK /\ PaceOK /\ PoolOK

-----------------------------------------------------------------------------
(* The fetchers.                                                            *)

LEMMA KindsAre ==
    Kinds = {"quotes", "raw", "hfq", "minutes", "index", "spot", "table", "seats", "north",
             "calendar"}
  BY DEF Kinds, Fetchers

LEMMA FetchersOK == ASSUME NEW k \in Kinds PROVE FetcherOK(Fetchers[k])
  <1> USE ParametersAssumption DEF Fetcher, FetcherOK, Larger
  <1>1. /\ FetcherOK(Quotes) /\ FetcherOK(RawQuotes) /\ FetcherOK(HfqQuotes)
    BY DEF Quotes, RawQuotes, HfqQuotes, DailyHosts
  <1>2. FetcherOK(Minutes) /\ FetcherOK(Index) /\ FetcherOK(Spot)
    BY DEF Minutes, Index, Spot
  <1>3. FetcherOK(Table) /\ FetcherOK(Seats) /\ FetcherOK(NorthFlow) /\ FetcherOK(TradeCalendar)
    BY DEF Table, Seats, NorthFlow, TradeCalendar
  <1> HIDE DEF FetcherOK
  <1> QED
    BY <1>1, <1>2, <1>3, KindsAre DEF Fetchers

\* The fetch a thread makes.
LEMMA FetchOK == ASSUME ThreadsOK, NEW t \in Threads PROVE FetcherOK(Fetch(t))
  BY FetchersOK DEF ThreadsOK, Fetch

LEMMA EntryIs == ASSUME NEW s PROVE Entry(s) \in {"gate", "throttle"}
  BY DEF Entry

-----------------------------------------------------------------------------
(* What ends a call, in any of its ways, makes of its thread.                *)

Turned(t) ==
    /\ ThreadsOK'
    /\ \E step \in {"idle", "gate", "throttle", "resubmit", "backoff"} : Goto(t, step)
    /\ kind' = kind /\ \A u \in Threads \ {t} : src'[u] = src[u] /\ timer'[u] = timer[u]

LEMMA ReturnTurns ==
    ASSUME ThreadsOK, NEW t \in Threads, NEW res \in Results, Return(t, res) PROVE Turned(t)
  BY DEF ThreadsOK, Return, Turned, Goto, PCs, Fetch

LEMMA EndedTurns == ASSUME ThreadsOK, NEW t \in Threads, Ended(t) PROVE Turned(t)
  BY ReturnTurns DEF Ended, Results

LEMMA FallThroughTurns == ASSUME ThreadsOK, NEW t \in Threads, FallThrough(t) PROVE Turned(t)
  <1>1. CASE src[t] = Len(Fetch(t).sources)
    BY <1>1, EndedTurns DEF FallThrough
  <1>2. CASE src[t] # Len(Fetch(t).sources)
    <2>1. PICK step \in {"gate", "throttle"} : Goto(t, step)
      BY <1>2, EntryIs DEF FallThrough
    <2>2. /\ src' = [src EXCEPT ![t] = @ + 1] /\ timer' = [timer EXCEPT ![t] = 0]
          /\ UNCHANGED <<kind, tries, page, result>>
      BY <1>2 DEF FallThrough
    <2>3. src' \in [Threads -> Nat] /\ \A u \in Threads \ {t} : src'[u] = src[u]
      BY <2>2 DEF ThreadsOK
    <2>4. timer' \in [Threads -> Nat] /\ \A u \in Threads \ {t} : timer'[u] = timer[u]
      BY <2>2 DEF ThreadsOK
    <2>5. pc' \in [Threads -> PCs]
      BY <2>1 DEF ThreadsOK, Goto, PCs
    <2> QED
      BY <2>1, <2>2, <2>3, <2>4, <2>5 DEF ThreadsOK, Turned, Fetch
  <1> QED
    BY <1>1, <1>2

LEMMA NextCallTurns ==
    ASSUME ThreadsOK, NEW t \in Threads, More(t), NextCall(t) PROVE Turned(t)
  <1>1. PICK step \in {"gate", "throttle", "resubmit"} : Goto(t, step)
    BY EntryIs DEF NextCall
  <1>2. page[t] + 1 \in 1..Larger(Pages, 2) /\ page[t] + 1 <= Fetch(t).calls
    BY FetchOK, ParametersAssumption DEF ThreadsOK, More, FetcherOK, Larger
  <1> QED
    BY <1>1, <1>2 DEF ThreadsOK, NextCall, Turned, Goto, PCs, Fetch

LEMMA NoRowsTurns == ASSUME ThreadsOK, NEW t \in Threads, NoRows(t) PROVE Turned(t)
  BY EndedTurns, NextCallTurns, FallThroughTurns DEF NoRows

LEMMA RowsTurns == ASSUME ThreadsOK, NEW t \in Threads, Rows(t) PROVE Turned(t)
  BY ReturnTurns, NextCallTurns DEF Rows, Results

LEMMA FailedTurns == ASSUME ThreadsOK, NEW t \in Threads, Failed(t) PROVE Turned(t)
  <1>1. CASE ~Fetch(t).raises
    BY <1>1, FallThroughTurns DEF Failed
  <1>2. CASE Fetch(t).raises /\ tries[t] = Fetch(t).attempts
    BY <1>2, ReturnTurns DEF Failed, Results
  <1>3. CASE Fetch(t).raises /\ tries[t] # Fetch(t).attempts
    <2>1. tries[t] + 1 \in 1..Attempts /\ tries[t] + 1 <= Fetch(t).attempts
      BY <1>3, FetchOK, ParametersAssumption DEF ThreadsOK, FetcherOK
    <2>2. 1 \in 1..Larger(Pages, 2) /\ 1 <= Fetch(t).calls
      BY FetchOK, ParametersAssumption DEF FetcherOK, Larger
    <2> QED
      BY <1>3, <2>1, <2>2, ParametersAssumption DEF Failed, ThreadsOK, Turned, Goto, PCs, Fetch
  <1> QED
    BY <1>1, <1>2, <1>3

-----------------------------------------------------------------------------
(* The executor.                                                            *)

\* A step of a thread that neither begins nor ends to wait.
LEMMA PoolStays ==
    ASSUME Inv, NEW t \in Threads, NEW step, Goto(t, step), step # "wait", pc[t] # "wait",
           UNCHANGED poolVars
    PROVE  PoolOK'
  <1>1. \A u \in Threads : pc'[u] = "wait" <=> pc[u] = "wait"
    BY DEF Goto, Inv, ThreadsOK
  <1>2. queue' = queue /\ running' = running /\ zombies' = zombies
    BY DEF poolVars
  <1> QED
    BY <1>1, <1>2 DEF Inv, PoolOK

\* The other threads wait where they waited.
LEMMA OthersWait ==
    ASSUME Inv, NEW t \in Threads, Turned(t)
    PROVE  pc'[t] # "wait" /\ \A u \in Threads \ {t} : pc'[u] = pc[u]
  BY DEF Turned, Goto, Inv, ThreadsOK

LEMMA SubmitPool == ASSUME Inv, NEW t \in Threads, Submit(t) PROVE PoolOK'
  <1>1. t \notin running /\ \A i \in DOMAIN queue : queue[i] # t
    BY DEF Submit, Inv, PoolOK
  <1>2. /\ queue \in Seq(Threads \cup {Orphan}) /\ queue' = Append(queue, t)
        /\ running' = running /\ zombies' = zombies
    BY DEF Submit, Inv, PoolOK
  <1>3. /\ queue' \in Seq(Threads \cup {Orphan}) /\ Len(queue') = Len(queue) + 1
        /\ DOMAIN queue = 1..Len(queue) /\ DOMAIN queue' = 1..Len(queue) + 1
        /\ \A i \in DOMAIN queue : queue'[i] = queue[i]
        /\ queue'[Len(queue) + 1] = t
    BY <1>2
  <1>4. \A i, j \in DOMAIN queue' : queue'[i] = queue'[j] => i = j \/ queue'[i] = Orphan
    BY <1>1, <1>3 DEF Inv, PoolOK
  <1>5. \A i \in DOMAIN queue' : queue'[i] \notin running
    BY <1>1, <1>3 DEF Inv, PoolOK
  <1>6. \A u \in Threads : pc'[u] = IF u = t THEN "wait" ELSE pc[u]
    BY DEF Submit, Goto, Inv, ThreadsOK
  <1>7. \A u \in Threads : (\E i \in DOMAIN queue' : queue'[i] = u)
                              <=> u = t \/ \E i \in DOMAIN queue : queue[i] = u
    <2>1. Len(queue) + 1 \in DOMAIN queue' /\ DOMAIN queue \subseteq DOMAIN queue'
      BY <1>2, <1>3
    <2>2. \A i \in DOMAIN queue' : i \in DOMAIN queue \/ i = Len(queue) + 1
      BY <1>2, <1>3
    <2> QED
      BY <1>3, <2>1, <2>2
  <1>8. \A u \in Threads : (u \in running \/ \E i \in DOMAIN queue' : queue'[i] = u) <=> pc'[u] = "wait"
    BY <1>6, <1>7 DEF Inv, PoolOK
  <1> QED
    BY <1>2, <1>3, <1>4, <1>5, <1>8 DEF Inv, PoolOK

LEMMA WorkerTakesPool == ASSUME Inv, WorkerTakes PROVE PoolOK'
  <1> DEFINE h == Head(queue)
  <1>1. /\ queue \in Seq(Threads \cup {Orphan}) /\ queue # <<>> /\ queue' = Tail(queue)
        /\ IsFiniteSet(running) /\ Cardinality(running) + zombies < Workers
        /\ pc' = pc /\ zombies \in Nat
    BY DEF WorkerTakes, Inv, PoolOK, threadVars
  <1>2. /\ DOMAIN queue = 1..Len(queue) /\ Len(queue) \in Nat \ {0} /\ h = queue[1]
        /\ queue' \in Seq(Threads \cup {Orphan}) /\ DOMAIN queue' = 1..Len(queue) - 1
        /\ \A i \in DOMAIN queue' : queue'[i] = queue[i + 1] /\ i + 1 \in DOMAIN queue
    BY <1>1
  <1>3. \A i, j \in DOMAIN queue' : queue'[i] = queue'[j] => i = j \/ queue'[i] = Orphan
    BY <1>2 DEF Inv, PoolOK
  <1>4. \A i \in DOMAIN queue' : queue'[i] \notin running /\ (queue'[i] = h => h = Orphan)
    <2>1. 1 \in DOMAIN queue
      BY <1>2
    <2> QED
      BY <1>2, <2>1 DEF Inv, PoolOK
  <1>5. \A u \in Threads : (\E i \in DOMAIN queue : queue[i] = u)
                              <=> u = h \/ \E i \in DOMAIN queue' : queue'[i] = u
    <2>1. 1 \in DOMAIN queue /\ \A i \in DOMAIN queue : i = 1 \/ i - 1 \in DOMAIN queue'
      BY <1>2
    <2>2. \A i \in DOMAIN queue : i # 1 => queue'[i - 1] = queue[i]
      BY <1>2
    <2> QED
      BY <1>2, <2>1, <2>2
  <1>6. CASE h = Orphan
    <2>1. running' = running /\ zombies' = zombies + 1
      BY <1>6 DEF WorkerTakes
    <2>2. \A u \in Threads : (u \in running \/ \E i \in DOMAIN queue' : queue'[i] = u) <=> pc'[u] = "wait"
      BY <1>1, <1>5, <1>6, ParametersAssumption DEF Inv, PoolOK
    <2>3. Cardinality(running) \in Nat
      BY <1>1, FS_CardinalityType
    <2> QED
      BY <1>1, <1>2, <1>3, <1>4, <2>1, <2>2, <2>3, ParametersAssumption DEF Inv, PoolOK
  <1>7. CASE h # Orphan
    <2>1. running' = running \cup {h} /\ zombies' = zombies /\ h \in Threads
      BY <1>1, <1>2, <1>7 DEF WorkerTakes
    <2>2. h \notin running
      BY <1>2 DEF Inv, PoolOK
    <2>3. IsFiniteSet(running') /\ Cardinality(running') = Cardinality(running) + 1
          /\ Cardinality(running) \in Nat
      BY <1>1, <2>1, <2>2, FS_AddElement, FS_CardinalityType
    <2>4. \A u \in Threads : (u \in running' \/ \E i \in DOMAIN queue' : queue'[i] = u) <=> pc'[u] = "wait"
      BY <1>1, <1>5, <2>1 DEF Inv, PoolOK
    <2>5. \A i \in DOMAIN queue' : queue'[i] \notin running'
      BY <1>4, <1>7, <2>1
    <2>6. running' \subseteq Threads
      BY <2>1 DEF Inv, PoolOK
    <2> QED
      BY <1>1, <1>2, <1>3, <2>1, <2>3, <2>4, <2>5, <2>6, ParametersAssumption DEF PoolOK
  <1> QED
    BY <1>6, <1>7

\* An answer for a call that runs frees its worker.
LEMMA ReplyPool ==
    ASSUME Inv, NEW t \in Threads, NEW a \in {"rows", "empty", "failed"}, Reply(t, a), Turned(t)
    PROVE  PoolOK'
  <1>1. /\ t \in running /\ running' = running \ {t} /\ queue' = queue /\ zombies' = zombies
    BY DEF Reply
  <1>2. /\ IsFiniteSet(running') /\ Cardinality(running') = Cardinality(running) - 1
        /\ Cardinality(running) \in Nat
    BY <1>1, FS_RemoveElement, FS_CardinalityType DEF Inv, PoolOK
  <1>3. \A i \in DOMAIN queue : queue[i] # t
    BY <1>1 DEF Inv, PoolOK
  <1> QED
    BY <1>1, <1>2, <1>3, OthersWait, ParametersAssumption DEF Inv, PoolOK

\* An abandoned call leaves the others their places.
LEMMA AbandonedQueue ==
    ASSUME Inv, NEW t \in Threads, t \notin running, pc[t] = "wait"
    PROVE  /\ Abandoned(t) \in Seq(Threads \cup {Orphan})
           /\ \A i, j \in DOMAIN Abandoned(t) :
                 Abandoned(t)[i] = Abandoned(t)[j] => i = j \/ Abandoned(t)[i] = Orphan
           /\ \A i \in DOMAIN Abandoned(t) : Abandoned(t)[i] \notin running
           /\ \A u \in Threads : (\E i \in DOMAIN Abandoned(t) : Abandoned(t)[i] = u)
                                    <=> u # t /\ \E i \in DOMAIN queue : queue[i] = u
  <1> DEFINE p == Place(t)
             n == Len(queue)
  <1>1. /\ queue \in Seq(Threads \cup {Orphan}) /\ DOMAIN queue = 1..n /\ n \in Nat
        /\ Orphan \notin Threads /\ Orphan \notin running
    BY ParametersAssumption DEF Inv, PoolOK
  <1>2. p \in DOMAIN queue /\ queue[p] = t
    BY DEF Inv, PoolOK, Place
  <1>3. \A i \in DOMAIN queue : queue[i] = t => i = p
    BY <1>1, <1>2 DEF Inv, PoolOK
  <1>4. CASE Cardinality({i \in DOMAIN queue : queue[i] = Orphan}) < OrphanCap
    <2>1. Abandoned(t) = [queue EXCEPT ![p] = Orphan]
      BY <1>4 DEF Abandoned
    <2> HIDE DEF p
    <2>2. /\ Abandoned(t) \in Seq(Threads \cup {Orphan}) /\ DOMAIN Abandoned(t) = DOMAIN queue
          /\ \A i \in DOMAIN queue : Abandoned(t)[i] = IF i = p THEN Orphan ELSE queue[i]
      BY <1>1, <1>2, <2>1
    <2> QED
      BY <1>1, <1>2, <1>3, <2>2 DEF Inv, PoolOK
  <1>5. CASE ~(Cardinality({i \in DOMAIN queue : queue[i] = Orphan}) < OrphanCap)
    <2>1. Abandoned(t) = [i \in 1..n - 1 |-> IF i < p THEN queue[i] ELSE queue[i + 1]]
      BY <1>5 DEF Abandoned
    <2> HIDE DEF p, n
    <2> DEFINE from(i) == IF i < p THEN i ELSE i + 1
    <2>2. n \in Nat \ {0} /\ p \in 1..n
      BY <1>1, <1>2
    <2>3. \A i \in 1..n - 1 : from(i) \in 1..n /\ from(i) # p
      BY <2>2
    <2>4. \A i, j \in 1..n - 1 : from(i) = from(j) => i = j
      BY <2>2
    <2>5. \A k \in 1..n : k # p => \E i \in 1..n - 1 : from(i) = k
      <3> TAKE k \in 1..n
      <3> HAVE k # p
      <3>1. CASE k < p
        <4>1. k \in 1..n - 1 /\ from(k) = k
          BY <2>2, <3>1
        <4> QED
          BY <4>1
      <3>2. CASE k > p
        <4>1. k - 1 \in 1..n - 1 /\ from(k - 1) = k
          BY <2>2, <3>2
        <4> QED
          BY <4>1
      <3> QED
        BY <2>2, <3>1, <3>2
    <2>6. \A i \in 1..n - 1 : Abandoned(t)[i] = queue[from(i)]
      BY <2>1
    <2> HIDE DEF from
    <2>7. DOMAIN Abandoned(t) = 1..n - 1 /\ n - 1 \in Nat
      BY <2>1, <2>2
    <2>8. Abandoned(t) \in [1..n - 1 -> Threads \cup {Orphan}]
      BY <1>1, <2>1, <2>3, <2>6
    <2>9. Abandoned(t) \in Seq(Threads \cup {Orphan})
      BY <2>7, <2>8
    <2>10. \A i, j \in 1..n - 1 :
              Abandoned(t)[i] = Abandoned(t)[j] => i = j \/ Abandoned(t)[i] = Orphan
      BY <1>1, <2>3, <2>4, <2>6 DEF Inv, PoolOK
    <2>11. \A i \in 1..n - 1 : Abandoned(t)[i] \notin running
      BY <1>1, <2>3, <2>6 DEF Inv, PoolOK
    <2>12. \A u \in Threads : (\E i \in 1..n - 1 : Abandoned(t)[i] = u)
                                 <=> u # t /\ \E i \in DOMAIN queue : queue[i] = u
      <3> SUFFICES ASSUME NEW u \in Threads
                   PROVE  (\E i \in 1..n - 1 : Abandoned(t)[i] = u)
                             <=> u # t /\ \E i \in DOMAIN queue : queue[i] = u
        OBVIOUS
      <3>1. DOMAIN queue = 1..n
        BY <1>1 DEF n
      <3>2. ASSUME NEW i \in 1..n - 1, Abandoned(t)[i] = u
            PROVE  u # t /\ \E k \in DOMAIN queue : queue[k] = u
        BY <1>3, <2>3, <2>6, <3>1, <3>2
      <3>3. ASSUME u # t, NEW k \in DOMAIN queue, queue[k] = u
            PROVE  \E i \in 1..n - 1 : Abandoned(t)[i] = u
        BY <1>2, <2>5, <2>6, <3>1, <3>3
      <3> QED
        BY <3>2, <3>3
    <2> QED
      BY <2>7, <2>9, <2>10, <2>11, <2>12
  <1> QED
    BY <1>4, <1>5

LEMMA DeadlinePool == ASSUME Inv, NEW t \in Threads, Deadline(t), Turned(t) PROVE PoolOK'
  <1>1. CASE t \in running
    <2>1. running' = running \ {t} /\ zombies' = zombies + 1 /\ queue' = queue
      BY <1>1 DEF Deadline
    <2>2. /\ IsFiniteSet(running') /\ Cardinality(running') = Cardinality(running) - 1
          /\ Cardinality(running) \in Nat
      BY <1>1, <2>1, FS_RemoveElement, FS_CardinalityType DEF Inv, PoolOK
    <2>3. \A i \in DOMAIN queue : queue[i] # t
      BY <1>1 DEF Inv, PoolOK
    <2>4. \A u \in Threads : (u \in running' \/ \E i \in DOMAIN queue : queue[i] = u) <=> pc'[u] = "wait"
      BY <2>1, <2>3, OthersWait DEF Inv, PoolOK
    <2>5. Cardinality(running') + zombies' <= Workers /\ zombies' \in Nat
      BY <2>1, <2>2, ParametersAssumption DEF Inv, PoolOK
    <2> QED
      BY <2>1, <2>2, <2>4, <2>5 DEF Inv, PoolOK
  <1>2. CASE t \notin running
    <2>1. running' = running /\ zombies' = zombies /\ queue' = Abandoned(t) /\ pc[t] = "wait"
      BY <1>2 DEF Deadline
    <2>2. \A u \in Threads : (u \in running \/ \E i \in DOMAIN Abandoned(t) : Abandoned(t)[i] = u)
                                <=> pc'[u] = "wait"
      BY <1>2, <2>1, AbandonedQueue, OthersWait DEF Inv, PoolOK
    <2> QED
      BY <1>2, <2>1, <2>2, AbandonedQueue DEF Inv, PoolOK
  <1> QED
    BY <1>1, <1>2

-----------------------------------------------------------------------------
(* One lemma per action: it preserves the invariant.                        *)

LEMMA PaceStays == ASSUME PaceOK, UNCHANGED paceVars, sinceCall' \in 0..MinCall PROVE PaceOK'
  BY DEF PaceOK, paceVars

\* A step of its own that only takes a thread on.
LEMMA ThreadGoes ==
    ASSUME ThreadsOK, NEW t \in Threads, NEW step \in PCs, Goto(t, step),
           timer' \in [Threads -> Nat], UNCHANGED <<kind, src, tries, page, result>>
    PROVE  ThreadsOK'
  BY DEF ThreadsOK, Goto, Fetch

LEMMA TimerSet ==
    ASSUME ThreadsOK, NEW t \in Threads, NEW n \in Int, timer' = [timer EXCEPT ![t] = Left(n)]
    PROVE  timer' \in [Threads -> Nat]
  BY DEF ThreadsOK, Left

LEMMA BeginStep ==
    ASSUME Inv, NEW t \in Threads, NEW k \in Fetches[t], Begin(t, k) PROVE Inv'
  <1>1. PICK step \in {"gate", "throttle"} : Goto(t, step)
    BY EntryIs DEF Begin
  <1>2. k \in Kinds /\ 1 \in 1..Attempts /\ 1 \in 1..Larger(Pages, 2)
    BY ParametersAssumption DEF Larger
  <1>3. 1 <= Fetchers[k].attempts /\ 1 <= Fetchers[k].calls
    BY <1>2, FetchersOK DEF FetcherOK
  <1>4. ThreadsOK'
    BY <1>1, <1>2, <1>3 DEF Begin, Inv, ThreadsOK, Goto, PCs, Fetch
  <1>5. PaceOK'
    BY PaceStays DEF Begin, poolVars, Inv, PaceOK
  <1>6. PoolOK'
    BY <1>1, PoolStays DEF Begin
  <1> QED
    BY <1>4, <1>5, <1>6 DEF Inv

LEMMA GateStep == ASSUME Inv, NEW t \in Threads, Gate(t) PROVE Inv'
  <1>1. CASE NoRows(t) /\ UNCHANGED <<paceVars, poolVars>>
    <2>1. Turned(t)
      BY <1>1, NoRowsTurns DEF Inv
    <2>2. PICK step \in PCs \ {"wait"} : Goto(t, step)
      BY <2>1 DEF Turned, PCs
    <2>3. PoolOK'
      BY <1>1, <2>2, PoolStays DEF Gate
    <2>4. PaceOK'
      BY <1>1, PaceStays DEF Inv, PaceOK, poolVars
    <2> QED
      BY <2>1, <2>3, <2>4 DEF Turned, Inv
  <1>2. CASE ~(cooling[Source(t)] > 0)
    <2>1. PICK j \in 0..Jitter : timer' = [timer EXCEPT ![t] = Left(MinInterval + j - since)]
      BY <1>2 DEF Gate
    <2>2. MinInterval + j - since \in Int
      BY ParametersAssumption DEF Inv, PaceOK
    <2>3. timer' \in [Threads -> Nat]
      BY <2>1, <2>2, TimerSet DEF Inv
    <2>4. ThreadsOK'
      BY <1>2, <2>3, ThreadGoes DEF Gate, Inv, PCs
    <2>5. PaceOK'
      BY <1>2 DEF Gate, Inv, PaceOK, poolVars
    <2>6. PoolOK'
      BY <1>2, PoolStays DEF Gate
    <2> QED
      BY <2>4, <2>5, <2>6 DEF Inv
  <1> QED
    BY <1>1, <1>2 DEF Gate

LEMMA StampStep == ASSUME Inv, NEW t \in Threads, Stamp(t) PROVE Inv'
  <1>1. ThreadsOK'
    BY ThreadGoes DEF Stamp, Inv, PCs, ThreadsOK
  <1>2. PaceOK'
    BY ParametersAssumption DEF Stamp, Inv, PaceOK, poolVars
  <1>3. PoolOK'
    BY PoolStays DEF Stamp
  <1> QED
    BY <1>1, <1>2, <1>3 DEF Inv

LEMMA SendStep == ASSUME Inv, NEW t \in Threads, Send(t) PROVE Inv'
  <1>1. ThreadsOK'
    BY ThreadGoes DEF Send, Inv, PCs, ThreadsOK
  <1>2. asked' \in [Threads -> [Hosts -> 0..2]]
    <2> DEFINE h == Source(t)
    <2>1. \/ asked' = asked
          \/ asked' = [asked EXCEPT ![t][h] = Least(@ + 1, 2)]
      BY DEF Send
    <2> HIDE DEF h
    <2>2. asked \in [Threads -> [Hosts -> 0..2]]
      BY DEF Inv, PaceOK
    <2>3. \A n \in 0..2 : Least(n + 1, 2) \in 0..2
      BY DEF Least
    <2>4. [asked[t] EXCEPT ![h] = Least(@ + 1, 2)] \in [Hosts -> 0..2]
      BY <2>2, <2>3
    <2> QED
      BY <2>1, <2>2, <2>4
  <1>3. PaceOK'
    BY <1>2 DEF Send, Inv, PaceOK, poolVars
  <1>4. PoolOK'
    BY PoolStays DEF Send
  <1> QED
    BY <1>1, <1>3, <1>4 DEF Inv

LEMMA AnswerStep ==
    ASSUME Inv, NEW t \in Threads, NEW a \in {"rows", "empty", "challenge", "failed"}, Answer(t, a)
    PROVE  Inv' /\ Turned(t)
  <1>1. Turned(t)
    BY RowsTurns, NoRowsTurns DEF Answer, Inv
  <1>2. PICK step \in PCs \ {"wait"} : Goto(t, step)
    BY <1>1 DEF Turned, PCs
  <1>3. PoolOK'
    BY <1>2, PoolStays DEF Answer
  <1>4. cooling' \in [Hosts -> 0..Cooldown]
    <2> DEFINE h == Source(t)
    <2>1. cooling' = cooling \/ cooling' = [cooling EXCEPT ![h] = Cooldown]
      BY DEF Answer
    <2> HIDE DEF h
    <2> QED
      BY <2>1, ParametersAssumption DEF Inv, PaceOK
  <1>5. PaceOK'
    BY <1>4 DEF Answer, Inv, PaceOK, poolVars
  <1> QED
    BY <1>1, <1>3, <1>5 DEF Turned, Inv

LEMMA ThrottleStep == ASSUME Inv, NEW t \in Threads, Throttle(t) PROVE Inv'
  <1>1. timer' \in [Threads -> Nat]
    <2>1. MinCall - sinceCall \in Int
      BY ParametersAssumption DEF Inv, PaceOK
    <2> QED
      BY <2>1, TimerSet DEF Throttle, Inv
  <1>2. ThreadsOK'
    BY <1>1, ThreadGoes DEF Throttle, Inv, PCs
  <1>3. PaceOK'
    BY PaceStays DEF Throttle, Inv, PaceOK, poolVars
  <1>4. PoolOK'
    BY PoolStays DEF Throttle
  <1> QED
    BY <1>2, <1>3, <1>4 DEF Inv

LEMMA SubmitStep == ASSUME Inv, NEW t \in Threads, Submit(t) PROVE Inv'
  <1>1. timer' \in [Threads -> Nat]
    BY ParametersAssumption DEF Submit, Inv, ThreadsOK
  <1>2. ThreadsOK'
    BY <1>1, ThreadGoes DEF Submit, Inv, PCs
  <1>3. PaceOK'
    BY PaceStays, ParametersAssumption DEF Submit, Inv, PaceOK
  <1> QED
    BY <1>2, <1>3, SubmitPool DEF Inv

LEMMA DeadlineStep == ASSUME Inv, NEW t \in Threads, Deadline(t) PROVE Inv' /\ Turned(t)
  <1>1. Turned(t)
    BY FailedTurns DEF Deadline, Inv
  <1>2. PaceOK'
    BY PaceStays DEF Deadline, Inv, PaceOK
  <1> QED
    BY <1>1, <1>2, DeadlinePool DEF Turned, Inv

LEMMA ReplyStep ==
    ASSUME Inv, NEW t \in Threads, NEW a \in {"rows", "empty", "failed"}, Reply(t, a)
    PROVE  Inv' /\ Turned(t)
  <1>1. Turned(t)
    BY RowsTurns, NoRowsTurns, FailedTurns DEF Reply, Inv
  <1>2. PaceOK'
    BY PaceStays DEF Reply, Inv, PaceOK
  <1> QED
    BY <1>1, <1>2, ReplyPool DEF Turned, Inv

LEMMA BackoffStep == ASSUME Inv, NEW t \in Threads, Backoff(t) PROVE Inv'
  <1>1. ThreadsOK'
    BY ThreadGoes DEF Backoff, Inv, PCs, ThreadsOK
  <1>2. PaceOK'
    BY PaceStays DEF Backoff, Inv, PaceOK, poolVars
  <1>3. PoolOK'
    BY PoolStays DEF Backoff
  <1> QED
    BY <1>1, <1>2, <1>3 DEF Inv

LEMMA WorkerTakesStep == ASSUME Inv, WorkerTakes PROVE Inv'
  <1>1. ThreadsOK'
    BY DEF WorkerTakes, threadVars, Inv, ThreadsOK, Fetch
  <1>2. PaceOK'
    BY PaceStays DEF WorkerTakes, Inv, PaceOK
  <1> QED
    BY <1>1, <1>2, WorkerTakesPool DEF Inv

LEMMA ZombieEndsStep == ASSUME Inv, ZombieEnds PROVE Inv'
  <1>1. ThreadsOK'
    BY DEF ZombieEnds, threadVars, Inv, ThreadsOK, Fetch
  <1>2. PaceOK'
    BY PaceStays DEF ZombieEnds, Inv, PaceOK
  <1>3. Cardinality(running) \in Nat /\ zombies' \in Nat /\ zombies' <= zombies
    BY FS_CardinalityType DEF ZombieEnds, Inv, PoolOK
  <1>4. PoolOK'
    BY <1>3, ParametersAssumption DEF ZombieEnds, threadVars, Inv, PoolOK
  <1> QED
    BY <1>1, <1>2, <1>4 DEF Inv

LEMMA TickStep == ASSUME Inv, Tick PROVE Inv'
  <1>1. timer' \in [Threads -> Nat]
    BY DEF Tick, Inv, ThreadsOK, Left
  <1>2. ThreadsOK'
    BY <1>1 DEF Tick, Inv, ThreadsOK, Fetch
  <1>3. cooling' \in [Hosts -> 0..Cooldown] /\ asked' \in [Threads -> [Hosts -> 0..2]]
    BY ParametersAssumption DEF Tick, Inv, PaceOK, Left
  <1>4. since' \in 0..MinInterval + Jitter /\ sinceCall' \in 0..MinCall
    BY ParametersAssumption DEF Tick, Inv, PaceOK, Least
  <1>5. PaceOK'
    BY <1>3, <1>4 DEF Tick, Inv, PaceOK
  <1>6. PoolOK'
    BY DEF Tick, Inv, PoolOK
  <1> QED
    BY <1>2, <1>5, <1>6 DEF Inv

LEMMA InitInv == Init => Inv
  <1> SUFFICES ASSUME Init PROVE Inv
    OBVIOUS
  <1>1. \A t \in Threads : kind[t] \in Fetches[t] /\ kind[t] \in Kinds
    BY ParametersAssumption DEF Init
  <1>2. \A t \in Threads : 1 <= Fetchers[kind[t]].attempts /\ 1 <= Fetchers[kind[t]].calls
    BY <1>1, FetchersOK DEF FetcherOK
  <1>3. 1 \in 1..Attempts /\ 1 \in 1..Larger(Pages, 2)
    BY ParametersAssumption DEF Larger
  <1>4. kind \in [Threads -> Kinds]
    BY <1>1 DEF Init
  <1>5. ThreadsOK
    BY <1>1, <1>2, <1>3, <1>4 DEF Init, ThreadsOK, PCs, Results, Fetch
  <1>6. PaceOK
    BY ParametersAssumption DEF Init, PaceOK
  <1>7. PoolOK
    BY ParametersAssumption, FS_EmptySet DEF Init, PoolOK
  <1> QED
    BY <1>5, <1>6, <1>7 DEF Inv

LEMMA NextInv == Inv /\ [Next]_vars => Inv'
  <1> SUFFICES ASSUME Inv, [Next]_vars PROVE Inv'
    OBVIOUS
  <1>1. CASE UNCHANGED vars
    BY <1>1 DEF vars, Inv, ThreadsOK, PaceOK, PoolOK, Fetch
  <1>2. ASSUME NEW t \in Threads, Step(t) PROVE Inv'
    BY <1>2, StampStep, SendStep, ThrottleStep, SubmitStep, DeadlineStep, BackoffStep DEF Step
  <1> QED
    BY <1>1, <1>2, GateStep, BeginStep, AnswerStep, ReplyStep, WorkerTakesStep, ZombieEndsStep,
       TickStep DEF Next

LEMMA Invariance == Spec => []Inv
  BY InitInv, NextInv, PTL DEF Spec

-----------------------------------------------------------------------------
(* The executor.                                                            *)

\* No call is ever mixed up with another of the same thread, and live and abandoned calls
\* never hold more than the pool.
THEOREM ExecutorIsSound == Spec => []ExecutorSound
  <1> SUFFICES ASSUME Inv PROVE ExecutorSound
    BY Invariance, PTL
  <1>1. Cardinality(running) \in Nat
    BY FS_CardinalityType DEF Inv, PoolOK
  <1>2. TypeOK
    <2>1. zombies \in 0..Workers
      BY <1>1, ParametersAssumption DEF Inv, PoolOK
    <2> QED
      BY <2>1 DEF Inv, ThreadsOK, PaceOK, PoolOK, TypeOK, PCs, Results
  <1>3. PoolBounded
    BY DEF Inv, PoolOK, PoolBounded
  <1>4. OwnAnswer
    <2> SUFFICES ASSUME NEW t \in Threads
                 PROVE  LET places == {i \in DOMAIN queue : queue[i] = t}
                        IN  /\ (t \in running \/ places # {}) <=> pc[t] = "wait"
                            /\ Cardinality(places) + (IF t \in running THEN 1 ELSE 0) <= 1
      BY DEF OwnAnswer
    <2> DEFINE places == {i \in DOMAIN queue : queue[i] = t}
    <2>1. (t \in running \/ places # {}) <=> pc[t] = "wait"
      BY DEF Inv, PoolOK
    <2>2. CASE places = {}
      BY <2>1, <2>2, FS_EmptySet
    <2>3. CASE places # {}
      <3>1. PICK i : i \in places
        BY <2>3
      <3>2. places = {i} /\ t \notin running
        BY <3>1, ParametersAssumption DEF Inv, PoolOK
      <3>3. Cardinality(places) = 1
        BY <3>2, FS_Singleton
      <3> QED
        BY <2>1, <3>2, <3>3
    <2> QED
      BY <2>2, <2>3
  <1> QED
    BY <1>2, <1>3, <1>4 DEF ExecutorSound

-----------------------------------------------------------------------------
(* The pace and the cooldown of the hosts.                                  *)

\* A thread that was let through, and has not sent its request yet, has not asked the host
\* while it cools down; nobody has asked one that does not.
Polite ==
    /\ \A t \in Threads, h \in Hosts : /\ asked[t][h] <= 1
                                       /\ cooling[h] = 0 => asked[t][h] = 0
    /\ \A t \in Threads, h \in Hosts : pc[t] \in {"pacing", "send"} /\ Source(t) = h => asked[t][h] = 0

\* Whoever paces holds the lock, and sleeps until the interval is over.
Pacing ==
    \A t \in Threads : pc[t] = "pacing" => lock = t /\ timer[t] + since >= MinInterval

\* A thread that is turned elsewhere is in neither state, and the others stay as they are.
LEMMA TurnedPolite ==
    ASSUME Inv, Polite, NEW t \in Threads, Turned(t), asked' = asked,
           \A h \in Hosts : cooling'[h] = cooling[h] \/ cooling'[h] # 0
    PROVE  Polite'
  <1>1. pc'[t] \notin {"pacing", "send"}
    BY DEF Turned, Goto, Inv, ThreadsOK
  <1>2. \A u \in Threads \ {t} : pc'[u] = pc[u] /\ Source(u)' = Source(u)
    BY DEF Turned, Goto, Inv, ThreadsOK, Source, Fetch
  <1>3. \A h \in Hosts : cooling'[h] = 0 => cooling[h] = 0
    OBVIOUS
  <1> QED
    BY <1>1, <1>2, <1>3 DEF Polite

LEMMA TurnedPacing ==
    ASSUME Inv, Pacing, NEW t \in Threads, Turned(t), lock' = lock, since' = since
    PROVE  Pacing'
  BY DEF Turned, Goto, Inv, ThreadsOK, Pacing

\* A step of its own keeps its thread, and all others, asking whom they asked.
LEMMA SourcesStay ==
    ASSUME UNCHANGED <<kind, src>>, NEW u \in Threads PROVE Source(u)' = Source(u)
  BY DEF Source, Fetch

\* A step that takes a thread neither to the pacing nor to the sending.
LEMMA ElsewherePolite ==
    ASSUME Inv, Polite, NEW t \in Threads, NEW step \in PCs \ {"pacing", "send"}, Goto(t, step),
           UNCHANGED <<kind, src, asked, cooling>>
    PROVE  Polite'
  <1>1. \A u \in Threads : pc'[u] = IF u = t THEN step ELSE pc[u]
    BY DEF Goto, Inv, ThreadsOK
  <1>2. \A u \in Threads : Source(u)' = Source(u)
    BY SourcesStay
  <1> QED
    BY <1>1, <1>2 DEF Polite

LEMMA ElsewherePacing ==
    ASSUME Inv, Pacing, NEW t \in Threads, NEW step \in PCs \ {"pacing"}, Goto(t, step),
           UNCHANGED <<lock, since>>, \A u \in Threads \ {t} : timer'[u] = timer[u]
    PROVE  Pacing'
  BY DEF Goto, Inv, ThreadsOK, Pacing

LEMMA GatePolite ==
    ASSUME Inv, Polite, Pacing, NEW t \in Threads, Gate(t) PROVE Polite' /\ Pacing'
  <1>1. CASE cooling[Source(t)] > 0
    <2>1. Turned(t) /\ UNCHANGED paceVars
      BY <1>1, NoRowsTurns DEF Gate, Inv
    <2> QED
      BY <2>1, TurnedPolite, TurnedPacing DEF paceVars
  <1>2. CASE ~(cooling[Source(t)] > 0)
    <2>1. PICK j \in 0..Jitter : timer' = [timer EXCEPT ![t] = Left(MinInterval + j - since)]
      BY <1>2 DEF Gate
    <2>2. /\ lock = Free /\ lock' = t /\ Goto(t, "pacing")
          /\ UNCHANGED <<kind, src, since, cooling, asked>>
      BY <1>2 DEF Gate
    <2>3. \A u \in Threads : /\ pc'[u] = IF u = t THEN "pacing" ELSE pc[u]
                             /\ Source(u)' = Source(u)
      BY <2>2, SourcesStay DEF Goto, Inv, ThreadsOK
    <2>4. \A u \in Threads : pc[u] # "pacing"
      BY <2>2, ParametersAssumption DEF Pacing
    <2>5. timer'[t] + since' >= MinInterval
      BY <2>1, <2>2, ParametersAssumption DEF Left, Inv, ThreadsOK, PaceOK
    <2>6. \A h \in Hosts : Source(t) = h => asked[t][h] = 0
      BY <1>2 DEF Polite, Inv, PaceOK
    <2>7. Polite'
      BY <2>2, <2>3, <2>6 DEF Polite
    <2> QED
      BY <2>2, <2>3, <2>4, <2>5, <2>7 DEF Pacing
  <1> QED
    BY <1>1, <1>2

LEMMA StampPolite ==
    ASSUME Inv, Polite, Pacing, NEW t \in Threads, Stamp(t) PROVE Polite' /\ Pacing'
  <1>1. \A u \in Threads : /\ pc'[u] = IF u = t THEN "send" ELSE pc[u]
                           /\ Source(u)' = Source(u)
    BY SourcesStay DEF Stamp, Goto, Inv, ThreadsOK
  <1>2. \A u \in Threads \ {t} : pc[u] # "pacing"
    BY DEF Stamp, Pacing
  <1> QED
    BY <1>1, <1>2 DEF Stamp, Polite, Pacing

LEMMA SendPolite ==
    ASSUME Inv, Polite, Pacing, NEW t \in Threads, Send(t) PROVE Polite' /\ Pacing'
  <1>1. \A u \in Threads : /\ pc'[u] = IF u = t THEN "await" ELSE pc[u]
                           /\ Source(u)' = Source(u)
    BY SourcesStay DEF Send, Goto, Inv, ThreadsOK
  <1>2. ASSUME NEW u \in Threads, NEW h \in Hosts
        PROVE  asked'[u][h] = IF u = t /\ h = Source(t) /\ cooling[h] # 0 THEN 1 ELSE asked[u][h]
    <2> DEFINE g == Source(t)
    <2>1. asked' = IF cooling[g] = 0 THEN asked ELSE [asked EXCEPT ![t][g] = Least(@ + 1, 2)]
      BY DEF Send
    <2>2. g \in Hosts => asked[t][g] = 0
      BY DEF Send, Polite
    <2> HIDE DEF g
    <2>3. asked[t] \in [Hosts -> 0..2] /\ asked \in [Threads -> [Hosts -> 0..2]]
      BY DEF Inv, PaceOK
    <2>4. g = h => Least(asked[t][g] + 1, 2) = 1
      BY <2>2 DEF Least
    <2>5. asked'[u][h] = IF u = t /\ h = g /\ cooling[h] # 0 THEN 1 ELSE asked[u][h]
      BY <2>1, <2>3, <2>4
    <2> QED
      BY <2>5 DEF g
  <1>3. UNCHANGED <<cooling, lock, since, timer>>
    BY DEF Send
  <1>4. Pacing'
    BY <1>1, <1>3 DEF Pacing
  <1>5. Polite'
    BY <1>1, <1>2, <1>3 DEF Polite, Send
  <1> QED
    BY <1>4, <1>5

LEMMA AnswerPolite ==
    ASSUME Inv, Polite, Pacing, NEW t \in Threads,
           NEW a \in {"rows", "empty", "challenge", "failed"}, Answer(t, a)
    PROVE  Polite' /\ Pacing'
  <1>1. Turned(t)
    BY AnswerStep
  <1>2. \A h \in Hosts : cooling'[h] = cooling[h] \/ cooling'[h] # 0
    <2> DEFINE g == Source(t)
    <2>1. cooling' = cooling \/ cooling' = [cooling EXCEPT ![g] = Cooldown]
      BY DEF Answer
    <2> HIDE DEF g
    <2> QED
      BY <2>1, ParametersAssumption DEF Inv, PaceOK
  <1> QED
    BY <1>1, <1>2, TurnedPolite, TurnedPacing DEF Answer

LEMMA TickPolite == ASSUME Inv, Polite, Pacing, Tick PROVE Polite' /\ Pacing'
  <1>1. UNCHANGED <<pc, kind, src, lock>>
    BY DEF Tick
  <1>2. \A u \in Threads : Source(u)' = Source(u)
    BY <1>1, SourcesStay
  <1>3. \A u \in Threads, h \in Hosts :
           /\ asked'[u][h] = IF cooling[h] <= 1 THEN 0 ELSE asked[u][h]
           /\ cooling'[h] = 0 => cooling[h] <= 1
    BY DEF Tick, Left, Inv, PaceOK
  <1>4. Polite'
    BY <1>1, <1>2, <1>3 DEF Polite
  <1>5. ASSUME NEW u \in Threads, timer[u] + since >= MinInterval
        PROVE  timer'[u] + since' >= MinInterval
    BY <1>5, ParametersAssumption DEF Tick, Left, Least, Inv, ThreadsOK, PaceOK
  <1> QED
    BY <1>1, <1>4, <1>5 DEF Pacing

LEMMA ThreadPolite ==
    ASSUME Inv, Polite, Pacing, NEW t \in Threads, Step(t) PROVE Polite' /\ Pacing'
  <1>1. CASE Throttle(t)
    BY <1>1, ElsewherePolite, ElsewherePacing DEF Throttle, PCs, paceVars, Inv, ThreadsOK
  <1>2. CASE Submit(t)
    BY <1>2, ElsewherePolite, ElsewherePacing DEF Submit, PCs, paceVars, Inv, ThreadsOK
  <1>3. CASE Deadline(t)
    BY <1>3, DeadlineStep, TurnedPolite, TurnedPacing DEF Deadline, paceVars
  <1>4. CASE Backoff(t)
    BY <1>4, ElsewherePolite, ElsewherePacing DEF Backoff, PCs, paceVars, Inv, ThreadsOK
  <1> QED
    BY <1>1, <1>2, <1>3, <1>4, StampPolite, SendPolite DEF Step

LEMMA BeginPolite ==
    ASSUME Inv, Polite, Pacing, NEW t \in Threads, NEW k \in Fetches[t], Begin(t, k)
    PROVE  Polite' /\ Pacing'
  <1>1. PICK step \in {"gate", "throttle"} : Goto(t, step)
    BY EntryIs DEF Begin
  <1>2. \A u \in Threads : pc'[u] = IF u = t THEN step ELSE pc[u]
    BY <1>1 DEF Goto, Inv, ThreadsOK
  <1>3. \A u \in Threads \ {t} : Source(u)' = Source(u)
    BY DEF Begin, Source, Fetch, Inv, ThreadsOK
  <1>4. UNCHANGED <<timer, lock, since, cooling, asked>>
    BY DEF Begin, paceVars
  <1> QED
    BY <1>1, <1>2, <1>3, <1>4 DEF Polite, Pacing

LEMMA NextPolite == Inv /\ Polite /\ Pacing /\ [Next]_vars => Polite' /\ Pacing'
  <1> SUFFICES ASSUME Inv, Polite, Pacing, [Next]_vars PROVE Polite' /\ Pacing'
    OBVIOUS
  <1>1. CASE UNCHANGED <<pc, kind, src, timer, lock, since, cooling, asked>>
    BY <1>1, SourcesStay DEF Polite, Pacing
  <1>2. CASE WorkerTakes \/ ZombieEnds \/ UNCHANGED vars
    BY <1>1, <1>2 DEF WorkerTakes, ZombieEnds, vars, threadVars, paceVars
  <1>3. ASSUME NEW t \in Threads, NEW a \in {"rows", "empty", "failed"}, Reply(t, a)
        PROVE  Polite' /\ Pacing'
    BY <1>3, ReplyStep, TurnedPolite, TurnedPacing DEF Reply, paceVars
  <1> QED
    BY <1>2, <1>3, GatePolite, ThreadPolite, BeginPolite, AnswerPolite, TickPolite DEF Next

LEMMA InitPolite == Init => Polite /\ Pacing
  BY DEF Init, Polite, Pacing

\* However challenges, expiring cooldowns and requests already let through interleave, a
\* thread touches a host that cools down at most once.
THEOREM BansAreTouchedOnce == Spec => []BanTouchedOnce
  <1>1. Polite => BanTouchedOnce
    BY DEF Polite, BanTouchedOnce
  <1> QED
    BY <1>1, InitPolite, NextPolite, Invariance, PTL DEF Spec

\* No two slots reserved for requests to Tencent are closer than the interval, for any number
\* of threads: the sleep is part of what the lock covers.
THEOREM SlotsArePaced == Spec => SlotsPaced
  <1> DEFINE Spaced == \A t \in Threads : pc[t] = "pacing" /\ pc'[t] = "send" => since >= MinInterval
  <1>1. Inv /\ Polite /\ Pacing /\ [Next]_vars => [Spaced]_vars
    <2> SUFFICES ASSUME Inv, Pacing, [Next]_vars, NEW t \in Threads, pc[t] = "pacing",
                        pc'[t] = "send"
                 PROVE  since >= MinInterval
      OBVIOUS
    <2>1. ASSUME NEW u \in Threads, Turned(u) PROVE FALSE
      BY <2>1 DEF Turned, Goto, Inv, ThreadsOK
    <2>2. ASSUME NEW u \in Threads, NEW step, Goto(u, step) PROVE u = t
      BY <2>2 DEF Goto, Inv, ThreadsOK
    <2>3. Stamp(t)
      <3>1. ~(\E u \in Threads : Deadline(u))
        BY <2>1, DeadlineStep
      <3>2. ~(\E u \in Threads, a \in {"rows", "empty", "challenge", "failed"} : Answer(u, a))
        BY <2>1, AnswerStep
      <3>3. ~(\E u \in Threads, a \in {"rows", "empty", "failed"} : Reply(u, a))
        BY <2>1, ReplyStep
      <3>4. ~(\E u \in Threads : Gate(u))
        <4> SUFFICES ASSUME NEW u \in Threads, Gate(u) PROVE FALSE
          OBVIOUS
        <4>1. Turned(u) \/ Goto(u, "pacing")
          BY NoRowsTurns DEF Gate, Inv
        <4> QED
          BY <2>1, <2>2, <4>1 DEF Gate
      <3>5. ~(\E u \in Threads : \E k \in Fetches[u] : Begin(u, k))
        BY <2>2 DEF Begin
      <3>6. ~(\E u \in Threads : Send(u) \/ Throttle(u) \/ Submit(u) \/ Backoff(u))
        BY <2>2 DEF Send, Throttle, Submit, Backoff
      <3>7. pc' # pc
        OBVIOUS
      <3>8. PICK u \in Threads : Stamp(u)
        BY <3>1, <3>2, <3>3, <3>4, <3>5, <3>6, <3>7
           DEF Next, Step, WorkerTakes, ZombieEnds, Tick, vars, threadVars
      <3> QED
        BY <2>2, <3>8 DEF Stamp
    <2> QED
      BY <2>3, ParametersAssumption DEF Stamp, Pacing, Inv, PaceOK
  <1>2. SlotsPaced <=> [][Spaced]_vars
    BY DEF SlotsPaced
  <1> HIDE DEF Spaced
  <1> QED
    BY <1>1, <1>2, InitPolite, NextPolite, Invariance, PTL DEF Spec
=============================================================================
