----------------------------- MODULE KlineStore -----------------------------
(***************************************************************************)
(* The raw daily bars of one stock (sa_kline_daily), their adjust factors  *)
(* (sa_adjust_factor), and the jobs that fill them window by window, each  *)
(* window a fetch and up to three commits: the evening sync of the last    *)
(* days and the rebuild of the whole history in chunks.                    *)
(*                                                                         *)
(* Prices, factors and returns are logarithms in whole steps larger than   *)
(* TOL: a product of factors is a sum, a return a difference. Days are the *)
(* trading days of the stock, from its first one.                          *)
(***************************************************************************)
EXTENDS Integers, Sequences, FiniteSets, Sums

CONSTANTS
    Horizon,     \* bound of the model: days
    Lookback,    \* bars in the window of the evening sync
    Chunk,       \* bars in a chunk of the rebuild
    Moves,       \* true daily returns
    MaxEvents,   \* bound of the model: corporate actions
    MaxPasses,   \* bound of the model: passes of the jobs
    Jobs,        \* "daily" (the evening sync) and rebuilds
    Sources,     \* who may serve a fetch: "tencent", "em", "banned" (eastmoney, without
                 \* returns) or "none"
    WeekLen      \* trading days of a week

Null == 99  \* no return; further than any price goes
Idle == [at |-> "idle"]

VARIABLES
    price,   \* the true price level of every day so far
    paid,    \* corporate actions up to each day: the raw price is price - paid
    bars,    \* sa_kline_daily: day -> close, pct_change
    factor,  \* sa_adjust_factor: day -> adj_factor
    job,     \* where each job is, with the rows it holds
    flawed,  \* history: since the last rebuild of bars without a hole began alone, a job was
             \* cut off or met another, or a window left a hole or missed the return of an event
    passes   \* passes begun so far

vars == <<price, paid, bars, factor, job, flawed, passes>>
\* What the parameters are: no return of a day, raw or true, is taken for none.
Parameters ==
    /\ {Horizon, MaxEvents, MaxPasses, Lookback, Chunk, WeekLen} \subseteq Nat
    /\ 0 \notin {Horizon, Lookback, Chunk, WeekLen}
    /\ Moves \subseteq Int /\ \A m \in Moves : Null \notin {m, m - 1}
    /\ Sources \subseteq {"tencent", "em", "banned", "none"}

today == Cardinality(DOMAIN price)
Days == 1..today
MaxDay(S) == CHOOSE d \in S : \A x \in S : x <= d
MinDay(S) == CHOOSE d \in S : \A x \in S : d <= x
Raw(d) == price[d] - paid[d]

-----------------------------------------------------------------------------
\* The close-to-close return the client computes from a Tencent answer: the first bar
\* served has none.
TencentPct(close, d, lo) == IF d = lo THEN Null ELSE close[d] - close[d - 1]
\* The published return of eastmoney is the true one on any basis.
TruePct(d) == IF d = 1 THEN Null ELSE price[d] - price[d - 1]

\* What a source answers for lo..hi, given its closing prices.
Answer(close, lo, hi, source) ==
    [d \in IF source = "none" THEN {} ELSE lo..hi |->
        [close |-> close[d],
         pct |-> CASE source = "tencent" -> TencentPct(close, d, lo)
                   [] source = "em" -> TruePct(d)
                   [] source = "banned" -> Null]]

\* mutant: a degraded frame is taken
UsableAny(source) == source

\* A frame of eastmoney without any return is thrown away.
Usable(source) == IF source = "banned" THEN "none" ELSE source

RawRows(lo, hi, source) == Answer([d \in Days |-> Raw(d)], lo, hi, Usable(source))
QfqRows(lo, hi, source) == Answer([d \in Days |-> price[d] - paid[today]], lo, hi, Usable(source))

\* fetch_raw_with_true_pct: the returns of the qfq answer, where it has one, over the raw
\* bars.
TrueRows(lo, hi, source, qfqSource) ==
    LET raw == RawRows(lo, hi, source)
        qfq == QfqRows(lo, hi, qfqSource)
    IN  [d \in DOMAIN raw |->
            IF d \in DOMAIN qfq /\ qfq[d].pct # Null THEN [raw[d] EXCEPT !.pct = qfq[d].pct]
            ELSE raw[d]]

-----------------------------------------------------------------------------
\* How far the true return of a bar is from its raw return to the bar before it.
Jump(rows, d) ==
    LET before == {x \in DOMAIN rows : x < d}
    IN  IF before = {} \/ rows[d].pct = Null THEN 0
        ELSE rows[d].pct - (rows[d].close - rows[MaxDay(before)].close)

\* The sum of f over the days of S.
SumOver(f, S) == Total([d \in Days |-> IF d \in S THEN f[d] ELSE 0])

\* compute_factor_chain: from 1 on the first bar, constant between jumps.
FactorChain(rows) ==
    LET jump == [d \in DOMAIN rows |-> Jump(rows, d)]
    IN  [d \in DOMAIN rows |-> SumOver(jump, {x \in DOMAIN rows : x <= d})]

\* detect_factor_events
FactorEvents(rows) == {d \in DOMAIN rows : Jump(rows, d) # 0}

Overwrite(new, old) == [d \in DOMAIN new \cup DOMAIN old |-> IF d \in DOMAIN new THEN new[d] ELSE old[d]]

\* mutant: the rows are not seeded with the stored bar before them
SeededNot(rows) == rows

\* The new rows behind the last stored bar before them, whose own return is unknown.
Seeded(rows) ==
    LET before == {x \in DOMAIN bars : x < MinDay(DOMAIN rows)}
    IN  IF before = {} THEN rows
        ELSE Overwrite(rows, [d \in {MaxDay(before)} |-> [close |-> bars[d].close, pct |-> Null]])

\* maintain_factor_incremental on a stored chain: the chain of the new rows, rebased on
\* the latest stored factor.
Extended(rows) ==
    LET chain == FactorChain(Seeded(rows))
    IN  Overwrite([d \in DOMAIN rows |-> chain[d] + factor[MaxDay(DOMAIN factor)]], factor)

\* mutant: the raw closes are compared
DeviationsRaw == FactorEvents([d \in DOMAIN bars \cap DOMAIN factor |-> bars[d]])

\* hfq_close_2_close_deviation: bars whose adjusted return is not their true return.
Deviations ==
    LET both == DOMAIN bars \cap DOMAIN factor
        hfq == [d \in both |-> [close |-> bars[d].close + factor[d], pct |-> bars[d].pct]]
    IN  FactorEvents(hfq)

\* mutant: the latest factor of all, whatever the end
ReadAhead(d, end) == bars[d].close + factor[d] - factor[MaxDay(DOMAIN factor)]

\* _apply_adjust, qfq: the price of day d seen from the latest factor up to end.
Read(d, end) ==
    LET upTo == {x \in DOMAIN factor : x <= end}
    IN  IF d \notin upTo THEN bars[d].close
        ELSE bars[d].close + factor[d] - factor[MaxDay(upTo)]

Week(d) == (d - 1) \div WeekLen
Returns == [d \in DOMAIN bars |-> IF bars[d].pct = Null THEN 0 ELSE bars[d].pct]

\* mutant: every bar is adjusted as of its own week
WeekBarsEach(end) ==
    LET stored == {d \in DOMAIN bars : d <= end}
        of(w) == {d \in stored : Week(d) = w}
    IN  [w \in {Week(d) : d \in stored} |->
            [date |-> MaxDay(of(w)), close |-> Read(MaxDay(of(w)), MaxDay(of(w))),
             pct |-> SumOver(Returns, of(w))]]

\* get_kline, weekly: the bars up to end, adjusted as of end, week by week; the bar of a week
\* carries its last stored day and close, and the sum of its returns.
WeekBars(end) ==
    LET stored == {d \in DOMAIN bars : d <= end}
        of(w) == {d \in stored : Week(d) = w}
    IN  [w \in {Week(d) : d \in stored} |->
            [date |-> MaxDay(of(w)), close |-> Read(MaxDay(of(w)), end),
             pct |-> SumOver(Returns, of(w))]]

-----------------------------------------------------------------------------
Init ==
    /\ price = <<0>> /\ paid = <<0>>
    /\ bars = <<>> /\ factor = <<>>
    /\ job = [j \in Jobs |-> Idle]
    /\ flawed = FALSE /\ passes = 0

\* A trading day: a move, and perhaps a dividend or split.
NewDay(move, event) ==
    /\ today < Horizon
    /\ event = 1 => paid[today] < MaxEvents
    /\ price' = Append(price, price[today] + move)
    /\ paid' = Append(paid, paid[today] + event)
    /\ UNCHANGED <<bars, factor, job, flawed, passes>>

\* mutant: a window that begins before the first day
FirstDayEarly(j) == IF j = "daily" THEN today - Lookback + 1 ELSE 1

\* The look-back window of the evening sync, the whole history of the rebuild.
FirstDay(j) == IF j = "daily" THEN MaxDay({1, today - Lookback + 1}) ELSE 1

\* The evening sync asks for its look-back window, the rebuild for the whole history in
\* chunks, up to the day it began. Nothing keeps them apart on the same stock. A rebuild that
\* finds no hole in the bars is to make good whatever went wrong before it.
Begin(j) ==
    /\ job[j].at = "idle"
    /\ passes < MaxPasses /\ passes' = passes + 1
    /\ job' = [job EXCEPT ![j] = [at |-> "next", end |-> today, rows |-> <<>>, lo |-> FirstDay(j)]]
    /\ flawed' = IF \E k \in Jobs : job[k].at # "idle" THEN TRUE
                 ELSE flawed /\ (j = "daily" \/ DOMAIN bars # 1..Cardinality(DOMAIN bars))
    /\ UNCHANGED <<price, paid, bars, factor>>

ChunkEnd(j) == IF j = "daily" \/ job[j].lo + Chunk - 1 > job[j].end THEN job[j].end ELSE job[j].lo + Chunk - 1

\* The window is done: the next chunk, or the end of the pass.
Proceed(j) ==
    job' = [job EXCEPT ![j] = IF ChunkEnd(j) = job[j].end THEN Idle
                              ELSE [@ EXCEPT !.at = "next", !.lo = ChunkEnd(j) + 1, !.rows = <<>>]]

\* sync_one_stock_v2 fetches the window; without raw rows it writes nothing.
Fetch(j, source, qfqSource) ==
    /\ job[j].at = "next"
    /\ LET rows == TrueRows(job[j].lo, ChunkEnd(j), source, qfqSource)
           all == DOMAIN rows \cup DOMAIN bars
           bad == \/ DOMAIN rows = {} /\ j # "daily"
                  \/ DOMAIN rows # {} /\ all # MinDay(all)..MaxDay(all)
                  \/ \E d \in DOMAIN rows \ {1} : paid[d] # paid[d - 1] /\ rows[d].pct # TruePct(d)
       IN  /\ flawed' = (flawed \/ bad)
           /\ IF DOMAIN rows = {} THEN Proceed(j)
              ELSE job' = [job EXCEPT ![j] = [@ EXCEPT !.at = "fetched", !.rows = rows]]
    /\ UNCHANGED <<price, paid, bars, factor, passes>>

\* upsert_kline_rows: every column of every row, the return included.
Upsert(j) ==
    /\ job[j].at = "fetched"
    /\ bars' = Overwrite(job[j].rows, bars)
    /\ job' = [job EXCEPT ![j].at = "upserted"]
    /\ UNCHANGED <<price, paid, factor, flawed, passes>>

\* maintain_factor_incremental; without a chain the whole of it is derived.
Maintain(j) ==
    /\ job[j].at = "upserted"
    /\ LET rows == job[j].rows
           fresh == DOMAIN factor = {}
       IN  /\ factor' = IF fresh THEN Overwrite(FactorChain(bars), factor) ELSE Extended(rows)
           /\ IF FactorEvents(IF fresh THEN rows ELSE Seeded(rows)) = {} THEN Proceed(j)
              ELSE job' = [job EXCEPT ![j].at = "event"]
    /\ UNCHANGED <<price, paid, bars, flawed, passes>>

\* mutant: an event does not re-anchor the chain
ReAnchorNot(j) ==
    /\ job[j].at = "event"
    /\ Proceed(j)
    /\ UNCHANGED <<price, paid, bars, factor, flawed, passes>>

\* init_adjust_factors after an event: the chain of all stored bars.
ReAnchor(j) ==
    /\ job[j].at = "event"
    /\ factor' = Overwrite(FactorChain(bars), factor)
    /\ Proceed(j)
    /\ UNCHANGED <<price, paid, bars, flawed, passes>>

\* The process dies or the database fails between two commits.
CutOff(j) ==
    /\ job[j].at # "idle"
    /\ job' = [job EXCEPT ![j] = Idle]
    /\ flawed' = TRUE
    /\ UNCHANGED <<price, paid, bars, factor, passes>>

Next ==
    \/ \E m \in Moves, e \in {0, 1} : NewDay(m, e)
    \/ \E j \in Jobs, s, q \in Sources : Fetch(j, s, q)
    \/ \E j \in Jobs : Begin(j) \/ Upsert(j) \/ Maintain(j) \/ ReAnchor(j) \/ CutOff(j)

Spec == Init /\ [][Next]_vars
-----------------------------------------------------------------------------
TypeOK ==
    /\ DOMAIN paid = Days /\ DOMAIN bars \subseteq Days /\ DOMAIN factor \subseteq Days
    /\ \A d \in DOMAIN bars : bars[d].pct = Null \/ bars[d].pct \in Int
    /\ \A j \in Jobs : /\ job[j].at \in {"idle", "next", "fetched", "upserted", "event"}
                       /\ job[j].at # "idle" => job[j].lo \in 1..job[j].end /\ job[j].end <= today

Quiet == \A j \in Jobs : job[j] = Idle

AtRest == Quiet /\ ~flawed

\* When no job is at work and nothing was flawed since a rebuild, exactly the corporate
\* actions are in the factors of the stored bars: the returns that Tencent leaves out at the
\* beginning of a window cost nothing as long as no event falls on them, and a rebuild makes
\* good what bans, lost events, cut-off and overlapping jobs had left.
FactorsTrue ==
    AtRest =>
        /\ DOMAIN factor = DOMAIN bars
        /\ \A d, e \in DOMAIN bars : factor[d] - factor[e] = paid[d] - paid[e]

\* What a reader gets up to any past day is the true price path, ending on the price that
\* was paid that day: no later corporate action shows.
NoLookahead ==
    AtRest =>
        \A end \in DOMAIN bars : \A d \in DOMAIN bars \cap 1..end :
            Read(d, end) = Raw(end) + price[d] - price[end]

Adjacent == {d \in DOMAIN bars : d - 1 \in DOMAIN bars}
Known == {d \in Adjacent : bars[d].pct # Null}

\* The acceptance check tells: over bars without a hole and without a false return it is silent
\* exactly when every corporate action whose return is known is in the factors, however jobs
\* were cut off.
AcceptanceTells ==
    /\ DOMAIN bars = DOMAIN factor /\ Cardinality(DOMAIN bars \ Adjacent) <= 1
    /\ \A d \in Known : bars[d].pct = TruePct(d)
    => (Deviations = {} <=> \A d \in Known : factor[d] - factor[d - 1] = paid[d] - paid[d - 1])

\* Weekly bars tell one story: where every return of a week is known, their sum is the way from
\* the close of the week before to its own, across corporate actions, whatever day the bars end
\* on.
WeeksAgree ==
    AtRest =>
        \A end \in DOMAIN bars :
            LET weeks == WeekBars(end)
            IN  \A w \in DOMAIN weeks :
                    /\ w + 1 \in DOMAIN weeks
                    /\ {d \in Days : Week(d) = w + 1 /\ d <= end} \subseteq Known
                    => weeks[w + 1].close - weeks[w].close = weeks[w + 1].pct

\* The store at rest: factors, prices as they are read, and the acceptance check agree.
StoreTrue == TypeOK /\ FactorsTrue /\ NoLookahead /\ AcceptanceTells /\ WeeksAgree

\* No window takes a bar away, and a stored return is lost only where the window of a job begins.
ReturnsKept ==
    /\ DOMAIN bars \subseteq DOMAIN bars'
    /\ \A d \in DOMAIN bars :
        bars[d].pct # Null /\ bars'[d].pct = Null =>
            \E j \in Jobs : job[j].at = "fetched" /\ job[j].lo = d
=============================================================================
