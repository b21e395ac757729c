------------------------------- MODULE Research -------------------------------
(***************************************************************************)
(* Factor research on a market that grows: the point-in-time pool, the     *)
(* factor and forward-return panels, the IC of one date and the IC series  *)
(* kept in sa_factor_ic, sample filters and industries. What was computed  *)
(* for a past date must not depend on what the market did, or the syncs    *)
(* learned, afterwards.                                                    *)
(*                                                                         *)
(* Days are trade days. Prices are logarithms, so a return is a            *)
(* difference; volumes are equal, so the traded amount is the price. A bar *)
(* has one price, so a stock at its limit is locked there.                 *)
(***************************************************************************)
EXTENDS Integers, Sequences, FiniteSets, SequencesExt, FiniteSetsExt, Functions, TLC

CONSTANTS
    Codes, Born,   \* stocks and their listing days
    Horizon,       \* bound of the model: days
    Futures,       \* possible futures: [price: per day and code, gone: delisting day per code
                   \* (0: none), named: day from which a name carries ST (0: never)]
    Dated,         \* codes whose listing date the pool snapshot carries
    Exchange,      \* exchange of each code
    LimitMove,     \* base_threshold
    Boards,        \* possible answers to an industry pass: board per code of the boards that answered
    Legacy,        \* industry per code in the legacy table
    MaxEvents,     \* bound of the model: late bars, missed snapshots, lifecycle, status, industry syncs
    Period,        \* look-back of the momentum factor, roc
    Trail,         \* calendar_days of prefetch_kline_windows
    Ahead,         \* the horizons of a series
    Buffer,        \* data_end - end
    MinStocks,     \* min_stocks of a series, 10 in compute_ic
    Limit,         \* _IC_UNIVERSE
    Liquid,        \* liquidity_top_k, universe_size
    Hold,          \* top_n
    Weights,       \* the factors as a caller states them: <<code, weight, direction>>; 0: none given
    NLayers, PerLayer, \* n_layers of a layered backtest, stocks each needs (3)
    Requests       \* the ranges and steps series are asked for

VARIABLES
    future,    \* the future drawn
    price,     \* its prices per day, up to today
    stored,    \* codes with a bar, per day
    snap,      \* stock_pool: the codes of the snapshot of each day, {}: none was written
    life,      \* sa_stock_lifecycle: list and delist date per code with a row (0: NULL)
    st,        \* sa_daily_trade_status: per day the rows of codes
    map,       \* sa_industry_map: rows in the order of their effective dates
    ic,        \* sa_factor_ic: <<date, horizon>> -> the pairs its rank correlation is of
    events

vars == <<future, price, stored, snap, life, st, map, ic, events>>
today == Len(price)
Days == 1..today
Bar(d, c) == d \in Days /\ c \in stored[d]
FirstBar(c) == Min({d \in Days : Bar(d, c)} \cup {Horizon + 1})
Gone(c) == IF future.gone[c] <= today THEN future.gone[c] ELSE 0
Trades(c, d) == Born[c] <= d /\ (future.gone[c] = 0 \/ d < future.gone[c])
Row(c) == IF c \in DOMAIN life THEN life[c] ELSE [list |-> 0, delist |-> 0]
TopBy(S, key(_), n) ==
    LET order == SetToSortSeq(S, LAMBDA x, y : key(x) > key(y))
    IN  ToSet(SubSeq(order, 1, IF n < Len(order) THEN n ELSE Len(order)))

-----------------------------------------------------------------------------
(* Pools *)

\* current_pool: the newest snapshot.
CurrentPool == LET days == {d \in Days : snap[d] # {}} IN IF days = {} THEN {} ELSE snap[Max(days)]

\* mutant: whatever has been delisted since is left out
PoolAsOfSurvivors(d) ==
    {c \in DOMAIN life : life[c].delist = 0 /\ (IF life[c].list # 0 THEN life[c].list ELSE FirstBar(c)) <= d}

\* get_pool_asof: the first stored bar stands in for an unknown listing date, the newest
\* snapshot for an empty table.
PoolAsOf(d) ==
    IF DOMAIN life = {} THEN CurrentPool
    ELSE {c \in DOMAIN life : /\ life[c].delist = 0 \/ life[c].delist > d
                              /\ (IF life[c].list # 0 THEN life[c].list ELSE FirstBar(c)) <= d}

\* load_market_panel: the codes with a bar in the window.
Panel(lo, hi) == {c \in Codes : \E d \in lo..hi : Bar(d, c)}

\* select_universe without universe_size; pit: listed, as known now, or delisted in the
\* range.
SelectUniverse(start, end, pool) ==
    LET all == Panel(start - Period, end + Buffer)
        pit == {c \in all \cap DOMAIN life : life[c].delist = 0 \/ life[c].delist \in start..end}
    IN  IF pool = "current" \/ pit = {} THEN all ELSE pit

\* pit_listed_mask
Listed(c, d, lo) ==
    /\ d >= IF Row(c).list # 0 THEN Row(c).list
            ELSE Min({x \in lo..Horizon : Bar(x, c)} \cup {Horizon + 1})
    /\ Row(c).delist = 0 \/ d <= Row(c).delist

-----------------------------------------------------------------------------
(* Factors and forward returns *)

\* panel_factor_values, roc: Period rows of the panel back.
PanelRoc(d, c) == IF Bar(d, c) /\ Bar(d - Period, c) THEN {price[d][c] - price[d - Period][c]} ELSE {}

\* prefetch_kline_windows and _get_kline_cached: the bars a session sees of a code up to d are
\* those of the window read for all codes at once; its whole history, if it has none there or
\* no window was read.
SessionBars(c, d, prefetched) ==
    LET window == {x \in (d - Trail)..d : Bar(x, c)}
    IN  IF prefetched /\ window # {} THEN window ELSE {x \in 1..d : Bar(x, c)}

\* mutant: one bar too few back
SeriesRocShort(d, c, prefetched) ==
    LET own == SetToSortSeq(SessionBars(c, d, prefetched), <)
        n == Len(own)
    IN  IF n <= Period THEN {} ELSE {price[own[n]][c] - price[own[n - Period + 1]][c]}

\* RocFactor.compute: Period bars of the stock itself back, from its last bar up to d.
SeriesRoc(d, c, prefetched) ==
    LET own == SetToSortSeq(SessionBars(c, d, prefetched), <)
        n == Len(own)
    IN  IF n <= Period THEN {} ELSE {price[own[n]][c] - price[own[n - Period]][c]}

\* compute_series, the factor page of one stock: a value, or none, per day with a bar.
FactorSeries(c, start, end) == [d \in {x \in start..end : Bar(x, c)} |-> SeriesRoc(d, c, FALSE)]

\* mutant: beyond the data the last price stands in for the future one
ForwardClipped(d, c, h, end) ==
    LET to == IF d + h <= today /\ d + h <= end THEN d + h ELSE Min({today, end})
    IN  IF Bar(d, c) /\ Bar(to, c) THEN {price[to][c] - price[d][c]} ELSE {}

\* forward_return_panel on data up to end
Forward(d, c, h, end) ==
    IF Bar(d, c) /\ d + h <= end /\ Bar(d + h, c) THEN {price[d + h][c] - price[d][c]} ELSE {}

\* The codes with both a factor value and a forward return.
Pairs(fv, fr) ==
    [c \in {x \in DOMAIN fv : fv[x] # {} /\ fr[x] # {}} |->
        <<CHOOSE v \in fv[c] : TRUE, CHOOSE v \in fr[c] : TRUE>>]

\* Flags drop what its status row of the day says; a code without a row is kept.
Passes(row, flags, tradable) ==
    /\ "st" \in flags => ~row.st
    /\ "suspended" \in flags => ~row.suspended
    /\ "untradable" \in flags => tradable

\* apply_sample_filters: untradable is what cannot be bought.
Sample(codes, d, flags) ==
    {c \in codes : c \in DOMAIN st[d] => Passes(st[d][c], flags, st[d][c].buy)}

\* The filters of a panel: untradable is also what cannot be sold.
PanelSample(codes, d, flags) ==
    {c \in codes : c \in DOMAIN st[d] => Passes(st[d][c], flags, st[d][c].buy /\ st[d][c].sell)}

\* _rebalance_dates
RebalanceDates(start, end, step) == {d \in start..end : d <= today /\ (d - start) % step = 0}

\* _iter_scoped_cross_sections: factor, listing, status; too few stocks skip the date.
Section(start, end, d, pool, flags) ==
    LET scoped == {c \in PanelSample(SelectUniverse(start, end, pool), d, flags) :
                      /\ PanelRoc(d, c) # {}
                      /\ pool = "pit" => Listed(c, d, start - Period)}
    IN  IF Cardinality(scoped) < MinStocks THEN {} ELSE scoped

\* compute_ic_series: per rebalance date and horizon the pairs whose rank correlation is
\* the IC, where enough stocks have both.
SeriesRows(start, end, step, pool, flags) ==
    LET section(k) == Section(start, end, k[1], pool, flags)
        pairs(k) == Pairs([c \in section(k) |-> PanelRoc(k[1], c)],
                          [c \in section(k) |-> Forward(k[1], c, k[2], end + Buffer)])
        keys == {k \in RebalanceDates(start, end, step) \X Ahead :
                    Cardinality(DOMAIN pairs(k)) >= MinStocks}
    IN  [k \in keys |-> pairs(k)]

\* _universe_codes: the most traded codes of the latest day up to d.
UniverseCodes(d, pool) ==
    LET base == IF pool = "pit" THEN PoolAsOf(d) ELSE Codes
        latest == Max({x \in 1..d : stored[x] # {}} \cup {0})
    IN  IF latest = 0 THEN {} ELSE TopBy(stored[latest] \cap base, LAMBDA c : price[latest][c], Limit)

\* The settled days are those with a bar, all but perhaps today (NewDay).
Settled == Cardinality({d \in Days : stored[d] # {}})

\* compute_ic falls back to the latest date with h settled days behind it.
Effective(d, h) == Min({d, Settled - h})

\* compute_ic of one date; {}: no answer.
ComputeIc(d, h, pool, flags) ==
    LET e == Effective(d, h)
        codes == Sample(UniverseCodes(e, pool), e, flags)
        to == e + h
        pairs == Pairs([c \in codes |-> SeriesRoc(e, c, TRUE)], [c \in codes |-> Forward(e, c, h, to)])
    IN  IF Settled < h + 1 THEN {}
        ELSE IF Cardinality(codes) < MinStocks \/ Cardinality(DOMAIN pairs) < MinStocks THEN {}
        ELSE {[date |-> e, pairs |-> pairs]}

-----------------------------------------------------------------------------
(* Industries *)

\* mutant: the date asked for is ignored
IndustryNow(c, codes, d) ==
    LET rows == SelectSeq(map, LAMBDA r : r.code = c)
        real == SelectSeq(rows, LAMBDA r : r.real)
    IN  IF rows = <<>> THEN {} ELSE IF real # <<>> THEN {real[Len(real)].name} ELSE {rows[1].name}

\* The rows of a code in order: the last one with a real board, else the first.
Preferred(rows) ==
    LET real == SelectSeq(rows, LAMBDA r : r.real)
    IN  IF rows = <<>> THEN {} ELSE IF real # <<>> THEN {real[Len(real)].name} ELSE {rows[1].name}

\* get_industry of some codes up to d; only when none of them has such a row, all rows.
Industry(c, codes, d) ==
    LET asked == SelectSeq(map, LAMBDA r : r.code \in codes)
        upTo == SelectSeq(asked, LAMBDA r : r.eff <= d)
    IN  Preferred(SelectSeq(IF upTo # <<>> THEN upTo ELSE asked, LAMBDA r : r.code = c))

-----------------------------------------------------------------------------
(* Scores, targets and layers *)

Score == INSTANCE Scoring
Column(col) == col @@ <<>>   \* col, evaluated once
Value(fv) == Column([c \in {x \in DOMAIN fv : fv[x] # {}} |-> CHOOSE v \in fv[c] : TRUE])

\* _normalize_specs: a negative weight reverses the factor, a weight of zero drops it.
NormalizeSpecs(entries) ==
    LET size(w) == IF w < 0 THEN -w ELSE w
        side(e) == IF e[2] < 0 THEN -1 ELSE IF e[3] = 0 THEN 1 ELSE e[3]
    IN  {[code |-> e[1], weight |-> size(e[2]), direction |-> side(e)] : e \in {x \in entries : x[2] # 0}}

\* _neutralize_series by industry, as of the day.
NeutralizeSeries(col, d, mode) ==
    IF mode = "none" THEN col ELSE Score!Residuals(col, [c \in DOMAIN col |-> Industry(c, DOMAIN col, d)])

\* _score_targets: composite score of the factors known to the registry (roc; amount is the
\* price here), each neutralized first.
Composite(roc, amount, codes, d, mode) ==
    LET specs == NormalizeSpecs(Weights)
        of(f) == CHOOSE x \in specs : x.code = f
        known == {x.code : x \in specs} \cap {"roc", "amount"}
    IN  Score!Composite(Column([f \in known |->
                            Column(NeutralizeSeries(IF f = "roc" THEN roc ELSE amount, d, mode))]),
                        Column([f \in known |-> of(f)]), codes)

\* multi_factor_score, stock by stock: the sets the first n of the ranking may be.
MultiFactorScore(d, pool, flags, mode) ==
    LET universe == Sample(UniverseCodes(d, pool), d, flags)
        codes == TopBy(universe, LAMBDA c : price[d][c], Liquid)
        roc == Value([c \in codes |-> SeriesRoc(d, c, TRUE)])
        amount == Value([c \in codes |-> IF Bar(d, c) THEN {price[d][c]} ELSE {}])
    IN  IF DOMAIN roc \cup DOMAIN amount = {} THEN {}
        ELSE Score!TopN(Column(Composite(roc, amount, codes, d, mode)), Hold)

\* mutant: liquidity is that of the newest day of the panel
LiquidNow(codes, t) == TopBy(codes, LAMBDA c : price[today][c], Liquid)

\* The most traded candidates of the day.
LiquidAt(codes, t) == TopBy(codes, LAMBDA c : price[t][c], Liquid)

\* The scope of one rebalance date on a panel of start..end: codes with a factor value, the
\* most traded of them, listed, not ST.
Candidates(start, end, t, pool, flags) ==
    LET scored == {c \in SelectUniverse(start, end, pool) : PanelRoc(t, c) # {}}
        listed == {c \in LiquidAt(scored, t) : pool = "pit" => Listed(c, t, start - Period)}
    IN  PanelSample(listed, t, flags)

\* scope_and_score_targets, for the portfolio backtest and the paper engine; {}: too few.
Targets(start, end, t, pool, flags, mode) ==
    LET codes == Candidates(start, end, t, pool, flags)
    IN  IF Cardinality(codes) < Hold THEN {}
        ELSE Score!TopN(Column(Composite(Value([c \in codes |-> PanelRoc(t, c)]),
                                         Column([c \in codes |-> price[t][c]]), codes, t, mode)), Hold)

\* layered_backtest: per rebalance date with enough stocks in every layer, the layer of each
\* and its return over the step.
LayeredBacktest(start, end, step, pool, flags) ==
    LET dates == RebalanceDates(start, end, step)
        section(d) == Section(start, end, d, pool, flags)
        pairs == Column([d \in dates |->
                     Column(Pairs([c \in section(d) |-> PanelRoc(d, c)],
                                  [c \in section(d) |-> Forward(d, c, step, end + Buffer)]))])
        layer == Column([d \in {x \in dates : Cardinality(DOMAIN pairs[x]) >= NLayers * PerLayer} |->
                     Column(Score!Layers(Column([c \in DOMAIN pairs[d] |-> pairs[d][c][1]]), NLayers))])
    IN  [d \in {x \in DOMAIN layer : Cardinality(Range(layer[x])) = NLayers} |->
            [layer |-> layer[d], ret |-> [c \in DOMAIN pairs[d] |-> pairs[d][c][2]]]]

\* The long-short return of one date, times the sizes of both layers.
LongShort(row) ==
    LET in(l) == {c \in DOMAIN row.layer : row.layer[c] = l}
        sum(l) == MapThenSumSet(LAMBDA c : row.ret[c], in(l))
    IN  sum(NLayers) * Cardinality(in(1)) - sum(1) * Cardinality(in(NLayers))

-----------------------------------------------------------------------------
(* Trade status of a day *)

\* mutant: names are taken from the newest snapshot
StCodesNow(d) ==
    LET days == {x \in Days : snap[x] # {}}
    IN  IF days = {} THEN {} ELSE {c \in snap[Max(days)] : future.named[c] \in 1..Max(days)}

\* _st_codes_asof: names of the latest snapshot up to d.
StCodesAsOf(d) ==
    LET days == {x \in 1..d : snap[x] # {}}
    IN  IF days = {} THEN {} ELSE {c \in snap[Max(days)] : future.named[c] \in 1..Max(days)}

\* classify_limit: locked at the upper limit it cannot be bought, at the lower not sold; names
\* with ST have half the limit. (The window of 20 days is longer than the horizon.)
Classify(c, d, isSt) ==
    LET before == {x \in 1..d - 1 : Bar(x, c)}
        move == IF before = {} THEN 0 ELSE price[d][c] - price[Max(before)][c]
        limit == IF isSt THEN LimitMove \div 2 ELSE LimitMove
    IN  [st |-> isSt, suspended |-> FALSE, buy |-> move < limit, sell |-> -move < limit]

\* compute_trade_status: a stock of the day's snapshot without a bar is suspended.
TradeStatus(d) ==
    [c \in stored[d] \cup snap[d] |->
        IF c \in stored[d] THEN Classify(c, d, c \in StCodesAsOf(d))
        ELSE [st |-> c \in StCodesAsOf(d), suspended |-> TRUE, buy |-> FALSE, sell |-> FALSE]]

-----------------------------------------------------------------------------
Init ==
    /\ future \in Futures
    /\ price = <<>> /\ stored = <<>> /\ snap = <<>> /\ st = <<>>
    /\ life = <<>> /\ map = <<>> /\ ic = <<>> /\ events = 0

\* Bound of the model: industry syncs do not mix with the other events, since no operator
\* reads the results of both.
Spend == events < MaxEvents /\ map = <<>> /\ events' = events + 1

\* A trade day, with its pool snapshot unless that fails: the stocks that trade. No day
\* begins before the one before it has a bar.
NewDay(missed) ==
    /\ today < Horizon
    /\ today > 0 => stored[today] # {}
    /\ IF missed THEN Spend ELSE UNCHANGED events
    /\ price' = Append(price, future.price[today + 1])
    /\ stored' = Append(stored, {}) /\ st' = Append(st, <<>>)
    /\ snap' = Append(snap, IF missed THEN {} ELSE {c \in Codes : Trades(c, today + 1)})
    /\ UNCHANGED <<future, life, map, ic>>

\* The syncs of the evening store the bars of the day; some may be missing until later.
StoreBars(d, codes) ==
    /\ d \in Days
    /\ codes # {} /\ codes \subseteq {c \in Codes : Trades(c, d)} \ stored[d]
    /\ d < today => codes = {c \in Codes : Trades(c, d)} \ stored[d]
    /\ IF d = today /\ codes = {c \in Codes : Trades(c, d)} THEN UNCHANGED events ELSE Spend
    /\ stored' = [stored EXCEPT ![d] = @ \cup codes]
    /\ UNCHANGED <<future, price, snap, life, st, map, ic>>

\* The rows of a lifecycle sync: whoever is in the snapshot is listed, except what an
\* exchange that answered reports as delisted.
Lifecycle(pool, failed) ==
    [c \in {x \in Codes : Gone(x) # 0 /\ Exchange[x] \notin failed} |->
        [list |-> Born[c], delist |-> Gone(c)]]
    @@ [c \in pool |-> [list |-> IF c \in Dated THEN Born[c] ELSE 0, delist |-> 0]]

\* mutant: the stocks of every snapshot are listed
SyncLifecycleEver(failed) ==
    /\ Spend
    /\ life' = Lifecycle(UNION {snap[d] : d \in Days}, failed) @@ life
    /\ life' # life
    /\ UNCHANGED <<future, price, stored, snap, st, map, ic>>

\* sync_lifecycle, perhaps long after a listing or a delisting; an exchange may not answer.
SyncLifecycle(failed) ==
    /\ Spend
    /\ life' = Lifecycle(CurrentPool, failed) @@ life
    /\ life' # life
    /\ UNCHANGED <<future, price, stored, snap, st, map, ic>>

\* compute_trade_status of the evening, or of a past day by the backfill: an upsert per day.
SyncStatus(d) ==
    /\ d \in Days /\ stored[d] # {} /\ Spend
    /\ st' = [st EXCEPT ![d] = TradeStatus(d) @@ @]
    /\ st' # st
    /\ UNCHANGED <<future, price, stored, snap, life, map, ic>>

\* sync_all: the boards that answered overwrite the rows of the day; when none did, the legacy
\* seed (not real) fills codes that have no row at all.
SyncIndustry(boards) ==
    LET real == DOMAIN boards # {}
        rows == IF real THEN boards
                ELSE [c \in {x \in DOMAIN Legacy : \A i \in DOMAIN map : map[i].code # x} |-> Legacy[c]]
        row(c) == [code |-> c, name |-> rows[c], real |-> real, eff |-> today]
        codes == SetToSeq(DOMAIN rows)
    IN  /\ today > 0 /\ events < MaxEvents /\ events' = events + 1
        /\ map = <<>> => events = 0
        /\ map' = SelectSeq(map, LAMBDA r : ~(r.code \in DOMAIN rows /\ r.eff = today))
                      \o [i \in DOMAIN codes |-> row(codes[i])]
        /\ map' # map
        /\ UNCHANGED <<future, price, stored, snap, life, st, ic>>

\* _persist_ic_rows: upsert by key.
Persist(rows) == ic' = rows @@ ic

ComputeSeries(start, end, step) ==
    /\ start \in Days
    /\ Persist(SeriesRows(start, end, step, "current", {}))
    /\ ic' # ic
    /\ UNCHANGED <<future, price, stored, snap, life, st, map, events>>

Next ==
    \/ \E missed \in BOOLEAN : NewDay(missed)
    \/ \E d \in Days, codes \in SUBSET Codes : StoreBars(d, codes)
    \/ \E failed \in SUBSET Range(Exchange) : SyncLifecycle(failed)
    \/ \E d \in Days : SyncStatus(d)
    \/ \E boards \in Boards : SyncIndustry(boards)
    \/ \E r \in Requests : ComputeSeries(r[1], r[2], r[3])

Spec == Init /\ [][Next]_vars
-----------------------------------------------------------------------------
TypeOK ==
    /\ price = SubSeq(future.price, 1, today)
    /\ Len(stored) = today /\ Len(st) = today /\ Len(snap) = today
    /\ \A d \in Days : stored[d] \subseteq Codes /\ snap[d] \subseteq Codes /\ DOMAIN st[d] \subseteq Codes
    /\ \A c \in DOMAIN life : life[c].delist \in {0, Gone(c)} /\ life[c].list \in {0, Born[c]}
    /\ DOMAIN ic \subseteq Days \X Ahead /\ events \in 0..MaxEvents

\* The pool of a past day holds every stock on record that was listed and traded by then,
\* delisted since or not, and none that was not yet listed: no survivorship bias, no foresight.
PoolIsOfItsDay ==
    \A d \in Days, c \in DOMAIN life :
        /\ Trades(c, d) /\ FirstBar(c) <= d => c \in PoolAsOf(d)
        /\ c \in PoolAsOf(d) => Born[c] <= d

\* A status of a past day, computed then or backfilled since, knows no later name and suspends
\* nobody who was not listed.
StatusIsOfItsDay ==
    \A d \in Days : \A c \in DOMAIN st[d] :
        /\ st[d][c].st => future.named[c] \in 1..d
        /\ st[d][c].suspended => Trades(c, d)

\* A stored IC is final: later days and late bars may add stocks to it, a rerun never
\* changes a pair it was computed from.
IcRowsFinal ==
    \A k \in DOMAIN ic : /\ k \in DOMAIN ic'
                         /\ \A c \in DOMAIN ic[k] : c \in DOMAIN ic'[k] /\ ic'[k][c] = ic[k][c]

NoGap(lo, hi) == \A d \in lo..hi, c \in Codes : d \in Days => Bar(d, c)
\* The IC of one date and the series agree where no bar is missing: the two paths through
\* the factors, one by stock and one by panel, are the same statistic. With the tradable ones
\* only, that takes a day on which nothing is locked at its lower limit.
PathsAgree ==
    \A d \in Days, h \in Ahead, flags \in {{}, {"st"}, {"suspended", "untradable"}} :
        /\ d > Period /\ NoGap(d - Period, d + h) /\ d + h <= today /\ Limit >= Cardinality(Codes)
        /\ "untradable" \in flags => \A c \in DOMAIN st[d] : st[d][c].buy => st[d][c].sell
        => LET rows == SeriesRows(d, d, 1, "current", flags)
           IN  ComputeIc(d, h, "current", flags)
                   = {[date |-> d, pairs |-> rows[k]] : k \in {<<d, h>>} \cap DOMAIN rows}

\* The window read ahead for a whole cross-section is long enough: the value used for an IC is
\* the one the factor page shows, unless the stock has too few bars in the window.
WindowSuffices ==
    \A c \in Codes : \A d \in Days :
        LET page == FactorSeries(c, 1, d)
            inWindow == Cardinality({x \in (d - Trail)..d : Bar(x, c)})
        IN  d \in DOMAIN page =>
                SeriesRoc(d, c, TRUE) = IF inWindow > Period THEN page[d] ELSE {}

\* Both ways to a score, by stock and by panel, choose the same stocks where no bar is missing
\* and no status drops one.
ScoresAgree ==
    \A d \in Days, mode \in {IF map = <<>> THEN "none" ELSE "industry"} :
        d > Period /\ NoGap(d - Period, d) /\ PanelSample(Codes, d, {"st"}) = Codes /\ Cardinality(Codes) <= Limit =>
            MultiFactorScore(d, "current", {"st"}, mode) = Targets(d, d, d, "current", {"st"}, mode)

\* The paper engine on the day itself and a portfolio backtest over a longer range choose their
\* targets among the same stocks: the foundation of the paper account's zero drift.
CandidatesAgree ==
    \A d \in Days :
        LET live == Candidates(d, d, d, "current", {"st"})
        IN  \A r \in Requests : r[1] <= d /\ d <= r[2] => Candidates(r[1], r[2], d, "current", {"st"}) = live

\* A factor that orders the returns of a date perfectly earns a positive long-short return.
SpreadFollowsIc ==
    \A r \in Requests : r[1] \in Days =>
        LET run == LayeredBacktest(r[1], r[2], r[3], "current", {})
        IN  \A d \in DOMAIN run :
                LET in == DOMAIN run[d].ret
                    factor == Value([c \in in |-> PanelRoc(d, c)])
                IN  (\A x, y \in in : factor[x] < factor[y] => run[d].ret[x] < run[d].ret[y])
                        => LongShort(run[d]) > 0

\* The industry of a past day, once one is on record for it, is never rewritten.
IndustryIsOfItsDay ==
    \A d \in 1..today - 1, c \in Codes :
       (\E i \in DOMAIN map : map[i].eff <= d) => Industry(c, Codes, d)' = Industry(c, Codes, d)

\* What a signal of a past day was chosen from does not depend on the bars stored after it: only
\* a bar or a status of its own window can change it.
CandidatesFinal ==
    stored' # stored =>
        \A d \in Days :
            (\A x \in (d - Period)..d \cap Days : stored'[x] = stored[x] /\ st'[x] = st[x])
                => Candidates(d, d, d, "current", {"st"})' = Candidates(d, d, d, "current", {"st"})

\* A delisting on record stays, whichever exchange fails to answer, unless the newest snapshot
\* still holds the stock.
DelistingKept ==
    \A c \in DOMAIN life : life[c].delist # 0 /\ c \notin CurrentPool => life'[c] = life[c]

\* The pool of a day is that day's; both ways to a factor, an IC, a score and to targets meet.
ResearchSound ==
    /\ TypeOK /\ PoolIsOfItsDay /\ StatusIsOfItsDay /\ PathsAgree /\ WindowSuffices
    /\ ScoresAgree /\ CandidatesAgree /\ SpreadFollowsIc

=============================================================================
