---------------------------- MODULE PaperTrading ----------------------------
(***************************************************************************)
(* The paper-trading account: a tick per day matches the pending orders at *)
(* the open, signals new ones on rebalance dates, and commits snapshot,    *)
(* NAV row and cash in one transaction. Ticks come from the 20:00 step     *)
(* (today) and from the console (any past day, for catch-up); a tick reads *)
(* its account when it begins and writes when it ends.                     *)
(*                                                                         *)
(* Days are weekdays 1, 2, ...; WeekLen of them are a week. The market of  *)
(* a day and the ranking a rebalance date yields are drawn at dawn.        *)
(***************************************************************************)
EXTENDS Execution, FiniteSets

CONSTANTS
    Horizon, WeekLen,  \* bound of the model: weekdays; weekdays per week
    Calendars,         \* the possible sets of exchange holidays
    Markets, Calm,     \* the possible days, and the usual one
    Closed,            \* the day of a holiday (no quotes)
    Unusual,           \* bound of the model: days other than Calm
    Rankings,          \* results of scope_and_score_targets; <<>>: too few candidates
    PauseDays,         \* bound of the model: days on which the console may pause
    Drifts,            \* sets of held targets beyond rebalance_tol ({{}}: the default, no tolerance)
    Orderly            \* ticks never overlap a tick of another day nor go back

Quotes == [Codes -> [open : Nat, buy : BOOLEAN, sell : BOOLEAN]]
ASSUME ParametersAssumption ==
    /\ IsFiniteSet(Codes)
    /\ {TopN, Lot, WeekLen} \subseteq Nat \ {0}
    /\ {Slip, MinFee, Rate, Duty, InitialCash, Horizon} \subseteq Nat
    /\ Markets \cup {Calm, Closed} \subseteq Quotes
    /\ \A r \in Rankings : r \in Seq(Codes) /\ IsInjective(r)

Sources == {"step", "console"}
Idle == [day |-> 0]

VARIABLES
    today, holidays,
    market,            \* quotes per day, up to today
    ranks,             \* ranking per day, up to today
    status, cash,      \* sa_paper_account
    positions,         \* sa_paper_position: ticked day -> shares per code
    orders,            \* sa_paper_order, the id is the index
    trades,            \* sa_paper_trade, in order of insertion
    signalled,         \* history: days whose tick turned targets into orders
    session            \* the tick each source is running

account == <<status, cash, positions, orders, trades, signalled>>
world == <<today, holidays, market, ranks>>
vars == <<today, holidays, market, ranks, status, cash, positions, orders, trades,
          signalled, session>>

ticked == DOMAIN positions   \* days with a NAV row
TradeDays == {d \in 1..today : d \notin holidays}
Friday(d) == ((d - 1) \div WeekLen + 1) * WeekLen
SameWeek(d, x) == Friday(d) = Friday(x)
\* mutant: an order waits a day too long
NextWeekdayLate(d) == d + 2

\* _next_weekday
NextWeekday(d) == d + 1

None == [c \in Codes |-> 0]
EmptyWallet(h) == h = None

-----------------------------------------------------------------------------
\* mutant: a tick starts from the latest snapshot, whatever its day
PositionsAny(d) == IF ticked = {} THEN None
                   ELSE positions[CHOOSE x \in ticked : \A y \in ticked : x <= y]

\* Holdings of the latest snapshot before d that has a row.
PositionsLatest(d) ==
    LET withRows == {x \in ticked : x < d /\ ~EmptyWallet(positions[x])}
    IN  IF withRows = {} THEN None
        ELSE positions[CHOOSE x \in withRows : \A y \in withRows : y <= x]

\* mutant: the due orders ignore whether they were already settled
DueAny(d) == {i \in DOMAIN orders : orders[i].exec <= d /\ orders[i].signal < d}

Due(d) == {i \in DOMAIN orders : /\ orders[i].status = "pending"
                                 /\ orders[i].exec <= d
                                 /\ orders[i].signal < d}

Trade(i, d, o, shares, flow) ==
    [order |-> i, day |-> d, code |-> o.code, side |-> o.side, shares |-> shares, flow |-> flow]

\* The state of a match: wallet, orders and new trades.
Settle(acc, i, to) == [acc EXCEPT !.orders[i].status = to]
Fill(acc, i, d, w, shares) ==
    [w |-> w, orders |-> Settle(acc, i, "filled").orders,
     trades |-> Append(acc.trades, Trade(i, d, acc.orders[i], shares, w.cash - acc.w.cash))]

\* mutant: a blocked sell is cancelled
MatchSellOnce(acc, i, d) ==
    LET o == acc.orders[i]
        q == market[d][o.code]
    IN  IF MatchFill("sell", q) # "fill" \/ acc.w.hold[o.code] = 0
        THEN Settle(acc, i, "cancelled")
        ELSE Fill(acc, i, d, SellOne(acc.w, o.code, q), acc.w.hold[o.code])

MatchSell(acc, i, d) ==
    LET o == acc.orders[i]
        q == market[d][o.code]
    IN  IF MatchFill("sell", q) # "fill"
        THEN [acc EXCEPT !.orders[i].exec = NextWeekday(d)]
        ELSE IF acc.w.hold[o.code] = 0 THEN Settle(acc, i, "cancelled")
        ELSE Fill(acc, i, d, SellOne(acc.w, o.code, q), acc.w.hold[o.code])

\* mutant: a buy is not clipped by the cash left
MatchBuyOnCredit(acc, i, d, slot) ==
    LET o == acc.orders[i]
        q == market[d][o.code]
    IN  IF MatchFill("buy", q) # "fill" \/ BuyShares(slot, q) = 0
        THEN Settle(acc, i, "skipped")
        ELSE Fill(acc, i, d, BuyOne(acc.w, o.code, slot, q), BuyShares(slot, q))

MatchBuy(acc, i, d, slot) ==
    LET o == acc.orders[i]
        q == market[d][o.code]
    IN  IF MatchFill("buy", q) # "fill" \/ ~Affordable(acc.w, slot, q)
        THEN Settle(acc, i, "skipped")
        ELSE Fill(acc, i, d, BuyOne(acc.w, o.code, slot, q), BuyShares(slot, q))

Opening(d) == [w |-> [cash |-> cash, hold |-> PositionsLatest(d)], orders |-> orders, trades |-> <<>>]

\* The due orders of a side by their ids; the slot is what a buy may spend.
MatchSide(d, side, first, slot) ==
    LET after[n \in 0..Len(orders)] ==
            IF n = 0 THEN first
            ELSE IF n \notin Due(d) \/ orders[n].side # side THEN after[n - 1]
            ELSE IF side = "sell" THEN MatchSell(after[n - 1], n, d)
            ELSE MatchBuy(after[n - 1], n, d, slot)
    IN  after[Len(orders)]

\* mutant: the slot is sized before the sells
MatchEarlySlot(d) ==
    MatchSide(d, "buy", MatchSide(d, "sell", Opening(d), 0), PerTarget([cash |-> cash, hold |-> None], market[d]))

\* Segment 1: the due sells, then the due buys in equal slots of what is left.
Match(d) ==
    LET sold == MatchSide(d, "sell", Opening(d), 0)
    IN  MatchSide(d, "buy", sold, PerTarget(sold.w, market[d]))

\* _qualifies_rebalance, weekly: the last known trade day of a week that is over.
QualifiesRebalance(d) ==
    /\ d \in TradeDays
    /\ \A x \in TradeDays : SameWeek(d, x) => x <= d
    /\ today >= Friday(d)

Order(code, side, d) ==
    [code |-> code, side |-> side, signal |-> d, exec |-> NextWeekday(d), status |-> "pending"]

\* diff_orders: sell what is no target or, with a rebalance_tol, overweight; buy what is not
\* held or underweight.
DiffOrders(hold, targets, over, under) ==
    LET held == {c \in Codes : hold[c] > 0}
    IN  [sell |-> (held \ ToSet(targets)) \cup (held \cap over),
         buy  |-> {c \in ToSet(targets) : c \notin held \/ c \in under}]

\* The targets that are bought, in the order of their rank.
Ranked(targets, buy) ==
    LET ranked[n \in 0..Len(targets)] ==
            IF n = 0 THEN <<>>
            ELSE IF targets[n] \in buy THEN Append(ranked[n - 1], targets[n])
            ELSE ranked[n - 1]
    IN  ranked[Len(targets)]

\* _create_orders: the sells, then the buys.
CreateOrders(hold, targets, d, over, under) ==
    LET intents == DiffOrders(hold, targets, over, under)
        sells == SetToSeq(intents.sell)
        buys == Ranked(targets, intents.buy)
    IN  [i \in 1..Len(sells) |-> Order(sells[i], "sell", d)]
            \o [i \in 1..Len(buys) |-> Order(buys[i], "buy", d)]

-----------------------------------------------------------------------------
Init ==
    /\ today = 0 /\ holidays \in Calendars
    /\ market = <<>> /\ ranks = <<>>
    /\ status = "active" /\ cash = InitialCash
    /\ positions = <<>> /\ orders = <<>> /\ trades = <<>> /\ signalled = {}
    /\ session = [s \in Sources |-> Idle]

\* A new weekday: its quotes and, on the week's last trade day, its ranking.
Dawn ==
    /\ today < Horizon
    /\ LET d == today + 1
           last == d \notin holidays /\ \A x \in d+1..Friday(d) : x \in holidays
       IN  /\ today' = d
           /\ \E m \in (IF d \in holidays THEN {Closed} ELSE Markets) : market' = Append(market, m)
           /\ Cardinality({x \in 1..d : market'[x] \notin {Calm, Closed}}) <= Unusual
           /\ \E r \in (IF last THEN Rankings ELSE {<<>>}) : ranks' = Append(ranks, r)
    /\ UNCHANGED <<holidays, account, session>>

\* create_account starts it active; the console sets any status from any other
\* (stopped is no different from paused).
SetStatus(to) ==
    /\ status' = to /\ status # to
    /\ to # "active" => today \in PauseDays
    /\ UNCHANGED <<world, cash, positions, orders, trades, signalled, session>>

\* The named assumption of Orderly (the code has no such check).
InOrder(s, d) ==
    /\ \A x \in ticked : x < d
    /\ \A other \in Sources \ {s} : session[other].day \in {0, d}

\* The early returns: account not active, or the day's NAV row exists.
TickSkipped(d) ==
    /\ d \in 1..today
    /\ status # "active" \/ d \in ticked
    /\ UNCHANGED vars

\* paper_tick up to its commit. panel: whether the market panel loads and, when
\* d is today, passes the completeness check; only a rebalance date asks for it.
TickBegin(s, d, panel, over, under) ==
    /\ session[s] = Idle
    /\ d \in 1..today /\ (s = "step" => d = today)
    /\ Orderly => InOrder(s, d)
    /\ status = "active"
    /\ d \notin ticked
    /\ ~panel => QualifiesRebalance(d)
    /\ LET m == Match(d)
           signals == QualifiesRebalance(d) /\ panel /\ ranks[d] # <<>>
           new == IF signals THEN CreateOrders(m.w.hold, ranks[d], d, over, under) ELSE <<>>
       IN  session' = [session EXCEPT ![s] =
               [day |-> d, wallet |-> m.w, trades |-> m.trades, new |-> new, signals |-> signals,
                changed |-> [i \in Due(d) |-> m.orders[i]]]]
    /\ UNCHANGED <<world, account>>

\* mutant: no unique key on the NAV row
TickCommitAgain(s) ==
    /\ session[s] # Idle
    /\ LET t == session[s]
       IN  /\ orders' = [i \in DOMAIN orders |->
                  IF i \in DOMAIN t.changed THEN t.changed[i] ELSE orders[i]] \o t.new
           /\ trades' = trades \o t.trades
           /\ positions' = [x \in ticked \cup {t.day} |->
                               IF x = t.day THEN t.wallet.hold ELSE positions[x]]
           /\ cash' = t.wallet.cash
           /\ signalled' = IF t.signals THEN signalled \cup {t.day} ELSE signalled
    /\ session' = [session EXCEPT ![s] = Idle]
    /\ UNCHANGED <<world, status>>

\* The commit: rows by id, the snapshot, the NAV row, the cash it computed. A NAV
\* row of the same day rejects it (uk_account_date) and all is rolled back.
TickCommit(s) ==
    /\ session[s] # Idle
    /\ LET t == session[s]
       IN  IF t.day \in ticked THEN UNCHANGED account
           ELSE /\ orders' = [i \in DOMAIN orders |->
                       IF i \in DOMAIN t.changed THEN t.changed[i] ELSE orders[i]] \o t.new
                /\ trades' = trades \o t.trades
                /\ positions' = [x \in ticked \cup {t.day} |->
                                    IF x = t.day THEN t.wallet.hold ELSE positions[x]]
                /\ cash' = t.wallet.cash
                /\ signalled' = IF t.signals THEN signalled \cup {t.day} ELSE signalled
                /\ UNCHANGED status
    /\ session' = [session EXCEPT ![s] = Idle]
    /\ UNCHANGED world

\* The process dies or the request fails before the commit.
TickLost(s) ==
    /\ session[s] # Idle
    /\ session' = [session EXCEPT ![s] = Idle]
    /\ UNCHANGED <<world, account>>

Next ==
    \/ Dawn
    \/ \E to \in {"active", "paused"} : SetStatus(to)
    \/ \E s \in Sources, d \in 1..Horizon, panel \in BOOLEAN, over, under \in Drifts :
           over \cap under = {} /\ TickBegin(s, d, panel, over, under)
    \/ \E d \in 1..Horizon : TickSkipped(d)
    \/ \E s \in Sources : TickCommit(s) \/ TickLost(s)

Spec == Init /\ [][Next]_vars
-----------------------------------------------------------------------------
TypeOK ==
    /\ today \in 0..Horizon /\ holidays \in Calendars
    /\ status \in {"active", "paused"} /\ cash \in Int
    /\ ticked \subseteq 1..today /\ signalled \subseteq ticked
    /\ \A d \in ticked : positions[d] \in [Codes -> Nat]
    /\ \A i \in DOMAIN orders : orders[i] \in
           [code : Codes, side : {"buy", "sell"}, signal : 1..Horizon, exec : 2..Horizon + 1,
            status : {"pending", "filled", "skipped", "cancelled"}]
    /\ \A s \in Sources : session[s].day \in 0..today

\* The cash of the account is its initial cash and the flows of its trades: no fill is
\* lost or counted twice when the step and the console tick at the same time.
CashIsTrades == cash = InitialCash + Total([n \in DOMAIN trades |-> trades[n].flow])

\* An order is filled exactly when one trade of it exists, however often a day is ticked.
FilledOnce ==
    /\ \A n \in DOMAIN trades : LET i == trades[n].order IN
           i \in DOMAIN orders /\ orders[i].status = "filled" /\ trades[n].day > orders[i].signal
    /\ \A i \in DOMAIN orders : orders[i].status = "filled" => \E n \in DOMAIN trades : trades[n].order = i
    /\ \A n, k \in DOMAIN trades : trades[n].order = trades[k].order => n = k

\* Fees and clipped buys never take the account below zero.
Solvent == cash >= 0

\* What a trade adds to the shares of c, up to day d.
Gain(t, c, d) ==
    IF t.code # c \/ t.day > d THEN 0
    ELSE IF t.side = "buy" THEN t.shares ELSE -t.shares
\* Assets are conserved: a snapshot holds what was bought and not yet sold.
SharesAreTrades ==
    \A d \in ticked, c \in Codes : positions[d][c] = Total([n \in DOMAIN trades |-> Gain(trades[n], c, d)])

\* A snapshot without rows after one with rows: the next tick does not see it.
Emptied == \E d, x \in ticked : x < d /\ EmptyWallet(positions[d]) /\ ~EmptyWallet(positions[x])
\* Assets are conserved as long as the portfolio was never sold out.
SharesUnlessEmptied == Emptied \/ SharesAreTrades

\* Every sale of whole lots pays for its own fees: the smallest one does, and the rates
\* take no more than the proceeds.
SalesCoverFees ==
    /\ Rate + Duty <= 100
    /\ \A m \in Markets \cup {Calm, Closed}, c \in Codes :
           LET price == m[c].open - Slip
           IN  m[c].open # 0 => price > 0 /\ SellCost(Lot * price) <= Lot * price

\* Without a tolerance no held target is topped up.
NoTopUps == \A D \in Drifts : D = {}

\* The books of the account balance: cash, orders, trades and snapshots tell one story.
BooksBalance == TypeOK /\ Solvent /\ CashIsTrades /\ FilledOnce /\ SharesUnlessEmptied

LastTick == CHOOSE d \in ticked : \A x \in ticked : x <= d
LastSignal == CHOOSE d \in signalled : \A x \in signalled : x <= d
\* What is held and no target of the last signal still has a pending sell: a blocked exit
\* is carried, never forgotten.
ExitPending ==
    signalled = {} \/ Emptied \/
        \A c \in Codes : positions[LastTick][c] > 0 /\ c \notin ToSet(ranks[LastSignal])
            => \E i \in DOMAIN orders : /\ orders[i].code = c /\ orders[i].side = "sell"
                                        /\ orders[i].status = "pending"

-----------------------------------------------------------------------------
(* Paper against backtest *)

\* mutant: a week counts from its first trade day
RebalanceScheduleFirst(days) == {d \in days : \A x \in days : SameWeek(d, x) => d <= x}

\* _rebalance_schedule: the last trade day of each week.
RebalanceSchedule(days) == {d \in days : \A x \in days : SameWeek(d, x) => x <= d}

\* run_drift: the portfolio backtest of the account's configuration up to a day; the last
\* rebalance date of a range is left out (nothing of it is executed).
RunDrift(upTo) ==
    LET days == {d \in TradeDays : d <= upTo}
        dates == RebalanceSchedule(days)
        last == CHOOSE d \in dates : \A x \in dates : x <= d
        used == IF dates = {} THEN {} ELSE dates \ {last}
    IN  Backtest(upTo, days, [d \in 1..upTo |-> IF d \in used THEN ranks[d] ELSE <<>>], market)

\* holding_jaccard, as intersection and union.
HoldingJaccard(h, g) ==
    LET held(x) == {c \in Codes : x[c] > 0}
    IN  <<Cardinality(held(h) \cap held(g)), Cardinality(held(h) \cup held(g))>>

SignalDates == {d \in 1..today : ranks[d] # <<>>}
\* No tick was missed, none ran on a holiday with orders due, no exit was blocked, no
\* signal was lost and the portfolio was never sold out.
Undisturbed ==
    /\ {d \in TradeDays : d <= LastTick} \subseteq ticked
    /\ SignalDates \cap 1..LastTick \subseteq signalled
    /\ \A i \in DOMAIN orders : /\ orders[i].exec = NextWeekday(orders[i].signal)
                                /\ \A h \in ticked \cap holidays : h > orders[i].signal =>
                                       \E d \in TradeDays : orders[i].signal < d /\ d < h
    /\ ~Emptied
\* Zero drift: an undisturbed account holds what the portfolio backtest of its days holds.
ZeroDrift ==
    ticked # {} /\ Undisturbed =>
        LET w == RunDrift(LastTick)
            j == HoldingJaccard(positions[LastTick], w.hold)
        IN  positions[LastTick] = w.hold /\ cash = w.cash /\ j[1] = j[2]
=============================================================================
