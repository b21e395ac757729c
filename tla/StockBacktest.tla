---------------------------- MODULE StockBacktest ---------------------------
(***************************************************************************)
(* A single-stock backtest: a run row is created, executed in the request  *)
(* that submitted it and stored with its result. The engine walks the bars *)
(* of the window: an order placed on a bar is filled at the next open. The *)
(* broker is backtrader's; the signals of a strategy are drawn per bar.    *)
(* The process may die in between; the row stays as it was.                *)
(***************************************************************************)
EXTENDS Integers, Sequences, FiniteSetsExt, Sums

CONSTANTS
    Pool,          \* stock_pool, in the order of the request
    MinBars,       \* _MIN_BARS
    MaxBars,       \* bound of the model: bars of the window
    Bars,          \* the possible bars: open, close, and the sides they permit
    Budget,        \* initial_cash
    Invested,      \* what _AllInOutSizer spends, in percent of the cash
    Slippage, FeeRate, LeastFee, StampRate  \* per share; rates in percent

VARIABLES
    status, result,  \* the run row, the result row
    excluded,        \* codes of the pool the sample flags exclude at the first bar
    window,          \* bars processed so far
    pending,         \* the order waiting for the next open
    cash, held,      \* the broker
    entry,           \* the open trade: bar, size, and what it cost
    ledger           \* _TradeRecorder

vars == <<status, result, excluded, window, pending, cash, held, entry, ledger>>
broker == <<window, pending, cash, held, entry, ledger>>
\* What the parameters are.
Parameters ==
    /\ MinBars \in Nat \ {0} /\ MaxBars \in Nat
    /\ Bars \subseteq [open : Nat, close : Nat \ {0}, buy : BOOLEAN, sell : BOOLEAN]
    /\ {Budget, Invested, Slippage, FeeRate, LeastFee, StampRate} \subseteq Nat

NoOrder == [side |-> "none", size |-> 0]
Flat == [bar |-> 0, size |-> 0, cost |-> 0]
NoResult == [final |-> 0, trades |-> <<>>, positions |-> <<>>]
bar == Len(window)

\* AShareCommission: a least fee per order, stamp duty on sells only.
Commission(side, amount) ==
    Max({(amount * FeeRate) \div 100, LeastFee})
        + (IF side = "sell" THEN (amount * StampRate) \div 100 ELSE 0)

\* _AllInOutSizer, at the close of the bar of the signal.
Size(side, b) == IF side = "sell" THEN held ELSE (cash * Invested) \div (100 * b.close)

\* The position curve: from the entry to the exit of every recorded trade.
PositionCurve ==
    [d \in 1..bar |->
        Total([i \in DOMAIN ledger |->
                  IF ledger[i].from <= d /\ d <= ledger[i].to THEN ledger[i].size ELSE 0])]

-----------------------------------------------------------------------------
\* create_backtest_run
Init ==
    /\ status = "pending" /\ result = NoResult
    /\ excluded \in SUBSET {Pool[i] : i \in DOMAIN Pool}
    /\ window = <<>> /\ pending = NoOrder
    /\ cash = Budget /\ held = 0 /\ entry = Flat /\ ledger = <<>>

\* execute_and_store: the row is running from the first commit on; the sample flags fail
\* the run when they leave no code of the pool.
Execute ==
    /\ status = "pending"
    /\ status' = IF excluded = {Pool[i] : i \in DOMAIN Pool} THEN "failed" ELSE "running"
    /\ UNCHANGED <<result, excluded, broker>>

\* mutant: an order that the cash does not cover is filled all the same
FillBlindly(b) ==
    CASE pending.side = "buy" ->
           LET price == b.open + Slippage
               cost == pending.size * price + Commission("buy", pending.size * price)
           IN  /\ cash' = cash - cost /\ held' = pending.size
               /\ entry' = [bar |-> bar + 1, size |-> pending.size, cost |-> cost]
               /\ UNCHANGED ledger
      [] pending.side = "sell" ->
           LET income == held * (b.open - Slippage) - Commission("sell", held * (b.open - Slippage))
           IN  /\ cash' = cash + income /\ held' = 0 /\ entry' = Flat
               /\ ledger' = Append(ledger, [from |-> entry.bar, to |-> bar + 1, size |-> entry.size,
                                            pnl |-> income - entry.cost])
      [] OTHER -> UNCHANGED <<cash, held, entry, ledger>>

\* mutant: the recorded profit forgets the fee of the sell
FillGross(b) ==
    CASE pending.side = "buy" ->
           LET price == b.open + Slippage
               cost == pending.size * price + Commission("buy", pending.size * price)
           IN  IF pending.size = 0 \/ cost > cash THEN UNCHANGED <<cash, held, entry, ledger>>
               ELSE /\ cash' = cash - cost /\ held' = pending.size
                    /\ entry' = [bar |-> bar + 1, size |-> pending.size, cost |-> cost]
                    /\ UNCHANGED ledger
      [] pending.side = "sell" ->
           LET gross == held * (b.open - Slippage)
           IN  /\ cash' = cash + gross - Commission("sell", gross) /\ held' = 0 /\ entry' = Flat
               /\ ledger' = Append(ledger, [from |-> entry.bar, to |-> bar + 1, size |-> entry.size,
                                            pnl |-> gross - entry.cost])
      [] OTHER -> UNCHANGED <<cash, held, entry, ledger>>

\* The broker fills the pending order at the open with slippage: a buy the cash does not
\* cover is rejected for margin, a sell closes the trade and is recorded.
Fill(b) ==
    CASE pending.side = "buy" ->
           LET price == b.open + Slippage
               cost == pending.size * price + Commission("buy", pending.size * price)
           IN  IF pending.size = 0 \/ cost > cash THEN UNCHANGED <<cash, held, entry, ledger>>
               ELSE /\ cash' = cash - cost /\ held' = pending.size
                    /\ entry' = [bar |-> bar + 1, size |-> pending.size, cost |-> cost]
                    /\ UNCHANGED ledger
      [] pending.side = "sell" ->
           LET gross == held * (b.open - Slippage)
               income == gross - Commission("sell", gross)
           IN  /\ cash' = cash + income /\ held' = 0 /\ entry' = Flat
               /\ ledger' = Append(ledger, [from |-> entry.bar, to |-> bar + 1, size |-> entry.size,
                                            pnl |-> income - entry.cost])
      [] OTHER -> UNCHANGED <<cash, held, entry, ledger>>

\* mutant: the strategies do not look whether they hold
OrderAny(b, signal) ==
    pending' = IF signal = "enter" /\ b.buy
               THEN [side |-> "buy", size |-> (cash' * Invested) \div (100 * b.close)]
               ELSE IF signal = "exit" /\ b.sell THEN [side |-> "sell", size |-> held'] ELSE NoOrder

\* BaseStrategy.buy and sell on a signal of next(): flat strategies look for an entry,
\* others for an exit; a side the bar does not permit consumes the signal.
Order(b, signal) ==
    pending' = CASE signal = "enter" /\ held' = 0 /\ b.buy -> [side |-> "buy", size |-> Size("buy", b)']
                 [] signal = "exit" /\ held' > 0 /\ b.sell -> [side |-> "sell", size |-> Size("sell", b)']
                 [] OTHER -> NoOrder

\* A bar: the broker first, then the strategy.
NextBar(b, signal) ==
    /\ status = "running" /\ bar < MaxBars
    /\ window' = Append(window, b)
    /\ Fill(b)
    /\ Order(b, signal)
    /\ UNCHANGED <<status, result, excluded>>

\* mutant: the run is done before its result is stored
StoreHalf ==
    /\ status = "running" /\ bar = MaxBars
    /\ status' = "done"
    /\ UNCHANGED <<result, excluded, broker>>

\* The run ends: too few bars fail it; otherwise result and status are one commit.
Store ==
    /\ status = "running" /\ bar = MaxBars
    /\ IF bar < MinBars THEN status' = "failed" /\ UNCHANGED result
       ELSE /\ status' = "done"
            /\ result' = [final |-> cash + held * window[bar].close, trades |-> ledger,
                          positions |-> PositionCurve]
    /\ UNCHANGED <<excluded, broker>>

\* The engine raises: the run is failed.
Raise ==
    /\ status = "running" /\ status' = "failed"
    /\ UNCHANGED <<result, excluded, broker>>

Next ==
    \/ Execute \/ Store \/ Raise
    \/ \E b \in Bars, signal \in {"enter", "exit", "none"} : NextBar(b, signal)
Spec == Init /\ [][Next]_vars
-----------------------------------------------------------------------------
TypeOK ==
    /\ status \in {"pending", "running", "done", "failed"}
    /\ pending.side \in {"none", "buy", "sell"} /\ pending.size \in Nat
    /\ held \in Nat /\ bar <= MaxBars /\ entry.bar \in 0..bar

\* The fees of a sale are paid by it, were it of a single share.
SalesPayFees ==
    /\ FeeRate + StampRate <= 100
    /\ \A b \in Bars : LET price == b.open - Slippage
                       IN  price > 0 /\ Commission("sell", price) <= price

\* The broker never owes: whatever the gap from the close of a signal to the next open.
BrokerSolvent == cash >= 0

\* The recorded trades are the whole of it: profits and losses of the closed trades and
\* the cost of the open one account for every unit of cash.
TradesExplainCash ==
    cash + entry.cost = Budget + Total([i \in DOMAIN ledger |-> ledger[i].pnl])

\* Trades are one after the other: each is entered after the exit of the one before it,
\* never on the same bar, and closes what it opened.
TradesInTurn ==
    /\ \A i \in DOMAIN ledger : ledger[i].from < ledger[i].to /\ ledger[i].size > 0
    /\ \A i \in 1..Len(ledger) - 1 : ledger[i].to < ledger[i + 1].from
    /\ entry = Flat <=> held = 0

\* A done run has a result, any other has none; its position curve shows at every bar one
\* trade of the result at most.
DoneHasResult ==
    /\ status = "done" <=> result # NoResult
    /\ \A d \in DOMAIN result.positions :
           result.positions[d] = 0 \/ \E i \in DOMAIN result.trades : result.trades[i].size = result.positions[d]

\* Broker, recorded trades and stored result account for each other.
BacktestSound == TypeOK /\ BrokerSolvent /\ TradesExplainCash /\ TradesInTurn /\ DoneHasResult

=============================================================================
