------------------------------ MODULE Execution ------------------------------
(***************************************************************************)
(* Fills at the next open, shared by the paper engine and the portfolio    *)
(* backtest: who may trade, at what price, how many board lots, what fees, *)
(* and the portfolio backtest itself as a function of the market.          *)
(*                                                                         *)
(* A quote is the opening price of a code on a day (0: no row or no open)  *)
(* and whether it may be bought and sold; a wallet is cash and shares.     *)
(* Prices, fees and cash are whole units; rates are in percent.            *)
(***************************************************************************)
EXTENDS Integers, Sequences, SequencesExt, FiniteSetsExt, Sums

CONSTANTS
    Codes,        \* stocks
    TopN,         \* config top_n: number of equal slots
    Lot,          \* BOARD_LOT
    Slip,         \* slippage
    MinFee, Rate, Duty, \* CostParams (commission_rate covers the transfer fee)
    InitialCash

Larger(a, b) == IF a >= b THEN a ELSE b

\* fetch_open_prices and fetch_tradability: what the rows of a code say, if there are any;
\* a code without a status row may be bought and sold.
Quote(opens, flags) ==
    [open |-> IF opens = {} THEN 0 ELSE CHOOSE o \in opens : TRUE,
     buy  |-> \A f \in flags : f.buy # 0,
     sell |-> \A f \in flags : f.sell # 0]

\* A blocked buy is skipped for the cycle, a blocked sell is carried.
MatchFill(side, q) ==
    IF q.open # 0 /\ q[side] THEN "fill"
    ELSE IF side = "buy" THEN "skip" ELSE "defer"

FillPrice(open, side) == IF side = "buy" THEN open + Slip ELSE open - Slip

BoardLotShares(value, price) == IF price <= 0 THEN 0 ELSE (value \div (price * Lot)) * Lot

BuyCost(amount)  == Larger((amount * Rate) \div 100, MinFee)
SellCost(amount) == BuyCost(amount) + (amount * Duty) \div 100

FreshWallet == [cash |-> InitialCash, hold |-> [c \in Codes |-> 0]]

SellAmount(w, c, q) == w.hold[c] * FillPrice(q.open, "sell")
SellOne(w, c, q) ==
    [cash |-> w.cash + SellAmount(w, c, q) - SellCost(SellAmount(w, c, q)),
     hold |-> [w.hold EXCEPT ![c] = 0]]

\* The cash and the shares at the open.
Wealth(w, market) ==
    LET codes == SetToSeq(Codes)
    IN  w.cash + Total([n \in DOMAIN codes |-> w.hold[codes[n]] * market[codes[n]].open])

\* One slot of the open-marked wealth after the sells.
PerTarget(w, market) == Larger(Wealth(w, market), 0) \div TopN

BuyShares(slot, q) == BoardLotShares(slot, FillPrice(q.open, "buy"))
BuyAmount(slot, q) == BuyShares(slot, q) * FillPrice(q.open, "buy")
Affordable(w, slot, q) ==
    BuyShares(slot, q) > 0 /\ BuyAmount(slot, q) + BuyCost(BuyAmount(slot, q)) <= w.cash
BuyOne(w, c, slot, q) ==
    [cash |-> w.cash - BuyAmount(slot, q) - BuyCost(BuyAmount(slot, q)),
     hold |-> [w.hold EXCEPT ![c] = BuyShares(slot, q)]]

-----------------------------------------------------------------------------
(* run_mf_backtest: targets are known for every rebalance date, trades are  *)
(* executed at the open of the trade day after it.                          *)

\* The sales of a day, and its purchases of targets not held in the order of their rank.
SellAll(w, codes, market) ==
    LET after[n \in 0..Len(codes)] ==
            IF n = 0 THEN w ELSE SellOne(after[n - 1], codes[n], market[codes[n]])
    IN  after[Len(codes)]

BuyTargets(w, targets, slot, market) ==
    LET blocked(x, c) == \/ x.hold[c] > 0 \/ MatchFill("buy", market[c]) # "fill"
                         \/ ~Affordable(x, slot, market[c])
        after[n \in 0..Len(targets)] ==
            IF n = 0 THEN w
            ELSE IF blocked(after[n - 1], targets[n]) THEN after[n - 1]
            ELSE BuyOne(after[n - 1], targets[n], slot, market[targets[n]])
    IN  after[Len(targets)]

\* One execution day: sell what is held and no target, then buy the targets not held.
Rebalance(w, targets, market) ==
    LET exits == {c \in Codes : /\ w.hold[c] > 0 /\ c \notin ToSet(targets)
                                /\ MatchFill("sell", market[c]) = "fill"}
        sold  == SellAll(w, SetToSeq(exits), market)
    IN  BuyTargets(sold, targets, PerTarget(sold, market), market)

\* The wallet after day n, given the trade days, the targets of every rebalance
\* date (<<>>: none) and the market.
Backtest(n, tradeDays, targets, market) ==
    LET before(d) == {x \in tradeDays : x < d}
        wallet[d \in 0..n] ==
            IF d = 0 THEN FreshWallet
            ELSE IF d \notin tradeDays \/ before(d) = {} THEN wallet[d - 1]
            ELSE LET signal == CHOOSE t \in before(d) : \A x \in before(d) : x <= t
                 IN  IF targets[signal] = <<>> THEN wallet[d - 1]
                     ELSE Rebalance(wallet[d - 1], targets[signal], market[d])
    IN  wallet[n]
=============================================================================
