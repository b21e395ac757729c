--------------------------- MODULE MCProductProofs ---------------------------
(***************************************************************************)
(* What the parts of MCProduct promise, for every value of their           *)
(* parameters: an inductive invariant per part. Parts share no variable,   *)
(* so each invariant is kept by the steps of its own part alone.           *)
(***************************************************************************)
EXTENDS MCProduct, InductionFacts, TLAPS

-----------------------------------------------------------------------------
(* Backtests of one stock *)

Trips == [from : Nat, to : Nat, size : Nat \ {0}, pnl : Int]
Pnl(l) == [i \in DOMAIN l |-> l[i].pnl]
HeldAt(l, d) == [i \in DOMAIN l |-> IF l[i].from <= d /\ d <= l[i].to THEN l[i].size ELSE 0]

\* What the broker holds is the open trade, and the cash explains it.
Holding ==
    /\ window \in Seq(Bars) /\ Len(window) <= MaxBars
    /\ cash \in Nat /\ held \in Nat
    /\ entry \in [bar : Nat, size : Nat, cost : Int]
    /\ held = entry.size /\ entry.bar <= Len(window)
    /\ held = 0 => entry = Strategy!Flat
    /\ cash + entry.cost = Budget + Total(Pnl(ledger))

\* The closed trades lie one after the other, and before the open one.
Closed ==
    /\ ledger \in Seq(Trips)
    /\ \A i \in DOMAIN ledger :
           /\ ledger[i].from < ledger[i].to /\ ledger[i].to <= Len(window)
           /\ held > 0 => ledger[i].to < entry.bar
    /\ \A i, j \in DOMAIN ledger : i < j => ledger[i].to < ledger[j].from

\* Nobody buys what he holds or sells what he does not.
Waiting ==
    /\ pending \in [side : {"none", "buy", "sell"}, size : Nat]
    /\ pending.side = "buy" => held = 0
    /\ pending.side = "sell" => held > 0

Stored ==
    /\ status \in {"pending", "running", "done", "failed"}
    /\ status = "done" <=> result # Strategy!NoResult
    /\ \A d \in DOMAIN result.positions :
           result.positions[d] = 0 \/ \E i \in DOMAIN result.trades : result.trades[i].size = result.positions[d]

StrategyInv == Holding /\ Closed /\ Waiting /\ Stored

LEMMA SameTotal == ASSUME NEW s PROVE Strategy!Total(s) = Total(s)
  BY DEF Strategy!Total, Total

\* A fee is a number, and that of a sale is paid by it.
LEMMA CommissionIsNat ==
    ASSUME NEW side, NEW a \in Nat PROVE Strategy!Commission(side, a) \in Nat
  <1>1. FeeRate \in Nat /\ StampRate \in Nat /\ LeastFee \in Nat
    BY StrategyAssumption DEF Strategy!Parameters
  <1>2. (a * FeeRate) \div 100 \in Nat /\ (a * StampRate) \div 100 \in Nat
    BY <1>1, Percents
  <1> DEFINE f == (a * FeeRate) \div 100
  <1> HIDE DEF f
  <1>3. Strategy!Max({f, LeastFee}) \in Nat
    BY <1>1, <1>2 DEF Strategy!Max, f
  <1> QED
    BY <1>2, <1>3 DEF Strategy!Commission, f

LEMMA SaleIsPaid ==
    ASSUME Strategy!SalesPayFees, NEW b \in Bars, NEW n \in Nat \ {0}
    PROVE  LET gross == n * (b.open - Slippage)
           IN  gross \in Nat /\ Strategy!Commission("sell", gross) \in Nat
                   /\ Strategy!Commission("sell", gross) <= gross
  <1> DEFINE p == b.open - Slippage
             a == n * p
             fee(x) == (x * FeeRate) \div 100
             duty(x) == (x * StampRate) \div 100
             C(x) == Strategy!Commission("sell", x)
  <1>1. /\ FeeRate \in Nat /\ StampRate \in Nat /\ LeastFee \in Nat /\ Slippage \in Nat /\ b.open \in Nat
        /\ FeeRate + StampRate <= 100
    BY StrategyAssumption DEF Strategy!Parameters, Strategy!SalesPayFees
  <1>2. p \in Nat /\ p > 0 /\ C(p) <= p
    BY <1>1 DEF Strategy!SalesPayFees
  <1> HIDE DEF p
  <1>3. a \in Nat /\ p <= a
    BY <1>2, Multiples
  <1> HIDE DEF a
  <1>4. \A x \in Nat : C(x) \in Nat /\ fee(x) \in Nat /\ duty(x) \in Nat
    BY <1>1, CommissionIsNat, Percents
  <1>5. \A x \in Nat : C(x) = IF fee(x) >= LeastFee THEN fee(x) + duty(x) ELSE LeastFee + duty(x)
    <2> TAKE x \in Nat
    <2>1. fee(x) \in Nat /\ LeastFee \in Nat
      BY <1>1, <1>4
    <2> DEFINE f == fee(x)
               d == duty(x)
    <2>2. C(x) = Strategy!Max({f, LeastFee}) + d
      BY DEF Strategy!Commission
    <2> HIDE DEF f, d
    <2>3. Strategy!Max({f, LeastFee}) = IF f >= LeastFee THEN f ELSE LeastFee
      BY <1>1, <1>4 DEF Strategy!Max, f
    <2> QED
      BY <2>2, <2>3 DEF f, d
  <1>6. duty(a) <= duty(p) + (a - p)
    <2>1. StampRate \in 0..100
      BY <1>1
    <2> QED
      BY <1>2, <1>3, <2>1, FeeGrows
  <1>7. fee(a) + duty(a) <= a
    <2>1. 100 * fee(a) <= a * FeeRate /\ 100 * duty(a) <= a * StampRate
      BY <1>1, <1>3, Percents
    <2>2. a * FeeRate \in Nat /\ a * StampRate \in Nat /\ a * FeeRate + a * StampRate = a * (FeeRate + StampRate)
      BY <1>1, <1>3
    <2>3. a * (FeeRate + StampRate) <= a * 100
      <3>1. 100 - (FeeRate + StampRate) \in Nat /\ FeeRate + StampRate \in Nat
        BY <1>1
      <3>2. a * (100 - (FeeRate + StampRate)) \in Nat
        BY <1>3, <3>1
      <3>3. a * 100 = a * (FeeRate + StampRate) + a * (100 - (FeeRate + StampRate))
        BY <1>3, <3>1
      <3>4. a * (FeeRate + StampRate) \in Nat
        BY <1>3, <3>1
      <3> QED
        BY <3>2, <3>3, <3>4
    <2>4. fee(a) \in Nat /\ duty(a) \in Nat
      BY <1>3, <1>4
    <2> HIDE DEF fee, duty
    <2> QED
      BY <1>3, <2>1, <2>2, <2>3, <2>4
  <1>8. fee(a) \in Nat /\ duty(a) \in Nat /\ fee(p) \in Nat /\ duty(p) \in Nat /\ C(a) \in Nat
    BY <1>2, <1>3, <1>4
  <1>9. C(a) = (IF fee(a) >= LeastFee THEN fee(a) + duty(a) ELSE LeastFee + duty(a))
        /\ C(p) = (IF fee(p) >= LeastFee THEN fee(p) + duty(p) ELSE LeastFee + duty(p))
    BY <1>2, <1>3, <1>5
  <1> HIDE DEF fee, duty, C
  <1>10. C(a) <= a
    BY <1>1, <1>2, <1>3, <1>6, <1>7, <1>8, <1>9
  <1> QED
    BY <1>3, <1>8, <1>10 DEF C, a, p

\* The next closed trade is one more term of the sum.
LEMMA PnlMore ==
    ASSUME NEW l \in Seq(Trips), NEW t \in Trips
    PROVE  Total(Pnl(l)) \in Int /\ Total(Pnl(Append(l, t))) = Total(Pnl(l)) + t.pnl
  <1> DEFINE n == Len(l)
             p == Pnl(l)
             q == Pnl(Append(l, t))
             x == t.pnl
  <1>1. /\ n \in Nat /\ DOMAIN l = 1..n /\ Append(l, t) \in Seq(Trips) /\ DOMAIN Append(l, t) = 1..n + 1
        /\ x \in Int /\ \A i \in 1..n : l[i].pnl \in Int /\ Append(l, t)[i] = l[i]
        /\ Append(l, t)[n + 1] = t
    <2>1. \A r \in Trips : r.pnl \in Int
      BY DEF Trips
    <2>2. n \in Nat /\ DOMAIN l = 1..n /\ Append(l, t) \in Seq(Trips) /\ DOMAIN Append(l, t) = 1..n + 1
          /\ (\A i \in 1..n : l[i] \in Trips /\ Append(l, t)[i] = l[i]) /\ Append(l, t)[n + 1] = t
      OBVIOUS
    <2> QED
      BY <2>1, <2>2
  <1>2. p \in Seq(Int) /\ Len(p) = n /\ \A i \in 1..n : p[i] = l[i].pnl
    BY <1>1 DEF Pnl
  <1>3. q \in Seq(Int) /\ Len(q) = n + 1
    <2>1. \A i \in 1..n + 1 : Append(l, t)[i].pnl \in Int
      <3> TAKE i \in 1..n + 1
      <3>1. i \in 1..n \/ i = n + 1
        BY <1>1
      <3> QED
        BY <1>1, <3>1
    <2>2. q = [i \in 1..n + 1 |-> Append(l, t)[i].pnl]
      BY <1>1 DEF Pnl
    <2> HIDE DEF q
    <2> QED
      BY <1>1, <2>1, <2>2
  <1>4. \A i \in 1..n + 1 : q[i] = IF i \in 1..n THEN p[i] ELSE x
    <2> TAKE i \in 1..n + 1
    <2>1. i \in 1..n \/ i = n + 1
      BY <1>1
    <2>2. q[i] = Append(l, t)[i].pnl
      BY <1>1 DEF Pnl
    <2> QED
      BY <1>1, <1>2, <2>1, <2>2
  <1> HIDE DEF p, q, x, n
  <1>5. q = Append(p, x)
    <2>1. /\ Append(p, x) \in Seq(Int) /\ Len(Append(p, x)) = n + 1 /\ n \in Nat
          /\ \A i \in 1..n + 1 : Append(p, x)[i] = IF i \in 1..n THEN p[i] ELSE x
      BY <1>1, <1>2
    <2> QED
      BY <1>3, <1>4, <2>1
  <1>6. Total(q) = Total(p) + x /\ Total(p) \in Int
    BY <1>1, <1>2, <1>5, TotalAppend, TotalIsInt
  <1> QED
    BY <1>6 DEF p, q, x

LEMMA InitStrategy == ASSUME Strategy!Init PROVE StrategyInv
  <1>1. /\ status = "pending" /\ result = Strategy!NoResult /\ window = <<>> /\ pending = Strategy!NoOrder
        /\ cash = Budget /\ held = 0 /\ entry = Strategy!Flat /\ ledger = <<>>
    BY DEF Strategy!Init
  <1>2. Budget \in Nat /\ MaxBars \in Nat
    BY StrategyAssumption DEF Strategy!Parameters
  <1>3. Total(Pnl(ledger)) = 0
    <2>1. Pnl(ledger) = <<>>
      BY <1>1 DEF Pnl
    <2> QED
      BY <2>1, TotalEmpty
  <1>4. Holding
    BY <1>1, <1>2, <1>3 DEF Holding, Strategy!Flat
  <1>5. Closed
    BY <1>1 DEF Closed
  <1>6. Waiting
    BY <1>1 DEF Waiting, Strategy!NoOrder
  <1>7. Stored
    BY <1>1 DEF Stored, Strategy!NoResult
  <1> QED
    BY <1>4, <1>5, <1>6, <1>7 DEF StrategyInv

\* A fill leaves the cash explained and the trades in turn.
LEMMA FillKeeps ==
    ASSUME Strategy!SalesPayFees, Holding, Closed, Waiting, NEW b \in Bars,
           Len(window) < MaxBars, window' = Append(window, b), Strategy!Fill(b)
    PROVE  Holding' /\ Closed'
  <1> DEFINE n == Len(window)
  <1>1. /\ Slippage \in Nat /\ MaxBars \in Nat /\ Budget \in Nat /\ b.open \in Nat
    BY StrategyAssumption DEF Strategy!Parameters
  <1>2. /\ n \in Nat /\ window' \in Seq(Bars) /\ Len(window') = n + 1 /\ n + 1 <= MaxBars
    BY <1>1 DEF Holding
  <1>3. /\ cash \in Nat /\ held \in Nat /\ entry \in [bar : Nat, size : Nat, cost : Int] /\ held = entry.size
        /\ entry.bar <= n /\ cash + entry.cost = Budget + Total(Pnl(ledger)) /\ (held = 0 => entry = Strategy!Flat)
        /\ entry.bar \in Nat /\ entry.cost \in Int
    BY DEF Holding
  <1>4. /\ ledger \in Seq(Trips) /\ Total(Pnl(ledger)) \in Int
        /\ \A i \in DOMAIN ledger : ledger[i].from < ledger[i].to /\ ledger[i].to <= n /\ ledger[i].to \in Nat
        /\ held > 0 => \A i \in DOMAIN ledger : ledger[i].to < entry.bar
        /\ \A i, j \in DOMAIN ledger : i < j => ledger[i].to < ledger[j].from
    <2>1. \A r \in Trips : r.to \in Nat
      BY DEF Trips
    <2>2. ledger \in Seq(Trips)
      BY DEF Closed
    <2>3. \A i \in DOMAIN ledger : ledger[i] \in Trips
      BY <2>2
    <2>4. Total(Pnl(ledger)) \in Int
      <3>1. [from |-> 0, to |-> 0, size |-> 1, pnl |-> 0] \in Trips
        BY DEF Trips
      <3> QED
        BY <2>2, <3>1, PnlMore
    <2> QED
      BY <2>1, <2>2, <2>3, <2>4 DEF Closed
  <1> HIDE DEF n
  <1>5. CASE UNCHANGED <<cash, held, entry, ledger>>
    <2>1. Holding'
      BY <1>2, <1>3, <1>4, <1>5 DEF Holding
    <2>2. Closed'
      <3>1. \A i \in DOMAIN ledger : ledger[i].to <= n + 1
        BY <1>2, <1>4
      <3> QED
        BY <1>2, <1>4, <1>5, <3>1 DEF Closed
    <2> QED
      BY <2>1, <2>2
  <1>6. CASE pending.side = "buy"
    <2> DEFINE size == pending.size
               unit == b.open + Slippage
               cost == size * unit + Strategy!Commission("buy", size * unit)
    <2>1. size \in Nat /\ unit \in Nat /\ held = 0
      BY <1>1, <1>6 DEF Waiting
    <2>2. size * unit \in Nat
      BY <2>1
    <2>3. cost \in Nat
      BY <2>2, CommissionIsNat
    <2>4. CASE size = 0 \/ cost > cash
      <3>1. UNCHANGED <<cash, held, entry, ledger>>
        BY <1>6, <2>4 DEF Strategy!Fill
      <3> QED
        BY <1>5, <3>1
    <2>5. CASE ~(size = 0 \/ cost > cash)
      <3>1. /\ cash' = cash - cost /\ held' = size /\ ledger' = ledger
            /\ entry' = [bar |-> n + 1, size |-> size, cost |-> cost]
        BY <1>6, <2>5 DEF Strategy!Fill, Strategy!bar, n
      <3> HIDE DEF cost, unit, size
      <3>2. cash - cost \in Nat
        BY <1>3, <2>3, <2>5
      <3>3. entry.cost = 0
        BY <1>3, <2>1 DEF Strategy!Flat
      <3>4. entry'.cost = cost /\ entry'.size = size /\ entry'.bar = n + 1
        BY <3>1
      <3>5. Holding'
        <4>1. cash' + entry'.cost = Budget + Total(Pnl(ledger'))
          BY <1>1, <1>3, <1>4, <2>3, <3>1, <3>3, <3>4
        <4>2. held' # 0
          BY <2>5, <3>1
        <4> QED
          BY <1>2, <2>1, <2>3, <3>1, <3>2, <3>4, <4>1, <4>2 DEF Holding
      <3>6. Closed'
        <4>1. \A i \in DOMAIN ledger : ledger[i].to <= n + 1 /\ ledger[i].to < n + 1
          BY <1>2, <1>4
        <4> QED
          BY <1>2, <1>4, <3>1, <3>4, <4>1 DEF Closed
      <3> QED
        BY <3>5, <3>6
    <2> QED
      BY <2>4, <2>5
  <1>7. CASE pending.side = "sell"
    <2> DEFINE gross == held * (b.open - Slippage)
               income == gross - Strategy!Commission("sell", gross)
               t == [from |-> entry.bar, to |-> n + 1, size |-> entry.size, pnl |-> income - entry.cost]
    <2>1. held > 0 /\ held \in Nat \ {0}
      BY <1>3, <1>7 DEF Waiting
    <2>2. income \in Nat
      <3>1. /\ gross \in Nat /\ Strategy!Commission("sell", gross) \in Nat
            /\ Strategy!Commission("sell", gross) <= gross
        BY <2>1, SaleIsPaid
      <3> HIDE DEF gross
      <3> QED
        BY <3>1
    <2>3. cash' = cash + income /\ held' = 0 /\ entry' = Strategy!Flat /\ ledger' = Append(ledger, t)
      BY <1>7 DEF Strategy!Fill, Strategy!bar, n
    <2> HIDE DEF income
    <2>4. t \in Trips /\ t.from = entry.bar /\ t.to = n + 1 /\ t.pnl = income - entry.cost
      BY <1>2, <1>3, <2>1, <2>2 DEF Trips
    <2>5. Total(Pnl(ledger')) = Total(Pnl(ledger)) + (income - entry.cost)
      BY <1>4, <2>3, <2>4, PnlMore
    <2> HIDE DEF t
    <2>6. Holding'
      <3>1. cash' + entry'.cost = Budget + Total(Pnl(ledger'))
        <4>1. entry'.cost = 0 /\ cash' = cash + income
          BY <2>3 DEF Strategy!Flat
        <4>2. cash + entry.cost = Budget + Total(Pnl(ledger)) /\ entry.cost \in Int /\ cash \in Nat
          BY <1>3
        <4> DEFINE T == Total(Pnl(ledger))
                   U == Total(Pnl(ledger'))
                   c == entry.cost
        <4>3. T \in Int /\ U = T + (income - c) /\ cash + c = Budget + T /\ c \in Int /\ income \in Int
          BY <1>4, <2>2, <2>5, <4>2
        <4> HIDE DEF T, U, c
        <4>4. cash + income + 0 = Budget + U
          BY <1>1, <4>2, <4>3
        <4> QED
          BY <4>1, <4>4 DEF U
      <3> QED
        BY <1>2, <1>3, <2>2, <2>3, <3>1 DEF Holding, Strategy!Flat
    <2>7. Closed'
      <3> DEFINE N == Len(ledger)
      <3>1. /\ N \in Nat /\ DOMAIN ledger = 1..N /\ ledger' \in Seq(Trips) /\ DOMAIN ledger' = 1..N + 1
            /\ (\A i \in 1..N : ledger'[i] = ledger[i]) /\ ledger'[N + 1] = t
        BY <1>4, <2>3, <2>4
      <3> HIDE DEF N
      <3>2. \A i \in 1..N : ledger[i].to <= n + 1 /\ ledger[i].to < entry.bar
        <4> TAKE i \in 1..N
        <4>1. ledger[i].to \in Nat /\ ledger[i].to <= n /\ ledger[i].to < entry.bar
          BY <1>4, <2>1, <3>1
        <4> QED
          BY <1>2, <4>1
      <3>3. ASSUME NEW i \in 1..N + 1 PROVE ledger'[i].from < ledger'[i].to /\ ledger'[i].to <= n + 1
        <4>1. i \in 1..N \/ i = N + 1
          BY <3>1
        <4>2. CASE i \in 1..N
          BY <1>4, <3>1, <3>2, <4>2
        <4>3. CASE i = N + 1
          <5>1. entry.bar < n + 1 /\ n + 1 <= n + 1
            BY <1>2, <1>3
          <5> QED
            BY <2>4, <3>1, <4>3, <5>1
        <4> QED
          BY <4>1, <4>2, <4>3
      <3>4. ASSUME NEW i \in 1..N + 1, NEW j \in 1..N + 1, i < j PROVE ledger'[i].to < ledger'[j].from
        <4>1. i \in 1..N /\ (j \in 1..N \/ j = N + 1)
          BY <3>1, <3>4
        <4> QED
          BY <1>4, <2>4, <3>1, <3>2, <3>4, <4>1
      <3> QED
        BY <1>2, <2>3, <3>1, <3>3, <3>4 DEF Closed
    <2> QED
      BY <2>6, <2>7
  <1>8. CASE pending.side = "none"
    <2>1. UNCHANGED <<cash, held, entry, ledger>>
      BY <1>8 DEF Strategy!Fill
    <2> QED
      BY <1>5, <2>1
  <1> QED
    BY <1>6, <1>7, <1>8 DEF Waiting

\* An order is of a whole number of shares, bought when none is held.
LEMMA OrderKeeps ==
    ASSUME Holding', NEW b \in Bars, NEW signal, Strategy!Order(b, signal)
    PROVE  Waiting'
  <1>1. /\ Invested \in Nat /\ b.close \in Nat \ {0} /\ cash' \in Nat /\ held' \in Nat
    BY StrategyAssumption DEF Strategy!Parameters, Holding
  <1>2. (cash' * Invested) \div (100 * b.close) \in Nat
    <2>1. cash' * Invested \in Nat /\ 100 * b.close \in Nat \ {0}
      <3>1. \A p, q \in Nat : p * q \in Nat
        OBVIOUS
      <3>2. \A q \in Nat \ {0} : 100 * q \in Nat \ {0}
        OBVIOUS
      <3> QED
        BY <1>1, <3>1, <3>2
    <2> DEFINE x == cash' * Invested
               y == 100 * b.close
    <2> HIDE DEF x, y
    <2>2. x \in Nat /\ y \in Nat \ {0} => x \div y \in Nat
      OBVIOUS
    <2> QED
      BY <2>1, <2>2 DEF x, y
  <1>3. CASE signal = "enter" /\ held' = 0 /\ b.buy
    <2>1. pending' = [side |-> "buy", size |-> (cash' * Invested) \div (100 * b.close)]
      BY <1>3 DEF Strategy!Order, Strategy!Size
    <2> QED
      BY <1>2, <1>3, <2>1 DEF Waiting
  <1>4. CASE signal = "exit" /\ held' > 0 /\ b.sell
    <2>1. pending' = [side |-> "sell", size |-> held']
      BY <1>4 DEF Strategy!Order, Strategy!Size
    <2> QED
      BY <1>1, <1>4, <2>1 DEF Waiting
  <1>5. CASE ~(signal = "enter" /\ held' = 0 /\ b.buy) /\ ~(signal = "exit" /\ held' > 0 /\ b.sell)
    <2>1. pending' = Strategy!NoOrder
      BY <1>5 DEF Strategy!Order
    <2> QED
      BY <2>1 DEF Waiting, Strategy!NoOrder
  <1> QED
    BY <1>3, <1>4, <1>5

\* One trade at most is open on a day, so the curve shows the size of that trade or none.
LEMMA CurveShowsOne ==
    ASSUME Holding, Closed, NEW d \in DOMAIN Strategy!PositionCurve
    PROVE  \/ Strategy!PositionCurve[d] = 0
           \/ \E i \in DOMAIN ledger : ledger[i].size = Strategy!PositionCurve[d]
  <1> DEFINE n == Len(ledger)
             open(i) == ledger[i].from <= d /\ d <= ledger[i].to
             h == HeldAt(ledger, d)
  <1>1. d \in 1..Len(window) /\ Strategy!PositionCurve[d] = Total(h)
    BY SameTotal DEF Strategy!PositionCurve, Strategy!bar, HeldAt
  <1>2. /\ n \in Nat /\ DOMAIN ledger = 1..n /\ d \in Nat
        /\ \A i \in 1..n : ledger[i].from \in Nat /\ ledger[i].to \in Nat /\ ledger[i].size \in Int
        /\ \A i \in 1..n : ledger[i].from < ledger[i].to
        /\ \A i, j \in 1..n : i < j => ledger[i].to < ledger[j].from
    <2>1. ledger \in Seq(Trips) /\ window \in Seq(Bars)
      BY DEF Closed, Holding
    <2>2. \A t \in Trips : t.from \in Nat /\ t.to \in Nat /\ t.size \in Int
      BY DEF Trips
    <2>3. n \in Nat /\ DOMAIN ledger = 1..n /\ \A i \in 1..n : ledger[i] \in Trips
      BY <2>1
    <2>4. d \in Nat
      BY <1>1, <2>1
    <2> QED
      BY <2>2, <2>3, <2>4 DEF Closed
  <1>3. h \in Seq(Int) /\ Len(h) = n /\ \A i \in 1..n : h[i] = IF open(i) THEN ledger[i].size ELSE 0
    <2>1. h = [i \in 1..n |-> IF open(i) THEN ledger[i].size ELSE 0]
      BY <1>2 DEF HeldAt
    <2> HIDE DEF h, open
    <2>2. \A i \in 1..n : (IF open(i) THEN ledger[i].size ELSE 0) \in Int
      BY <1>2
    <2> QED
      BY <1>2, <2>1, <2>2
  <1>4. \A i, j \in 1..n : open(i) /\ open(j) => i = j
    <2> SUFFICES ASSUME NEW i \in 1..n, NEW j \in 1..n, open(i), open(j), i < j PROVE FALSE
      BY <1>2
    <2>1. ledger[i].to < ledger[j].from
      BY <1>2
    <2> QED
      BY <1>2, <2>1
  <1> HIDE DEF h, open, n
  <1>5. CASE \A i \in 1..n : ~open(i)
    <2>1. \A i \in 1..n : h[i] = 0
      BY <1>3, <1>5
    <2> QED
      BY <1>1, <1>3, <2>1, TotalZeros
  <1>6. CASE \E i \in 1..n : open(i)
    <2>1. PICK k \in 1..n : open(k)
      BY <1>6
    <2>2. \A i \in 1..n : i # k => h[i] = 0
      BY <1>3, <1>4, <2>1
    <2>3. Total(h) = h[k] /\ h[k] = ledger[k].size
      BY <1>3, <2>1, <2>2, TotalOne
    <2> QED
      BY <1>1, <1>2, <2>3
  <1> QED
    BY <1>5, <1>6

\* The run is stored as a whole: the result it is done with is there, with its curve.
LEMMA StoreKeeps ==
    ASSUME StrategyInv, Strategy!Store PROVE Stored'
  <1>1. CASE Strategy!bar < MinBars
    <2>1. status = "running" /\ status' = "failed" /\ result' = result
      BY <1>1 DEF Strategy!Store
    <2> QED
      BY <2>1 DEF StrategyInv, Stored
  <1>2. CASE ~(Strategy!bar < MinBars)
    <2> DEFINE curve == Strategy!PositionCurve
    <2>1. /\ status' = "done" /\ result' = [final |-> cash + held * window[Strategy!bar].close,
                                            trades |-> ledger, positions |-> curve]
      BY <1>2 DEF Strategy!Store
    <2>2. result'.trades = ledger /\ result'.positions = curve
      BY <2>1
    <2>3. curve # <<>>
      <3>1. MinBars \in Nat \ {0} /\ Len(window) \in Nat
        BY StrategyAssumption DEF Strategy!Parameters, StrategyInv, Holding
      <3>2. 1 \in 1..Len(window)
        BY <1>2, <3>1 DEF Strategy!bar
      <3>3. DOMAIN curve = 1..Len(window)
        BY DEF Strategy!PositionCurve, Strategy!bar
      <3> QED
        BY <3>2, <3>3
    <2>4. result' # Strategy!NoResult
      BY <2>2, <2>3 DEF Strategy!NoResult
    <2>5. \A d \in DOMAIN curve : curve[d] = 0 \/ \E i \in DOMAIN ledger : ledger[i].size = curve[d]
      BY CurveShowsOne DEF StrategyInv
    <2> HIDE DEF curve
    <2> QED
      BY <2>1, <2>2, <2>4, <2>5 DEF Stored
  <1> QED
    BY <1>1, <1>2

LEMMA StrategyStep ==
    ASSUME Strategy!SalesPayFees, StrategyInv, [Strategy!Next]_(Strategy!vars) PROVE StrategyInv'
  <1>1. CASE Strategy!Execute
    <2>1. /\ status' \in {"failed", "running"} /\ status = "pending"
          /\ UNCHANGED <<result, window, pending, cash, held, entry, ledger>>
      BY <1>1 DEF Strategy!Execute, Strategy!broker
    <2> QED
      BY <2>1 DEF StrategyInv, Holding, Closed, Waiting, Stored
  <1>2. CASE Strategy!Store
    <2>1. UNCHANGED <<window, pending, cash, held, entry, ledger>>
      BY <1>2 DEF Strategy!Store, Strategy!broker
    <2>2. Stored'
      BY <1>2, StoreKeeps
    <2> QED
      BY <2>1, <2>2 DEF StrategyInv, Holding, Closed, Waiting
  <1>3. CASE Strategy!Raise
    <2>1. /\ status' = "failed" /\ status = "running"
          /\ UNCHANGED <<result, window, pending, cash, held, entry, ledger>>
      BY <1>3 DEF Strategy!Raise, Strategy!broker
    <2> QED
      BY <2>1 DEF StrategyInv, Holding, Closed, Waiting, Stored
  <1>4. ASSUME NEW b \in Bars, NEW signal \in {"enter", "exit", "none"}, Strategy!NextBar(b, signal)
        PROVE  StrategyInv'
    <2>1. /\ Len(window) < MaxBars /\ window' = Append(window, b)
          /\ Strategy!Fill(b) /\ Strategy!Order(b, signal) /\ UNCHANGED <<status, result>>
      BY <1>4 DEF Strategy!NextBar, Strategy!bar
    <2>2. Holding' /\ Closed'
      BY <2>1, FillKeeps DEF StrategyInv
    <2>3. Waiting'
      BY <2>1, <2>2, OrderKeeps
    <2>4. Stored'
      BY <2>1 DEF StrategyInv, Stored
    <2> QED
      BY <2>2, <2>3, <2>4 DEF StrategyInv
  <1>5. CASE UNCHANGED Strategy!vars
    <2>1. UNCHANGED <<status, result, window, pending, cash, held, entry, ledger>>
      BY <1>5 DEF Strategy!vars
    <2> QED
      BY <2>1 DEF StrategyInv, Holding, Closed, Waiting, Stored
  <1> QED
    BY <1>1, <1>2, <1>3, <1>4, <1>5 DEF Strategy!Next

LEMMA StrategyMeans ==
    ASSUME StrategyInv PROVE Strategy!BacktestSound
  <1>1. Strategy!TypeOK
    <2>1. entry.bar \in 0..Len(window)
      BY DEF StrategyInv, Holding
    <2> QED
      BY <2>1 DEF StrategyInv, Holding, Waiting, Stored, Strategy!TypeOK, Strategy!bar
  <1>2. Strategy!BrokerSolvent /\ Strategy!DoneHasResult
    BY DEF StrategyInv, Holding, Stored, Strategy!BrokerSolvent, Strategy!DoneHasResult
  <1>3. Strategy!TradesExplainCash
    BY SameTotal DEF StrategyInv, Holding, Pnl, Strategy!TradesExplainCash
  <1>4. Strategy!TradesInTurn
    <2> DEFINE n == Len(ledger)
    <2>1. n \in Nat /\ DOMAIN ledger = 1..n /\ \A i \in 1..n : ledger[i] \in Trips
      BY DEF StrategyInv, Closed
    <2>2. \A i \in 1..n : ledger[i].from < ledger[i].to /\ ledger[i].size > 0
      <3>1. \A t \in Trips : t.size > 0
        BY DEF Trips
      <3> QED
        BY <2>1, <3>1 DEF StrategyInv, Closed
    <2>3. \A i \in 1..n - 1 : ledger[i].to < ledger[i + 1].from
      <3> TAKE i \in 1..n - 1
      <3>1. i \in 1..n /\ i + 1 \in 1..n /\ i < i + 1
        BY <2>1
      <3> QED
        BY <2>1, <3>1 DEF StrategyInv, Closed
    <2>4. entry = Strategy!Flat <=> held = 0
      BY DEF StrategyInv, Holding, Strategy!Flat
    <2> QED
      BY <2>1, <2>2, <2>3, <2>4 DEF Strategy!TradesInTurn
  <1> QED
    BY <1>1, <1>2, <1>3, <1>4 DEF Strategy!BacktestSound

\* A backtest, whatever its bars, signals and rates: the broker never owes, cash and closed
\* trades account for each other, and a run is done exactly when its result is stored.
THEOREM BacktestsHold ==
    ASSUME Strategy!SalesPayFees PROVE Strategy!Spec => []Strategy!BacktestSound
  <1>1. Strategy!Init => StrategyInv
    BY InitStrategy
  <1>2. StrategyInv /\ [Strategy!Next]_(Strategy!vars) => StrategyInv'
    BY StrategyStep
  <1>3. StrategyInv => Strategy!BacktestSound
    BY StrategyMeans
  <1> QED
    BY <1>1, <1>2, <1>3, PTL DEF Strategy!Spec

\* The same of the behaviours the instance draws: no other part touches the backtest.
THEOREM BacktestPartHolds ==
    ASSUME Strategy!SalesPayFees PROVE Spec => []BacktestSound
  <1> DEFINE Inv == focus = "backtest" => StrategyInv
  <1>1. Init => Inv
    BY InitStrategy DEF Init
  <1>2. Inv /\ [Next]_vars => Inv'
    <2> SUFFICES ASSUME focus = "backtest" => StrategyInv, [Next]_vars, focus' = "backtest"
                 PROVE  StrategyInv'
      OBVIOUS
    <2>1. focus = "backtest" /\ [Strategy!Next]_(Strategy!vars)
      BY DEF Next, vars, strategyVars, Strategy!vars
    <2> QED
      BY <2>1, StrategyStep
  <1>3. Inv => BacktestSound
    BY StrategyMeans DEF BacktestSound
  <1> QED
    BY <1>1, <1>2, <1>3, PTL DEF Spec

-----------------------------------------------------------------------------
(* The chat *)

Speech == [turn : Nat, role : {"user", "assistant"}, text : Seq(Nat)]
Asked == {"thinking", "streaming", "answered"}
TurnRec ==
    [session : Sessions, at : {"sent", "refused", "accepted", "over"} \cup Asked,
     rounds : 0..ToolIters - 1, parts : Seq(Nat), cited : BOOLEAN, broken : BOOLEAN]
EventRec == [type : {"chunk", "error", "done"}, text : Seq(Nat)]
BubbleRec == [turn : Nat, role : {"user", "assistant"}, text : Seq(Nat), live : BOOLEAN]
LoadRec == [session : Sessions, at : {"asked", "answered", "shown"}, rows : Seq(Speech)]
Upto(n) == [k \in 1..n |-> k]

Talking ==
    /\ chat \in [Sessions -> Seq(Speech)] /\ tokens \in 0..LimiterBurst
    /\ turn \in Seq(TurnRec) /\ wire \in Seq(Seq(EventRec)) /\ Len(wire) = Len(turn)
    /\ \A t \in DOMAIN turn : \E n \in 0..Fragments : turn[t].parts = Upto(n)
    /\ selected \in Sessions \cup {Talk!NoSession} /\ current = Len(turn) /\ sending \in {0, current}
    /\ bubbles \in Seq(BubbleRec) /\ loads \in Seq(LoadRec)

\* A stored message is the question of a turn that has asked, or the answer of one that is over.
Rightful(s, m) ==
    /\ m.turn \in DOMAIN turn /\ turn[m.turn].session = s
    /\ \/ m = Talk!User(m.turn) /\ turn[m.turn].at \in Asked \cup {"over"}
       \/ m = Talk!Reply(m.turn, Talk!Full) /\ turn[m.turn].at = "over"

Spoken ==
    /\ \A s \in Sessions : \A k \in DOMAIN chat[s] : Rightful(s, chat[s][k])
    /\ \A t \in DOMAIN turn : turn[t].at \in Asked =>
           \E k \in DOMAIN chat[turn[t].session] : chat[turn[t].session][k] = Talk!User(t)
    /\ Talk!AnswersFollow

\* What a bubble that shows n fragments may still get of turn r over the wire w: the
\* fragments after them one by one, or none shown and all at once; no fragment after the end.
OneByOne(n, w) ==
    \A i \in DOMAIN w : w[i].type = "chunk" => w[i].text = <<n + i>> /\ n + i <= Fragments
AllAtOnce(n, w) ==
    /\ n = 0 /\ w # <<>> /\ w[1] = Talk!Chunk(Talk!Full)
    /\ \A i \in DOMAIN w : i # 1 => w[i].type # "chunk"
Closing(w) == \A i, j \in DOMAIN w : i < j /\ w[i].type # "chunk" => w[j].type # "chunk"
Coming(n, r, w) ==
    /\ r.at \in {"sent", "refused", "accepted", "thinking"} => n = 0 /\ w = <<>> /\ r.parts = <<>>
    /\ r.at = "streaming" => /\ OneByOne(n, w) /\ Len(r.parts) = n + Len(w)
                             /\ \A i \in DOMAIN w : w[i].type = "chunk"
    /\ OneByOne(n, w) \/ AllAtOnce(n, w)
    /\ Closing(w)
    /\ \A i \in DOMAIN w : w[i].type = "done" => w[i].text \in {<<>>, Talk!Full}

\* The bubble of a turn shows what came so far; a loaded row shows what is stored.
Following(b) ==
    /\ b.turn \in DOMAIN turn
    /\ b.role = "assistant" =>
           \/ b.live /\ turn[b.turn].broken
           \/ b.live /\ \E n \in 0..Fragments : b.text = Upto(n) /\ Coming(n, turn[b.turn], wire[b.turn])
           \/ ~b.live /\ b.text = Talk!Full
Followed ==
    /\ \A k \in DOMAIN bubbles : Following(bubbles[k])
    /\ \A i \in DOMAIN loads : \A k \in DOMAIN loads[i].rows :
           /\ loads[i].rows[k].turn \in DOMAIN turn
           /\ loads[i].rows[k].role = "assistant" => loads[i].rows[k].text = Talk!Full

TalkInv == Talking /\ Spoken /\ Talk!DoneIsStored /\ Followed

LEMMA TalkValues ==
    /\ {MaxTurns, MaxLoads, Fragments, LimiterBurst} \subseteq Nat /\ ToolIters \in Nat \ {0}
    /\ Talk!Full = Upto(Fragments) /\ Talk!Full \in Seq(Nat) /\ Len(Talk!Full) = Fragments
    /\ \A n \in Nat : Upto(n) \in Seq(Nat) /\ Len(Upto(n)) = n
  <1>1. /\ {MaxTurns, MaxLoads, Fragments, LimiterBurst} \subseteq Nat /\ ToolIters \in Nat \ {0}
    BY TalkAssumption DEF Talk!Parameters
  <1>2. ASSUME NEW n \in Nat PROVE Upto(n) \in Seq(Nat) /\ Len(Upto(n)) = n
    BY DEF Upto
  <1>3. Talk!Full = Upto(Fragments)
    BY DEF Talk!Full, Upto
  <1> QED
    BY <1>1, <1>2, <1>3

\* One more fragment.
LEMMA UptoNext == ASSUME NEW n \in Nat PROVE /\ Upto(n) \o <<n + 1>> = Upto(n + 1)
                                            /\ Append(Upto(n), n + 1) = Upto(n + 1)
  <1>1. Upto(n) \in Seq(Nat) /\ Len(Upto(n)) = n /\ <<n + 1>> \in Seq(Nat)
    BY DEF Upto
  <1> DEFINE s == Upto(n) \o <<n + 1>>
  <1>2. s \in Seq(Nat) /\ Len(s) = n + 1 /\ \A k \in 1..n + 1 : s[k] = k
    BY <1>1 DEF Upto
  <1>3. s = Upto(n + 1)
    BY <1>2 DEF Upto
  <1> QED
    BY <1>1, <1>3

LEMMA InitTalk == ASSUME Talk!Init PROVE TalkInv
  <1>1. /\ chat = [s \in Sessions |-> <<>>] /\ turn = <<>> /\ wire = <<>> /\ tokens = LimiterBurst
        /\ selected = Talk!NoSession /\ bubbles = <<>> /\ sending = 0 /\ current = 0 /\ loads = <<>>
    BY DEF Talk!Init
  <1>2. Len(<<>>) = 0 /\ DOMAIN <<>> = {} /\ \A s \in Sessions : chat[s] = <<>>
    BY <1>1
  <1>3. Talking
    <2>1. chat \in [Sessions -> Seq(Speech)]
      BY <1>1
    <2>2. turn \in Seq(TurnRec) /\ wire \in Seq(Seq(EventRec)) /\ bubbles \in Seq(BubbleRec) /\ loads \in Seq(LoadRec)
      BY <1>1
    <2>3. tokens \in 0..LimiterBurst
      BY <1>1, TalkValues
    <2> QED
      BY <1>1, <1>2, <2>1, <2>2, <2>3 DEF Talking
  <1>4. Spoken
    BY <1>1, <1>2 DEF Spoken, Talk!AnswersFollow
  <1>5. Followed /\ Talk!DoneIsStored
    BY <1>1, <1>2 DEF Followed, Talk!DoneIsStored, Talk!Turns
  <1> QED
    BY <1>3, <1>4, <1>5 DEF TalkInv

\* What a step of the server makes of a turn: a new record, new events on its wire, perhaps
\* a message more in a session.
Served(t, r, w) ==
    /\ turn' = [turn EXCEPT ![t] = r] /\ wire' = [wire EXCEPT ![t] = w]
    /\ UNCHANGED <<selected, bubbles, sending, current, loads>>

LEMMA ServedAt ==
    ASSUME Talking, NEW t \in DOMAIN turn, NEW r \in TurnRec, NEW w \in Seq(EventRec), Served(t, r, w)
    PROVE  /\ t \in 1..Len(turn) /\ turn[t] \in TurnRec /\ wire[t] \in Seq(EventRec)
           /\ turn' \in Seq(TurnRec) /\ wire' \in Seq(Seq(EventRec))
           /\ Len(turn') = Len(turn) /\ Len(wire') = Len(wire)
           /\ DOMAIN turn' = DOMAIN turn /\ DOMAIN wire = DOMAIN turn /\ DOMAIN wire' = DOMAIN turn
           /\ turn'[t] = r /\ wire'[t] = w
           /\ \A x \in DOMAIN turn : x # t => turn'[x] = turn[x] /\ wire'[x] = wire[x]
  BY DEF Talking, Served

LEMMA ServedTalking ==
    ASSUME Talking, NEW t \in DOMAIN turn, NEW r \in TurnRec, NEW w \in Seq(EventRec), Served(t, r, w),
           \E n \in 0..Fragments : r.parts = Upto(n),
           chat' \in [Sessions -> Seq(Speech)], tokens' \in 0..LimiterBurst
    PROVE  Talking'
  <1>1. ASSUME NEW x \in DOMAIN turn' PROVE \E n \in 0..Fragments : turn'[x].parts = Upto(n)
    <2>1. x \in DOMAIN turn /\ (turn'[x] = turn[x] \/ turn'[x] = r)
      BY ServedAt
    <2>2. \E n \in 0..Fragments : turn[x].parts = Upto(n)
      BY <2>1 DEF Talking
    <2> QED
      BY <2>1, <2>2
  <1>2. /\ selected' = selected /\ bubbles' = bubbles /\ sending' = sending /\ current' = current
        /\ loads' = loads
    BY DEF Served
  <1> QED
    BY <1>1, <1>2, ServedAt DEF Talking

\* A bubble keeps following its turn if what came is still what may come.
LEMMA ServedFollowed ==
    ASSUME Talking, Followed, NEW t \in DOMAIN turn, NEW r \in TurnRec, NEW w \in Seq(EventRec),
           Served(t, r, w), turn[t].broken => r.broken,
           \A n \in 0..Fragments : Coming(n, turn[t], wire[t]) => r.broken \/ Coming(n, r, w)
    PROVE  Followed'
  <1>1. bubbles' = bubbles /\ loads' = loads
    BY DEF Served
  <1>2. ASSUME NEW b, Following(b) PROVE Following(b)'
    <2>1. CASE b.turn = t
      BY <1>2, <2>1, ServedAt DEF Following
    <2>2. CASE b.turn # t
      <3>1. b.turn \in DOMAIN turn => /\ b.turn \in DOMAIN turn' /\ turn'[b.turn] = turn[b.turn]
                                      /\ wire'[b.turn] = wire[b.turn]
        BY <2>2, ServedAt
      <3> QED
        BY <1>2, <3>1 DEF Following
    <2> QED
      BY <2>1, <2>2
  <1>3. DOMAIN turn' = DOMAIN turn
    BY ServedAt
  <1> QED
    BY <1>1, <1>2, <1>3 DEF Followed

\* Messages stay rightful while a turn goes on, and it asks at most once.
LEMMA ServedSpoken ==
    ASSUME Talking, Spoken, NEW t \in DOMAIN turn, NEW r \in TurnRec, NEW w \in Seq(EventRec),
           Served(t, r, w), chat' = chat, r.session = turn[t].session,
           turn[t].at \in Asked \cup {"over"} => r.at \in Asked \cup {"over"},
           turn[t].at = "over" => r.at = "over", r.at \in Asked => turn[t].at \in Asked
    PROVE  Spoken'
  <1>1. ASSUME NEW s, NEW m, Rightful(s, m) PROVE Rightful(s, m)'
    <2>1. CASE m.turn = t
      BY <1>1, <2>1, ServedAt DEF Rightful
    <2>2. CASE m.turn # t
      BY <1>1, <2>2, ServedAt DEF Rightful
    <2> QED
      BY <2>1, <2>2
  <1>2. ASSUME NEW x \in DOMAIN turn, turn'[x].at \in Asked
        PROVE  turn[x].at \in Asked /\ turn'[x].session = turn[x].session
    BY <1>2, ServedAt
  <1>3. DOMAIN turn' = DOMAIN turn
    BY ServedAt
  <1>4. (\A s \in Sessions : \A k \in DOMAIN chat[s] : Rightful(s, chat[s][k]))'
    BY <1>1 DEF Spoken
  <1>5. (\A x \in DOMAIN turn : turn[x].at \in Asked =>
             \E k \in DOMAIN chat[turn[x].session] : chat[turn[x].session][k] = Talk!User(x))'
    BY <1>2, <1>3 DEF Spoken, Talk!User
  <1>6. Talk!AnswersFollow'
    BY DEF Spoken, Talk!AnswersFollow
  <1> QED
    BY <1>4, <1>5, <1>6 DEF Spoken

\* What was announced is stored, as long as what is announced now is.
LEMMA ServedDone ==
    ASSUME Talking, Talk!DoneIsStored, NEW t \in DOMAIN turn, NEW r \in TurnRec, NEW w \in Seq(EventRec),
           Served(t, r, w), r.session = turn[t].session,
           \A s \in Sessions : \A k \in DOMAIN chat[s] : k \in DOMAIN chat'[s] /\ chat'[s][k] = chat[s][k],
           \A i \in DOMAIN w : w[i].type = "done" /\ w[i].text # <<>> =>
              \/ \E j \in DOMAIN wire[t] : wire[t][j] = w[i]
              \/ \E k \in DOMAIN chat'[r.session] : chat'[r.session][k] = Talk!Reply(t, w[i].text)
    PROVE  Talk!DoneIsStored'
  <1>1. SUFFICES ASSUME NEW x \in DOMAIN turn', NEW i \in DOMAIN wire'[x],
                        wire'[x][i].type = "done", wire'[x][i].text # <<>>
                 PROVE  \E k \in DOMAIN chat'[turn'[x].session] :
                            chat'[turn'[x].session][k] = Talk!Reply(x, wire'[x][i].text)
    BY DEF Talk!DoneIsStored, Talk!Turns, Talk!Reply
  <1>2. x \in DOMAIN turn /\ turn'[x].session = turn[x].session /\ turn[x].session \in Sessions
    <2>1. x \in DOMAIN turn
      BY ServedAt
    <2>2. turn[x] \in TurnRec
      BY <2>1 DEF Talking
    <2>3. turn'[x].session = turn[x].session
      BY <2>1, ServedAt
    <2> QED
      BY <2>1, <2>2, <2>3 DEF TurnRec
  <1>3. ASSUME NEW j \in DOMAIN wire[x], wire[x][j] = wire'[x][i] PROVE
            \E k \in DOMAIN chat'[turn'[x].session] :
                            chat'[turn'[x].session][k] = Talk!Reply(x, wire'[x][i].text)
    BY <1>1, <1>2, <1>3 DEF Talk!DoneIsStored, Talk!Turns
  <1>4. CASE x # t
    BY <1>2, <1>3, <1>4, ServedAt
  <1>5. CASE x = t
    BY <1>1, <1>2, <1>3, <1>5, ServedAt
  <1> QED
    BY <1>4, <1>5

\* A turn that only says how it ends sends no fragment any more.
LEMMA EndingComes ==
    ASSUME NEW n \in 0..Fragments, NEW old, NEW w \in Seq(EventRec), Coming(n, old, w),
           NEW r, r.at \in {"answered", "over"}, NEW e \in Seq(EventRec),
           \A i \in DOMAIN e : /\ e[i].type # "chunk"
                               /\ e[i].type = "done" => e[i].text \in {<<>>, Talk!Full}
    PROVE  Coming(n, r, w \o e)
  <1> DEFINE v == w \o e
  <1>1. /\ v \in Seq(EventRec) /\ DOMAIN v = 1..Len(w) + Len(e) /\ Len(w) \in Nat /\ Len(e) \in Nat
        /\ DOMAIN w = 1..Len(w) /\ DOMAIN e = 1..Len(e)
        /\ \A i \in DOMAIN v : IF i <= Len(w) THEN v[i] = w[i] ELSE v[i] = e[i - Len(w)]
    OBVIOUS
  <1>2. \A i \in DOMAIN v : \/ i \in DOMAIN w /\ v[i] = w[i]
                            \/ i > Len(w) /\ v[i].type # "chunk"
                               /\ (v[i].type = "done" => v[i].text \in {<<>>, Talk!Full})
    <2> SUFFICES ASSUME NEW i \in DOMAIN v, i > Len(w)
                 PROVE  v[i].type # "chunk" /\ (v[i].type = "done" => v[i].text \in {<<>>, Talk!Full})
      BY <1>1
    <2>1. i - Len(w) \in DOMAIN e /\ v[i] = e[i - Len(w)]
      BY <1>1
    <2> QED
      BY <2>1
  <1> HIDE DEF v
  <1>3. OneByOne(n, w) => OneByOne(n, v)
    BY <1>2 DEF OneByOne
  <1>4. AllAtOnce(n, w) => AllAtOnce(n, v)
    <2> SUFFICES ASSUME AllAtOnce(n, w) PROVE AllAtOnce(n, v)
      OBVIOUS
    <2>1. 1 \in DOMAIN v /\ v[1] = w[1] /\ v # <<>>
      BY <1>1, <1>2 DEF AllAtOnce
    <2> QED
      BY <1>2, <2>1 DEF AllAtOnce
  <1>5. Closing(v)
    <2> SUFFICES ASSUME NEW i \in DOMAIN v, NEW j \in DOMAIN v, i < j, v[i].type # "chunk"
                 PROVE  v[j].type # "chunk"
      BY DEF Closing
    <2> QED
      BY <1>1, <1>2 DEF Coming, Closing
  <1>6. \A i \in DOMAIN v : v[i].type = "done" => v[i].text \in {<<>>, Talk!Full}
    BY <1>2 DEF Coming
  <1>7. Coming(n, r, v)
    BY <1>3, <1>4, <1>5, <1>6 DEF Coming
  <1> QED
    BY <1>7 DEF v

\* One fragment more is one event more.
LEMMA FragmentComes ==
    ASSUME NEW n \in 0..Fragments, NEW old \in TurnRec, NEW w \in Seq(EventRec), Coming(n, old, w),
           old.at = "streaming", Len(old.parts) < Fragments,
           NEW r \in TurnRec, r.at = "streaming", Len(r.parts) = Len(old.parts) + 1
    PROVE  Coming(n, r, w \o <<Talk!Chunk(<<Len(old.parts) + 1>>)>>)
  <1> DEFINE m == Len(old.parts)
             c == Talk!Chunk(<<m + 1>>)
             v == w \o <<c>>
  <1>1. m \in Nat /\ Fragments \in Nat
    BY TalkValues DEF TurnRec
  <1>2. c \in EventRec /\ c.type = "chunk" /\ c.text = <<m + 1>>
    BY <1>1 DEF Talk!Chunk, EventRec
  <1>3. /\ OneByOne(n, w) /\ m = n + Len(w) /\ \A i \in DOMAIN w : w[i].type = "chunk"
    BY DEF Coming
  <1> HIDE DEF m, c
  <1>4. /\ v \in Seq(EventRec) /\ DOMAIN v = 1..Len(w) + 1 /\ Len(w) \in Nat /\ Len(v) = Len(w) + 1
        /\ DOMAIN w = 1..Len(w)
        /\ \A i \in DOMAIN w : v[i] = w[i]
        /\ v[Len(w) + 1] = c
    BY <1>2
  <1> HIDE DEF v
  <1>5. \A i \in DOMAIN v : v[i].type = "chunk"
    BY <1>2, <1>3, <1>4
  <1>6. OneByOne(n, v)
    <2> SUFFICES ASSUME NEW i \in DOMAIN v PROVE v[i].text = <<n + i>> /\ n + i <= Fragments
      BY DEF OneByOne
    <2>1. CASE i \in DOMAIN w
      BY <1>3, <1>4, <2>1 DEF OneByOne
    <2>2. CASE i = Len(w) + 1
      <3>1. n + i = m + 1
        BY <1>1, <1>3, <1>4, <2>2
      <3>2. m < Fragments
        BY DEF m
      <3> QED
        BY <1>1, <1>2, <1>4, <2>2, <3>1, <3>2
    <2> QED
      BY <1>4, <2>1, <2>2
  <1>7. Len(r.parts) = n + Len(v)
    BY <1>1, <1>3, <1>4 DEF m
  <1>8. Coming(n, r, v)
    BY <1>5, <1>6, <1>7 DEF Coming, Closing
  <1> QED
    BY <1>8 DEF v, c, m

\* The whole answer is one event.
LEMMA WholeComes ==
    ASSUME NEW r, r.at = "answered" PROVE Coming(0, r, <<>> \o <<Talk!Chunk(Talk!Full)>>)
  <1> DEFINE c == Talk!Chunk(Talk!Full)
             w == <<c>>
  <1>1. c.type = "chunk" /\ <<>> \o w = w /\ DOMAIN w = {1} /\ w[1] = c /\ w # <<>>
    BY DEF Talk!Chunk
  <1> HIDE DEF w, c
  <1>2. AllAtOnce(0, w)
    BY <1>1 DEF AllAtOnce, c
  <1>3. Closing(w) /\ \A i \in DOMAIN w : w[i].type # "done"
    BY <1>1 DEF Closing
  <1>4. Coming(0, r, w)
    BY <1>2, <1>3 DEF Coming
  <1> QED
    BY <1>1, <1>4 DEF w, c

\* A step of the server that stores nothing.
LEMMA QuietStep ==
    ASSUME TalkInv, NEW t \in DOMAIN turn, NEW r \in TurnRec, NEW w \in Seq(EventRec), Served(t, r, w),
           chat' = chat, tokens' \in 0..LimiterBurst, r.session = turn[t].session,
           \E n \in 0..Fragments : r.parts = Upto(n), turn[t].broken => r.broken,
           turn[t].at \in Asked \cup {"over"} => r.at \in Asked \cup {"over"},
           turn[t].at = "over" => r.at = "over", r.at \in Asked => turn[t].at \in Asked,
           \A n \in 0..Fragments : Coming(n, turn[t], wire[t]) => r.broken \/ Coming(n, r, w),
           \A i \in DOMAIN w : w[i].type = "done" /\ w[i].text # <<>> =>
              \E j \in DOMAIN wire[t] : wire[t][j] = w[i]
    PROVE  TalkInv'
  <1>1. Talking'
    BY ServedTalking DEF TalkInv, Talking
  <1>2. Followed'
    BY ServedFollowed DEF TalkInv
  <1>3. Spoken'
    BY ServedSpoken DEF TalkInv
  <1>4. Talk!DoneIsStored'
    BY ServedDone DEF TalkInv
  <1> QED
    BY <1>1, <1>2, <1>3, <1>4 DEF TalkInv

\* Records of turns, and what the actions make of them.
LEMMA TurnRecords ==
    ASSUME NEW r \in TurnRec
    PROVE  /\ r.session \in Sessions /\ r.parts \in Seq(Nat) /\ r.cited \in BOOLEAN /\ r.broken \in BOOLEAN
           /\ \A a \in {"sent", "refused", "accepted", "over"} \cup Asked :
                 LET q == [r EXCEPT !.at = a]
                 IN  /\ q \in TurnRec /\ q.at = a /\ q.session = r.session /\ q.parts = r.parts
                     /\ q.broken = r.broken
           /\ \A a \in {"sent", "refused", "accepted", "over"} \cup Asked, x \in BOOLEAN :
                 LET q == [r EXCEPT !.at = a, !.broken = x]
                 IN  /\ q \in TurnRec /\ q.at = a /\ q.session = r.session /\ q.parts = r.parts
                     /\ q.broken = x
           /\ \A k \in 0..ToolIters - 1 :
                 LET q == [r EXCEPT !.rounds = k]
                 IN  /\ q \in TurnRec /\ q.at = r.at /\ q.session = r.session /\ q.parts = r.parts
                     /\ q.broken = r.broken
           /\ \A p \in Seq(Nat) :
                 LET q == [r EXCEPT !.parts = p]
                 IN  /\ q \in TurnRec /\ q.at = r.at /\ q.session = r.session /\ q.parts = p
                     /\ q.broken = r.broken
  BY DEF TurnRec, Asked

LEMMA TurnTyped ==
    ASSUME Talking, NEW t \in DOMAIN turn
    PROVE  /\ turn[t] \in TurnRec /\ wire[t] \in Seq(EventRec)
           /\ wire = [wire EXCEPT ![t] = wire[t]]
           /\ \E n \in 0..Fragments : turn[t].parts = Upto(n)
  <1>1. turn[t] \in TurnRec /\ t \in DOMAIN wire
    BY DEF Talking
  <1>2. wire[t] \in Seq(EventRec) /\ wire = [wire EXCEPT ![t] = wire[t]]
    BY <1>1 DEF Talking
  <1>3. \E n \in 0..Fragments : turn[t].parts = Upto(n)
    BY DEF Talking
  <1> QED
    BY <1>1, <1>2, <1>3

LEMMA AcceptStep ==
    ASSUME TalkInv, NEW t \in DOMAIN turn, NEW hit \in BOOLEAN, Talk!Accept(t, hit) PROVE TalkInv'
  <1>1. /\ turn[t] \in TurnRec /\ wire[t] \in Seq(EventRec) /\ wire = [wire EXCEPT ![t] = wire[t]]
        /\ \E n \in 0..Fragments : turn[t].parts = Upto(n)
    BY TurnTyped DEF TalkInv
  <1>2. chat' = chat /\ turn[t].at = "sent"
    BY DEF Talk!Accept
  <1>3. tokens' \in 0..LimiterBurst
    <2>1. tokens \in 0..LimiterBurst /\ LimiterBurst \in Nat
      BY TalkValues DEF TalkInv, Talking
    <2>2. tokens' = tokens \/ (tokens # 0 /\ tokens' = tokens - 1)
      BY DEF Talk!Accept
    <2> QED
      BY <2>1, <2>2
  <1>4. ASSUME NEW a \in {"refused", "accepted"}, NEW r \in TurnRec, r.at = a, r.session = turn[t].session,
               r.parts = turn[t].parts, r.broken = turn[t].broken, turn' = [turn EXCEPT ![t] = r]
        PROVE  TalkInv'
    <2>1. Served(t, r, wire[t])
      BY <1>1, <1>4 DEF Talk!Accept, Talk!page, Served
    <2>2. \A n \in 0..Fragments : Coming(n, turn[t], wire[t]) => Coming(n, r, wire[t])
      BY <1>2, <1>4 DEF Coming
    <2> QED
      BY <1>1, <1>2, <1>3, <1>4, <2>1, <2>2, QuietStep DEF Asked
  <1>5. CASE tokens = 0
    <2> DEFINE r == [turn[t] EXCEPT !.at = "refused"]
    <2>1. turn' = [turn EXCEPT ![t] = r]
      BY <1>5 DEF Talk!Accept, Talk!Goto
    <2>2. /\ r \in TurnRec /\ r.at = "refused" /\ r.session = turn[t].session /\ r.parts = turn[t].parts
          /\ r.broken = turn[t].broken
      BY <1>1, TurnRecords
    <2> QED
      BY <1>4, <2>1, <2>2
  <1>6. CASE tokens # 0
    <2> DEFINE r == [turn[t] EXCEPT !.at = "accepted", !.cited = hit]
    <2>1. turn' = [turn EXCEPT ![t].at = "accepted", ![t].cited = hit]
      BY <1>6 DEF Talk!Accept
    <2>2. turn' = [turn EXCEPT ![t] = r]
      BY <2>1, <1>1 DEF Talking, TalkInv
    <2>3. /\ r \in TurnRec /\ r.at = "accepted" /\ r.session = turn[t].session /\ r.parts = turn[t].parts
          /\ r.broken = turn[t].broken
      BY <1>1 DEF TurnRec
    <2> QED
      BY <1>4, <2>2, <2>3
  <1> QED
    BY <1>5, <1>6

LEMMA ToolRoundStep ==
    ASSUME TalkInv, NEW t \in DOMAIN turn, Talk!ToolRound(t) PROVE TalkInv'
  <1>1. /\ turn[t] \in TurnRec /\ wire[t] \in Seq(EventRec) /\ wire = [wire EXCEPT ![t] = wire[t]]
        /\ \E n \in 0..Fragments : turn[t].parts = Upto(n)
    BY TurnTyped DEF TalkInv
  <1>2. tokens' \in 0..LimiterBurst /\ chat' = chat /\ turn[t].at = "thinking"
    BY DEF Talk!ToolRound, Talk!page, TalkInv, Talking
  <1>3. CASE turn[t].rounds + 1 < ToolIters
    <2> DEFINE r == [turn[t] EXCEPT !.rounds = @ + 1]
    <2>1. turn[t].rounds + 1 \in 0..ToolIters - 1
      BY <1>1, <1>3, TalkValues DEF TurnRec
    <2>2. /\ r \in TurnRec /\ r.at = turn[t].at /\ r.session = turn[t].session /\ r.parts = turn[t].parts
          /\ r.broken = turn[t].broken
      BY <1>1, <2>1, TurnRecords
    <2>3. Served(t, r, wire[t])
      BY <1>1, <1>3 DEF Talk!ToolRound, Talk!page, Served
    <2> HIDE DEF r
    <2>4. \A n \in 0..Fragments : Coming(n, turn[t], wire[t]) => Coming(n, r, wire[t])
      BY <2>2 DEF Coming
    <2> QED
      BY <1>1, <1>2, <2>2, <2>3, <2>4, QuietStep
  <1>4. CASE ~(turn[t].rounds + 1 < ToolIters)
    <2> DEFINE r == [turn[t] EXCEPT !.at = "over"]
               e == <<Talk!Event("error"), Talk!Done(<<>>)>>
    <2>1. /\ r \in TurnRec /\ r.at = "over" /\ r.session = turn[t].session /\ r.parts = turn[t].parts
          /\ r.broken = turn[t].broken
      BY <1>1, TurnRecords
    <2>2. /\ e \in Seq(EventRec) /\ \A i \in DOMAIN e : e[i].type # "chunk" /\ e[i].text = <<>>
      BY DEF Talk!Event, Talk!Done, EventRec
    <2>3. Served(t, r, wire[t] \o e)
      BY <1>1, <1>4 DEF Talk!ToolRound, Talk!page, Talk!Goto, Talk!Emit, Served
    <2> HIDE DEF r, e
    <2>4. \A n \in 0..Fragments : Coming(n, turn[t], wire[t]) => Coming(n, r, wire[t] \o e)
      BY <1>1, <2>1, <2>2, EndingComes
    <2>5. /\ wire[t] \o e \in Seq(EventRec)
          /\ \A i \in DOMAIN (wire[t] \o e) : (wire[t] \o e)[i].text # <<>> =>
                \E j \in DOMAIN wire[t] : wire[t][j] = (wire[t] \o e)[i]
      BY <1>1, <2>2
    <2> DEFINE w == wire[t] \o e
    <2>6. /\ w \in Seq(EventRec) /\ Served(t, r, w)
          /\ \A n \in 0..Fragments : Coming(n, turn[t], wire[t]) => r.broken \/ Coming(n, r, w)
          /\ \A i \in DOMAIN w : w[i].type = "done" /\ w[i].text # <<>> =>
                 \E j \in DOMAIN wire[t] : wire[t][j] = w[i]
      BY <2>3, <2>4, <2>5
    <2> HIDE DEF w
    <2>7. "over" \notin Asked /\ turn[t].at \in Asked
      BY <1>2 DEF Asked
    <2> QED
      BY <1>1, <1>2, <2>1, <2>6, <2>7, QuietStep
  <1> QED
    BY <1>3, <1>4

LEMMA FinalAnswerStep ==
    ASSUME TalkInv, NEW t \in DOMAIN turn, Talk!FinalAnswer(t) PROVE TalkInv'
  <1> DEFINE r == [turn[t] EXCEPT !.at = "streaming"]
  <1>1. /\ turn[t] \in TurnRec /\ wire[t] \in Seq(EventRec) /\ wire = [wire EXCEPT ![t] = wire[t]]
        /\ \E n \in 0..Fragments : turn[t].parts = Upto(n)
    BY TurnTyped DEF TalkInv
  <1>2. tokens' \in 0..LimiterBurst /\ chat' = chat /\ turn[t].at = "thinking"
    BY DEF Talk!FinalAnswer, Talk!page, TalkInv, Talking
  <1>3. /\ r \in TurnRec /\ r.at = "streaming" /\ r.session = turn[t].session /\ r.parts = turn[t].parts
        /\ r.broken = turn[t].broken
    BY <1>1, TurnRecords DEF Asked
  <1>4. Served(t, r, wire[t])
    BY <1>1 DEF Talk!FinalAnswer, Talk!page, Talk!Goto, Served
  <1> HIDE DEF r
  <1>5. \A n \in 0..Fragments : Coming(n, turn[t], wire[t]) => Coming(n, r, wire[t])
    <2> SUFFICES ASSUME NEW n \in 0..Fragments, Coming(n, turn[t], wire[t]) PROVE Coming(n, r, wire[t])
      OBVIOUS
    <2>1. n = 0 /\ wire[t] = <<>> /\ r.parts = <<>> /\ Len(r.parts) = 0 /\ Len(wire[t]) = 0 /\ DOMAIN wire[t] = {}
      BY <1>2, <1>3 DEF Coming
    <2> QED
      BY <1>3, <2>1 DEF Coming, OneByOne
  <1> QED
    BY <1>1, <1>2, <1>3, <1>4, <1>5, QuietStep DEF Asked

LEMMA StreamChunkStep ==
    ASSUME TalkInv, NEW t \in DOMAIN turn, Talk!StreamChunk(t) PROVE TalkInv'
  <1> DEFINE p == Append(turn[t].parts, Len(turn[t].parts) + 1)
             r == [turn[t] EXCEPT !.parts = p]
             w == wire[t] \o <<Talk!Chunk(<<Len(turn[t].parts) + 1>>)>>
  <1>1. turn[t] \in TurnRec /\ wire[t] \in Seq(EventRec)
    BY TurnTyped DEF TalkInv
  <1>2. PICK n \in 0..Fragments : turn[t].parts = Upto(n)
    BY TurnTyped DEF TalkInv
  <1>3. /\ tokens' \in 0..LimiterBurst /\ chat' = chat /\ turn[t].at = "streaming"
        /\ Len(turn[t].parts) < Fragments
    BY DEF Talk!StreamChunk, Talk!page, TalkInv, Talking
  <1>4. Len(turn[t].parts) = n /\ n \in Nat /\ n + 1 \in 0..Fragments
    BY <1>2, <1>3, TalkValues
  <1>5. p = Upto(n + 1) /\ p \in Seq(Nat) /\ Len(p) = Len(turn[t].parts) + 1
    <2>1. p = Append(Upto(n), n + 1)
      BY <1>2, <1>4
    <2>2. p = Upto(n + 1)
      BY <1>4, <2>1, UptoNext
    <2>3. n + 1 \in Nat
      BY <1>4
    <2>4. Upto(n + 1) \in Seq(Nat) /\ Len(Upto(n + 1)) = n + 1
      BY <2>3, TalkValues
    <2> QED
      BY <1>4, <2>2, <2>4
  <1>6. Served(t, r, w)
    BY <1>1 DEF Talk!StreamChunk, Talk!page, Talk!Emit, Served
  <1>7. Talk!Chunk(<<Len(turn[t].parts) + 1>>) \in EventRec
    BY <1>4 DEF Talk!Chunk, EventRec
  <1>8. /\ w \in Seq(EventRec)
        /\ \A i \in DOMAIN w : w[i].type = "done" => \E j \in DOMAIN wire[t] : wire[t][j] = w[i]
    BY <1>1, <1>7 DEF Talk!Chunk
  <1> HIDE DEF p
  <1>9. /\ r \in TurnRec /\ r.at = "streaming" /\ r.session = turn[t].session /\ r.parts = p
        /\ r.broken = turn[t].broken
    BY <1>1, <1>3, <1>5 DEF TurnRec
  <1> HIDE DEF r
  <1>10. \A k \in 0..Fragments : Coming(k, turn[t], wire[t]) => Coming(k, r, w)
    BY <1>1, <1>3, <1>5, <1>9, FragmentComes
  <1> HIDE DEF w
  <1> QED
    BY <1>1, <1>3, <1>4, <1>5, <1>6, <1>8, <1>9, <1>10, QuietStep DEF Asked

LEMMA StreamEndsStep ==
    ASSUME TalkInv, NEW t \in DOMAIN turn, Talk!StreamEnds(t) PROVE TalkInv'
  <1> DEFINE cut == turn[t].broken \/ turn[t].parts \notin {<<>>, Talk!Full}
             r == [turn[t] EXCEPT !.at = "answered", !.broken = cut]
             e == IF turn[t].parts = Talk!Full THEN <<>> ELSE <<Talk!Chunk(Talk!Full)>>
             w == wire[t] \o e
  <1>1. /\ turn[t] \in TurnRec /\ wire[t] \in Seq(EventRec) /\ turn[t].broken \in BOOLEAN
        /\ \E n \in 0..Fragments : turn[t].parts = Upto(n)
    BY TurnTyped DEF TalkInv, TurnRec
  <1>2. tokens' \in 0..LimiterBurst /\ chat' = chat /\ turn[t].at = "streaming"
    BY DEF Talk!StreamEnds, Talk!page, TalkInv, Talking
  <1>3. Served(t, r, w)
    BY <1>1 DEF Talk!StreamEnds, Talk!page, Talk!Emit, Served
  <1>4. Talk!Chunk(Talk!Full) \in EventRec
    BY TalkValues DEF Talk!Chunk, EventRec
  <1>5. e \in Seq(EventRec) /\ \A i \in DOMAIN e : e[i].type = "chunk"
    BY <1>4 DEF Talk!Chunk
  <1>10. cut \in BOOLEAN
    OBVIOUS
  <1> HIDE DEF cut
  <1>6. /\ r \in TurnRec /\ r.at = "answered" /\ r.session = turn[t].session /\ r.parts = turn[t].parts
        /\ r.broken = cut
    BY <1>1, <1>10 DEF TurnRec, Asked
  <1> HIDE DEF r
  <1>7. ASSUME NEW n \in 0..Fragments, Coming(n, turn[t], wire[t]), ~cut PROVE Coming(n, r, w)
    <2>4. Len(turn[t].parts) = n + Len(wire[t])
      BY <1>2, <1>7 DEF Coming
    <2>1. Len(turn[t].parts) = n + Len(wire[t]) /\ n \in Nat /\ Len(wire[t]) \in Nat
      BY <1>1, <2>4, TalkValues
    <2>2. CASE turn[t].parts = Talk!Full
      <3>1. e = <<>> /\ DOMAIN e = {}
        BY <2>2
      <3> HIDE DEF e
      <3> QED
        <4>1. /\ e \in Seq(EventRec) /\ r.at \in {"answered", "over"} /\ wire[t] \in Seq(EventRec)
              /\ Coming(n, turn[t], wire[t])
          BY <1>1, <1>5, <1>6, <1>7
        <4>2. \A i \in DOMAIN e : e[i].type # "chunk" /\ (e[i].type = "done" => e[i].text \in {<<>>, Talk!Full})
          BY <3>1
        <4> QED
          BY <4>1, <4>2, EndingComes
    <2>3. CASE turn[t].parts # Talk!Full
      <3>1. turn[t].parts = <<>>
        BY <1>7, <2>3 DEF cut
      <3>2. n = 0 /\ wire[t] = <<>>
        BY <1>1, <2>1, <3>1
      <3> QED
        BY <1>6, <2>3, <3>2, WholeComes
    <2> QED
      BY <2>2, <2>3
  <1>8. /\ w \in Seq(EventRec)
        /\ \A i \in DOMAIN w : w[i].type = "done" => \E j \in DOMAIN wire[t] : wire[t][j] = w[i]
    <2> HIDE DEF e
    <2> QED
      BY <1>1, <1>5
  <1>9. /\ \A n \in 0..Fragments : Coming(n, turn[t], wire[t]) => r.broken \/ Coming(n, r, w)
        /\ turn[t].broken => r.broken
    BY <1>6, <1>7 DEF cut
  <1> HIDE DEF w
  <1> QED
    BY <1>1, <1>2, <1>3, <1>6, <1>8, <1>9, QuietStep DEF Asked

LEMMA TurnFailsStep ==
    ASSUME TalkInv, NEW t \in DOMAIN turn, Talk!TurnFails(t) PROVE TalkInv'
  <1> DEFINE r == [turn[t] EXCEPT !.at = "over"]
             e == IF turn[t].cited THEN <<>> ELSE <<Talk!Event("error"), Talk!Done(<<>>)>>
             w == wire[t] \o e
  <1>1. /\ turn[t] \in TurnRec /\ wire[t] \in Seq(EventRec)
        /\ \E n \in 0..Fragments : turn[t].parts = Upto(n)
    BY TurnTyped DEF TalkInv
  <1>2. tokens' \in 0..LimiterBurst /\ chat' = chat /\ turn[t].at \in {"thinking", "answered"}
    BY DEF Talk!TurnFails, Talk!page, TalkInv, Talking
  <1>3. /\ r \in TurnRec /\ r.at = "over" /\ r.session = turn[t].session /\ r.parts = turn[t].parts
        /\ r.broken = turn[t].broken
    BY <1>1, TurnRecords
  <1>4. Served(t, r, w)
    BY <1>1 DEF Talk!TurnFails, Talk!page, Talk!Goto, Talk!Emit, Served
  <1>5. /\ e \in Seq(EventRec) /\ \A i \in DOMAIN e : e[i].type # "chunk" /\ e[i].text = <<>>
    <2>1. CASE turn[t].cited
      <3>1. e = <<>> /\ DOMAIN e = {}
        BY <2>1
      <3> HIDE DEF e
      <3> QED
        BY <3>1
    <2>2. CASE ~turn[t].cited
      <3>1. e = <<Talk!Event("error"), Talk!Done(<<>>)>>
        BY <2>2
      <3> HIDE DEF e
      <3> QED
        BY <3>1 DEF Talk!Event, Talk!Done, EventRec
    <2> QED
      BY <2>1, <2>2
  <1> HIDE DEF r, e
  <1>6. \A n \in 0..Fragments : Coming(n, turn[t], wire[t]) => Coming(n, r, w)
    BY <1>1, <1>3, <1>5, EndingComes
  <1>7. /\ w \in Seq(EventRec)
        /\ \A i \in DOMAIN w : w[i].text # <<>> => \E j \in DOMAIN wire[t] : wire[t][j] = w[i]
    BY <1>1, <1>5
  <1> HIDE DEF w
  <1>8. "over" \notin Asked /\ turn[t].at \in Asked
    BY <1>2 DEF Asked
  <1> QED
    BY <1>1, <1>2, <1>3, <1>4, <1>6, <1>7, <1>8, QuietStep

\* A message more in a session, of a turn that has its record already.
LEMMA OneMessage ==
    ASSUME Talking, NEW s \in Sessions, NEW m \in Speech, Talk!Said(s, m)
    PROVE  /\ chat' \in [Sessions -> Seq(Speech)]
           /\ \A x \in Sessions : \A k \in DOMAIN chat[x] : k \in DOMAIN chat'[x] /\ chat'[x][k] = chat[x][k]
           /\ \A x \in Sessions \ {s} : chat'[x] = chat[x]
           /\ DOMAIN chat[s] = 1..Len(chat[s]) /\ Len(chat[s]) \in Nat
           /\ DOMAIN chat'[s] = 1..Len(chat[s]) + 1 /\ chat'[s][Len(chat[s]) + 1] = m
  <1>1. chat' = [chat EXCEPT ![s] = Append(@, m)] /\ chat \in [Sessions -> Seq(Speech)]
    BY DEF Talk!Said, Talking
  <1>2. chat[s] \in Seq(Speech) /\ chat'[s] = Append(chat[s], m) /\ \A x \in Sessions \ {s} : chat'[x] = chat[x]
    BY <1>1
  <1>3. /\ DOMAIN chat[s] = 1..Len(chat[s]) /\ Len(chat[s]) \in Nat
        /\ DOMAIN chat'[s] = 1..Len(chat[s]) + 1 /\ chat'[s][Len(chat[s]) + 1] = m
        /\ \A k \in DOMAIN chat[s] : chat'[s][k] = chat[s][k]
    BY <1>2
  <1>4. \A x \in Sessions : \A k \in DOMAIN chat[x] : k \in DOMAIN chat'[x] /\ chat'[x][k] = chat[x][k]
    BY <1>2, <1>3
  <1>5. chat' \in [Sessions -> Seq(Speech)]
    BY <1>1, <1>2
  <1> QED
    BY <1>2, <1>3, <1>4, <1>5

\* The messages stay in order when one comes that is new and rightful, an answer after its question.
LEMMA MessageSpoken ==
    ASSUME Talking, Spoken, NEW t \in DOMAIN turn, NEW r \in TurnRec, NEW w \in Seq(EventRec),
           Served(t, r, w), NEW m \in Speech, r.session = turn[t].session, Talk!Said(r.session, m),
           m.turn = t,
           \/ m = Talk!User(t) /\ turn[t].at = "accepted" /\ r.at \in Asked
           \/ m = Talk!Reply(t, Talk!Full) /\ turn[t].at = "answered" /\ r.at = "over"
    PROVE  Spoken'
  <1> DEFINE s == r.session
             last == Len(chat[s]) + 1
  <1>0. s \in Sessions
    BY DEF TurnRec
  <1>1. /\ \A x \in Sessions : \A k \in DOMAIN chat[x] : k \in DOMAIN chat'[x] /\ chat'[x][k] = chat[x][k]
        /\ \A x \in Sessions \ {s} : chat'[x] = chat[x]
        /\ DOMAIN chat[s] = 1..Len(chat[s]) /\ Len(chat[s]) \in Nat
        /\ DOMAIN chat'[s] = 1..last /\ chat'[s][last] = m
    BY <1>0, OneMessage
  <1>2. \A x \in Sessions : \A k \in DOMAIN chat'[x] :
           \/ k \in DOMAIN chat[x] /\ chat'[x][k] = chat[x][k]
           \/ x = s /\ k = last /\ chat'[x][k] = m
    BY <1>1
  <1>3. /\ turn[t].at \in {"accepted", "answered"} /\ r.at \in Asked \cup {"over"}
        /\ r.at \in Asked => turn[t].at \in Asked \/ m = Talk!User(t)
    BY DEF Asked
  \* No message of that turn and role was stored before.
  <1>4. \A k \in DOMAIN chat[s] : ~(chat[s][k].turn = t /\ chat[s][k].role = m.role)
    <2> SUFFICES ASSUME NEW k \in DOMAIN chat[s], chat[s][k].turn = t, chat[s][k].role = m.role PROVE FALSE
      OBVIOUS
    <2>1. Rightful(s, chat[s][k])
      BY <1>0 DEF Spoken
    <2> QED
      BY <2>1 DEF Rightful, Talk!User, Talk!Reply, Asked
  <1>5. ASSUME NEW x, NEW n, Rightful(x, n) PROVE Rightful(x, n)'
    <2>1. CASE n.turn = t
      BY <1>3, <1>5, <2>1, ServedAt DEF Rightful, Asked
    <2>2. CASE n.turn # t
      BY <1>5, <2>2, ServedAt DEF Rightful
    <2> QED
      BY <2>1, <2>2
  <1>6. Rightful(s, m)'
    BY ServedAt DEF Rightful
  <1>7. (\A x \in Sessions : \A k \in DOMAIN chat[x] : Rightful(x, chat[x][k]))'
    <2> SUFFICES ASSUME NEW x \in Sessions, NEW k \in DOMAIN chat'[x] PROVE Rightful(x, chat[x][k])'
      OBVIOUS
    <2>1. CASE k \in DOMAIN chat[x] /\ chat'[x][k] = chat[x][k]
      BY <1>5, <2>1 DEF Spoken
    <2>2. CASE x = s /\ chat'[x][k] = m
      BY <1>6, <2>2
    <2> QED
      BY <1>2, <2>1, <2>2
  <1>8. DOMAIN turn' = DOMAIN turn
    BY ServedAt
  <1>9. (\A x \in DOMAIN turn : turn[x].at \in Asked =>
            \E k \in DOMAIN chat[turn[x].session] : chat[turn[x].session][k] = Talk!User(x))'
    <2> SUFFICES ASSUME NEW x \in DOMAIN turn, turn'[x].at \in Asked
                 PROVE  \E k \in DOMAIN chat'[turn'[x].session] : chat'[turn'[x].session][k] = Talk!User(x)
      BY <1>8 DEF Talk!User
    <2>1. turn'[x].session = turn[x].session /\ turn[x].session \in Sessions
      <3>1. turn[x] \in TurnRec
        BY DEF Talking
      <3>2. turn[x].session \in Sessions
        BY <3>1 DEF TurnRec
      <3>3. turn'[x].session = turn[x].session
        BY ServedAt
      <3> QED
        BY <3>2, <3>3
    <2>2. CASE turn[x].at \in Asked
      BY <1>1, <2>1, <2>2 DEF Spoken
    <2>3. CASE turn[x].at \notin Asked
      <3>1. x = t /\ m = Talk!User(t)
        BY <1>3, <2>3, ServedAt
      <3> QED
        BY <1>1, <2>1, <3>1
    <2> QED
      BY <2>2, <2>3
  <1>10. Talk!AnswersFollow'
    <2> SUFFICES ASSUME NEW x \in Sessions, NEW k \in DOMAIN chat'[x]
                 PROVE  /\ \A j \in DOMAIN chat'[x] : chat'[x][j].turn = chat'[x][k].turn
                               /\ chat'[x][j].role = chat'[x][k].role => j = k
                        /\ chat'[x][k].role = "assistant" =>
                               \E j \in 1..k - 1 : chat'[x][j] = Talk!User(chat'[x][k].turn)
      BY DEF Talk!AnswersFollow, Talk!User
    <2>1. \A j \in DOMAIN chat'[x] : chat'[x][j].turn = chat'[x][k].turn
                               /\ chat'[x][j].role = chat'[x][k].role => j = k
      BY <1>2, <1>4 DEF Spoken, Talk!AnswersFollow
    <2>2. CASE k \in DOMAIN chat[x] /\ chat'[x][k] = chat[x][k]
      <3>1. chat[x][k].role = "assistant" => \E j \in 1..k - 1 : chat[x][j] = Talk!User(chat[x][k].turn)
        BY <2>2 DEF Spoken, Talk!AnswersFollow
      <3>2. \A j \in 1..k - 1 : j \in DOMAIN chat[x]
        BY <2>2 DEF Talking
      <3> QED
        BY <1>1, <2>1, <2>2, <3>1, <3>2
    <2>3. CASE x = s /\ k = last /\ chat'[x][k] = m
      <3>1. m.role = "assistant" => \E j \in DOMAIN chat[s] : chat[s][j] = Talk!User(t)
        BY DEF Spoken, Asked, Talk!User
      <3> QED
        BY <1>1, <2>1, <2>3, <3>1
    <2> QED
      BY <1>2, <2>2, <2>3
  <1> QED
    BY <1>7, <1>9, <1>10 DEF Spoken

LEMMA MessageStep ==
    ASSUME TalkInv, NEW t \in DOMAIN turn, NEW r \in TurnRec, NEW w \in Seq(EventRec), Served(t, r, w),
           NEW m \in Speech, r.session = turn[t].session, Talk!Said(r.session, m), m.turn = t,
           \/ m = Talk!User(t) /\ turn[t].at = "accepted" /\ r.at \in Asked
           \/ m = Talk!Reply(t, Talk!Full) /\ turn[t].at = "answered" /\ r.at = "over",
           tokens' = tokens, r.parts = turn[t].parts, r.broken = turn[t].broken,
           \A n \in 0..Fragments : Coming(n, turn[t], wire[t]) => Coming(n, r, w),
           \A i \in DOMAIN w : w[i].type = "done" /\ w[i].text # <<>> =>
              (\E j \in DOMAIN wire[t] : wire[t][j] = w[i]) \/ m = Talk!Reply(t, w[i].text)
    PROVE  TalkInv'
  <1>1. r.session \in Sessions
    BY DEF TurnRec
  <1>2. /\ chat' \in [Sessions -> Seq(Speech)]
        /\ \A x \in Sessions : \A k \in DOMAIN chat[x] : k \in DOMAIN chat'[x] /\ chat'[x][k] = chat[x][k]
        /\ \E k \in DOMAIN chat'[r.session] : chat'[r.session][k] = m
    BY <1>1, OneMessage DEF TalkInv
  <1>3. tokens' \in 0..LimiterBurst /\ \E n \in 0..Fragments : r.parts = Upto(n)
    BY DEF TalkInv, Talking
  <1>4. Talking'
    BY <1>2, <1>3, ServedTalking DEF TalkInv
  <1>5. Followed'
    BY ServedFollowed DEF TalkInv
  <1>6. Spoken'
    BY MessageSpoken DEF TalkInv
  <1>7. Talk!DoneIsStored'
    <2>1. \A i \in DOMAIN w : w[i].type = "done" /\ w[i].text # <<>> =>
              \/ \E j \in DOMAIN wire[t] : wire[t][j] = w[i]
              \/ \E k \in DOMAIN chat'[r.session] : chat'[r.session][k] = Talk!Reply(t, w[i].text)
      <3> SUFFICES ASSUME NEW i \in DOMAIN w, w[i].type = "done", w[i].text # <<>>,
                          ~\E j \in DOMAIN wire[t] : wire[t][j] = w[i]
                   PROVE  \E k \in DOMAIN chat'[r.session] : chat'[r.session][k] = Talk!Reply(t, w[i].text)
        OBVIOUS
      <3>1. m = Talk!Reply(t, w[i].text)
        OBVIOUS
      <3> QED
        BY <1>2, <3>1
    <2>2. Talking /\ Talk!DoneIsStored
      BY DEF TalkInv
    <2> QED
      BY <1>2, <2>1, <2>2, ServedDone
  <1> QED
    BY <1>4, <1>5, <1>6, <1>7 DEF TalkInv

LEMMA SaveQuestionStep ==
    ASSUME TalkInv, NEW t \in DOMAIN turn, Talk!SaveQuestion(t) PROVE TalkInv'
  <1> DEFINE m == Talk!User(t)
  <1>1. /\ turn[t] \in TurnRec /\ wire[t] \in Seq(EventRec) /\ wire = [wire EXCEPT ![t] = wire[t]]
        /\ t \in Nat
    BY TurnTyped DEF TalkInv, Talking
  <1>2. /\ turn[t].at = "accepted" /\ Talk!Said(turn[t].session, m) /\ tokens' = tokens
    BY DEF Talk!SaveQuestion
  <1>3. m \in Speech /\ m.turn = t
    BY <1>1 DEF Talk!User, Speech
  <1> HIDE DEF m
  <1>4. \A n \in 0..Fragments : Coming(n, turn[t], wire[t]) => n = 0 /\ wire[t] = <<>> /\ turn[t].parts = <<>>
    BY <1>2 DEF Coming
  <1>5. CASE turn[t].cited
    <2> DEFINE r == [turn[t] EXCEPT !.at = "answered"]
               e == <<Talk!Chunk(Talk!Full)>>
               w == wire[t] \o e
    <2>1. /\ r \in TurnRec /\ r.at = "answered" /\ r.session = turn[t].session /\ r.parts = turn[t].parts
          /\ r.broken = turn[t].broken
      BY <1>1, TurnRecords DEF Asked
    <2>2. Served(t, r, w)
      BY <1>5 DEF Talk!SaveQuestion, Talk!page, Talk!Goto, Talk!Emit, Served
    <2>3. e \in Seq(EventRec) /\ \A i \in DOMAIN e : e[i].type = "chunk"
      BY TalkValues DEF Talk!Chunk, EventRec
    <2> HIDE DEF r
    <2>4. \A n \in 0..Fragments : Coming(n, turn[t], wire[t]) => Coming(n, r, w)
      <3> SUFFICES ASSUME NEW n \in 0..Fragments, Coming(n, turn[t], wire[t]) PROVE Coming(n, r, w)
        OBVIOUS
      <3>1. n = 0 /\ w = <<>> \o <<Talk!Chunk(Talk!Full)>>
        BY <1>4
      <3> HIDE DEF w, e
      <3> QED
        BY <2>1, <3>1, WholeComes
    <2> HIDE DEF e
    <2>5. /\ w \in Seq(EventRec)
          /\ \A i \in DOMAIN w : w[i].type = "done" => \E j \in DOMAIN wire[t] : wire[t][j] = w[i]
      BY <1>1, <2>3
    <2> HIDE DEF w
    <2> QED
      BY <1>1, <1>2, <1>3, <2>1, <2>2, <2>4, <2>5, MessageStep DEF m, Asked
  <1>6. CASE ~turn[t].cited
    <2> DEFINE r == [turn[t] EXCEPT !.at = "thinking"]
    <2>1. /\ r \in TurnRec /\ r.at = "thinking" /\ r.session = turn[t].session /\ r.parts = turn[t].parts
          /\ r.broken = turn[t].broken
      BY <1>1, TurnRecords DEF Asked
    <2>2. Served(t, r, wire[t])
      BY <1>1, <1>6 DEF Talk!SaveQuestion, Talk!page, Talk!Goto, Served
    <2> HIDE DEF r
    <2>3. \A n \in 0..Fragments : Coming(n, turn[t], wire[t]) => Coming(n, r, wire[t])
      BY <1>4, <2>1 DEF Coming
    <2> QED
      BY <1>1, <1>2, <1>3, <2>1, <2>2, <2>3, MessageStep DEF m, Asked
  <1> QED
    BY <1>5, <1>6

LEMMA StoreAnswerStep ==
    ASSUME TalkInv, NEW t \in DOMAIN turn, Talk!StoreAnswer(t) PROVE TalkInv'
  <1> DEFINE m == Talk!Reply(t, Talk!Full)
             r == [turn[t] EXCEPT !.at = "over"]
             e == <<Talk!Done(Talk!Full)>>
             w == wire[t] \o e
  <1>1. turn[t] \in TurnRec /\ wire[t] \in Seq(EventRec) /\ t \in Nat
    BY TurnTyped DEF TalkInv, Talking
  <1>2. /\ turn[t].at = "answered" /\ Talk!Said(turn[t].session, m) /\ tokens' = tokens
    BY DEF Talk!StoreAnswer
  <1>3. m \in Speech /\ m.turn = t
    BY <1>1, TalkValues DEF Talk!Reply, Speech
  <1>4. /\ r \in TurnRec /\ r.at = "over" /\ r.session = turn[t].session /\ r.parts = turn[t].parts
        /\ r.broken = turn[t].broken
    BY <1>1, TurnRecords
  <1>5. Served(t, r, w)
    BY DEF Talk!StoreAnswer, Talk!page, Talk!Goto, Talk!Emit, Served
  <1>6. e \in Seq(EventRec) /\ \A i \in DOMAIN e : e[i].type = "done" /\ e[i].text = Talk!Full
    BY TalkValues DEF Talk!Done, EventRec
  <1> HIDE DEF r, e, m
  <1>7. \A n \in 0..Fragments : Coming(n, turn[t], wire[t]) => Coming(n, r, w)
    BY <1>1, <1>4, <1>6, EndingComes
  <1>8. /\ w \in Seq(EventRec)
        /\ \A i \in DOMAIN w : (\E j \in DOMAIN wire[t] : wire[t][j] = w[i]) \/ w[i].text = Talk!Full
    BY <1>1, <1>6
  <1> HIDE DEF w
  <1>9. \A i \in DOMAIN w : w[i].type = "done" /\ w[i].text # <<>> =>
              (\E j \in DOMAIN wire[t] : wire[t][j] = w[i]) \/ m = Talk!Reply(t, w[i].text)
    BY <1>8 DEF m
  <1> QED
    BY <1>1, <1>2, <1>3, <1>4, <1>5, <1>7, <1>8, <1>9, MessageStep DEF m

LEMMA ServeStep ==
    ASSUME TalkInv, NEW t \in DOMAIN turn, Talk!Serve(t) PROVE TalkInv'
  BY AcceptStep, SaveQuestionStep, ToolRoundStep, FinalAnswerStep, StreamChunkStep, StreamEndsStep,
     StoreAnswerStep, TurnFailsStep DEF Talk!Serve

-----------------------------------------------------------------------------
(* The page *)

\* What only the page does, or nobody, concerns no message.
LEMMA SilentStep ==
    ASSUME Spoken, Talk!DoneIsStored, chat' = chat, turn' = turn, wire' = wire
    PROVE  Spoken' /\ Talk!DoneIsStored'
  <1>1. ASSUME NEW s, NEW m, Rightful(s, m) PROVE Rightful(s, m)'
    BY <1>1 DEF Rightful
  <1>2. Spoken'
    BY <1>1 DEF Spoken, Talk!AnswersFollow, Talk!User
  <1>3. Talk!DoneIsStored'
    BY DEF Talk!DoneIsStored, Talk!Turns, Talk!Reply
  <1> QED
    BY <1>2, <1>3

LEMMA RefillStep == ASSUME TalkInv, Talk!Refill PROVE TalkInv'
  <1>1. chat' = chat /\ turn' = turn /\ wire' = wire /\ UNCHANGED Talk!page
    BY DEF Talk!Refill
  <1>2. tokens' \in 0..LimiterBurst
    <2>1. tokens \in 0..LimiterBurst /\ LimiterBurst \in Nat
      BY TalkValues DEF TalkInv, Talking
    <2>2. tokens < LimiterBurst /\ tokens' = tokens + 1
      BY DEF Talk!Refill
    <2> QED
      BY <2>1, <2>2
  <1>3. Talking'
    BY <1>1, <1>2 DEF TalkInv, Talking, Talk!page
  <1>4. ASSUME NEW b, Following(b) PROVE Following(b)'
    BY <1>1, <1>4 DEF Following
  <1>5. Followed'
    BY <1>1, <1>4 DEF TalkInv, Followed, Talk!page
  <1> QED
    BY <1>1, <1>3, <1>5, SilentStep DEF TalkInv

LEMMA StreamOverStep == ASSUME TalkInv, NEW t, Talk!StreamOver(t) PROVE TalkInv'
  <1>1. /\ chat' = chat /\ turn' = turn /\ wire' = wire /\ tokens' = tokens /\ selected' = selected
        /\ bubbles' = bubbles /\ current' = current /\ loads' = loads /\ sending' = 0
    BY DEF Talk!StreamOver, Talk!server
  <1>2. Talking'
    BY <1>1 DEF TalkInv, Talking
  <1>3. ASSUME NEW b, Following(b) PROVE Following(b)'
    BY <1>1, <1>3 DEF Following
  <1>4. Followed'
    BY <1>1, <1>3 DEF TalkInv, Followed
  <1> QED
    BY <1>1, <1>2, <1>4, SilentStep DEF TalkInv

LEMMA SelectStep == ASSUME TalkInv, NEW s \in Sessions, Talk!Select(s) PROVE TalkInv'
  <1> DEFINE l == [session |-> s, at |-> "asked", rows |-> <<>>]
  <1>1. /\ chat' = chat /\ turn' = turn /\ wire' = wire /\ tokens' = tokens /\ selected' = s
        /\ bubbles' = <<>> /\ current' = current /\ loads' = Append(loads, l) /\ sending' = sending
    BY DEF Talk!Select, Talk!server
  <1>2. l \in LoadRec /\ DOMAIN l.rows = {}
    BY DEF LoadRec
  <1> HIDE DEF l
  <1>3. loads \in Seq(LoadRec)
    BY DEF TalkInv, Talking
  <1>4. loads' \in Seq(LoadRec) /\ \A i \in DOMAIN loads' : (i \in DOMAIN loads /\ loads'[i] = loads[i]) \/ loads'[i] = l
    BY <1>1, <1>2, <1>3
  <1>5. bubbles' \in Seq(BubbleRec) /\ DOMAIN bubbles' = {}
    BY <1>1
  <1>6. Talking'
    BY <1>1, <1>4, <1>5 DEF TalkInv, Talking
  <1>7. Followed'
    BY <1>1, <1>2, <1>4, <1>5 DEF TalkInv, Followed
  <1> QED
    BY <1>1, <1>6, <1>7, SilentStep DEF TalkInv

\* What is stored is fit to be shown.
LEMMA StoredRows ==
    ASSUME TalkInv, NEW s \in Sessions
    PROVE  /\ chat[s] \in Seq(Speech)
           /\ \A k \in DOMAIN chat[s] :
                 /\ chat[s][k].turn \in DOMAIN turn
                 /\ chat[s][k].role = "assistant" => chat[s][k].text = Talk!Full
  <1>1. chat[s] \in Seq(Speech)
    BY DEF TalkInv, Talking
  <1>2. ASSUME NEW k \in DOMAIN chat[s]
        PROVE  /\ chat[s][k].turn \in DOMAIN turn
               /\ chat[s][k].role = "assistant" => chat[s][k].text = Talk!Full
    <2>1. Rightful(s, chat[s][k])
      BY DEF TalkInv, Spoken
    <2> QED
      BY <2>1 DEF Rightful, Talk!User, Talk!Reply
  <1> QED
    BY <1>1, <1>2

LEMMA LoadTyped ==
    ASSUME TalkInv, NEW i \in DOMAIN loads
    PROVE  /\ loads \in Seq(LoadRec) /\ loads[i] \in LoadRec
           /\ loads[i].session \in Sessions /\ loads[i].rows \in Seq(Speech)
  <1>1. loads \in Seq(LoadRec)
    BY DEF TalkInv, Talking
  <1>2. loads[i] \in LoadRec
    BY <1>1
  <1> QED
    BY <1>1, <1>2 DEF LoadRec

LEMMA LoadRecords ==
    ASSUME NEW l \in LoadRec, NEW at \in {"answered", "shown"}, NEW rows \in Seq(Speech)
    PROVE  /\ [l EXCEPT !.at = at, !.rows = rows] \in LoadRec
           /\ [l EXCEPT !.at = at, !.rows = rows].rows = rows
  BY DEF LoadRec

LEMMA LoadAnsweredStep == ASSUME TalkInv, NEW i \in DOMAIN loads, Talk!LoadAnswered(i) PROVE TalkInv'
  <1> DEFINE l == [loads[i] EXCEPT !.at = "answered", !.rows = chat[loads[i].session]]
  <1>1. /\ chat' = chat /\ turn' = turn /\ wire' = wire /\ tokens' = tokens /\ selected' = selected
        /\ bubbles' = bubbles /\ current' = current /\ sending' = sending
    BY DEF Talk!LoadAnswered, Talk!server
  <1>2. loads \in Seq(LoadRec) /\ loads[i] \in LoadRec /\ loads[i].session \in Sessions
    BY LoadTyped
  <1>3. loads' = [loads EXCEPT ![i] = l]
    BY <1>2 DEF Talk!LoadAnswered
  <1>4. l \in LoadRec /\ l.rows = chat[loads[i].session]
    BY <1>2, StoredRows, LoadRecords
  <1> HIDE DEF l
  <1>5. loads' \in Seq(LoadRec) /\ \A j \in DOMAIN loads' : j \in DOMAIN loads /\ (loads'[j] = loads[j] \/ loads'[j] = l)
    BY <1>2, <1>3, <1>4
  <1>6. Talking'
    BY <1>1, <1>5 DEF TalkInv, Talking
  <1>7. ASSUME NEW b, Following(b) PROVE Following(b)'
    BY <1>1, <1>7 DEF Following
  <1>8. Followed'
    <2>1. \A k \in DOMAIN l.rows : /\ l.rows[k].turn \in DOMAIN turn
                                   /\ l.rows[k].role = "assistant" => l.rows[k].text = Talk!Full
      BY <1>2, <1>4, StoredRows
    <2> QED
      BY <1>1, <1>5, <1>7, <2>1 DEF TalkInv, Followed
  <1> QED
    BY <1>1, <1>6, <1>8, SilentStep DEF TalkInv

LEMMA LoadArrivesStep == ASSUME TalkInv, NEW i \in DOMAIN loads, Talk!LoadArrives(i) PROVE TalkInv'
  <1> DEFINE l == [loads[i] EXCEPT !.at = "shown", !.rows = <<>>]
             rows == loads[i].rows
  <1>1. /\ chat' = chat /\ turn' = turn /\ wire' = wire /\ tokens' = tokens /\ selected' = selected
        /\ current' = current /\ sending' = sending
        /\ bubbles' = [k \in DOMAIN rows |-> Talk!Bubble(rows[k].turn, rows[k].role, rows[k].text, FALSE)]
    BY DEF Talk!LoadArrives, Talk!server
  <1>2. loads \in Seq(LoadRec) /\ loads[i] \in LoadRec /\ rows \in Seq(Speech)
    BY LoadTyped
  <1>3. loads' = [loads EXCEPT ![i] = l]
    BY <1>2 DEF Talk!LoadArrives
  <1>4. l \in LoadRec /\ l.rows = <<>> /\ DOMAIN l.rows = {}
    <2>1. <<>> \in Seq(Speech) /\ DOMAIN <<>> = {}
      OBVIOUS
    <2>2. l \in LoadRec /\ l.rows = <<>>
      BY <1>2, <2>1, LoadRecords
    <2> QED
      BY <2>1, <2>2
  <1>5. \A k \in DOMAIN rows : /\ rows[k].turn \in DOMAIN turn
                               /\ rows[k].role = "assistant" => rows[k].text = Talk!Full
    BY DEF TalkInv, Followed
  <1> HIDE DEF l, rows
  <1>6. loads' \in Seq(LoadRec) /\ \A j \in DOMAIN loads' : j \in DOMAIN loads /\ (loads'[j] = loads[j] \/ loads'[j] = l)
    BY <1>2, <1>3, <1>4
  <1>7. ASSUME NEW k \in DOMAIN rows
        PROVE  Talk!Bubble(rows[k].turn, rows[k].role, rows[k].text, FALSE) \in BubbleRec
    <2>1. rows[k] \in Speech
      BY <1>2
    <2> QED
      BY <2>1 DEF Talk!Bubble, BubbleRec, Speech
  <1>8. bubbles' \in Seq(BubbleRec)
    <2>1. DOMAIN rows = 1..Len(rows) /\ Len(rows) \in Nat
      BY <1>2
    <2>2. bubbles' \in [1..Len(rows) -> BubbleRec]
      BY <1>1, <1>7, <2>1
    <2> QED
      BY <2>1, <2>2
  <1>9. Talking'
    BY <1>1, <1>6, <1>8 DEF TalkInv, Talking
  <1>10. \A k \in DOMAIN bubbles' : bubbles'[k].turn \in DOMAIN turn /\ ~bubbles'[k].live
                   /\ (bubbles'[k].role = "assistant" => bubbles'[k].text = Talk!Full)
    BY <1>1, <1>5 DEF Talk!Bubble
  <1>11. (\A k \in DOMAIN bubbles : Following(bubbles[k]))'
    BY <1>1, <1>10 DEF Following, Talk!Full
  <1>12. Followed'
    BY <1>1, <1>4, <1>6, <1>11 DEF TalkInv, Followed
  <1> QED
    BY <1>1, <1>9, <1>12, SilentStep DEF TalkInv

\* A new turn starts with nothing said, and with a bubble for the question and one for the answer.
LEMMA SendStep == ASSUME TalkInv, NEW s \in Sessions, Talk!Send(s) PROVE TalkInv'
  <1>0. PICK T : T = Len(turn) + 1
    OBVIOUS
  <1> DEFINE r == [session |-> s, at |-> "sent", rounds |-> 0, parts |-> <<>>, cited |-> FALSE, broken |-> FALSE]
             q == Talk!Bubble(T, "user", <<>>, TRUE)
             a == Talk!Bubble(T, "assistant", <<>>, TRUE)
  <1>1. /\ chat' = chat /\ tokens' = tokens /\ loads' = loads /\ selected' = s
        /\ turn' = Append(turn, r) /\ wire' = Append(wire, <<>>) /\ sending' = T /\ current' = T
        /\ bubbles' = bubbles \o <<q, a>>
    BY <1>0 DEF Talk!Send
  <1>2. /\ turn \in Seq(TurnRec) /\ wire \in Seq(Seq(EventRec)) /\ Len(wire) = Len(turn)
        /\ bubbles \in Seq(BubbleRec) /\ loads \in Seq(LoadRec)
    BY DEF TalkInv, Talking
  <1>3. T \in Nat /\ DOMAIN turn = 1..T - 1 /\ Len(turn) \in Nat /\ T \notin DOMAIN turn
        /\ T \in 1..T
    BY <1>0, <1>2
  <1>4. /\ r \in TurnRec /\ r.at = "sent" /\ r.parts = <<>> /\ r.parts = Upto(0) /\ ~r.broken
    <2>1. <<>> \in Seq(Nat) /\ Upto(0) = <<>>
      BY DEF Upto
    <2>2. 0 \in 0..ToolIters - 1
      BY TalkValues
    <2> QED
      BY <2>1, <2>2 DEF TurnRec
  <1>5. /\ q \in BubbleRec /\ q.turn = T /\ q.role = "user"
        /\ a \in BubbleRec /\ a.turn = T /\ a.role = "assistant" /\ a.live /\ a.text = <<>>
    <2>1. <<>> \in Seq(Nat)
      OBVIOUS
    <2> QED
      BY <1>3, <2>1 DEF Talk!Bubble, BubbleRec
  <1> HIDE DEF r, q, a
  <1>6. /\ turn' \in Seq(TurnRec) /\ Len(turn') = T /\ DOMAIN turn' = 1..T /\ turn'[T] = r
        /\ \A x \in DOMAIN turn : x \in DOMAIN turn' /\ turn'[x] = turn[x]
    BY <1>0, <1>1, <1>2, <1>4
  <1>7. /\ wire' \in Seq(Seq(EventRec)) /\ Len(wire') = T /\ DOMAIN wire' = 1..T /\ wire'[T] = <<>>
        /\ \A x \in DOMAIN turn : wire'[x] = wire[x]
    <2>1. <<>> \in Seq(EventRec)
      OBVIOUS
    <2> QED
      BY <1>0, <1>1, <1>2, <2>1
  <1>8. \A x \in DOMAIN turn' : x \in DOMAIN turn \/ x = T
    BY <1>3, <1>6
  <1>9. /\ bubbles' \in Seq(BubbleRec)
        /\ \A k \in DOMAIN bubbles' : \/ k \in DOMAIN bubbles /\ bubbles'[k] = bubbles[k]
                                      \/ bubbles'[k] = q \/ bubbles'[k] = a
    BY <1>1, <1>2, <1>5
  <1>10. Talking'
    <2>1. ASSUME NEW x \in DOMAIN turn' PROVE \E n \in 0..Fragments : turn'[x].parts = Upto(n)
      <3>1. CASE x \in DOMAIN turn
        BY <1>6, <3>1 DEF TalkInv, Talking
      <3>2. CASE x = T
        <4>1. 0 \in 0..Fragments
          BY TalkValues
        <4> QED
          BY <1>4, <1>6, <3>2, <4>1
      <3> QED
        BY <1>8, <3>1, <3>2
    <2>2. chat' \in [Sessions -> Seq(Speech)] /\ tokens' \in 0..LimiterBurst
      BY <1>1 DEF TalkInv, Talking
    <2>3. /\ current' = Len(turn') /\ sending' \in {0, current'} /\ Len(wire') = Len(turn')
          /\ selected' \in Sessions \cup {Talk!NoSession} /\ loads' \in Seq(LoadRec)
      BY <1>1, <1>2, <1>6, <1>7
    <2>4. turn' \in Seq(TurnRec) /\ wire' \in Seq(Seq(EventRec)) /\ bubbles' \in Seq(BubbleRec)
      BY <1>6, <1>7, <1>9
    <2> QED
      BY <2>1, <2>2, <2>3, <2>4 DEF Talking, Talk!NoSession
  <1>11. ASSUME NEW x, NEW m, Rightful(x, m) PROVE Rightful(x, m)'
    BY <1>6, <1>11 DEF Rightful
  <1>12. Spoken'
    <2>1. (\A x \in Sessions : \A k \in DOMAIN chat[x] : Rightful(x, chat[x][k]))'
      BY <1>1, <1>11 DEF TalkInv, Spoken
    <2>2. (\A x \in DOMAIN turn : turn[x].at \in Asked =>
              \E k \in DOMAIN chat[turn[x].session] : chat[turn[x].session][k] = Talk!User(x))'
      <3> SUFFICES ASSUME NEW x \in DOMAIN turn', turn'[x].at \in Asked
                   PROVE  \E k \in DOMAIN chat'[turn'[x].session] : chat'[turn'[x].session][k] = Talk!User(x)
        BY DEF Talk!User
      <3>1. x \in DOMAIN turn
        BY <1>4, <1>6, <1>8 DEF Asked
      <3> QED
        BY <1>1, <1>6, <3>1 DEF TalkInv, Spoken
    <2>3. Talk!AnswersFollow'
      <3>1. Talk!AnswersFollow
        BY DEF TalkInv, Spoken
      <3> QED
        BY <1>1, <3>1 DEF Talk!AnswersFollow, Talk!User
    <2> QED
      BY <2>1, <2>2, <2>3 DEF Spoken
  <1>13. Talk!DoneIsStored'
    <2> SUFFICES ASSUME NEW x \in DOMAIN turn', NEW i \in DOMAIN wire'[x],
                        wire'[x][i].type = "done", wire'[x][i].text # <<>>
                 PROVE  \E k \in DOMAIN chat'[turn'[x].session] :
                            chat'[turn'[x].session][k] = Talk!Reply(x, wire'[x][i].text)
      BY DEF Talk!DoneIsStored, Talk!Turns, Talk!Reply
    <2>1. x \in DOMAIN turn
      BY <1>7, <1>8
    <2>2. turn'[x] = turn[x] /\ wire'[x] = wire[x]
      BY <1>6, <1>7, <2>1
    <2>3. i \in DOMAIN wire[x] /\ wire[x][i].type = "done" /\ wire[x][i].text # <<>>
      BY <2>2
    <2>4. \E k \in DOMAIN chat[turn[x].session] : chat[turn[x].session][k] = Talk!Reply(x, wire[x][i].text)
      BY <2>1, <2>3 DEF TalkInv, Talk!DoneIsStored, Talk!Turns
    <2> QED
      BY <1>1, <2>2, <2>4
  <1>14. Followed'
    <2>1. ASSUME NEW b, Following(b) PROVE Following(b)'
      <3>1. b.turn \in DOMAIN turn
        BY <2>1 DEF Following
      <3>2. b.turn \in DOMAIN turn' /\ turn'[b.turn] = turn[b.turn] /\ wire'[b.turn] = wire[b.turn]
        BY <1>6, <1>7, <3>1
      <3> QED
        BY <2>1, <3>2 DEF Following
    <2>2. T \in DOMAIN turn'
      BY <1>3, <1>6
    <2>3. Following(q)'
      BY <1>5, <2>2 DEF Following
    <2>4. Following(a)'
      <3>1. Coming(0, r, <<>>)
        BY <1>4 DEF Coming, OneByOne, Closing
      <3>2. 0 \in 0..Fragments /\ a.text = Upto(0)
        BY <1>4, <1>5, TalkValues
      <3> QED
        BY <1>5, <1>6, <1>7, <2>2, <3>1, <3>2 DEF Following
    <2>5. (\A k \in DOMAIN bubbles : Following(bubbles[k]))'
      BY <1>9, <2>1, <2>3, <2>4 DEF TalkInv, Followed
    <2>6. (\A i \in DOMAIN loads : \A k \in DOMAIN loads[i].rows :
           /\ loads[i].rows[k].turn \in DOMAIN turn
           /\ loads[i].rows[k].role = "assistant" => loads[i].rows[k].text = Talk!Full)'
      BY <1>1, <1>6 DEF TalkInv, Followed
    <2> QED
      BY <2>5, <2>6 DEF Followed
  <1> QED
    BY <1>10, <1>12, <1>13, <1>14 DEF TalkInv

\* What the bubble of an answer makes of an event.
Patched(b, e) ==
    CASE e.type = "chunk" -> [b EXCEPT !.text = @ \o e.text]
      [] e.type = "done" /\ b.text = <<>> -> [b EXCEPT !.text = e.text]
      [] OTHER -> b

LEMMA PatchedBubble ==
    ASSUME NEW b \in BubbleRec, NEW e \in EventRec
    PROVE  /\ Patched(b, e) \in BubbleRec
           /\ Patched(b, e).turn = b.turn /\ Patched(b, e).role = b.role /\ Patched(b, e).live = b.live
           /\ e.type = "chunk" => Patched(b, e).text = b.text \o e.text
           /\ e.type = "done" /\ b.text = <<>> => Patched(b, e).text = e.text
           /\ e.type # "chunk" /\ ~(e.type = "done" /\ b.text = <<>>) => Patched(b, e).text = b.text
  <1>1. b.text \in Seq(Nat) /\ e.text \in Seq(Nat) /\ b.text \o e.text \in Seq(Nat)
    BY DEF BubbleRec, EventRec
  <1>2. CASE e.type = "chunk"
    BY <1>1, <1>2 DEF Patched, BubbleRec
  <1>3. CASE e.type = "done" /\ b.text = <<>>
    BY <1>1, <1>3 DEF Patched, BubbleRec
  <1>4. CASE e.type # "chunk" /\ ~(e.type = "done" /\ b.text = <<>>)
    <2>1. Patched(b, e) = b
      BY <1>4 DEF Patched
    <2> QED
      BY <1>4, <2>1
  <1> QED
    BY <1>2, <1>3, <1>4

\* With an event received there is one less to come, and the bubble shows that much more.
LEMMA TailComes ==
    ASSUME NEW n \in 0..Fragments, NEW r, NEW w \in Seq(EventRec), w # <<>>, Coming(n, r, w)
    PROVE  /\ Head(w).type = "chunk" =>
                 \E k \in 0..Fragments : Upto(n) \o Head(w).text = Upto(k) /\ Coming(k, r, Tail(w))
           /\ Head(w).type # "chunk" => \A k \in 0..Fragments : Coming(k, r, Tail(w))
           /\ Head(w).type = "done" => \E k \in 0..Fragments : Head(w).text = Upto(k)
  <1> DEFINE v == Tail(w)
             e == Head(w)
  <1>1. /\ v \in Seq(EventRec) /\ Len(w) \in Nat /\ Len(w) > 0 /\ Len(v) = Len(w) - 1
        /\ DOMAIN w = 1..Len(w) /\ DOMAIN v = 1..Len(w) - 1 /\ e = w[1] /\ 1 \in DOMAIN w
    OBVIOUS
  <1>2. \A i \in DOMAIN v : i + 1 \in DOMAIN w /\ v[i] = w[i + 1] /\ i \in Nat /\ i >= 1
    BY <1>1
  <1> HIDE DEF v, e
  <1>3. r.at \notin {"sent", "refused", "accepted", "thinking"} /\ n \in Nat /\ Fragments \in Nat
    <2>1. r.at \notin {"sent", "refused", "accepted", "thinking"}
      BY DEF Coming
    <2>2. n \in Nat /\ Fragments \in Nat
      BY TalkValues
    <2> QED
      BY <2>1, <2>2
  <1>4. Closing(v)
    <2> SUFFICES ASSUME NEW i \in DOMAIN v, NEW j \in DOMAIN v, i < j, v[i].type # "chunk"
                 PROVE  v[j].type # "chunk"
      BY DEF Closing
    <2>1. i + 1 < j + 1
      BY <1>2
    <2> QED
      BY <1>2, <2>1 DEF Coming, Closing
  <1>5. \A i \in DOMAIN v : v[i].type = "done" => v[i].text \in {<<>>, Talk!Full}
    BY <1>2 DEF Coming
  <1>6. CASE e.type # "chunk"
    <2>1. \A i \in DOMAIN v : v[i].type # "chunk"
      <3> SUFFICES ASSUME NEW i \in DOMAIN v PROVE v[i].type # "chunk"
        OBVIOUS
      <3>1. 1 < i + 1
        BY <1>2
      <3> QED
        BY <1>1, <1>2, <1>6, <3>1 DEF Coming, Closing
    <2>2. r.at # "streaming"
      BY <1>1, <1>6 DEF Coming
    <2>3. \A k \in 0..Fragments : Coming(k, r, v)
      BY <1>3, <1>4, <1>5, <2>1, <2>2 DEF Coming, OneByOne
    <2>4. e.type = "done" => \E k \in 0..Fragments : e.text = Upto(k)
      <3>1. e.type = "done" => e.text \in {<<>>, Talk!Full}
        BY <1>1 DEF Coming
      <3>2. <<>> = Upto(0) /\ Talk!Full = Upto(Fragments) /\ 0 \in 0..Fragments /\ Fragments \in 0..Fragments
        BY <1>3, TalkValues DEF Upto
      <3> QED
        BY <3>1, <3>2
    <2> QED
      BY <1>6, <2>3, <2>4 DEF v, e
  <1>7. CASE e.type = "chunk" /\ OneByOne(n, w)
    <2>1. e.text = <<n + 1>> /\ n + 1 <= Fragments
      BY <1>1, <1>7 DEF OneByOne
    <2>2. n + 1 \in 0..Fragments /\ Upto(n) \o e.text = Upto(n + 1)
      BY <1>3, <2>1, UptoNext
    <2>3. OneByOne(n + 1, v)
      <3> SUFFICES ASSUME NEW i \in DOMAIN v, v[i].type = "chunk"
                   PROVE  v[i].text = <<n + 1 + i>> /\ n + 1 + i <= Fragments
        BY DEF OneByOne
      <3>1. w[i + 1].text = <<n + (i + 1)>> /\ n + (i + 1) <= Fragments
        BY <1>2, <1>7 DEF OneByOne
      <3>2. n + (i + 1) = n + 1 + i
        BY <1>2, <1>3
      <3> QED
        BY <1>2, <3>1, <3>2
    <2>4. r.at = "streaming" => Len(r.parts) = n + 1 + Len(v) /\ \A i \in DOMAIN v : v[i].type = "chunk"
      <3> SUFFICES ASSUME r.at = "streaming"
                   PROVE  Len(r.parts) = n + 1 + Len(v) /\ \A i \in DOMAIN v : v[i].type = "chunk"
        OBVIOUS
      <3>1. Len(r.parts) = n + Len(w) /\ \A i \in DOMAIN w : w[i].type = "chunk"
        BY DEF Coming
      <3> QED
        BY <1>1, <1>2, <1>3, <3>1
    <2>5. Coming(n + 1, r, v)
      BY <1>3, <1>4, <1>5, <2>3, <2>4 DEF Coming
    <2> QED
      BY <1>7, <2>2, <2>5 DEF v, e
  <1>8. CASE e.type = "chunk" /\ ~OneByOne(n, w)
    <2>1. AllAtOnce(n, w) /\ r.at # "streaming"
      BY <1>8 DEF Coming
    <2>2. n = 0 /\ e = Talk!Chunk(Talk!Full)
      BY <1>1, <2>1 DEF AllAtOnce
    <2>3. Upto(n) \o e.text = Upto(Fragments)
      <3>1. Upto(0) = <<>> /\ Upto(Fragments) \in Seq(Nat) /\ e.text = Upto(Fragments)
        BY <1>3, <2>2, TalkValues DEF Upto, Talk!Chunk
      <3> QED
        BY <2>2, <3>1
    <2>4. \A i \in DOMAIN v : v[i].type # "chunk"
      <3> SUFFICES ASSUME NEW i \in DOMAIN v PROVE v[i].type # "chunk"
        OBVIOUS
      <3>1. i + 1 # 1
        BY <1>2
      <3> QED
        BY <1>2, <2>1, <3>1 DEF AllAtOnce
    <2>5. Coming(Fragments, r, v)
      BY <1>3, <1>4, <1>5, <2>1, <2>4 DEF Coming, OneByOne
    <2>6. Fragments \in 0..Fragments
      BY <1>3
    <2> QED
      BY <1>8, <2>3, <2>5, <2>6 DEF v, e
  <1> QED
    BY <1>6, <1>7, <1>8 DEF e

LEMMA ReceiveStep == ASSUME TalkInv, NEW t \in DOMAIN turn, Talk!Receive(t) PROVE TalkInv'
  <1>0. PICK w \in Seq(EventRec) : w = wire[t]
    BY TurnTyped DEF TalkInv
  <1> DEFINE e == Head(w)
             v == Tail(w)
  <1>1. /\ chat' = chat /\ turn' = turn /\ tokens' = tokens /\ selected' = selected /\ sending' = sending
        /\ current' = current /\ loads' = loads /\ sending = t
        /\ w # <<>> /\ wire' = [wire EXCEPT ![t] = v]
        /\ bubbles' = IF t = current THEN Talk!Patch(t, e) ELSE bubbles
    BY <1>0 DEF Talk!Receive
  <1>2. /\ wire \in Seq(Seq(EventRec)) /\ turn \in Seq(TurnRec) /\ DOMAIN wire = DOMAIN turn
        /\ bubbles \in Seq(BubbleRec) /\ t \in Nat /\ t # 0 /\ sending \in {0, current}
    BY DEF TalkInv, Talking
  <1>3. /\ e \in EventRec /\ v \in Seq(EventRec) /\ DOMAIN w = 1..Len(w) /\ Len(w) \in Nat
        /\ e = w[1] /\ \A i \in DOMAIN v : i + 1 \in DOMAIN w /\ v[i] = w[i + 1]
    BY <1>1
  <1> HIDE DEF e, v
  <1>4. /\ wire' \in Seq(Seq(EventRec)) /\ Len(wire') = Len(wire) /\ wire'[t] = v
        /\ \A x \in DOMAIN turn : x # t => wire'[x] = wire[x]
    BY <1>1, <1>2, <1>3
  <1>5. /\ DOMAIN bubbles' = DOMAIN bubbles
        /\ \A k \in DOMAIN bubbles :
              bubbles'[k] = IF bubbles[k].live /\ bubbles[k].turn = t /\ bubbles[k].role = "assistant"
                            THEN Patched(bubbles[k], e) ELSE bubbles[k]
    <2>1. bubbles' = Talk!Patch(t, e)
      BY <1>1, <1>2
    <2> QED
      BY <2>1 DEF Talk!Patch, Patched
  <1>6. bubbles' \in Seq(BubbleRec)
    <2>1. DOMAIN bubbles = 1..Len(bubbles) /\ Len(bubbles) \in Nat
      BY <1>2
    <2>2. \A k \in DOMAIN bubbles : bubbles[k] \in BubbleRec
      BY <1>2
    <2>3. \A k \in DOMAIN bubbles : bubbles'[k] \in BubbleRec
      BY <1>3, <1>5, <2>2, PatchedBubble
    <2>4. bubbles' = [k \in DOMAIN bubbles |-> bubbles'[k]]
      <3>1. bubbles' = Talk!Patch(t, e)
        BY <1>1, <1>2
      <3> QED
        BY <3>1 DEF Talk!Patch
    <2>5. bubbles' \in [1..Len(bubbles) -> BubbleRec]
      BY <2>1, <2>3, <2>4
    <2> QED
      BY <2>1, <2>5
  <1>7. Talking'
    <2>1. (\A x \in DOMAIN turn : \E n \in 0..Fragments : turn[x].parts = Upto(n))'
      BY <1>1 DEF TalkInv, Talking
    <2> QED
      BY <1>1, <1>4, <1>6, <2>1 DEF TalkInv, Talking
  <1>8. Spoken'
    <2>1. ASSUME NEW s, NEW m, Rightful(s, m) PROVE Rightful(s, m)'
      BY <1>1, <2>1 DEF Rightful
    <2>2. Spoken
      BY DEF TalkInv
    <2>3. (\A s \in Sessions : \A k \in DOMAIN chat[s] : Rightful(s, chat[s][k]))'
      BY <1>1, <2>1, <2>2 DEF Spoken
    <2>4. (\A x \in DOMAIN turn : turn[x].at \in Asked =>
              \E k \in DOMAIN chat[turn[x].session] : chat[turn[x].session][k] = Talk!User(x))'
      BY <1>1, <2>2 DEF Spoken, Talk!User
    <2>5. Talk!AnswersFollow'
      <3>1. Talk!AnswersFollow
        BY <2>2 DEF Spoken
      <3> QED
        BY <1>1, <3>1 DEF Talk!AnswersFollow, Talk!User
    <2> QED
      BY <2>3, <2>4, <2>5 DEF Spoken
  <1>9. Talk!DoneIsStored'
    <2> SUFFICES ASSUME NEW x \in DOMAIN turn, NEW i \in DOMAIN wire'[x],
                        wire'[x][i].type = "done", wire'[x][i].text # <<>>
                 PROVE  \E k \in DOMAIN chat[turn[x].session] :
                            chat[turn[x].session][k] = Talk!Reply(x, wire'[x][i].text)
      BY <1>1 DEF Talk!DoneIsStored, Talk!Turns, Talk!Reply
    <2>1. \E j \in DOMAIN wire[x] : wire[x][j] = wire'[x][i]
      BY <1>0, <1>3, <1>4
    <2> QED
      BY <2>1 DEF TalkInv, Talk!DoneIsStored, Talk!Turns
  <1>10. ASSUME NEW b, Following(b), b.live, b.turn = t, b.role = "assistant",
                NEW c, c.turn = t, c.role = "assistant", c.live,
                e.type = "chunk" => c.text = b.text \o e.text,
                e.type = "done" /\ b.text = <<>> => c.text = e.text,
                e.type # "chunk" /\ ~(e.type = "done" /\ b.text = <<>>) => c.text = b.text
         PROVE  Following(c)'
    <2>1. CASE turn[t].broken
      BY <1>1, <1>10, <2>1 DEF Following
    <2>2. CASE ~turn[t].broken
      <3>1. PICK n \in 0..Fragments : b.text = Upto(n) /\ Coming(n, turn[t], w)
        BY <1>0, <1>10, <2>2 DEF Following
      <3>2. /\ e.type = "chunk" =>
                   \E k \in 0..Fragments : Upto(n) \o e.text = Upto(k) /\ Coming(k, turn[t], v)
            /\ e.type # "chunk" => \A k \in 0..Fragments : Coming(k, turn[t], v)
            /\ e.type = "done" => \E k \in 0..Fragments : e.text = Upto(k)
        BY <1>1, <3>1, TailComes DEF e, v
      <3>3. \E k \in 0..Fragments : c.text = Upto(k) /\ Coming(k, turn[t], v)
        <4>1. CASE e.type = "chunk"
          BY <1>10, <3>1, <3>2, <4>1
        <4>2. CASE e.type = "done" /\ b.text = <<>>
          BY <1>10, <3>2, <4>2
        <4>3. CASE e.type # "chunk" /\ ~(e.type = "done" /\ b.text = <<>>)
          BY <1>10, <3>1, <3>2, <4>3
        <4> QED
          BY <4>1, <4>2, <4>3
      <3> QED
        BY <1>1, <1>4, <1>10, <3>3 DEF Following
    <2> QED
      BY <2>1, <2>2
  <1>11. ASSUME NEW b, Following(b), ~(b.live /\ b.turn = t /\ b.role = "assistant")
         PROVE  Following(b)'
    <2>1. b.turn \in DOMAIN turn /\ (b.turn # t => wire'[b.turn] = wire[b.turn])
      BY <1>4, <1>11 DEF Following
    <2> QED
      BY <1>1, <1>11, <2>1 DEF Following
  <1>12. Followed'
    <2>1. ASSUME NEW k \in DOMAIN bubbles' PROVE Following(bubbles[k])'
      <3>1. k \in DOMAIN bubbles /\ bubbles[k] \in BubbleRec /\ Following(bubbles[k])
        BY <1>2, <1>5, <2>1 DEF TalkInv, Followed
      <3>2. PICK b \in BubbleRec : b = bubbles[k]
        BY <3>1
      <3>3. CASE b.live /\ b.turn = t /\ b.role = "assistant"
        <4>1. bubbles'[k] = Patched(b, e)
          BY <1>5, <3>1, <3>2, <3>3
        <4>2. PICK c : c = Patched(b, e)
          OBVIOUS
        <4>3. Following(c)'
          <5>1. /\ c.turn = t /\ c.role = "assistant" /\ c.live
                /\ e.type = "chunk" => c.text = b.text \o e.text
                /\ e.type = "done" /\ b.text = <<>> => c.text = e.text
                /\ e.type # "chunk" /\ ~(e.type = "done" /\ b.text = <<>>) => c.text = b.text
            BY <1>3, <3>3, <4>2, PatchedBubble
          <5>2. Following(b)
            BY <3>1, <3>2
          <5> QED
            BY <1>10, <3>3, <5>1, <5>2
        <4> QED
          BY <4>1, <4>2, <4>3 DEF Following
      <3>4. CASE ~(b.live /\ b.turn = t /\ b.role = "assistant")
        <4>1. bubbles'[k] = b
          BY <1>5, <3>1, <3>2, <3>4
        <4>2. Following(b)'
          BY <1>11, <3>1, <3>2, <3>4
        <4> QED
          BY <4>1, <4>2 DEF Following
      <3> QED
        BY <3>3, <3>4
    <2> QED
      BY <1>1, <2>1 DEF TalkInv, Followed
  <1> QED
    BY <1>7, <1>8, <1>9, <1>12 DEF TalkInv

LEMMA TalkIdles == ASSUME TalkInv, UNCHANGED Talk!vars PROVE TalkInv'
  <1>1. /\ chat' = chat /\ turn' = turn /\ wire' = wire /\ tokens' = tokens /\ selected' = selected
        /\ bubbles' = bubbles /\ current' = current /\ loads' = loads /\ sending' = sending
    BY DEF Talk!vars
  <1>2. Talking'
    BY <1>1 DEF TalkInv, Talking
  <1>3. ASSUME NEW b, Following(b) PROVE Following(b)'
    BY <1>1, <1>3 DEF Following
  <1>4. Followed'
    BY <1>1, <1>3 DEF TalkInv, Followed
  <1> QED
    BY <1>1, <1>2, <1>4, SilentStep DEF TalkInv

LEMMA TalkStep == ASSUME TalkInv, [Talk!Next]_(Talk!vars) PROVE TalkInv'
  <1>1. CASE Talk!Refill
    BY <1>1, RefillStep
  <1>2. CASE \E t \in Talk!Turns : Talk!Serve(t) \/ Talk!Receive(t) \/ Talk!StreamOver(t)
    BY <1>2, ServeStep, ReceiveStep, StreamOverStep DEF Talk!Turns
  <1>3. CASE \E s \in Sessions : Talk!Send(s) \/ Talk!Select(s)
    BY <1>3, SendStep, SelectStep
  <1>4. CASE \E i \in DOMAIN loads : Talk!LoadAnswered(i) \/ Talk!LoadArrives(i)
    BY <1>4, LoadAnsweredStep, LoadArrivesStep
  <1>5. CASE UNCHANGED Talk!vars
    BY <1>5, TalkIdles
  <1> QED
    BY <1>1, <1>2, <1>3, <1>4, <1>5 DEF Talk!Next

LEMMA UptoIsPrefix == ASSUME NEW n \in 0..Fragments PROVE Talk!IsPrefix(Upto(n), Talk!Full)
  <1>1. Fragments \in Nat /\ Talk!Full = Upto(Fragments)
    BY TalkValues
  <1>2. n \in Nat /\ n <= Fragments
    BY <1>1
  <1>3. /\ Upto(n) \in Seq(Nat) /\ Upto(Fragments) \in Seq(Nat)
        /\ Len(Upto(n)) = n /\ Len(Upto(Fragments)) = Fragments
    BY <1>1, <1>2, TalkValues
  <1>4. \A i \in 1..n : Upto(n)[i] = i /\ Upto(Fragments)[i] = i
    BY <1>1, <1>2 DEF Upto
  <1>5. SubSeq(Upto(n), 1, n) = SubSeq(Upto(Fragments), 1, n)
    BY <1>1, <1>2, <1>3, <1>4
  <1> QED
    BY <1>1, <1>2, <1>3, <1>5 DEF Talk!IsPrefix

LEMMA TalkMeans == ASSUME TalkInv PROVE Talk!ChatSound
  <1>1. Talk!TypeOK
    <2>1. ASSUME NEW t \in DOMAIN turn
          PROVE  turn[t].rounds < ToolIters /\ Talk!IsPrefix(turn[t].parts, Talk!Full)
      <3>1. turn[t] \in TurnRec /\ \E n \in 0..Fragments : turn[t].parts = Upto(n)
        BY TurnTyped DEF TalkInv
      <3>2. turn[t].rounds \in 0..ToolIters - 1
        BY <3>1 DEF TurnRec
      <3>3. turn[t].rounds < ToolIters
        BY <3>2, TalkValues
      <3> QED
        BY <3>1, <3>3, UptoIsPrefix
    <2>2. Talking
      BY DEF TalkInv
    <2>3. DOMAIN turn = 1..Len(turn) /\ DOMAIN wire = DOMAIN turn
      BY <2>2 DEF Talking
    <2>4. tokens \in 0..LimiterBurst /\ selected \in Sessions \cup {Talk!NoSession}
          /\ sending \in {0, current} /\ current = Len(turn)
      BY <2>2 DEF Talking
    <2> QED
      BY <2>1, <2>3, <2>4 DEF Talk!TypeOK, Talk!Turns
  <1>2. Talk!DoneIsStored /\ Talk!AnswersFollow
    BY DEF TalkInv, Spoken
  <1>3. Talk!ShownIsStored
    <2> SUFFICES ASSUME NEW k \in DOMAIN bubbles, bubbles[k].role = "assistant", ~turn[bubbles[k].turn].broken
                 PROVE  Talk!IsPrefix(bubbles[k].text, Talk!Full)
      BY DEF Talk!ShownIsStored
    <2>1. Following(bubbles[k])
      BY DEF TalkInv, Followed
    <2>2. \E n \in 0..Fragments : bubbles[k].text = Upto(n)
      <3>1. Fragments \in 0..Fragments /\ Talk!Full = Upto(Fragments)
        BY TalkValues
      <3> QED
        BY <2>1, <3>1 DEF Following
    <2> QED
      BY <2>2, UptoIsPrefix
  <1> QED
    BY <1>1, <1>2, <1>3 DEF Talk!ChatSound

\* What is announced as done is stored, every answer follows its question and nothing is asked or
\* answered twice, and no fragment lands in a foreign bubble (assistant_service, the chat page).
THEOREM ChatHolds == Talk!Spec => []Talk!ChatSound
  <1>1. Talk!Init => TalkInv
    BY InitTalk
  <1>2. TalkInv /\ [Talk!Next]_(Talk!vars) => TalkInv'
    BY TalkStep
  <1>3. TalkInv => Talk!ChatSound
    BY TalkMeans
  <1> QED
    BY <1>1, <1>2, <1>3, PTL DEF Talk!Spec

\* The same of the behaviours the instance draws: no other part touches the chat.
THEOREM ChatPartHolds == Spec => []ChatSound
  <1> DEFINE Inv == focus = "assistant" => TalkInv
  <1>1. Init => Inv
    BY InitTalk DEF Init
  <1>2. Inv /\ [Next]_vars => Inv'
    <2> SUFFICES ASSUME focus = "assistant" => TalkInv, [Next]_vars, focus' = "assistant"
                 PROVE  TalkInv'
      OBVIOUS
    <2>1. focus = "assistant" /\ [Talk!Next]_(Talk!vars)
      BY DEF Next, vars, talkVars, Talk!vars
    <2> QED
      BY <2>1, TalkStep
  <1>3. Inv => ChatSound
    BY TalkMeans DEF ChatSound
  <1> QED
    BY <1>1, <1>2, <1>3, PTL DEF Spec

LEMMA TellsLast == ASSUME NEW w \in Seq(EventRec), NEW e \in Seq(EventRec), e # <<>>, e[Len(e)].type = "done"
                   PROVE  w \o e # <<>> /\ Talk!Last(w \o e).type = "done"
  <1> DEFINE v == w \o e
  <1>1. Len(w) \in Nat /\ Len(e) \in Nat /\ Len(e) > 0 /\ Len(v) = Len(w) + Len(e)
    OBVIOUS
  <1>2. v[Len(v)] = e[Len(e)] /\ v # <<>>
    BY <1>1
  <1> HIDE DEF v
  <1>3. v # <<>> /\ Talk!Last(v).type = "done"
    BY <1>2 DEF Talk!Last
  <1> QED
    BY <1>3 DEF v

LEMMA TellsStep == ASSUME TalkInv, [Talk!Next]_(Talk!vars) PROVE Talk!ToolTurnsEndDone
  <1> SUFFICES ASSUME NEW t \in DOMAIN turn, turn[t].at # "over", turn'[t].at = "over", ~turn[t].cited
               PROVE  wire'[t] # <<>> /\ Talk!Last(wire'[t]).type = "done"
    BY DEF Talk!ToolTurnsEndDone, Talk!Turns
  <1>1. /\ turn \in Seq(TurnRec) /\ turn[t] \in TurnRec /\ wire[t] \in Seq(EventRec)
        /\ wire \in Seq(Seq(EventRec)) /\ DOMAIN wire = DOMAIN turn /\ t \in 1..Len(turn)
    BY TurnTyped DEF TalkInv, Talking
  <1>2. turn' # turn
    OBVIOUS
  <1>3. PICK e \in Seq(EventRec) : wire'[t] = wire[t] \o e /\ e # <<>> /\ e[Len(e)].type = "done"
    <2> DEFINE bad == <<Talk!Event("error"), Talk!Done(<<>>)>>
               good == <<Talk!Done(Talk!Full)>>
    <2>1. /\ bad \in Seq(EventRec) /\ bad # <<>> /\ bad[Len(bad)].type = "done"
          /\ good \in Seq(EventRec) /\ good # <<>> /\ good[Len(good)].type = "done"
      <3>1. <<>> \in Seq(Nat) /\ Talk!Full \in Seq(Nat)
        BY TalkValues
      <3>2. Talk!Event("error") \in EventRec /\ Talk!Done(<<>>) \in EventRec /\ Talk!Done(Talk!Full) \in EventRec
        BY <3>1 DEF Talk!Event, Talk!Done, EventRec
      <3>3. Talk!Done(<<>>).type = "done" /\ Talk!Done(Talk!Full).type = "done"
        BY DEF Talk!Done
      <3> QED
        BY <3>2, <3>3
    <2> HIDE DEF bad, good
    <2>2. ASSUME NEW s \in Sessions, Talk!Send(s) PROVE FALSE
      <3>1. PICK r : turn' = Append(turn, r)
        BY <2>2 DEF Talk!Send
      <3> QED
        BY <1>1, <3>1
    <2>3. PICK x \in DOMAIN turn : Talk!Serve(x)
      BY <1>2, <2>2 DEF Talk!Next, Talk!vars, Talk!Turns, Talk!Refill, Talk!Receive, Talk!StreamOver,
                        Talk!Select, Talk!LoadAnswered, Talk!LoadArrives, Talk!server
    <2>4. CASE Talk!ToolRound(x)
      <3>1. x = t
        BY <1>1, <2>4 DEF Talk!ToolRound, Talk!Goto
      <3>2. ~(turn[t].rounds + 1 < ToolIters)
        <4> SUFFICES ASSUME turn[t].rounds + 1 < ToolIters PROVE FALSE
          OBVIOUS
        <4>1. turn'[t] = [turn[t] EXCEPT !.rounds = @ + 1]
          BY <1>1, <2>4, <3>1 DEF Talk!ToolRound
        <4>2. turn'[t].at = turn[t].at
          BY <1>1, <4>1 DEF TurnRec
        <4> QED
          BY <4>2
      <3>3. wire' = [wire EXCEPT ![t] = wire[t] \o bad]
        BY <2>4, <3>1, <3>2 DEF Talk!ToolRound, Talk!Emit, bad
      <3> QED
        BY <1>1, <2>1, <3>3
    <2>5. CASE Talk!TurnFails(x)
      BY <1>1, <2>1, <2>5 DEF Talk!TurnFails, Talk!Goto, Talk!Emit, bad
    <2>6. CASE Talk!StoreAnswer(x)
      BY <1>1, <2>1, <2>6 DEF Talk!StoreAnswer, Talk!Goto, Talk!Emit, good
    <2>7. ASSUME Talk!SaveQuestion(x) \/ Talk!FinalAnswer(x) \/ Talk!StreamChunk(x) \/ Talk!StreamEnds(x)
                 \/ \E hit \in BOOLEAN : Talk!Accept(x, hit)
          PROVE  FALSE
      <3>1. x = t
        BY <1>1, <2>7 DEF Talk!SaveQuestion, Talk!FinalAnswer, Talk!StreamChunk, Talk!StreamEnds, Talk!Accept,
                          Talk!Goto
      <3>2. CASE Talk!SaveQuestion(t)
        BY <1>1, <3>2 DEF Talk!SaveQuestion, Talk!Goto, TurnRec
      <3>3. CASE Talk!FinalAnswer(t)
        BY <1>1, <3>3 DEF Talk!FinalAnswer, Talk!Goto, TurnRec
      <3>4. CASE Talk!StreamChunk(t)
        <4>1. turn'[t] = [turn[t] EXCEPT !.parts = Append(@, Len(@) + 1)]
          BY <1>1, <3>4 DEF Talk!StreamChunk
        <4> QED
          BY <1>1, <4>1 DEF TurnRec
      <3>5. CASE Talk!StreamEnds(t)
        <4>1. turn'[t] = [[turn[t] EXCEPT !.at = "answered"] EXCEPT
                            !.broken = turn[t].broken \/ turn[t].parts \notin {<<>>, Talk!Full}]
          BY <1>1, <3>5 DEF Talk!StreamEnds
        <4>2. turn'[t].at = "answered"
          BY <1>1, <4>1 DEF TurnRec
        <4> QED
          BY <4>2
      <3>6. ASSUME NEW hit \in BOOLEAN, Talk!Accept(t, hit) PROVE FALSE
        <4>1. \/ turn'[t] = [turn[t] EXCEPT !.at = "refused"]
              \/ turn'[t] = [[turn[t] EXCEPT !.at = "accepted"] EXCEPT !.cited = hit]
          BY <1>1, <3>6 DEF Talk!Accept, Talk!Goto
        <4>2. turn'[t].at \in {"refused", "accepted"}
          BY <1>1, <4>1 DEF TurnRec
        <4> QED
          BY <4>2
      <3> QED
        BY <2>7, <3>1, <3>2, <3>3, <3>4, <3>5, <3>6
    <2> QED
      BY <2>3, <2>4, <2>5, <2>6, <2>7 DEF Talk!Serve
  <1> QED
    BY <1>1, <1>3, TellsLast

\* A turn of the tool chat never ends without telling the page (assistant_service.chat).
THEOREM ChatTells == Talk!Spec => [][Talk!ToolTurnsEndDone]_(Talk!vars)
  <1>1. Talk!Init => TalkInv
    BY InitTalk
  <1>2. TalkInv /\ [Talk!Next]_(Talk!vars) => TalkInv' /\ [Talk!ToolTurnsEndDone]_(Talk!vars)
    BY TalkStep, TellsStep
  <1> QED
    BY <1>1, <1>2, PTL DEF Talk!Spec
-----------------------------------------------------------------------------
(* The knowledge base *)

DocRec == [text : Texts, status : {"pending", "failed", "embedded", "deleted"}]
UploadRec == [at : {"stored", "embedded", "over"}, vectors : Nat]
\* A document whose request is under way has no chunk and is not embedded; the chunks are
\* otherwise there as a whole.
Shelf ==
    /\ doc \in Seq(DocRec) /\ upload \in Seq(UploadRec) /\ Len(upload) = Len(doc)
    /\ \A r \in chunk : r.doc \in DOMAIN doc
    /\ \A d \in DOMAIN doc : upload[d].at # "over" => doc[d].status # "embedded"
    /\ Base!AllOrNothing

\* A step of one request: the chunks of that document, its status and the request change.
LEMMA ShelfStep ==
    ASSUME Shelf, NEW d \in DOMAIN doc, NEW r \in DocRec, NEW u \in UploadRec,
           doc' = [doc EXCEPT ![d] = r], upload' = [upload EXCEPT ![d] = u], r.text = doc[d].text,
           u.at # "over" => r.status # "embedded",
           \A c : c.doc # d => (c \in chunk' <=> c \in chunk),
           {c.span : c \in {x \in chunk' : x.doc = d}} =
               IF r.status = "embedded" THEN Base!ToSet(Base!SplitText(r.text)) ELSE {}
    PROVE  Shelf'
  <1>1. /\ doc \in Seq(DocRec) /\ upload \in Seq(UploadRec) /\ DOMAIN upload = DOMAIN doc
        /\ d \in 1..Len(doc) /\ Len(upload) = Len(doc)
    BY DEF Shelf
  <1>2. /\ doc' \in Seq(DocRec) /\ upload' \in Seq(UploadRec) /\ Len(upload') = Len(doc')
        /\ DOMAIN doc' = DOMAIN doc /\ doc'[d] = r /\ upload'[d] = u
        /\ \A x \in DOMAIN doc : x # d => doc'[x] = doc[x] /\ upload'[x] = upload[x]
    BY <1>1
  <1>3. \A c \in chunk' : c.doc \in DOMAIN doc'
    BY <1>2 DEF Shelf
  <1>4. \A x \in DOMAIN doc' : upload'[x].at # "over" => doc'[x].status # "embedded"
    BY <1>2 DEF Shelf
  <1>5. Base!AllOrNothing'
    <2> SUFFICES ASSUME NEW x \in DOMAIN doc'
                 PROVE  {c.span : c \in {y \in chunk' : y.doc = x}} =
                            IF doc'[x].status = "embedded" THEN Base!ToSet(Base!SplitText(doc'[x].text)) ELSE {}
      BY DEF Base!AllOrNothing, Base!Docs, Base!Of, Base!ToSet, Base!SplitText
    <2>1. CASE x = d
      BY <1>2, <2>1
    <2>2. CASE x # d
      <3>1. {y \in chunk' : y.doc = x} = {y \in chunk : y.doc = x}
        BY <2>2
      <3>2. x \in DOMAIN doc /\ doc'[x] = doc[x]
        BY <1>2, <2>2
      <3>3. {c.span : c \in {y \in chunk : y.doc = x}} =
                IF doc[x].status = "embedded" THEN Base!ToSet(Base!SplitText(doc[x].text)) ELSE {}
        BY <3>2 DEF Shelf, Base!AllOrNothing, Base!Docs, Base!Of
      <3> QED
        BY <3>1, <3>2, <3>3
    <2> QED
      BY <2>1, <2>2
  <1> QED
    BY <1>2, <1>3, <1>4, <1>5 DEF Shelf

LEMMA ShelfTyped ==
    ASSUME Shelf, NEW d \in DOMAIN doc
    PROVE  /\ doc[d] \in DocRec /\ doc[d].text \in Texts /\ upload[d] \in UploadRec
           /\ doc = [doc EXCEPT ![d] = doc[d]] /\ upload = [upload EXCEPT ![d] = upload[d]]
           /\ \A s \in {"pending", "failed", "embedded", "deleted"} :
                 LET r == [doc[d] EXCEPT !.status = s]
                 IN  r \in DocRec /\ r.text = doc[d].text /\ r.status = s
           /\ LET u == [upload[d] EXCEPT !.at = "over"] IN u \in UploadRec /\ u.at = "over"
  <1>1. /\ doc \in Seq(DocRec) /\ upload \in Seq(UploadRec) /\ d \in DOMAIN upload
    BY DEF Shelf
  <1>2. doc[d] \in DocRec /\ upload[d] \in UploadRec
    BY <1>1
  <1>3. doc = [doc EXCEPT ![d] = doc[d]] /\ upload = [upload EXCEPT ![d] = upload[d]]
    BY <1>1
  <1>4. \A s \in {"pending", "failed", "embedded", "deleted"} :
                 LET r == [doc[d] EXCEPT !.status = s]
                 IN  r \in DocRec /\ r.text = doc[d].text /\ r.status = s
    BY <1>2 DEF DocRec
  <1>5. LET u == [upload[d] EXCEPT !.at = "over"] IN u \in UploadRec /\ u.at = "over"
    BY <1>2 DEF UploadRec
  <1>6. doc[d].text \in Texts
    BY <1>2 DEF DocRec
  <1> QED
    BY <1>2, <1>3, <1>4, <1>5, <1>6

LEMMA ShelfSpans ==
    ASSUME Shelf, NEW d \in DOMAIN doc
    PROVE  /\ {c.span : c \in {x \in chunk : x.doc = d}} =
                  IF doc[d].status = "embedded" THEN Base!ToSet(Base!SplitText(doc[d].text)) ELSE {}
           /\ upload[d].at # "over" => doc[d].status # "embedded" /\ \A c \in chunk : c.doc # d
  <1>1. upload[d].at # "over" => doc[d].status # "embedded"
    BY DEF Shelf
  <1>2. {c.span : c \in {x \in chunk : x.doc = d}} =
                  IF doc[d].status = "embedded" THEN Base!ToSet(Base!SplitText(doc[d].text)) ELSE {}
    BY DEF Shelf, Base!AllOrNothing, Base!Docs, Base!Of
  <1>3. ASSUME doc[d].status # "embedded", NEW c \in chunk, c.doc = d PROVE FALSE
    <2>1. c.span \in {x.span : x \in {y \in chunk : y.doc = d}}
      BY <1>3
    <2> QED
      BY <1>2, <1>3, <2>1
  <1> QED
    BY <1>1, <1>2, <1>3

LEMMA ShelfStatus ==
    ASSUME Shelf, NEW d \in DOMAIN doc, NEW s, Base!SetStatus(d, s)
    PROVE  \E x \in {"deleted", s} : doc' = [doc EXCEPT ![d].status = x]
  <1>1. CASE doc[d].status = "deleted"
    <2>1. doc[d] \in DocRec
      BY ShelfTyped
    <2>2. [doc[d] EXCEPT !.status = "deleted"] = doc[d]
      BY <1>1, <2>1 DEF DocRec
    <2>3. doc = [doc EXCEPT ![d] = doc[d]]
      BY ShelfTyped
    <2>4. doc' = [doc EXCEPT ![d].status = "deleted"]
      BY <1>1, <2>2, <2>3 DEF Base!SetStatus
    <2> QED
      BY <2>4
  <1>2. CASE doc[d].status # "deleted"
    BY <1>2 DEF Base!SetStatus
  <1> QED
    BY <1>1, <1>2

LEMMA UploadStep == ASSUME Shelf, NEW text \in Texts, Base!Upload(text) PROVE Shelf'
  <1> DEFINE r == [text |-> text, status |-> "pending"]
             u == [at |-> "stored", vectors |-> 0]
  <1>0. PICK n \in Nat : n = Len(doc)
    BY DEF Shelf
  <1>1. chunk' = chunk /\ doc' = Append(doc, r) /\ upload' = Append(upload, u)
    BY DEF Base!Upload
  <1>2. r \in DocRec /\ r.status = "pending" /\ u \in UploadRec
    BY DEF DocRec, UploadRec
  <1> HIDE DEF r, u
  <1>3. /\ doc \in Seq(DocRec) /\ upload \in Seq(UploadRec) /\ Len(upload) = n /\ DOMAIN doc = 1..n
    BY <1>0 DEF Shelf
  <1>4. /\ doc' \in Seq(DocRec) /\ upload' \in Seq(UploadRec) /\ Len(upload') = Len(doc')
        /\ DOMAIN doc' = 1..n + 1 /\ doc'[n + 1] = r
        /\ \A x \in DOMAIN doc : x \in DOMAIN doc' /\ doc'[x] = doc[x] /\ upload'[x] = upload[x]
    BY <1>0, <1>1, <1>2, <1>3
  <1>5. \A x \in DOMAIN doc' : x \in DOMAIN doc \/ x = n + 1
    BY <1>3, <1>4
  <1>6. \A c \in chunk' : c.doc \in DOMAIN doc'
    BY <1>1, <1>4 DEF Shelf
  <1>7. \A x \in DOMAIN doc' : upload'[x].at # "over" => doc'[x].status # "embedded"
    BY <1>2, <1>4, <1>5 DEF Shelf
  <1>8. Base!AllOrNothing'
    <2> SUFFICES ASSUME NEW x \in DOMAIN doc'
                 PROVE  {c.span : c \in {y \in chunk : y.doc = x}} =
                            IF doc'[x].status = "embedded" THEN Base!ToSet(Base!SplitText(doc'[x].text)) ELSE {}
      BY <1>1 DEF Base!AllOrNothing, Base!Docs, Base!Of, Base!ToSet, Base!SplitText
    <2>1. CASE x \in DOMAIN doc
      <3>1. doc'[x] = doc[x]
        BY <1>4, <2>1
      <3> QED
        BY <2>1, <3>1, ShelfSpans
    <2>2. CASE x = n + 1
      <3>1. x \notin DOMAIN doc /\ doc'[x].status # "embedded"
        BY <1>2, <1>3, <1>4, <2>2
      <3>2. {y \in chunk : y.doc = x} = {}
        BY <3>1 DEF Shelf
      <3> QED
        BY <3>1, <3>2
    <2> QED
      BY <1>5, <2>1, <2>2
  <1> QED
    BY <1>4, <1>6, <1>7, <1>8 DEF Shelf

\* A request that stores nothing: the document keeps its status or, under way, gets one.
LEMMA NothingStored ==
    ASSUME Shelf, NEW d \in DOMAIN doc, upload[d].at # "over", NEW u \in UploadRec,
           NEW s \in {"pending", "failed", "embedded", "deleted"},
           upload' = [upload EXCEPT ![d] = u], chunk' = chunk,
           doc' = [doc EXCEPT ![d].status = s],
           s = "embedded" => u.at = "over" /\ Base!SplitText(doc[d].text) = <<>>
    PROVE  Shelf'
  <1> DEFINE r == [doc[d] EXCEPT !.status = s]
  <1>1. r \in DocRec /\ r.text = doc[d].text /\ r.status = s
    BY ShelfTyped
  <1>2. doc' = [doc EXCEPT ![d] = r]
    OBVIOUS
  <1> HIDE DEF r
  <1>3. {x \in chunk' : x.doc = d} = {}
    BY ShelfSpans
  <1>4. {c.span : c \in {x \in chunk' : x.doc = d}} =
               IF r.status = "embedded" THEN Base!ToSet(Base!SplitText(r.text)) ELSE {}
    <2>1. Base!ToSet(<<>>) = {}
      BY DEF Base!ToSet
    <2> QED
      BY <1>1, <1>3, <2>1
  <1> QED
    BY <1>1, <1>2, <1>4, ShelfStep

LEMMA Unstored ==
    ASSUME Shelf, NEW d \in DOMAIN doc, upload[d].at # "over", NEW u \in UploadRec,
           upload' = [upload EXCEPT ![d] = u], chunk' = chunk, doc' = doc
    PROVE  Shelf'
  <1>1. /\ doc[d] \in DocRec /\ doc' = [doc EXCEPT ![d] = doc[d]] /\ doc[d].status # "embedded"
        /\ {c.span : c \in {x \in chunk' : x.doc = d}} =
               IF doc[d].status = "embedded" THEN Base!ToSet(Base!SplitText(doc[d].text)) ELSE {}
    BY ShelfTyped, ShelfSpans
  <1> QED
    BY <1>1, ShelfStep

LEMMA StoreStep == ASSUME Shelf, NEW d \in DOMAIN doc, Base!Store(d) PROVE Shelf'
  <1> DEFINE u == [upload[d] EXCEPT !.at = "over"]
             spans == Base!SplitText(doc[d].text)
  <1>1. upload[d].at = "embedded" /\ u \in UploadRec /\ u.at = "over" /\ upload' = [upload EXCEPT ![d] = u]
    BY ShelfTyped DEF Base!Store
  <1> HIDE DEF u
  <1>2. CASE doc[d].status = "deleted"
    <2>1. chunk' = chunk /\ doc' = doc
      BY <1>2 DEF Base!Store
    <2>2. {c.span : c \in {x \in chunk' : x.doc = d}} =
               IF doc[d].status = "embedded" THEN Base!ToSet(Base!SplitText(doc[d].text)) ELSE {}
      BY <2>1, ShelfSpans
    <2>3. doc[d] \in DocRec /\ doc' = [doc EXCEPT ![d] = doc[d]]
      BY <2>1, ShelfTyped
    <2> QED
      BY <1>1, <1>2, <2>1, <2>2, <2>3, ShelfStep
  <1>3. CASE doc[d].status # "deleted"
    <2> DEFINE r == [doc[d] EXCEPT !.status = "embedded"]
               rows == Base!ChunkRows(d, upload[d].vectors)
    <2>1. chunk' = chunk \cup rows /\ doc' = [doc EXCEPT ![d] = r]
      BY <1>3 DEF Base!Store, Base!SetStatus
    <2>2. r \in DocRec /\ r.text = doc[d].text /\ r.status = "embedded"
      BY ShelfTyped
    <2> HIDE DEF r
    <2>3. (\A c \in rows : c.doc = d) /\ {c.span : c \in rows} = Base!ToSet(spans)
      <3> DEFINE row(i) == [doc |-> d, index |-> i, span |-> spans[i], vector |-> i <= upload[d].vectors]
      <3>1. \A i : row(i).doc = d /\ row(i).span = spans[i]
        OBVIOUS
      <3>2. rows = {row(i) : i \in DOMAIN spans}
        BY DEF Base!ChunkRows
      <3> HIDE DEF row, rows, spans
      <3>3. /\ \A c \in rows : c.doc = d /\ \E i \in DOMAIN spans : c.span = spans[i]
            /\ \A i \in DOMAIN spans : \E c \in rows : c.span = spans[i]
        BY <3>1, <3>2
      <3>4. {c.span : c \in rows} = {spans[i] : i \in DOMAIN spans}
        BY <3>3
      <3> QED
        BY <3>3, <3>4 DEF Base!ToSet, spans
    <2> HIDE DEF rows
    <2>4. {x \in chunk' : x.doc = d} = rows
      <3>1. \A c \in chunk : c.doc # d
        BY <1>1, ShelfSpans
      <3> QED
        BY <2>1, <2>3, <3>1
    <2>5. {c.span : c \in {x \in chunk' : x.doc = d}} =
               IF r.status = "embedded" THEN Base!ToSet(Base!SplitText(r.text)) ELSE {}
      BY <2>2, <2>3, <2>4
    <2>6. \A c : c.doc # d => (c \in chunk' <=> c \in chunk)
      BY <2>1, <2>3
    <2> QED
      BY <1>1, <2>1, <2>2, <2>5, <2>6, ShelfStep
  <1> QED
    BY <1>2, <1>3

LEMMA DeleteDocStep == ASSUME Shelf, NEW d \in DOMAIN doc, Base!DeleteDoc(d) PROVE Shelf'
  <1> DEFINE r == [doc[d] EXCEPT !.status = "deleted"]
  <1>1. chunk' = {c \in chunk : c.doc # d} /\ doc' = [doc EXCEPT ![d] = r] /\ upload' = upload
    BY DEF Base!DeleteDoc
  <1>2. r \in DocRec /\ r.text = doc[d].text /\ r.status = "deleted"
    BY ShelfTyped
  <1> HIDE DEF r
  <1>3. upload[d] \in UploadRec /\ upload' = [upload EXCEPT ![d] = upload[d]]
    BY <1>1, ShelfTyped
  <1>4. {x \in chunk' : x.doc = d} = {} /\ \A c : c.doc # d => (c \in chunk' <=> c \in chunk)
    BY <1>1
  <1>5. {c.span : c \in {x \in chunk' : x.doc = d}} =
               IF r.status = "embedded" THEN Base!ToSet(Base!SplitText(r.text)) ELSE {}
    BY <1>2, <1>4
  <1> QED
    BY <1>1, <1>2, <1>3, <1>4, <1>5, ShelfStep

LEMMA ShelfKept == ASSUME Shelf, [Base!Next]_(Base!vars) PROVE Shelf'
  <1>1. ASSUME doc' = doc, chunk' = chunk, upload' = upload PROVE Shelf'
    <2>1. Base!AllOrNothing'
      <3> SUFFICES ASSUME NEW x \in DOMAIN doc'
                   PROVE  {c.span : c \in {y \in chunk' : y.doc = x}} =
                             IF doc'[x].status = "embedded" THEN Base!ToSet(Base!SplitText(doc'[x].text)) ELSE {}
        BY DEF Base!AllOrNothing, Base!Docs, Base!Of, Base!ToSet, Base!SplitText
      <3> QED
        BY <1>1, ShelfSpans
    <2> QED
      BY <1>1, <2>1 DEF Shelf
  <1>2. ASSUME NEW text \in Texts, Base!Upload(text) PROVE Shelf'
    BY <1>2, UploadStep
  <1>3. ASSUME NEW d \in DOMAIN doc, Base!EmbedNothing(d) PROVE Shelf'
    <2>1. PICK s \in {"deleted", "embedded"} : doc' = [doc EXCEPT ![d].status = s]
      BY <1>3, ShelfStatus DEF Base!EmbedNothing
    <2> QED
      BY <1>3, <2>1, ShelfTyped, NothingStored DEF Base!EmbedNothing
  <1>4. ASSUME NEW d \in DOMAIN doc, Base!EmbedFails(d) PROVE Shelf'
    <2>1. PICK s \in {"deleted", "failed"} : doc' = [doc EXCEPT ![d].status = s]
      BY <1>4, ShelfStatus DEF Base!EmbedFails
    <2> QED
      BY <1>4, <2>1, ShelfTyped, NothingStored DEF Base!EmbedFails
  <1>5. ASSUME NEW d \in DOMAIN doc, Base!CutOff(d) PROVE Shelf'
    BY <1>5, ShelfTyped, Unstored DEF Base!CutOff
  <1>6. ASSUME NEW d \in DOMAIN doc, NEW n \in 0..Len(Base!SplitText(doc[d].text)), Base!Embed(d, n) PROVE Shelf'
    <2>1. n \in Nat
      OBVIOUS
    <2>2. [at |-> "embedded", vectors |-> n] \in UploadRec
      BY <2>1 DEF UploadRec
    <2> QED
      BY <1>6, <2>2, Unstored DEF Base!Embed
  <1>7. ASSUME NEW d \in DOMAIN doc, Base!Store(d) PROVE Shelf'
    BY <1>7, StoreStep
  <1>8. ASSUME NEW d \in DOMAIN doc, Base!DeleteDoc(d) PROVE Shelf'
    BY <1>8, DeleteDocStep
  <1>9. ASSUME NEW hits, Base!Search(hits) PROVE Shelf'
    BY <1>1, <1>9 DEF Base!Search
  <1> QED
    BY <1>1, <1>2, <1>3, <1>4, <1>5, <1>6, <1>7, <1>8, <1>9 DEF Base!Next, Base!vars, Base!Docs

\* A document is stored with all of its chunks or with none, however the two
\* transactions of a request mix with deletions and failures (knowledge_service.ingest_doc).
THEOREM DocumentsWhole == Base!Spec => []Base!AllOrNothing
  <1>1. Base!Init => Shelf
    BY DEF Base!Init, Shelf, Base!AllOrNothing, Base!Docs
  <1>2. Shelf /\ [Base!Next]_(Base!vars) => Shelf'
    BY ShelfKept
  <1>3. Shelf => Base!AllOrNothing
    BY DEF Shelf
  <1> QED
    BY <1>1, <1>2, <1>3, PTL DEF Base!Spec

-----------------------------------------------------------------------------
(* Splitting a text *)

\* The window that position x is in, its first character being number lo: the next
\* character is in it too.
LEMMA Windows ==
    ASSUME NEW step \in Nat, step > 0, NEW n \in Nat, NEW x \in 1..n
    PROVE  \E k \in 1..(n + step - 1) \div step :
               (k - 1) * step + 1 <= x /\ x <= (k - 1) * step + step
  <1> DEFINE q == (x - 1) \div step
             m == (n + step - 1) \div step
  <1>1. x - 1 \in Nat /\ n + step - 1 \in Nat
    OBVIOUS
  <1>2. q \in Nat /\ step * q <= x - 1 /\ x - 1 < step * q + step
    BY <1>1, Division
  <1>3. m \in Nat /\ n + step - 1 < step * m + step
    BY <1>1, Division
  <1> HIDE DEF q, m
  <1>4. q < m
    <2> SUFFICES ASSUME m <= q PROVE FALSE
      BY <1>2, <1>3
    <2>1. step * m <= step * q /\ step * q \in Nat /\ step * m \in Nat
      <3>1. CASE m = q
        BY <1>2, <3>1
      <3>2. CASE m < q
        <4>1. step * m + step <= step * q /\ step * m \in Nat
          BY <1>2, <1>3, <3>2, MoreOften
        <4>2. step * q \in Nat
          BY <1>2
        <4> QED
          BY <4>1, <4>2
      <3> QED
        BY <1>2, <1>3, <3>1, <3>2
    <2> QED
      BY <1>2, <1>3, <2>1
  <1>5. q + 1 \in 1..m /\ ((q + 1) - 1) * step = step * q /\ step * q \in Nat
    <2>1. (q + 1) - 1 = q
      BY <1>2
    <2>2. q * step = step * q /\ step * q \in Nat
      BY <1>2
    <2> QED
      BY <1>2, <1>3, <1>4, <2>1, <2>2
  <1>6. ((q + 1) - 1) * step + 1 <= x /\ x <= ((q + 1) - 1) * step + step
    BY <1>2, <1>5
  <1> DEFINE k == q + 1
  <1>7. k \in 1..m /\ (k - 1) * step + 1 <= x /\ x <= (k - 1) * step + step
    BY <1>5, <1>6
  <1> HIDE DEF k
  <1> QED
    BY <1>7 DEF m

Span == [line : Nat, lo : Int, hi : Int]
\* One of the spans holds the characters x to y of line i.
Holds(S, i, x, y) == \E p \in S : p.line = i /\ p.lo <= x /\ y <= p.hi
\* All of the n characters of line i are in spans, and neighbours in one.
Covers(S, i, n) == \A x \in 1..n : Holds(S, i, x, x) /\ (x < n => Holds(S, i, x, x + 1))

LEMMA LineCovered ==
    ASSUME NEW i \in Nat, NEW n \in Nat, n > 0
    PROVE  Base!SplitLine(i, n) \in Seq(Span) /\ Covers(Base!ToSet(Base!SplitLine(i, n)), i, n)
  <1> DEFINE line == Base!SplitLine(i, n)
             step == ChunkSize - Overlap
  <1>1. /\ ChunkSize \in Nat /\ Overlap \in Nat /\ step \in Nat /\ step > 0 /\ step + 1 <= ChunkSize
    BY KnowledgeAssumption DEF Base!Parameters
  <1>2. CASE n <= ChunkSize
    <2> DEFINE p == [line |-> i, lo |-> 1, hi |-> n]
    <2>1. line = <<p>>
      BY <1>2 DEF Base!SplitLine
    <2>2. p \in Span /\ p.line = i /\ p.lo = 1 /\ p.hi = n
      BY DEF Span
    <2> HIDE DEF p, line
    <2>3. line \in Seq(Span) /\ p \in Base!ToSet(line)
      <3>1. 1 \in DOMAIN line /\ line[1] = p
        BY <2>1
      <3> QED
        BY <2>1, <2>2, <3>1 DEF Base!ToSet
    <2>4. Covers(Base!ToSet(line), i, n)
      <3> SUFFICES ASSUME NEW x \in 1..n
                   PROVE  Holds(Base!ToSet(line), i, x, x) /\ (x < n => Holds(Base!ToSet(line), i, x, x + 1))
        BY DEF Covers
      <3>1. p.lo <= x /\ x <= p.hi /\ (x < n => x + 1 <= p.hi)
        BY <2>2
      <3> QED
        BY <2>2, <2>3, <3>1 DEF Holds
    <2> QED
      BY <2>3, <2>4 DEF line
  <1>3. CASE n > ChunkSize
    <2> DEFINE m == (n + step - 1) \div step
               p(k) == [line |-> i, lo |-> (k - 1) * step + 1,
                        hi |-> Base!Min({n, (k - 1) * step + ChunkSize})]
    <2>1. line = [k \in 1..m |-> p(k)]
      BY <1>1, <1>3 DEF Base!SplitLine
    <2>2. m \in Nat
      <3>1. n + step - 1 \in Nat
        BY <1>1
      <3> HIDE DEF step
      <3> QED
        BY <1>1, <3>1, Division
    <2>3. ASSUME NEW k \in 1..m
          PROVE  LET a == (k - 1) * step
                 IN  /\ a \in Int /\ p(k) \in Span /\ p(k).line = i /\ p(k).lo = a + 1
                     /\ \A y \in Int : y <= n /\ y <= a + ChunkSize => y <= p(k).hi
      <3> DEFINE a == (k - 1) * step
                 h == Base!Min({n, a + ChunkSize})
      <3>1. a \in Int
        <4> HIDE DEF m, step
        <4> QED
          BY <1>1, <2>2
      <3>2. p(k) = [line |-> i, lo |-> a + 1, hi |-> h]
        OBVIOUS
      <3> HIDE DEF a, p
      <3>3. h \in {n, a + ChunkSize}
        <4>1. \E v \in {n, a + ChunkSize} : \A y \in {n, a + ChunkSize} : v =< y
          <5>1. CASE n <= a + ChunkSize
            BY <1>1, <3>1, <5>1
          <5>2. CASE a + ChunkSize <= n
            BY <1>1, <3>1, <5>2
          <5> QED
            BY <1>1, <3>1, <5>1, <5>2
        <4> QED
          BY <4>1 DEF Base!Min
      <3> HIDE DEF h
      <3>4. h \in Int /\ \A y \in Int : y <= n /\ y <= a + ChunkSize => y <= h
        BY <1>1, <3>1, <3>3
      <3>5. p(k) \in Span /\ p(k).line = i /\ p(k).lo = a + 1 /\ p(k).hi = h
        BY <3>1, <3>2, <3>4 DEF Span
      <3> QED
        BY <3>1, <3>4, <3>5 DEF a
    <2> HIDE DEF p, line
    <2>4. line \in Seq(Span)
      <3>1. line \in [1..m -> Span]
        <4> HIDE DEF m
        <4> QED
          BY <2>1, <2>3
      <3> HIDE DEF m
      <3> QED
        BY <2>2, <3>1
    <2>5. Covers(Base!ToSet(line), i, n)
      <3> SUFFICES ASSUME NEW x \in 1..n
                   PROVE  Holds(Base!ToSet(line), i, x, x) /\ (x < n => Holds(Base!ToSet(line), i, x, x + 1))
        BY DEF Covers
      <3> HIDE DEF step
      <3>1. PICK k \in 1..m : (k - 1) * step + 1 <= x /\ x <= (k - 1) * step + step
        BY <1>1, Windows
      <3> DEFINE a == (k - 1) * step
      <3>2. /\ a \in Int /\ p(k) \in Span /\ p(k).line = i /\ p(k).lo = a + 1
            /\ \A y \in Int : y <= n /\ y <= a + ChunkSize => y <= p(k).hi
        BY <2>3
      <3>3. a + 1 <= x /\ x <= a + step
        BY <3>1
      <3> HIDE DEF a
      <3>4. x + 1 <= a + ChunkSize /\ x <= a + ChunkSize
        BY <1>1, <3>2, <3>3
      <3>5. p(k).lo <= x /\ x <= p(k).hi /\ (x < n => x + 1 <= p(k).hi)
        BY <3>2, <3>3, <3>4
      <3>6. p(k) \in Base!ToSet(line)
        <4> HIDE DEF m
        <4>1. k \in DOMAIN line /\ line[k] = p(k)
          BY <2>1
        <4> QED
          BY <4>1 DEF Base!ToSet
      <3> QED
        BY <3>2, <3>5, <3>6 DEF Holds
    <2> QED
      BY <2>4, <2>5 DEF line
  <1> QED
    BY <1>1, <1>2, <1>3

\* The spans of each line of a text.
Pieces(text) == [j \in DOMAIN text |-> IF text[j] = 0 THEN <<>> ELSE Base!SplitLine(j, text[j])]

LEMMA TextSplit ==
    ASSUME NEW text \in Texts
    PROVE  /\ Base!SplitText(text) = Joined(Pieces(text)) /\ Pieces(text) \in Seq(Seq(Span))
           /\ Base!SplitText(text) \in Seq(Span)
           /\ \A k \in DOMAIN Base!SplitText(text) : k > 0 /\ Base!SplitText(text)[k] \in Span
  <1> DEFINE pieces == Pieces(text)
  <1>1. text \in Seq(Nat)
    BY KnowledgeAssumption DEF Base!Parameters
  <1>2. Base!SplitText(text) = Joined(pieces)
    BY DEF Base!SplitText, Base!Joined, Joined, Pieces
  <1>3. ASSUME NEW j \in DOMAIN text PROVE pieces[j] \in Seq(Span)
    <2>1. j \in Nat /\ text[j] \in Nat
      BY <1>1
    <2>2. CASE text[j] = 0
      BY <2>2 DEF Pieces
    <2>3. CASE text[j] # 0
      <3>1. Base!SplitLine(j, text[j]) \in Seq(Span)
        BY <2>1, <2>3, LineCovered
      <3> QED
        BY <2>3, <3>1 DEF Pieces
    <2> QED
      BY <2>1, <2>2, <2>3
  <1>4. pieces \in Seq(Seq(Span))
    <2>1. DOMAIN text = 1..Len(text) /\ Len(text) \in Nat
      BY <1>1
    <2>2. pieces \in [1..Len(text) -> Seq(Span)]
      BY <1>3, <2>1 DEF Pieces
    <2> HIDE DEF pieces
    <2> QED
      BY <2>1, <2>2
  <1>5. PICK q : q = Base!SplitText(text)
    OBVIOUS
  <1>6. q \in Seq(Span)
    BY <1>2, <1>4, <1>5, JoinedFacts
  <1>7. \A k \in DOMAIN q : k > 0 /\ q[k] \in Span
    BY <1>6
  <1> QED
    BY <1>2, <1>4, <1>5, <1>6, <1>7

LEMMA TextCovered ==
    ASSUME NEW text \in Texts, NEW i \in DOMAIN text
    PROVE  Covers(Base!ToSet(Base!SplitText(text)), i, text[i])
  <1> DEFINE pieces == Pieces(text)
  <1>1. text \in Seq(Nat)
    BY KnowledgeAssumption DEF Base!Parameters
  <1>2. Base!SplitText(text) = Joined(pieces) /\ pieces \in Seq(Seq(Span))
    BY TextSplit
  <1>3. DOMAIN pieces = DOMAIN text
    BY DEF Pieces
  <1>4. CASE text[i] = 0
    BY <1>4 DEF Covers
  <1>5. CASE text[i] # 0
    <2> DEFINE q == Joined(pieces)
               l == Base!SplitLine(i, text[i])
    <2>1. i \in Nat /\ text[i] \in Nat
      BY <1>1
    <2>2. Covers(Base!ToSet(l), i, text[i])
      BY <1>5, <2>1, LineCovered
    <2>3. pieces[i] = l
      BY <1>5 DEF Pieces
    <2> HIDE DEF pieces
    <2>4. \A k \in DOMAIN pieces[i] : \E j \in DOMAIN Joined(pieces) : Joined(pieces)[j] = pieces[i][k]
      BY <1>2, <1>3, JoinedFacts
    <2> HIDE DEF q, l
    <2>5. Base!ToSet(l) \subseteq Base!ToSet(q)
      <3>1. \A k \in DOMAIN l : \E j \in DOMAIN q : q[j] = l[k]
        BY <2>3, <2>4 DEF q
      <3> QED
        BY <3>1 DEF Base!ToSet
    <2>6. Covers(Base!ToSet(q), i, text[i])
      BY <2>2, <2>5 DEF Covers, Holds
    <2> QED
      BY <1>2, <2>6 DEF q
  <1> QED
    BY <1>4, <1>5

-----------------------------------------------------------------------------
(* Sources *)

LEMMA SourcesAreOnce ==
    ASSUME NEW h, NEW n \in Nat, DOMAIN h = 1..n
    PROVE  /\ Base!ToSet(Base!Sources(h)) = {h[i].doc : i \in DOMAIN h}
           /\ Base!IsInjective(Base!Sources(h))
  <1> DEFINE ids == [i \in DOMAIN h |-> i]
             new == {i \in DOMAIN h : \A j \in 1..i - 1 : h[j].doc # h[i].doc}
             first == Those(ids, new)
             src == [k \in DOMAIN first |-> h[first[k]].doc]
  <1>1. Base!Sources(h) = src
    BY DEF Base!Sources, Base!Those, Those
  <1>2. ids \in Seq(Nat) /\ DOMAIN ids = 1..n /\ (\A i \in 1..n : ids[i] = i) /\ Distinct(ids)
    <2>1. DOMAIN ids = 1..n /\ \A i \in 1..n : ids[i] = i
      OBVIOUS
    <2>2. ids \in [1..n -> Nat]
      OBVIOUS
    <2> HIDE DEF ids
    <2> QED
      BY <2>1, <2>2 DEF Distinct
  <1>3. new \subseteq 1..n
    OBVIOUS
  <1>4. ASSUME NEW i \in 1..n PROVE \E j \in new : h[j].doc = h[i].doc
    <2> DEFINE J == {j \in 1..n : h[j].doc = h[i].doc}
    <2>1. J \in SUBSET Nat /\ J # {}
      OBVIOUS
    <2>2. PICK j \in J : \A m \in J : j <= m
      <3> HIDE DEF J
      <3> QED
        BY <2>1, Least
    <2>3. ASSUME NEW m \in 1..j - 1 PROVE h[m].doc # h[j].doc
      <3>1. m \in 1..n /\ ~(j <= m)
        OBVIOUS
      <3> QED
        BY <2>2, <3>1
    <2> QED
      BY <2>2, <2>3
  <1>5. ASSUME NEW i \in new, NEW j \in new, h[i].doc = h[j].doc PROVE i = j
    <2>1. i \in 1..n /\ j \in 1..n
      OBVIOUS
    <2>2. ~(i < j)
      <3> SUFFICES ASSUME i < j PROVE FALSE
        OBVIOUS
      <3>1. i \in 1..j - 1
        BY <2>1
      <3> QED
        BY <1>5, <3>1
    <2>3. ~(j < i)
      <3> SUFFICES ASSUME j < i PROVE FALSE
        OBVIOUS
      <3>1. j \in 1..i - 1
        BY <2>1
      <3> QED
        BY <1>5, <3>1
    <2> QED
      BY <2>1, <2>2, <2>3
  <1> HIDE DEF ids, new
  <1>6. /\ \A k \in DOMAIN first : first[k] \in new
        /\ \A i \in 1..n : ids[i] \in new => \E k \in DOMAIN first : first[k] = ids[i]
        /\ Distinct(first)
    <2>1. /\ \A k \in DOMAIN first : first[k] \in new
          /\ \A i \in DOMAIN ids : ids[i] \in new => \E k \in DOMAIN first : first[k] = ids[i]
          /\ Distinct(ids) => Distinct(first)
      BY <1>2, ThoseFacts
    <2> HIDE DEF first
    <2> QED
      BY <1>2, <2>1
  <1>7. \A i \in new : \E k \in DOMAIN first : first[k] = i
    BY <1>2, <1>3, <1>6
  <1> HIDE DEF first
  <1>8. DOMAIN src = DOMAIN first /\ \A k \in DOMAIN first : src[k] = h[first[k]].doc
    OBVIOUS
  <1> HIDE DEF src
  <1>9. Base!ToSet(src) = {h[i].doc : i \in DOMAIN h}
    <2>1. ASSUME NEW k \in DOMAIN src PROVE \E i \in DOMAIN h : src[k] = h[i].doc
      BY <1>3, <1>6, <1>8
    <2>2. ASSUME NEW i \in DOMAIN h PROVE \E k \in DOMAIN src : src[k] = h[i].doc
      <3>1. PICK j \in new : h[j].doc = h[i].doc
        BY <1>4
      <3>2. PICK k \in DOMAIN first : first[k] = j
        BY <1>7
      <3> QED
        BY <1>8, <3>1, <3>2
    <2> QED
      BY <2>1, <2>2 DEF Base!ToSet
  <1>10. Base!IsInjective(src)
    <2> SUFFICES ASSUME NEW a \in DOMAIN src, NEW b \in DOMAIN src, src[a] = src[b] PROVE a = b
      BY DEF Base!IsInjective
    <2>1. first[a] = first[b]
      BY <1>5, <1>6, <1>8
    <2> QED
      BY <1>6, <1>8, <2>1 DEF Distinct
  <1> QED
    BY <1>1, <1>9, <1>10

-----------------------------------------------------------------------------
(* The knowledge base as a whole *)

\* What Shelf leaves out: chunks are numbered, and the hits of a search are a sequence.
Reading ==
    /\ \A r \in chunk : r.index > 0
    /\ \E n \in Nat : DOMAIN found = 1..n

LEMMA ReadingKept == ASSUME Shelf, Reading, [Base!Next]_(Base!vars) PROVE Reading'
  <1>1. PICK n \in Nat : DOMAIN found = 1..n
    BY DEF Reading
  <1>2. ASSUME found' = found, \A r \in chunk' : r \in chunk \/ r.index > 0 PROVE Reading'
    BY <1>1, <1>2 DEF Reading
  <1>3. ASSUME NEW text, Base!Upload(text) PROVE Reading'
    BY <1>2, <1>3 DEF Base!Upload
  <1>4. ASSUME NEW d \in DOMAIN doc,
               Base!EmbedNothing(d) \/ Base!EmbedFails(d) \/ Base!CutOff(d) \/ Base!DeleteDoc(d)
        PROVE  Reading'
    BY <1>2, <1>4 DEF Base!EmbedNothing, Base!EmbedFails, Base!CutOff, Base!DeleteDoc
  <1>5. ASSUME NEW d \in DOMAIN doc, NEW v, Base!Embed(d, v) PROVE Reading'
    BY <1>2, <1>5 DEF Base!Embed
  <1>6. ASSUME NEW d \in DOMAIN doc, Base!Store(d) PROVE Reading'
    <2> DEFINE spans == Base!SplitText(doc[d].text)
               row(i) == [doc |-> d, index |-> i, span |-> spans[i], vector |-> i <= upload[d].vectors]
    <2>1. Base!ChunkRows(d, upload[d].vectors) = {row(i) : i \in DOMAIN spans}
      BY DEF Base!ChunkRows
    <2>2. doc[d].text \in Texts
      BY ShelfTyped
    <2>3. \A i \in DOMAIN spans : i > 0
      BY <2>2, TextSplit
    <2>4. \A i : row(i).index = i
      OBVIOUS
    <2> HIDE DEF row, spans
    <2>5. \A r \in Base!ChunkRows(d, upload[d].vectors) : r.index > 0
      BY <2>1, <2>3, <2>4
    <2>6. found' = found /\ \A r \in chunk' : r \in chunk \/ r \in Base!ChunkRows(d, upload[d].vectors)
      BY <1>6 DEF Base!Store
    <2> QED
      BY <1>2, <2>5, <2>6
  <1>7. ASSUME NEW hits \in Base!Orders(chunk), Base!Search(hits) PROVE Reading'
    <2>1. \E m \in Nat : DOMAIN hits = 1..m
      <3>1. PICK m \in 1..TopK : hits \in [1..m -> chunk]
        BY DEF Base!Orders
      <3>2. TopK \in Nat
        BY KnowledgeAssumption DEF Base!Parameters
      <3> QED
        BY <3>1, <3>2
    <2>2. found' = hits /\ chunk' = chunk
      BY <1>7 DEF Base!Search
    <2> QED
      BY <2>1, <2>2 DEF Reading
  <1>8. CASE UNCHANGED Base!vars
    BY <1>2, <1>8 DEF Base!vars
  <1> QED
    BY <1>3, <1>4, <1>5, <1>6, <1>7, <1>8 DEF Base!Next, Base!Docs

LEMMA ShelfMeans == ASSUME Shelf, Reading PROVE Base!KnowledgeSound
  <1>1. Base!TypeOK
    <2>1. \A d \in DOMAIN doc : doc[d].status \in {"pending", "failed", "embedded", "deleted"}
      BY ShelfTyped DEF DocRec
    <2> QED
      BY <2>1 DEF Shelf, Reading, Base!TypeOK, Base!Docs
  <1>2. Base!NothingLost
    <2> SUFFICES ASSUME NEW d \in DOMAIN doc, doc[d].status = "embedded",
                        NEW i \in DOMAIN doc[d].text, NEW x \in 1..doc[d].text[i]
                 PROVE  /\ \E r \in Base!Of(d) : r.span.line = i /\ x \in r.span.lo..r.span.hi
                        /\ x < doc[d].text[i] =>
                               \E r \in Base!Of(d) : r.span.line = i /\ {x, x + 1} \subseteq r.span.lo..r.span.hi
      BY DEF Base!NothingLost, Base!Docs
    <2> DEFINE S == Base!ToSet(Base!SplitText(doc[d].text))
               n == doc[d].text[i]
    <2>1. doc[d].text \in Texts
      BY ShelfTyped
    <2>2. Covers(S, i, n) /\ S \subseteq Span /\ x \in Int
      <3>1. Covers(S, i, n)
        BY <2>1, TextCovered
      <3>2. S \subseteq Span
        BY <2>1, TextSplit DEF Base!ToSet
      <3> QED
        BY <3>1, <3>2
    <2>3. {r.span : r \in Base!Of(d)} = S
      BY DEF Shelf, Base!AllOrNothing, Base!Docs
    <2> HIDE DEF S
    <2>4. \A p \in S : \E r \in Base!Of(d) : r.span = p
      BY <2>3
    <2>5. PICK p \in S : p.line = i /\ p.lo <= x /\ x <= p.hi
      BY <2>2 DEF Covers, Holds
    <2>6. \E r \in Base!Of(d) : r.span.line = i /\ x \in r.span.lo..r.span.hi
      <3>1. p.lo \in Int /\ p.hi \in Int
        BY <2>2 DEF Span
      <3>2. x \in p.lo..p.hi
        BY <2>2, <2>5, <3>1
      <3> QED
        BY <2>4, <2>5, <3>2
    <2>7. ASSUME x < n
          PROVE  \E r \in Base!Of(d) : r.span.line = i /\ {x, x + 1} \subseteq r.span.lo..r.span.hi
      <3>1. PICK w \in S : w.line = i /\ w.lo <= x /\ x + 1 <= w.hi
        BY <2>2, <2>7 DEF Covers, Holds
      <3>2. w.lo \in Int /\ w.hi \in Int
        BY <2>2 DEF Span
      <3>3. {x, x + 1} \subseteq w.lo..w.hi
        BY <2>2, <3>1, <3>2
      <3> QED
        BY <2>4, <3>1, <3>3
    <2> QED
      BY <2>6, <2>7
  <1>3. Base!SourcesOnce
    BY SourcesAreOnce DEF Reading, Base!SourcesOnce
  <1> QED
    BY <1>1, <1>2, <1>3 DEF Shelf, Base!KnowledgeSound

\* The knowledge base stores documents with all of their chunks or none, loses no character of a text
\* between chunks and names each source once (knowledge_service: ingest_doc, split_text,
\* delete_doc, search and _dedupe_sources).
THEOREM KnowledgeHolds == Spec => []KnowledgeSound
  <1> DEFINE Inv == focus = "knowledge" => Shelf /\ Reading
  <1>1. Init => Inv
    <2>1. Base!Init => Shelf /\ Reading
      <3>1. Base!Init => DOMAIN found = 1..0
        BY DEF Base!Init
      <3>2. 0 \in Nat
        OBVIOUS
      <3> QED
        BY <3>1, <3>2 DEF Base!Init, Shelf, Reading, Base!AllOrNothing, Base!Docs
    <2> QED
      BY <2>1 DEF Init
  <1>2. Inv /\ [Next]_vars => Inv'
    <2> SUFFICES ASSUME focus = "knowledge" => Shelf /\ Reading, [Next]_vars, focus' = "knowledge"
                 PROVE  Shelf' /\ Reading'
      OBVIOUS
    <2>1. focus = "knowledge" /\ [Base!Next]_(Base!vars)
      BY DEF Next, vars, baseVars, Base!vars
    <2> QED
      BY <2>1, ShelfKept, ReadingKept
  <1>3. Inv => KnowledgeSound
    BY ShelfMeans DEF KnowledgeSound
  <1> QED
    BY <1>1, <1>2, <1>3, PTL DEF Spec

=============================================================================
