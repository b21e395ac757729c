------------------------- MODULE PaperTradingProofs -------------------------
(***************************************************************************)
(* The books of the paper account balance, blocked exits are carried, and  *)
(* an undisturbed account does what its backtest does, for every market,   *)
(* calendar and ranking. A tick loops over rows, so the facts about one    *)
(* tick are inductions over the orders it matches; the books, and being    *)
(* even with the backtest, are invariants of what is committed and of what *)
(* every running tick is about to commit.                                  *)
(***************************************************************************)
EXTENDS PaperTrading, InductionFacts, TLAPS

Lots == {x \in Nat : \E k \in 0..x : x = k * Lot}
Holdings == [Codes -> Lots]
OrderRows ==
    [code : Codes, side : {"buy", "sell"}, signal : 1..Horizon, exec : 2..Horizon + 1,
     status : {"pending", "filled", "skipped", "cancelled"}]
TradeRows ==
    [order : Nat, day : 1..Horizon, code : Codes, side : {"buy", "sell"}, shares : Nat, flow : Int]
Pending(o, side) == o.status = "pending" /\ o.side = side
Flows(ts) == [n \in DOMAIN ts |-> ts[n].flow]
Gains(ts, c, d) == [n \in DOMAIN ts |-> Gain(ts[n], c, d)]
Greatest(d, D) == d \in D /\ \A x \in D : x <= d

-----------------------------------------------------------------------------
(* The books: cash k, snapshots pos, orders os, trades ts, signal days sig, *)
(* with td days so far and the rankings rk.                                *)

\* The rows have their types, and everything happened on ticked days.
Rows(td, k, pos, os, ts, sig) ==
    /\ k \in Int
    /\ DOMAIN pos \subseteq 1..td /\ sig \subseteq DOMAIN pos
    /\ pos = [d \in DOMAIN pos |-> pos[d]]
    /\ \A d \in DOMAIN pos : pos[d] \in Holdings
    /\ os \in Seq(OrderRows) /\ ts \in Seq(TradeRows)
    /\ \A n \in DOMAIN ts : ts[n].day \in DOMAIN pos

\* FilledOnce of these rows.
Fills(os, ts) ==
    /\ \A n \in DOMAIN ts : /\ ts[n].order \in DOMAIN os
                            /\ os[ts[n].order].status = "filled"
                            /\ ts[n].day > os[ts[n].order].signal
    /\ \A i \in DOMAIN os : os[i].status = "filled" => \E n \in DOMAIN ts : ts[n].order = i
    /\ \A n, m \in DOMAIN ts : ts[n].order = ts[m].order => n = m

\* A buy waits only for the tick after its signal.
Entries(rk, pos, os, sig) ==
    \A i \in DOMAIN os : Pending(os[i], "buy") =>
        /\ Greatest(os[i].signal, DOMAIN pos) /\ os[i].signal \in sig
        /\ os[i].exec <= os[i].signal + 1
        /\ os[i].code \in ToSet(rk[os[i].signal])

\* Pending buys are of different codes, none of them held.
Fresh(pos, os) ==
    \A i \in DOMAIN os : Pending(os[i], "buy") =>
        /\ pos[os[i].signal][os[i].code] = 0
        /\ \A j \in DOMAIN os : Pending(os[j], "buy") /\ os[j].code = os[i].code => i = j

SharesAdd(pos, ts) == \A d \in DOMAIN pos, c \in Codes : pos[d][c] = Total(Gains(ts, c, d))

\* ExitPending of these rows.
Exits(rk, pos, os, sig) ==
    \A d, g \in DOMAIN pos : Greatest(d, DOMAIN pos) /\ Greatest(g, sig) =>
        \A c \in Codes : pos[d][c] > 0 /\ c \notin ToSet(rk[g])
            => \E i \in DOMAIN os : os[i].code = c /\ Pending(os[i], "sell")

HasGap(pos) == \E d, x \in DOMAIN pos : x < d /\ EmptyWallet(pos[d]) /\ ~EmptyWallet(pos[x])

Books(td, rk, k, pos, os, ts, sig) ==
    /\ Rows(td, k, pos, os, ts, sig)
    /\ SalesCoverFees => k >= 0
    /\ k = InitialCash + Total(Flows(ts))
    /\ Fills(os, ts)
    /\ Entries(rk, pos, os, sig)
    /\ HasGap(pos) \/ Exits(rk, pos, os, sig)
    /\ NoTopUps => HasGap(pos) \/ (Fresh(pos, os) /\ SharesAdd(pos, ts))

-----------------------------------------------------------------------------
(* The invariant *)

\* The world: quotes and rankings of the days so far.
World ==
    /\ today \in 0..Horizon /\ holidays \in Calendars /\ status \in {"active", "paused"}
    /\ market \in Seq(Markets \cup {Closed}) /\ Len(market) = today
    /\ ranks \in Seq(Rankings \cup {<<>>}) /\ Len(ranks) = today

\* The books a running tick t would leave.
Leaves(td, rk, pos, os, ts, sig, t) ==
    Books(td, rk, t.wallet.cash,
          [x \in DOMAIN pos \cup {t.day} |-> IF x = t.day THEN t.wallet.hold ELSE pos[x]],
          [i \in DOMAIN os |-> IF i \in DOMAIN t.changed THEN t.changed[i] ELSE os[i]] \o t.new,
          ts \o t.trades, IF t.signals THEN sig \cup {t.day} ELSE sig)

\* Ticks that run together are of one day, and until that day is ticked each of them would
\* leave the books balanced.
Running ==
    /\ session = [s \in Sources |-> session[s]]
    /\ \A s \in Sources : session[s] # Idle =>
           /\ session[s].day \in 1..today
           /\ session[s].day \notin ticked =>
                  /\ \A x \in ticked : x < session[s].day
                  /\ Leaves(today, ranks, positions, orders, trades, signalled, session[s])
    /\ \A s, r \in Sources : session[s] # Idle /\ session[r] # Idle => session[s].day = session[r].day

Inv == World /\ Books(today, ranks, cash, positions, orders, trades, signalled) /\ Running

-----------------------------------------------------------------------------
(* Sets of days, and sets listed as sequences *)

LEMMA GreatestExists ==
    ASSUME NEW N \in Nat, NEW D \in SUBSET (0..N), D # {} PROVE \E d \in D : Greatest(d, D)
  <1> DEFINE T == {N - d : d \in D}
  <1>1. T \in SUBSET Nat /\ T # {}
    <2>1. \A d \in D : N - d \in Nat
      <3> TAKE d \in D
      <3>1. d \in 0..N
        OBVIOUS
      <3> QED
        BY <3>1
    <2>2. PICK d \in D : TRUE
      OBVIOUS
    <2> QED
      BY <2>1, <2>2
  <1>2. PICK n \in T : \A m \in T : n <= m
    BY <1>1, Least
  <1>3. PICK d \in D : n = N - d
    BY <1>2
  <1>4. \A x \in D : x <= d
    <2> TAKE x \in D
    <2>1. N - d <= N - x
      BY <1>2, <1>3
    <2>2. x \in 0..N /\ d \in 0..N
      OBVIOUS
    <2> QED
      BY <2>1, <2>2
  <1> QED
    BY <1>4 DEF Greatest

\* SetToSeq lists every element of a finite set.
LEMMA Listed ==
    ASSUME NEW S, IsFiniteSet(S)
    PROVE  /\ SetToSeq(S) \in Seq(S)
           /\ \A x \in S : \E n \in 1..Len(SetToSeq(S)) : SetToSeq(S)[n] = x
           /\ DOMAIN SetToSeq(S) = 1..Len(SetToSeq(S))
  <1> DEFINE N == Cardinality(S)
             f == SetToSeq(S)
  <1>1. N \in Nat /\ ExistsBijection(1..N, S)
    BY FS_CardinalityType
  <1>2. PICK b \in Bijection(1..N, S) : TRUE
    BY <1>1 DEF ExistsBijection
  <1>3. b \in [1..N -> S] /\ IsInjective(b)
    BY <1>2 DEF Bijection, Injection, IsInjective
  <1>4. f \in [1..N -> S] /\ IsInjective(f)
    BY <1>3 DEF SetToSeq
  <1> HIDE DEF f
  <1>5. f \in Injection(1..N, S)
    BY <1>4 DEF Injection, IsInjective
  <1>6. Cardinality(1..N) = N
    BY <1>1, FS_Interval
  <1>7. f \in Surjection(1..N, S)
    BY <1>5, <1>6, FS_Injection
  <1>8. f \in Seq(S) /\ Len(f) = N
    BY <1>1, <1>4
  <1> QED
    BY <1>4, <1>7, <1>8 DEF Surjection, f

-----------------------------------------------------------------------------
(* Money and lots *)

\* A sale of k lots pays for its fees if a sale of one lot does.
LEMMA SalePays ==
    ASSUME NEW a \in Nat, NEW b \in Nat, b <= a, Rate + Duty <= 100, SellCost(b) <= b
    PROVE  SellCost(a) <= a
  <1>1. Rate \in Nat /\ Duty \in 0..100 /\ MinFee \in Nat
    <2>1. Rate \in Nat /\ Duty \in Nat /\ MinFee \in Nat
      BY ParametersAssumption
    <2> QED
      BY <2>1
  <1> DEFINE f == (a * Rate) \div 100
             d == (a * Duty) \div 100
             e == (b * Duty) \div 100
  <1>2. f \in Nat /\ d \in Nat /\ e \in Nat
    BY <1>1, Percents
  <1>3. d <= e + (a - b)
    BY <1>1, FeeGrows
  <1>4. f + d <= a
    <2>1. 100 * f <= a * Rate /\ 100 * d <= a * Duty
      BY <1>1, Percents
    <2>2. a * Rate \in Nat /\ a * Duty \in Nat /\ a * Rate + a * Duty = a * (Rate + Duty)
      BY <1>1
    <2>3. a * (Rate + Duty) <= a * 100
      <3>1. 100 - (Rate + Duty) \in Nat /\ Rate + Duty \in Nat
        BY <1>1
      <3>2. a * (100 - (Rate + Duty)) \in Nat
        BY <3>1
      <3>3. a * 100 = a * (Rate + Duty) + a * (100 - (Rate + Duty))
        BY <3>1
      <3>4. a * (Rate + Duty) \in Nat
        BY <3>1
      <3> QED
        BY <3>2, <3>3, <3>4
    <2> HIDE DEF f, d
    <2> QED
      BY <1>2, <2>1, <2>2, <2>3
  <1>5. MinFee + e <= b
    <2>1. SellCost(b) = Larger((b * Rate) \div 100, MinFee) + e
      BY DEF SellCost, BuyCost
    <2>2. (b * Rate) \div 100 \in Nat
      BY <1>1, Percents
    <2> HIDE DEF e
    <2> QED
      BY <1>1, <1>2, <2>1, <2>2 DEF Larger
  <1>6. SellCost(a) = Larger(f, MinFee) + d
    BY DEF SellCost, BuyCost
  <1> HIDE DEF f, d, e
  <1> QED
    BY <1>1, <1>2, <1>3, <1>4, <1>5, <1>6 DEF Larger

\* A fee is a number.
LEMMA Fees ==
    ASSUME NEW a \in Nat PROVE BuyCost(a) \in Nat /\ SellCost(a) \in Nat
  <1>1. Rate \in Nat /\ Duty \in Nat /\ MinFee \in Nat
    BY ParametersAssumption
  <1>2. (a * Rate) \div 100 \in Nat /\ (a * Duty) \div 100 \in Nat
    BY <1>1, Percents
  <1> QED
    BY <1>1, <1>2 DEF BuyCost, SellCost, Larger

LEMMA LotsAreNat == Lots \subseteq Nat
  BY DEF Lots

LEMMA IsLots ==
    ASSUME NEW k \in Nat PROVE k * Lot \in Lots
  <1>1. Lot \in Nat \ {0}
    BY ParametersAssumption
  <1>2. k * Lot = Lot * k
    BY <1>1
  <1>3. k * Lot \in Nat /\ k <= k * Lot
    BY <1>1, <1>2, Multiples
  <1> QED
    BY <1>3 DEF Lots

\* What a slot buys is whole lots, for a price that is not negative.
LEMMA Lotted ==
    ASSUME NEW slot \in Nat, NEW q, q.open \in Nat
    PROVE  /\ BuyShares(slot, q) \in Lots
           /\ BuyAmount(slot, q) \in Nat /\ BuyCost(BuyAmount(slot, q)) \in Nat
  <1>1. Lot \in Nat \ {0} /\ Slip \in Nat
    BY ParametersAssumption
  <1> DEFINE p == FillPrice(q.open, "buy")
             k == slot \div (p * Lot)
  <1>2. p \in Nat
    BY <1>1 DEF FillPrice
  <1>3. BuyShares(slot, q) \in Lots
    <2>1. CASE p <= 0
      <3>1. BuyShares(slot, q) = 0 * Lot
        BY <1>1, <2>1 DEF BuyShares, BoardLotShares
      <3> QED
        BY <3>1, IsLots
    <2>2. CASE p > 0
      <3>1. p * Lot \in Nat /\ p * Lot >= p
        BY <1>1, <1>2, <2>2, Multiples
      <3> DEFINE m == p * Lot
      <3>2. m \in Nat /\ m > 0
        BY <1>2, <2>2, <3>1
      <3> HIDE DEF m
      <3>3. slot \div m \in Nat
        BY <3>2
      <3>4. BuyShares(slot, q) = (slot \div m) * Lot
        BY <1>2, <2>2 DEF BuyShares, BoardLotShares, m
      <3> QED
        BY <3>3, <3>4, IsLots
    <2> HIDE DEF p
    <2> QED
      BY <1>2, <2>1, <2>2
  <1>4. BuyAmount(slot, q) \in Nat
    <2>1. BuyAmount(slot, q) = BuyShares(slot, q) * p
      BY DEF BuyAmount
    <2>2. \A x, y \in Nat : x * y \in Nat
      OBVIOUS
    <2> HIDE DEF p
    <2> QED
      BY <1>2, <1>3, <2>1, <2>2, LotsAreNat
  <1> QED
    BY <1>3, <1>4, Fees

\* The slot of a wallet.
LEMMA SlotIsNat ==
    ASSUME NEW w, w.cash \in Int, w.hold \in [Codes -> Nat], NEW m \in Quotes
    PROVE  PerTarget(w, m) \in Nat
  <1> DEFINE codes == SetToSeq(Codes)
             v == [n \in DOMAIN codes |-> w.hold[codes[n]] * m[codes[n]].open]
  <1>1. codes \in Seq(Codes) /\ DOMAIN codes = 1..Len(codes)
    BY ParametersAssumption, Listed
  <1>2. \A c \in Codes : w.hold[c] \in Nat /\ m[c].open \in Nat
    BY DEF Quotes
  <1>3. \A x, y \in Nat : x * y \in Int
    OBVIOUS
  <1> DEFINE worth(c) == w.hold[c] * m[c].open
  <1>4. \A c \in Codes : worth(c) \in Int
    BY <1>2, <1>3
  <1>5. Wealth(w, m) = w.cash + Total(v)
    BY DEF Wealth
  <1>6. v = [n \in 1..Len(codes) |-> worth(codes[n])]
    BY <1>1
  <1> HIDE DEF codes, worth, v
  <1>7. \A n \in 1..Len(codes) : worth(codes[n]) \in Int
    BY <1>1, <1>4
  <1>8. v \in Seq(Int)
    BY <1>1, <1>6, <1>7
  <1>9. Total(v) \in Int
    <2>1. Len(v) \in 0..Len(v)
      BY <1>8
    <2> QED
      BY <1>8, <2>1, Sums
  <1>10. Wealth(w, m) \in Int /\ TopN \in Nat \ {0}
    BY <1>5, <1>9, ParametersAssumption
  <1> QED
    BY <1>10 DEF PerTarget, Larger

\* Selling all of c: cash may only fall when fees exceed the proceeds.
LEMMA Sale ==
    ASSUME NEW w, w.cash \in Int, w.hold \in Holdings, NEW c \in Codes,
           NEW m \in Markets \cup {Closed}, MatchFill("sell", m[c]) = "fill", w.hold[c] # 0
    PROVE  /\ SellOne(w, c, m[c]).cash \in Int
           /\ SellOne(w, c, m[c]).hold = [w.hold EXCEPT ![c] = 0]
           /\ SalesCoverFees /\ w.cash >= 0 => SellOne(w, c, m[c]).cash >= 0
  <1> DEFINE p == m[c].open - Slip
             a == SellAmount(w, c, m[c])
  <1>1. m[c].open \in Nat /\ Slip \in Nat /\ Lot \in Nat \ {0} /\ p \in Int
    <2>1. m \in Quotes /\ Slip \in Nat /\ Lot \in Nat \ {0}
      BY ParametersAssumption
    <2> QED
      BY <2>1 DEF Quotes
  <1>2. m[c].open # 0
    BY DEF MatchFill
  <1>3. w.hold[c] \in Lots
    BY DEF Holdings
  <1>4. PICK k \in Nat : w.hold[c] = k * Lot /\ k # 0
    <2>1. PICK k \in 0..w.hold[c] : w.hold[c] = k * Lot
      BY <1>3 DEF Lots
    <2>2. k \in Nat /\ k # 0
      BY <1>1, <1>3, <2>1, LotsAreNat
    <2> QED
      BY <2>1, <2>2
  <1>5. a = (k * Lot) * p
    BY <1>4 DEF SellAmount, FillPrice
  <1>6. a \in Int
    <2>1. k * Lot \in Int
      BY <1>1
    <2>2. \A x, y \in Int : x * y \in Int
      OBVIOUS
    <2> HIDE DEF a, p
    <2> QED
      BY <1>1, <1>5, <2>1, <2>2
  <1>7. SellCost(a) \in Int
    <2>1. Rate \in Nat /\ Duty \in Nat /\ MinFee \in Nat
      BY ParametersAssumption
    <2> HIDE DEF a
    <2>2. a * Rate \in Int /\ a * Duty \in Int
      BY <1>6, <2>1
    <2>3. (a * Rate) \div 100 \in Int /\ (a * Duty) \div 100 \in Int
      BY <2>2
    <2> QED
      BY <2>1, <2>3 DEF SellCost, BuyCost, Larger
  <1>8. SalesCoverFees => SellCost(a) <= a
    <2> SUFFICES ASSUME SalesCoverFees PROVE SellCost(a) <= a
      OBVIOUS
    <2>1. p > 0 /\ SellCost(Lot * p) <= Lot * p /\ Rate + Duty <= 100
      BY <1>2 DEF SalesCoverFees
    <2> DEFINE b == Lot * p
    <2>2. b \in Nat
      <3> HIDE DEF p
      <3> QED
        BY <1>1, <2>1
    <2>3. a = k * b
      <3> HIDE DEF p, a
      <3> QED
        BY <1>1, <1>5
    <2>4. SellCost(b) <= b
      BY <2>1
    <2> HIDE DEF a, b, p
    <2>5. a \in Nat /\ b <= a
      BY <1>4, <2>2, <2>3, Multiples
    <2> QED
      BY <2>1, <2>2, <2>4, <2>5, SalePays
  <1>9. SellOne(w, c, m[c]) = [cash |-> w.cash + a - SellCost(a), hold |-> [w.hold EXCEPT ![c] = 0]]
    BY DEF SellOne
  <1> HIDE DEF a
  <1> QED
    BY <1>6, <1>7, <1>8, <1>9

\* Buying c in a slot the cash affords.
LEMMA Purchase ==
    ASSUME NEW w, w.cash \in Int, NEW c \in Codes, NEW q, q.open \in Nat, NEW slot \in Nat,
           Affordable(w, slot, q)
    PROVE  /\ BuyOne(w, c, slot, q).cash \in Int
           /\ BuyOne(w, c, slot, q).hold = [w.hold EXCEPT ![c] = BuyShares(slot, q)]
           /\ BuyOne(w, c, slot, q).cash >= 0
           /\ BuyShares(slot, q) \in Lots /\ BuyShares(slot, q) > 0
  BY Lotted DEF BuyOne, Affordable

-----------------------------------------------------------------------------
(* One tick matches its due orders one by one *)

\* The due buys are of different codes, none of them held.
DueFresh(d) ==
    \A i \in Due(d) : orders[i].side = "buy" =>
        /\ PositionsLatest(d)[orders[i].code] = 0
        /\ \A j \in Due(d) : orders[j].side = "buy" /\ orders[j].code = orders[i].code => i = j

Shaped(acc) ==
    /\ acc.w.cash \in Int /\ acc.w.hold \in Holdings
    /\ acc.orders \in Seq(OrderRows) /\ Len(acc.orders) = Len(orders)
    /\ acc.trades \in Seq(TradeRows)
\* An order keeps what it is, and the orders not yet matched keep their rows.
Kept(acc, P) ==
    /\ \A i \in DOMAIN orders : /\ acc.orders[i].code = orders[i].code
                                /\ acc.orders[i].side = orders[i].side
                                /\ acc.orders[i].signal = orders[i].signal
    /\ \A i \in DOMAIN orders : i \notin P => acc.orders[i] = orders[i]
    /\ \A i \in P : ~Pending(acc.orders[i], "buy")
Traded(d, acc, P) ==
    /\ \A n \in DOMAIN acc.trades : /\ acc.trades[n].order \in P /\ acc.trades[n].day = d
                                    /\ acc.orders[acc.trades[n].order].status = "filled"
    /\ \A i \in P : acc.orders[i].status = "filled" => \E n \in DOMAIN acc.trades : acc.trades[n].order = i
    /\ \A n, m \in DOMAIN acc.trades : acc.trades[n].order = acc.trades[m].order => n = m
Paid(acc) ==
    /\ acc.w.cash = cash + Total(Flows(acc.trades))
    /\ SalesCoverFees /\ cash >= 0 => acc.w.cash >= 0
Added(d, acc) ==
    DueFresh(d) => \A c \in Codes : acc.w.hold[c] = PositionsLatest(d)[c] + Total(Gains(acc.trades, c, d))
\* What is held was held before and its sells still wait, or it was bought.
Held(d, acc, P) ==
    \A c \in Codes : acc.w.hold[c] > 0 =>
        \/ /\ PositionsLatest(d)[c] > 0
           /\ \A i \in P : orders[i].side = "sell" /\ orders[i].code = c => acc.orders[i].status = "pending"
        \/ \E i \in P : orders[i].side = "buy" /\ orders[i].code = c

\* A match after the orders P.
Matched(d, acc, P) ==
    /\ P \subseteq Due(d) /\ Shaped(acc) /\ Kept(acc, P) /\ Traded(d, acc, P)
    /\ Paid(acc) /\ Added(d, acc) /\ Held(d, acc, P)

\* Before the first order.
LEMMA OpeningMatched ==
    ASSUME NEW d \in 1..Horizon, cash \in Int, orders \in Seq(OrderRows), PositionsLatest(d) \in Holdings
    PROVE  Matched(d, Opening(d), {})
  <1> DEFINE acc == Opening(d)
  <1>1. /\ acc.w.cash = cash /\ acc.w.hold = PositionsLatest(d)
        /\ acc.orders = orders /\ acc.trades = <<>>
    BY DEF Opening
  <1> HIDE DEF acc
  <1>2. DOMAIN acc.trades = {} /\ <<>> \in Seq(TradeRows)
    BY <1>1
  <1>3. Shaped(acc)
    BY <1>1, <1>2 DEF Shaped
  <1>4. Kept(acc, {}) /\ Traded(d, acc, {})
    BY <1>1, <1>2 DEF Kept, Traded
  <1>5. Flows(acc.trades) = <<>> /\ \A c : Gains(acc.trades, c, d) = <<>>
    BY <1>2 DEF Flows, Gains
  <1>6. Paid(acc)
    BY <1>1, <1>5, TotalEmpty DEF Paid
  <1>7. \A c \in Codes : PositionsLatest(d)[c] \in Int
    <2>1. \A c \in Codes : PositionsLatest(d)[c] \in Lots
      BY DEF Holdings
    <2>2. \A x \in Lots : x \in Int
      BY LotsAreNat
    <2> QED
      BY <2>1, <2>2
  <1>8. Added(d, acc)
    BY <1>1, <1>5, <1>7, TotalEmpty DEF Added
  <1>9. Held(d, acc, {})
    BY <1>1 DEF Held
  <1> QED
    BY <1>3, <1>4, <1>6, <1>8, <1>9 DEF Matched, acc

\* An order that is not filled: a deferred sell, or one that is settled without a trade.
LEMMA Unfilled ==
    ASSUME NEW d \in 1..Horizon, orders \in Seq(OrderRows),
           NEW acc, NEW P, Matched(d, acc, P), NEW i \in Due(d), i \notin P,
           NEW o \in OrderRows, o.status # "filled", ~Pending(o, "buy"),
           o.code = orders[i].code, o.side = orders[i].side, o.signal = orders[i].signal,
           o.side = "sell" /\ o.status # "pending" => acc.w.hold[o.code] = 0,
           NEW acc2, acc2.w = acc.w, acc2.trades = acc.trades, acc2.orders = [acc.orders EXCEPT ![i] = o]
    PROVE  Matched(d, acc2, P \cup {i})
  <1> DEFINE Q == P \cup {i}
  <1>1. i \in DOMAIN orders /\ orders[i].status = "pending"
    BY DEF Due
  <1>2. P \subseteq Due(d) /\ Shaped(acc) /\ Kept(acc, P) /\ Traded(d, acc, P) /\ Paid(acc)
        /\ Added(d, acc) /\ Held(d, acc, P)
    BY DEF Matched
  <1>3. acc.orders \in Seq(OrderRows) /\ Len(acc.orders) = Len(orders)
    BY <1>2 DEF Shaped
  <1>4. /\ acc2.orders \in Seq(OrderRows) /\ Len(acc2.orders) = Len(orders)
        /\ acc2.orders[i] = o
        /\ \A j \in DOMAIN orders : j # i => acc2.orders[j] = acc.orders[j]
    BY <1>1, <1>3
  <1>5. P \subseteq DOMAIN orders
    BY <1>2 DEF Due
  <1>6. Shaped(acc2)
    BY <1>2, <1>4 DEF Shaped
  <1>7. Kept(acc2, Q)
    BY <1>1, <1>2, <1>4, <1>5 DEF Kept
  <1>8. Traded(d, acc2, Q)
    BY <1>2, <1>4, <1>5 DEF Traded
  <1>9. Paid(acc2) /\ Added(d, acc2)
    BY <1>2 DEF Paid, Added
  <1>10. Held(d, acc2, Q)
    <2> SUFFICES ASSUME NEW c \in Codes, acc.w.hold[c] > 0
                 PROVE  \/ /\ PositionsLatest(d)[c] > 0
                           /\ \A j \in Q : orders[j].side = "sell" /\ orders[j].code = c =>
                                  acc2.orders[j].status = "pending"
                        \/ \E j \in Q : orders[j].side = "buy" /\ orders[j].code = c
      BY DEF Held
    <2>1. CASE \E j \in P : orders[j].side = "buy" /\ orders[j].code = c
      BY <2>1
    <2>2. CASE /\ PositionsLatest(d)[c] > 0
               /\ \A j \in P : orders[j].side = "sell" /\ orders[j].code = c => acc.orders[j].status = "pending"
      <3>1. orders[i].side = "sell" /\ orders[i].code = c => o.status = "pending"
        <4>1. acc.w.hold[c] # 0
          OBVIOUS
        <4> QED
          BY <4>1
      <3> QED
        BY <1>4, <1>5, <2>2, <3>1
    <2> QED
      BY <1>2, <2>1, <2>2 DEF Held
  <1> QED
    BY <1>2, <1>6, <1>7, <1>8, <1>9, <1>10 DEF Matched

\* The sums over the trades of an account with one more trade.
LEMMA OneMore ==
    ASSUME NEW ts \in Seq(TradeRows), NEW t \in TradeRows, NEW c, NEW d \in Int
    PROVE  /\ Flows(ts) \in Seq(Int) /\ Gains(ts, c, d) \in Seq(Int)
           /\ Total(Flows(Append(ts, t))) = Total(Flows(ts)) + t.flow
           /\ Total(Gains(Append(ts, t), c, d)) = Total(Gains(ts, c, d)) + Gain(t, c, d)
           /\ Total(Flows(ts)) \in Int /\ Total(Gains(ts, c, d)) \in Int /\ Gain(t, c, d) \in Int
  <1>1. \A u \in TradeRows : u.flow \in Int /\ Gain(u, c, d) \in Int
    BY DEF TradeRows, Gain
  <1> DEFINE N == Len(ts)
             us == Append(ts, t)
  <1>2. /\ N \in Nat /\ \A n \in 1..N : ts[n] \in TradeRows /\ us[n] = ts[n]
        /\ us[N + 1] = t /\ DOMAIN ts = 1..N /\ DOMAIN us = 1..N + 1
    OBVIOUS
  <1> HIDE DEF N, us
  <1>3. Flows(ts) \in Seq(Int) /\ Gains(ts, c, d) \in Seq(Int)
    BY <1>1, <1>2 DEF Flows, Gains
  <1>4. Len(Flows(ts)) = N /\ Len(Gains(ts, c, d)) = N
    BY <1>2 DEF Flows, Gains
  <1>5. t.flow \in Int /\ Gain(t, c, d) \in Int
    BY <1>1
  <1>6. Flows(us) = Append(Flows(ts), t.flow)
    <2> DEFINE f == Flows(us)
               g == Append(Flows(ts), t.flow)
    <2>1. f = [n \in 1..N + 1 |-> us[n].flow]
      BY <1>2 DEF Flows
    <2>2. g \in Seq(Int) /\ Len(g) = N + 1
      BY <1>3, <1>4, <1>5
    <2>3. \A n \in 1..N + 1 : g[n] = us[n].flow
      <3> TAKE n \in 1..N + 1
      <3>1. CASE n = N + 1
        BY <1>2, <1>3, <1>4, <1>5, <3>1
      <3>2. CASE n # N + 1
        <4>1. n \in 1..N
          BY <1>2, <3>2
        <4>2. g[n] = Flows(ts)[n]
          BY <1>3, <1>4, <1>5, <4>1
        <4> QED
          BY <1>2, <4>1, <4>2 DEF Flows
      <3> QED
        BY <3>1, <3>2
    <2> HIDE DEF f, g
    <2>4. g = [n \in 1..N + 1 |-> us[n].flow]
      BY <1>2, <2>2, <2>3
    <2> QED
      BY <2>1, <2>4 DEF f, g
  <1>7. Gains(us, c, d) = Append(Gains(ts, c, d), Gain(t, c, d))
    <2> DEFINE f == Gains(us, c, d)
               g == Append(Gains(ts, c, d), Gain(t, c, d))
    <2>1. f = [n \in 1..N + 1 |-> Gain(us[n], c, d)]
      BY <1>2 DEF Gains
    <2>2. g \in Seq(Int) /\ Len(g) = N + 1
      BY <1>3, <1>4, <1>5
    <2>3. \A n \in 1..N + 1 : g[n] = Gain(us[n], c, d)
      <3> TAKE n \in 1..N + 1
      <3>1. CASE n = N + 1
        BY <1>2, <1>3, <1>4, <1>5, <3>1
      <3>2. CASE n # N + 1
        <4>1. n \in 1..N
          BY <1>2, <3>2
        <4>2. g[n] = Gains(ts, c, d)[n]
          BY <1>3, <1>4, <1>5, <4>1
        <4> QED
          BY <1>2, <4>1, <4>2 DEF Gains
      <3> QED
        BY <3>1, <3>2
    <2> HIDE DEF f, g
    <2>4. g = [n \in 1..N + 1 |-> Gain(us[n], c, d)]
      BY <1>2, <2>2, <2>3
    <2> QED
      BY <2>1, <2>4 DEF f, g
  <1>8. \A s \in Seq(Int) : Total(s) \in Int
    <2> TAKE s \in Seq(Int)
    <2>1. Len(s) \in 0..Len(s)
      OBVIOUS
    <2> QED
      BY <2>1, Sums
  <1>9. Total(Flows(us)) = Total(Flows(ts)) + t.flow
    BY <1>3, <1>5, <1>6, TotalAppend
  <1>10. Total(Gains(us, c, d)) = Total(Gains(ts, c, d)) + Gain(t, c, d)
    BY <1>3, <1>5, <1>7, TotalAppend
  <1> QED
    BY <1>1, <1>3, <1>8, <1>9, <1>10 DEF us

LEMMA FlowsMore ==
    ASSUME NEW ts \in Seq(TradeRows), NEW t \in TradeRows
    PROVE  /\ Total(Flows(Append(ts, t))) = Total(Flows(ts)) + t.flow
           /\ Total(Flows(ts)) \in Int
  <1>1. /\ Total(Flows(Append(ts, t))) = Total(Flows(ts)) + t.flow
        /\ Total(Flows(ts)) \in Int /\ Total(Gains(ts, 0, 0)) \in Int
    BY OneMore
  <1> QED
    BY <1>1

\* An order that is filled: the wallet, the row and one trade.
LEMMA Filling ==
    ASSUME NEW d \in 1..Horizon, orders \in Seq(OrderRows), cash \in Int, PositionsLatest(d) \in Holdings,
           NEW acc, NEW P, Matched(d, acc, P), NEW i \in Due(d), i \notin P,
           NEW w, w.cash \in Int, NEW h \in Lots, w.hold = [acc.w.hold EXCEPT ![orders[i].code] = h],
           SalesCoverFees /\ acc.w.cash >= 0 => w.cash >= 0,
           NEW shares \in Nat,
           orders[i].side = "sell" => h = 0 /\ shares = acc.w.hold[orders[i].code],
           orders[i].side = "buy" => shares = h
    PROVE  Matched(d, Fill(acc, i, d, w, shares), P \cup {i})
  <1> DEFINE Q == P \cup {i}
             acc2 == Fill(acc, i, d, w, shares)
             o == [acc.orders[i] EXCEPT !.status = "filled"]
             t == Trade(i, d, acc.orders[i], shares, w.cash - acc.w.cash)
             N == Len(acc.trades)
             H == PositionsLatest(d)
  <1>1. i \in DOMAIN orders /\ orders[i].status = "pending" /\ i \in Nat /\ orders[i] \in OrderRows
    BY DEF Due
  <1>2. P \subseteq Due(d) /\ Shaped(acc) /\ Kept(acc, P) /\ Traded(d, acc, P) /\ Paid(acc)
        /\ Added(d, acc) /\ Held(d, acc, P)
    BY DEF Matched
  <1>3. /\ acc.orders \in Seq(OrderRows) /\ Len(acc.orders) = Len(orders)
        /\ acc.trades \in Seq(TradeRows) /\ acc.w.cash \in Int /\ acc.w.hold \in Holdings
    BY <1>2 DEF Shaped
  <1>4. acc.orders[i] = orders[i]
    BY <1>1, <1>2 DEF Kept
  <1>5. o \in OrderRows /\ o.status = "filled" /\ o.code = orders[i].code
        /\ o.side = orders[i].side /\ o.signal = orders[i].signal
    BY <1>1, <1>4 DEF OrderRows
  <1>6. acc2.w = w /\ acc2.orders = [acc.orders EXCEPT ![i] = o] /\ acc2.trades = Append(acc.trades, t)
    BY DEF Fill, Settle
  <1>7. t \in TradeRows /\ t.order = i /\ t.day = d /\ t.code = orders[i].code
        /\ t.side = orders[i].side /\ t.shares = shares /\ t.flow = w.cash - acc.w.cash
    <2>1. t = [order |-> i, day |-> d, code |-> orders[i].code, side |-> orders[i].side,
                shares |-> shares, flow |-> w.cash - acc.w.cash]
      BY <1>4 DEF Trade
    <2>2. orders[i].code \in Codes /\ orders[i].side \in {"buy", "sell"} /\ w.cash - acc.w.cash \in Int
      <3>1. w.cash - acc.w.cash \in Int
        BY <1>3
      <3>2. orders[i].code \in Codes /\ orders[i].side \in {"buy", "sell"}
        BY <1>1 DEF OrderRows
      <3> QED
        BY <3>1, <3>2
    <2> HIDE DEF t
    <2> QED
      BY <1>1, <2>1, <2>2 DEF TradeRows
  <1> HIDE DEF acc2, o, t
  <1>8. /\ acc2.orders \in Seq(OrderRows) /\ Len(acc2.orders) = Len(orders)
        /\ acc2.orders[i] = o
        /\ \A j \in DOMAIN orders : j # i => acc2.orders[j] = acc.orders[j]
    BY <1>1, <1>3, <1>5, <1>6
  <1>9. /\ N \in Nat /\ acc2.trades \in Seq(TradeRows) /\ DOMAIN acc.trades = 1..N
        /\ DOMAIN acc2.trades = 1..N + 1 /\ acc2.trades[N + 1] = t
        /\ \A n \in 1..N : acc2.trades[n] = acc.trades[n]
    BY <1>3, <1>6, <1>7
  <1> HIDE DEF N
  <1>10. P \subseteq DOMAIN orders
    BY <1>2 DEF Due
  <1>11. orders[i].code \in Codes /\ orders[i].side \in {"buy", "sell"}
    BY <1>1 DEF OrderRows
  <1>12. Shaped(acc2)
    <2>1. w.hold \in Holdings
      BY <1>3, <1>11 DEF Holdings
    <2> QED
      BY <1>6, <1>8, <1>9, <2>1 DEF Shaped
  <1>13. Kept(acc2, Q)
    <2>1. ASSUME NEW j \in DOMAIN orders
          PROVE  /\ acc2.orders[j].code = orders[j].code
                 /\ acc2.orders[j].side = orders[j].side
                 /\ acc2.orders[j].signal = orders[j].signal
                 /\ j \notin Q => acc2.orders[j] = orders[j]
      <3>1. CASE j = i
        BY <1>5, <1>8, <3>1
      <3>2. CASE j # i
        BY <1>2, <1>8, <3>2 DEF Kept
      <3> QED
        BY <3>1, <3>2
    <2>2. ASSUME NEW j \in Q PROVE ~Pending(acc2.orders[j], "buy")
      <3>1. CASE j = i
        BY <1>5, <1>8, <3>1 DEF Pending
      <3>2. CASE j # i
        <4>1. j \in P /\ acc2.orders[j] = acc.orders[j]
          BY <1>8, <1>10, <3>2
        <4> QED
          BY <1>2, <4>1 DEF Kept
      <3> QED
        BY <3>1, <3>2
    <2> QED
      BY <2>1, <2>2 DEF Kept
  <1>14. Traded(d, acc2, Q)
    <2>1. ASSUME NEW n \in 1..N + 1
          PROVE  /\ acc2.trades[n].order \in Q /\ acc2.trades[n].day = d
                 /\ acc2.orders[acc2.trades[n].order].status = "filled"
                 /\ n # N + 1 => acc2.trades[n].order \in P
      <3>1. CASE n = N + 1
        BY <1>5, <1>7, <1>8, <1>9, <3>1
      <3>2. CASE n # N + 1
        <4>1. n \in 1..N
          BY <1>9, <3>2
        <4>2. /\ acc.trades[n].order \in P /\ acc.trades[n].day = d
              /\ acc.orders[acc.trades[n].order].status = "filled"
          BY <1>2, <1>9, <4>1 DEF Traded
        <4> QED
          BY <1>8, <1>9, <1>10, <4>1, <4>2
      <3> QED
        BY <3>1, <3>2
    <2>2. ASSUME NEW j \in Q, acc2.orders[j].status = "filled"
          PROVE  \E n \in 1..N + 1 : acc2.trades[n].order = j
      <3>1. CASE j = i
        <4>1. N + 1 \in 1..N + 1
          BY <1>9
        <4> QED
          BY <1>7, <1>9, <3>1, <4>1
      <3>2. CASE j # i
        <4>1. j \in P /\ acc.orders[j].status = "filled"
          BY <1>8, <1>10, <2>2, <3>2
        <4>2. PICK n \in 1..N : acc.trades[n].order = j
          BY <1>2, <1>9, <4>1 DEF Traded
        <4>3. n \in 1..N + 1
          BY <1>9
        <4> QED
          BY <1>9, <4>2, <4>3
      <3> QED
        BY <3>1, <3>2
    <2>3. ASSUME NEW n \in 1..N + 1, NEW m \in 1..N + 1, acc2.trades[n].order = acc2.trades[m].order
          PROVE  n = m
      <3>1. CASE n = N + 1 /\ m = N + 1
        BY <3>1
      <3>2. CASE n # N + 1 /\ m = N + 1
        BY <1>7, <1>9, <2>1, <2>3, <3>2
      <3>3. CASE n = N + 1 /\ m # N + 1
        BY <1>7, <1>9, <2>1, <2>3, <3>3
      <3>4. CASE n # N + 1 /\ m # N + 1
        <4>1. n \in 1..N /\ m \in 1..N
          BY <1>9, <3>4
        <4>2. acc.trades[n].order = acc.trades[m].order
          BY <1>9, <2>3, <4>1
        <4>3. \A a, b \in 1..N : acc.trades[a].order = acc.trades[b].order => a = b
          BY <1>2, <1>9 DEF Traded
        <4> QED
          BY <4>1, <4>2, <4>3
      <3> QED
        BY <3>1, <3>2, <3>3, <3>4
    <2> QED
      BY <1>9, <2>1, <2>2, <2>3 DEF Traded
  <1>15. Paid(acc2)
    <2>1. /\ Total(Flows(acc2.trades)) = Total(Flows(acc.trades)) + t.flow
          /\ Total(Flows(acc.trades)) \in Int
      BY <1>3, <1>6, <1>7, FlowsMore
    <2>2. acc.w.cash = cash + Total(Flows(acc.trades)) /\ (SalesCoverFees /\ cash >= 0 => acc.w.cash >= 0)
      BY <1>2 DEF Paid
    <2>3. w.cash = cash + Total(Flows(acc2.trades))
      <3>1. w.cash = acc.w.cash + t.flow /\ t.flow \in Int
        BY <1>3, <1>7
      <3> QED
        BY <2>1, <2>2, <3>1
    <2> QED
      BY <1>6, <2>2, <2>3 DEF Paid
  <1>16. \A c \in Codes : w.hold[c] = IF c = orders[i].code THEN h ELSE acc.w.hold[c]
    BY <1>3 DEF Holdings
  <1>17. \A c \in Codes : acc.w.hold[c] \in Nat /\ H[c] \in Nat
    <2>1. \A c \in Codes : acc.w.hold[c] \in Lots /\ H[c] \in Lots
      BY <1>3 DEF Holdings
    <2>2. \A x \in Lots : x \in Nat
      BY LotsAreNat
    <2> QED
      BY <2>1, <2>2
  <1>18. Held(d, acc2, Q)
    <2> SUFFICES ASSUME NEW c \in Codes, w.hold[c] > 0
                 PROVE  \/ /\ H[c] > 0
                           /\ \A j \in Q : orders[j].side = "sell" /\ orders[j].code = c =>
                                  acc2.orders[j].status = "pending"
                        \/ \E j \in Q : orders[j].side = "buy" /\ orders[j].code = c
      BY <1>6 DEF Held
    <2>1. CASE c = orders[i].code
      BY <1>11, <1>16, <2>1
    <2>2. CASE c # orders[i].code
      <3>1. acc.w.hold[c] > 0
        BY <1>16, <2>2
      <3> QED
        BY <1>2, <1>8, <1>10, <2>2, <3>1 DEF Held
    <2> QED
      BY <2>1, <2>2
  <1>19. Added(d, acc2)
    <2> SUFFICES ASSUME DueFresh(d), NEW c \in Codes
                 PROVE  w.hold[c] = H[c] + Total(Gains(acc2.trades, c, d))
      BY <1>6 DEF Added
    <2>1. /\ Total(Gains(acc2.trades, c, d)) = Total(Gains(acc.trades, c, d)) + Gain(t, c, d)
          /\ Total(Gains(acc.trades, c, d)) \in Int
      BY <1>3, <1>6, <1>7, OneMore
    <2>2. acc.w.hold[c] = H[c] + Total(Gains(acc.trades, c, d))
      BY <1>2 DEF Added
    <2>3. Gain(t, c, d) = IF orders[i].code # c THEN 0 ELSE IF orders[i].side = "buy" THEN shares ELSE -shares
      BY <1>7 DEF Gain
    <2>4. CASE orders[i].code # c
      BY <1>16, <1>17, <2>1, <2>2, <2>3, <2>4
    <2>5. CASE orders[i].code = c /\ orders[i].side = "sell"
      BY <1>16, <1>17, <2>1, <2>2, <2>3, <2>5
    <2>6. CASE orders[i].code = c /\ orders[i].side = "buy"
      <3>1. H[c] = 0 /\ \A j \in P : ~(orders[j].side = "buy" /\ orders[j].code = c)
        BY <1>2, <2>6 DEF DueFresh
      <3>2. acc.w.hold[c] = 0
        BY <1>2, <1>17, <3>1 DEF Held
      <3> QED
        BY <1>16, <1>17, <2>1, <2>2, <2>3, <2>6, <3>2
    <2> QED
      BY <1>11, <2>4, <2>5, <2>6
  <1> QED
    BY <1>2, <1>12, <1>13, <1>14, <1>15, <1>18, <1>19 DEF Matched, acc2

\* A due sell is deferred, cancelled or filled.
LEMMA SellStep ==
    ASSUME NEW d \in 1..Horizon, orders \in Seq(OrderRows), cash \in Int, PositionsLatest(d) \in Holdings,
           market[d] \in Markets \cup {Closed},
           NEW acc, NEW P, Matched(d, acc, P), NEW i \in Due(d), i \notin P, orders[i].side = "sell"
    PROVE  Matched(d, MatchSell(acc, i, d), P \cup {i})
  <1> DEFINE o == acc.orders[i]
             c == orders[i].code
             q == market[d][c]
  <1>1. i \in DOMAIN orders /\ orders[i].status = "pending" /\ orders[i] \in OrderRows
    BY DEF Due
  <1>2. acc.orders \in Seq(OrderRows) /\ acc.w.cash \in Int /\ acc.w.hold \in Holdings
    BY DEF Matched, Shaped
  <1>3. o = orders[i] /\ c \in Codes
    BY <1>1 DEF Matched, Kept, OrderRows
  <1>4. MatchSell(acc, i, d) =
            IF MatchFill("sell", q) # "fill" THEN [acc EXCEPT !.orders[i].exec = NextWeekday(d)]
            ELSE IF acc.w.hold[c] = 0 THEN Settle(acc, i, "cancelled")
            ELSE Fill(acc, i, d, SellOne(acc.w, c, q), acc.w.hold[c])
    BY <1>3 DEF MatchSell
  <1>5. CASE MatchFill("sell", q) # "fill"
    <2> DEFINE p == [o EXCEPT !.exec = NextWeekday(d)]
               acc2 == [acc EXCEPT !.orders[i].exec = NextWeekday(d)]
    <2>1. acc2.w = acc.w /\ acc2.trades = acc.trades /\ acc2.orders = [acc.orders EXCEPT ![i] = p]
      BY DEF Matched, Shaped
    <2>2. NextWeekday(d) \in 2..Horizon + 1
      <3>1. Horizon \in Nat
        BY ParametersAssumption
      <3> QED
        BY <3>1 DEF NextWeekday
    <2>3. p \in OrderRows /\ p.code = c /\ p.side = "sell" /\ p.signal = orders[i].signal /\ p.status = "pending"
      BY <1>1, <1>3, <2>2 DEF OrderRows
    <2> HIDE DEF p, acc2
    <2>4. p.status # "filled" /\ ~Pending(p, "buy")
      BY <2>3 DEF Pending
    <2>5. Matched(d, acc2, P \cup {i})
      BY <2>1, <2>3, <2>4, Unfilled
    <2> QED
      BY <1>4, <1>5, <2>5 DEF acc2
  <1>6. CASE MatchFill("sell", q) = "fill" /\ acc.w.hold[c] = 0
    <2> DEFINE p == [o EXCEPT !.status = "cancelled"]
               acc2 == Settle(acc, i, "cancelled")
    <2>1. acc2.w = acc.w /\ acc2.trades = acc.trades /\ acc2.orders = [acc.orders EXCEPT ![i] = p]
      BY DEF Settle
    <2>2. p \in OrderRows /\ p.code = c /\ p.side = "sell" /\ p.signal = orders[i].signal /\ p.status = "cancelled"
      BY <1>1, <1>3 DEF OrderRows
    <2> HIDE DEF p, acc2
    <2>3. p.status # "filled" /\ ~Pending(p, "buy")
      BY <2>2 DEF Pending
    <2>4. Matched(d, acc2, P \cup {i})
      BY <1>6, <2>1, <2>2, <2>3, Unfilled
    <2> QED
      BY <1>4, <1>6, <2>4 DEF acc2
  <1>7. CASE MatchFill("sell", q) = "fill" /\ acc.w.hold[c] # 0
    <2> DEFINE w == SellOne(acc.w, c, q)
    <2>1. /\ w.cash \in Int /\ w.hold = [acc.w.hold EXCEPT ![c] = 0]
          /\ SalesCoverFees /\ acc.w.cash >= 0 => w.cash >= 0
      BY <1>2, <1>3, <1>7, Sale
    <2>2. acc.w.hold[c] \in Nat /\ 0 \in Lots
      <3>1. acc.w.hold[c] \in Lots
        BY <1>2, <1>3 DEF Holdings
      <3>2. 0 \in Lots
        <4>1. Lot \in Nat /\ 0 * Lot = 0
          BY ParametersAssumption
        <4> QED
          BY <4>1, IsLots
      <3> QED
        BY <3>1, <3>2, LotsAreNat
    <2> HIDE DEF w
    <2>3. Matched(d, Fill(acc, i, d, w, acc.w.hold[c]), P \cup {i})
      BY <2>1, <2>2, Filling
    <2> QED
      BY <1>4, <1>7, <2>3 DEF w
  <1> QED
    BY <1>5, <1>6, <1>7

\* A due buy is skipped or filled.
LEMMA BuyStep ==
    ASSUME NEW d \in 1..Horizon, orders \in Seq(OrderRows), cash \in Int, PositionsLatest(d) \in Holdings,
           market[d] \in Markets \cup {Closed}, NEW slot \in Nat,
           NEW acc, NEW P, Matched(d, acc, P), NEW i \in Due(d), i \notin P, orders[i].side = "buy"
    PROVE  Matched(d, MatchBuy(acc, i, d, slot), P \cup {i})
  <1> DEFINE o == acc.orders[i]
             c == orders[i].code
             q == market[d][c]
  <1>1. i \in DOMAIN orders /\ orders[i].status = "pending" /\ orders[i] \in OrderRows
    BY DEF Due
  <1>2. acc.orders \in Seq(OrderRows) /\ acc.w.cash \in Int /\ acc.w.hold \in Holdings
    BY DEF Matched, Shaped
  <1>3. o = orders[i] /\ c \in Codes
    BY <1>1 DEF Matched, Kept, OrderRows
  <1>4. MatchBuy(acc, i, d, slot) =
            IF MatchFill("buy", q) # "fill" \/ ~Affordable(acc.w, slot, q) THEN Settle(acc, i, "skipped")
            ELSE Fill(acc, i, d, BuyOne(acc.w, c, slot, q), BuyShares(slot, q))
    BY <1>3 DEF MatchBuy
  <1>5. CASE MatchFill("buy", q) # "fill" \/ ~Affordable(acc.w, slot, q)
    <2> DEFINE p == [o EXCEPT !.status = "skipped"]
               acc2 == Settle(acc, i, "skipped")
    <2>1. acc2.w = acc.w /\ acc2.trades = acc.trades /\ acc2.orders = [acc.orders EXCEPT ![i] = p]
      BY DEF Settle
    <2>2. p \in OrderRows /\ p.code = c /\ p.side = "buy" /\ p.signal = orders[i].signal /\ p.status = "skipped"
      BY <1>1, <1>3 DEF OrderRows
    <2> HIDE DEF p, acc2
    <2>3. p.status # "filled" /\ ~Pending(p, "buy")
      BY <2>2 DEF Pending
    <2>4. Matched(d, acc2, P \cup {i})
      BY <2>1, <2>2, <2>3, Unfilled
    <2> QED
      BY <1>4, <1>5, <2>4 DEF acc2
  <1>6. CASE MatchFill("buy", q) = "fill" /\ Affordable(acc.w, slot, q)
    <2> DEFINE w == BuyOne(acc.w, c, slot, q)
    <2>1. q.open \in Nat
      <3>1. market[d] \in Quotes
        BY ParametersAssumption
      <3> QED
        BY <1>3, <3>1 DEF Quotes
    <2>2. /\ w.cash \in Int /\ w.hold = [acc.w.hold EXCEPT ![c] = BuyShares(slot, q)]
          /\ w.cash >= 0 /\ BuyShares(slot, q) \in Lots
      BY <1>2, <1>3, <1>6, <2>1, Purchase
    <2>3. BuyShares(slot, q) \in Nat
      BY <2>2, LotsAreNat
    <2> HIDE DEF w
    <2>4. Matched(d, Fill(acc, i, d, w, BuyShares(slot, q)), P \cup {i})
      BY <1>1, <2>2, <2>3, Filling
    <2> QED
      BY <1>4, <1>6, <2>4 DEF w
  <1> QED
    BY <1>5, <1>6

\* The fold over the orders unfolds one order at a time.
LEMMA MatchSideUnfolds ==
    ASSUME orders \in Seq(OrderRows), NEW d, NEW side, NEW first, NEW slot
    PROVE  \E f : /\ f[0] = first
                  /\ \A n \in 1..Len(orders) :
                         f[n] = IF n \notin Due(d) \/ orders[n].side # side THEN f[n - 1]
                                ELSE IF side = "sell" THEN MatchSell(f[n - 1], n, d)
                                ELSE MatchBuy(f[n - 1], n, d, slot)
                  /\ MatchSide(d, side, first, slot) = f[Len(orders)]
  <1> DEFINE N == Len(orders)
             Then(n, x) == IF n \notin Due(d) \/ orders[n].side # side THEN x
                           ELSE IF side = "sell" THEN MatchSell(x, n, d) ELSE MatchBuy(x, n, d, slot)
             Solves(f) == f = [n \in 0..N |-> IF n = 0 THEN first ELSE Then(n, f[n - 1])]
             f == CHOOSE f : Solves(f)
             Upto(n, h) == h = [k \in 0..n |-> h[k]] /\ h[0] = first /\ \A k \in 1..n : h[k] = Then(k, h[k - 1])
             S == {n \in 0..N : \E h : Upto(n, h)}
  <1>1. N \in Nat
    OBVIOUS
  <1>2. MatchSide(d, side, first, slot) = f[N]
    BY DEF MatchSide
  <1> HIDE DEF N, f, Then
  <1>3. 0 \in S
    <2>1. Upto(0, [k \in 0..0 |-> first])
      OBVIOUS
    <2>2. 0 \in 0..N
      BY <1>1
    <2> HIDE DEF Upto
    <2> QED
      BY <2>1, <2>2
  <1>4. ASSUME NEW n \in 1..N, n - 1 \in S PROVE n \in S
    <2>1. PICK h : Upto(n - 1, h)
      BY <1>4
    <2>2. n - 1 \in 0..n-1 /\ n \in 0..N
      BY <1>1
    <2> DEFINE x == Then(n, h[n - 1])
               g == [k \in 0..n |-> IF k = n THEN x ELSE h[k]]
    <2> HIDE DEF x
    <2>3. g = [k \in 0..n |-> g[k]] /\ g[0] = first
      BY <2>1
    <2>4. ASSUME NEW k \in 1..n PROVE g[k] = Then(k, g[k - 1])
      <3>1. k - 1 \in 0..n /\ k \in 0..n /\ k - 1 # n
        OBVIOUS
      <3>2. g[k - 1] = h[k - 1] /\ g[k] = IF k = n THEN x ELSE h[k]
        BY <3>1
      <3> HIDE DEF g
      <3>3. CASE k = n
        BY <3>2, <3>3 DEF x
      <3>4. CASE k # n
        <4>1. k \in 1..n - 1
          BY <3>4
        <4>2. h[k] = Then(k, h[k - 1])
          BY <2>1, <4>1
        <4> QED
          BY <3>2, <3>4, <4>2
      <3> QED
        BY <3>3, <3>4
    <2>5. Upto(n, g)
      BY <2>3, <2>4
    <2> QED
      BY <2>2, <2>5
  <1>5. PICK g : Upto(N, g)
    <2>1. \A n \in 1..N : n - 1 \in S => n \in S
      BY <1>4
    <2>2. N \in S
      <3> HIDE DEF S
      <3>1. N \in 0..N
        BY <1>1
      <3>2. \A n \in 0..N : n \in S
        BY ONLY <1>1, <1>3, <2>1, Induct
      <3> QED
        BY <3>1, <3>2
    <2> QED
      BY <2>2
  <1>6. ASSUME NEW n \in 0..N PROVE g[n] = IF n = 0 THEN first ELSE Then(n, g[n - 1])
    <2>1. CASE n = 0
      BY <1>5, <2>1
    <2>2. CASE n # 0
      <3>1. n \in 1..N
        BY <1>1, <2>2
      <3>2. g[n] = Then(n, g[n - 1])
        BY <1>5, <3>1
      <3> QED
        BY <2>2, <3>2
    <2> QED
      BY <2>1, <2>2
  <1>7. Solves(g)
    BY <1>5, <1>6
  <1>8. Solves(f)
    BY <1>7 DEF f
  <1>9. f[0] = first /\ \A n \in 1..N : f[n] = Then(n, f[n - 1])
    BY <1>1, <1>8
  <1> QED
    BY <1>2, <1>9 DEF N, Then

\* f is the match after each order.
Runs(f, d, side, first, slot) ==
    /\ f[0] = first
    /\ \A n \in 1..Len(orders) :
           f[n] = IF n \notin Due(d) \/ orders[n].side # side THEN f[n - 1]
                  ELSE IF side = "sell" THEN MatchSell(f[n - 1], n, d)
                  ELSE MatchBuy(f[n - 1], n, d, slot)
    /\ MatchSide(d, side, first, slot) = f[Len(orders)]

LEMMA RunsExist ==
    ASSUME orders \in Seq(OrderRows), NEW d, NEW side, NEW first, NEW slot
    PROVE  \E f : Runs(f, d, side, first, slot)
  BY MatchSideUnfolds DEF Runs

\* The due orders of a side up to the order n.
DueOf(d, side, n) == {i \in Due(d) : i <= n /\ orders[i].side = side}

\* Matching a side carries what holds of a match over its due orders.
LEMMA SideRuns ==
    ASSUME NEW d \in 1..Horizon, orders \in Seq(OrderRows), cash \in Int, PositionsLatest(d) \in Holdings,
           market[d] \in Markets \cup {Closed}, NEW side \in {"sell", "buy"}, NEW slot \in Nat,
           NEW first, NEW P, Matched(d, first, P), \A i \in P : orders[i].side # side,
           NEW f, Runs(f, d, side, first, slot)
    PROVE  \A n \in 0..Len(orders) : Matched(d, f[n], P \cup DueOf(d, side, n))
  <1> DEFINE N == Len(orders)
             Upto(n) == P \cup {i \in Due(d) : i <= n /\ orders[i].side = side}
  <1>1. /\ f[0] = first
        /\ \A n \in 1..N :
               f[n] = IF n \notin Due(d) \/ orders[n].side # side THEN f[n - 1]
                      ELSE IF side = "sell" THEN MatchSell(f[n - 1], n, d)
                      ELSE MatchBuy(f[n - 1], n, d, slot)
    BY DEF Runs
  <1>2. N \in Nat /\ DOMAIN orders = 1..N /\ Due(d) \subseteq 1..N
    BY DEF Due
  <1> HIDE DEF N
  <1> DEFINE S == {n \in 0..N : Matched(d, f[n], Upto(n))}
  <1>3. 0 \in S
    <2>1. Upto(0) = P
      BY <1>2
    <2>2. f[0] = first /\ 0 \in 0..N
      BY <1>1, <1>2
    <2> HIDE DEF Upto
    <2> QED
      BY <2>1, <2>2
  <1>4. ASSUME NEW n \in 1..N, n - 1 \in S PROVE n \in S
    <2>1. Matched(d, f[n - 1], Upto(n - 1)) /\ n \in 0..N
      BY <1>2, <1>4
    <2>2. CASE n \notin Due(d) \/ orders[n].side # side
      <3>1. Upto(n) = Upto(n - 1)
        BY <1>2, <2>2
      <3>2. f[n] = f[n - 1]
        BY <1>1, <2>2
      <3> QED
        BY <2>1, <3>1, <3>2
    <2>3. CASE n \in Due(d) /\ orders[n].side = side
      <3>1. Upto(n) = Upto(n - 1) \cup {n} /\ n \notin Upto(n - 1)
        BY <1>2, <2>3
      <3>2. f[n] = IF side = "sell" THEN MatchSell(f[n - 1], n, d) ELSE MatchBuy(f[n - 1], n, d, slot)
        BY <1>1, <2>3
      <3> HIDE DEF Upto
      <3>3. Matched(d, f[n], Upto(n - 1) \cup {n})
        <4>1. CASE side = "sell"
          BY <2>1, <2>3, <3>1, <3>2, <4>1, SellStep
        <4>2. CASE side = "buy"
          BY <2>1, <2>3, <3>1, <3>2, <4>2, BuyStep
        <4> QED
          BY <4>1, <4>2
      <3> QED
        BY <2>1, <3>1, <3>3
    <2> QED
      BY <2>2, <2>3
  <1>5. \A n \in 1..N : n - 1 \in S => n \in S
    BY <1>4
  <1>6. \A n \in 0..N : n \in S
    <2> HIDE DEF S
    <2> QED
      BY ONLY <1>2, <1>3, <1>5, Induct
  <1>7. \A n \in 0..N : Matched(d, f[n], P \cup DueOf(d, side, n))
    BY <1>6 DEF DueOf
  <1> QED
    BY <1>7 DEF N

LEMMA SideMatched ==
    ASSUME NEW d \in 1..Horizon, orders \in Seq(OrderRows), cash \in Int, PositionsLatest(d) \in Holdings,
           market[d] \in Markets \cup {Closed}, NEW side \in {"sell", "buy"}, NEW slot \in Nat,
           NEW first, NEW P, Matched(d, first, P), \A i \in P : orders[i].side # side
    PROVE  Matched(d, MatchSide(d, side, first, slot), P \cup {i \in Due(d) : orders[i].side = side})
  <1> DEFINE N == Len(orders)
  <1>1. PICK f : Runs(f, d, side, first, slot)
    BY RunsExist
  <1>2. N \in Nat /\ N \in 0..N /\ Due(d) \subseteq 1..N
    BY DEF Due
  <1>3. Matched(d, f[N], P \cup DueOf(d, side, N))
    BY <1>1, <1>2, SideRuns
  <1>4. DueOf(d, side, N) = {i \in Due(d) : orders[i].side = side}
    BY <1>2 DEF DueOf
  <1>5. MatchSide(d, side, first, slot) = f[N]
    BY <1>1 DEF Runs
  <1> QED
    BY <1>3, <1>4, <1>5

\* A tick matches all its due orders.
LEMMA MatchMatched ==
    ASSUME NEW d \in 1..Horizon, orders \in Seq(OrderRows), cash \in Int, PositionsLatest(d) \in Holdings,
           market[d] \in Markets \cup {Closed}
    PROVE  Matched(d, Match(d), Due(d))
  <1> DEFINE sold == MatchSide(d, "sell", Opening(d), 0)
             slot == PerTarget(sold.w, market[d])
             P == {i \in Due(d) : orders[i].side = "sell"}
             Q == {i \in Due(d) : orders[i].side = "buy"}
  <1>1. Matched(d, Opening(d), {})
    BY OpeningMatched
  <1>2. Matched(d, sold, {} \cup P)
    BY <1>1, SideMatched
  <1>3. {} \cup P = P
    OBVIOUS
  <1>4. sold.w.cash \in Int /\ sold.w.hold \in [Codes -> Nat]
    <2>1. sold.w.cash \in Int /\ sold.w.hold \in [Codes -> Lots]
      BY <1>2 DEF Matched, Shaped, Holdings
    <2> HIDE DEF sold
    <2> QED
      BY <2>1, LotsAreNat
  <1>5. market[d] \in Quotes
    BY ParametersAssumption
  <1> HIDE DEF sold
  <1>6. slot \in Nat
    BY <1>4, <1>5, SlotIsNat
  <1>7. \A i \in P : orders[i].side # "buy"
    OBVIOUS
  <1>8. P \cup Q = Due(d)
    <2>1. \A o \in OrderRows : o.side \in {"sell", "buy"}
      BY DEF OrderRows
    <2>2. \A i \in Due(d) : orders[i] \in OrderRows
      BY DEF Due
    <2> QED
      BY <2>1, <2>2
  <1>9. Match(d) = MatchSide(d, "buy", sold, slot)
    BY DEF Match, sold
  <1> HIDE DEF slot, P
  <1>10. Matched(d, MatchSide(d, "buy", sold, slot), P \cup Q)
    BY <1>2, <1>3, <1>6, <1>7, SideMatched
  <1> QED
    BY <1>8, <1>9, <1>10

-----------------------------------------------------------------------------
(* New orders *)

LEMMA RankedUnfolds ==
    ASSUME NEW targets \in Seq(Codes), NEW buy
    PROVE  \E f : /\ f[0] = <<>>
                  /\ \A n \in 1..Len(targets) :
                         f[n] = IF targets[n] \in buy THEN Append(f[n - 1], targets[n]) ELSE f[n - 1]
                  /\ Ranked(targets, buy) = f[Len(targets)]
  <1> DEFINE N == Len(targets)
             first == <<>>
             Then(n, x) == IF targets[n] \in buy THEN Append(x, targets[n]) ELSE x
             Solves(f) == f = [n \in 0..N |-> IF n = 0 THEN first ELSE Then(n, f[n - 1])]
             f == CHOOSE f : Solves(f)
             Upto(n, h) == h = [k \in 0..n |-> h[k]] /\ h[0] = first /\ \A k \in 1..n : h[k] = Then(k, h[k - 1])
             S == {n \in 0..N : \E h : Upto(n, h)}
  <1>1. N \in Nat
    OBVIOUS
  <1>2. Ranked(targets, buy) = f[N]
    BY DEF Ranked
  <1> HIDE DEF N, f, Then, first
  <1>3. 0 \in S
    <2>1. Upto(0, [k \in 0..0 |-> first])
      OBVIOUS
    <2>2. 0 \in 0..N
      BY <1>1
    <2> HIDE DEF Upto
    <2> QED
      BY <2>1, <2>2
  <1>4. ASSUME NEW n \in 1..N, n - 1 \in S PROVE n \in S
    <2>1. PICK h : Upto(n - 1, h)
      BY <1>4
    <2>2. n - 1 \in 0..n-1 /\ n \in 0..N
      BY <1>1
    <2> DEFINE x == Then(n, h[n - 1])
               g == [k \in 0..n |-> IF k = n THEN x ELSE h[k]]
    <2> HIDE DEF x
    <2>3. g = [k \in 0..n |-> g[k]] /\ g[0] = first
      BY <2>1
    <2>4. ASSUME NEW k \in 1..n PROVE g[k] = Then(k, g[k - 1])
      <3>1. k - 1 \in 0..n /\ k \in 0..n /\ k - 1 # n
        OBVIOUS
      <3>2. g[k - 1] = h[k - 1] /\ g[k] = IF k = n THEN x ELSE h[k]
        BY <3>1
      <3> HIDE DEF g
      <3>3. CASE k = n
        BY <3>2, <3>3 DEF x
      <3>4. CASE k # n
        <4>1. k \in 1..n - 1
          BY <3>4
        <4>2. h[k] = Then(k, h[k - 1])
          BY <2>1, <4>1
        <4> QED
          BY <3>2, <3>4, <4>2
      <3> QED
        BY <3>3, <3>4
    <2>5. Upto(n, g)
      BY <2>3, <2>4
    <2> QED
      BY <2>2, <2>5
  <1>5. PICK g : Upto(N, g)
    <2>1. \A n \in 1..N : n - 1 \in S => n \in S
      BY <1>4
    <2>2. N \in S
      <3> HIDE DEF S
      <3>1. N \in 0..N
        BY <1>1
      <3>2. \A n \in 0..N : n \in S
        BY ONLY <1>1, <1>3, <2>1, Induct
      <3> QED
        BY <3>1, <3>2
    <2> QED
      BY <2>2
  <1>6. ASSUME NEW n \in 0..N PROVE g[n] = IF n = 0 THEN first ELSE Then(n, g[n - 1])
    <2>1. CASE n = 0
      BY <1>5, <2>1
    <2>2. CASE n # 0
      <3>1. n \in 1..N
        BY <1>1, <2>2
      <3>2. g[n] = Then(n, g[n - 1])
        BY <1>5, <3>1
      <3> QED
        BY <2>2, <3>2
    <2> QED
      BY <2>1, <2>2
  <1>7. Solves(g)
    BY <1>5, <1>6
  <1>8. Solves(f)
    BY <1>7 DEF f
  <1>9. f[0] = first /\ \A n \in 1..N : f[n] = Then(n, f[n - 1])
    BY <1>1, <1>8
  <1> QED
    BY <1>2, <1>9 DEF N, Then, first

\* The ranked targets are targets to buy, none of them twice.
LEMMA RankedOnce ==
    ASSUME NEW targets \in Seq(Codes), IsInjective(targets), NEW buy
    PROVE  /\ Ranked(targets, buy) \in Seq(Codes)
           /\ \A m \in DOMAIN Ranked(targets, buy) :
                  Ranked(targets, buy)[m] \in buy /\ Ranked(targets, buy)[m] \in ToSet(targets)
           /\ \A m, l \in DOMAIN Ranked(targets, buy) : Ranked(targets, buy)[m] = Ranked(targets, buy)[l] => m = l
  <1> DEFINE N == Len(targets)
             Good(n, r) == /\ r \in Seq(Codes)
                           /\ \A m \in 1..Len(r) : r[m] \in buy /\ \E k \in 1..n : targets[k] = r[m]
                           /\ \A m, l \in 1..Len(r) : r[m] = r[l] => m = l
  <1>1. PICK f : /\ f[0] = <<>>
                 /\ \A n \in 1..N :
                        f[n] = IF targets[n] \in buy THEN Append(f[n - 1], targets[n]) ELSE f[n - 1]
                 /\ Ranked(targets, buy) = f[N]
    BY RankedUnfolds
  <1>2. /\ N \in Nat /\ DOMAIN targets = 1..N /\ \A n \in 1..N : targets[n] \in Codes
        /\ \A n, k \in 1..N : targets[n] = targets[k] => n = k
    BY DEF IsInjective
  <1> HIDE DEF N
  <1> DEFINE S == {n \in 0..N : Good(n, f[n])}
  <1>3. 0 \in S
    <2>1. Good(0, <<>>) /\ 0 \in 0..N
      BY <1>2
    <2> HIDE DEF Good
    <2> QED
      BY <1>1, <2>1
  <1>4. ASSUME NEW n \in 1..N, n - 1 \in S PROVE n \in S
    <2> DEFINE r == f[n - 1]
               x == targets[n]
               u == Append(r, x)
    <2>1. Good(n - 1, r) /\ n \in 0..N /\ x \in Codes
      BY <1>2, <1>4
    <2> HIDE DEF r
    <2>2. CASE x \notin buy
      <3>1. f[n] = r
        BY <1>1, <2>2 DEF r
      <3>2. Good(n, r)
        BY <2>1
      <3> HIDE DEF Good
      <3> QED
        BY <2>1, <3>1, <3>2
    <2>3. CASE x \in buy
      <3>1. f[n] = u
        BY <1>1, <2>3 DEF r
      <3>2. /\ u \in Seq(Codes) /\ Len(u) = Len(r) + 1 /\ Len(r) \in Nat /\ u[Len(r) + 1] = x
            /\ \A m \in 1..Len(r) : u[m] = r[m]
        BY <2>1
      <3>3. \A m \in 1..Len(r) : r[m] # x
        <4> TAKE m \in 1..Len(r)
        <4>1. PICK k \in 1..n - 1 : targets[k] = r[m]
          BY <2>1
        <4>2. k \in 1..N /\ k # n
          BY <1>2
        <4> QED
          BY <1>2, <4>1, <4>2
      <3> DEFINE L == Len(r)
      <3>4. L \in Nat /\ Len(u) = L + 1
        BY <3>2
      <3>5. ASSUME NEW m \in 1..L + 1 PROVE u[m] \in buy /\ \E k \in 1..n : targets[k] = u[m]
        <4>1. CASE m = L + 1
          <5>1. n \in 1..n
            BY <1>2
          <5> QED
            BY <2>3, <3>2, <4>1, <5>1
        <4>2. CASE m # L + 1
          <5>1. m \in 1..L
            BY <3>4, <4>2
          <5>2. u[m] = r[m] /\ r[m] \in buy
            BY <2>1, <3>2, <5>1
          <5>3. PICK k \in 1..n - 1 : targets[k] = r[m]
            BY <2>1, <5>1
          <5>4. k \in 1..n
            BY <1>2
          <5> QED
            BY <5>2, <5>3, <5>4
        <4> QED
          BY <4>1, <4>2
      <3>6. ASSUME NEW m \in 1..L + 1, NEW l \in 1..L + 1, u[m] = u[l] PROVE m = l
        <4>1. CASE m = L + 1 /\ l = L + 1
          BY <4>1
        <4>2. CASE m = L + 1 /\ l # L + 1
          <5>1. l \in 1..L
            BY <3>4, <4>2
          <5> QED
            BY <3>2, <3>3, <3>6, <4>2, <5>1
        <4>3. CASE m # L + 1 /\ l = L + 1
          <5>1. m \in 1..L
            BY <3>4, <4>3
          <5> QED
            BY <3>2, <3>3, <3>6, <4>3, <5>1
        <4>4. CASE m # L + 1 /\ l # L + 1
          <5>1. m \in 1..L /\ l \in 1..L
            BY <3>4, <4>4
          <5>2. r[m] = r[l]
            BY <3>2, <3>6, <5>1
          <5> QED
            BY <2>1, <5>1, <5>2
        <4> QED
          BY <4>1, <4>2, <4>3, <4>4
      <3> HIDE DEF u, L
      <3>7. Good(n, u)
        BY <3>2, <3>4, <3>5, <3>6
      <3> HIDE DEF Good
      <3> QED
        BY <2>1, <3>1, <3>7
    <2> QED
      BY <2>2, <2>3
  <1>5. \A n \in 1..N : n - 1 \in S => n \in S
    BY <1>4
  <1>6. N \in S
    <2> HIDE DEF S
    <2>1. N \in 0..N
      BY <1>2
    <2>2. \A n \in 0..N : n \in S
      BY ONLY <1>2, <1>3, <1>5, Induct
    <2> QED
      BY <2>1, <2>2
  <1> DEFINE R == Ranked(targets, buy)
  <1>7. Good(N, R)
    <2>1. Good(N, f[N])
      BY <1>6
    <2> HIDE DEF Good
    <2> QED
      BY <1>1, <2>1
  <1> HIDE DEF R
  <1>8. DOMAIN R = 1..Len(R)
    BY <1>7
  <1>9. \A m \in DOMAIN R : R[m] \in ToSet(targets)
    BY <1>2, <1>7, <1>8 DEF ToSet
  <1>10. R \in Seq(Codes) /\ (\A m \in DOMAIN R : R[m] \in buy /\ R[m] \in ToSet(targets))
         /\ \A m, l \in DOMAIN R : R[m] = R[l] => m = l
    BY <1>7, <1>8, <1>9
  <1> QED
    BY <1>10 DEF R

\* What CreateOrders adds: pending orders of the day, a sell for every held code that is no
\* target, and buys of different targets, without a tolerance none of them held.
LEMMA Created ==
    ASSUME NEW hold \in Holdings, NEW targets \in Seq(Codes), IsInjective(targets),
           NEW d \in 1..Horizon, NEW over, NEW under
    PROVE  LET new == CreateOrders(hold, targets, d, over, under)
           IN  /\ new \in Seq(OrderRows)
               /\ \A i \in DOMAIN new : new[i].signal = d /\ new[i].exec = d + 1 /\ new[i].status = "pending"
               /\ \A i \in DOMAIN new : new[i].side = "buy" =>
                      /\ new[i].code \in ToSet(targets)
                      /\ under = {} => hold[new[i].code] = 0
                      /\ \A j \in DOMAIN new : new[j].side = "buy" /\ new[j].code = new[i].code => i = j
               /\ \A c \in Codes : hold[c] > 0 /\ c \notin ToSet(targets)
                      => \E i \in DOMAIN new : new[i].code = c /\ new[i].side = "sell"
  <1> DEFINE intents == DiffOrders(hold, targets, over, under)
             sells == SetToSeq(intents.sell)
             buys == Ranked(targets, intents.buy)
             A == [i \in 1..Len(sells) |-> Order(sells[i], "sell", d)]
             B == [i \in 1..Len(buys) |-> Order(buys[i], "buy", d)]
             new == CreateOrders(hold, targets, d, over, under)
             L == Len(sells)
             M == Len(buys)
  <1>1. new = A \o B
    BY DEF CreateOrders
  <1>2. /\ intents.sell \subseteq Codes
        /\ \A c \in Codes : hold[c] > 0 /\ c \notin ToSet(targets) => c \in intents.sell
        /\ \A c \in intents.buy : c \in Codes /\ (under = {} => ~(hold[c] > 0))
    <2>1. ToSet(targets) \subseteq Codes
      BY DEF ToSet
    <2> QED
      BY <2>1 DEF DiffOrders
  <1>3. /\ sells \in Seq(Codes) /\ L \in Nat
        /\ \A c \in Codes : hold[c] > 0 /\ c \notin ToSet(targets) => \E n \in 1..L : sells[n] = c
    <2>1. IsFiniteSet(intents.sell)
      BY <1>2, ParametersAssumption, FS_Subset
    <2> HIDE DEF intents
    <2>2. /\ sells \in Seq(intents.sell)
          /\ \A x \in intents.sell : \E n \in 1..L : sells[n] = x
      BY <2>1, Listed
    <2> HIDE DEF sells
    <2>3. L \in Nat /\ sells = [n \in 1..L |-> sells[n]] /\ \A n \in 1..L : sells[n] \in intents.sell
      BY <2>2
    <2>4. \A n \in 1..L : sells[n] \in Codes
      BY <1>2, <2>3
    <2>5. sells \in Seq(Codes)
      BY <2>3, <2>4
    <2> QED
      BY <1>2, <2>2, <2>3, <2>5
  <1>4. /\ buys \in Seq(Codes) /\ M \in Nat
        /\ \A m \in 1..M : buys[m] \in intents.buy /\ buys[m] \in ToSet(targets)
        /\ \A m, l \in 1..M : buys[m] = buys[l] => m = l
    <2> HIDE DEF intents
    <2>1. /\ buys \in Seq(Codes)
          /\ \A m \in DOMAIN buys : buys[m] \in intents.buy /\ buys[m] \in ToSet(targets)
          /\ \A m, l \in DOMAIN buys : buys[m] = buys[l] => m = l
      BY RankedOnce
    <2> HIDE DEF buys
    <2> QED
      BY <2>1
  <1>5. \A c \in Codes, side \in {"buy", "sell"} :
            /\ Order(c, side, d) \in OrderRows
            /\ Order(c, side, d).code = c /\ Order(c, side, d).side = side
            /\ Order(c, side, d).signal = d /\ Order(c, side, d).exec = d + 1
            /\ Order(c, side, d).status = "pending"
    <2>1. Horizon \in Nat
      BY ParametersAssumption
    <2>2. d + 1 \in 2..Horizon + 1
      BY <2>1
    <2> QED
      BY <2>2 DEF Order, OrderRows, NextWeekday
  <1> HIDE DEF intents, sells, buys, L, M
  <1>6. /\ A \in Seq(OrderRows) /\ Len(A) = L /\ B \in Seq(OrderRows) /\ Len(B) = M
        /\ \A i \in 1..L : A[i] = Order(sells[i], "sell", d) /\ sells[i] \in Codes
        /\ \A i \in 1..M : B[i] = Order(buys[i], "buy", d) /\ buys[i] \in Codes
    <2>1. Len(sells) = L /\ Len(buys) = M
      BY DEF L, M
    <2>2. (\A i \in 1..L : sells[i] \in Codes) /\ (\A i \in 1..M : buys[i] \in Codes)
      BY <1>3, <1>4, <2>1
    <2>3. /\ (\A i \in 1..L : Order(sells[i], "sell", d) \in OrderRows)
          /\ (\A i \in 1..M : Order(buys[i], "buy", d) \in OrderRows)
      BY <1>5, <2>2
    <2> QED
      BY <1>3, <1>4, <2>1, <2>2, <2>3
  <1> HIDE DEF A, B, new
  <1>7. /\ new \in Seq(OrderRows) /\ DOMAIN new = 1..L + M
        /\ \A i \in 1..L : new[i] = A[i]
        /\ \A i \in 1..M : new[L + i] = B[i]
    <2>1. A \in Seq(OrderRows) /\ Len(A) = L /\ B \in Seq(OrderRows) /\ Len(B) = M /\ L \in Nat /\ M \in Nat
      BY <1>3, <1>4, <1>6
    <2>2. new \in Seq(OrderRows) /\ Len(new) = L + M
      BY ONLY <1>1, <2>1
    <2>3. DOMAIN new = 1..L + M
      BY <2>2
    <2>4. \A i \in 1..L : new[i] = A[i]
      BY ONLY <1>1, <2>1
    <2>5. \A i \in 1..M : new[L + i] = B[i]
      BY ONLY <1>1, <2>1
    <2> QED
      BY <2>2, <2>3, <2>4, <2>5
  <1>8. \A i \in 1..L + M : \/ i \in 1..L /\ new[i] = Order(sells[i], "sell", d) /\ sells[i] \in Codes
                            \/ \E m \in 1..M : i = L + m /\ new[i] = Order(buys[m], "buy", d) /\ buys[m] \in Codes
    <2> TAKE i \in 1..L + M
    <2>1. CASE i \in 1..L
      BY <1>6, <1>7, <2>1
    <2>2. CASE i \notin 1..L
      <3>1. i - L \in 1..M /\ i = L + (i - L)
        BY <1>3, <1>4, <2>2
      <3> QED
        BY <1>6, <1>7, <3>1
    <2> QED
      BY <2>1, <2>2
  <1>9. \A i \in 1..L + M : new[i].signal = d /\ new[i].exec = d + 1 /\ new[i].status = "pending"
    BY <1>5, <1>8
  <1>10. ASSUME NEW i \in 1..L + M, new[i].side = "buy"
         PROVE  \E m \in 1..M : i = L + m /\ new[i].code = buys[m] /\ buys[m] \in Codes
    BY <1>5, <1>8, <1>10
  <1>11. ASSUME NEW i \in 1..L + M, new[i].side = "buy"
         PROVE  /\ new[i].code \in ToSet(targets)
                /\ under = {} => hold[new[i].code] = 0
                /\ \A j \in 1..L + M : new[j].side = "buy" /\ new[j].code = new[i].code => i = j
    <2>1. PICK m \in 1..M : i = L + m /\ new[i].code = buys[m] /\ buys[m] \in Codes
      BY <1>10, <1>11
    <2>2. under = {} => hold[buys[m]] = 0
      <3>1. hold[buys[m]] \in Nat
        BY <2>1, LotsAreNat DEF Holdings
      <3>2. buys[m] \in intents.buy
        BY <1>4
      <3>3. under = {} => ~(hold[buys[m]] > 0)
        BY <1>2, <3>2
      <3> QED
        BY <3>1, <3>3
    <2>3. ASSUME NEW j \in 1..L + M, new[j].side = "buy", new[j].code = new[i].code PROVE i = j
      <3>1. PICK l \in 1..M : j = L + l /\ new[j].code = buys[l]
        BY <1>10, <2>3
      <3> QED
        BY <1>4, <2>1, <2>3, <3>1
    <2> QED
      BY <1>4, <2>1, <2>2, <2>3
  <1>12. ASSUME NEW c \in Codes, hold[c] > 0, c \notin ToSet(targets)
         PROVE  \E i \in 1..L + M : new[i].code = c /\ new[i].side = "sell"
    <2>1. PICK n \in 1..L : sells[n] = c
      BY <1>3, <1>12
    <2>2. n \in 1..L + M
      BY <1>3, <1>4
    <2>3. new[n] = Order(c, "sell", d)
      BY <1>6, <1>7, <2>1
    <2> QED
      BY <1>5, <2>2, <2>3
  <1>13. /\ new \in Seq(OrderRows)
         /\ \A i \in DOMAIN new : new[i].signal = d /\ new[i].exec = d + 1 /\ new[i].status = "pending"
         /\ \A i \in DOMAIN new : new[i].side = "buy" =>
                /\ new[i].code \in ToSet(targets)
                /\ under = {} => hold[new[i].code] = 0
                /\ \A j \in DOMAIN new : new[j].side = "buy" /\ new[j].code = new[i].code => i = j
         /\ \A c \in Codes : hold[c] > 0 /\ c \notin ToSet(targets)
                => \E i \in DOMAIN new : new[i].code = c /\ new[i].side = "sell"
    BY <1>7, <1>9, <1>11, <1>12
  <1> QED
    BY <1>13 DEF new

-----------------------------------------------------------------------------
(* The books a tick leaves *)

\* The sums over the trades of an account and of a tick.
LEMMA SumsAdd ==
    ASSUME NEW s \in Seq(TradeRows), NEW t \in Seq(TradeRows), NEW c, NEW d \in Int
    PROVE  /\ Total(Flows(s \o t)) = Total(Flows(s)) + Total(Flows(t))
           /\ Total(Gains(s \o t, c, d)) = Total(Gains(s, c, d)) + Total(Gains(t, c, d))
           /\ Gains(s, c, d) \in Seq(Int) /\ Len(Gains(s, c, d)) = Len(s)
           /\ Total(Flows(s)) \in Int /\ Total(Gains(s, c, d)) \in Int
  <1> DEFINE N == Len(s)
             M == Len(t)
             u == s \o t
  <1>1. \A r \in TradeRows : r.flow \in Int /\ Gain(r, c, d) \in Int
    BY DEF TradeRows, Gain
  <1>2. /\ N \in Nat /\ M \in Nat /\ DOMAIN s = 1..N /\ DOMAIN t = 1..M /\ DOMAIN u = 1..N + M
        /\ \A n \in 1..N : s[n] \in TradeRows /\ u[n] = s[n]
        /\ \A n \in 1..M : t[n] \in TradeRows /\ u[N + n] = t[n]
    OBVIOUS
  <1> HIDE DEF N, M, u
  <1> DEFINE fs == [n \in 1..N |-> s[n].flow]
             ft == [n \in 1..M |-> t[n].flow]
             fu == [n \in 1..N + M |-> u[n].flow]
             gs == [n \in 1..N |-> Gain(s[n], c, d)]
             gt == [n \in 1..M |-> Gain(t[n], c, d)]
             gu == [n \in 1..N + M |-> Gain(u[n], c, d)]
  <1>3. /\ Flows(s) = fs /\ Flows(t) = ft /\ Flows(u) = fu
        /\ Gains(s, c, d) = gs /\ Gains(t, c, d) = gt /\ Gains(u, c, d) = gu
    BY <1>2 DEF Flows, Gains
  <1>4. \A n \in 1..N + M : u[n] \in TradeRows
    <2> TAKE n \in 1..N + M
    <2>1. CASE n \in 1..N
      BY <1>2, <2>1
    <2>2. CASE n \notin 1..N
      <3>1. n - N \in 1..M /\ N + (n - N) = n
        BY <1>2, <2>2
      <3>2. u[N + (n - N)] = t[n - N] /\ t[n - N] \in TradeRows
        BY <1>2, <3>1
      <3> QED
        BY <3>1, <3>2
    <2> QED
      BY <2>1, <2>2
  <1>5. fs \in Seq(Int) /\ Len(fs) = N /\ \A n \in 1..N : fs[n] = s[n].flow
    BY <1>1, <1>2
  <1>6. ft \in Seq(Int) /\ Len(ft) = M /\ \A n \in 1..M : ft[n] = t[n].flow
    BY <1>1, <1>2
  <1>7. fu \in Seq(Int) /\ Len(fu) = N + M /\ \A n \in 1..N + M : fu[n] = u[n].flow
    BY <1>1, <1>2, <1>4
  <1>8. gs \in Seq(Int) /\ Len(gs) = N /\ \A n \in 1..N : gs[n] = Gain(s[n], c, d)
    BY <1>1, <1>2
  <1>9. gt \in Seq(Int) /\ Len(gt) = M /\ \A n \in 1..M : gt[n] = Gain(t[n], c, d)
    BY <1>1, <1>2
  <1>10. gu \in Seq(Int) /\ Len(gu) = N + M /\ \A n \in 1..N + M : gu[n] = Gain(u[n], c, d)
    BY <1>1, <1>2, <1>4
  <1> HIDE DEF fs, ft, fu, gs, gt, gu
  <1>11. \A n \in 1..N : n \in 1..N + M
    BY <1>2
  <1>12. \A n \in 1..M : N + n \in 1..N + M
    BY <1>2
  <1>13. (\A n \in 1..N : fu[n] = fs[n]) /\ (\A n \in 1..N : gu[n] = gs[n])
    BY <1>2, <1>5, <1>7, <1>8, <1>10, <1>11
  <1>14. (\A n \in 1..M : fu[N + n] = ft[n]) /\ (\A n \in 1..M : gu[N + n] = gt[n])
    BY <1>2, <1>6, <1>7, <1>9, <1>10, <1>12
  <1>15. Total(fu) = Total(fs) + Total(ft)
    BY <1>5, <1>6, <1>7, <1>13, <1>14, TotalSplit
  <1>16. Total(gu) = Total(gs) + Total(gt)
    BY <1>8, <1>9, <1>10, <1>13, <1>14, TotalSplit
  <1>17. Total(fs) \in Int /\ Total(gs) \in Int
    BY <1>5, <1>8, TotalIsInt
  <1> QED
    BY <1>3, <1>8, <1>15, <1>16, <1>17 DEF N, u

\* The snapshot a tick starts from is that of the last tick, unless one was sold out.
LEMMA LatestIsLast ==
    ASSUME World, Rows(today, cash, positions, orders, trades, signalled),
           NEW d \in 1..today, \A x \in ticked : x < d
    PROVE  /\ PositionsLatest(d) \in Holdings
           /\ ~HasGap(positions) /\ ticked = {} => PositionsLatest(d) = None
           /\ ~HasGap(positions) => \A x \in ticked : Greatest(x, ticked) => PositionsLatest(d) = positions[x]
  <1> DEFINE withRows == {x \in ticked : x < d /\ ~EmptyWallet(positions[x])}
             g == CHOOSE x \in withRows : \A y \in withRows : y <= x
  <1>1. today \in Nat /\ ticked \subseteq 1..today /\ \A x \in ticked : positions[x] \in Holdings
    BY ParametersAssumption DEF World, Rows, ticked
  <1>2. PositionsLatest(d) = IF withRows = {} THEN None ELSE positions[g]
    BY DEF PositionsLatest
  <1>3. None \in Holdings
    <2>1. 0 \in Lots
      <3>1. 0 * Lot = 0
        BY ParametersAssumption
      <3> QED
        BY <3>1, IsLots
    <2> QED
      BY <2>1 DEF None, Holdings
  <1>4. withRows # {} => g \in withRows /\ \A y \in withRows : y <= g
    <2> SUFFICES ASSUME withRows # {} PROVE g \in withRows /\ \A y \in withRows : y <= g
      OBVIOUS
    <2>1. withRows \in SUBSET (0..today)
      <3>1. \A x \in ticked : x \in 0..today
        BY <1>1
      <3> QED
        BY <3>1
    <2> HIDE DEF withRows
    <2>2. \E x \in withRows : \A y \in withRows : y <= x
      BY <1>1, <2>1, GreatestExists DEF Greatest
    <2> QED
      BY <2>2
  <1> HIDE DEF g
  <1>5. PositionsLatest(d) \in Holdings
    BY <1>1, <1>2, <1>3, <1>4
  <1>6. ticked = {} => PositionsLatest(d) = None
    BY <1>2
  <1>7. ASSUME ~HasGap(positions), NEW x \in ticked, Greatest(x, ticked)
        PROVE  PositionsLatest(d) = positions[x]
    <2>1. CASE EmptyWallet(positions[x])
      <3>1. \A y \in ticked : EmptyWallet(positions[y])
        <4> SUFFICES ASSUME NEW y \in ticked, ~EmptyWallet(positions[y]) PROVE FALSE
          OBVIOUS
        <4>1. y <= x /\ y # x /\ y \in Nat /\ x \in Nat
          BY <1>1, <1>7, <2>1 DEF Greatest
        <4>2. y < x
          BY <4>1
        <4> QED
          BY <1>7, <2>1, <4>2 DEF HasGap, ticked
      <3> QED
        BY <1>2, <2>1, <3>1 DEF EmptyWallet
    <2>2. CASE ~EmptyWallet(positions[x])
      <3>1. x \in withRows
        BY <2>2
      <3>2. g \in ticked /\ x <= g
        BY <1>4, <3>1
      <3>3. g <= x /\ g \in Nat /\ x \in Nat
        BY <1>1, <1>7, <3>2 DEF Greatest
      <3>4. g = x
        BY <3>2, <3>3
      <3> QED
        BY <1>2, <3>1, <3>4
    <2> QED
      BY <2>1, <2>2
  <1> QED
    BY <1>5, <1>6, <1>7

\* The orders a tick leaves, and the days.
NewOrders(d, signals, over, under) ==
    IF signals THEN CreateOrders(Match(d).w.hold, ranks[d], d, over, under) ELSE <<>>
Snapshots(d, h) == [x \in ticked \cup {d} |-> IF x = d THEN h ELSE positions[x]]
SignalDays(d, signals) == IF signals THEN signalled \cup {d} ELSE signalled

\* What the books and the guard of a tick say before it.
Before(d) ==
    /\ World /\ Books(today, ranks, cash, positions, orders, trades, signalled)
    /\ d \in 1..today /\ \A x \in ticked : x < d

LEMMA BeforeFacts ==
    ASSUME NEW d, Before(d)
    PROVE  /\ d \in 1..Horizon /\ today \in Nat /\ orders \in Seq(OrderRows) /\ trades \in Seq(TradeRows)
           /\ cash \in Int /\ PositionsLatest(d) \in Holdings
           /\ ticked \subseteq 1..today /\ signalled \subseteq ticked
           /\ market[d] \in Markets \cup {Closed}
           /\ ranks[d] \in Seq(Codes) /\ IsInjective(ranks[d])
           /\ Matched(d, Match(d), Due(d)) /\ Due(d) \subseteq DOMAIN orders
  <1>1. World /\ Rows(today, cash, positions, orders, trades, signalled) /\ d \in 1..today /\ \A x \in ticked : x < d
    BY DEF Before, Books
  <1>2. Horizon \in Nat /\ today \in 0..Horizon
    BY <1>1, ParametersAssumption DEF World
  <1>3. d \in 1..Horizon /\ today \in Nat
    BY <1>1, <1>2
  <1>4. /\ orders \in Seq(OrderRows) /\ trades \in Seq(TradeRows) /\ cash \in Int
        /\ ticked \subseteq 1..today /\ signalled \subseteq ticked
    BY <1>1 DEF Rows, ticked
  <1>5. PositionsLatest(d) \in Holdings
    BY <1>1, LatestIsLast
  <1>6. market[d] \in Markets \cup {Closed} /\ ranks[d] \in Rankings \cup {<<>>}
    BY <1>1 DEF World
  <1>7. ranks[d] \in Seq(Codes) /\ IsInjective(ranks[d])
    <2>1. <<>> \in Seq(Codes) /\ IsInjective(<<>>)
      BY DEF IsInjective
    <2>2. \A r \in Rankings : r \in Seq(Codes) /\ IsInjective(r)
      BY ParametersAssumption
    <2> QED
      BY <1>6, <2>1, <2>2
  <1>8. Matched(d, Match(d), Due(d))
    BY <1>3, <1>4, <1>5, <1>6, MatchMatched
  <1>9. Due(d) \subseteq DOMAIN orders
    BY DEF Due
  <1> QED
    BY <1>3, <1>4, <1>5, <1>6, <1>7, <1>8, <1>9

\* The orders after a tick: the matched ones, then the new ones.
Follow(os, new, d, signals, under) ==
    LET L == Len(orders)
        M == Len(new)
        hold == Match(d).w.hold
    IN  /\ os \in Seq(OrderRows) /\ DOMAIN os = 1..L + M /\ DOMAIN orders = 1..L /\ L \in Nat /\ M \in Nat
        /\ \A i \in 1..L : os[i] = Match(d).orders[i]
        /\ \A i \in 1..M : os[L + i] = new[i] /\ L + i \in 1..L + M
        /\ \A i \in 1..L + M : i \in 1..L \/ \E k \in 1..M : i = L + k
        /\ \A i \in 1..M : signals /\ new[i].signal = d /\ new[i].exec = d + 1 /\ new[i].status = "pending"
        /\ \A i \in 1..M : new[i].side = "buy" =>
               /\ new[i].code \in ToSet(ranks[d])
               /\ under = {} => hold[new[i].code] = 0
               /\ \A j \in 1..M : new[j].side = "buy" /\ new[j].code = new[i].code => i = j
        /\ signals => \A c \in Codes : hold[c] > 0 /\ c \notin ToSet(ranks[d])
               => \E i \in 1..M : new[i].code = c /\ new[i].side = "sell"

LEMMA OrdersAfter ==
    ASSUME NEW d, Before(d), NEW signals \in BOOLEAN, NEW over, NEW under
    PROVE  Follow(Match(d).orders \o NewOrders(d, signals, over, under), NewOrders(d, signals, over, under),
                  d, signals, under)
  <1> DEFINE new == NewOrders(d, signals, over, under)
             ms == Match(d).orders
             os == ms \o new
             L == Len(orders)
             M == Len(new)
             hold == Match(d).w.hold
  <1>1. /\ d \in 1..Horizon /\ orders \in Seq(OrderRows)
        /\ ranks[d] \in Seq(Codes) /\ IsInjective(ranks[d]) /\ Matched(d, Match(d), Due(d))
    BY BeforeFacts
  <1>2. ms \in Seq(OrderRows) /\ Len(ms) = L /\ hold \in Holdings
    BY <1>1 DEF Matched, Shaped
  <1>3. /\ new \in Seq(OrderRows)
        /\ \A i \in DOMAIN new : signals /\ new[i].signal = d /\ new[i].exec = d + 1 /\ new[i].status = "pending"
        /\ \A i \in DOMAIN new : new[i].side = "buy" =>
               /\ new[i].code \in ToSet(ranks[d])
               /\ under = {} => hold[new[i].code] = 0
               /\ \A j \in DOMAIN new : new[j].side = "buy" /\ new[j].code = new[i].code => i = j
        /\ signals => \A c \in Codes : hold[c] > 0 /\ c \notin ToSet(ranks[d])
               => \E i \in DOMAIN new : new[i].code = c /\ new[i].side = "sell"
    <2>1. CASE signals
      <3> DEFINE h == hold
      <3>1. new = CreateOrders(h, ranks[d], d, over, under)
        BY <2>1 DEF NewOrders
      <3>2. h \in Holdings
        BY <1>2
      <3> HIDE DEF h, new
      <3>3. /\ new \in Seq(OrderRows)
            /\ \A i \in DOMAIN new : new[i].signal = d /\ new[i].exec = d + 1 /\ new[i].status = "pending"
            /\ \A i \in DOMAIN new : new[i].side = "buy" =>
                   /\ new[i].code \in ToSet(ranks[d])
                   /\ under = {} => h[new[i].code] = 0
                   /\ \A j \in DOMAIN new : new[j].side = "buy" /\ new[j].code = new[i].code => i = j
            /\ \A c \in Codes : h[c] > 0 /\ c \notin ToSet(ranks[d])
                   => \E i \in DOMAIN new : new[i].code = c /\ new[i].side = "sell"
        BY <1>1, <3>1, <3>2, Created
      <3> QED
        BY <2>1, <3>3 DEF h
    <2>2. CASE ~signals
      <3>1. new = <<>>
        BY <2>2 DEF NewOrders
      <3> HIDE DEF new, hold
      <3>2. new \in Seq(OrderRows) /\ DOMAIN new = {}
        BY <3>1
      <3> QED
        BY <2>2, <3>2
    <2> QED
      BY <2>1, <2>2
  <1>4. DOMAIN new = 1..M /\ M \in Nat /\ L \in Nat /\ DOMAIN orders = 1..L
    BY <1>1, <1>3
  <1> HIDE DEF new, ms, hold
  <1>5. os \in Seq(OrderRows) /\ Len(os) = L + M
    BY ONLY <1>2, <1>3, <1>4
  <1>6. DOMAIN os = 1..L + M
    BY <1>5
  <1>7. \A i \in 1..L : os[i] = ms[i]
    BY ONLY <1>2, <1>3, <1>4
  <1>8. \A i \in 1..M : os[L + i] = new[i]
    <2>1. \A i \in 1..Len(new) : (ms \o new)[Len(ms) + i] = new[i]
      BY <1>2, <1>3
    <2> QED
      BY <1>2, <2>1
  <1> HIDE DEF os
  <1>9. (\A i \in 1..M : L + i \in 1..L + M) /\ \A i \in 1..L + M : i \in 1..L \/ \E k \in 1..M : i = L + k
    <2>1. \A i \in 1..L + M : i \in 1..L \/ (i - L \in 1..M /\ i = L + (i - L))
      BY <1>4
    <2>2. \A i \in 1..M : L + i \in 1..L + M
      BY <1>4
    <2> QED
      BY <2>1, <2>2
  <1> QED
    <2>1. \A i \in 1..M : signals /\ new[i].signal = d /\ new[i].exec = d + 1 /\ new[i].status = "pending"
      BY ONLY <1>3, <1>4
    <2>2. \A i \in 1..M : new[i].side = "buy" =>
              /\ new[i].code \in ToSet(ranks[d])
              /\ under = {} => hold[new[i].code] = 0
              /\ \A j \in 1..M : new[j].side = "buy" /\ new[j].code = new[i].code => i = j
      BY ONLY <1>3, <1>4
    <2>3. signals => \A c \in Codes : hold[c] > 0 /\ c \notin ToSet(ranks[d])
              => \E i \in 1..M : new[i].code = c /\ new[i].side = "sell"
      BY ONLY <1>3, <1>4
    <2>4. \A i \in 1..M : os[L + i] = new[i] /\ L + i \in 1..L + M
      BY <1>8, <1>9
    <2> HIDE DEF L, M
    <2>5. Follow(os, new, d, signals, under)
      BY <1>4, <1>5, <1>6, <1>7, <1>9, <2>1, <2>2, <2>3, <2>4, Zenon DEF Follow, ms, hold, L, M
    <2> QED
      BY <2>5 DEF os, ms, new

\* A tick leaves balanced books.
LEMMA TickBalances ==
    ASSUME NEW d, Before(d), NEW signals \in BOOLEAN, NEW over, NEW under \in Drifts
    PROVE  Books(today, ranks, Match(d).w.cash, Snapshots(d, Match(d).w.hold),
                 Match(d).orders \o NewOrders(d, signals, over, under), trades \o Match(d).trades,
                 SignalDays(d, signals))
  <1> DEFINE m == Match(d)
             k == m.w.cash
             hold == m.w.hold
             ms == m.orders
             mt == m.trades
             new == NewOrders(d, signals, over, under)
             os == ms \o new
             ts == trades \o mt
             pos == Snapshots(d, hold)
             sig == SignalDays(d, signals)
             L == Len(orders)
             M == Len(new)
             H == PositionsLatest(d)
  <1>1. /\ d \in 1..Horizon /\ today \in Nat /\ orders \in Seq(OrderRows) /\ trades \in Seq(TradeRows)
        /\ cash \in Int /\ H \in Holdings
        /\ ticked \subseteq 1..today /\ signalled \subseteq ticked
        /\ Matched(d, m, Due(d)) /\ Due(d) \subseteq DOMAIN orders
    BY BeforeFacts
  <1>2. d \in 1..today /\ \A x \in ticked : x < d
    BY DEF Before
  <1>3. /\ Rows(today, cash, positions, orders, trades, signalled) /\ (SalesCoverFees => cash >= 0)
        /\ cash = InitialCash + Total(Flows(trades)) /\ Fills(orders, trades)
        /\ Entries(ranks, positions, orders, signalled)
        /\ HasGap(positions) \/ Exits(ranks, positions, orders, signalled)
        /\ NoTopUps => HasGap(positions) \/ (Fresh(positions, orders) /\ SharesAdd(positions, trades))
    BY DEF Before, Books
  <1>4. Follow(os, new, d, signals, under)
    BY OrdersAfter
  <1>5. /\ Shaped(m) /\ Kept(m, Due(d)) /\ Traded(d, m, Due(d)) /\ Paid(m) /\ Added(d, m) /\ Held(d, m, Due(d))
    BY <1>1 DEF Matched
  <1>6. k \in Int /\ hold \in Holdings /\ mt \in Seq(TradeRows)
    BY <1>5 DEF Shaped
  <1>7. /\ \A i \in 1..L : ms[i].code = orders[i].code /\ ms[i].side = orders[i].side /\ ms[i].signal = orders[i].signal
        /\ \A i \in 1..L : i \notin Due(d) => ms[i] = orders[i]
        /\ \A i \in Due(d) : ~Pending(ms[i], "buy")
        /\ DOMAIN orders = 1..L
    BY <1>4, <1>5 DEF Kept, Follow
  <1>8. \A i \in Due(d) : orders[i].status = "pending" /\ orders[i].signal < d
    BY DEF Due
  <1>9. /\ os \in Seq(OrderRows) /\ DOMAIN os = 1..L + M /\ L \in Nat /\ M \in Nat
        /\ \A i \in 1..L : os[i] = ms[i] /\ i \in 1..L + M
        /\ \A i \in 1..M : os[L + i] = new[i] /\ L + i \in 1..L + M
        /\ \A i \in 1..L + M : i \in 1..L \/ \E n \in 1..M : i = L + n
        /\ \A i \in 1..M : signals /\ new[i].signal = d /\ new[i].exec = d + 1 /\ new[i].status = "pending"
    <2>1. L \in Nat /\ M \in Nat
      BY <1>4 DEF Follow
    <2>2. \A i \in 1..L : i \in 1..L + M
      BY <2>1
    <2> QED
      BY <1>4, <2>2 DEF Follow
  <1>10. /\ \A i \in 1..M : new[i].side = "buy" =>
                /\ new[i].code \in ToSet(ranks[d])
                /\ under = {} => hold[new[i].code] = 0
                /\ \A j \in 1..M : new[j].side = "buy" /\ new[j].code = new[i].code => i = j
         /\ signals => \A c \in Codes : hold[c] > 0 /\ c \notin ToSet(ranks[d])
                => \E i \in 1..M : new[i].code = c /\ new[i].side = "sell"
    BY <1>4 DEF Follow
  <1>11. /\ DOMAIN pos = ticked \cup {d} /\ pos[d] = hold /\ pos = [x \in DOMAIN pos |-> pos[x]]
         /\ \A x \in ticked : x # d /\ pos[x] = positions[x]
    BY <1>2 DEF Snapshots
  <1>12. d \in Nat /\ ticked \subseteq Nat
    BY <1>1
  <1> HIDE DEF m, k, hold, ms, mt, new, os, pos, sig, L, M
  <1> DEFINE nt == Len(trades)
             nm == Len(mt)
  <1>13. /\ ts \in Seq(TradeRows) /\ DOMAIN ts = 1..nt + nm /\ DOMAIN trades = 1..nt /\ DOMAIN mt = 1..nm
         /\ nt \in Nat /\ nm \in Nat
         /\ \A n \in 1..nt : ts[n] = trades[n] /\ n \in 1..nt + nm
         /\ \A n \in 1..nm : ts[nt + n] = mt[n] /\ nt + n \in 1..nt + nm
         /\ \A n \in 1..nt + nm : n \in 1..nt \/ (n - nt \in 1..nm /\ n = nt + (n - nt))
    <2>1. nt \in Nat /\ nm \in Nat /\ DOMAIN trades = 1..nt /\ DOMAIN mt = 1..nm
      BY <1>1, <1>6
    <2>2. ts \in Seq(TradeRows) /\ DOMAIN ts = 1..nt + nm
      BY <1>1, <1>6
    <2>3. \A n \in 1..nt : ts[n] = trades[n] /\ n \in 1..nt + nm
      BY <1>1, <1>6
    <2>4. \A n \in 1..nm : ts[nt + n] = mt[n]
      BY <1>1, <1>6
    <2>5. \A n \in 1..nm : nt + n \in 1..nt + nm
      BY <2>1
    <2>6. \A n \in 1..nt + nm : n \in 1..nt \/ (n - nt \in 1..nm /\ n = nt + (n - nt))
      BY <2>1
    <2> QED
      BY <2>1, <2>2, <2>3, <2>4, <2>5, <2>6
  <1>14. /\ \A n \in 1..nm : /\ mt[n].order \in Due(d) /\ mt[n].day = d
                             /\ ms[mt[n].order].status = "filled"
         /\ \A i \in Due(d) : ms[i].status = "filled" => \E n \in 1..nm : mt[n].order = i
         /\ \A n, l \in 1..nm : mt[n].order = mt[l].order => n = l
    BY <1>5, <1>13 DEF Traded, mt, ms
  <1>15. \A n \in 1..nt : trades[n].day \in ticked
    BY <1>3, <1>13 DEF Rows, ticked
  <1> HIDE DEF ts, nt, nm
  <1>16. Rows(today, k, pos, os, ts, sig)
    <2>1. DOMAIN pos \subseteq 1..today /\ sig \subseteq DOMAIN pos
      BY <1>1, <1>2, <1>11 DEF sig, SignalDays
    <2>2. \A x \in DOMAIN pos : pos[x] \in Holdings
      BY <1>3, <1>6, <1>11 DEF Rows, ticked
    <2>3. \A n \in 1..nt + nm : ts[n].day \in DOMAIN pos
      BY <1>11, <1>13, <1>14, <1>15
    <2> QED
      BY <1>6, <1>9, <1>11, <1>13, <2>1, <2>2, <2>3 DEF Rows
  <1>17. (SalesCoverFees => k >= 0) /\ k = InitialCash + Total(Flows(ts))
    <2>1. k = cash + Total(Flows(mt)) /\ (SalesCoverFees /\ cash >= 0 => k >= 0)
      BY <1>5 DEF Paid, k, mt
    <2>2. 0 \in Int
      OBVIOUS
    <2>3. /\ Total(Flows(ts)) = Total(Flows(trades)) + Total(Flows(mt))
          /\ Total(Flows(trades)) \in Int /\ Total(Gains(trades, 0, 0)) \in Int
      BY <1>1, <1>6, <2>2, SumsAdd DEF ts
    <2>4. Total(Flows(mt)) \in Int /\ Total(Gains(mt, 0, 0)) \in Int
      BY <1>6, <2>2, SumsAdd
    <2>5. InitialCash \in Int
      BY ParametersAssumption
    <2> QED
      BY <1>3, <2>1, <2>3, <2>4, <2>5
  <1>18. Fills(os, ts)
    <2>1. ASSUME NEW n \in 1..nt
          PROVE  /\ ts[n] = trades[n] /\ trades[n].order \in 1..L /\ trades[n].order \notin Due(d)
                 /\ os[trades[n].order].status = "filled"
                 /\ trades[n].day > os[trades[n].order].signal
      <3>1. /\ trades[n].order \in 1..L /\ orders[trades[n].order].status = "filled"
            /\ trades[n].day > orders[trades[n].order].signal
        BY <1>3, <1>7, <1>13 DEF Fills
      <3> QED
        BY <1>7, <1>8, <1>9, <1>13, <3>1
    <2>2. ASSUME NEW n \in 1..nm
          PROVE  /\ mt[n].order \in 1..L /\ mt[n].order \in Due(d)
                 /\ os[mt[n].order].status = "filled"
                 /\ mt[n].day > os[mt[n].order].signal
      <3>1. mt[n].order \in Due(d) /\ mt[n].day = d /\ ms[mt[n].order].status = "filled" /\ mt[n].order \in 1..L
        BY <1>1, <1>7, <1>14
      <3>2. os[mt[n].order].signal = orders[mt[n].order].signal /\ orders[mt[n].order].signal < d
        BY <1>7, <1>8, <1>9, <3>1
      <3> QED
        BY <1>9, <3>1, <3>2
    <2>3. ASSUME NEW i \in 1..L + M, os[i].status = "filled" PROVE \E n \in 1..nt + nm : ts[n].order = i
      <3>1. i \in 1..L
        BY <1>9, <2>3
      <3>2. CASE i \in Due(d)
        <4>1. PICK n \in 1..nm : mt[n].order = i
          BY <1>9, <1>14, <2>3, <3>1, <3>2
        <4> QED
          BY <1>13, <4>1
      <3>3. CASE i \notin Due(d)
        <4>1. i \in DOMAIN orders /\ orders[i].status = "filled"
          BY <1>7, <1>9, <2>3, <3>1, <3>3
        <4>2. PICK n \in 1..nt : trades[n].order = i
          BY <1>3, <1>13, <4>1 DEF Fills
        <4> QED
          BY <1>13, <4>2
      <3> QED
        BY <3>2, <3>3
    <2>4. ASSUME NEW n \in 1..nt + nm
          PROVE  /\ ts[n].order \in 1..L + M /\ os[ts[n].order].status = "filled"
                 /\ ts[n].day > os[ts[n].order].signal
      <3>1. CASE n \in 1..nt
        BY <1>9, <2>1, <3>1
      <3>2. CASE n \notin 1..nt
        <4>1. n - nt \in 1..nm /\ nt + (n - nt) = n
          BY <1>13, <3>2
        <4>2. ts[n] = mt[n - nt]
          BY <1>13, <4>1
        <4> QED
          BY <1>9, <2>2, <4>1, <4>2
      <3> QED
        BY <3>1, <3>2
    <2>5. ASSUME NEW n \in 1..nt + nm, NEW l \in 1..nt + nm, ts[n].order = ts[l].order PROVE n = l
      <3>1. CASE n \in 1..nt /\ l \in 1..nt
        <4>1. \A a, b \in 1..nt : trades[a].order = trades[b].order => a = b
          BY <1>3, <1>13 DEF Fills
        <4> QED
          BY <1>13, <2>5, <3>1, <4>1
      <3>2. CASE n \notin 1..nt /\ l \notin 1..nt
        <4>1. n - nt \in 1..nm /\ l - nt \in 1..nm /\ ts[n] = mt[n - nt] /\ ts[l] = mt[l - nt]
          BY <1>13, <3>2
        <4>2. n - nt = l - nt
          BY <1>14, <2>5, <4>1
        <4> QED
          BY <1>13, <4>2
      <3>3. CASE n \in 1..nt /\ l \notin 1..nt
        <4>1. l - nt \in 1..nm /\ ts[l] = mt[l - nt]
          BY <1>13, <3>3
        <4> QED
          BY <2>1, <2>2, <2>5, <3>3, <4>1
      <3>4. CASE n \notin 1..nt /\ l \in 1..nt
        <4>1. n - nt \in 1..nm /\ ts[n] = mt[n - nt]
          BY <1>13, <3>4
        <4> QED
          BY <2>1, <2>2, <2>5, <3>4, <4>1
      <3> QED
        BY <3>1, <3>2, <3>3, <3>4
    <2> QED
      BY <1>9, <1>13, <2>3, <2>4, <2>5 DEF Fills
  <1>19. \A i \in 1..L : ~Pending(os[i], "buy")
    <2> TAKE i \in 1..L
    <2>1. CASE i \in Due(d)
      BY <1>7, <1>9, <2>1
    <2>2. CASE i \notin Due(d)
      <3> SUFFICES ASSUME Pending(orders[i], "buy") PROVE FALSE
        BY <1>7, <1>9, <2>2
      <3>1. orders[i].signal \in ticked /\ orders[i].exec <= orders[i].signal + 1
        BY <1>1, <1>3, <1>7 DEF Entries
      <3>2. orders[i].exec \in Nat
        <4>1. Horizon \in Nat
          BY ParametersAssumption
        <4>2. \A o \in OrderRows : o.exec \in Nat
          BY <4>1 DEF OrderRows
        <4>3. i \in 1..Len(orders)
          BY DEF L
        <4>4. orders[i] \in OrderRows
          BY <1>1, <4>3
        <4> QED
          BY <4>2, <4>4
      <3>3. orders[i].signal < d /\ orders[i].exec <= d
        <4>1. orders[i].signal < d /\ orders[i].signal \in Nat
          BY <1>2, <1>12, <3>1
        <4>2. \A a, b, e \in Nat : a < b /\ e <= a + 1 => e <= b
          OBVIOUS
        <4> QED
          BY <1>12, <3>1, <3>2, <4>1, <4>2
      <3> QED
        BY <1>7, <2>2, <3>3 DEF Due, Pending
    <2> QED
      BY <2>1, <2>2
  <1>20. Entries(ranks, pos, os, sig)
    <2> SUFFICES ASSUME NEW i \in 1..L + M, Pending(os[i], "buy")
                 PROVE  /\ Greatest(os[i].signal, DOMAIN pos) /\ os[i].signal \in sig
                        /\ os[i].exec <= os[i].signal + 1 /\ os[i].code \in ToSet(ranks[os[i].signal])
      BY <1>9 DEF Entries
    <2>1. PICK n \in 1..M : i = L + n
      BY <1>9, <1>19
    <2>2. os[i] = new[n] /\ signals /\ os[i].signal = d /\ os[i].exec = d + 1
      BY <1>9, <2>1
    <2>3. os[i].code \in ToSet(ranks[d])
      BY <1>10, <2>2 DEF Pending
    <2>4. Greatest(d, DOMAIN pos)
      BY <1>2, <1>11, <1>12 DEF Greatest
    <2>5. d \in sig
      BY <2>2 DEF sig, SignalDays
    <2> QED
      BY <1>12, <2>2, <2>3, <2>4, <2>5
  <1>21. HasGap(positions) => HasGap(pos)
    BY <1>11 DEF HasGap, ticked
  <1>22. ASSUME ~HasGap(positions)
         PROVE  /\ ticked = {} => H = None
                /\ \A x \in ticked : Greatest(x, ticked) => H = positions[x]
    BY <1>2, <1>3, <1>22, LatestIsLast DEF Before
  <1>23. ticked # {} => \E x \in ticked : Greatest(x, ticked)
    <2>1. ticked \in SUBSET (0..today)
      <3>1. \A x \in ticked : x \in 0..today
        BY <1>1
      <3> QED
        BY <3>1
    <2> QED
      BY <1>1, <2>1, GreatestExists
  <1>24. ASSUME ~HasGap(pos) PROVE Exits(ranks, pos, os, sig)
    <2> SUFFICES ASSUME NEW x \in DOMAIN pos, NEW g \in DOMAIN pos, Greatest(x, DOMAIN pos), Greatest(g, sig),
                        NEW c \in Codes, pos[x][c] > 0, c \notin ToSet(ranks[g])
                 PROVE  \E i \in DOMAIN os : os[i].code = c /\ Pending(os[i], "sell")
      BY DEF Exits
    <2> SUFFICES \E i \in 1..L + M : os[i].code = c /\ Pending(os[i], "sell")
      BY <1>9
    <2>1. x = d
      BY <1>2, <1>11, <1>12 DEF Greatest
    <2>2. hold[c] > 0
      BY <1>11, <2>1
    <2>3. CASE signals
      <3>1. g = d
        BY <1>1, <1>2, <1>12, <2>3 DEF Greatest, sig, SignalDays
      <3>2. PICK i \in 1..M : new[i].code = c /\ new[i].side = "sell"
        BY <1>10, <2>2, <2>3, <3>1
      <3>3. os[L + i] = new[i] /\ L + i \in 1..L + M /\ new[i].status = "pending"
        BY <1>9
      <3> QED
        BY <3>2, <3>3 DEF Pending
    <2>4. CASE ~signals
      <3>1. Greatest(g, signalled) /\ g \in ticked
        BY <1>1, <2>4 DEF Greatest, sig, SignalDays
      <3>2. PICK y \in ticked : Greatest(y, ticked)
        BY <1>23, <3>1
      <3>3. ~HasGap(positions) /\ H = positions[y]
        BY <1>21, <1>22, <1>24, <3>2
      <3>4. CASE \E i \in Due(d) : orders[i].side = "buy" /\ orders[i].code = c
        <4>1. PICK i \in Due(d) : orders[i].side = "buy" /\ orders[i].code = c
          BY <3>4
        <4>2. i \in DOMAIN orders /\ Pending(orders[i], "buy")
          BY <1>1, <1>8, <4>1 DEF Pending
        <4>3. /\ Greatest(orders[i].signal, ticked) /\ orders[i].signal \in signalled
              /\ c \in ToSet(ranks[orders[i].signal])
          BY <1>3, <4>1, <4>2 DEF Entries, ticked
        <4>4. orders[i].signal = g
          <5>1. g <= orders[i].signal /\ orders[i].signal <= g
            BY <3>1, <4>3 DEF Greatest
          <5>2. orders[i].signal \in Nat /\ g \in Nat
            BY <1>1, <1>12, <3>1, <4>3
          <5> QED
            BY <5>1, <5>2
        <4> QED
          BY <4>3, <4>4
      <3>5. CASE /\ H[c] > 0
                 /\ \A i \in Due(d) : orders[i].side = "sell" /\ orders[i].code = c => ms[i].status = "pending"
        <4>1. PICK i \in DOMAIN orders : orders[i].code = c /\ Pending(orders[i], "sell")
          <5>1. positions[y][c] > 0 /\ y \in DOMAIN positions /\ g \in DOMAIN positions
                /\ Greatest(y, DOMAIN positions)
            BY <3>1, <3>2, <3>3, <3>5 DEF ticked
          <5> QED
            BY <1>3, <3>1, <3>3, <5>1 DEF Exits
        <4>2. i \in 1..L /\ os[i] = ms[i] /\ i \in 1..L + M
          BY <1>7, <1>9
        <4>3. CASE i \in Due(d)
          BY <1>7, <3>5, <4>1, <4>2, <4>3 DEF Pending
        <4>4. CASE i \notin Due(d)
          BY <1>7, <4>1, <4>2, <4>4
        <4> QED
          BY <4>3, <4>4
      <3> QED
        BY <1>5, <2>2, <3>4, <3>5 DEF Held, hold, ms
    <2> QED
      BY <2>3, <2>4
  <1>25. ASSUME NoTopUps PROVE Fresh(pos, os)
    <2>0. under = {}
      BY <1>25 DEF NoTopUps
    <2>1. ASSUME NEW i \in 1..L + M, Pending(os[i], "buy")
          PROVE  \E n \in 1..M : i = L + n /\ os[i] = new[n] /\ new[n].side = "buy" /\ new[n].signal = d
      <3>1. PICK n \in 1..M : i = L + n
        BY <1>9, <1>19, <2>1
      <3> QED
        BY <1>9, <2>1, <3>1 DEF Pending
    <2>2. ASSUME NEW i \in 1..L + M, Pending(os[i], "buy")
          PROVE  /\ pos[os[i].signal][os[i].code] = 0
                 /\ \A j \in 1..L + M : Pending(os[j], "buy") /\ os[j].code = os[i].code => i = j
      <3>1. PICK n \in 1..M : i = L + n /\ os[i] = new[n] /\ new[n].side = "buy" /\ new[n].signal = d
        BY <2>1, <2>2
      <3>2. hold[new[n].code] = 0
        BY <1>10, <2>0, <3>1
      <3>3. ASSUME NEW j \in 1..L + M, Pending(os[j], "buy"), os[j].code = os[i].code PROVE i = j
        <4>1. PICK l \in 1..M : j = L + l /\ os[j] = new[l] /\ new[l].side = "buy"
          BY <2>1, <3>3
        <4>2. n = l
          BY <1>10, <3>1, <3>3, <4>1
        <4> QED
          BY <3>1, <4>1, <4>2
      <3> QED
        BY <1>11, <3>1, <3>2, <3>3
    <2> QED
      BY <1>9, <2>2 DEF Fresh
  <1>26. ASSUME NoTopUps, ~HasGap(pos) PROVE SharesAdd(pos, ts)
    <2>1. ~HasGap(positions) /\ Fresh(positions, orders) /\ SharesAdd(positions, trades)
      BY <1>3, <1>21, <1>26
    <2>2. DueFresh(d)
      <3> SUFFICES ASSUME NEW i \in Due(d), orders[i].side = "buy"
                   PROVE  /\ H[orders[i].code] = 0
                          /\ \A j \in Due(d) : orders[j].side = "buy" /\ orders[j].code = orders[i].code => i = j
        BY DEF DueFresh
      <3>1. i \in DOMAIN orders /\ Pending(orders[i], "buy")
        BY <1>1, <1>8 DEF Pending
      <3>2. orders[i].signal \in ticked /\ Greatest(orders[i].signal, ticked)
        BY <1>1, <1>3, <3>1 DEF Entries, ticked
      <3>3. H[orders[i].code] = 0
        BY <1>22, <2>1, <3>1, <3>2 DEF Fresh
      <3>4. \A j \in Due(d) : orders[j].side = "buy" => j \in DOMAIN orders /\ Pending(orders[j], "buy")
        BY <1>1, <1>8 DEF Pending
      <3> QED
        BY <2>1, <3>1, <3>3, <3>4 DEF Fresh
    <2>3. \A c \in Codes : hold[c] = H[c] + Total(Gains(mt, c, d))
      BY <1>5, <2>2 DEF Added, hold, mt
    <2> SUFFICES ASSUME NEW x \in ticked \cup {d}, NEW c \in Codes
                 PROVE  pos[x][c] = Total(Gains(ts, c, x))
      BY <1>11 DEF SharesAdd
    <2>4. x \in Int /\ d \in Int
      BY <1>12
    <2>5. Total(Gains(ts, c, x)) = Total(Gains(trades, c, x)) + Total(Gains(mt, c, x))
      BY <1>1, <1>6, <2>4, SumsAdd DEF ts
    <2>6. /\ Gains(trades, c, x) \in Seq(Int) /\ Len(Gains(trades, c, x)) = nt /\ Total(Gains(trades, c, x)) \in Int
      BY <1>1, <1>6, <2>4, SumsAdd DEF nt
    <2>7. /\ Gains(mt, c, x) \in Seq(Int) /\ Len(Gains(mt, c, x)) = nm /\ Total(Gains(mt, c, x)) \in Int
      BY <1>6, <2>4, SumsAdd DEF nm
    <2>8. CASE x \in ticked
      <3>1. \A n \in 1..nm : Gains(mt, c, x)[n] = 0
        <4> TAKE n \in 1..nm
        <4>1. mt[n].day = d /\ d > x
          BY <1>2, <1>12, <1>14, <2>8
        <4>2. Gains(mt, c, x)[n] = Gain(mt[n], c, x)
          BY <1>13 DEF Gains
        <4> QED
          BY <4>1, <4>2 DEF Gain
      <3>2. Total(Gains(mt, c, x)) = 0
        BY <2>7, <3>1, TotalZeros
      <3>3. positions[x][c] = Total(Gains(trades, c, x))
        BY <2>1, <2>8 DEF SharesAdd, ticked
      <3> QED
        BY <1>11, <2>5, <2>6, <2>8, <3>2, <3>3
    <2>9. CASE x = d
      <3>1. H[c] = Total(Gains(trades, c, d))
        <4>1. CASE ticked = {}
          <5>1. nt = 0
            <6>1. ~(1 \in 1..nt)
              BY <1>15, <4>1
            <6> QED
              BY <1>13, <6>1
          <5>2. \A n \in 1..nt : Gains(trades, c, x)[n] = 0
            BY <5>1
          <5>3. Total(Gains(trades, c, x)) = 0
            BY <2>6, <5>2, TotalZeros
          <5>4. H[c] = 0
            BY <1>22, <2>1, <4>1 DEF None
          <5> QED
            BY <2>9, <5>3, <5>4
        <4>2. CASE ticked # {}
          <5>1. PICK y \in ticked : Greatest(y, ticked)
            BY <1>23, <4>2
          <5>2. H[c] = Total(Gains(trades, c, y))
            BY <1>22, <2>1, <5>1 DEF SharesAdd, ticked
          <5>3. Gains(trades, c, d) = Gains(trades, c, y)
            <6>1. \A n \in 1..nt : Gain(trades[n], c, d) = Gain(trades[n], c, y)
              <7> TAKE n \in 1..nt
              <7>1. trades[n].day <= y /\ trades[n].day \in Nat /\ y < d /\ y \in Nat
                BY <1>2, <1>12, <1>15, <5>1 DEF Greatest
              <7>2. ~(trades[n].day > y) /\ ~(trades[n].day > d)
                BY <1>12, <7>1
              <7> QED
                BY <7>2 DEF Gain
            <6>2. Gains(trades, c, d) = [n \in 1..nt |-> Gain(trades[n], c, d)]
              BY <1>13 DEF Gains
            <6>3. Gains(trades, c, y) = [n \in 1..nt |-> Gain(trades[n], c, y)]
              BY <1>13 DEF Gains
            <6> QED
              BY <6>1, <6>2, <6>3
          <5> QED
            BY <5>2, <5>3
        <4> QED
          BY <4>1, <4>2
      <3> QED
        BY <1>11, <2>3, <2>5, <2>9, <3>1
    <2> QED
      BY <2>8, <2>9
  <1>27. Books(today, ranks, k, pos, os, ts, sig)
    BY <1>16, <1>17, <1>18, <1>20, <1>24, <1>25, <1>26 DEF Books
  <1> QED
    BY <1>27 DEF k, pos, os, ts, sig, ms, mt, hold, m, new

-----------------------------------------------------------------------------
(* The invariant is kept by every step *)

\* Balanced books stay balanced as days pass and rankings are added.
LEMMA BooksLater ==
    ASSUME NEW td \in Nat, NEW next \in Nat, td <= next,
           NEW rk, NEW more, \A x \in 1..td : more[x] = rk[x],
           NEW k, NEW pos, NEW os, NEW ts, NEW sig, Books(td, rk, k, pos, os, ts, sig)
    PROVE  Books(next, more, k, pos, os, ts, sig)
  <1>1. Rows(td, k, pos, os, ts, sig) /\ Entries(rk, pos, os, sig)
        /\ (HasGap(pos) \/ Exits(rk, pos, os, sig))
    BY DEF Books
  <1>2. \A x \in 1..td : x \in 1..next
    OBVIOUS
  <1>3. Rows(next, k, pos, os, ts, sig)
    BY <1>1, <1>2 DEF Rows
  <1>4. \A x \in DOMAIN pos : more[x] = rk[x]
    BY <1>1 DEF Rows
  <1>5. Entries(more, pos, os, sig)
    BY <1>1, <1>4 DEF Entries, Greatest
  <1>6. HasGap(pos) \/ Exits(more, pos, os, sig)
    BY <1>1, <1>4 DEF Exits
  <1>7. /\ SalesCoverFees => k >= 0
        /\ k = InitialCash + Total(Flows(ts)) /\ Fills(os, ts)
        /\ NoTopUps => HasGap(pos) \/ (Fresh(pos, os) /\ SharesAdd(pos, ts))
    BY DEF Books
  <1> QED
    BY <1>3, <1>5, <1>6, <1>7, Zenon DEF Books

\* An account that was just opened has balanced books.
LEMMA InitInv == Init => Inv
  <1> SUFFICES ASSUME Init PROVE Inv
    OBVIOUS
  <1>1. /\ today = 0 /\ holidays \in Calendars /\ market = <<>> /\ ranks = <<>>
        /\ status = "active" /\ cash = InitialCash
        /\ positions = <<>> /\ orders = <<>> /\ trades = <<>> /\ signalled = {}
        /\ session = [s \in Sources |-> Idle]
    BY DEF Init
  <1>2. Horizon \in Nat /\ InitialCash \in Nat
    BY ParametersAssumption
  <1>3. World
    BY <1>1, <1>2 DEF World
  <1>4. Books(today, ranks, cash, positions, orders, trades, signalled)
    <2>1. DOMAIN positions = {} /\ DOMAIN orders = {} /\ DOMAIN trades = {}
      BY <1>1
    <2>2. positions = [d \in DOMAIN positions |-> positions[d]]
      BY <1>1, <2>1
    <2>3. Rows(today, cash, positions, orders, trades, signalled)
      <3>1. orders \in Seq(OrderRows) /\ trades \in Seq(TradeRows)
        BY <1>1
      <3> QED
        BY <1>1, <1>2, <2>1, <2>2, <3>1 DEF Rows
    <2>4. Total(Flows(trades)) = 0
      <3>1. Flows(trades) = <<>>
        BY <1>1 DEF Flows
      <3> QED
        BY <3>1, TotalEmpty
    <2>5. Fills(orders, trades) /\ Entries(ranks, positions, orders, signalled)
          /\ Exits(ranks, positions, orders, signalled) /\ Fresh(positions, orders)
          /\ SharesAdd(positions, trades)
      BY <2>1 DEF Fills, Entries, Exits, Fresh, SharesAdd
    <2> QED
      BY <1>1, <1>2, <2>3, <2>4, <2>5 DEF Books
  <1>5. Running
    BY <1>1 DEF Running
  <1> QED
    BY <1>3, <1>4, <1>5 DEF Inv

LEMMA DawnKeeps == Inv /\ Dawn => Inv'
  <1> SUFFICES ASSUME Inv, Dawn PROVE Inv'
    OBVIOUS
  <1>1. World /\ Books(today, ranks, cash, positions, orders, trades, signalled) /\ Running
    BY DEF Inv
  <1>2. /\ today < Horizon /\ today' = today + 1
        /\ holidays' = holidays /\ status' = status /\ cash' = cash /\ positions' = positions
        /\ orders' = orders /\ trades' = trades /\ signalled' = signalled /\ session' = session
    BY DEF Dawn, account
  <1>3. PICK m \in Markets \cup {Closed} : market' = Append(market, m)
    BY DEF Dawn
  <1>4. PICK r \in Rankings \cup {<<>>} : ranks' = Append(ranks, r)
    BY DEF Dawn
  <1>5. Horizon \in Nat /\ today \in Nat /\ today' \in 0..Horizon /\ today <= today' /\ today' \in Nat
    BY <1>1, <1>2, ParametersAssumption DEF World
  <1>6. /\ market' \in Seq(Markets \cup {Closed}) /\ Len(market') = today'
        /\ ranks' \in Seq(Rankings \cup {<<>>}) /\ Len(ranks') = today'
        /\ \A x \in 1..today : ranks'[x] = ranks[x]
    BY <1>1, <1>2, <1>3, <1>4 DEF World
  <1>7. World'
    BY <1>1, <1>2, <1>5, <1>6 DEF World
  <1>8. Books(today, ranks, cash, positions, orders, trades, signalled)'
    <2>1. Books(today', ranks', cash, positions, orders, trades, signalled)
      BY <1>1, <1>5, <1>6, BooksLater
    <2> QED
      BY <1>2, <2>1
  <1>9. Running'
    <2>1. ASSUME NEW t, Leaves(today, ranks, positions, orders, trades, signalled, t)
          PROVE  Leaves(today', ranks', positions, orders, trades, signalled, t)
      <3> DEFINE k == t.wallet.cash
                 pos == [x \in DOMAIN positions \cup {t.day} |->
                            IF x = t.day THEN t.wallet.hold ELSE positions[x]]
                 os == [i \in DOMAIN orders |->
                           IF i \in DOMAIN t.changed THEN t.changed[i] ELSE orders[i]] \o t.new
                 ts == trades \o t.trades
                 sig == IF t.signals THEN signalled \cup {t.day} ELSE signalled
      <3>1. Books(today, ranks, k, pos, os, ts, sig)
        BY <2>1 DEF Leaves
      <3> HIDE DEF k, pos, os, ts, sig
      <3>2. Books(today', ranks', k, pos, os, ts, sig)
        BY <1>5, <1>6, <3>1, BooksLater
      <3> QED
        BY <3>2 DEF Leaves, k, pos, os, ts, sig
    <2>2. \A x \in 1..today : x \in 1..today'
      BY <1>5
    <2> QED
      BY <1>1, <1>2, <2>1, <2>2 DEF Running, ticked
  <1> QED
    BY <1>7, <1>8, <1>9 DEF Inv

LEMMA StatusKeeps == ASSUME NEW to \in {"active", "paused"} PROVE Inv /\ SetStatus(to) => Inv'
  <1> SUFFICES ASSUME Inv, SetStatus(to) PROVE Inv'
    OBVIOUS
  <1>1. /\ status' \in {"active", "paused"} /\ today' = today /\ holidays' = holidays
        /\ market' = market /\ ranks' = ranks /\ cash' = cash /\ positions' = positions
        /\ orders' = orders /\ trades' = trades /\ signalled' = signalled /\ session' = session
    BY DEF SetStatus, world
  <1>2. World'
    BY <1>1 DEF Inv, World
  <1>3. Running'
    BY <1>1 DEF Inv, Running, ticked
  <1> QED
    BY <1>1, <1>2, <1>3 DEF Inv

\* What a tick t of the day d would leave.
LeavesRows(t, d, new, signals) ==
    /\ t.day = d /\ t.wallet = Match(d).w /\ t.trades = Match(d).trades
    /\ [x \in DOMAIN positions \cup {t.day} |-> IF x = t.day THEN t.wallet.hold ELSE positions[x]]
           = Snapshots(d, Match(d).w.hold)
    /\ [i \in DOMAIN orders |-> IF i \in DOMAIN t.changed THEN t.changed[i] ELSE orders[i]] \o t.new
           = Match(d).orders \o new
    /\ (IF t.signals THEN signalled \cup {t.day} ELSE signalled) = SignalDays(d, signals)

LEMMA TickLeaves ==
    ASSUME NEW d, Before(d), NEW signals, NEW new, NEW t,
           t = [day |-> d, wallet |-> Match(d).w, trades |-> Match(d).trades, new |-> new, signals |-> signals,
                changed |-> [i \in Due(d) |-> Match(d).orders[i]]]
    PROVE  LeavesRows(t, d, new, signals)
  <1> DEFINE m == Match(d)
             changed == [i \in Due(d) |-> m.orders[i]]
             os == [i \in DOMAIN orders |-> IF i \in DOMAIN changed THEN changed[i] ELSE orders[i]]
  <1>1. os = m.orders
    <2>1. /\ Matched(d, m, Due(d)) /\ orders \in Seq(OrderRows) /\ Due(d) \subseteq DOMAIN orders
      BY BeforeFacts
    <2>2. /\ m.orders \in Seq(OrderRows) /\ Len(m.orders) = Len(orders)
          /\ \A i \in DOMAIN orders : i \notin Due(d) => m.orders[i] = orders[i]
      BY <2>1 DEF Matched, Shaped, Kept
    <2>3. DOMAIN m.orders = DOMAIN orders /\ m.orders = [i \in DOMAIN orders |-> m.orders[i]]
      BY <2>1, <2>2
    <2> HIDE DEF m
    <2>4. \A i \in DOMAIN orders : m.orders[i] = IF i \in DOMAIN changed THEN changed[i] ELSE orders[i]
      BY <2>2
    <2> HIDE DEF changed
    <2> QED
      BY <2>3, <2>4
  <1>2. /\ t.day = d /\ t.wallet = m.w /\ t.trades = m.trades /\ t.new = new
        /\ t.signals = signals /\ t.changed = changed
    OBVIOUS
  <1> HIDE DEF m, changed
  <1>3. [x \in DOMAIN positions \cup {t.day} |-> IF x = t.day THEN t.wallet.hold ELSE positions[x]]
            = Snapshots(d, m.w.hold)
    BY <1>2 DEF Snapshots, ticked
  <1>4. [i \in DOMAIN orders |-> IF i \in DOMAIN t.changed THEN t.changed[i] ELSE orders[i]] = m.orders
    BY <1>1, <1>2
  <1>5. (IF t.signals THEN signalled \cup {t.day} ELSE signalled) = SignalDays(d, signals)
    BY <1>2 DEF SignalDays
  <1> QED
    BY <1>2, <1>3, <1>4, <1>5 DEF LeavesRows, m

\* While ticks never overlap a tick of another day nor go back, every tick would leave
\* balanced books.
LEMMA BeginKeeps ==
    ASSUME Orderly, NEW s \in Sources, NEW d, NEW panel \in BOOLEAN, NEW over, NEW under \in Drifts
    PROVE  Inv /\ TickBegin(s, d, panel, over, under) => Inv'
  <1> SUFFICES ASSUME Inv, TickBegin(s, d, panel, over, under) PROVE Inv'
    OBVIOUS
  <1> DEFINE m == Match(d)
             signals == QualifiesRebalance(d) /\ panel /\ ranks[d] # <<>>
             new == NewOrders(d, signals, over, under)
             changed == [i \in Due(d) |-> m.orders[i]]
             t == [day |-> d, wallet |-> m.w, trades |-> m.trades, new |-> new, signals |-> signals,
                   changed |-> changed]
  <1>1. World /\ Books(today, ranks, cash, positions, orders, trades, signalled) /\ Running
    BY DEF Inv
  <1>2. /\ today' = today /\ holidays' = holidays /\ market' = market /\ ranks' = ranks
        /\ status' = status /\ cash' = cash /\ positions' = positions
        /\ orders' = orders /\ trades' = trades /\ signalled' = signalled
    BY DEF TickBegin, world, account
  <1>3. d \in 1..today /\ (\A x \in ticked : x < d)
        /\ \A other \in Sources \ {s} : session[other].day \in {0, d}
    BY DEF TickBegin, InOrder
  <1>4. Before(d)
    BY <1>1, <1>3 DEF Before
  <1>5. session' = [session EXCEPT ![s] = t]
    BY DEF TickBegin, NewOrders
  <1>6. LeavesRows(t, d, new, signals)
    <2>1. t = [day |-> d, wallet |-> Match(d).w, trades |-> Match(d).trades, new |-> new, signals |-> signals,
               changed |-> [i \in Due(d) |-> Match(d).orders[i]]]
      OBVIOUS
    <2> HIDE DEF t, new, signals
    <2> QED
      BY ONLY <1>4, <2>1, TickLeaves DEF m
  <1>7. Leaves(today, ranks, positions, orders, trades, signalled, t)
    <2>1. signals \in BOOLEAN
      OBVIOUS
    <2> HIDE DEF signals
    <2>2. Books(today, ranks, m.w.cash, Snapshots(d, m.w.hold), m.orders \o new, trades \o m.trades,
                SignalDays(d, signals))
      BY <1>4, <2>1, TickBalances
    <2> HIDE DEF new, t
    <2> QED
      BY <1>6, <2>2 DEF Leaves, LeavesRows
  <1> HIDE DEF t, m, signals, new, changed
  <1>8. World'
    BY <1>1, <1>2 DEF World
  <1>9. Books(today, ranks, cash, positions, orders, trades, signalled)'
    BY <1>1, <1>2
  <1>10. Running'
    <2>1. /\ session' = [r \in Sources |-> session'[r]] /\ session'[s] = t
          /\ \A r \in Sources \ {s} : session'[r] = session[r]
      BY <1>1, <1>5 DEF Running
    <2>2. 0 \notin 1..today
      OBVIOUS
    <2>3. \A r \in Sources : session'[r] # Idle => session'[r].day = d
      BY <1>1, <1>3, <1>6, <2>1, <2>2 DEF Running, LeavesRows
    <2>4. \A r \in Sources : session'[r] # Idle =>
              /\ session'[r].day \in 1..today
              /\ session'[r].day \notin ticked =>
                     /\ \A x \in ticked : x < session'[r].day
                     /\ Leaves(today, ranks, positions, orders, trades, signalled, session'[r])
      BY <1>1, <1>3, <1>6, <1>7, <2>1 DEF Running, LeavesRows
    <2> QED
      BY <1>2, <2>1, <2>3, <2>4 DEF Running, ticked
  <1> QED
    BY <1>8, <1>9, <1>10 DEF Inv

LEMMA CommitKeeps == ASSUME NEW s \in Sources PROVE Inv /\ TickCommit(s) => Inv'
  <1> SUFFICES ASSUME Inv, TickCommit(s) PROVE Inv'
    OBVIOUS
  <1> DEFINE t == session[s]
  <1>1. World /\ Books(today, ranks, cash, positions, orders, trades, signalled) /\ Running
    BY DEF Inv
  <1>2. /\ today' = today /\ holidays' = holidays /\ market' = market /\ ranks' = ranks
        /\ session' = [session EXCEPT ![s] = Idle] /\ t # Idle
    BY DEF TickCommit, world
  <1>3. /\ session' = [r \in Sources |-> session'[r]] /\ session'[s] = Idle
        /\ \A r \in Sources \ {s} : session'[r] = session[r]
    BY <1>1, <1>2 DEF Running
  <1>4. CASE t.day \in ticked
    <2>1. /\ status' = status /\ cash' = cash /\ positions' = positions
          /\ orders' = orders /\ trades' = trades /\ signalled' = signalled
      BY <1>4 DEF TickCommit, account
    <2>2. World'
      BY <1>1, <1>2, <2>1 DEF World
    <2>3. Running'
      BY <1>1, <1>2, <1>3, <2>1 DEF Running, ticked
    <2> QED
      BY <1>1, <1>2, <2>1, <2>2, <2>3 DEF Inv
  <1>5. CASE t.day \notin ticked
    <2>1. /\ orders' = [i \in DOMAIN orders |->
                 IF i \in DOMAIN t.changed THEN t.changed[i] ELSE orders[i]] \o t.new
          /\ trades' = trades \o t.trades
          /\ positions' = [x \in DOMAIN positions \cup {t.day} |->
                               IF x = t.day THEN t.wallet.hold ELSE positions[x]]
          /\ cash' = t.wallet.cash
          /\ signalled' = IF t.signals THEN signalled \cup {t.day} ELSE signalled
          /\ status' = status
      BY <1>5 DEF TickCommit, ticked
    <2>2. Leaves(today, ranks, positions, orders, trades, signalled, t)
      BY <1>1, <1>2, <1>5 DEF Running
    <2>3. Books(today, ranks, cash', positions', orders', trades', signalled')
      BY <2>1, <2>2 DEF Leaves
    <2>4. World'
      BY <1>1, <1>2, <2>1 DEF World
    <2>5. t.day \in DOMAIN positions'
      BY <2>1
    <2>6. \A r \in Sources : session'[r] # Idle => session'[r].day = t.day /\ session'[r].day \in 1..today
      BY <1>1, <1>2, <1>3 DEF Running
    <2>7. Running'
      BY <1>2, <1>3, <2>5, <2>6 DEF Running, ticked
    <2> QED
      BY <1>2, <2>3, <2>4, <2>7 DEF Inv
  <1> QED
    BY <1>4, <1>5

LEMMA LostKeeps == ASSUME NEW s \in Sources PROVE Inv /\ TickLost(s) => Inv'
  <1> SUFFICES ASSUME Inv, TickLost(s) PROVE Inv'
    OBVIOUS
  <1>1. /\ today' = today /\ holidays' = holidays /\ market' = market /\ ranks' = ranks
        /\ status' = status /\ cash' = cash /\ positions' = positions
        /\ orders' = orders /\ trades' = trades /\ signalled' = signalled
        /\ session' = [session EXCEPT ![s] = Idle]
    BY DEF TickLost, world, account
  <1>2. World'
    BY <1>1 DEF Inv, World
  <1>3. /\ session' = [r \in Sources |-> session'[r]] /\ session'[s] = Idle
        /\ \A r \in Sources \ {s} : session'[r] = session[r]
    BY <1>1 DEF Inv, Running
  <1>4. Running'
    BY <1>1, <1>3 DEF Inv, Running, ticked
  <1> QED
    BY <1>1, <1>2, <1>4 DEF Inv

LEMMA NextInv == ASSUME Orderly PROVE Inv /\ [Next]_vars => Inv'
  <1> SUFFICES ASSUME Inv, [Next]_vars PROVE Inv'
    OBVIOUS
  <1>1. CASE Dawn
    BY <1>1, DawnKeeps
  <1>2. ASSUME NEW to \in {"active", "paused"}, SetStatus(to) PROVE Inv'
    BY <1>2, StatusKeeps
  <1>3. ASSUME NEW s \in Sources, NEW d, NEW panel \in BOOLEAN, NEW over, NEW under \in Drifts,
               TickBegin(s, d, panel, over, under)
        PROVE  Inv'
    BY <1>3, BeginKeeps
  <1>4. ASSUME NEW s \in Sources, TickCommit(s) PROVE Inv'
    BY <1>4, CommitKeeps
  <1>5. ASSUME NEW s \in Sources, TickLost(s) PROVE Inv'
    BY <1>5, LostKeeps
  <1>6. CASE UNCHANGED vars
    BY <1>6 DEF vars, Inv, World, Running, ticked
  <1>7. ASSUME NEW d, TickSkipped(d) PROVE Inv'
    BY <1>6, <1>7 DEF TickSkipped
  <1> QED
    BY <1>1, <1>2, <1>3, <1>4, <1>5, <1>6, <1>7 DEF Next

-----------------------------------------------------------------------------
(* What the invariant says of the account *)

LEMMA InvCash == ASSUME SalesCoverFees PROVE Inv => TypeOK /\ Solvent /\ CashIsTrades /\ FilledOnce
  <1> SUFFICES ASSUME Inv PROVE TypeOK /\ Solvent /\ CashIsTrades /\ FilledOnce
    OBVIOUS
  <1>1. World /\ Running
    BY DEF Inv
  <1>2. /\ Rows(today, cash, positions, orders, trades, signalled) /\ cash >= 0
        /\ cash = InitialCash + Total(Flows(trades)) /\ Fills(orders, trades)
    BY DEF Inv, Books
  <1>3. TypeOK
    <2>1. \A d \in ticked : positions[d] \in [Codes -> Nat]
      BY <1>2, LotsAreNat DEF Rows, Holdings, ticked
    <2>2. \A i \in DOMAIN orders : orders[i] \in OrderRows
      BY <1>2 DEF Rows
    <2>3. \A s \in Sources : session[s].day \in 0..today
      <3>1. today \in Nat /\ Idle.day = 0
        BY <1>1, ParametersAssumption DEF World, Idle
      <3>2. 0 \in 0..today /\ \A x \in 1..today : x \in 0..today
        BY <3>1
      <3> QED
        BY <1>1, <3>1, <3>2 DEF Running
    <2> QED
      BY <1>1, <1>2, <2>1, <2>2, <2>3 DEF TypeOK, World, Rows, OrderRows, ticked
  <1>4. Solvent /\ CashIsTrades
    BY <1>2 DEF Solvent, CashIsTrades, Flows
  <1>5. FilledOnce
    BY <1>2 DEF FilledOnce, Fills
  <1> QED
    BY <1>3, <1>4, <1>5

LEMMA InvShares == ASSUME NoTopUps PROVE Inv => SharesUnlessEmptied
  <1> SUFFICES ASSUME Inv PROVE SharesUnlessEmptied
    OBVIOUS
  <1>1. HasGap(positions) \/ SharesAdd(positions, trades)
    BY DEF Inv, Books
  <1> QED
    BY <1>1 DEF SharesUnlessEmptied, Emptied, SharesAreTrades, HasGap, SharesAdd, Gains, ticked

LEMMA InvExits == Inv => ExitPending
  <1> SUFFICES ASSUME Inv, signalled # {}, ~Emptied PROVE
          \A c \in Codes : positions[LastTick][c] > 0 /\ c \notin ToSet(ranks[LastSignal])
              => \E i \in DOMAIN orders : /\ orders[i].code = c /\ orders[i].side = "sell"
                                          /\ orders[i].status = "pending"
    BY DEF ExitPending
  <1>1. today \in Nat /\ ticked \subseteq 1..today /\ signalled \subseteq ticked
    BY ParametersAssumption DEF Inv, World, Books, Rows, ticked
  <1>2. ticked \in SUBSET (0..today) /\ signalled \in SUBSET (0..today) /\ ticked # {}
    <2>1. \A x \in 1..today : x \in 0..today
      OBVIOUS
    <2> QED
      BY <1>1, <2>1
  <1>3. Greatest(LastTick, ticked) /\ Greatest(LastSignal, signalled)
    <2>1. (\E d \in ticked : Greatest(d, ticked)) /\ \E d \in signalled : Greatest(d, signalled)
      BY <1>1, <1>2, GreatestExists
    <2> QED
      BY <2>1 DEF Greatest, LastTick, LastSignal
  <1>4. Exits(ranks, positions, orders, signalled)
    BY DEF Inv, Books, Emptied, HasGap, ticked
  <1>5. LastTick \in DOMAIN positions /\ LastSignal \in DOMAIN positions
    BY <1>1, <1>3 DEF Greatest, ticked
  <1> HIDE DEF Inv
  <1> QED
    BY <1>3, <1>4, <1>5 DEF Exits, Pending, ticked

\* The books balance: for every market, calendar and ranking, with or without blocked
\* orders, lost ticks and ticks of one day that race (paper_tick, uk_account_date).
THEOREM BooksHold == ASSUME Orderly, NoTopUps, SalesCoverFees PROVE Spec => []BooksBalance
  <1>1. Inv /\ [Next]_vars => Inv'
    BY NextInv
  <1>2. Inv => BooksBalance
    BY InvCash, InvShares DEF BooksBalance
  <1> QED
    BY InitInv, <1>1, <1>2, PTL DEF Spec

\* The cash side of the books needs no such tolerance of zero: whatever is topped up, cash is
\* its trades, never negative, and no order is filled twice.
THEOREM CashHolds ==
    ASSUME Orderly, SalesCoverFees PROVE Spec => [](Solvent /\ CashIsTrades /\ FilledOnce)
  <1>1. Inv /\ [Next]_vars => Inv'
    BY NextInv
  <1>2. Inv => Solvent /\ CashIsTrades /\ FilledOnce
    BY InvCash
  <1> QED
    BY InitInv, <1>1, <1>2, PTL DEF Spec

\* A blocked exit is carried (match_pending_orders defers it), whatever the tolerance and
\* the fees are.
THEOREM ExitsHold == ASSUME Orderly PROVE Spec => []ExitPending
  <1>1. Inv /\ [Next]_vars => Inv'
    BY NextInv
  <1> QED
    BY InitInv, <1>1, InvExits, PTL DEF Spec

-----------------------------------------------------------------------------
(* Paper against backtest. The backtest of all the open days of the        *)
(* calendar with every ranking as its targets is, up to a day, the one     *)
(* run_drift runs for that day; an undisturbed account holds what it holds *)
(* and waits to do what it does next.                                      *)

OpenDays == {d \in 1..Horizon : d \notin holidays}
LastDay(pos) == IF DOMAIN pos = {} THEN 0 ELSE CHOOSE d \in DOMAIN pos : Greatest(d, DOMAIN pos)
LastHold(pos) == IF DOMAIN pos = {} THEN None ELSE pos[LastDay(pos)]

\* Undisturbed of these rows.
Smooth(rk, pos, os, sig) ==
    /\ \A x \in OpenDays : x <= LastDay(pos) => x \in DOMAIN pos
    /\ \A x \in 1..LastDay(pos) : rk[x] # <<>> => x \in sig
    /\ \A i \in DOMAIN os :
           /\ os[i].exec = os[i].signal + 1
           /\ \A h \in DOMAIN pos : h \notin OpenDays /\ h > os[i].signal =>
                  \E x \in OpenDays : os[i].signal < x /\ x < h
    /\ ~HasGap(pos)

\* The orders of the last open day up to g.
LastOpen(g) == CHOOSE q \in OpenDays : Greatest(q, {x \in OpenDays : x <= g})
Plan(rk, g, hold) ==
    IF (\A x \in OpenDays : x > g) \/ rk[LastOpen(g)] = <<>> THEN <<>>
    ELSE CreateOrders(hold, rk[LastOpen(g)], LastOpen(g), {}, {})

\* The pending orders are the last ones, and these are new.
Waiting(os, new) ==
    \E b \in 0..Len(os) : /\ \A i \in 1..b : os[i].status # "pending"
                          /\ Len(os) = b + Len(new)
                          /\ \A i \in 1..Len(new) : os[b + i] = new[i]

Even(mk, rk, k, pos, os, sig) ==
    Smooth(rk, pos, os, sig) =>
        /\ [cash |-> k, hold |-> LastHold(pos)] = Backtest(LastDay(pos), OpenDays, rk, mk)
        /\ Waiting(os, Plan(rk, LastDay(pos), LastHold(pos)))

\* Only the last open day of a week has a ranking.
Weekends ==
    \A x \in 1..today : ranks[x] # <<>> =>
        x \in OpenDays /\ \A y \in OpenDays : x < y => Friday(x) < y

\* A running tick would leave the account even.
Evens(mk, rk, pos, os, sig, t) ==
    Even(mk, rk, t.wallet.cash,
         [x \in DOMAIN pos \cup {t.day} |-> IF x = t.day THEN t.wallet.hold ELSE pos[x]],
         [i \in DOMAIN os |-> IF i \in DOMAIN t.changed THEN t.changed[i] ELSE os[i]] \o t.new,
         IF t.signals THEN sig \cup {t.day} ELSE sig)

Drift ==
    /\ Weekends
    /\ Even(market, ranks, cash, positions, orders, signalled)
    /\ \A s \in Sources : session[s] # Idle /\ session[s].day \notin ticked =>
           Evens(market, ranks, positions, orders, signalled, session[s])

\* g is the wallet after each sale, h after each purchase.
Sales(g, w, codes, mk) ==
    /\ g[0] = w /\ SellAll(w, codes, mk) = g[Len(codes)]
    /\ \A n \in 1..Len(codes) : g[n] = SellOne(g[n - 1], codes[n], mk[codes[n]])
Purchases(h, w, targets, slot, mk) ==
    /\ h[0] = w /\ BuyTargets(w, targets, slot, mk) = h[Len(targets)]
    /\ \A n \in 1..Len(targets) :
           h[n] = IF \/ h[n - 1].hold[targets[n]] > 0 \/ MatchFill("buy", mk[targets[n]]) # "fill"
                     \/ ~Affordable(h[n - 1], slot, mk[targets[n]])
                  THEN h[n - 1] ELSE BuyOne(h[n - 1], targets[n], slot, mk[targets[n]])

LEMMA SalesExist ==
    ASSUME NEW w, NEW codes, Len(codes) \in Nat, NEW mk
    PROVE  \E g : Sales(g, w, codes, mk)
  <1> DEFINE N == Len(codes)
             first == w
             Then(n, x) == SellOne(x, codes[n], mk[codes[n]])
             Solves(f) == f = [n \in 0..N |-> IF n = 0 THEN first ELSE Then(n, f[n - 1])]
             f == CHOOSE f : Solves(f)
             Upto(n, h) == h = [k \in 0..n |-> h[k]] /\ h[0] = first /\ \A k \in 1..n : h[k] = Then(k, h[k - 1])
             S == {n \in 0..N : \E h : Upto(n, h)}
  <1>1. N \in Nat
    OBVIOUS
  <1>2. SellAll(w, codes, mk) = f[N]
    BY DEF SellAll
  <1> HIDE DEF N, f, Then, first
  <1>3. 0 \in S
    <2>1. Upto(0, [k \in 0..0 |-> first])
      OBVIOUS
    <2>2. 0 \in 0..N
      BY <1>1
    <2> HIDE DEF Upto
    <2> QED
      BY <2>1, <2>2
  <1>4. ASSUME NEW n \in 1..N, n - 1 \in S PROVE n \in S
    <2>1. PICK h : Upto(n - 1, h)
      BY <1>4
    <2>2. n - 1 \in 0..n-1 /\ n \in 0..N
      BY <1>1
    <2> DEFINE x == Then(n, h[n - 1])
               g == [k \in 0..n |-> IF k = n THEN x ELSE h[k]]
    <2> HIDE DEF x
    <2>3. g = [k \in 0..n |-> g[k]] /\ g[0] = first
      BY <2>1
    <2>4. ASSUME NEW k \in 1..n PROVE g[k] = Then(k, g[k - 1])
      <3>1. k - 1 \in 0..n /\ k \in 0..n /\ k - 1 # n
        OBVIOUS
      <3>2. g[k - 1] = h[k - 1] /\ g[k] = IF k = n THEN x ELSE h[k]
        BY <3>1
      <3> HIDE DEF g
      <3>3. CASE k = n
        BY <3>2, <3>3 DEF x
      <3>4. CASE k # n
        <4>1. k \in 1..n - 1
          BY <3>4
        <4>2. h[k] = Then(k, h[k - 1])
          BY <2>1, <4>1
        <4> QED
          BY <3>2, <3>4, <4>2
      <3> QED
        BY <3>3, <3>4
    <2>5. Upto(n, g)
      BY <2>3, <2>4
    <2> QED
      BY <2>2, <2>5
  <1>5. PICK g : Upto(N, g)
    <2>1. \A n \in 1..N : n - 1 \in S => n \in S
      BY <1>4
    <2>2. N \in S
      <3> HIDE DEF S
      <3>1. N \in 0..N
        BY <1>1
      <3>2. \A n \in 0..N : n \in S
        BY ONLY <1>1, <1>3, <2>1, Induct
      <3> QED
        BY <3>1, <3>2
    <2> QED
      BY <2>2
  <1>6. ASSUME NEW n \in 0..N PROVE g[n] = IF n = 0 THEN first ELSE Then(n, g[n - 1])
    <2>1. CASE n = 0
      BY <1>5, <2>1
    <2>2. CASE n # 0
      <3>1. n \in 1..N
        BY <1>1, <2>2
      <3>2. g[n] = Then(n, g[n - 1])
        BY <1>5, <3>1
      <3> QED
        BY <2>2, <3>2
    <2> QED
      BY <2>1, <2>2
  <1>7. Solves(g)
    BY <1>5, <1>6
  <1>8. Solves(f)
    BY <1>7 DEF f
  <1>9. f[0] = first /\ \A n \in 1..N : f[n] = Then(n, f[n - 1])
    BY <1>1, <1>8
  <1>10. Sales(f, w, codes, mk)
    BY <1>2, <1>9 DEF N, Then, first, Sales
  <1> QED
    BY <1>10

LEMMA PurchasesExist ==
    ASSUME NEW w, NEW targets, Len(targets) \in Nat, NEW slot, NEW mk
    PROVE  \E h : Purchases(h, w, targets, slot, mk)
  <1> DEFINE N == Len(targets)
             first == w
             Then(n, x) == IF \/ x.hold[targets[n]] > 0 \/ MatchFill("buy", mk[targets[n]]) # "fill"
                              \/ ~Affordable(x, slot, mk[targets[n]])
                           THEN x ELSE BuyOne(x, targets[n], slot, mk[targets[n]])
             Solves(f) == f = [n \in 0..N |-> IF n = 0 THEN first ELSE Then(n, f[n - 1])]
             f == CHOOSE f : Solves(f)
             Upto(n, h) == h = [k \in 0..n |-> h[k]] /\ h[0] = first /\ \A k \in 1..n : h[k] = Then(k, h[k - 1])
             S == {n \in 0..N : \E h : Upto(n, h)}
  <1>1. N \in Nat
    OBVIOUS
  <1>2. BuyTargets(w, targets, slot, mk) = f[N]
    BY DEF BuyTargets
  <1> HIDE DEF N, f, Then, first
  <1>3. 0 \in S
    <2>1. Upto(0, [k \in 0..0 |-> first])
      OBVIOUS
    <2>2. 0 \in 0..N
      BY <1>1
    <2> HIDE DEF Upto
    <2> QED
      BY <2>1, <2>2
  <1>4. ASSUME NEW n \in 1..N, n - 1 \in S PROVE n \in S
    <2>1. PICK h : Upto(n - 1, h)
      BY <1>4
    <2>2. n - 1 \in 0..n-1 /\ n \in 0..N
      BY <1>1
    <2> DEFINE x == Then(n, h[n - 1])
               g == [k \in 0..n |-> IF k = n THEN x ELSE h[k]]
    <2> HIDE DEF x
    <2>3. g = [k \in 0..n |-> g[k]] /\ g[0] = first
      BY <2>1
    <2>4. ASSUME NEW k \in 1..n PROVE g[k] = Then(k, g[k - 1])
      <3>1. k - 1 \in 0..n /\ k \in 0..n /\ k - 1 # n
        OBVIOUS
      <3>2. g[k - 1] = h[k - 1] /\ g[k] = IF k = n THEN x ELSE h[k]
        BY <3>1
      <3> HIDE DEF g
      <3>3. CASE k = n
        BY <3>2, <3>3 DEF x
      <3>4. CASE k # n
        <4>1. k \in 1..n - 1
          BY <3>4
        <4>2. h[k] = Then(k, h[k - 1])
          BY <2>1, <4>1
        <4> QED
          BY <3>2, <3>4, <4>2
      <3> QED
        BY <3>3, <3>4
    <2>5. Upto(n, g)
      BY <2>3, <2>4
    <2> QED
      BY <2>2, <2>5
  <1>5. PICK g : Upto(N, g)
    <2>1. \A n \in 1..N : n - 1 \in S => n \in S
      BY <1>4
    <2>2. N \in S
      <3> HIDE DEF S
      <3>1. N \in 0..N
        BY <1>1
      <3>2. \A n \in 0..N : n \in S
        BY ONLY <1>1, <1>3, <2>1, Induct
      <3> QED
        BY <3>1, <3>2
    <2> QED
      BY <2>2
  <1>6. ASSUME NEW n \in 0..N PROVE g[n] = IF n = 0 THEN first ELSE Then(n, g[n - 1])
    <2>1. CASE n = 0
      BY <1>5, <2>1
    <2>2. CASE n # 0
      <3>1. n \in 1..N
        BY <1>1, <2>2
      <3>2. g[n] = Then(n, g[n - 1])
        BY <1>5, <3>1
      <3> QED
        BY <2>2, <3>2
    <2> QED
      BY <2>1, <2>2
  <1>7. Solves(g)
    BY <1>5, <1>6
  <1>8. Solves(f)
    BY <1>7 DEF f
  <1>9. f[0] = first /\ \A n \in 1..N : f[n] = Then(n, f[n - 1])
    BY <1>1, <1>8
  <1>10. Purchases(f, w, targets, slot, mk)
    BY <1>2, <1>9 DEF N, Then, first, Purchases
  <1> QED
    BY <1>10

\* The day n of a backtest, given the wallet before it.
BacktestDay(n, x, days, targets, mk) ==
    LET before == {y \in days : y < n}
        signal == CHOOSE t \in before : \A y \in before : y <= t
    IN  IF n \notin days \/ before = {} THEN x
        ELSE IF targets[signal] = <<>> THEN x ELSE Rebalance(x, targets[signal], mk[n])

LEMMA BacktestUnfolds ==
    ASSUME NEW m \in Nat, NEW days, NEW targets, NEW mk
    PROVE  \E f : /\ f[0] = FreshWallet
                  /\ \A n \in 1..m :
                         f[n] = BacktestDay(n, f[n - 1], days, targets, mk)
                  /\ Backtest(m, days, targets, mk) = f[m]
  <1> DEFINE N == m
             first == FreshWallet
             Then(n, x) == BacktestDay(n, x, days, targets, mk)
             Solves(f) == f = [n \in 0..N |-> IF n = 0 THEN first ELSE Then(n, f[n - 1])]
             f == CHOOSE f : Solves(f)
             Upto(n, h) == h = [k \in 0..n |-> h[k]] /\ h[0] = first /\ \A k \in 1..n : h[k] = Then(k, h[k - 1])
             S == {n \in 0..N : \E h : Upto(n, h)}
  <1>1. N \in Nat
    OBVIOUS
  <1>2. Backtest(m, days, targets, mk) = f[N]
    BY DEF Backtest, BacktestDay
  <1> HIDE DEF N, f, Then, first
  <1>3. 0 \in S
    <2>1. Upto(0, [k \in 0..0 |-> first])
      OBVIOUS
    <2>2. 0 \in 0..N
      BY <1>1
    <2> HIDE DEF Upto
    <2> QED
      BY <2>1, <2>2
  <1>4. ASSUME NEW n \in 1..N, n - 1 \in S PROVE n \in S
    <2>1. PICK h : Upto(n - 1, h)
      BY <1>4
    <2>2. n - 1 \in 0..n-1 /\ n \in 0..N
      BY <1>1
    <2> DEFINE x == Then(n, h[n - 1])
               g == [k \in 0..n |-> IF k = n THEN x ELSE h[k]]
    <2> HIDE DEF x
    <2>3. g = [k \in 0..n |-> g[k]] /\ g[0] = first
      BY <2>1
    <2>4. ASSUME NEW k \in 1..n PROVE g[k] = Then(k, g[k - 1])
      <3>1. k - 1 \in 0..n /\ k \in 0..n /\ k - 1 # n
        OBVIOUS
      <3>2. g[k - 1] = h[k - 1] /\ g[k] = IF k = n THEN x ELSE h[k]
        BY <3>1
      <3> HIDE DEF g
      <3>3. CASE k = n
        BY <3>2, <3>3 DEF x
      <3>4. CASE k # n
        <4>1. k \in 1..n - 1
          BY <3>4
        <4>2. h[k] = Then(k, h[k - 1])
          BY <2>1, <4>1
        <4> QED
          BY <3>2, <3>4, <4>2
      <3> QED
        BY <3>3, <3>4
    <2>5. Upto(n, g)
      BY <2>3, <2>4
    <2> QED
      BY <2>2, <2>5
  <1>5. PICK g : Upto(N, g)
    <2>1. \A n \in 1..N : n - 1 \in S => n \in S
      BY <1>4
    <2>2. N \in S
      <3> HIDE DEF S
      <3>1. N \in 0..N
        BY <1>1
      <3>2. \A n \in 0..N : n \in S
        BY ONLY <1>1, <1>3, <2>1, Induct
      <3> QED
        BY <3>1, <3>2
    <2> QED
      BY <2>2
  <1>6. ASSUME NEW n \in 0..N PROVE g[n] = IF n = 0 THEN first ELSE Then(n, g[n - 1])
    <2>1. CASE n = 0
      BY <1>5, <2>1
    <2>2. CASE n # 0
      <3>1. n \in 1..N
        BY <1>1, <2>2
      <3>2. g[n] = Then(n, g[n - 1])
        BY <1>5, <3>1
      <3> QED
        BY <2>2, <3>2
    <2> QED
      BY <2>1, <2>2
  <1>7. Solves(g)
    BY <1>5, <1>6
  <1>8. Solves(f)
    BY <1>7 DEF f
  <1>9. f[0] = first /\ \A n \in 1..N : f[n] = Then(n, f[n - 1])
    BY <1>1, <1>8
  <1> QED
    BY <1>2, <1>9 DEF N, Then, first

LEMMA BacktestSteps ==
    ASSUME NEW days, NEW targets, NEW mk
    PROVE  /\ Backtest(0, days, targets, mk) = FreshWallet
           /\ \A m \in Nat \ {0} :
                  Backtest(m, days, targets, mk) = BacktestDay(m, Backtest(m - 1, days, targets, mk), days, targets, mk)
  <1>1. Backtest(0, days, targets, mk) = FreshWallet
    BY BacktestUnfolds
  <1>2. ASSUME NEW m \in Nat \ {0}
        PROVE  Backtest(m, days, targets, mk) = BacktestDay(m, Backtest(m - 1, days, targets, mk), days, targets, mk)
    <2>1. PICK f : /\ f[0] = FreshWallet
                   /\ \A n \in 1..m : f[n] = BacktestDay(n, f[n - 1], days, targets, mk)
                   /\ Backtest(m, days, targets, mk) = f[m]
      BY BacktestUnfolds
    <2>2. PICK g : /\ g[0] = FreshWallet
                   /\ \A n \in 1..m - 1 : g[n] = BacktestDay(n, g[n - 1], days, targets, mk)
                   /\ Backtest(m - 1, days, targets, mk) = g[m - 1]
      BY BacktestUnfolds
    <2> DEFINE S == {n \in 0..m - 1 : f[n] = g[n]}
    <2>3. 0 \in S
      BY <2>1, <2>2
    <2>4. \A n \in 1..m - 1 : n - 1 \in S => n \in S
      BY <2>1, <2>2
    <2>5. m - 1 \in S
      <3> HIDE DEF S
      <3>1. m - 1 \in Nat /\ m - 1 \in 0..m - 1
        OBVIOUS
      <3> QED
        BY ONLY <2>3, <2>4, <3>1, Induct
    <2> QED
      BY <2>1, <2>2, <2>5
  <1> QED
    BY <1>1, <1>2

\* What a backtest does up to a day depends on the days and the market up to it and the
\* targets before it.
LEMMA BacktestLocal ==
    ASSUME NEW m \in Nat, NEW D \in SUBSET (Nat \ {0}), NEW E \in SUBSET (Nat \ {0}),
           NEW rk, NEW rl, NEW mk, NEW ml,
           \A k \in 1..m : k \in D <=> k \in E,
           \A k \in D : k < m => rk[k] = rl[k],
           \A k \in 1..m : mk[k] = ml[k]
    PROVE  Backtest(m, D, rk, mk) = Backtest(m, E, rl, ml)
  <1>1. ASSUME NEW n \in 1..m, NEW x PROVE BacktestDay(n, x, D, rk, mk) = BacktestDay(n, x, E, rl, ml)
    <2> DEFINE before == {y \in D : y < n}
               others == {y \in E : y < n}
               signal(B) == CHOOSE t \in B : \A y \in B : y <= t
    <2>1. before = others
      <3>1. \A y : y \in D /\ y < n => y \in 1..m
        OBVIOUS
      <3>2. \A y : y \in E /\ y < n => y \in 1..m
        OBVIOUS
      <3> QED
        BY <3>1, <3>2
    <2>2. n \in D <=> n \in E
      OBVIOUS
    <2>3. before # {} => rk[signal(before)] = rl[signal(before)]
      <3> SUFFICES ASSUME before # {} PROVE rk[signal(before)] = rl[signal(before)]
        OBVIOUS
      <3>1. before \in SUBSET (0..m)
        <4>1. \A y \in D : y < n => y \in 0..m
          OBVIOUS
        <4> QED
          BY <4>1
      <3>2. \A y \in before : y \in D /\ y < m
        OBVIOUS
      <3> HIDE DEF before
      <3>3. \E t \in before : \A y \in before : y <= t
        BY <3>1, GreatestExists DEF Greatest
      <3>4. signal(before) \in before
        BY <3>3
      <3> HIDE DEF signal
      <3> QED
        BY <3>2, <3>4
    <2>4. mk[n] = ml[n]
      OBVIOUS
    <2>5. BacktestDay(n, x, D, rk, mk) = IF n \notin D \/ before = {} THEN x
                                         ELSE IF rk[signal(before)] = <<>> THEN x
                                         ELSE Rebalance(x, rk[signal(before)], mk[n])
      BY DEF BacktestDay
    <2>6. BacktestDay(n, x, E, rl, ml) = IF n \notin E \/ others = {} THEN x
                                         ELSE IF rl[signal(others)] = <<>> THEN x
                                         ELSE Rebalance(x, rl[signal(others)], ml[n])
      BY DEF BacktestDay
    <2> HIDE DEF before, others, signal
    <2> QED
      BY <2>1, <2>2, <2>3, <2>4, <2>5, <2>6
  <1> DEFINE S == {n \in 0..m : Backtest(n, D, rk, mk) = Backtest(n, E, rl, ml)}
  <1>2. 0 \in S
    BY BacktestSteps
  <1>3. ASSUME NEW n \in 1..m, n - 1 \in S PROVE n \in S
    <2>1. n \in Nat \ {0} /\ n \in 0..m
      OBVIOUS
    <2>2. /\ Backtest(n, D, rk, mk) = BacktestDay(n, Backtest(n - 1, D, rk, mk), D, rk, mk)
          /\ Backtest(n, E, rl, ml) = BacktestDay(n, Backtest(n - 1, E, rl, ml), E, rl, ml)
      BY <2>1, BacktestSteps
    <2> QED
      BY <1>1, <1>3, <2>1, <2>2
  <1>4. \A n \in 1..m : n - 1 \in S => n \in S
    BY <1>3
  <1>5. m \in S
    <2> HIDE DEF S
    <2>1. m \in 0..m
      OBVIOUS
    <2> QED
      BY ONLY m \in Nat, <1>2, <1>4, <2>1, Induct
  <1> QED
    BY <1>5

\* Days that are no trade days change nothing.
LEMMA QuietDays ==
    ASSUME NEW D, NEW rk, NEW mk, NEW l \in Nat, NEW m \in Nat, l <= m, \A k \in l + 1..m : k \notin D
    PROVE  Backtest(m, D, rk, mk) = Backtest(l, D, rk, mk)
  <1> DEFINE S == {n \in 0..m - l : Backtest(l + n, D, rk, mk) = Backtest(l, D, rk, mk)}
  <1>1. 0 \in S
    OBVIOUS
  <1>2. ASSUME NEW n \in 1..m - l, n - 1 \in S PROVE n \in S
    <2>1. l + n \in Nat \ {0} /\ l + n \notin D /\ (l + n) - 1 = l + (n - 1)
      OBVIOUS
    <2>2. Backtest(l + n, D, rk, mk) = BacktestDay(l + n, Backtest((l + n) - 1, D, rk, mk), D, rk, mk)
      BY <2>1, BacktestSteps
    <2>3. BacktestDay(l + n, Backtest(l + (n - 1), D, rk, mk), D, rk, mk) = Backtest(l + (n - 1), D, rk, mk)
      BY <2>1 DEF BacktestDay
    <2> QED
      BY <1>2, <2>1, <2>2, <2>3
  <1>3. \A n \in 1..m - l : n - 1 \in S => n \in S
    BY <1>2
  <1>4. m - l \in Nat /\ m - l \in 0..m - l /\ l + (m - l) = m
    OBVIOUS
  <1>5. m - l \in S
    <2> HIDE DEF S
    <2> QED
      BY ONLY <1>1, <1>3, <1>4, Induct
  <1> QED
    BY <1>4, <1>5

-----------------------------------------------------------------------------
(* What one tick does to its orders and to its wallet *)

\* A match before its order i: what it sells or buys, and how it settles the order.
LEMMA SellIs ==
    ASSUME NEW d, orders \in Seq(OrderRows), NEW acc, NEW P, Matched(d, acc, P),
           NEW i \in Due(d), i \notin P
    PROVE  LET c == orders[i].code
               q == market[d][c]
               m == MatchSell(acc, i, d)
           IN  /\ MatchFill("sell", q) # "fill" => m.w = acc.w /\ m.orders[i].exec = d + 1
               /\ MatchFill("sell", q) = "fill" =>
                      /\ m.orders[i].exec = orders[i].exec /\ m.orders[i].status # "pending"
                      /\ m.w = IF acc.w.hold[c] = 0 THEN acc.w ELSE SellOne(acc.w, c, q)
               /\ \A j \in DOMAIN orders : j # i => m.orders[j] = acc.orders[j]
  <1> DEFINE o == acc.orders[i]
             c == orders[i].code
             q == market[d][c]
             m == MatchSell(acc, i, d)
  <1>1. i \in DOMAIN orders /\ orders[i] \in OrderRows
    BY DEF Due
  <1>2. /\ acc.orders \in Seq(OrderRows) /\ DOMAIN acc.orders = DOMAIN orders
        /\ acc.orders = [j \in DOMAIN orders |-> acc.orders[j]]
    BY DEF Matched, Shaped
  <1>3. o = orders[i]
    BY <1>1 DEF Matched, Kept
  <1>4. m = IF MatchFill("sell", q) # "fill" THEN [acc EXCEPT !.orders[i].exec = NextWeekday(d)]
            ELSE IF acc.w.hold[c] = 0 THEN Settle(acc, i, "cancelled")
            ELSE Fill(acc, i, d, SellOne(acc.w, c, q), acc.w.hold[c])
    BY <1>3 DEF MatchSell
  <1>5. CASE MatchFill("sell", q) # "fill"
    <2> DEFINE p == [o EXCEPT !.exec = NextWeekday(d)]
    <2>1. m.w = acc.w /\ m.orders = [acc.orders EXCEPT ![i] = p]
      BY <1>4, <1>5 DEF Matched, Shaped
    <2>2. p.exec = d + 1
      BY <1>1, <1>3 DEF OrderRows, NextWeekday
    <2> HIDE DEF m, p, o
    <2> QED
      BY <1>1, <1>2, <1>5, <2>1, <2>2 DEF m
  <1>6. CASE MatchFill("sell", q) = "fill" /\ acc.w.hold[c] = 0
    <2> DEFINE p == [o EXCEPT !.status = "cancelled"]
    <2>1. m.w = acc.w /\ m.orders = [acc.orders EXCEPT ![i] = p]
      BY <1>4, <1>6 DEF Settle
    <2>2. p.exec = orders[i].exec /\ p.status = "cancelled"
      BY <1>1, <1>3 DEF OrderRows
    <2> HIDE DEF m, p, o
    <2> QED
      BY <1>1, <1>2, <1>6, <2>1, <2>2 DEF m
  <1>7. CASE MatchFill("sell", q) = "fill" /\ acc.w.hold[c] # 0
    <2> DEFINE p == [o EXCEPT !.status = "filled"]
    <2>1. m.w = SellOne(acc.w, c, q) /\ m.orders = [acc.orders EXCEPT ![i] = p]
      BY <1>4, <1>7 DEF Fill, Settle
    <2>2. p.exec = orders[i].exec /\ p.status = "filled"
      BY <1>1, <1>3 DEF OrderRows
    <2> HIDE DEF m, p, o
    <2> QED
      BY <1>1, <1>2, <1>7, <2>1, <2>2 DEF m
  <1> QED
    BY <1>5, <1>6, <1>7

LEMMA BuyIs ==
    ASSUME NEW d, orders \in Seq(OrderRows), NEW acc, NEW P, Matched(d, acc, P),
           NEW i \in Due(d), i \notin P, NEW slot
    PROVE  LET c == orders[i].code
               q == market[d][c]
               m == MatchBuy(acc, i, d, slot)
           IN  /\ m.orders[i].exec = orders[i].exec /\ m.orders[i].status # "pending"
               /\ m.w = IF MatchFill("buy", q) # "fill" \/ ~Affordable(acc.w, slot, q) THEN acc.w
                        ELSE BuyOne(acc.w, c, slot, q)
               /\ \A j \in DOMAIN orders : j # i => m.orders[j] = acc.orders[j]
  <1> DEFINE o == acc.orders[i]
             c == orders[i].code
             q == market[d][c]
             m == MatchBuy(acc, i, d, slot)
  <1>1. i \in DOMAIN orders /\ orders[i] \in OrderRows
    BY DEF Due
  <1>2. /\ acc.orders \in Seq(OrderRows) /\ DOMAIN acc.orders = DOMAIN orders
        /\ acc.orders = [j \in DOMAIN orders |-> acc.orders[j]]
    BY DEF Matched, Shaped
  <1>3. o = orders[i]
    BY <1>1 DEF Matched, Kept
  <1>4. m = IF MatchFill("buy", q) # "fill" \/ ~Affordable(acc.w, slot, q) THEN Settle(acc, i, "skipped")
            ELSE Fill(acc, i, d, BuyOne(acc.w, c, slot, q), BuyShares(slot, q))
    BY <1>3 DEF MatchBuy
  <1>5. CASE MatchFill("buy", q) # "fill" \/ ~Affordable(acc.w, slot, q)
    <2> DEFINE p == [o EXCEPT !.status = "skipped"]
    <2>1. m.w = acc.w /\ m.orders = [acc.orders EXCEPT ![i] = p]
      BY <1>4, <1>5 DEF Settle
    <2>2. p.exec = orders[i].exec /\ p.status = "skipped"
      BY <1>1, <1>3 DEF OrderRows
    <2> HIDE DEF m, p, o
    <2> QED
      BY <1>1, <1>2, <1>5, <2>1, <2>2 DEF m
  <1>6. CASE ~(MatchFill("buy", q) # "fill" \/ ~Affordable(acc.w, slot, q))
    <2> DEFINE p == [o EXCEPT !.status = "filled"]
    <2>1. m.w = BuyOne(acc.w, c, slot, q) /\ m.orders = [acc.orders EXCEPT ![i] = p]
      BY <1>4, <1>6 DEF Fill, Settle
    <2>2. p.exec = orders[i].exec /\ p.status = "filled"
      BY <1>1, <1>3 DEF OrderRows
    <2> HIDE DEF m, p, o
    <2> QED
      BY <1>1, <1>2, <1>6, <2>1, <2>2 DEF m
  <1> QED
    BY <1>5, <1>6

\* The due orders of a tick are settled, but for the sells that are deferred.
Settles(o, i, d) ==
    IF orders[i].side = "sell" /\ MatchFill("sell", market[d][orders[i].code]) # "fill"
    THEN o.exec = d + 1
    ELSE o.exec = orders[i].exec /\ o.status # "pending"

LEMMA SideSettles ==
    ASSUME NEW d \in 1..Horizon, orders \in Seq(OrderRows), cash \in Int, PositionsLatest(d) \in Holdings,
           market[d] \in Markets \cup {Closed}, NEW side \in {"sell", "buy"}, NEW slot \in Nat,
           NEW first, NEW P, Matched(d, first, P), \A i \in P : orders[i].side # side,
           NEW f, Runs(f, d, side, first, slot)
    PROVE  \A n \in 0..Len(orders) :
               /\ \A i \in DueOf(d, side, n) : Settles(f[n].orders[i], i, d)
               /\ \A i \in DOMAIN orders : i \notin DueOf(d, side, n) => f[n].orders[i] = first.orders[i]
  <1> DEFINE N == Len(orders)
             S == {n \in 0..N :
                      /\ \A i \in DueOf(d, side, n) : Settles(f[n].orders[i], i, d)
                      /\ \A i \in DOMAIN orders : i \notin DueOf(d, side, n) => f[n].orders[i] = first.orders[i]}
  <1>1. /\ f[0] = first /\ N \in Nat /\ DOMAIN orders = 1..N /\ Due(d) \subseteq 1..N
        /\ \A n \in 1..N :
               f[n] = IF n \notin Due(d) \/ orders[n].side # side THEN f[n - 1]
                      ELSE IF side = "sell" THEN MatchSell(f[n - 1], n, d)
                      ELSE MatchBuy(f[n - 1], n, d, slot)
    BY DEF Runs, Due
  <1>2. \A n \in 0..Len(orders) : Matched(d, f[n], P \cup DueOf(d, side, n))
    BY SideRuns
  <1>3. 0 \in S
    <2>1. DueOf(d, side, 0) = {}
      BY <1>1 DEF DueOf
    <2> QED
      BY <1>1, <2>1
  <1>4. ASSUME NEW n \in 1..N, n - 1 \in S PROVE n \in S
    <2> DEFINE acc == f[n - 1]
    <2>1. Matched(d, acc, P \cup DueOf(d, side, n - 1))
      <3>1. n - 1 \in 0..Len(orders)
        BY <1>1
      <3> QED
        BY ONLY <1>2, <3>1
    <2>2. CASE n \notin Due(d) \/ orders[n].side # side
      <3>1. DueOf(d, side, n) = DueOf(d, side, n - 1)
        BY <1>1, <2>2 DEF DueOf
      <3>2. f[n] = acc
        BY <1>1, <2>2
      <3> QED
        BY <1>4, <3>1, <3>2
    <2>3. CASE n \in Due(d) /\ orders[n].side = side
      <3>1. /\ DueOf(d, side, n) = DueOf(d, side, n - 1) \cup {n}
            /\ n \notin P \cup DueOf(d, side, n - 1)
        BY <1>1, <2>3 DEF DueOf
      <3>2. Settles(f[n].orders[n], n, d) /\ \A j \in DOMAIN orders : j # n => f[n].orders[j] = acc.orders[j]
        <4> HIDE DEF acc
        <4>1. CASE side = "sell"
          <5>1. f[n] = MatchSell(acc, n, d)
            BY <1>1, <2>3, <4>1 DEF acc
          <5> QED
            BY <2>1, <2>3, <3>1, <4>1, <5>1, SellIs DEF Settles
        <4>2. CASE side = "buy"
          <5>1. f[n] = MatchBuy(acc, n, d, slot)
            BY <1>1, <2>3, <4>2 DEF acc
          <5> QED
            BY <2>1, <2>3, <3>1, <4>2, <5>1, BuyIs DEF Settles
        <4> QED
          BY <4>1, <4>2
      <3>3. \A i \in DueOf(d, side, n - 1) : i \in DOMAIN orders /\ i # n
        BY <1>1, <3>1 DEF DueOf
      <3> QED
        BY <1>4, <3>1, <3>2, <3>3
    <2> QED
      BY <2>2, <2>3
  <1>5. \A n \in 1..N : n - 1 \in S => n \in S
    BY <1>4
  <1>6. \A n \in 0..N : n \in S
    <2> HIDE DEF S
    <2> QED
      BY ONLY <1>1, <1>3, <1>5, Induct
  <1> QED
    BY <1>6

LEMMA OrdersSettle ==
    ASSUME NEW d, Before(d)
    PROVE  \A i \in DOMAIN orders : IF i \in Due(d) THEN Settles(Match(d).orders[i], i, d)
                                    ELSE Match(d).orders[i] = orders[i]
  <1> DEFINE N == Len(orders)
             sold == MatchSide(d, "sell", Opening(d), 0)
             slot == PerTarget(sold.w, market[d])
  <1>1. /\ d \in 1..Horizon /\ orders \in Seq(OrderRows) /\ cash \in Int /\ PositionsLatest(d) \in Holdings
        /\ market[d] \in Markets \cup {Closed} /\ Due(d) \subseteq DOMAIN orders
    BY BeforeFacts
  <1>2. PICK f : Runs(f, d, "sell", Opening(d), 0)
    BY <1>1, RunsExist
  <1>3. PICK g : Runs(g, d, "buy", sold, slot)
    BY <1>1, RunsExist
  <1>4. Match(d) = g[N] /\ sold = f[N] /\ N \in Nat /\ N \in 0..N
    BY <1>1, <1>2, <1>3 DEF Match, Runs
  <1>5. Matched(d, Opening(d), {})
    BY <1>1, OpeningMatched
  <1>6. Matched(d, sold, DueOf(d, "sell", N))
    <2>1. Matched(d, f[N], {} \cup DueOf(d, "sell", N))
      BY <1>1, <1>2, <1>4, <1>5, SideRuns
    <2>2. {} \cup DueOf(d, "sell", N) = DueOf(d, "sell", N)
      OBVIOUS
    <2> QED
      BY <1>4, <2>1, <2>2
  <1>7. slot \in Nat
    <2>1. sold.w.cash \in Int /\ sold.w.hold \in [Codes -> Lots]
      BY <1>6 DEF Matched, Shaped, Holdings
    <2> HIDE DEF sold
    <2>2. sold.w.hold \in [Codes -> Nat] /\ market[d] \in Quotes
      BY <1>1, <2>1, LotsAreNat, ParametersAssumption
    <2> QED
      BY <2>1, <2>2, SlotIsNat
  <1>8. /\ \A i \in DueOf(d, "sell", N) : Settles(f[N].orders[i], i, d)
        /\ \A i \in DOMAIN orders : i \notin DueOf(d, "sell", N) => f[N].orders[i] = Opening(d).orders[i]
    BY <1>1, <1>2, <1>4, <1>5, SideSettles
  <1>9. \A i \in DueOf(d, "sell", N) : orders[i].side # "buy"
    BY DEF DueOf
  <1> HIDE DEF sold, slot
  <1>10. /\ \A i \in DueOf(d, "buy", N) : Settles(g[N].orders[i], i, d)
         /\ \A i \in DOMAIN orders : i \notin DueOf(d, "buy", N) => g[N].orders[i] = sold.orders[i]
    BY <1>1, <1>3, <1>4, <1>6, <1>7, <1>9, SideSettles
  <1>11. Opening(d).orders = orders
    BY DEF Opening
  <1>12. ASSUME NEW i \in Due(d) PROVE i \in DueOf(d, "sell", N) \/ i \in DueOf(d, "buy", N)
    <2>1. orders[i] \in OrderRows /\ i \in DOMAIN orders
      BY <1>1
    <2>2. orders[i].side \in {"sell", "buy"} /\ i <= N
      BY <1>1, <2>1 DEF OrderRows
    <2> QED
      BY <2>2 DEF DueOf
  <1>13. \A i \in DOMAIN orders : i \notin Due(d) => i \notin DueOf(d, "sell", N) /\ i \notin DueOf(d, "buy", N)
    BY DEF DueOf
  <1>14. \A i \in DueOf(d, "sell", N) : i \notin DueOf(d, "buy", N)
    BY DEF DueOf
  <1> QED
    BY <1>1, <1>4, <1>8, <1>10, <1>11, <1>12, <1>13, <1>14

-----------------------------------------------------------------------------
(* A tick that executes a plan is a day of the backtest *)

LEMMA ListedOnce ==
    ASSUME NEW S, IsFiniteSet(S)
    PROVE  \A i, j \in 1..Len(SetToSeq(S)) : SetToSeq(S)[i] = SetToSeq(S)[j] => i = j
  <1> DEFINE N == Cardinality(S)
             f == SetToSeq(S)
  <1>1. N \in Nat /\ ExistsBijection(1..N, S)
    BY FS_CardinalityType
  <1>2. PICK b \in Bijection(1..N, S) : TRUE
    BY <1>1 DEF ExistsBijection
  <1>3. b \in [1..N -> S] /\ IsInjective(b)
    BY <1>2 DEF Bijection, Injection, IsInjective
  <1>4. f \in [1..N -> S] /\ IsInjective(f)
    BY <1>3 DEF SetToSeq
  <1> HIDE DEF f
  <1>5. Len(f) = N /\ DOMAIN f = 1..N
    BY <1>1, <1>4
  <1> QED
    BY <1>4, <1>5 DEF IsInjective, f

\* The orders of a signal without a tolerance: the sells, then the buys.
LEMMA PlanIs ==
    ASSUME NEW hold \in Holdings, NEW targets \in Seq(Codes), IsInjective(targets), NEW q
    PROVE  LET E == {c \in Codes : hold[c] > 0} \ ToSet(targets)
               B == {c \in ToSet(targets) : ~(hold[c] > 0)}
               sells == SetToSeq(E)
               buys == Ranked(targets, B)
               new == CreateOrders(hold, targets, q, {}, {})
           IN  /\ sells \in Seq(E) /\ \A c \in E : \E n \in 1..Len(sells) : sells[n] = c
               /\ \A i, j \in 1..Len(sells) : sells[i] = sells[j] => i = j
               /\ buys \in Seq(Codes) /\ Len(new) = Len(sells) + Len(buys)
               /\ \A i \in 1..Len(sells) : new[i] = Order(sells[i], "sell", q)
               /\ \A i \in 1..Len(buys) : new[Len(sells) + i] = Order(buys[i], "buy", q)
  <1> DEFINE E == {c \in Codes : hold[c] > 0} \ ToSet(targets)
             B == {c \in ToSet(targets) : ~(hold[c] > 0)}
             sells == SetToSeq(E)
             buys == Ranked(targets, B)
             A == [i \in 1..Len(sells) |-> Order(sells[i], "sell", q)]
             C == [i \in 1..Len(buys) |-> Order(buys[i], "buy", q)]
             new == CreateOrders(hold, targets, q, {}, {})
  <1>1. IsFiniteSet(E)
    BY ParametersAssumption, FS_Subset
  <1>2. ToSet(targets) \subseteq Codes
    BY DEF ToSet
  <1>3. DiffOrders(hold, targets, {}, {}).sell = E /\ DiffOrders(hold, targets, {}, {}).buy = B
    BY <1>2 DEF DiffOrders
  <1>4. new = A \o C
    BY <1>3 DEF CreateOrders
  <1>5. /\ sells \in Seq(E) /\ (\A c \in E : \E n \in 1..Len(sells) : sells[n] = c)
        /\ \A i, j \in 1..Len(sells) : sells[i] = sells[j] => i = j
    BY <1>1, Listed, ListedOnce
  <1>6. buys \in Seq(Codes)
    BY RankedOnce
  <1> HIDE DEF sells, buys, E, B, new
  <1>7. Len(sells) \in Nat /\ Len(buys) \in Nat
    BY <1>5, <1>6
  <1> DEFINE O == {Order(sells[i], "sell", q) : i \in 1..Len(sells)}
                    \cup {Order(buys[i], "buy", q) : i \in 1..Len(buys)}
  <1>8. /\ A \in Seq(O) /\ Len(A) = Len(sells)
        /\ C \in Seq(O) /\ Len(C) = Len(buys)
    BY <1>7
  <1>9. /\ Len(new) = Len(sells) + Len(buys)
        /\ \A i \in 1..Len(sells) : new[i] = A[i]
        /\ \A i \in 1..Len(buys) : new[Len(sells) + i] = C[i]
    <2> HIDE DEF A, C, O
    <2>1. Len(A \o C) = Len(A) + Len(C) /\ \A i \in 1..Len(A) : (A \o C)[i] = A[i]
      BY <1>8
    <2>2. ASSUME NEW i \in 1..Len(C) PROVE (A \o C)[Len(A) + i] = C[i]
      <3>1. Len(A) + i \in 1..Len(A) + Len(C) /\ ~(Len(A) + i <= Len(A)) /\ (Len(A) + i) - Len(A) = i
        BY <1>7, <1>8
      <3> QED
        BY <1>8, <3>1
    <2> QED
      BY <1>4, <1>8, <2>1, <2>2
  <1> QED
    BY <1>5, <1>6, <1>9 DEF sells, buys, E, B, new

\* Orders that are not due, or of the other side, leave the match as it is.
LEMMA QuietRun ==
    ASSUME orders \in Seq(OrderRows), NEW d, NEW side, NEW first, NEW slot, NEW f, Runs(f, d, side, first, slot),
           NEW lo \in Nat, NEW hi \in Nat, lo <= hi, hi <= Len(orders),
           \A n \in lo + 1..hi : n \notin Due(d) \/ orders[n].side # side
    PROVE  f[hi] = f[lo]
  <1> DEFINE S == {n \in 0..hi - lo : f[lo + n] = f[lo]}
  <1>1. 0 \in S
    OBVIOUS
  <1>2. ASSUME NEW n \in 1..hi - lo, n - 1 \in S PROVE n \in S
    <2>1. lo + n \in 1..Len(orders) /\ lo + n \in lo + 1..hi /\ (lo + n) - 1 = lo + (n - 1)
      OBVIOUS
    <2>2. f[lo + n] = f[(lo + n) - 1]
      BY <2>1 DEF Runs
    <2> QED
      BY <1>2, <2>1, <2>2
  <1>3. \A n \in 1..hi - lo : n - 1 \in S => n \in S
    BY <1>2
  <1>4. hi - lo \in Nat /\ hi - lo \in 0..hi - lo /\ lo + (hi - lo) = hi
    OBVIOUS
  <1>5. hi - lo \in S
    <2> HIDE DEF S
    <2> QED
      BY ONLY <1>1, <1>3, <1>4, Induct
  <1> QED
    BY <1>4, <1>5

\* The due sells are those of the codes E, from the order b + 1 on, and none is blocked.
SellPlan(d, E, sells, b) ==
    /\ E \subseteq Codes /\ \A c \in E : PositionsLatest(d)[c] > 0
    /\ sells \in Seq(E) /\ \A c \in E : \E n \in 1..Len(sells) : sells[n] = c
    /\ \A i, j \in 1..Len(sells) : sells[i] = sells[j] => i = j
    /\ b \in Nat /\ b + Len(sells) <= Len(orders)
    /\ \A i \in 1..Len(sells) : /\ b + i \in Due(d) /\ orders[b + i].side = "sell"
                                 /\ orders[b + i].code = sells[i]
                                 /\ MatchFill("sell", market[d][sells[i]]) = "fill"
    /\ \A i \in Due(d) : orders[i].side = "sell" => i \in b + 1..b + Len(sells)

Wallet(d) == [cash |-> cash, hold |-> PositionsLatest(d)]

\* When no exit is blocked, the sells of a tick are the sales of the backtest.
LEMMA SoldIs ==
    ASSUME NEW d, Before(d), NEW E, NEW sells, NEW b, SellPlan(d, E, sells, b)
    PROVE  LET w == MatchSide(d, "sell", Opening(d), 0).w
           IN  /\ w = SellAll(Wallet(d), sells, market[d])
               /\ \A c \in Codes : w.hold[c] = IF c \in E THEN 0 ELSE PositionsLatest(d)[c]
  <1> DEFINE L == Len(sells)
             N == Len(orders)
             hold == PositionsLatest(d)
             mk == market[d]
  <1>1. /\ d \in 1..Horizon /\ orders \in Seq(OrderRows) /\ cash \in Int /\ PositionsLatest(d) \in Holdings
        /\ market[d] \in Markets \cup {Closed} /\ Due(d) \subseteq DOMAIN orders
    BY BeforeFacts
  <1>2. /\ N \in Nat /\ L \in Nat /\ b \in Nat /\ b + L <= N
        /\ \A i \in 1..L : sells[i] \in E
    BY <1>1 DEF SellPlan
  <1>3. \A i \in 1..L : sells[i] \in Codes
    BY <1>2 DEF SellPlan
  <1>4. \A c \in Codes : hold[c] \in Nat
    <2>1. \A c \in Codes : hold[c] \in Lots
      BY <1>1 DEF Holdings
    <2> QED
      BY <2>1, LotsAreNat
  <1>5. PICK f : Runs(f, d, "sell", Opening(d), 0)
    BY <1>1, RunsExist
  <1>6. PICK g : Sales(g, Wallet(d), sells, mk)
    BY <1>2, SalesExist
  <1>7. f[0] = Opening(d) /\ MatchSide(d, "sell", Opening(d), 0) = f[N]
    BY <1>5 DEF Runs
  <1>8. Opening(d).w = Wallet(d) /\ Wallet(d).hold = hold
    BY DEF Opening, Wallet
  <1>9. \A n \in 1..N : n \in Due(d) /\ orders[n].side = "sell" => n \in b + 1..b + L
    BY DEF SellPlan
  <1> HIDE DEF L, N
  <1>10. f[b] = f[0]
    <2>1. \A n \in 0 + 1..b : n \notin Due(d) \/ orders[n].side # "sell"
      BY <1>2, <1>9
    <2>2. 0 \in Nat /\ 0 <= b /\ b <= Len(orders)
      BY <1>2 DEF N
    <2> QED
      BY ONLY <1>1, <1>2, <1>5, <2>1, <2>2, QuietRun
  <1>11. f[N] = f[b + L]
    <2>1. \A n \in (b + L) + 1..N : n \notin Due(d) \/ orders[n].side # "sell"
      BY <1>2, <1>9
    <2>2. b + L \in Nat /\ b + L <= N /\ N <= Len(orders)
      BY <1>2 DEF N
    <2> QED
      BY ONLY <1>1, <1>2, <1>5, <2>1, <2>2, QuietRun
  <1>12. \A n \in 0..N : Matched(d, f[n], {} \cup DueOf(d, "sell", n))
    <2>1. Matched(d, Opening(d), {})
      BY <1>1, OpeningMatched
    <2> QED
      BY <1>1, <1>5, <2>1, SideRuns DEF N
  <1>13. \A k \in 1..L : /\ b + k \in Due(d) /\ orders[b + k].side = "sell"
                         /\ orders[b + k].code = sells[k] /\ MatchFill("sell", mk[sells[k]]) = "fill"
    BY DEF SellPlan, L
  <1>14. \A k \in 1..L : hold[sells[k]] > 0 /\ \A j \in 1..k - 1 : sells[j] # sells[k]
    <2>1. \A k \in 1..L : hold[sells[k]] > 0
      BY <1>2 DEF SellPlan
    <2>2. \A i, j \in 1..L : sells[i] = sells[j] => i = j
      BY DEF SellPlan, L
    <2> QED
      BY <1>2, <2>1, <2>2
  <1>15. E = {sells[j] : j \in 1..L}
    <2>1. \A c \in E : \E n \in 1..L : sells[n] = c
      BY DEF SellPlan, L
    <2> QED
      BY <1>2, <2>1
  <1> HIDE DEF hold, mk
  <1> DEFINE S == {k \in 0..L : /\ f[b + k].w = g[k]
                                /\ \A c \in Codes : g[k].hold[c] = IF \E j \in 1..k : sells[j] = c THEN 0 ELSE hold[c]}
  <1>16. 0 \in S
    <2>1. b + 0 = b /\ 0 \in 0..L /\ \A j : j \notin 1..0
      BY <1>2
    <2>2. g[0].hold = hold /\ f[b].w = g[0]
      BY <1>6, <1>7, <1>8, <1>10 DEF Sales
    <2> QED
      BY <2>1, <2>2
  <1>17. ASSUME NEW k \in 1..L, k - 1 \in S PROVE k \in S
    <2> DEFINE n == b + k
               c == sells[k]
               acc == f[n - 1]
               P == {} \cup DueOf(d, "sell", n - 1)
    <2>1. n \in 1..N /\ n - 1 \in 0..N /\ n - 1 = b + (k - 1) /\ k \in 0..L
      BY <1>2
    <2>2. /\ n \in Due(d) /\ orders[n].side = "sell" /\ orders[n].code = c
          /\ MatchFill("sell", mk[c]) = "fill" /\ c \in Codes
      BY <1>3, <1>13
    <2>3. f[n] = MatchSell(acc, n, d)
      <3> HIDE DEF n
      <3> QED
        BY <1>5, <2>1, <2>2 DEF Runs, N
    <2>4. Matched(d, acc, P)
      BY <1>12, <2>1
    <2>5. n \notin P
      BY <2>1 DEF DueOf
    <2>6. acc.w = g[k - 1]
      BY <1>17, <2>1
    <2>7. g[k - 1].hold[c] = hold[c] /\ hold[c] > 0
      BY <1>14, <1>17, <2>2
    <2>8. f[n].w = SellOne(g[k - 1], c, mk[c])
      <3> HIDE DEF acc, P, n, c
      <3>1. acc.w.hold[c] # 0
        BY <1>4, <2>2, <2>6, <2>7
      <3>2. MatchSell(acc, n, d).w = SellOne(acc.w, c, mk[c])
        BY <1>1, <2>2, <2>4, <2>5, <3>1, SellIs DEF mk
      <3> QED
        BY <2>3, <2>6, <3>2
    <2>9. g[k] = SellOne(g[k - 1], c, mk[c])
      BY <1>6 DEF Sales, L
    <2>10. g[k - 1].hold \in Holdings
      BY <2>4, <2>6 DEF Matched, Shaped
    <2>11. g[k].hold = [g[k - 1].hold EXCEPT ![c] = 0]
      <3> HIDE DEF c
      <3> QED
        BY <2>9 DEF SellOne
    <2>12. ASSUME NEW e \in Codes
           PROVE  g[k].hold[e] = IF \E j \in 1..k : sells[j] = e THEN 0 ELSE hold[e]
      <3>1. g[k].hold[e] = IF e = c THEN 0 ELSE g[k - 1].hold[e]
        <4> HIDE DEF c
        <4> QED
          BY <2>10, <2>11 DEF Holdings
      <3>2. g[k - 1].hold[e] = IF \E j \in 1..k - 1 : sells[j] = e THEN 0 ELSE hold[e]
        BY <1>17
      <3>3. (\E j \in 1..k : sells[j] = e) <=> (e = c \/ \E j \in 1..k - 1 : sells[j] = e)
        BY <1>2
      <3> QED
        BY <3>1, <3>2, <3>3
    <2> QED
      BY <2>1, <2>8, <2>9, <2>12
  <1>18. \A k \in 1..L : k - 1 \in S => k \in S
    BY <1>17
  <1>19. L \in S
    <2> HIDE DEF S
    <2>1. L \in 0..L
      BY <1>2
    <2> QED
      BY ONLY <1>2, <1>16, <1>18, <2>1, Induct
  <1>20. \A c \in Codes : g[L].hold[c] = IF c \in E THEN 0 ELSE hold[c]
    BY <1>15, <1>19
  <1>21. MatchSide(d, "sell", Opening(d), 0).w = g[L]
    BY <1>7, <1>11, <1>19
  <1>22. SellAll(Wallet(d), sells, mk) = g[L]
    BY <1>6 DEF Sales, L
  <1> QED
    BY <1>20, <1>21, <1>22 DEF hold, mk

\* What is ranked of the first targets is the beginning of what is ranked of all of them.
Listing(r, targets, buy) ==
    /\ r[0] = <<>> /\ Ranked(targets, buy) = r[Len(targets)]
    /\ \A n \in 1..Len(targets) :
           r[n] = IF targets[n] \in buy THEN Append(r[n - 1], targets[n]) ELSE r[n - 1]

Grows(r, N) ==
    /\ \A k \in 0..N : r[k] \in Seq(Codes)
    /\ \A k \in 0..N : \A m \in 0..k : Len(r[m]) <= Len(r[k]) /\ \A i \in 1..Len(r[m]) : r[k][i] = r[m][i]

LEMMA RankedPrefix ==
    ASSUME NEW targets \in Seq(Codes), NEW buy
    PROVE  \E r : Listing(r, targets, buy) /\ Grows(r, Len(targets))
  <1> DEFINE K == Len(targets)
  <1>1. PICK r : Listing(r, targets, buy)
    BY RankedUnfolds DEF Listing
  <1>2. K \in Nat /\ \A n \in 1..K : targets[n] \in Codes
    OBVIOUS
  <1>3. /\ r[0] = <<>>
        /\ \A n \in 1..K : r[n] = IF targets[n] \in buy THEN Append(r[n - 1], targets[n]) ELSE r[n - 1]
    BY <1>1 DEF Listing
  <1> HIDE DEF K
  <1> DEFINE S == {k \in 0..K : /\ r[k] \in Seq(Codes)
                                /\ \A m \in 0..k : /\ Len(r[m]) <= Len(r[k])
                                                   /\ \A i \in 1..Len(r[m]) : r[k][i] = r[m][i]}
  <1>4. 0 \in S
    <2>1. r[0] \in Seq(Codes) /\ Len(r[0]) = 0
      BY <1>3
    <2> QED
      BY <1>2, <2>1
  <1>5. ASSUME NEW k \in 1..K, k - 1 \in S PROVE k \in S
    <2>1. r[k - 1] \in Seq(Codes) /\ targets[k] \in Codes /\ k \in 0..K
      BY <1>2, <1>5
    <2>2. r[k] = IF targets[k] \in buy THEN Append(r[k - 1], targets[k]) ELSE r[k - 1]
      BY <1>3
    <2>3. /\ r[k] \in Seq(Codes) /\ Len(r[k - 1]) <= Len(r[k])
          /\ \A i \in 1..Len(r[k - 1]) : r[k][i] = r[k - 1][i]
      BY <2>1, <2>2
    <2>4. ASSUME NEW m \in 0..k
          PROVE  Len(r[m]) <= Len(r[k]) /\ \A i \in 1..Len(r[m]) : r[k][i] = r[m][i]
      <3>1. CASE m = k
        BY <2>3, <3>1
      <3>2. CASE m # k
        <4>1. m \in 0..k - 1
          BY <1>2, <3>2
        <4>2. Len(r[m]) <= Len(r[k - 1]) /\ \A i \in 1..Len(r[m]) : r[k - 1][i] = r[m][i]
          BY <1>5, <4>1
        <4>3. Len(r[k - 1]) \in Nat /\ Len(r[k]) \in Nat
          BY <2>1, <2>3
        <4>4. Len(r[m]) \in Int
          BY <4>2, <4>3, <1>5, <4>1
        <4> QED
          BY <2>3, <4>2, <4>3, <4>4
      <3> QED
        BY <3>1, <3>2
    <2> QED
      BY <2>1, <2>3, <2>4
  <1>6. \A k \in 1..K : k - 1 \in S => k \in S
    BY <1>5
  <1>7. \A k \in 0..K : k \in S
    <2> HIDE DEF S
    <2> QED
      BY ONLY <1>2, <1>4, <1>6, Induct
  <1>8. Grows(r, K)
    BY <1>7 DEF Grows
  <1> QED
    BY <1>1, <1>8 DEF K

\* The due buys are those of the targets B, from the order e + 1 on; the other targets are held.
BuyPlan(d, sold, targets, B, e) ==
    LET buys == Ranked(targets, B)
    IN  /\ targets \in Seq(Codes) /\ IsInjective(targets)
        /\ \A c \in ToSet(targets) : IF c \in B THEN sold.w.hold[c] = 0 ELSE sold.w.hold[c] > 0
        /\ e \in Nat /\ Len(orders) = e + Len(buys)
        /\ \A i \in 1..Len(buys) : /\ e + i \in Due(d) /\ orders[e + i].side = "buy"
                                   /\ orders[e + i].code = buys[i]
        /\ \A i \in 1..e : i \notin Due(d) \/ orders[i].side # "buy"

\* The buys of a tick are the purchases of the backtest.
LEMMA BoughtIs ==
    ASSUME NEW d, Before(d), NEW sold, NEW P, Matched(d, sold, P), \A i \in P : orders[i].side # "buy",
           NEW slot \in Nat, NEW targets, NEW B, NEW e, BuyPlan(d, sold, targets, B, e)
    PROVE  MatchSide(d, "buy", sold, slot).w = BuyTargets(sold.w, targets, slot, market[d])
  <1> DEFINE K == Len(targets)
             N == Len(orders)
             mk == market[d]
             buys == Ranked(targets, B)
  <1>1. /\ d \in 1..Horizon /\ orders \in Seq(OrderRows) /\ cash \in Int /\ PositionsLatest(d) \in Holdings
        /\ market[d] \in Markets \cup {Closed} /\ Due(d) \subseteq DOMAIN orders
    BY BeforeFacts
  <1>2. targets \in Seq(Codes) /\ Len(targets) \in Nat /\ IsInjective(targets) /\ e \in Nat
    BY DEF BuyPlan
  <1>3. PICK f : Runs(f, d, "buy", sold, slot)
    BY <1>1, RunsExist
  <1>4. PICK h : Purchases(h, sold.w, targets, slot, mk)
    BY <1>2, PurchasesExist
  <1>5. PICK r : Listing(r, targets, B) /\ Grows(r, K)
    BY <1>2, RankedPrefix
  <1>6. f[0] = sold /\ MatchSide(d, "buy", sold, slot) = f[N] /\ N \in Nat
    BY <1>1, <1>3 DEF Runs
  <1>7. /\ h[0] = sold.w /\ BuyTargets(sold.w, targets, slot, mk) = h[K] /\ K \in Nat
        /\ \A n \in 1..K :
               h[n] = IF \/ h[n - 1].hold[targets[n]] > 0 \/ MatchFill("buy", mk[targets[n]]) # "fill"
                         \/ ~Affordable(h[n - 1], slot, mk[targets[n]])
                      THEN h[n - 1] ELSE BuyOne(h[n - 1], targets[n], slot, mk[targets[n]])
    BY <1>2, <1>4 DEF Purchases
  <1>8. /\ r[0] = <<>> /\ buys = r[K]
        /\ \A n \in 1..K : r[n] = IF targets[n] \in B THEN Append(r[n - 1], targets[n]) ELSE r[n - 1]
    BY <1>5 DEF Listing
  <1>9. /\ \A k \in 0..K : r[k] \in Seq(Codes) /\ Len(r[k]) \in Nat /\ Len(r[k]) <= Len(r[K])
        /\ \A k \in 0..K : \A i \in 1..Len(r[k]) : r[K][i] = r[k][i]
    <2>1. K \in 0..K
      BY <1>7
    <2> QED
      BY <1>5, <2>1 DEF Grows
  <1>10. /\ N = e + Len(buys)
         /\ \A i \in 1..Len(buys) : /\ e + i \in Due(d) /\ orders[e + i].side = "buy"
                                    /\ orders[e + i].code = buys[i]
         /\ \A i \in 1..e : i \notin Due(d) \/ orders[i].side # "buy"
    BY DEF BuyPlan
  <1>11. /\ \A k \in 1..K : targets[k] \in Codes
         /\ \A k \in 1..K : IF targets[k] \in B THEN sold.w.hold[targets[k]] = 0 ELSE sold.w.hold[targets[k]] > 0
         /\ \A k \in 1..K : \A j \in 1..k - 1 : targets[j] # targets[k]
    <2>1. \A k \in 1..K : targets[k] \in Codes /\ targets[k] \in ToSet(targets)
      BY <1>2 DEF ToSet
    <2>2. \A k \in 1..K : IF targets[k] \in B THEN sold.w.hold[targets[k]] = 0 ELSE sold.w.hold[targets[k]] > 0
      BY <2>1 DEF BuyPlan
    <2>3. \A i, j \in 1..K : targets[i] = targets[j] => i = j
      BY <1>2 DEF IsInjective
    <2> QED
      BY <1>7, <2>1, <2>2, <2>3
  <1>12. \A n \in 0..N : Matched(d, f[n], P \cup DueOf(d, "buy", n))
    BY <1>1, <1>3, SideRuns
  <1> HIDE DEF K, N, mk, buys
  <1>13. Len(buys) = Len(r[K]) /\ Len(r[K]) \in Nat /\ N = e + Len(r[K])
    BY <1>7, <1>8, <1>9, <1>10
  <1>14. f[e] = sold
    <2>1. \A n \in 0 + 1..e : n \notin Due(d) \/ orders[n].side # "buy"
      BY <1>10
    <2>2. 0 \in Nat /\ 0 <= e /\ e <= Len(orders)
      BY <1>2, <1>13 DEF N
    <2> QED
      BY <1>1, <1>2, <1>3, <1>6, <2>1, <2>2, QuietRun
  <1> DEFINE S == {k \in 0..K : /\ f[e + Len(r[k])].w = h[k]
                                /\ \A c \in Codes : (\A j \in 1..k : targets[j] # c) => h[k].hold[c] = sold.w.hold[c]}
  <1>15. 0 \in S
    <2>1. Len(r[0]) = 0 /\ e + 0 = e /\ 0 \in 0..K
      BY <1>2, <1>7, <1>8
    <2> QED
      BY <1>7, <1>14, <2>1
  <1>16. ASSUME NEW k \in 1..K, k - 1 \in S PROVE k \in S
    <2> DEFINE c == targets[k]
               l == Len(r[k - 1])
    <2>1. k \in 0..K /\ k - 1 \in 0..K /\ c \in Codes
      BY <1>7, <1>11
    <2>2. f[e + l].w = h[k - 1] /\ h[k - 1].hold[c] = sold.w.hold[c]
      BY <1>11, <1>16, <2>1
    <2>3. l \in Nat /\ r[k - 1] \in Seq(Codes)
      BY <1>9, <2>1
    <2>4. CASE c \notin B
      <3>1. r[k] = r[k - 1]
        BY <1>8, <2>4
      <3>2. h[k] = h[k - 1]
        BY <1>7, <1>11, <2>2, <2>4
      <3>3. \A x \in Codes : (\A j \in 1..k : targets[j] # x) => \A j \in 1..k - 1 : targets[j] # x
        BY <2>1
      <3> QED
        BY <1>16, <2>1, <3>1, <3>2, <3>3
    <2>5. CASE c \in B
      <3> DEFINE n == e + (l + 1)
                 acc == f[n - 1]
                 Q == P \cup DueOf(d, "buy", n - 1)
      <3>1. r[k] = Append(r[k - 1], c) /\ Len(r[k]) = l + 1 /\ r[k][l + 1] = c
        <4> HIDE DEF c
        <4>1. r[k] = Append(r[k - 1], c)
          BY <1>8, <2>5 DEF c
        <4> QED
          BY <2>1, <2>3, <4>1
      <3>2. l + 1 \in 1..Len(r[K]) /\ r[K][l + 1] = c
        <4>1. Len(r[k]) <= Len(r[K]) /\ l + 1 \in 1..Len(r[k])
          BY <1>9, <2>1, <2>3, <3>1
        <4> QED
          BY <1>9, <1>13, <2>1, <2>3, <3>1, <4>1
      <3>3. n \in Due(d) /\ orders[n].side = "buy" /\ orders[n].code = c
        BY <1>8, <1>10, <1>13, <3>2
      <3>4. n \in 1..N /\ n - 1 \in 0..N /\ n - 1 = e + l
        <4> HIDE DEF l
        <4>1. l \in Nat /\ l + 1 <= N - e /\ e \in Nat /\ N \in Nat
          BY <1>2, <1>6, <1>13, <2>3, <3>2
        <4> QED
          BY ONLY <4>1
      <3>5. Matched(d, acc, Q)
        BY <1>12, <3>4
      <3>6. n \notin Q
        BY <3>3, <3>4 DEF DueOf
      <3>7. acc.w = h[k - 1]
        BY <2>2, <3>4
      <3>8. f[n] = MatchBuy(acc, n, d, slot)
        <4> HIDE DEF n
        <4> QED
          BY <1>3, <3>3, <3>4 DEF Runs, N
      <3>9. f[n].w = IF MatchFill("buy", mk[c]) # "fill" \/ ~Affordable(h[k - 1], slot, mk[c]) THEN h[k - 1]
                     ELSE BuyOne(h[k - 1], c, slot, mk[c])
        <4> HIDE DEF n, acc, Q, c
        <4>1. MatchBuy(acc, n, d, slot).w =
                  IF MatchFill("buy", mk[c]) # "fill" \/ ~Affordable(acc.w, slot, mk[c]) THEN acc.w
                  ELSE BuyOne(acc.w, c, slot, mk[c])
          BY <1>1, <3>3, <3>5, <3>6, BuyIs DEF mk
        <4> QED
          BY <3>7, <3>8, <4>1
      <3>10. ~(h[k - 1].hold[c] > 0)
        BY <1>11, <2>2, <2>5
      <3>11. h[k] = IF MatchFill("buy", mk[c]) # "fill" \/ ~Affordable(h[k - 1], slot, mk[c]) THEN h[k - 1]
                    ELSE BuyOne(h[k - 1], c, slot, mk[c])
        BY <1>7, <3>10
      <3>12. h[k - 1].hold \in Holdings
        BY <3>5, <3>7 DEF Matched, Shaped
      <3>13. ASSUME NEW x \in Codes, \A j \in 1..k : targets[j] # x
             PROVE  h[k].hold[x] = sold.w.hold[x]
        <4>1. x # c /\ \A j \in 1..k - 1 : targets[j] # x
          BY <2>1, <3>13
        <4>2. h[k - 1].hold[x] = sold.w.hold[x]
          BY <1>16, <4>1
        <4>3. h[k].hold[x] = h[k - 1].hold[x]
          <5> HIDE DEF c
          <5> QED
            BY <3>11, <3>12, <4>1 DEF BuyOne, Holdings
        <4> QED
          BY <4>2, <4>3
      <3> HIDE DEF acc, Q
      <3>14. f[e + Len(r[k])].w = h[k]
        BY <3>1, <3>9, <3>11
      <3> QED
        BY <2>1, <3>13, <3>14
    <2> QED
      BY <2>4, <2>5
  <1>17. \A k \in 1..K : k - 1 \in S => k \in S
    BY <1>16
  <1>18. K \in S
    <2> HIDE DEF S
    <2>1. K \in 0..K
      BY <1>7
    <2> QED
      BY ONLY <1>7, <1>15, <1>17, <2>1, Induct
  <1> QED
    BY <1>6, <1>7, <1>13, <1>18 DEF mk

\* A tick that executes the plan of an earlier day with no exit blocked rebalances the wallet.
LEMMA PlanExecuted ==
    ASSUME NEW d, Before(d), NEW q \in 1..d - 1, NEW targets \in Seq(Codes), IsInjective(targets),
           Waiting(orders, CreateOrders(PositionsLatest(d), targets, q, {}, {})),
           \A i \in Due(d) : orders[i].side = "sell" => MatchFill("sell", market[d][orders[i].code]) = "fill"
    PROVE  Match(d).w = Rebalance(Wallet(d), targets, market[d])
  <1> DEFINE hold == PositionsLatest(d)
             E == {c \in Codes : hold[c] > 0} \ ToSet(targets)
             B == {c \in ToSet(targets) : ~(hold[c] > 0)}
             sells == SetToSeq(E)
             buys == Ranked(targets, B)
             new == CreateOrders(hold, targets, q, {}, {})
             L == Len(sells)
             M == Len(buys)
             mk == market[d]
  <1>1. /\ d \in 1..Horizon /\ orders \in Seq(OrderRows) /\ cash \in Int /\ PositionsLatest(d) \in Holdings
        /\ market[d] \in Markets \cup {Closed} /\ Due(d) \subseteq DOMAIN orders
    BY BeforeFacts
  <1>2. /\ sells \in Seq(E) /\ \A c \in E : \E n \in 1..L : sells[n] = c
        /\ \A i, j \in 1..L : sells[i] = sells[j] => i = j
        /\ buys \in Seq(Codes) /\ Len(new) = L + M
        /\ \A i \in 1..L : new[i] = Order(sells[i], "sell", q)
        /\ \A i \in 1..M : new[L + i] = Order(buys[i], "buy", q)
    BY <1>1, PlanIs
  <1>3. PICK b \in 0..Len(orders) : /\ \A i \in 1..b : orders[i].status # "pending"
                                    /\ Len(orders) = b + Len(new)
                                    /\ \A i \in 1..Len(new) : orders[b + i] = new[i]
    BY DEF Waiting
  <1>4. ToSet(targets) \subseteq Codes
    BY DEF ToSet
  <1>5. \A c \in Codes : hold[c] \in Nat
    <2>1. \A c \in Codes : hold[c] \in Lots
      BY <1>1 DEF Holdings
    <2> QED
      BY <2>1, LotsAreNat
  <1>6. /\ E \subseteq Codes /\ \A c \in E : hold[c] > 0 /\ c \notin ToSet(targets)
        /\ \A c \in Codes : hold[c] > 0 /\ c \notin ToSet(targets) => c \in E
    OBVIOUS
  <1>7. \A c \in ToSet(targets) : IF c \in B THEN hold[c] = 0 ELSE hold[c] > 0
    BY <1>4, <1>5
  <1> HIDE DEF hold, E, B, sells, buys, new, L, M, mk
  <1>8. L \in Nat /\ M \in Nat /\ b \in Nat /\ Len(orders) = (b + L) + M /\ b + L \in Nat
        /\ d \in Nat /\ q \in Nat /\ q < d
    BY <1>1, <1>2, <1>3 DEF L, M
  <1>9. ASSUME NEW i \in 1..L
        PROVE  /\ b + i \in Due(d) /\ orders[b + i].side = "sell" /\ orders[b + i].code = sells[i]
               /\ MatchFill("sell", mk[sells[i]]) = "fill"
    <2>1. orders[b + i] = Order(sells[i], "sell", q) /\ b + i \in DOMAIN orders
      BY <1>1, <1>2, <1>3, <1>8
    <2>2. b + i \in Due(d)
      BY <1>8, <2>1 DEF Due, Order, NextWeekday
    <2>3. orders[b + i].side = "sell" /\ orders[b + i].code = sells[i]
      BY <2>1 DEF Order
    <2> QED
      BY <2>2, <2>3 DEF mk
  <1>10. ASSUME NEW i \in 1..M
         PROVE  (b + L) + i \in Due(d) /\ orders[(b + L) + i].side = "buy" /\ orders[(b + L) + i].code = buys[i]
    <2>1. L + i \in 1..L + M /\ b + (L + i) = (b + L) + i /\ (b + L) + i \in 1..Len(orders)
      BY <1>8
    <2>2. orders[(b + L) + i] = Order(buys[i], "buy", q)
      BY <1>2, <1>3, <2>1
    <2>3. (b + L) + i \in Due(d)
      BY <1>1, <1>8, <2>1, <2>2 DEF Due, Order, NextWeekday
    <2> QED
      BY <2>2, <2>3 DEF Order
  <1>11. ASSUME NEW i \in Due(d) PROVE i \in 1..Len(orders) /\ i > b
    BY <1>1, <1>3, <1>8 DEF Due
  <1>12. \A i \in Due(d) : orders[i].side = "sell" => i \in b + 1..b + L
    <2> SUFFICES ASSUME NEW i \in Due(d), orders[i].side = "sell", ~(i <= b + L) PROVE FALSE
      BY <1>8, <1>11
    <2>1. i - (b + L) \in 1..M /\ (b + L) + (i - (b + L)) = i
      BY <1>8, <1>11
    <2>2. orders[i].side = "buy"
      BY <1>10, <2>1
    <2> QED
      BY <2>2
  <1>13. \A i \in 1..b + L : i \notin Due(d) \/ orders[i].side # "buy"
    <2> SUFFICES ASSUME NEW i \in 1..b + L, i \in Due(d), orders[i].side = "buy" PROVE FALSE
      OBVIOUS
    <2>1. i - b \in 1..L /\ b + (i - b) = i
      BY <1>8, <1>11
    <2>2. orders[i].side = "sell"
      BY <1>9, <2>1
    <2> QED
      BY <2>2
  <1> DEFINE sold == MatchSide(d, "sell", Opening(d), 0)
             slot == PerTarget(sold.w, mk)
             exits == {c \in Codes : hold[c] > 0 /\ c \notin ToSet(targets) /\ MatchFill("sell", mk[c]) = "fill"}
  <1>14. SellPlan(d, E, sells, b)
    <2>1. b + Len(sells) <= Len(orders)
      BY <1>8 DEF L
    <2> QED
      BY <1>2, <1>6, <1>8, <1>9, <1>12, <2>1 DEF SellPlan, hold, L, mk
  <1>15. /\ sold.w = SellAll(Wallet(d), sells, mk)
         /\ \A c \in Codes : sold.w.hold[c] = IF c \in E THEN 0 ELSE hold[c]
    BY <1>14, SoldIs DEF hold, mk
  <1>16. exits = E
    <2>1. \A c \in E : MatchFill("sell", mk[c]) = "fill"
      BY <1>2, <1>9
    <2> QED
      BY <1>6, <2>1
  <1>17. Matched(d, sold, DueOf(d, "sell", Len(orders)))
    <2>1. PICK f : Runs(f, d, "sell", Opening(d), 0)
      BY <1>1, RunsExist
    <2>2. Matched(d, Opening(d), {})
      BY <1>1, OpeningMatched
    <2>3. \A n \in 0..Len(orders) : Matched(d, f[n], {} \cup DueOf(d, "sell", n))
      BY <1>1, <2>1, <2>2, SideRuns
    <2>4. Len(orders) \in 0..Len(orders) /\ sold = f[Len(orders)]
      BY <1>1, <2>1 DEF Runs
    <2>5. {} \cup DueOf(d, "sell", Len(orders)) = DueOf(d, "sell", Len(orders))
      OBVIOUS
    <2> QED
      BY <2>3, <2>4, <2>5
  <1>18. slot \in Nat
    <2>1. sold.w.cash \in Int /\ sold.w.hold \in [Codes -> Lots]
      BY <1>17 DEF Matched, Shaped, Holdings
    <2> HIDE DEF sold
    <2>2. sold.w.hold \in [Codes -> Nat] /\ mk \in Quotes
      BY <1>1, <2>1, LotsAreNat, ParametersAssumption DEF mk
    <2> QED
      BY <2>1, <2>2, SlotIsNat
  <1> HIDE DEF sold, slot, exits
  <1>19. BuyPlan(d, sold, targets, B, b + L)
    <2>1. \A c \in ToSet(targets) : IF c \in B THEN sold.w.hold[c] = 0 ELSE sold.w.hold[c] > 0
      BY <1>4, <1>6, <1>7, <1>15
    <2>2. Len(orders) = (b + L) + Len(Ranked(targets, B))
      BY <1>8 DEF M, buys
    <2> QED
      BY <1>8, <1>10, <1>13, <2>1, <2>2 DEF BuyPlan, M, buys
  <1>20. MatchSide(d, "buy", sold, slot).w = BuyTargets(sold.w, targets, slot, mk)
    <2>1. \A i \in DueOf(d, "sell", Len(orders)) : orders[i].side # "buy"
      BY DEF DueOf
    <2> QED
      BY <1>17, <1>18, <1>19, <2>1, BoughtIs DEF mk
  <1>21. Match(d).w = MatchSide(d, "buy", sold, slot).w
    BY DEF Match, sold, slot, mk
  <1>22. Wallet(d).hold = hold
    BY DEF Wallet, hold
  <1>23. Rebalance(Wallet(d), targets, mk) =
             LET after == SellAll(Wallet(d), SetToSeq(exits), mk)
             IN  BuyTargets(after, targets, PerTarget(after, mk), mk)
    BY <1>22 DEF Rebalance, exits
  <1>24. Rebalance(Wallet(d), targets, mk) = BuyTargets(sold.w, targets, slot, mk)
    BY <1>15, <1>16, <1>23 DEF sells, slot
  <1> QED
    BY <1>20, <1>21, <1>24 DEF mk

-----------------------------------------------------------------------------
(* A tick keeps an undisturbed account even *)

\* A tick without due orders keeps the wallet.
LEMMA NothingDue == ASSUME NEW d, Before(d), Due(d) = {} PROVE Match(d).w = Wallet(d)
  <1> DEFINE sold == MatchSide(d, "sell", Opening(d), 0)
             slot == PerTarget(sold.w, market[d])
             N == Len(orders)
  <1>1. orders \in Seq(OrderRows) /\ N \in Nat
    BY BeforeFacts
  <1>2. ASSUME NEW side, NEW first, NEW s PROVE MatchSide(d, side, first, s) = first
    <2>1. PICK f : Runs(f, d, side, first, s)
      BY <1>1, RunsExist
    <2>2. \A n \in 0 + 1..N : n \notin Due(d) \/ orders[n].side # side
      OBVIOUS
    <2>3. 0 \in Nat /\ 0 <= N /\ N <= Len(orders)
      BY <1>1
    <2>4. f[N] = f[0]
      BY <1>1, <2>1, <2>2, <2>3, QuietRun
    <2> QED
      BY <2>1, <2>4 DEF Runs
  <1>3. Match(d) = MatchSide(d, "buy", sold, slot)
    BY DEF Match
  <1>4. Match(d) = Opening(d)
    <2>1. sold = Opening(d)
      BY <1>2
    <2> HIDE DEF sold, slot
    <2> QED
      BY <1>2, <1>3, <2>1
  <1> QED
    BY <1>4 DEF Opening, Wallet

LEMMA LastDayIs ==
    ASSUME NEW n \in Nat, NEW pos, DOMAIN pos \subseteq 1..n
    PROVE  /\ LastDay(pos) \in 0..n
           /\ \A x \in DOMAIN pos : x <= LastDay(pos)
           /\ DOMAIN pos # {} => Greatest(LastDay(pos), DOMAIN pos)
  <1> DEFINE D == DOMAIN pos
  <1>1. D \in SUBSET (0..n)
    <2>1. \A x \in D : x \in 0..n
      OBVIOUS
    <2> QED
      BY <2>1
  <1>2. D # {} => \E x \in D : Greatest(x, D)
    <2> HIDE DEF D
    <2> QED
      BY <1>1, GreatestExists
  <1>3. D # {} => LastDay(pos) \in D /\ Greatest(LastDay(pos), D)
    BY <1>2 DEF LastDay
  <1>4. D = {} => LastDay(pos) = 0
    BY DEF LastDay
  <1> HIDE DEF D
  <1>5. \A x \in D : x <= LastDay(pos)
    BY <1>3 DEF Greatest
  <1> QED
    BY <1>1, <1>3, <1>4, <1>5 DEF D

LEMMA LastOpenIs ==
    ASSUME NEW g \in Nat
    PROVE  /\ OpenDays \subseteq 1..Horizon
           /\ ~(\A x \in OpenDays : x > g) =>
                  /\ LastOpen(g) \in OpenDays /\ LastOpen(g) <= g
                  /\ \A x \in OpenDays : x <= g => x <= LastOpen(g)
  <1> DEFINE D == {x \in OpenDays : x <= g}
  <1>1. OpenDays \subseteq 1..Horizon /\ Horizon \in Nat
    BY ParametersAssumption DEF OpenDays
  <1>2. ASSUME ~(\A x \in OpenDays : x > g) PROVE \E q \in OpenDays : Greatest(q, D)
    <2>1. D \in SUBSET (0..Horizon) /\ D # {}
      <3>1. \A x \in OpenDays : x \in 0..Horizon
        BY <1>1
      <3>2. PICK x \in OpenDays : ~(x > g)
        BY <1>2
      <3>3. x <= g
        BY <1>1, <3>2
      <3> QED
        BY <3>1, <3>3
    <2> HIDE DEF D
    <2>2. PICK q \in D : Greatest(q, D)
      BY <1>1, <2>1, GreatestExists
    <2>3. q \in OpenDays
      BY <2>2 DEF D
    <2> QED
      BY <2>2, <2>3
  <1>3. ~(\A x \in OpenDays : x > g) => LastOpen(g) \in OpenDays /\ Greatest(LastOpen(g), D)
    BY <1>2 DEF LastOpen
  <1> QED
    BY <1>1, <1>3 DEF Greatest

\* The orders of a plan wait for the day after the last open day.
LEMMA PlanRows ==
    ASSUME NEW g \in Nat, NEW hold \in Holdings,
           \A x \in OpenDays : x <= g => ranks[x] \in Seq(Codes) /\ IsInjective(ranks[x])
    PROVE  /\ Plan(ranks, g, hold) \in Seq(OrderRows)
           /\ \A i \in 1..Len(Plan(ranks, g, hold)) :
                  /\ LastOpen(g) \in OpenDays /\ LastOpen(g) <= g
                  /\ Plan(ranks, g, hold)[i].signal = LastOpen(g)
                  /\ Plan(ranks, g, hold)[i].exec = LastOpen(g) + 1
                  /\ Plan(ranks, g, hold)[i].status = "pending"
  <1> DEFINE q == LastOpen(g)
             new == CreateOrders(hold, ranks[q], q, {}, {})
  <1>1. CASE Plan(ranks, g, hold) = <<>>
    <2>1. <<>> \in Seq(OrderRows) /\ Len(<<>>) = 0
      OBVIOUS
    <2> QED
      BY <1>1, <2>1
  <1>2. CASE Plan(ranks, g, hold) # <<>>
    <2>1. ~(\A x \in OpenDays : x > g) /\ Plan(ranks, g, hold) = new
      BY <1>2 DEF Plan
    <2>2. q \in OpenDays /\ q <= g /\ q \in 1..Horizon
      BY <2>1, LastOpenIs
    <2>3. ranks[q] \in Seq(Codes) /\ IsInjective(ranks[q])
      BY <2>2
    <2> HIDE DEF q
    <2>4. /\ new \in Seq(OrderRows)
          /\ \A i \in DOMAIN new : new[i].signal = q /\ new[i].exec = q + 1 /\ new[i].status = "pending"
      BY <2>2, <2>3, Created
    <2> HIDE DEF new
    <2>5. Len(new) \in Nat /\ DOMAIN new = 1..Len(new)
      BY <2>4
    <2> QED
      BY <2>1, <2>2, <2>4, <2>5 DEF q
  <1> QED
    BY <1>1, <1>2

LEMMA SnapshotsAre ==
    ASSUME NEW d, Before(d), NEW h
    PROVE  /\ DOMAIN Snapshots(d, h) = ticked \cup {d} /\ LastDay(Snapshots(d, h)) = d
           /\ LastHold(Snapshots(d, h)) = h /\ \A x \in ticked : Snapshots(d, h)[x] = positions[x]
           /\ LastDay(positions) \in Nat /\ LastDay(positions) < d /\ \A x \in ticked : x <= LastDay(positions)
           /\ ticked # {} => Greatest(LastDay(positions), ticked)
           /\ d \in Nat /\ d \notin ticked /\ ticked = DOMAIN positions
  <1> DEFINE pos == Snapshots(d, h)
  <1>1. d \in 1..today /\ today \in Nat /\ ticked \subseteq 1..today /\ \A x \in ticked : x < d
    BY BeforeFacts DEF Before
  <1>2. DOMAIN pos = ticked \cup {d} /\ pos[d] = h /\ \A x \in ticked : x # d => pos[x] = positions[x]
    BY DEF Snapshots
  <1>3. d \notin ticked
    BY <1>1
  <1>4. LastDay(pos) = d
    <2> HIDE DEF pos
    <2>1. DOMAIN pos \subseteq 1..today /\ DOMAIN pos # {}
      BY <1>1, <1>2
    <2>2. Greatest(LastDay(pos), DOMAIN pos)
      BY <1>1, <2>1, LastDayIs
    <2>3. LastDay(pos) \in ticked \cup {d} /\ d <= LastDay(pos)
      BY <1>2, <2>2 DEF Greatest
    <2>4. ASSUME NEW y \in 1..today, y \in ticked \cup {d}, d <= y PROVE y = d
      <3>1. y \in ticked => y < d
        BY <1>1
      <3> QED
        BY <1>1, <2>4, <3>1
    <2>5. LastDay(pos) \in 1..today
      BY <1>1, <2>3
    <2> QED
      BY <2>3, <2>4, <2>5
  <1>5. LastHold(pos) = h
    <2> HIDE DEF pos
    <2> QED
      BY <1>2, <1>4 DEF LastHold
  <1>6. /\ LastDay(positions) \in 0..today /\ \A x \in ticked : x <= LastDay(positions)
        /\ ticked # {} => Greatest(LastDay(positions), ticked)
    BY <1>1, LastDayIs DEF ticked
  <1>7. LastDay(positions) < d
    <2>1. ticked = {} => LastDay(positions) = 0
      BY DEF LastDay, ticked
    <2> QED
      BY <1>1, <1>6, <2>1 DEF Greatest
  <1> QED
    BY <1>1, <1>2, <1>3, <1>4, <1>5, <1>6, <1>7 DEF ticked

\* If a tick leaves the account undisturbed, it was undisturbed, and the tick blocked no exit,
\* lost no signal and left out no open day.
LEMMA SmoothBefore ==
    ASSUME NEW d, Before(d), NEW signals \in BOOLEAN, NEW h,
           Smooth(ranks, Snapshots(d, h), Match(d).orders \o NewOrders(d, signals, {}, {}), SignalDays(d, signals))
    PROVE  /\ Smooth(ranks, positions, orders, signalled)
           /\ \A i \in Due(d) : orders[i].side = "sell" => MatchFill("sell", market[d][orders[i].code]) = "fill"
           /\ \A x \in OpenDays : x < d => x <= LastDay(positions)
           /\ ranks[d] # <<>> => signals
           /\ d \notin OpenDays => \A i \in Due(d) : \E x \in OpenDays : orders[i].signal < x /\ x < d
  <1> DEFINE pos == Snapshots(d, h)
             ms == Match(d).orders
             os == ms \o NewOrders(d, signals, {}, {})
             l == LastDay(positions)
  <1>1. /\ DOMAIN pos = ticked \cup {d} /\ LastDay(pos) = d /\ \A x \in ticked : pos[x] = positions[x]
        /\ l \in Nat /\ l < d /\ \A x \in ticked : x <= l
        /\ d \in Nat /\ d \notin ticked /\ ticked = DOMAIN positions
    BY SnapshotsAre
  <1>2. /\ \A x \in OpenDays : x <= LastDay(pos) => x \in DOMAIN pos
        /\ \A x \in 1..LastDay(pos) : ranks[x] # <<>> => x \in SignalDays(d, signals)
        /\ \A i \in DOMAIN os :
               /\ os[i].exec = os[i].signal + 1
               /\ \A g \in DOMAIN pos : g \notin OpenDays /\ g > os[i].signal =>
                      \E x \in OpenDays : os[i].signal < x /\ x < g
        /\ ~HasGap(pos)
    BY DEF Smooth
  <1>3. Follow(os, NewOrders(d, signals, {}, {}), d, signals, {})
    BY OrdersAfter
  <1>4. DOMAIN orders \subseteq DOMAIN os /\ \A i \in DOMAIN orders : os[i] = ms[i]
    BY <1>3 DEF Follow
  <1>5. /\ orders \in Seq(OrderRows) /\ Due(d) \subseteq DOMAIN orders /\ signalled \subseteq ticked
        /\ ticked \subseteq 1..today /\ d \in 1..today /\ today \in Nat
        /\ \A i \in DOMAIN orders : orders[i].signal \in Nat
    <2>1. \A o \in OrderRows : o.signal \in Nat
      BY DEF OrderRows
    <2> QED
      BY <2>1, BeforeFacts DEF Before
  <1>6. \A i \in DOMAIN orders : ms[i].signal = orders[i].signal
    BY BeforeFacts DEF Matched, Kept
  <1>7. \A i \in DOMAIN orders : IF i \in Due(d) THEN Settles(ms[i], i, d) ELSE ms[i] = orders[i]
    BY OrdersSettle
  <1> HIDE DEF pos, ms, os, l
  <1>8. \A i \in DOMAIN orders : ms[i].exec = orders[i].signal + 1
    BY <1>2, <1>4, <1>6
  <1>9. ASSUME NEW i \in Due(d)
        PROVE  /\ orders[i].side = "sell" => MatchFill("sell", market[d][orders[i].code]) = "fill"
               /\ orders[i].exec = orders[i].signal + 1
    <2>1. orders[i].signal \in Nat /\ orders[i].signal < d /\ ms[i].exec = orders[i].signal + 1
      BY <1>5, <1>8 DEF Due
    <2>2. ms[i].exec # d + 1
      BY <1>1, <2>1
    <2>3. Settles(ms[i], i, d)
      BY <1>5, <1>7
    <2> QED
      BY <2>1, <2>2, <2>3 DEF Settles
  <1>10. \A i \in DOMAIN orders : orders[i].exec = orders[i].signal + 1
    BY <1>7, <1>8, <1>9
  <1>11. ASSUME NEW x \in OpenDays, x < d PROVE x \in ticked /\ x <= l
    <2>1. x \in Nat
      BY DEF OpenDays
    <2> QED
      BY <1>1, <1>2, <1>11, <2>1
  <1>12. \A x \in OpenDays : x <= l => x \in ticked
    <2>1. \A x \in OpenDays : x \in Nat
      BY DEF OpenDays
    <2> QED
      BY <1>1, <1>11, <2>1
  <1>13. \A x \in 1..l : ranks[x] # <<>> => x \in signalled
    BY <1>1, <1>2 DEF SignalDays
  <1>14. ASSUME NEW i \in DOMAIN orders, NEW g \in ticked, g \notin OpenDays, g > orders[i].signal
         PROVE  \E x \in OpenDays : orders[i].signal < x /\ x < g
    <2>1. os[i].signal = orders[i].signal /\ i \in DOMAIN os /\ g \in DOMAIN pos
      BY <1>1, <1>4, <1>6
    <2> QED
      BY <1>2, <1>14, <2>1
  <1>15. ~HasGap(positions)
    BY <1>1, <1>2 DEF HasGap
  <1>16. Smooth(ranks, positions, orders, signalled)
    BY <1>1, <1>10, <1>12, <1>13, <1>14, <1>15 DEF Smooth, l
  <1>17. ranks[d] # <<>> => signals
    <2>1. d \in 1..LastDay(pos) /\ d \notin signalled
      BY <1>1, <1>5
    <2> QED
      BY <1>2, <2>1 DEF SignalDays
  <1>18. ASSUME d \notin OpenDays, NEW i \in Due(d) PROVE \E x \in OpenDays : orders[i].signal < x /\ x < d
    <2>1. os[i].signal = orders[i].signal /\ i \in DOMAIN os /\ d \in DOMAIN pos /\ d > orders[i].signal
      BY <1>1, <1>4, <1>5, <1>6 DEF Due
    <2> QED
      BY <1>2, <1>18, <2>1
  <1> QED
    BY <1>9, <1>11, <1>16, <1>17, <1>18 DEF l

\* Cash and shares.
IsWallet(w) == w = [cash |-> w.cash, hold |-> w.hold]

LEMMA Rebalanced ==
    ASSUME NEW w, IsWallet(w), NEW targets \in Seq(Codes), NEW mk PROVE IsWallet(Rebalance(w, targets, mk))
  <1> DEFINE exits == {c \in Codes : /\ w.hold[c] > 0 /\ c \notin ToSet(targets)
                                     /\ MatchFill("sell", mk[c]) = "fill"}
             codes == SetToSeq(exits)
             sold == SellAll(w, codes, mk)
             slot == PerTarget(sold, mk)
             N == Len(targets)
  <1>1. Len(codes) \in Nat
    <2>1. IsFiniteSet(exits)
      BY ParametersAssumption, FS_Subset
    <2> HIDE DEF exits
    <2> QED
      BY <2>1, Listed
  <1>2. Rebalance(w, targets, mk) = BuyTargets(sold, targets, slot, mk)
    BY DEF Rebalance
  <1> HIDE DEF exits, codes
  <1>3. IsWallet(sold)
    <2>1. PICK g : Sales(g, w, codes, mk)
      BY <1>1, SalesExist
    <2>2. CASE Len(codes) = 0
      BY <2>1, <2>2 DEF Sales
    <2>3. CASE Len(codes) # 0
      <3>1. Len(codes) \in 1..Len(codes)
        BY <1>1, <2>3
      <3>2. sold = SellOne(g[Len(codes) - 1], codes[Len(codes)], mk[codes[Len(codes)]])
        BY <2>1, <3>1 DEF Sales
      <3> HIDE DEF sold
      <3> QED
        BY <3>2 DEF SellOne, IsWallet
    <2> QED
      BY <2>2, <2>3
  <1> HIDE DEF sold, slot
  <1>4. N \in Nat
    OBVIOUS
  <1>5. PICK h : Purchases(h, sold, targets, slot, mk)
    BY <1>4, PurchasesExist
  <1> DEFINE S == {n \in 0..N : IsWallet(h[n])}
  <1>6. 0 \in S
    BY <1>3, <1>4, <1>5 DEF Purchases
  <1>7. ASSUME NEW n \in 1..N, n - 1 \in S PROVE n \in S
    <2>1. IsWallet(h[n - 1]) /\ n \in 0..N
      BY <1>4, <1>7
    <2>2. h[n] = h[n - 1] \/ h[n] = BuyOne(h[n - 1], targets[n], slot, mk[targets[n]])
      BY <1>5 DEF Purchases
    <2>3. \A x, c, q : IsWallet(BuyOne(x, c, slot, q))
      BY DEF IsWallet, BuyOne
    <2> QED
      BY <2>1, <2>2, <2>3
  <1>8. \A n \in 1..N : n - 1 \in S => n \in S
    BY <1>7
  <1>9. N \in S
    <2> HIDE DEF S, N
    <2>1. N \in 0..N
      BY <1>4
    <2> QED
      BY ONLY <1>4, <1>6, <1>8, <2>1, Induct
  <1> QED
    BY <1>2, <1>5, <1>9 DEF Purchases

\* A plan of an earlier day is due; if nothing is, it is empty.
LEMMA PendingDue ==
    ASSUME NEW d, Before(d), NEW g \in Nat, g < d, NEW hold \in Holdings, Waiting(orders, Plan(ranks, g, hold))
    PROVE  /\ \A i \in DOMAIN orders : orders[i].status = "pending" =>
                  i \in Due(d) /\ LastOpen(g) \in OpenDays /\ LastOpen(g) <= g /\ orders[i].signal = LastOpen(g)
           /\ Due(d) = {} => Plan(ranks, g, hold) = <<>>
  <1> DEFINE new == Plan(ranks, g, hold)
             q == LastOpen(g)
  <1>1. orders \in Seq(OrderRows) /\ d \in 1..today /\ d \in 1..Horizon /\ today \in Nat
    BY BeforeFacts DEF Before
  <1>2. \A x \in OpenDays : x <= g => ranks[x] \in Seq(Codes) /\ IsInjective(ranks[x])
    <2>1. ranks \in Seq(Rankings \cup {<<>>}) /\ Len(ranks) = today
      BY DEF Before, World
    <2>2. \A x \in 1..today : ranks[x] \in Rankings \cup {<<>>}
      BY <2>1
    <2>3. <<>> \in Seq(Codes) /\ IsInjective(<<>>)
      BY DEF IsInjective
    <2>4. \A r \in Rankings : r \in Seq(Codes) /\ IsInjective(r)
      BY ParametersAssumption
    <2>5. \A x \in OpenDays : x <= g => x \in 1..today
      BY <1>1 DEF OpenDays
    <2> QED
      BY <2>2, <2>3, <2>4, <2>5
  <1>3. /\ new \in Seq(OrderRows)
        /\ \A i \in 1..Len(new) : /\ q \in OpenDays /\ q <= g /\ new[i].signal = q
                                  /\ new[i].exec = q + 1 /\ new[i].status = "pending"
    BY <1>2, PlanRows
  <1> HIDE DEF new, q
  <1>4. PICK b \in 0..Len(orders) : /\ \A i \in 1..b : orders[i].status # "pending"
                                    /\ Len(orders) = b + Len(new)
                                    /\ \A i \in 1..Len(new) : orders[b + i] = new[i]
    BY DEF Waiting, new
  <1>5. b \in Nat /\ Len(new) \in Nat /\ DOMAIN orders = 1..b + Len(new)
    BY <1>1, <1>3, <1>4
  <1>6. ASSUME NEW i \in 1..Len(new) PROVE b + i \in Due(d) /\ orders[b + i].signal = q /\ q \in OpenDays /\ q <= g
    <2>1. b + i \in DOMAIN orders
      BY <1>5
    <2>2. q \in Nat
      BY <1>3 DEF OpenDays
    <2>3. /\ orders[b + i] = new[i] /\ new[i].signal = q /\ new[i].exec = q + 1 /\ new[i].status = "pending"
          /\ q \in OpenDays /\ q <= g
      BY <1>3, <1>4
    <2>4. d \in Nat /\ q + 1 <= d /\ q < d
      BY <1>1, <2>2, <2>3
    <2> QED
      BY <2>1, <2>3, <2>4 DEF Due
  <1>7. ASSUME NEW i \in DOMAIN orders, orders[i].status = "pending" PROVE i - b \in 1..Len(new) /\ b + (i - b) = i
    <2>1. ~(i <= b)
      BY <1>4, <1>5, <1>7
    <2> QED
      BY <1>5, <2>1
  <1>8. Due(d) = {} => new = <<>>
    <2> SUFFICES ASSUME Due(d) = {} PROVE new = <<>>
      OBVIOUS
    <2>1. Len(new) = 0
      <3> SUFFICES ASSUME Len(new) # 0 PROVE FALSE
        OBVIOUS
      <3>1. 1 \in 1..Len(new)
        BY <1>5
      <3> QED
        BY <1>6, <3>1
    <2> QED
      BY <1>3, <2>1
  <1> QED
    BY <1>6, <1>7, <1>8 DEF new, q

\* Days that are not open change neither the last open day nor its plan.
LEMMA PlanSame ==
    ASSUME NEW g \in Nat, NEW e \in Nat, g <= e, \A x \in OpenDays : x <= e => x <= g, NEW rk, NEW hold
    PROVE  LastOpen(e) = LastOpen(g) /\ Plan(rk, e, hold) = Plan(rk, g, hold)
  <1>1. /\ OpenDays \subseteq Nat
        /\ \A x \in Nat : (x <= g => x <= e) /\ (x > e <=> ~(x <= e)) /\ (x > g <=> ~(x <= g))
    BY DEF OpenDays
  <1>2. {x \in OpenDays : x <= e} = {x \in OpenDays : x <= g}
    <2>1. \A x \in OpenDays : x <= e <=> x <= g
      BY <1>1
    <2> QED
      BY <2>1
  <1>3. LastOpen(e) = LastOpen(g)
    BY <1>2 DEF LastOpen
  <1>4. (\A x \in OpenDays : x > e) <=> (\A x \in OpenDays : x > g)
    BY <1>1
  <1> QED
    BY <1>3, <1>4 DEF Plan

\* An even account before a tick that leaves it undisturbed.
Ready(d, signals) ==
    /\ LastDay(positions) \in Nat /\ LastDay(positions) < d
    /\ Wallet(d) = Backtest(LastDay(positions), OpenDays, ranks, market)
    /\ Waiting(orders, Plan(ranks, LastDay(positions), PositionsLatest(d)))
    /\ \A i \in Due(d) : orders[i].side = "sell" => MatchFill("sell", market[d][orders[i].code]) = "fill"
    /\ \A x \in OpenDays : x < d => x <= LastDay(positions)
    /\ ranks[d] # <<>> => signals
    /\ d \notin OpenDays => Due(d) = {}

LEMMA TickReady ==
    ASSUME NEW d, Before(d), NEW signals \in BOOLEAN, NEW h,
           Even(market, ranks, cash, positions, orders, signalled),
           Smooth(ranks, Snapshots(d, h), Match(d).orders \o NewOrders(d, signals, {}, {}), SignalDays(d, signals))
    PROVE  Ready(d, signals)
  <1> DEFINE l == LastDay(positions)
             H == PositionsLatest(d)
  <1>1. /\ Smooth(ranks, positions, orders, signalled)
        /\ \A i \in Due(d) : orders[i].side = "sell" => MatchFill("sell", market[d][orders[i].code]) = "fill"
        /\ \A x \in OpenDays : x < d => x <= l
        /\ ranks[d] # <<>> => signals
        /\ d \notin OpenDays => \A i \in Due(d) : \E x \in OpenDays : orders[i].signal < x /\ x < d
    BY SmoothBefore
  <1>2. l \in Nat /\ l < d /\ (ticked # {} => Greatest(l, ticked)) /\ ticked = DOMAIN positions
    BY SnapshotsAre
  <1>3. H \in Holdings
    BY BeforeFacts
  <1>4. LastHold(positions) = H
    <2>1. World /\ Rows(today, cash, positions, orders, trades, signalled) /\ d \in 1..today /\ \A x \in ticked : x < d
      BY DEF Before, Books
    <2>2. ~HasGap(positions)
      BY <1>1 DEF Smooth
    <2>3. ticked = {} => H = None
      BY <2>1, <2>2, LatestIsLast
    <2>4. ticked # {} => H = positions[l]
      BY <1>2, <2>1, <2>2, LatestIsLast DEF Greatest
    <2> QED
      BY <1>2, <2>3, <2>4 DEF LastHold
  <1>5. Wallet(d) = Backtest(l, OpenDays, ranks, market) /\ Waiting(orders, Plan(ranks, l, H))
    BY <1>1, <1>4 DEF Even, Wallet
  <1>6. ASSUME d \notin OpenDays PROVE Due(d) = {}
    <2> HIDE DEF l, H
    <2> SUFFICES ASSUME NEW i \in Due(d) PROVE FALSE
      OBVIOUS
    <2>1. i \in DOMAIN orders /\ orders[i].status = "pending"
      BY DEF Due
    <2>2. orders[i].signal = LastOpen(l) /\ LastOpen(l) \in OpenDays /\ LastOpen(l) <= l
      BY <1>2, <1>3, <1>5, <2>1, PendingDue
    <2>3. PICK x \in OpenDays : LastOpen(l) < x /\ x < d
      BY <1>1, <1>6, <2>2
    <2>4. OpenDays \subseteq Nat
      BY DEF OpenDays
    <2>5. x <= l
      BY <1>1, <2>3 DEF l
    <2>6. ~(\A y \in OpenDays : y > l)
      <3>1. \A p \in Nat : p <= l => ~(p > l)
        BY <1>2
      <3> QED
        BY <2>2, <2>4, <3>1
    <2>7. x <= LastOpen(l)
      BY <1>2, <2>5, <2>6, LastOpenIs
    <2> QED
      BY <2>2, <2>3, <2>4, <2>7
  <1> QED
    BY <1>1, <1>2, <1>5, <1>6 DEF Ready

\* The tick does to the wallet what the backtest does to its own.
LEMMA EvenWallet ==
    ASSUME NEW d, Before(d), NEW signals, Ready(d, signals)
    PROVE  Match(d).w = Backtest(d, OpenDays, ranks, market) /\ IsWallet(Match(d).w)
  <1> DEFINE l == LastDay(positions)
             H == PositionsLatest(d)
             w == Wallet(d)
             B(n) == Backtest(n, OpenDays, ranks, market)
  <1>1. /\ l \in Nat /\ l < d /\ d \in 1..today /\ today \in Nat /\ H \in Holdings
        /\ w = B(l) /\ Waiting(orders, Plan(ranks, l, H))
        /\ \A x \in OpenDays : x < d => x <= l
    BY BeforeFacts DEF Ready, Before
  <1>2. IsWallet(w) /\ OpenDays \subseteq Nat
    BY DEF IsWallet, Wallet, OpenDays
  <1> HIDE DEF l, H, w
  <1>3. d \in Nat \ {0} /\ d - 1 \in Nat /\ l <= d - 1 /\ \A x \in l + 1..d - 1 : x \notin OpenDays
    BY <1>1
  <1>4. B(d) = BacktestDay(d, w, OpenDays, ranks, market)
    <2>1. B(d - 1) = B(l)
      BY <1>1, <1>3, QuietDays
    <2>2. B(d) = BacktestDay(d, B(d - 1), OpenDays, ranks, market)
      BY <1>3, BacktestSteps
    <2> QED
      BY <1>1, <2>1, <2>2
  <1> DEFINE before == {y \in OpenDays : y < d}
             upto == {y \in OpenDays : y <= l}
             q == CHOOSE t \in before : \A y \in before : y <= t
  <1>5. before = upto
    <2>1. \A x \in Nat : x <= l => x < d
      BY <1>1
    <2>2. \A x \in OpenDays : x < d <=> x <= l
      BY <1>1, <1>2, <2>1
    <2> QED
      BY <2>2
  <1>6. before # {} => LastOpen(l) = q
    BY <1>5 DEF LastOpen, Greatest
  <1>7. CASE d \notin OpenDays
    <2>1. Match(d).w = w
      BY <1>7, NothingDue DEF Ready, w
    <2> QED
      BY <1>2, <1>4, <1>7, <2>1 DEF BacktestDay
  <1>8. CASE d \in OpenDays
    <2>1. B(d) = IF before = {} THEN w
                 ELSE IF ranks[q] = <<>> THEN w ELSE Rebalance(w, ranks[q], market[d])
      BY <1>4, <1>8 DEF BacktestDay
    <2>2. Due(d) = {} => Match(d).w = w
      BY NothingDue DEF w
    <2>3. CASE Plan(ranks, l, H) = <<>> /\ (before = {} \/ ranks[q] = <<>>)
      <3>1. Due(d) = {}
        <4>1. PICK b \in 0..Len(orders) : /\ \A i \in 1..b : orders[i].status # "pending"
                                          /\ Len(orders) = b + Len(<<>>)
          BY <1>1, <2>3 DEF Waiting
        <4>2. Len(<<>>) = 0 /\ orders \in Seq(OrderRows)
          BY BeforeFacts
        <4>3. DOMAIN orders = 1..b
          BY <4>1, <4>2
        <4> QED
          BY <4>1, <4>3 DEF Due
      <3> QED
        BY <1>2, <2>1, <2>2, <2>3, <3>1
    <2>4. CASE before = {}
      <3>1. \A x \in OpenDays : x > l
        BY <1>1, <1>2, <1>5, <2>4
      <3> QED
        BY <2>3, <2>4, <3>1 DEF Plan
    <2>5. CASE before # {} /\ ranks[q] = <<>>
      BY <1>6, <2>3, <2>5 DEF Plan
    <2>6. CASE before # {} /\ ranks[q] # <<>>
      <3>1. ~(\A x \in OpenDays : x > l)
        <4>1. PICK x \in upto : TRUE
          BY <1>5, <2>6
        <4>2. x \in OpenDays /\ x <= l /\ x \in Nat
          BY <1>2, <4>1
        <4> HIDE DEF upto
        <4> QED
          BY <1>1, <4>2
      <3>2. q \in OpenDays /\ q <= l
        BY <1>1, <1>6, <2>6, <3>1, LastOpenIs
      <3> HIDE DEF q, before, upto
      <3>3. q \in 1..d - 1 /\ q \in 1..today
        BY <1>1, <3>2 DEF OpenDays
      <3>4. ranks[q] \in Seq(Codes) /\ IsInjective(ranks[q])
        <4>1. ranks \in Seq(Rankings \cup {<<>>}) /\ Len(ranks) = today
          BY DEF Before, World
        <4>2. ranks[q] \in Rankings
          BY <2>6, <3>3, <4>1
        <4> QED
          BY <4>2, ParametersAssumption
      <3>5. Plan(ranks, l, H) = CreateOrders(H, ranks[q], q, {}, {})
        BY <1>6, <2>6, <3>1 DEF Plan
      <3>6. Match(d).w = Rebalance(w, ranks[q], market[d])
        <4>1. Waiting(orders, CreateOrders(PositionsLatest(d), ranks[q], q, {}, {}))
          BY <1>1, <3>5 DEF H
        <4> QED
          BY <3>3, <3>4, <4>1, PlanExecuted DEF Ready, w
      <3>7. B(d) = Rebalance(w, ranks[q], market[d])
        BY <2>1, <2>6
      <3> QED
        BY <1>2, <3>4, <3>6, <3>7, Rebalanced
    <2> QED
      BY <2>4, <2>5, <2>6
  <1> QED
    BY <1>7, <1>8

\* Nothing of the old plan is left, and the new orders are the plan of the day.
LEMMA EvenOrders ==
    ASSUME NEW d, Before(d), NEW signals \in BOOLEAN, signals => ranks[d] # <<>>, Weekends, Ready(d, signals)
    PROVE  Waiting(Match(d).orders \o NewOrders(d, signals, {}, {}), Plan(ranks, d, Match(d).w.hold))
  <1> DEFINE l == LastDay(positions)
             H == PositionsLatest(d)
             h == Match(d).w.hold
             new == NewOrders(d, signals, {}, {})
             ms == Match(d).orders
             os == ms \o new
             N == Len(orders)
  <1>1. /\ l \in Nat /\ l < d /\ d \in 1..today /\ today \in Nat /\ H \in Holdings
        /\ Waiting(orders, Plan(ranks, l, H))
        /\ \A x \in OpenDays : x < d => x <= l
        /\ \A i \in Due(d) : orders[i].side = "sell" => MatchFill("sell", market[d][orders[i].code]) = "fill"
        /\ ranks[d] # <<>> => signals
        /\ d \notin OpenDays => Due(d) = {}
    BY BeforeFacts DEF Ready, Before
  <1>2. OpenDays \subseteq Nat
    BY DEF OpenDays
  <1>3. Follow(os, new, d, signals, {})
    BY OrdersAfter
  <1> HIDE DEF l, H
  <1>4. \A i \in DOMAIN orders : orders[i].status = "pending" => i \in Due(d)
    BY <1>1, PendingDue
  <1>5. \A i \in DOMAIN orders : IF i \in Due(d) THEN Settles(ms[i], i, d) ELSE ms[i] = orders[i]
    BY OrdersSettle
  <1> HIDE DEF new, ms, os, h
  <1>6. \A i \in DOMAIN orders : ms[i].status # "pending"
    BY <1>1, <1>4, <1>5 DEF Settles
  <1>7. /\ os \in Seq(OrderRows) /\ DOMAIN os = 1..N + Len(new) /\ DOMAIN orders = 1..N
        /\ N \in Nat /\ Len(new) \in Nat
        /\ \A i \in 1..N : os[i] = ms[i]
        /\ \A i \in 1..Len(new) : os[N + i] = new[i]
    BY <1>3 DEF Follow, ms
  <1>8. Waiting(os, new)
    <2>1. N \in 0..Len(os) /\ Len(os) = N + Len(new)
      BY <1>7
    <2>2. \A i \in 1..N : os[i].status # "pending"
      BY <1>6, <1>7
    <2> QED
      BY <1>7, <2>1, <2>2 DEF Waiting
  <1>9. new = Plan(ranks, d, h)
    <2>1. CASE d \in OpenDays
      <3>1. LastOpen(d) = d /\ ~(\A x \in OpenDays : x > d)
        <4>1. d \in Nat /\ ~(\A x \in OpenDays : x > d)
          BY <1>2, <2>1
        <4>2. LastOpen(d) \in OpenDays /\ LastOpen(d) <= d /\ d <= LastOpen(d)
          BY <2>1, <4>1, LastOpenIs
        <4>3. \A p \in Nat : p <= d /\ d <= p => p = d
          BY <4>1
        <4> QED
          BY <1>2, <4>1, <4>2, <4>3
      <3> QED
        BY <1>1, <3>1 DEF Plan, new, NewOrders, h
    <2>2. CASE d \notin OpenDays
      <3>1. ranks[d] = <<>>
        BY <1>1, <2>2 DEF Weekends
      <3>2. new = <<>>
        BY <3>1 DEF new, NewOrders
      <3>3. Plan(ranks, l, H) = <<>>
        BY <1>1, <2>2, PendingDue
      <3>4. h = H
        <4>1. Match(d).w = Wallet(d)
          BY <1>1, <2>2, NothingDue
        <4> QED
          BY <4>1 DEF h, H, Wallet
      <3>5. \A x \in OpenDays : x <= d => x <= l
        <4>1. \A x \in OpenDays : x <= d => x < d
          BY <1>1, <1>2, <2>2
        <4> QED
          BY <1>1, <4>1
      <3>6. Plan(ranks, d, H) = Plan(ranks, l, H)
        <4>1. d \in Nat /\ l <= d
          BY <1>1
        <4> QED
          BY <1>1, <3>5, <4>1, PlanSame
      <3> QED
        BY <3>2, <3>3, <3>4, <3>6
    <2> QED
      BY <2>1, <2>2
  <1> QED
    BY <1>8, <1>9 DEF os, ms, new, h

\* A tick keeps the account even.
LEMMA TickEven ==
    ASSUME NEW d, Before(d), NEW signals \in BOOLEAN, signals => ranks[d] # <<>>, Weekends,
           Even(market, ranks, cash, positions, orders, signalled)
    PROVE  Even(market, ranks, Match(d).w.cash, Snapshots(d, Match(d).w.hold),
                Match(d).orders \o NewOrders(d, signals, {}, {}), SignalDays(d, signals))
  <1> DEFINE h == Match(d).w.hold
             pos == Snapshots(d, h)
             os == Match(d).orders \o NewOrders(d, signals, {}, {})
             sig == SignalDays(d, signals)
  <1> SUFFICES ASSUME Smooth(ranks, pos, os, sig)
               PROVE  /\ [cash |-> Match(d).w.cash, hold |-> LastHold(pos)]
                             = Backtest(LastDay(pos), OpenDays, ranks, market)
                      /\ Waiting(os, Plan(ranks, LastDay(pos), LastHold(pos)))
    BY DEF Even
  <1>1. LastDay(pos) = d /\ LastHold(pos) = h
    BY SnapshotsAre
  <1>2. Ready(d, signals)
    BY TickReady
  <1>3. Match(d).w = Backtest(d, OpenDays, ranks, market) /\ IsWallet(Match(d).w)
    BY <1>2, EvenWallet
  <1>4. Waiting(os, Plan(ranks, d, h))
    BY <1>2, EvenOrders
  <1> QED
    BY <1>1, <1>3, <1>4 DEF IsWallet

-----------------------------------------------------------------------------
(* The account stays even *)

LEMMA DaysStay ==
    ASSUME holidays' = holidays
    PROVE  /\ Even(market, ranks, cash, positions, orders, signalled)'
                  <=> Even(market', ranks', cash', positions', orders', signalled')
           /\ \A s : Evens(market, ranks, positions, orders, signalled, session[s])'
                         <=> Evens(market', ranks', positions', orders', signalled', session'[s])
           /\ OpenDays' = OpenDays
  <1>1. OpenDays' = OpenDays
    BY DEF OpenDays
  <1>2. \A g : LastOpen(g)' = LastOpen(g)
    BY <1>1 DEF LastOpen
  <1>3. Even(market, ranks, cash, positions, orders, signalled)'
            <=> Even(market', ranks', cash', positions', orders', signalled')
    BY <1>1, <1>2 DEF Even, Smooth, Plan
  <1>4. ASSUME NEW s
        PROVE  Evens(market, ranks, positions, orders, signalled, session[s])'
                   <=> Evens(market', ranks', positions', orders', signalled', session'[s])
    <2> DEFINE t == session[s]
               k == t.wallet.cash
               pos == [x \in DOMAIN positions \cup {t.day} |-> IF x = t.day THEN t.wallet.hold ELSE positions[x]]
               os == [i \in DOMAIN orders |-> IF i \in DOMAIN t.changed THEN t.changed[i] ELSE orders[i]] \o t.new
               sig == IF t.signals THEN signalled \cup {t.day} ELSE signalled
    <2> HIDE DEF t, k, pos, os, sig
    <2>1. Even(market, ranks, k, pos, os, sig)' <=> Even(market', ranks', k', pos', os', sig')
      BY <1>1, <1>2 DEF Even, Smooth, Plan
    <2> QED
      BY <2>1 DEF Evens, t, k, pos, os, sig
  <1> QED
    BY <1>1, <1>3, <1>4

\* Days to come do not matter.
LEMMA EvenLater ==
    ASSUME today \in Nat, NEW mk, NEW rk, \A x \in 1..today : mk[x] = market[x] /\ rk[x] = ranks[x],
           NEW k, NEW pos, DOMAIN pos \subseteq 1..today, NEW os, NEW sig,
           Even(market, ranks, k, pos, os, sig)
    PROVE  Even(mk, rk, k, pos, os, sig)
  <1> DEFINE l == LastDay(pos)
             hold == LastHold(pos)
  <1> SUFFICES ASSUME Smooth(rk, pos, os, sig)
               PROVE  /\ [cash |-> k, hold |-> hold] = Backtest(l, OpenDays, rk, mk)
                      /\ Waiting(os, Plan(rk, l, hold))
    BY DEF Even
  <1>1. l \in 0..today /\ l \in Nat /\ \A x \in 1..l : x \in 1..today
    <2>1. l \in 0..today
      BY LastDayIs
    <2> HIDE DEF l
    <2> QED
      BY <2>1
  <1>2. Smooth(ranks, pos, os, sig)
    BY <1>1 DEF Smooth
  <1>3. [cash |-> k, hold |-> hold] = Backtest(l, OpenDays, ranks, market) /\ Waiting(os, Plan(ranks, l, hold))
    BY <1>2 DEF Even
  <1> HIDE DEF l, hold
  <1>4. /\ OpenDays \in SUBSET (Nat \ {0})
        /\ \A x \in OpenDays : x <= l => x \in 1..today
    <2>1. \A x \in OpenDays : x \in Nat \ {0}
      BY DEF OpenDays
    <2>2. \A x \in Nat \ {0} : x <= l => x \in 1..l
      BY <1>1
    <2> QED
      BY <1>1, <2>1, <2>2
  <1>5. Backtest(l, OpenDays, rk, mk) = Backtest(l, OpenDays, ranks, market)
    <2>1. \A x \in OpenDays : x < l => rk[x] = ranks[x]
      <3>1. \A x \in OpenDays : x < l => x <= l
        BY <1>1, <1>4
      <3> QED
        BY <1>4, <3>1
    <2>2. \A x \in 1..l : mk[x] = market[x]
      BY <1>1
    <2> QED
      BY <1>1, <1>4, <2>1, <2>2, BacktestLocal
  <1>6. Plan(rk, l, hold) = Plan(ranks, l, hold)
    <2>1. ASSUME ~(\A x \in OpenDays : x > l) PROVE rk[LastOpen(l)] = ranks[LastOpen(l)]
      <3>1. LastOpen(l) \in OpenDays /\ LastOpen(l) <= l
        BY <1>1, <2>1, LastOpenIs
      <3> QED
        BY <1>4, <3>1
    <2> QED
      BY <2>1 DEF Plan
  <1> QED
    BY <1>3, <1>5, <1>6

LEMMA InitDrift == Init => Drift
  <1> SUFFICES ASSUME Init PROVE Drift
    OBVIOUS
  <1>1. /\ today = 0 /\ cash = InitialCash /\ positions = <<>> /\ orders = <<>>
        /\ session = [s \in Sources |-> Idle]
    BY DEF Init
  <1>2. LastDay(positions) = 0 /\ LastHold(positions) = None
    <2>1. DOMAIN positions = {}
      BY <1>1
    <2> QED
      BY <2>1 DEF LastDay, LastHold
  <1>3. [cash |-> cash, hold |-> LastHold(positions)] = Backtest(LastDay(positions), OpenDays, ranks, market)
    BY <1>1, <1>2, BacktestSteps DEF FreshWallet, None
  <1>4. Waiting(orders, Plan(ranks, LastDay(positions), LastHold(positions)))
    <2>1. \A x \in OpenDays : x > 0
      BY DEF OpenDays
    <2>2. Plan(ranks, LastDay(positions), LastHold(positions)) = <<>>
      BY <1>2, <2>1 DEF Plan
    <2>3. Len(orders) = 0
      BY <1>1
    <2> QED
      BY <1>1, <2>2, <2>3 DEF Waiting
  <1>5. Weekends
    BY <1>1 DEF Weekends
  <1> QED
    BY <1>1, <1>3, <1>4, <1>5 DEF Drift, Even

\* The Friday of a day is no day before it.
LEMMA FridayIs == ASSUME NEW d \in Nat \ {0} PROVE Friday(d) \in Nat /\ d <= Friday(d)
  <1>1. WeekLen \in Nat \ {0}
    BY ParametersAssumption
  <1> DEFINE q == (d - 1) \div WeekLen
             n == d - 1
  <1>2. n \in Nat /\ d = n + 1
    OBVIOUS
  <1>3. q \in Nat /\ n < (q + 1) * WeekLen
    BY <1>1, <1>2
  <1>4. (q + 1) * WeekLen \in Nat
    BY <1>1, <1>3
  <1>5. Friday(d) = (q + 1) * WeekLen
    BY DEF Friday
  <1> HIDE DEF q
  <1> QED
    BY <1>2, <1>3, <1>4, <1>5

LEMMA DriftDawn == Inv /\ Drift /\ Dawn => Drift'
  <1> SUFFICES ASSUME Inv, Drift, Dawn PROVE Drift'
    OBVIOUS
  <1>1. /\ Weekends /\ Even(market, ranks, cash, positions, orders, signalled)
        /\ \A s \in Sources : session[s] # Idle /\ session[s].day \notin ticked =>
               Evens(market, ranks, positions, orders, signalled, session[s])
    BY DEF Drift
  <1> DEFINE d == today + 1
             last == d \notin holidays /\ \A x \in d + 1..Friday(d) : x \in holidays
  <1>2. /\ today < Horizon /\ today' = d /\ holidays' = holidays /\ cash' = cash /\ positions' = positions
        /\ orders' = orders /\ signalled' = signalled /\ session' = session
    BY DEF Dawn, account
  <1>3. PICK m \in Markets \cup {Closed} : market' = Append(market, m)
    BY DEF Dawn
  <1>4. PICK r \in IF last THEN Rankings ELSE {<<>>} : ranks' = Append(ranks, r)
    BY DEF Dawn
  <1>5. /\ Horizon \in Nat /\ today \in Nat /\ DOMAIN positions \subseteq 1..today
        /\ market \in Seq(Markets \cup {Closed}) /\ Len(market) = today
        /\ ranks \in Seq(Rankings \cup {<<>>}) /\ Len(ranks) = today
        /\ \A s \in Sources : session[s] # Idle => session[s].day \in 1..today
    BY ParametersAssumption DEF Inv, World, Books, Rows, Running
  <1>6. /\ d \in 1..Horizon /\ \A x \in 1..d : x \in 1..today \/ x = d
        /\ d \in Nat \ {0}
    BY <1>2, <1>5
  <1>7. /\ \A x \in 1..today : market'[x] = market[x] /\ ranks'[x] = ranks[x]
        /\ ranks'[d] = r
    BY <1>3, <1>4, <1>5
  <1>8. last => d \in OpenDays /\ \A y \in OpenDays : d < y => Friday(d) < y
    <2> HIDE DEF d
    <2> SUFFICES ASSUME last PROVE d \in OpenDays /\ \A y \in OpenDays : d < y => Friday(d) < y
      OBVIOUS
    <2>1. \A y \in OpenDays : y \in Nat /\ y \notin holidays
      BY DEF OpenDays
    <2>2. Friday(d) \in Nat
      BY <1>6, FridayIs
    <2>3. \A y \in OpenDays : d < y /\ y <= Friday(d) => y \in d + 1..Friday(d)
      BY <1>6, <2>1, <2>2
    <2>4. d \in OpenDays
      BY <1>6 DEF OpenDays
    <2> QED
      BY <2>1, <2>2, <2>3, <2>4
  <1>9. ranks'[d] # <<>> => last
    BY <1>4, <1>7
  <1> HIDE DEF d, last
  <1>10. Weekends'
    <2>1. \A x \in 1..d : ranks'[x] # <<>> =>
              x \in OpenDays /\ \A y \in OpenDays : x < y => Friday(x) < y
      BY <1>1, <1>6, <1>7, <1>8, <1>9 DEF Weekends
    <2>2. OpenDays' = OpenDays
      BY <1>2, DaysStay
    <2> QED
      BY <1>2, <2>1, <2>2 DEF Weekends, Friday
  <1>11. Even(market', ranks', cash, positions, orders, signalled)
    BY <1>1, <1>5, <1>7, EvenLater
  <1>12. ASSUME NEW s \in Sources, session[s] # Idle, session[s].day \notin ticked
         PROVE  Evens(market', ranks', positions, orders, signalled, session[s])
    <2> DEFINE t == session[s]
               k == t.wallet.cash
               pos == [x \in DOMAIN positions \cup {t.day} |-> IF x = t.day THEN t.wallet.hold ELSE positions[x]]
               os == [i \in DOMAIN orders |-> IF i \in DOMAIN t.changed THEN t.changed[i] ELSE orders[i]] \o t.new
               sig == IF t.signals THEN signalled \cup {t.day} ELSE signalled
    <2>1. Even(market, ranks, k, pos, os, sig)
      BY <1>1, <1>12 DEF Evens
    <2>2. DOMAIN pos \subseteq 1..today
      BY <1>5, <1>12
    <2> HIDE DEF k, pos, os, sig
    <2>3. Even(market', ranks', k, pos, os, sig)
      BY <1>5, <1>7, <2>1, <2>2, EvenLater
    <2> QED
      BY <2>3 DEF Evens, k, pos, os, sig
  <1>13. ticked' = ticked
    BY <1>2 DEF ticked
  <1>14. /\ Even(market, ranks, cash, positions, orders, signalled)'
         /\ \A s \in Sources : session'[s] # Idle /\ session'[s].day \notin ticked' =>
                Evens(market, ranks, positions, orders, signalled, session[s])'
    BY <1>2, <1>11, <1>12, <1>13, DaysStay
  <1> QED
    BY <1>10, <1>14 DEF Drift, Idle

\* A step that leaves the days, the market and the rankings alone.
LEMMA DriftStep ==
    ASSUME Weekends, today' = today, holidays' = holidays, market' = market, ranks' = ranks,
           Even(market, ranks, cash', positions', orders', signalled'),
           \A s \in Sources : session'[s] # Idle /\ session'[s].day \notin DOMAIN positions' =>
               Evens(market, ranks, positions', orders', signalled', session'[s])
    PROVE  Drift'
  <1>1. Weekends'
    <2>1. OpenDays' = OpenDays
      BY DaysStay
    <2> QED
      BY <2>1 DEF Weekends, Friday
  <1>2. /\ Even(market, ranks, cash, positions, orders, signalled)'
        /\ \A s \in Sources : session'[s] # Idle /\ session'[s].day \notin DOMAIN positions' =>
               Evens(market, ranks, positions, orders, signalled, session[s])'
    BY DaysStay
  <1> QED
    BY <1>1, <1>2 DEF Drift, Idle, ticked

LEMMA DriftBegin ==
    ASSUME Orderly, NoTopUps, NEW s \in Sources, NEW d, NEW panel \in BOOLEAN,
           NEW over \in Drifts, NEW under \in Drifts
    PROVE  Inv /\ Drift /\ TickBegin(s, d, panel, over, under) => Drift'
  <1> SUFFICES ASSUME Inv, Drift, TickBegin(s, d, panel, over, under) PROVE Drift'
    OBVIOUS
  <1> DEFINE signals == QualifiesRebalance(d) /\ panel /\ ranks[d] # <<>>
             new == NewOrders(d, signals, {}, {})
             t == [day |-> d, wallet |-> Match(d).w, trades |-> Match(d).trades, new |-> new, signals |-> signals,
                   changed |-> [i \in Due(d) |-> Match(d).orders[i]]]
  <1>1. /\ Weekends /\ Even(market, ranks, cash, positions, orders, signalled)
        /\ \A r \in Sources : session[r] # Idle /\ session[r].day \notin ticked =>
               Evens(market, ranks, positions, orders, signalled, session[r])
    BY DEF Drift
  <1>2. /\ today' = today /\ holidays' = holidays /\ market' = market /\ ranks' = ranks
        /\ cash' = cash /\ positions' = positions /\ orders' = orders /\ signalled' = signalled
    BY DEF TickBegin, world, account
  <1>3. Before(d)
    BY DEF TickBegin, InOrder, Inv, Before
  <1>4. over = {} /\ under = {}
    BY DEF NoTopUps
  <1>5. session' = [session EXCEPT ![s] = t]
    BY <1>4 DEF TickBegin, NewOrders
  <1>6. LeavesRows(t, d, new, signals)
    <2>1. t = [day |-> d, wallet |-> Match(d).w, trades |-> Match(d).trades, new |-> new, signals |-> signals,
               changed |-> [i \in Due(d) |-> Match(d).orders[i]]]
      OBVIOUS
    <2> HIDE DEF t, new, signals
    <2> QED
      BY ONLY <1>3, <2>1, TickLeaves
  <1>7. signals \in BOOLEAN /\ (signals => ranks[d] # <<>>)
    OBVIOUS
  <1> HIDE DEF t, signals
  <1>8. Evens(market, ranks, positions, orders, signalled, t)
    <2>1. Even(market, ranks, Match(d).w.cash, Snapshots(d, Match(d).w.hold), Match(d).orders \o new,
               SignalDays(d, signals))
      BY <1>1, <1>3, <1>7, TickEven
    <2> HIDE DEF new
    <2> QED
      BY <1>6, <2>1 DEF Evens, LeavesRows
  <1> HIDE DEF new
  <1>9. session'[s] = t /\ \A r \in Sources \ {s} : session'[r] = session[r]
    BY <1>5 DEF Inv, Running
  <1>10. \A r \in Sources : session'[r] # Idle /\ session'[r].day \notin DOMAIN positions' =>
             Evens(market, ranks, positions', orders', signalled', session'[r])
    BY <1>1, <1>2, <1>8, <1>9 DEF ticked
  <1> QED
    BY <1>1, <1>2, <1>10, DriftStep

LEMMA DriftCommit == ASSUME NEW s \in Sources PROVE Inv /\ Drift /\ TickCommit(s) => Drift'
  <1> SUFFICES ASSUME Inv, Drift, TickCommit(s) PROVE Drift'
    OBVIOUS
  <1> DEFINE t == session[s]
  <1>1. /\ Weekends /\ Even(market, ranks, cash, positions, orders, signalled)
        /\ \A r \in Sources : session[r] # Idle /\ session[r].day \notin ticked =>
               Evens(market, ranks, positions, orders, signalled, session[r])
    BY DEF Drift
  <1>2. /\ today' = today /\ holidays' = holidays /\ market' = market /\ ranks' = ranks /\ t # Idle
        /\ session' = [session EXCEPT ![s] = Idle]
    BY DEF TickCommit, world
  <1>3. session'[s] = Idle /\ \A r \in Sources \ {s} : session'[r] = session[r]
    BY <1>2 DEF Inv, Running
  <1>4. CASE t.day \in ticked
    <2>1. cash' = cash /\ positions' = positions /\ orders' = orders /\ signalled' = signalled
      BY <1>4 DEF TickCommit, account
    <2>2. \A r \in Sources : session'[r] # Idle /\ session'[r].day \notin DOMAIN positions' =>
              Evens(market, ranks, positions', orders', signalled', session'[r])
      BY <1>1, <1>3, <2>1 DEF ticked
    <2> QED
      BY <1>1, <1>2, <2>1, <2>2, DriftStep
  <1>5. CASE t.day \notin ticked
    <2>1. /\ orders' = [i \in DOMAIN orders |->
                 IF i \in DOMAIN t.changed THEN t.changed[i] ELSE orders[i]] \o t.new
          /\ positions' = [x \in DOMAIN positions \cup {t.day} |->
                               IF x = t.day THEN t.wallet.hold ELSE positions[x]]
          /\ cash' = t.wallet.cash
          /\ signalled' = IF t.signals THEN signalled \cup {t.day} ELSE signalled
      BY <1>5 DEF TickCommit, ticked
    <2>2. Evens(market, ranks, positions, orders, signalled, t)
      BY <1>1, <1>2, <1>5
    <2>3. Even(market, ranks, cash', positions', orders', signalled')
      BY <2>1, <2>2 DEF Evens
    <2>4. t.day \in DOMAIN positions'
      BY <2>1
    <2>5. \A r \in Sources : session'[r] # Idle => session'[r].day = t.day
      BY <1>2, <1>3 DEF Inv, Running
    <2>6. \A r \in Sources : session'[r] # Idle => session'[r].day \in DOMAIN positions'
      BY <2>4, <2>5
    <2> QED
      BY <1>1, <1>2, <2>3, <2>6, DriftStep
  <1> QED
    BY <1>4, <1>5

LEMMA NextDrift == ASSUME Orderly, NoTopUps PROVE Inv /\ Drift /\ [Next]_vars => Drift'
  <1> SUFFICES ASSUME Inv, Drift, [Next]_vars PROVE Drift'
    OBVIOUS
  <1>1. /\ Weekends /\ Even(market, ranks, cash, positions, orders, signalled)
        /\ \A r \in Sources : session[r] # Idle /\ session[r].day \notin ticked =>
               Evens(market, ranks, positions, orders, signalled, session[r])
        /\ session = [r \in Sources |-> session[r]]
    BY DEF Drift, Inv, Running
  <1>2. CASE Dawn
    BY <1>2, DriftDawn
  <1>3. ASSUME /\ today' = today /\ holidays' = holidays /\ market' = market /\ ranks' = ranks
               /\ cash' = cash /\ positions' = positions /\ orders' = orders /\ signalled' = signalled
               /\ \A r \in Sources : session'[r] \in {session[r], Idle}
        PROVE  Drift'
    <2>1. \A r \in Sources : session'[r] # Idle /\ session'[r].day \notin DOMAIN positions' =>
              Evens(market, ranks, positions', orders', signalled', session'[r])
      BY <1>1, <1>3 DEF ticked
    <2> QED
      BY <1>1, <1>3, <2>1, DriftStep
  <1>4. ASSUME NEW to \in {"active", "paused"}, SetStatus(to) PROVE Drift'
    BY <1>3, <1>4 DEF SetStatus, world
  <1>5. ASSUME NEW s \in Sources, NEW d, NEW panel \in BOOLEAN, NEW over \in Drifts, NEW under \in Drifts,
               TickBegin(s, d, panel, over, under)
        PROVE  Drift'
    BY <1>5, DriftBegin
  <1>6. ASSUME NEW s \in Sources, TickCommit(s) PROVE Drift'
    BY <1>6, DriftCommit
  <1>7. ASSUME NEW s \in Sources, TickLost(s) PROVE Drift'
    BY <1>1, <1>3, <1>7 DEF TickLost, world, account
  <1>8. CASE UNCHANGED vars
    BY <1>3, <1>8 DEF vars
  <1>9. ASSUME NEW d, TickSkipped(d) PROVE Drift'
    BY <1>8, <1>9 DEF TickSkipped
  <1> QED
    BY <1>2, <1>4, <1>5, <1>6, <1>7, <1>8, <1>9 DEF Next

-----------------------------------------------------------------------------
(* The backtest of run_drift *)

\* It drops the last rebalance date, which nothing up to the last tick executes.
LEMMA RunDriftIs ==
    ASSUME Inv, Weekends, NEW l \in 1..today
    PROVE  RunDrift(l) = Backtest(l, OpenDays, ranks, market)
  <1> DEFINE days == {x \in TradeDays : x <= l}
             dates == RebalanceSchedule(days)
             last == CHOOSE x \in dates : \A y \in dates : y <= x
             used == IF dates = {} THEN {} ELSE dates \ {last}
             rk == [x \in 1..l |-> IF x \in used THEN ranks[x] ELSE <<>>]
  <1>1. today \in 0..Horizon /\ Horizon \in Nat /\ l \in Nat
    BY ParametersAssumption DEF Inv, World
  <1>2. /\ \A x : x \in days <=> x \in OpenDays /\ x <= l
        /\ days \subseteq 1..l /\ OpenDays \subseteq 1..Horizon
    <2>1. \A x \in 1..Horizon : x <= l => x \in 1..today /\ x \in 1..l
      BY <1>1
    <2>2. \A x \in 1..today : x \in 1..Horizon
      BY <1>1
    <2> QED
      BY <2>1, <2>2 DEF TradeDays, OpenDays
  <1>3. RunDrift(l) = Backtest(l, days, rk, market)
    BY DEF RunDrift
  <1>4. OpenDays \in SUBSET (Nat \ {0}) /\ days \in SUBSET (Nat \ {0})
    <2>1. \A x \in 1..Horizon : x \in Nat \ {0}
      OBVIOUS
    <2>2. \A x \in 1..l : x \in Nat \ {0}
      OBVIOUS
    <2> QED
      BY <1>2, <2>1, <2>2
  <1>5. dates \subseteq days
    BY DEF RebalanceSchedule
  <1> HIDE DEF days
  <1>6. CASE days = {}
    <2>1. \A x \in 0 + 1..l : x \notin OpenDays /\ x \notin days
      BY <1>1, <1>2, <1>6
    <2>2. Backtest(l, days, rk, market) = Backtest(0, days, rk, market)
      <3> HIDE DEF rk
      <3> QED
        BY <1>1, <2>1, QuietDays
    <2>3. Backtest(l, OpenDays, ranks, market) = Backtest(0, OpenDays, ranks, market)
      BY <1>1, <2>1, QuietDays
    <2>4. Backtest(0, days, rk, market) = Backtest(0, OpenDays, ranks, market)
      <3> HIDE DEF rk
      <3> QED
        BY BacktestSteps
    <2> QED
      BY <1>3, <2>2, <2>3, <2>4
  <1>7. CASE days # {}
    <2>1. PICK m \in days : Greatest(m, days)
      <3>1. \A x \in days : x \in 0..l
        BY <1>2
      <3> QED
        BY <1>1, <1>7, <3>1, GreatestExists
    <2>2. m \in OpenDays /\ m \in 1..l /\ m \in Nat /\ \A x \in days : x <= m
      BY <1>2, <2>1 DEF Greatest
    <2>3. m \in dates
      BY <2>2 DEF RebalanceSchedule
    <2>4. \A x \in dates : x <= m
      BY <1>5, <2>2
    <2>5. last = m
      <3> HIDE DEF dates
      <3>1. last \in dates /\ \A x \in dates : x <= last
        BY <2>3, <2>4
      <3> HIDE DEF last
      <3>2. last \in Nat /\ last <= m /\ m <= last
        BY <1>4, <1>5, <2>3, <2>4, <3>1
      <3> QED
        BY <2>2, <3>2
    <2>6. ASSUME NEW x \in OpenDays, x < m PROVE rk[x] = ranks[x]
      <3>1. x \in Nat \ {0} /\ x \in 1..l /\ x \in days
        <4>1. x \in Nat \ {0}
          BY <1>4
        <4>2. x \in 1..l
          BY <1>1, <2>2, <2>6, <4>1
        <4> QED
          BY <1>2, <4>1, <4>2
      <3>2. CASE ranks[x] = <<>>
        BY <3>1, <3>2
      <3>3. CASE ranks[x] # <<>>
        <4>1. \A y \in OpenDays : x < y => Friday(x) < y
          <5>1. x \in 1..today
            BY <1>1, <3>1
          <5> QED
            BY <3>3, <5>1 DEF Weekends
        <4>2. ASSUME NEW y \in days, SameWeek(x, y) PROVE y <= x
          <5>1. y \in OpenDays /\ y \in Nat \ {0}
            BY <1>2, <1>4
          <5>2. y <= Friday(y) /\ Friday(y) \in Nat /\ Friday(y) = Friday(x)
            BY <4>2, <5>1, FridayIs DEF SameWeek
          <5> QED
            BY <3>1, <4>1, <5>1, <5>2
        <4>3. x \in dates
          BY <3>1, <4>2 DEF RebalanceSchedule
        <4>4. x # m
          BY <2>2, <2>6, <3>1
        <4>5. x \in used
          BY <2>5, <4>3, <4>4
        <4> QED
          BY <3>1, <4>5
      <3> QED
        BY <3>2, <3>3
    <2> HIDE DEF rk, used, last, dates
    <2>7. \A x \in m + 1..l : x \notin OpenDays /\ x \notin days
      <3>1. \A x \in m + 1..l : ~(x <= m) /\ x <= l
        BY <1>1, <2>2
      <3> QED
        BY <1>2, <2>2, <3>1
    <2>8. m <= l
      BY <2>2
    <2>9. Backtest(l, days, rk, market) = Backtest(m, days, rk, market)
      BY <1>1, <2>2, <2>7, <2>8, QuietDays
    <2>10. Backtest(l, OpenDays, ranks, market) = Backtest(m, OpenDays, ranks, market)
      BY <1>1, <2>2, <2>7, <2>8, QuietDays
    <2>11. \A x \in 1..m : x \in days <=> x \in OpenDays
      <3>1. \A x \in 1..m : x <= l
        BY <1>1, <2>2
      <3> QED
        BY <1>2, <3>1
    <2>12. \A x \in days : x < m => rk[x] = ranks[x]
      BY <1>2, <2>6
    <2>13. Backtest(m, days, rk, market) = Backtest(m, OpenDays, ranks, market)
      BY <1>4, <2>2, <2>11, <2>12, BacktestLocal
    <2> QED
      BY <1>3, <2>9, <2>10, <2>13
  <1> QED
    BY <1>6, <1>7

LEMMA DriftZero == Inv /\ Drift => ZeroDrift
  <1> SUFFICES ASSUME Inv, Drift, ticked # {}, Undisturbed
               PROVE  LET w == RunDrift(LastTick)
                          j == HoldingJaccard(positions[LastTick], w.hold)
                      IN  positions[LastTick] = w.hold /\ cash = w.cash /\ j[1] = j[2]
    BY DEF ZeroDrift
  <1>1. /\ today \in 0..Horizon /\ Horizon \in Nat /\ ticked \subseteq 1..today /\ orders \in Seq(OrderRows)
    BY ParametersAssumption DEF Inv, World, Books, Rows, ticked
  <1>2. LastTick = LastDay(positions)
    BY DEF LastTick, LastDay, Greatest, ticked
  <1> DEFINE l == LastDay(positions)
  <1>3. l \in ticked /\ Greatest(l, ticked)
    BY <1>1, LastDayIs DEF ticked, Greatest
  <1> HIDE DEF l
  <1>4. /\ {d \in TradeDays : d <= l} \subseteq ticked
        /\ SignalDates \cap 1..l \subseteq signalled
        /\ \A i \in DOMAIN orders : /\ orders[i].exec = NextWeekday(orders[i].signal)
                                    /\ \A h \in ticked \cap holidays : h > orders[i].signal =>
                                           \E d \in TradeDays : orders[i].signal < d /\ d < h
        /\ ~Emptied
    BY <1>2 DEF Undisturbed, l
  <1>5. /\ l \in 1..today /\ l \in Nat
        /\ \A x \in OpenDays : x <= l => x \in TradeDays
        /\ \A x \in TradeDays : x \in OpenDays
        /\ \A x \in ticked : x \notin OpenDays => x \in holidays
        /\ \A x \in 1..l : x \in 1..today
    <2>1. l \in 1..today
      BY <1>1, <1>3
    <2>2. \A x \in 1..Horizon : x <= l => x \in 1..today
      BY <1>1, <2>1
    <2>3. \A x \in 1..today : x \in 1..Horizon
      BY <1>1
    <2>4. \A x \in 1..l : x \in 1..today
      BY <1>1, <2>1
    <2> QED
      BY <1>1, <2>1, <2>2, <2>3, <2>4 DEF OpenDays, TradeDays
  <1>6. Smooth(ranks, positions, orders, signalled)
    <2>1. \A x \in OpenDays : x <= l => x \in ticked
      BY <1>4, <1>5
    <2>2. \A x \in 1..l : ranks[x] # <<>> => x \in signalled
      BY <1>4, <1>5 DEF SignalDates
    <2>3. ASSUME NEW i \in DOMAIN orders
          PROVE  /\ orders[i].exec = orders[i].signal + 1
                 /\ \A h \in ticked : h \notin OpenDays /\ h > orders[i].signal =>
                        \E x \in OpenDays : orders[i].signal < x /\ x < h
      BY <1>4, <1>5 DEF NextWeekday
    <2>4. ~HasGap(positions)
      BY <1>4 DEF HasGap, Emptied, ticked
    <2> QED
      BY <2>1, <2>2, <2>3, <2>4 DEF Smooth, ticked, l
  <1>7. [cash |-> cash, hold |-> positions[l]] = Backtest(l, OpenDays, ranks, market)
    <2>1. LastHold(positions) = positions[l]
      BY DEF LastHold, ticked, l
    <2> QED
      BY <1>6, <2>1 DEF Drift, Even, l
  <1>8. RunDrift(l) = [cash |-> cash, hold |-> positions[l]]
    BY <1>5, <1>7, RunDriftIs DEF Drift
  <1>9. \A h : HoldingJaccard(h, h)[1] = HoldingJaccard(h, h)[2]
    <2> TAKE h
    <2> DEFINE held == {c \in Codes : h[c] > 0}
    <2>1. HoldingJaccard(h, h) = <<Cardinality(held \cap held), Cardinality(held \cup held)>>
      BY DEF HoldingJaccard
    <2> HIDE DEF held
    <2>2. held \cap held = held /\ held \cup held = held
      OBVIOUS
    <2> QED
      BY <2>1, <2>2
  <1>10. RunDrift(LastTick).hold = positions[LastTick] /\ RunDrift(LastTick).cash = cash
    BY <1>2, <1>8 DEF l
  <1> QED
    BY <1>9, <1>10

\* Paper against backtest: an account that missed no open day, no signal and no exit holds the
\* shares and the cash of the portfolio backtest of its days (run_drift), in every market, for
\* every calendar and every ranking.
THEOREM DriftHolds == ASSUME Orderly, NoTopUps PROVE Spec => []ZeroDrift
  <1>1. Inv /\ [Next]_vars => Inv'
    BY NextInv
  <1>2. Inv /\ Drift /\ [Next]_vars => Drift'
    BY NextDrift
  <1>3. Inv /\ Drift => ZeroDrift
    BY DriftZero
  <1> QED
    BY InitInv, InitDrift, <1>1, <1>2, <1>3, PTL DEF Spec
=============================================================================
