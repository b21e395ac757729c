------------------------------ MODULE MCProduct ------------------------------
(* Instances of the modules about what users see of the data: research on     *)
(* factors, backtests of one stock, the chat, the knowledge base; one part per *)
(* behaviour, which share no variable. What a part leaves out of sight is 0.  *)
(* The functions of Scoring are checked on drawn cross-sections.              *)
EXTENDS Integers, Sequences, FiniteSets, FiniteSetsExt, SequencesExt, TLC

CONSTANTS
    s1, s2, s3,
    Pool, MinBars, MaxBars, Bars, Budget, Invested, Slippage, FeeRate, LeastFee, StampRate, \* StockBacktest
    Sessions, MaxTurns, MaxLoads, Fragments, ToolIters, LimiterBurst, \* Assistant
    Texts, ChunkSize, Overlap, MaxDocs, TopK  \* Knowledge

VARIABLES
    focus,  \* the part this behaviour is of
    future, price, stored, snap, life, st, map, ic, events,  \* Research
    status, result, excluded, window, pending, cash, held, entry, ledger,  \* StockBacktest
    chat, turn, wire, tokens, selected, bubbles, sending, current, loads,  \* Assistant
    doc, chunk, upload, found,  \* Knowledge
    section  \* Scoring: the cross-section drawn

\* Three stocks, the last one listed on day 2. No two days of a stock move alike.
LabBorn == (s1 :> 1) @@ (s2 :> 1) @@ (s3 :> 2)
PerCode(x, y, z) == (s1 :> x) @@ (s2 :> y) @@ (s3 :> z)
\* One in which all go on, one in which s2 is renamed on day 2 and delisted on day 3.
LabFutures == {[price |-> <<PerCode(1, 5, 9), PerCode(2, 9, 7), PerCode(4, 6, 8), PerCode(8, 1, 3)>>,
                gone |-> PerCode(0, 0, 0), named |-> PerCode(0, 0, 3)],
               [price |-> <<PerCode(7, 3, 2), PerCode(4, 5, 1), PerCode(3, 9, 6), PerCode(5, 8, 7)>>,
                gone |-> PerCode(0, 3, 0), named |-> PerCode(0, 2, 0)]}
\* Nothing answers, one board does, both do, a stock has moved.
LabBoards == {<<>>, (s2 :> "bank"), PerCode("bank", "bank", "steel"), PerCode("bank", "steel", "steel")}
LabLegacy == (s1 :> "steel") @@ (s3 :> "steel")
\* A daily series up to the newest day, and one of every other day.
LabRequests == {<<1, 4, 1>>, <<2, 4, 2>>}
\* Reversal, as a negative weight, with a little liquidity; one weight of zero.
LabWeights == {<<"roc", -2, 0>>, <<"amount", 1, 1>>, <<"turnover", 0, 1>>}

\* A flat bar, a rise, a bar that cannot be bought, a fall that cannot be sold.
StrategyBar(o, x, buy, sell) == [open |-> o, close |-> x, buy |-> buy, sell |-> sell]
StrategyBars == {StrategyBar(10, 10, TRUE, TRUE), StrategyBar(10, 14, TRUE, TRUE),
                 StrategyBar(14, 14, FALSE, TRUE), StrategyBar(8, 7, TRUE, FALSE)}

TwoStocks == <<"a", "b">>
\* No text, a line that fits in a chunk, a blank one, one that does not fit.
MCTexts == {<<>>, <<2, 0>>, <<9, 3>>}

Score == INSTANCE Scoring
Columns == UNION {[S -> {0, 1, 5}] : S \in SUBSET {s1, s2, s3}}
Increasing(n) == {SetToSortSeq(S, <) : S \in kSubset(n, 0..8)}
Sections == [about : {"composite"}, momentum : Columns, amount : Columns]
    \cup [about : {"residuals"}, col : [{s1, s2, s3} -> {0, 1, 5}], sector : [{s1, s2, s3} -> {{}, {"bank"}, {"steel"}}]]
    \cup [about : {"layers"}, col : UNION {Increasing(n) : n \in 3..6}]

Lab == INSTANCE Research WITH
    Codes <- {s1, s2, s3}, Born <- LabBorn, Horizon <- 4, Futures <- LabFutures,
    Dated <- {s3}, Exchange <- PerCode("sh", "sz", "sh"), LimitMove <- 4, Boards <- LabBoards,
    Legacy <- LabLegacy, MaxEvents <- 3, Period <- 1, Trail <- 2, Ahead <- {1, 2},
    Buffer <- 2, MinStocks <- 2, Limit <- 3, Liquid <- 2, Hold <- 1, Weights <- LabWeights,
    NLayers <- 2, PerLayer <- 1, Requests <- LabRequests

Strategy == INSTANCE StockBacktest
ASSUME StrategyAssumption == Strategy!Parameters
\* What the theorem about backtests asks besides is true of this instance.
ASSUME InstanceAssumption == Strategy!SalesPayFees
Talk == INSTANCE Assistant
ASSUME TalkAssumption == Talk!Parameters
Base == INSTANCE Knowledge
ASSUME KnowledgeAssumption == Base!Parameters

labVars == <<future, price, stored, snap, life, st, map, ic, events>>
strategyVars == <<status, result, excluded, window, pending, cash, held, entry, ledger>>
talkVars == <<chat, turn, wire, tokens, selected, bubbles, sending, current, loads>>
baseVars == <<doc, chunk, upload, found>>
vars == <<focus, labVars, strategyVars, talkVars, baseVars, section>>

\* The variables of a part that is not looked at.
LabOff == future = 0 /\ price = 0 /\ stored = 0 /\ snap = 0 /\ life = 0 /\ st = 0 /\ map = 0 /\ ic = 0 /\ events = 0
StrategyOff == status = 0 /\ result = 0 /\ excluded = 0 /\ window = 0 /\ pending = 0 /\ cash = 0 /\ held = 0 /\ entry = 0 /\ ledger = 0
TalkOff == chat = 0 /\ turn = 0 /\ wire = 0 /\ tokens = 0 /\ selected = 0 /\ bubbles = 0 /\ sending = 0 /\ current = 0 /\ loads = 0
BaseOff == doc = 0 /\ chunk = 0 /\ upload = 0 /\ found = 0

Init ==
    \/ focus = "research" /\ Lab!Init /\ StrategyOff /\ TalkOff /\ BaseOff /\ section = 0
    \/ focus = "backtest" /\ Strategy!Init /\ LabOff /\ TalkOff /\ BaseOff /\ section = 0
    \/ focus = "assistant" /\ Talk!Init /\ LabOff /\ StrategyOff /\ BaseOff /\ section = 0
    \/ focus = "knowledge" /\ Base!Init /\ LabOff /\ StrategyOff /\ TalkOff /\ section = 0
    \/ focus = "scoring" /\ section \in Sections /\ LabOff /\ StrategyOff /\ TalkOff /\ BaseOff
Next ==
    \/ focus = "research" /\ Lab!Next /\ UNCHANGED <<focus, strategyVars, talkVars, baseVars, section>>
    \/ focus = "backtest" /\ Strategy!Next /\ UNCHANGED <<focus, labVars, talkVars, baseVars, section>>
    \/ focus = "assistant" /\ Talk!Next /\ UNCHANGED <<focus, labVars, strategyVars, baseVars, section>>
    \/ focus = "knowledge" /\ Base!Next /\ UNCHANGED <<focus, labVars, strategyVars, talkVars, section>>

\* A turn goes on and its events arrive; the reader's clicks are free (Assistant!Fairness).
Fairness == \A t \in 1..MaxTurns :
    WF_vars(/\ focus = "assistant" /\ t \in DOMAIN turn
            /\ Talk!Serve(t) \/ Talk!Receive(t) \/ Talk!StreamOver(t)
            /\ UNCHANGED <<focus, labVars, strategyVars, baseVars, section>>)
Spec == Init /\ [][Next]_vars /\ Fairness

\* universe_service, factor_service: the pool of a day is that day's, and the IC of one date
\* and the series of ICs are the same statistic.
ResearchSound == focus = "research" => Lab!ResearchSound

\* backtest_service: cash is explained by trades, no order fills without cash or a free bar,
\* and a run is done exactly when its result is stored.
BacktestSound == focus = "backtest" => Strategy!BacktestSound

\* assistant_service and the page: both agree on what was said, by whom, in which order.
ChatSound == focus = "assistant" => Talk!ChatSound

\* knowledge_service: a document is stored with all of its chunks or with none, they lose no
\* text, and every source is cited once.
KnowledgeSound == focus = "knowledge" => Base!KnowledgeSound

About(kind) == focus = "scoring" /\ section.about = kind
Specs == ("momentum" :> [weight |-> 2, direction |-> -1]) @@ ("amount" :> [weight |-> 1, direction |-> 1])
\* composite_score: a stock at least as good in every factor never scores less: imputed
\* medians, clipped scores, weights and directions together keep the order of dominance.
DominanceKept ==
    About("composite") =>
        LET m == section.momentum
            v == section.amount
            score == Score!Composite(("momentum" :> m) @@ ("amount" :> v), Specs, {s1, s2, s3})
        IN  \A x, y \in DOMAIN m \cap DOMAIN v : m[y] <= m[x] /\ v[y] >= v[x] => score[y] >= score[x]

\* neutralize_cross_section: what moves a whole industry does not show in the residuals.
IndustryMovesVanish ==
    About("residuals") =>
        LET col == section.col
            s == section.sector
            moved == [x \in DOMAIN col |-> IF s[x] = {"bank"} THEN col[x] + 3 ELSE col[x]]
            kinds == {s[x] : x \in DOMAIN s}
        IN  kinds = {{"bank"}} \/ {{"bank"}, {"steel"}} \subseteq kinds
                => Score!Residuals(moved, s) = Score!Residuals(col, s)

\* layered_returns: without ties every layer is filled, in the order of the factor, none by
\* two more than another, so the spread compares portfolios of one size.
LayersEven ==
    About("layers") =>
        LET n == Len(section.col)
            layer == Score!Layers(section.col, 3)
            size(l) == Cardinality({i \in 1..n : layer[i] = l})
        IN  /\ \A i, j \in 1..n : i < j => layer[i] <= layer[j]
            /\ \A l, k \in 1..3 : size(l) > 0 /\ size(l) - size(k) <= 1

\* The functions behind every score, neutralized factor and layer keep order and size.
ScoringSound == DominanceKept /\ IndustryMovesVanish /\ LayersEven

\* What is on record of the past stays: the pairs of a stored IC, the industry and the
\* candidates of a past day;
\* and a turn of the tool chat never ends without telling the page.
PastIsFinal ==
    [][/\ focus = "research" => Lab!IcRowsFinal /\ Lab!IndustryIsOfItsDay /\ Lab!CandidatesFinal
                              /\ Lab!DelistingKept
       /\ focus = "assistant" => Talk!ToolTurnsEndDone]_vars

\* Assistant.tsx: the page never stays in the sending state, the next message can be sent.
SendingEnds == (focus = "assistant" /\ sending # 0) ~> (focus = "assistant" /\ sending = 0)

================================================================================
