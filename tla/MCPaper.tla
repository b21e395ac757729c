------------------------------ MODULE MCPaper ------------------------------
(* Instances of PaperTrading: four stocks, two slots, weeks of two days.   *)
EXTENDS PaperTrading

CONSTANTS s1, s2, s3, s4

Flags(buy, sell) == {[buy |-> buy, sell |-> sell]}
Day(qa, qb, qc, qd) == (s1 :> qa) @@ (s2 :> qb) @@ (s3 :> qc) @@ (s4 :> qd)
MCClosed == [x \in Codes |-> Quote({}, {})]
\* A calm day; one where prices moved and s1 cannot be sold; one where nothing can be bought
\* and s3 has no bar.
MCCalm == Day(Quote({3}, Flags(1, 1)), Quote({5}, {}), Quote({4}, {}), Quote({2}, {}))
MCMarkets ==
    {MCCalm,
     Day(Quote({7}, Flags(1, 0)), Quote({4}, {}), Quote({3}, {}), Quote({2}, {})),
     Day(Quote({3}, Flags(0, 1)), Quote({6}, Flags(0, 1)), Quote({}, {}), Quote({2}, Flags(0, 1)))}
MCRankings == {<<>>, <<s1, s2>>, <<s3, s4>>}
MCDrifts == {{}}
\* No holiday; a closed Monday; a closed Friday; a closed week.
MCCalendars == {{}, {3}, {4}, {3, 4}}
MCNoHoliday == {{}}

\* What the theorems about the books ask of the parameters is true of these.
ASSUME InstanceAssumption == SalesCoverFees /\ NoTopUps
=============================================================================
