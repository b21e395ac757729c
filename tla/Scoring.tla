------------------------------- MODULE Scoring -------------------------------
(***************************************************************************)
(* The arithmetic of a cross-section: neutralization by industry, z-score  *)
(* and composite score, the ranked top, and the quantile layers, as        *)
(* functions of the factor values of one day.                              *)
(*                                                                         *)
(* A column maps the codes that have the factor to its value; scores are   *)
(* hundredths of a standard deviation.                                     *)
(***************************************************************************)
EXTENDS Integers, FiniteSets, FiniteSetsExt

Total(col) == MapThenSumSet(LAMBDA c : col[c], DOMAIN col)
Root(n) == CHOOSE r \in 0..n : r * r <= n /\ n < (r + 1) * (r + 1)

\* The k-th value of a column from below, equal values counted as often as they occur.
Nth(col, k) ==
    CHOOSE v \in {col[c] : c \in DOMAIN col} :
        /\ Cardinality({c \in DOMAIN col : col[c] < v}) < k
        /\ Cardinality({c \in DOMAIN col : col[c] <= v}) >= k

\* Twice the median, the mean of the two in the middle.
Median2(col) ==
    LET n == Cardinality(DOMAIN col)
    IN  Nth(col, (n + 1) \div 2) + Nth(col, n \div 2 + 1)

\* A missing factor counts as the median of the others (values are doubled).
Imputed(col, codes) == [c \in codes |-> IF c \in DOMAIN col THEN 2 * col[c] ELSE Median2(col)]

Clip(z) == IF z > 300 THEN 300 ELSE IF z < -300 THEN -300 ELSE z

\* _zscore
ZScore(col) ==
    LET n == Cardinality(DOMAIN col)
        sum == Total(col)
        var == n * MapThenSumSet(LAMBDA c : col[c] * col[c], DOMAIN col) - sum * sum
    IN  [c \in DOMAIN col |-> IF var = 0 THEN 0 ELSE Clip(((col[c] * n - sum) * 100) \div Root(var))]

\* mutant: the sign of a factor is the sign of its weight, which is folded away
CompositeUnsigned(columns, specs, codes) ==
    LET used == {f \in DOMAIN specs : DOMAIN columns[f] # {}}
        z(f) == ZScore(Imputed(columns[f], codes))
    IN  [c \in codes |-> MapThenSumSet(LAMBDA f : specs[f].weight * z(f)[c], used)]

\* composite_score of the factors with any value; a spec is a weight and a direction. The
\* division by the total weight does not change the order.
Composite(columns, specs, codes) ==
    LET used == {f \in DOMAIN specs : DOMAIN columns[f] # {}}
        z(f) == ZScore(Imputed(columns[f], codes))
    IN  [c \in codes |-> MapThenSumSet(LAMBDA f : specs[f].weight * specs[f].direction * z(f)[c], used)]

\* select_top_n: what the first n may be; equal scores come in any order.
TopN(score, n) ==
    {S \in SUBSET DOMAIN score :
        /\ Cardinality(S) = Min({n, Cardinality(DOMAIN score)})
        /\ \A x \in S, y \in DOMAIN score \ S : score[x] >= score[y]}

-----------------------------------------------------------------------------
\* mutant: a missing industry is the baseline of the dummies
ResidualsBaseline(col, industry) ==
    [c \in DOMAIN col |-> col[c] * Cardinality(DOMAIN col) - Total(col)]

\* neutralize_cross_section on industry dummies: the distance from the mean of the industry
\* (in a unit that makes it whole), none without an industry; with one industry, from the
\* mean of all.
Residuals(col, industry) ==
    LET known == {c \in DOMAIN col : industry[c] # {}}
        peers(c) == {x \in known : industry[x] = industry[c]}
        unit == FoldSet(LAMBDA x, y : x * y, 1, 1..Cardinality(DOMAIN col))
        far(c, S) == col[c] * unit - (unit \div Cardinality(S)) * MapThenSumSet(LAMBDA x : col[x], S)
    IN  IF Cardinality({industry[c] : c \in known}) <= 1
        THEN [c \in DOMAIN col |-> far(c, DOMAIN col)]
        ELSE [c \in known |-> far(c, peers(c))]

-----------------------------------------------------------------------------
\* The k-th of n edges of qcut, times n: linear between the two values around it.
Edge(col, k, n) ==
    LET at == (Cardinality(DOMAIN col) - 1) * k
        lower == Nth(col, at \div n + 1)
        upper == IF at % n = 0 THEN lower ELSE Nth(col, at \div n + 2)
    IN  lower * n + (at % n) * (upper - lower)

\* mutant: an edge belongs to the layer above it
LayersUpper(col, n) ==
    LET edges == {Edge(col, k, n) : k \in 0..n}
    IN  [c \in DOMAIN col |-> Cardinality({e \in edges : e <= col[c] * n})]

\* layered_returns: the layer of a code is the edges below it; equal edges are dropped and
\* the lowest one is part of the first layer.
Layers(col, n) ==
    LET edges == {Edge(col, k, n) : k \in 0..n}
        inner == edges \ {Min(edges), Max(edges)}
    IN  [c \in DOMAIN col |-> Cardinality({e \in inner : e < col[c] * n}) + 1]
=============================================================================
