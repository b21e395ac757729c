--------------------------- MODULE InductionFacts ---------------------------
(***************************************************************************)
(* Induction over the natural numbers with a set in place of a predicate,  *)
(* functions defined by recursion on an index, and sums of sequences, for  *)
(* the modules whose handlers loop over rows.                              *)
(***************************************************************************)
EXTENDS Sums, Rows, FiniteSetTheorems, TLAPS

\* Every non-empty set of natural numbers has a least element: the intervals below its
\* elements are finite sets, and strict inclusion of finite sets is well founded.
LEMMA Least ==
    ASSUME NEW T \in SUBSET Nat, T # {} PROVE \E n \in T : \A m \in T : n <= m
  <1> DEFINE R == StrictSubsetOrdering(Nat)
             I == {0..n : n \in T}
  <1>1. IsWellFoundedOn(R, FiniteSubsetsOf(Nat))
    BY FS_StrictSubsetOrderingWellFounded
  <1>2. I \subseteq FiniteSubsetsOf(Nat) /\ I # {}
    <2>1. ASSUME NEW n \in T PROVE 0..n \in SUBSET Nat /\ IsFiniteSet(0..n)
      BY FS_Interval
    <2> QED
      BY <2>1 DEF FiniteSubsetsOf
  <1>3. \A a, b \in Nat : a < b => <<0..a, 0..b>> \in R
    <2> SUFFICES ASSUME NEW a \in Nat, NEW b \in Nat, a < b PROVE <<0..a, 0..b>> \in R
      OBVIOUS
    <2>1. 0..a \subseteq 0..b /\ b \in 0..b /\ b \notin 0..a
      OBVIOUS
    <2>2. 0..a \in SUBSET Nat /\ 0..b \in SUBSET Nat /\ 0..a # 0..b
      BY <2>1
    <2> QED
      BY <2>1, <2>2 DEF StrictSubsetOrdering
  <1> HIDE DEF R
  <1>4. PICK x \in I : \A y \in I : ~(<<y, x>> \in R)
    BY <1>1, <1>2, WFMin
  <1>5. PICK n \in T : x = 0..n
    BY <1>4
  <1>6. \A m \in T : ~(m < n)
    BY <1>3, <1>4, <1>5
  <1> QED
    BY <1>6

\* Induction, with the set of the numbers for which a statement holds.
LEMMA Induct ==
    ASSUME NEW N \in Nat, NEW S, 0 \in S, \A n \in 1..N : n - 1 \in S => n \in S
    PROVE  \A n \in 0..N : n \in S
  <1> SUFFICES ASSUME (0..N) \ S # {} PROVE FALSE
    OBVIOUS
  <1>1. (0..N) \ S \in SUBSET Nat
    OBVIOUS
  <1>2. PICK n \in (0..N) \ S : \A m \in (0..N) \ S : n <= m
    BY <1>1, Least
  <1>3. n \in 1..N /\ n - 1 \in 0..N /\ ~(n <= n - 1)
    BY <1>2
  <1>4. n - 1 \in S
    BY <1>2, <1>3
  <1> QED
    BY <1>2, <1>3, <1>4

\* What holds of the first value and is kept by each step holds of every value.
LEMMA Steps ==
    ASSUME NEW N \in Nat, NEW f, NEW A, f[0] \in A, \A n \in 1..N : f[n - 1] \in A => f[n] \in A
    PROVE  \A n \in 0..N : f[n] \in A
  <1> DEFINE S == {n \in 0..N : f[n] \in A}
  <1>1. 0 \in S /\ \A n \in 1..N : n - 1 \in S => n \in S
    OBVIOUS
  <1> HIDE DEF S
  <1>2. \A n \in 0..N : n \in S
    BY <1>1, Induct
  <1> QED
    BY <1>2 DEF S

\* The prefix sums that Total defines: a finite recursion has a solution.
LEMMA Sums ==
    ASSUME NEW s \in Seq(Int)
    PROVE  \E f \in [0..Len(s) -> Int] :
               /\ f[0] = 0 /\ \A n \in 1..Len(s) : f[n] = f[n - 1] + s[n]
               /\ Total(s) = f[Len(s)]
  <1> DEFINE N == Len(s)
             Solves(f) == f = [n \in 0..N |-> IF n = 0 THEN 0 ELSE f[n - 1] + s[n]]
             f == CHOOSE f : Solves(f)
             Upto(n, h) == h \in [0..n -> Int] /\ h[0] = 0 /\ \A k \in 1..n : h[k] = h[k - 1] + s[k]
             S == {n \in 0..N : \E h : Upto(n, h)}
  <1>1. N \in Nat
    OBVIOUS
  <1>2. \A n \in 1..N : s[n] \in Int
    OBVIOUS
  <1>3. Total(s) = f[N]
    BY DEF Total
  <1> HIDE DEF N, f
  <1>4. 0 \in S
    <2>1. Upto(0, [k \in 0..0 |-> 0])
      OBVIOUS
    <2>2. 0 \in 0..N
      BY <1>1
    <2> HIDE DEF Upto
    <2> QED
      BY <2>1, <2>2
  <1>5. ASSUME NEW n \in 1..N, n - 1 \in S PROVE n \in S
    <2>1. PICK h : Upto(n - 1, h)
      BY <1>5
    <2>2. n - 1 \in 0..n-1 /\ n \in 0..N
      BY <1>1
    <2>3. h[n - 1] + s[n] \in Int
      BY <1>2, <2>1, <2>2
    <2> DEFINE g == [k \in 0..n |-> IF k = n THEN h[n - 1] + s[n] ELSE h[k]]
    <2>4. g \in [0..n -> Int] /\ g[0] = 0
      BY <2>1, <2>3
    <2>5. ASSUME NEW k \in 1..n PROVE g[k] = g[k - 1] + s[k]
      <3>1. k - 1 \in 0..n /\ k \in 0..n /\ k - 1 # n
        OBVIOUS
      <3>2. g[k - 1] = h[k - 1] /\ g[k] = IF k = n THEN h[n - 1] + s[n] ELSE h[k]
        BY <3>1
      <3> HIDE DEF g
      <3>3. CASE k = n
        BY <3>2, <3>3
      <3>4. CASE k # n
        BY <2>1, <3>2, <3>4
      <3> QED
        BY <3>3, <3>4
    <2>6. Upto(n, g)
      BY <2>4, <2>5
    <2> QED
      BY <2>2, <2>6
  <1>6. PICK g : Upto(N, g)
    <2>1. \A n \in 1..N : n - 1 \in S => n \in S
      BY <1>5
    <2>2. N \in S
      <3> HIDE DEF S
      <3>1. N \in 0..N
        BY <1>1
      <3>2. \A n \in 0..N : n \in S
        BY ONLY <1>1, <1>4, <2>1, Induct
      <3> QED
        BY <3>1, <3>2
    <2> QED
      BY <2>2
  <1>7. ASSUME NEW n \in 0..N PROVE g[n] = IF n = 0 THEN 0 ELSE g[n - 1] + s[n]
    BY <1>1, <1>6
  <1>8. Solves(g)
    BY <1>6, <1>7
  <1>9. Solves(f)
    BY <1>8 DEF f
  <1>10. f[0] = 0 /\ \A n \in 1..N : f[n] = f[n - 1] + s[n]
    BY <1>1, <1>9
  <1>11. \A n \in 1..N : f[n - 1] \in Int => f[n] \in Int
    BY <1>2, <1>10
  <1> DEFINE A == Int
  <1>12. f[0] \in A /\ \A n \in 1..N : f[n - 1] \in A => f[n] \in A
    BY <1>10, <1>11
  <1> HIDE DEF A
  <1>13. \A n \in 0..N : f[n] \in A
    BY <1>1, <1>12, Steps
  <1>14. f \in [0..N -> Int]
    BY <1>9, <1>13 DEF A
  <1> QED
    BY <1>3, <1>10, <1>14 DEF N

LEMMA TotalEmpty == Total(<<>>) = 0
  <1>1. <<>> \in Seq(Int) /\ Len(<<>>) = 0
    OBVIOUS
  <1> QED
    BY <1>1, Sums

LEMMA TotalIsInt == ASSUME NEW s \in Seq(Int) PROVE Total(s) \in Int
  <1>1. PICK f \in [0..Len(s) -> Int] : Total(s) = f[Len(s)]
    BY Sums
  <1>2. Len(s) \in 0..Len(s)
    OBVIOUS
  <1> QED
    BY <1>1, <1>2

\* The sum of a sequence of two parts.
LEMMA TotalSplit ==
    ASSUME NEW s \in Seq(Int), NEW t \in Seq(Int), NEW u \in Seq(Int), Len(u) = Len(s) + Len(t),
           \A n \in 1..Len(s) : u[n] = s[n], \A n \in 1..Len(t) : u[Len(s) + n] = t[n]
    PROVE  Total(u) = Total(s) + Total(t)
  <1>2. PICK f \in [0..Len(s) -> Int] :
            /\ f[0] = 0 /\ \A n \in 1..Len(s) : f[n] = f[n - 1] + s[n]
            /\ Total(s) = f[Len(s)]
    BY Sums
  <1>3. PICK g \in [0..Len(t) -> Int] :
            /\ g[0] = 0 /\ \A n \in 1..Len(t) : g[n] = g[n - 1] + t[n]
            /\ Total(t) = g[Len(t)]
    BY Sums
  <1> DEFINE L == Len(s)
             M == Len(t)
  <1>4. PICK h \in [0..Len(u) -> Int] :
            /\ h[0] = 0 /\ \A n \in 1..Len(u) : h[n] = h[n - 1] + u[n]
            /\ Total(u) = h[Len(u)]
    BY Sums
  <1>5. L \in Nat /\ M \in Nat /\ Len(u) = L + M
    OBVIOUS
  <1>6. f[0] = 0 /\ \A n \in 1..L : f[n] = f[n - 1] + s[n]
    BY <1>2
  <1>7. g[0] = 0 /\ \A n \in 1..M : g[n] = g[n - 1] + t[n]
    BY <1>3
  <1>8. h[0] = 0 /\ \A n \in 1..L + M : h[n] = h[n - 1] + u[n]
    BY <1>4, <1>5
  <1>9. (\A n \in 1..L : u[n] = s[n]) /\ (\A n \in 1..M : u[L + n] = t[n])
    OBVIOUS
  <1>10. f \in [0..L -> Int] /\ g \in [0..M -> Int] /\ \A n \in 1..M : t[n] \in Int
    OBVIOUS
  <1> HIDE DEF L, M
  <1> DEFINE S == {n \in 0..L : h[n] = f[n]}
             T == {n \in 0..M : h[L + n] = f[L] + g[n]}
  <1>11. 0 \in S
    BY <1>5, <1>6, <1>8
  <1>12. ASSUME NEW n \in 1..L, n - 1 \in S PROVE n \in S
    <2>1. n \in 1..L + M /\ n \in 0..L /\ h[n - 1] = f[n - 1]
      BY <1>5, <1>12
    <2> QED
      BY <1>6, <1>8, <1>9, <2>1
  <1>13. L \in S
    <2> HIDE DEF S
    <2>1. L \in 0..L
      BY <1>5
    <2> QED
      BY <1>5, <1>11, <1>12, <2>1, Induct
  <1>14. h[L] = f[L] /\ f[L] \in Int
    BY <1>5, <1>10, <1>13
  <1>15. 0 \in T
    BY <1>5, <1>7, <1>14
  <1>16. ASSUME NEW n \in 1..M, n - 1 \in T PROVE n \in T
    <2>1. L + n \in 1..L + M /\ (L + n) - 1 = L + (n - 1) /\ n \in 0..M /\ n - 1 \in 0..M
      BY <1>5
    <2>2. h[L + n] = h[L + (n - 1)] + u[L + n]
      BY <1>8, <2>1
    <2>3. u[L + n] = t[n] /\ g[n] = g[n - 1] + t[n]
      BY <1>7, <1>9
    <2>4. h[L + (n - 1)] = f[L] + g[n - 1] /\ g[n - 1] \in Int /\ t[n] \in Int
      BY <1>10, <1>16, <2>1
    <2>5. h[L + n] = (f[L] + g[n - 1]) + t[n]
      BY <2>2, <2>3, <2>4
    <2>6. h[L + n] = f[L] + g[n]
      <3>1. \A a, b, c \in Int : (a + b) + c = a + (b + c)
        OBVIOUS
      <3>2. (f[L] + g[n - 1]) + t[n] = f[L] + (g[n - 1] + t[n])
        BY <1>14, <2>4, <3>1
      <3> QED
        BY <2>3, <2>5, <3>2, Zenon
    <2> QED
      BY <2>1, <2>6
  <1>17. M \in T
    <2> HIDE DEF T
    <2>1. M \in 0..M
      BY <1>5
    <2> QED
      BY <1>5, <1>15, <1>16, <2>1, Induct
  <1>18. h[L + M] = f[L] + g[M]
    BY <1>17
  <1> QED
    BY <1>2, <1>3, <1>4, <1>5, <1>18 DEF L, M

\* The sum of two sequences one after the other.
LEMMA TotalConcat ==
    ASSUME NEW s \in Seq(Int), NEW t \in Seq(Int)
    PROVE  s \o t \in Seq(Int) /\ Total(s \o t) = Total(s) + Total(t)
  <1>1. /\ s \o t \in Seq(Int) /\ Len(s \o t) = Len(s) + Len(t)
        /\ \A n \in 1..Len(s) : (s \o t)[n] = s[n]
        /\ \A n \in 1..Len(t) : (s \o t)[Len(s) + n] = t[n]
    OBVIOUS
  <1> QED
    BY <1>1, TotalSplit

LEMMA TotalAppend ==
    ASSUME NEW s \in Seq(Int), NEW x \in Int
    PROVE  Append(s, x) \in Seq(Int) /\ Total(Append(s, x)) = Total(s) + x
  <1>1. <<x>> \in Seq(Int) /\ Len(<<x>>) = 1 /\ <<x>>[1] = x /\ Append(s, x) = s \o <<x>>
    OBVIOUS
  <1>2. Total(<<x>>) = x
    BY <1>1, Sums
  <1> QED
    BY <1>1, <1>2, TotalConcat

\* A sum of zeros.
LEMMA TotalZeros ==
    ASSUME NEW s \in Seq(Int), \A n \in 1..Len(s) : s[n] = 0 PROVE Total(s) = 0
  <1>1. PICK f \in [0..Len(s) -> Int] :
            /\ f[0] = 0 /\ \A n \in 1..Len(s) : f[n] = f[n - 1] + s[n]
            /\ Total(s) = f[Len(s)]
    BY Sums
  <1> DEFINE Z == {0}
  <1>2. f[0] \in Z /\ \A n \in 1..Len(s) : f[n - 1] \in Z => f[n] \in Z
    BY <1>1
  <1>3. Len(s) \in Nat /\ Len(s) \in 0..Len(s)
    OBVIOUS
  <1> HIDE DEF Z
  <1>4. \A n \in 0..Len(s) : f[n] \in Z
    BY ONLY <1>2, <1>3, Steps
  <1> QED
    BY <1>1, <1>3, <1>4 DEF Z

\* A sequence with a single term that is not zero adds up to it.
LEMMA TotalOne ==
    ASSUME NEW s \in Seq(Int), NEW k \in 1..Len(s), \A n \in 1..Len(s) : n # k => s[n] = 0
    PROVE  Total(s) = s[k]
  <1>1. PICK f \in [0..Len(s) -> Int] :
            /\ f[0] = 0 /\ \A n \in 1..Len(s) : f[n] = f[n - 1] + s[n]
            /\ Total(s) = f[Len(s)]
    BY Sums
  <1> DEFINE N == Len(s)
             S == {n \in 0..N : f[n] = IF n < k THEN 0 ELSE s[k]}
  <1>2. N \in Nat /\ k \in 1..N /\ s[k] \in Int
    OBVIOUS
  <1>3. 0 \in S
    BY <1>1, <1>2
  <1>4. \A n \in 1..N : n - 1 \in S => n \in S
    <2> TAKE n \in 1..N
    <2> SUFFICES ASSUME n - 1 \in S PROVE n \in S
      OBVIOUS
    <2>1. f[n] = f[n - 1] + s[n] /\ f[n - 1] = IF n - 1 < k THEN 0 ELSE s[k]
      BY <1>1
    <2>2. CASE n < k
      BY <1>2, <2>1, <2>2
    <2>3. CASE n = k
      BY <1>2, <2>1, <2>3
    <2>4. CASE n > k
      BY <1>2, <2>1, <2>4
    <2> QED
      BY <1>2, <2>2, <2>3, <2>4
  <1> HIDE DEF S
  <1>5. \A n \in 0..N : n \in S
    BY ONLY <1>2, <1>3, <1>4, Induct
  <1>6. N \in S
    BY <1>2, <1>5
  <1> QED
    BY <1>1, <1>2, <1>6 DEF S

\* From a to b, f goes as far as g.
AsFar(f, g, a, b) == f[b] - f[a] = g[b] - g[a]

\* Two paths with the same steps cover the same way.
LEMMA SameWay ==
    ASSUME NEW a \in Int, NEW b \in Int, a <= b, NEW f, NEW g,
           \A x \in a..b : f[x] \in Int /\ g[x] \in Int,
           \A x \in (a + 1)..b : f[x] - f[x - 1] = g[x] - g[x - 1]
    PROVE  AsFar(f, g, a, b)
  <1> DEFINE N == b - a
             S == {n \in 0..N : f[a + n] - f[a] = g[a + n] - g[a]}
  <1>1. N \in Nat /\ a \in a..b /\ a + 0 = a /\ a + N = b
    OBVIOUS
  <1>2. 0 \in S
    BY <1>1
  <1>3. \A n \in 1..N : n - 1 \in S => n \in S
    <2> TAKE n \in 1..N
    <2> SUFFICES ASSUME n - 1 \in S PROVE n \in S
      OBVIOUS
    <2> DEFINE x == a + n
    <2>1. x \in (a + 1)..b /\ x \in a..b /\ x - 1 \in a..b /\ a + (n - 1) = x - 1 /\ n \in 0..N
      BY <1>1
    <2>2. f[x - 1] - f[a] = g[x - 1] - g[a] /\ f[x] - f[x - 1] = g[x] - g[x - 1]
      BY <2>1
    <2>3. /\ f[x] \in Int /\ f[x - 1] \in Int /\ g[x] \in Int /\ g[x - 1] \in Int
          /\ f[a] \in Int /\ g[a] \in Int
      BY <1>1, <2>1
    <2> HIDE DEF x
    <2>4. f[x] - f[a] = g[x] - g[a]
      BY <2>2, <2>3
    <2> QED
      BY <2>1, <2>4 DEF x
  <1> HIDE DEF S
  <1>4. \A n \in 0..N : n \in S
    BY ONLY <1>1, <1>2, <1>3, Induct
  <1>5. N \in S
    BY <1>1, <1>4
  <1> QED
    BY <1>1, <1>5 DEF S, AsFar

\* Sequences that differ in one term have sums that differ as much.
LEMMA TotalChange ==
    ASSUME NEW s \in Seq(Int), NEW t \in Seq(Int), Len(s) = Len(t), NEW k \in 1..Len(s),
           \A n \in 1..Len(s) : n # k => s[n] = t[n]
    PROVE  Total(s) - Total(t) = s[k] - t[k] /\ Total(s) \in Int /\ Total(t) \in Int
  <1>1. PICK f \in [0..Len(s) -> Int] :
            /\ f[0] = 0 /\ \A n \in 1..Len(s) : f[n] = f[n - 1] + s[n]
            /\ Total(s) = f[Len(s)]
    BY Sums
  <1>2. PICK g \in [0..Len(t) -> Int] :
            /\ g[0] = 0 /\ \A n \in 1..Len(t) : g[n] = g[n - 1] + t[n]
            /\ Total(t) = g[Len(t)]
    BY Sums
  <1>3. PICK N \in Nat : N = Len(s) /\ N = Len(t)
    OBVIOUS
  <1>4. k \in 1..N /\ \A n \in 1..N : s[n] \in Int /\ t[n] \in Int
    BY <1>3
  <1>5. \A n \in 0..N : f[n] \in Int /\ g[n] \in Int
    BY <1>3
  <1>6. \A n \in 1..N : f[n] = f[n - 1] + s[n] /\ g[n] = g[n - 1] + t[n] /\ (n # k => s[n] = t[n])
    BY <1>1, <1>2, <1>3
  <1>7. f[0] = 0 /\ g[0] = 0 /\ Total(s) = f[N] /\ Total(t) = g[N]
    BY <1>1, <1>2, <1>3
  <1>8. ASSUME NEW n \in 1..N, n # k PROVE f[n] - f[n - 1] = g[n] - g[n - 1]
    <2>1. /\ n \in 0..N /\ n - 1 \in 0..N /\ s[n] = t[n] /\ s[n] \in Int
          /\ f[n] = f[n - 1] + s[n] /\ g[n] = g[n - 1] + t[n]
      BY ONLY <1>3, <1>4, <1>6, <1>8
    <2>2. f[n - 1] \in Int /\ g[n - 1] \in Int
      BY ONLY <1>5, <2>1
    <2> QED
      BY ONLY <2>1, <2>2
  <1>9. PICK m \in Nat : m = k - 1 /\ f[m] = g[m] /\ f[m] \in Int
    <2>1. PICK m \in Nat : m = k - 1
      BY <1>4
    <2>2. 0 \in Int /\ m \in Int /\ 0 <= m
      OBVIOUS
    <2>3. \A x \in 0..m : f[x] \in Int /\ g[x] \in Int
      BY ONLY <1>3, <1>4, <1>5, <2>1
    <2>4. \A x \in (0 + 1)..m : f[x] - f[x - 1] = g[x] - g[x - 1]
      BY ONLY <1>3, <1>4, <1>8, <2>1
    <2>5. AsFar(f, g, 0, m)
      BY ONLY <2>2, <2>3, <2>4, SameWay
    <2>6. f[m] \in Int /\ g[m] \in Int
      BY <2>3
    <2>7. f[m] = g[m]
      BY ONLY <1>7, <2>5, <2>6 DEF AsFar
    <2> QED
      BY <2>1, <2>6, <2>7
  <1>10. AsFar(f, g, k, N)
    <2>1. k \in Int /\ N \in Int /\ k <= N
      BY ONLY <1>3, <1>4
    <2>2. \A x \in k..N : f[x] \in Int /\ g[x] \in Int
      BY ONLY <1>3, <1>4, <1>5
    <2>3. \A x \in (k + 1)..N : f[x] - f[x - 1] = g[x] - g[x - 1]
      BY ONLY <1>3, <1>4, <1>8
    <2> QED
      BY ONLY <2>1, <2>2, <2>3, SameWay
  <1>11. /\ f[k] = f[k - 1] + s[k] /\ g[k] = g[k - 1] + t[k] /\ s[k] \in Int /\ t[k] \in Int
         /\ k - 1 \in 0..N /\ k \in 0..N /\ N \in 0..N
    BY ONLY <1>3, <1>4, <1>6
  <1>12. f[k] \in Int /\ g[k] \in Int /\ f[N] \in Int /\ g[N] \in Int
    BY ONLY <1>5, <1>11
  <1>13. f[k] - g[k] = s[k] - t[k]
    <2>1. f[k] = f[m] + s[k] /\ g[k] = f[m] + t[k]
      BY ONLY <1>9, <1>11
    <2> QED
      BY ONLY <1>9, <1>11, <2>1
  <1>14. f[N] - g[N] = s[k] - t[k]
    <2> DEFINE a == f[N]
               b == g[N]
               c == f[k]
               d == g[k]
               e == s[k] - t[k]
    <2>1. a \in Int /\ b \in Int /\ c \in Int /\ d \in Int /\ e \in Int /\ a - c = b - d /\ c - d = e
      BY ONLY <1>10, <1>11, <1>12, <1>13 DEF AsFar
    <2> HIDE DEF a, b, c, d, e
    <2>2. a - b = e
      BY ONLY <2>1
    <2> QED
      BY <2>2 DEF a, b, e
  <1> QED
    BY ONLY <1>7, <1>12, <1>14

-----------------------------------------------------------------------------
(* Money and whole parts *)

\* A number is the same or larger after it is taken a whole number of times.
LEMMA Multiples ==
    ASSUME NEW k \in Nat \ {0}, NEW b \in Nat PROVE k * b \in Nat /\ b <= k * b
  <1>1. PICK j \in Nat : k = j + 1
    <2>1. k - 1 \in Nat /\ k = (k - 1) + 1
      OBVIOUS
    <2> QED
      BY <2>1
  <1>2. j * b \in Nat
    BY <1>1
  <1>3. k * b = j * b + b
    BY <1>1
  <1> QED
    BY <1>2, <1>3

\* Division with a remainder, for any step.
LEMMA Division ==
    ASSUME NEW a \in Nat, NEW s \in Nat, s > 0
    PROVE  a \div s \in Nat /\ s * (a \div s) <= a /\ a < s * (a \div s) + s
  <1>1. a = (s * (a \div s)) + (a % s) /\ a % s \in 0..s-1 /\ a \div s \in Int
    OBVIOUS
  <1>2. s * (a \div s) \in Int
    BY <1>1
  <1>3. s * (a \div s) <= a /\ a < s * (a \div s) + s
    BY <1>1, <1>2
  <1>4. a \div s >= 0
    OBVIOUS
  <1> QED
    BY <1>1, <1>3, <1>4

\* The more, the larger a multiple.
LEMMA MoreOften ==
    ASSUME NEW s \in Nat, NEW a \in Nat, NEW b \in Nat, a < b PROVE s * a + s <= s * b /\ s * a \in Nat
  <1>1. PICK e \in Nat : b = a + 1 + e
    <2>1. b - a - 1 \in Nat /\ b = a + 1 + (b - a - 1)
      OBVIOUS
    <2> QED
      BY <2>1
  <1>2. s * a \in Nat /\ s * e \in Nat
    BY <1>1
  <1>3. s * b = s * a + s + s * e
    BY <1>1
  <1> QED
    BY <1>2, <1>3

\* Rounding down a percentage.
LEMMA Percents ==
    ASSUME NEW a \in Nat, NEW rate \in Nat
    PROVE  /\ (a * rate) \div 100 \in Nat
           /\ 100 * ((a * rate) \div 100) <= a * rate
           /\ a * rate < 100 * ((a * rate) \div 100) + 100
  <1>1. a * rate \in Nat
    OBVIOUS
  <1> QED
    BY <1>1

\* A fee grows by no more than the amount it is taken of.
LEMMA FeeGrows ==
    ASSUME NEW a \in Nat, NEW b \in Nat, b <= a, NEW rate \in 0..100
    PROVE  (a * rate) \div 100 <= (b * rate) \div 100 + (a - b)
  <1>1. a - b \in Nat /\ a * rate \in Nat /\ b * rate \in Nat
    OBVIOUS
  <1>2. a * rate = b * rate + (a - b) * rate
    BY <1>1
  <1>3. (a - b) * rate <= (a - b) * 100
    <2>1. 100 - rate \in Nat
      OBVIOUS
    <2>2. (a - b) * (100 - rate) \in Nat
      BY <1>1, <2>1
    <2>3. (a - b) * 100 = (a - b) * rate + (a - b) * (100 - rate)
      BY <1>1, <2>1
    <2>4. (a - b) * rate \in Int
      BY <1>1
    <2> QED
      BY <2>2, <2>3, <2>4
  <1> DEFINE x == a * rate
             y == b * rate
             z == (a - b) * rate
  <1>4. x \in Nat /\ y \in Nat /\ z \in Int /\ x = y + z /\ z <= (a - b) * 100
    BY <1>1, <1>2, <1>3
  <1> HIDE DEF x, y, z
  <1>5. x \div 100 <= y \div 100 + (a - b)
    BY <1>1, <1>4
  <1> QED
    BY <1>5 DEF x, y

-----------------------------------------------------------------------------
(* Sequences whose members differ *)

Members(s) == {s[i] : i \in DOMAIN s}
Distinct(s) == \A i, j \in DOMAIN s : s[i] = s[j] => i = j

\* A sequence is one of a set that its members are in.
LEMMA SeqIn ==
    ASSUME NEW T, NEW U, NEW s \in Seq(T), \A i \in 1..Len(s) : s[i] \in U PROVE s \in Seq(U)
  OBVIOUS

\* What is left of a work list once its first item is done.
LEMMA WorkLeft ==
    ASSUME NEW T, NEW s \in Seq(T), s # <<>>, Distinct(s)
    PROVE  /\ Head(s) \in Members(s) /\ Head(s) \in T /\ Members(Tail(s)) = Members(s) \ {Head(s)}
           /\ Tail(s) \in Seq(T) /\ Distinct(Tail(s))
  <1> DEFINE q == Tail(s)
             n == Len(s)
  <1>1. n \in Nat \ {0} /\ DOMAIN s = 1..n /\ Head(s) = s[1]
    OBVIOUS
  <1>2. q \in Seq(T) /\ DOMAIN q = 1..n-1 /\ \A i \in 1..n-1 : q[i] = s[i + 1]
    OBVIOUS
  <1> HIDE DEF q, n
  <1>3. 1 \in 1..n /\ s[1] \in T
    BY <1>1 DEF n
  <1>4. Members(s) = {s[i] : i \in 1..n} /\ Members(q) = {q[i] : i \in 1..n-1}
    BY <1>1, <1>2 DEF Members
  <1>5. ASSUME NEW i \in 2..n PROVE s[i] # s[1]
    <2>1. i \in 1..n /\ i # 1
      BY <1>1
    <2> QED
      BY <1>1, <1>3, <2>1 DEF Distinct
  <1>6. ASSUME NEW x \in Members(q) PROVE x \in Members(s) \ {s[1]}
    <2>1. PICK i \in 1..n-1 : x = q[i]
      BY <1>4
    <2>2. i + 1 \in 2..n /\ i + 1 \in 1..n /\ x = s[i + 1]
      BY <1>1, <1>2, <2>1
    <2> QED
      BY <1>4, <1>5, <2>2
  <1>7. ASSUME NEW x \in Members(s) \ {s[1]} PROVE x \in Members(q)
    <2>1. PICK i \in 1..n : x = s[i]
      BY <1>4
    <2>2. i # 1
      BY <1>7, <2>1
    <2>3. i - 1 \in 1..n-1 /\ (i - 1) + 1 = i
      BY <1>1, <2>2
    <2>4. q[i - 1] = x
      BY <1>2, <2>1, <2>3
    <2> QED
      BY <1>4, <2>3, <2>4
  <1>8. Distinct(q)
    <2> SUFFICES ASSUME NEW i \in 1..n-1, NEW j \in 1..n-1, q[i] = q[j] PROVE i = j
      BY <1>2 DEF Distinct
    <2>1. i + 1 \in 1..n /\ j + 1 \in 1..n /\ s[i + 1] = s[j + 1]
      BY <1>1, <1>2
    <2>2. i + 1 = j + 1
      BY <1>1, <2>1 DEF Distinct
    <2> QED
      BY <1>1, <2>2
  <1>9. Members(q) = Members(s) \ {s[1]}
    BY <1>6, <1>7
  <1> QED
    BY <1>1, <1>2, <1>3, <1>4, <1>8, <1>9 DEF q

\* The first rows of a list.
LEMMA FirstRows ==
    ASSUME NEW T, NEW s \in Seq(T), NEW m \in 0..Len(s)
    PROVE  /\ SubSeq(s, 1, m) \in Seq(T) /\ Members(SubSeq(s, 1, m)) \subseteq Members(s)
           /\ Distinct(s) => Distinct(SubSeq(s, 1, m))
           /\ m = Len(s) => SubSeq(s, 1, m) = s
  <1> DEFINE q == SubSeq(s, 1, m)
  <1>1. q \in Seq(T) /\ DOMAIN q = 1..m /\ (\A i \in 1..m : q[i] = s[i]) /\ 1..m \subseteq DOMAIN s
    OBVIOUS
  <1>2. m = Len(s) => q = s
    OBVIOUS
  <1> HIDE DEF q
  <1>3. Members(q) \subseteq Members(s) /\ (Distinct(s) => Distinct(q))
    BY <1>1 DEF Members, Distinct
  <1> QED
    BY <1>1, <1>2, <1>3 DEF q

\* One list after another that has none of its members.
LEMMA OneAfterOther ==
    ASSUME NEW T, NEW s \in Seq(T), NEW t \in Seq(T)
    PROVE  /\ s \o t \in Seq(T) /\ Members(s \o t) = Members(s) \cup Members(t)
           /\ Distinct(s) /\ Distinct(t) /\ Members(s) \cap Members(t) = {} => Distinct(s \o t)
  <1> DEFINE q == s \o t
             n == Len(s)
             m == Len(t)
  <1>1. /\ q \in Seq(T) /\ n \in Nat /\ m \in Nat /\ DOMAIN q = 1..n+m /\ DOMAIN s = 1..n /\ DOMAIN t = 1..m
        /\ (\A i \in 1..n : q[i] = s[i]) /\ \A i \in 1..m : q[n + i] = t[i]
    OBVIOUS
  <1> HIDE DEF q, n, m
  <1>2. ASSUME NEW i \in 1..n+m, i \notin 1..n PROVE i - n \in 1..m /\ q[i] = t[i - n]
    <2>1. i - n \in 1..m /\ n + (i - n) = i
      BY <1>1, <1>2
    <2> QED
      BY <1>1, <2>1
  <1>3. (\A i \in 1..n : i \in 1..n+m) /\ \A i \in 1..m : n + i \in 1..n+m
    BY <1>1
  <1>4. Members(q) = Members(s) \cup Members(t)
    <2>1. \A x \in Members(q) : x \in Members(s) \cup Members(t)
      BY <1>1, <1>2 DEF Members
    <2>2. \A x \in Members(s) \cup Members(t) : x \in Members(q)
      BY <1>1, <1>3 DEF Members
    <2> QED
      BY <2>1, <2>2
  <1>5. ASSUME Distinct(s), Distinct(t), Members(s) \cap Members(t) = {} PROVE Distinct(q)
    <2> SUFFICES ASSUME NEW i \in 1..n+m, NEW j \in 1..n+m, q[i] = q[j] PROVE i = j
      BY <1>1 DEF Distinct
    <2>1. CASE i \in 1..n /\ j \in 1..n
      BY <1>1, <1>5, <2>1 DEF Distinct
    <2>2. CASE i \notin 1..n /\ j \notin 1..n
      <3>1. i - n \in DOMAIN t /\ j - n \in DOMAIN t /\ t[i - n] = t[j - n]
        BY <1>1, <1>2, <2>2
      <3>2. i - n = j - n
        BY <1>5, <3>1 DEF Distinct
      <3> QED
        BY <1>1, <3>2
    <2>3. CASE i \in 1..n /\ j \notin 1..n
      BY <1>1, <1>2, <1>5, <2>3 DEF Members
    <2>4. CASE i \notin 1..n /\ j \in 1..n
      BY <1>1, <1>2, <1>5, <2>4 DEF Members
    <2> QED
      BY <2>1, <2>2, <2>3, <2>4
  <1> QED
    BY <1>1, <1>4, <1>5 DEF q

\* A non-empty set of numbers with a bound has a greatest.
LEMMA HasLargest ==
    ASSUME NEW N \in Nat, NEW S \in SUBSET (0..N), S # {}
    PROVE  \E n \in S : \A m \in S : n >= m
  <1> DEFINE T == {N - n : n \in S}
  <1>1. T \in SUBSET Nat /\ T # {}
    <2>1. \A n \in S : n \in 0..N /\ N - n \in Nat
      OBVIOUS
    <2> QED
      BY <2>1
  <1>2. PICK k \in T : \A m \in T : k <= m
    <2> HIDE DEF T
    <2> QED
      BY <1>1, Least
  <1>3. PICK n \in S : k = N - n
    BY <1>2
  <1>4. ASSUME NEW m \in S PROVE n >= m
    <2>1. N - m \in T
      OBVIOUS
    <2>2. N - n <= N - m
      BY <1>2, <1>3, <2>1
    <2> QED
      BY <2>2
  <1> QED
    BY <1>4

\* The rows picked out of each prefix of s.
PicksOf(f, T, s, S) ==
    /\ f \in [0..Len(s) -> Seq(T)] /\ f[0] = <<>>
    /\ \A n \in 1..Len(s) : f[n] = IF s[n] \in S THEN Append(f[n - 1], s[n]) ELSE f[n - 1]

\* The prefixes that Those defines: a finite recursion has a solution.
LEMMA RowsOfPrefixes ==
    ASSUME NEW T, NEW s \in Seq(T), NEW S
    PROVE  \E f : PicksOf(f, T, s, S) /\ Those(s, S) = f[Len(s)]
  <1> DEFINE N == Len(s)
             Solves(f) == f = [n \in 0..N |-> IF n = 0 THEN <<>>
                                              ELSE IF s[n] \in S THEN Append(f[n - 1], s[n]) ELSE f[n - 1]]
             f == CHOOSE f : Solves(f)
             Step(h, k) == IF s[k] \in S THEN Append(h[k - 1], s[k]) ELSE h[k - 1]
             Upto(n, h) == h \in [0..n -> Seq(T)] /\ h[0] = <<>> /\ \A k \in 1..n : h[k] = Step(h, k)
             W == {n \in 0..N : \E h : Upto(n, h)}
  <1>1. N \in Nat
    OBVIOUS
  <1>2. \A n \in 1..N : s[n] \in T
    OBVIOUS
  <1>3. Those(s, S) = f[N]
    BY DEF Those
  <1> HIDE DEF N, f
  <1>4. 0 \in W
    <2>1. Upto(0, [k \in 0..0 |-> <<>>])
      OBVIOUS
    <2>2. 0 \in 0..N
      BY <1>1
    <2> HIDE DEF Upto
    <2> QED
      BY <2>1, <2>2
  <1>5. ASSUME NEW n \in 1..N, n - 1 \in W PROVE n \in W
    <2>1. PICK h : Upto(n - 1, h)
      BY <1>5
    <2>2. n - 1 \in 0..n-1 /\ n \in 0..N
      BY <1>1
    <2>3. Step(h, n) \in Seq(T)
      <3>1. h[n - 1] \in Seq(T)
        BY <2>1, <2>2
      <3>2. Append(h[n - 1], s[n]) \in Seq(T)
        BY <1>2, <3>1
      <3> QED
        BY <3>1, <3>2
    <2> DEFINE g == [k \in 0..n |-> IF k = n THEN Step(h, n) ELSE h[k]]
    <2>4. g \in [0..n -> Seq(T)] /\ g[0] = <<>>
      <3> HIDE DEF Step
      <3> QED
        BY <2>1, <2>3
    <2>5. ASSUME NEW k \in 1..n PROVE g[k] = Step(g, k)
      <3>1. k - 1 \in 0..n /\ k \in 0..n /\ k - 1 # n /\ k - 1 \in 0..n-1
        OBVIOUS
      <3>2. g[k - 1] = h[k - 1] /\ g[k] = IF k = n THEN Step(h, n) ELSE h[k]
        BY <3>1
      <3> HIDE DEF g
      <3>3. CASE k = n
        BY <3>2, <3>3
      <3>4. CASE k # n
        <4>1. k \in 1..n-1
          BY <3>4
        <4>2. h[k] = Step(h, k)
          BY <2>1, <4>1
        <4> QED
          BY <3>2, <3>4, <4>2
      <3> QED
        BY <3>3, <3>4
    <2>6. Upto(n, g)
      <3> HIDE DEF g, Step
      <3> QED
        BY <2>4, <2>5
    <2> HIDE DEF Upto
    <2> QED
      BY <2>2, <2>6
  <1>6. PICK g : Upto(N, g)
    <2>1. \A n \in 1..N : n - 1 \in W => n \in W
      BY <1>5
    <2>2. N \in W
      <3> HIDE DEF W
      <3>1. N \in 0..N
        BY <1>1
      <3>2. \A n \in 0..N : n \in W
        BY ONLY <1>1, <1>4, <2>1, Induct
      <3> QED
        BY <3>1, <3>2
    <2> HIDE DEF Upto
    <2> QED
      BY <2>2
  <1>7. Solves(g)
    <2>1. ASSUME NEW n \in 0..N PROVE g[n] = IF n = 0 THEN <<>> ELSE Step(g, n)
      <3>1. n # 0 => n \in 1..N
        BY <1>1
      <3> HIDE DEF Step
      <3> QED
        BY <1>6, <3>1
    <2>2. g \in [0..N -> Seq(T)]
      BY <1>6
    <2> QED
      BY <2>1, <2>2
  <1>8. Solves(f)
    <2> HIDE DEF Solves
    <2> QED
      BY <1>7 DEF f
  <1>9. f[0] = <<>> /\ \A n \in 1..N : f[n] = Step(f, n)
    <2>1. \A n \in 0..N : f[n] = IF n = 0 THEN <<>> ELSE Step(f, n)
      BY <1>8
    <2>2. 0 \in 0..N /\ \A n \in 1..N : n \in 0..N /\ n # 0
      BY <1>1
    <2> HIDE DEF Solves, Step
    <2> QED
      BY <2>1, <2>2
  <1>10. \A n \in 0..N : f[n] \in Seq(T)
    <2>1. f[0] = <<>> /\ \A n \in 1..N : f[n] = Step(f, n)
      BY <1>9
    <2>2. f[0] \in Seq(T)
      BY <2>1
    <2>3. ASSUME NEW n \in 1..N, f[n - 1] \in Seq(T) PROVE f[n] \in Seq(T)
      <3>1. Append(f[n - 1], s[n]) \in Seq(T)
        BY <1>2, <2>3
      <3> QED
        BY <2>1, <2>3, <3>1
    <2> HIDE DEF Step
    <2> QED
      BY ONLY <1>1, <2>2, <2>3, Steps
  <1>11. f \in [0..N -> Seq(T)] /\ f[0] = <<>> /\ \A n \in 1..N : f[n] = Step(f, n)
    <2>1. f[0] = <<>> /\ \A n \in 1..N : f[n] = Step(f, n)
      BY <1>9
    <2>2. f = [n \in 0..N |-> f[n]]
      BY <1>8
    <2> HIDE DEF Solves, Step
    <2> QED
      BY <1>10, <2>1, <2>2
  <1>12. PicksOf(f, T, s, S)
    BY <1>11 DEF N, PicksOf
  <1> QED
    BY <1>3, <1>12 DEF N

\* What Those keeps: no more rows than there were, those of the set, each as often as before.
LEMMA ThoseFacts ==
    ASSUME NEW T, NEW s \in Seq(T), NEW S
    PROVE  /\ Those(s, S) \in Seq(T) /\ Len(Those(s, S)) <= Len(s)
           /\ \A k \in DOMAIN Those(s, S) : Those(s, S)[k] \in S /\ \E n \in DOMAIN s : s[n] = Those(s, S)[k]
           /\ \A n \in DOMAIN s : s[n] \in S => \E k \in DOMAIN Those(s, S) : Those(s, S)[k] = s[n]
           /\ Distinct(s) => Distinct(Those(s, S))
  <1>1. PICK f : PicksOf(f, T, s, S) /\ Those(s, S) = f[Len(s)]
    BY RowsOfPrefixes
  <1> DEFINE N == Len(s)
             Good(n) == /\ Len(f[n]) <= n
                        /\ \A k \in DOMAIN f[n] : f[n][k] \in S /\ \E m \in 1..n : s[m] = f[n][k]
                        /\ \A m \in 1..n : s[m] \in S => \E k \in DOMAIN f[n] : f[n][k] = s[m]
                        /\ Distinct(s) => Distinct(f[n])
             W == {n \in 0..N : Good(n)}
  <1>2. N \in Nat /\ DOMAIN s = 1..N
    OBVIOUS
  <1>7. /\ f \in [0..N -> Seq(T)] /\ f[0] = <<>>
        /\ \A n \in 1..N : f[n] = IF s[n] \in S THEN Append(f[n - 1], s[n]) ELSE f[n - 1]
    BY <1>1 DEF PicksOf
  <1>3. 0 \in W
    <2>1. Distinct(<<>>)
      BY DEF Distinct
    <2> HIDE DEF N
    <2> QED
      BY <1>2, <1>7, <2>1
  <1>4. ASSUME NEW n \in 1..N, n - 1 \in W PROVE n \in W
    <2>1. Good(n - 1) /\ n \in 0..N /\ n - 1 \in 0..N /\ f[n - 1] \in Seq(T) /\ s[n] \in T
      BY <1>2, <1>4, <1>7
    <2>2. CASE s[n] \notin S
      <3>1. f[n] = f[n - 1]
        BY <1>7, <2>2
      <3>2. \A m \in 1..n : s[m] \in S => m \in 1..n-1
        BY <2>2
      <3>3. n - 1 < n /\ \A m \in 1..n-1 : m \in 1..n
        OBVIOUS
      <3>4. /\ Len(f[n - 1]) <= n - 1
            /\ \A k \in DOMAIN f[n - 1] : f[n - 1][k] \in S /\ \E m \in 1..n-1 : s[m] = f[n - 1][k]
            /\ \A m \in 1..n-1 : s[m] \in S => \E k \in DOMAIN f[n - 1] : f[n - 1][k] = s[m]
            /\ Distinct(s) => Distinct(f[n - 1])
        BY <2>1
      <3> HIDE DEF Distinct
      <3>5. Len(f[n]) <= n
        BY <2>1, <3>1, <3>4
      <3>6. \A k \in DOMAIN f[n] : f[n][k] \in S /\ \E m \in 1..n : s[m] = f[n][k]
        BY <3>1, <3>3, <3>4
      <3>7. \A m \in 1..n : s[m] \in S => \E k \in DOMAIN f[n] : f[n][k] = s[m]
        BY <3>1, <3>2, <3>4
      <3>8. Distinct(s) => Distinct(f[n])
        BY <3>1, <3>4
      <3> QED
        BY <2>1, <3>5, <3>6, <3>7, <3>8
    <2>3. CASE s[n] \in S
      <3> DEFINE p == f[n - 1]
                 q == f[n]
      <3>1. q = Append(p, s[n]) /\ p \in Seq(T)
        BY <1>7, <2>1, <2>3
      <3> HIDE DEF p, q
      <3>2. Len(q) = Len(p) + 1 /\ q[Len(p) + 1] = s[n] /\ (\A k \in 1..Len(p) : q[k] = p[k]) /\ DOMAIN q = 1..Len(p)+1
        BY <2>1, <3>1
      <3>3. DOMAIN p = 1..Len(p) /\ Len(p) \in Nat
        BY <3>1
      <3>4. Len(p) <= n - 1 /\ (\A k \in DOMAIN p : p[k] \in S /\ \E m \in 1..n-1 : s[m] = p[k])
        BY <2>1 DEF p
      <3>5. (\A m \in 1..n-1 : s[m] \in S => \E k \in DOMAIN p : p[k] = s[m]) /\ (Distinct(s) => Distinct(p))
        BY <2>1 DEF p
      <3>6. Len(q) <= n
        BY <3>2, <3>3, <3>4
      <3>7. \A k \in DOMAIN q : q[k] \in S /\ \E m \in 1..n : s[m] = q[k]
        BY <2>3, <3>2, <3>3, <3>4
      <3>8. \A m \in 1..n : s[m] \in S => \E k \in DOMAIN q : q[k] = s[m]
        <4> SUFFICES ASSUME NEW m \in 1..n, s[m] \in S PROVE \E k \in DOMAIN q : q[k] = s[m]
          OBVIOUS
        <4>1. CASE m = n
          <5>1. Len(p) + 1 \in DOMAIN q
            BY <3>2, <3>3
          <5> QED
            BY <3>2, <4>1, <5>1
        <4>2. CASE m # n
          <5>1. m \in 1..n-1
            BY <4>2
          <5>2. PICK k \in DOMAIN p : p[k] = s[m]
            BY <3>5, <5>1
          <5>3. k \in DOMAIN q /\ q[k] = s[m]
            BY <3>2, <3>3, <5>2
          <5> QED
            BY <5>3
        <4> QED
          BY <4>1, <4>2
      <3>9. ASSUME Distinct(s) PROVE Distinct(q)
        <4>1. \A k \in 1..Len(p) : p[k] # s[n]
          <5> SUFFICES ASSUME NEW k \in 1..Len(p), p[k] = s[n] PROVE FALSE
            OBVIOUS
          <5>1. PICK m \in 1..n-1 : s[m] = p[k]
            BY <3>3, <3>4
          <5>2. m \in DOMAIN s /\ n \in DOMAIN s /\ m # n
            BY <1>2
          <5> QED
            BY <3>9, <5>1, <5>2 DEF Distinct
        <4>2. Distinct(p)
          BY <3>5, <3>9
        <4> SUFFICES ASSUME NEW i \in DOMAIN q, NEW j \in DOMAIN q, q[i] = q[j] PROVE i = j
          BY DEF Distinct
        <4>3. CASE i \in 1..Len(p) /\ j \in 1..Len(p)
          BY <3>2, <3>3, <4>2, <4>3 DEF Distinct
        <4>4. CASE i = Len(p) + 1 \/ j = Len(p) + 1
          BY <3>2, <3>3, <4>1, <4>4
        <4> QED
          BY <3>2, <3>3, <4>3, <4>4
      <3> QED
        BY <2>1, <3>6, <3>7, <3>8, <3>9 DEF q
    <2> QED
      BY <2>2, <2>3
  <1>5. N \in W
    <2>1. \A n \in 1..N : n - 1 \in W => n \in W
      BY <1>4
    <2> HIDE DEF W
    <2>2. \A n \in 0..N : n \in W
      BY ONLY <1>2, <1>3, <2>1, Induct
    <2> QED
      BY <1>2, <2>2
  <1>6. N \in 0..N /\ f[N] \in Seq(T)
    BY <1>2, <1>7
  <1> DEFINE q == Those(s, S)
  <1>8. q = f[N]
    BY <1>1
  <1>9. /\ Len(q) <= N /\ \A k \in DOMAIN q : q[k] \in S /\ \E m \in 1..N : s[m] = q[k]
        /\ \A m \in 1..N : s[m] \in S => \E k \in DOMAIN q : q[k] = s[m]
        /\ Distinct(s) => Distinct(q)
    <2> HIDE DEF q, N, Distinct
    <2> QED
      BY <1>5, <1>8
  <1>10. q \in Seq(T)
    BY <1>6, <1>8
  <1> HIDE DEF q
  <1>11. Len(q) <= Len(s) /\ DOMAIN s = 1..N /\ 1..N = DOMAIN s
    BY <1>2, <1>9
  <1> HIDE DEF N, Distinct
  <1> QED
    BY <1>9, <1>10, <1>11 DEF q, Distinct

\* f goes from a through the steps G[1] to G[N].
Goes(f, N, A, a, G) == f \in [0..N -> A] /\ f[0] = a /\ \A n \in 1..N : f[n] = G[n][f[n - 1]]

\* A recursion over the indices of a sequence of steps has a solution.
LEMMA Recursion ==
    ASSUME NEW N \in Nat, NEW A, NEW a \in A, NEW G \in [1..N -> [A -> A]]
    PROVE  \E f : Goes(f, N, A, a, G)
  <1> DEFINE Upto(n, h) == h \in [0..n -> A] /\ h[0] = a /\ \A k \in 1..n : h[k] = G[k][h[k - 1]]
             W == {n \in 0..N : \E h : Upto(n, h)}
  <1>1. 0 \in W
    <2>1. Upto(0, [k \in 0..0 |-> a])
      OBVIOUS
    <2> HIDE DEF Upto
    <2> QED
      BY <2>1
  <1>2. ASSUME NEW n \in 1..N, n - 1 \in W PROVE n \in W
    <2>1. PICK h : Upto(n - 1, h)
      BY <1>2
    <2>2. n - 1 \in 0..n-1 /\ n \in 0..N /\ n \in Nat
      OBVIOUS
    <2>3. G[n][h[n - 1]] \in A
      BY <2>1, <2>2
    <2> DEFINE g == [k \in 0..n |-> IF k = n THEN G[n][h[n - 1]] ELSE h[k]]
    <2>4. g \in [0..n -> A] /\ g[0] = a
      BY <2>1, <2>2, <2>3
    <2>5. ASSUME NEW k \in 1..n PROVE g[k] = G[k][g[k - 1]]
      <3>1. k - 1 \in 0..n /\ k \in 0..n /\ k - 1 # n /\ (k # n => k \in 1..n-1)
        OBVIOUS
      <3>2. g[k - 1] = h[k - 1] /\ g[k] = IF k = n THEN G[n][h[n - 1]] ELSE h[k]
        BY <3>1
      <3> HIDE DEF g
      <3> QED
        BY <2>1, <3>1, <3>2
    <2>6. Upto(n, g)
      <3> HIDE DEF g
      <3> QED
        BY <2>4, <2>5
    <2> HIDE DEF Upto
    <2> QED
      BY <2>2, <2>6
  <1>3. N \in W
    <2> HIDE DEF W
    <2>1. \A n \in 1..N : n - 1 \in W => n \in W
      BY <1>2
    <2>2. \A n \in 0..N : n \in W
      BY ONLY <1>1, <2>1, Induct
    <2> QED
      BY <2>2
  <1> QED
    BY <1>3 DEF Goes

\* The sequences that Joined makes of each prefix.
LEMMA JoinedPrefixes ==
    ASSUME NEW T, NEW s \in Seq(Seq(T))
    PROVE  \E f \in [0..Len(s) -> Seq(T)] :
               f[0] = <<>> /\ (\A n \in 1..Len(s) : f[n] = f[n - 1] \o s[n]) /\ Joined(s) = f[Len(s)]
  <1> DEFINE N == Len(s)
             Solves(f) == f = [n \in 0..N |-> IF n = 0 THEN <<>> ELSE f[n - 1] \o s[n]]
             f == CHOOSE f : Solves(f)
             G == [n \in 1..N |-> [q \in Seq(T) |-> q \o s[n]]]
  <1>1. N \in Nat /\ \A n \in 1..N : s[n] \in Seq(T)
    OBVIOUS
  <1>2. Joined(s) = f[N]
    BY DEF Joined
  <1> HIDE DEF N, f
  <1>3. G \in [1..N -> [Seq(T) -> Seq(T)]] /\ <<>> \in Seq(T)
    BY <1>1
  <1>4. PICK g \in [0..N -> Seq(T)] : g[0] = <<>> /\ \A n \in 1..N : g[n] = G[n][g[n - 1]]
    <2> DEFINE A == Seq(T)
               a == <<>>
    <2>1. G \in [1..N -> [A -> A]] /\ a \in A /\ N \in Nat
      BY <1>1, <1>3
    <2> HIDE DEF G, A, a
    <2>2. \E g : Goes(g, N, A, a, G)
      BY ONLY <2>1, Recursion
    <2> QED
      BY <2>2 DEF A, a, Goes
  <1>5. ASSUME NEW n \in 1..N PROVE g[n] = g[n - 1] \o s[n]
    <2>1. n - 1 \in 0..N /\ g[n - 1] \in Seq(T)
      BY <1>1
    <2> QED
      BY <1>4, <2>1
  <1> HIDE DEF G
  <1>6. Solves(g)
    <2>1. ASSUME NEW n \in 0..N PROVE g[n] = IF n = 0 THEN <<>> ELSE g[n - 1] \o s[n]
      <3>1. n # 0 => n \in 1..N
        BY <1>1
      <3> QED
        BY <1>4, <1>5, <3>1
    <2> QED
      BY <2>1
  <1>7. Solves(f)
    <2> HIDE DEF Solves
    <2> QED
      BY <1>6 DEF f
  <1>8. f[0] = <<>> /\ \A n \in 1..N : f[n] = f[n - 1] \o s[n]
    <2>1. 0 \in 0..N /\ \A n \in 1..N : n \in 0..N /\ n # 0
      BY <1>1
    <2>2. \A n \in 0..N : f[n] = IF n = 0 THEN <<>> ELSE f[n - 1] \o s[n]
      BY <1>7
    <2> HIDE DEF Solves
    <2> QED
      BY <2>1, <2>2
  <1>9. \A n \in 0..N : f[n] \in Seq(T)
    <2>1. f[0] \in Seq(T)
      BY <1>8
    <2>2. ASSUME NEW n \in 1..N, f[n - 1] \in Seq(T) PROVE f[n] \in Seq(T)
      <3>1. f[n] = f[n - 1] \o s[n] /\ s[n] \in Seq(T)
        BY <1>1, <1>8
      <3> HIDE DEF Solves
      <3> QED
        BY <2>2, <3>1
    <2> HIDE DEF Solves
    <2> QED
      BY ONLY <1>1, <2>1, <2>2, Steps
  <1>10. f \in [0..N -> Seq(T)]
    <2>1. f = [n \in 0..N |-> f[n]]
      BY <1>7
    <2> HIDE DEF Solves
    <2> QED
      BY <1>9, <2>1
  <1> QED
    BY <1>2, <1>8, <1>10 DEF N

\* What is joined has the rows of every sequence, and no others.
LEMMA JoinedFacts ==
    ASSUME NEW T, NEW s \in Seq(Seq(T))
    PROVE  /\ Joined(s) \in Seq(T)
           /\ \A n \in DOMAIN s : \A k \in DOMAIN s[n] : \E j \in DOMAIN Joined(s) : Joined(s)[j] = s[n][k]
           /\ \A j \in DOMAIN Joined(s) : \E n \in DOMAIN s : \E k \in DOMAIN s[n] : Joined(s)[j] = s[n][k]
  <1> DEFINE N == Len(s)
  <1>1. PICK f \in [0..N -> Seq(T)] :
            f[0] = <<>> /\ (\A n \in 1..N : f[n] = f[n - 1] \o s[n]) /\ Joined(s) = f[N]
    BY JoinedPrefixes
  <1>2. N \in Nat /\ DOMAIN s = 1..N /\ \A n \in 1..N : s[n] \in Seq(T)
    OBVIOUS
  <1> HIDE DEF N
  <1> DEFINE Has(q, n) == \A k \in DOMAIN s[n] : \E j \in DOMAIN q : q[j] = s[n][k]
             Only(q, m) == \A j \in DOMAIN q : \E n \in 1..m : \E k \in DOMAIN s[n] : q[j] = s[n][k]
             W == {m \in 0..N : (\A n \in 1..m : Has(f[m], n)) /\ Only(f[m], m)}
  <1>3. 0 \in W
    BY <1>1, <1>2
  <1>4. ASSUME NEW m \in 1..N, m - 1 \in W PROVE m \in W
    <2> DEFINE p == f[m - 1]
               q == f[m]
               t == s[m]
    <2>1. p \in Seq(T) /\ t \in Seq(T) /\ q = p \o t /\ m \in 0..N
      <3>1. m - 1 \in 0..N /\ m \in 0..N
        BY <1>2
      <3>2. p \in Seq(T)
        BY <1>1, <3>1
      <3>3. t \in Seq(T) /\ q = p \o t
        BY <1>1, <1>2
      <3> QED
        BY <3>1, <3>2, <3>3
    <2>2. (\A n \in 1..m-1 : Has(p, n)) /\ Only(p, m - 1)
      BY <1>4
    <2> HIDE DEF p, q
    <2>3. /\ DOMAIN q = 1..Len(p) + Len(t) /\ DOMAIN p = 1..Len(p) /\ DOMAIN t = 1..Len(t)
          /\ Len(p) \in Nat /\ Len(t) \in Nat
          /\ (\A k \in 1..Len(p) : q[k] = p[k]) /\ \A k \in 1..Len(t) : q[Len(p) + k] = t[k]
      BY <2>1
    <2>4. Has(q, m)
      <3> SUFFICES ASSUME NEW k \in DOMAIN t PROVE \E j \in DOMAIN q : q[j] = t[k]
        OBVIOUS
      <3> HIDE DEF t
      <3>1. Len(p) + k \in DOMAIN q
        BY <2>3
      <3> QED
        BY <2>3, <3>1
    <2>5. ASSUME NEW n \in 1..m-1 PROVE Has(q, n)
      <3>1. \A j \in DOMAIN p : j \in DOMAIN q /\ q[j] = p[j]
        BY <2>3
      <3> QED
        BY <2>2, <3>1
    <2>6. Only(q, m)
      <3> SUFFICES ASSUME NEW j \in DOMAIN q PROVE \E n \in 1..m : \E k \in DOMAIN s[n] : q[j] = s[n][k]
        OBVIOUS
      <3>1. CASE j \in DOMAIN p
        <4>1. \E n \in 1..m-1 : \E k \in DOMAIN s[n] : p[j] = s[n][k]
          BY <2>2, <3>1
        <4>2. \A n \in 1..m-1 : n \in 1..m
          OBVIOUS
        <4> QED
          BY <2>3, <3>1, <4>1, <4>2
      <3>2. CASE j \notin DOMAIN p
        <4>1. j - Len(p) \in 1..Len(t) /\ Len(p) + (j - Len(p)) = j
          BY <2>3, <3>2
        <4>2. q[j] = s[m][j - Len(p)] /\ j - Len(p) \in DOMAIN s[m] /\ m \in 1..m
          BY <2>3, <4>1
        <4> QED
          BY <4>2
      <3> QED
        BY <3>1, <3>2
    <2>7. \A n \in 1..m : n \in 1..m-1 \/ n = m
      OBVIOUS
    <2>8. \A n \in 1..m : Has(q, n)
      <3> HIDE DEF Has
      <3> QED
        BY <2>4, <2>5, <2>7
    <2> HIDE DEF Has, Only
    <2> QED
      BY <2>1, <2>6, <2>8 DEF q
  <1>5. N \in W
    <2> HIDE DEF W
    <2>1. \A n \in 1..N : n - 1 \in W => n \in W
      BY <1>4
    <2>2. \A n \in 0..N : n \in W
      BY ONLY <1>2, <1>3, <2>1, Induct
    <2> QED
      BY <1>2, <2>2
  <1>6. f[N] \in Seq(T)
    BY <1>2
  <1>7. (\A n \in 1..N : Has(f[N], n)) /\ Only(f[N], N)
    BY <1>5
  <1> HIDE DEF Has, Only
  <1>8. PICK q : q = f[N]
    OBVIOUS
  <1>9. Joined(s) = q /\ q \in Seq(T) /\ (\A n \in DOMAIN s : Has(q, n)) /\ Only(q, N) /\ DOMAIN s = 1..N
    BY <1>1, <1>2, <1>6, <1>7, <1>8
  <1>10. \A j \in DOMAIN q : \E n \in 1..N : \E k \in DOMAIN s[n] : q[j] = s[n][k]
    BY ONLY <1>9 DEF Only
  <1>11. \A n \in DOMAIN s : \A k \in DOMAIN s[n] : \E j \in DOMAIN q : q[j] = s[n][k]
    BY ONLY <1>9 DEF Has
  <1>12. Joined(s) = q
    BY <1>9
  <1>13. \A j \in DOMAIN Joined(s) : \E n \in DOMAIN s : \E k \in DOMAIN s[n] : Joined(s)[j] = s[n][k]
    BY ONLY <1>9, <1>10, <1>12
  <1>14. \A n \in DOMAIN s : \A k \in DOMAIN s[n] : \E j \in DOMAIN Joined(s) : Joined(s)[j] = s[n][k]
    BY ONLY <1>11, <1>12
  <1> QED
    BY ONLY <1>9, <1>13, <1>14
=============================================================================
