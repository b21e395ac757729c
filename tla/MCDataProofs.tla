---------------------------- MODULE MCDataProofs ----------------------------
(***************************************************************************)
(* What the parts of MCData promise, for every value of their parameters:  *)
(* an inductive invariant per part. Parts share no variable, so each       *)
(* invariant is kept by the steps of its own part alone.                   *)
(***************************************************************************)
EXTENDS MCData, InductionFacts

-----------------------------------------------------------------------------
(* The quality board *)

Kinds == {"none", "open", "ok", "bare", "wide"}
Evidence == {"strong", "dead", "short", "skipped"}
Key(r) == <<r.date, r.check, r.metric>>

Days ==
    /\ calendar \in 1..BoardDays /\ checks \in 0..MaxChecks
    /\ kinds \in [1..BoardDays -> [BoardCodes -> Kinds]]
    /\ \A d \in BoardClosed : \A c \in BoardCodes : kinds[d][c] = "none"

\* Rows are of days that have come and of checks that have begun, one per key.
Shown ==
    /\ \A r \in rows : /\ r.date \in 1..calendar /\ r.by \in 0..checks
                       /\ r.status = "pass" => r.known
    /\ \A r, s \in rows : Key(r) = Key(s) => r = s
    /\ \A r, s \in Board!Ours : r.by = s.by

\* A health check has a finding per factor it has computed, and once one of them was
\* committed the rows of earlier checks are gone.
Checking ==
    /\ health \in [on : BOOLEAN, left : SUBSET Factors, found : SUBSET (Factors \X Evidence),
                   by : 0..checks]
    /\ \A x \in health.found : x[1] \notin health.left
    /\ \A x, y \in health.found : x[1] = y[1] => x = y
    /\ (\E x \in health.found : x[2] # "skipped") => Board!Ours = {}

BoardInv == Days /\ Shown /\ Checking

LEMMA InitBoard == ASSUME Board!Init PROVE BoardInv
  <1>1. /\ calendar = 1 /\ checks = 0 /\ rows = {} /\ health = Board!NoHealth
        /\ kinds = [d \in 1..BoardDays |-> [c \in BoardCodes |-> IF d = 1 THEN "ok" ELSE "none"]]
    BY DEF Board!Init
  <1>2. BoardDays \in Nat \ {0} /\ BoardClosed \subseteq 2..BoardDays /\ MaxChecks \in Nat
    BY BoardAssumption DEF Board!Parameters
  <1>3. Days
    BY <1>1, <1>2 DEF Days, Kinds
  <1>4. Shown
    BY <1>1 DEF Shown, Board!Ours
  <1>5. Checking
    BY <1>1 DEF Checking, Board!NoHealth, Board!Ours
  <1> QED
    BY <1>3, <1>4, <1>5 DEF BoardInv

\* What a patrol writes: a row per metric of one settled day.
LEMMA PatrolWrites ==
    ASSUME BoardInv, NEW d \in Board!LatestSettled, NEW raised, NEW r \in Board!PatrolRows(d, raised)
    PROVE  /\ r.date = d /\ d \in 1..calendar /\ r.check = "patrol" /\ r.by = checks + 1
           /\ r.metric \in {"row_baseline", "field_missing", "amplitude"}
           /\ r.status = "pass" => r.known
           /\ \A s \in Board!PatrolRows(d, raised) : r.metric = s.metric => r = s
  <1>1. d \in 1..calendar
    BY DEF Board!LatestSettled
  <1>2. \A v, g : Board!Status(v, g) = "pass" => (v # Board!NoValue) = TRUE
    BY DEF Board!Status
  <1> DEFINE val(check, v) == IF check \in raised THEN Board!NoValue ELSE v
             ratio == val("row_baseline", Board!RowRatio(d))
             missing == val("field_missing", Board!AmountMissing(d))
             wide == val("amplitude", Board!WideBars(d))
             g1 == IF ratio < LowRatio THEN "fail" ELSE IF ratio < LowWarn THEN "warn" ELSE "pass"
             g2 == IF missing > MissingFail THEN "fail" ELSE "pass"
             g3 == IF wide > 0 THEN "fail" ELSE "pass"
             R(m, v, g) == Board!Row(d, "patrol", m, Board!Status(v, g), v, checks + 1)
  <1>3. Board!PatrolRows(d, raised)
            = {R("row_baseline", ratio, g1), R("field_missing", missing, g2), R("amplitude", wide, g3)}
    BY DEF Board!PatrolRows
  <1> HIDE DEF ratio, missing, wide, g1, g2, g3
  <1>4. ASSUME NEW m, NEW v, NEW g
        PROVE  /\ R(m, v, g).date = d /\ R(m, v, g).check = "patrol" /\ R(m, v, g).by = checks + 1
               /\ R(m, v, g).metric = m /\ (R(m, v, g).status = "pass" => R(m, v, g).known)
    BY <1>2 DEF Board!Row
  <1> HIDE DEF R
  <1>5. r \in {R("row_baseline", ratio, g1), R("field_missing", missing, g2), R("amplitude", wide, g3)}
    BY <1>3
  <1> QED
    BY <1>1, <1>3, <1>4, <1>5

LEMMA PatrolKeeps ==
    ASSUME BoardInv, NEW raised, Board!Patrol(raised) PROVE BoardInv'
  <1> DEFINE new == UNION {Board!PatrolRows(d, raised) : d \in Board!LatestSettled}
             kept == {r \in rows : \A n \in new : Key(n) # Key(r)}
  <1>1. /\ checks' = checks + 1 /\ checks < MaxChecks /\ rows' = new \cup kept
        /\ UNCHANGED <<calendar, kinds, health>>
    BY DEF Board!Patrol, Key
  <1>2. MaxChecks \in Nat /\ checks \in 0..MaxChecks /\ calendar \in Nat
    BY BoardAssumption DEF Board!Parameters, BoardInv, Days
  <1>3. \A d, e \in Board!LatestSettled : d = e
    <2> SUFFICES ASSUME NEW d \in Board!LatestSettled, NEW e \in Board!LatestSettled, d < e PROVE FALSE
      <3>1. \A d \in Board!LatestSettled : d \in Nat
        BY <1>2 DEF Board!LatestSettled
      <3> QED
        BY <3>1
    <2>1. e \in d + 1..calendar /\ Board!Settled(e) # {}
      BY <1>2 DEF Board!LatestSettled
    <2> QED
      BY <2>1 DEF Board!LatestSettled
  <1>4. \A r \in new : \E d \in Board!LatestSettled : r \in Board!PatrolRows(d, raised)
    OBVIOUS
  <1>5. \A r \in new : /\ r.date \in 1..calendar /\ r.check = "patrol" /\ r.by = checks + 1
                       /\ (r.status = "pass" => r.known)
                       /\ \A s \in new : Key(r) = Key(s) => r = s
    <2> SUFFICES ASSUME NEW r \in new
                 PROVE  /\ r.date \in 1..calendar /\ r.check = "patrol" /\ r.by = checks + 1
                        /\ (r.status = "pass" => r.known)
                        /\ \A s \in new : Key(r) = Key(s) => r = s
      OBVIOUS
    <2>1. PICK d \in Board!LatestSettled : r \in Board!PatrolRows(d, raised)
      BY <1>4
    <2>2. \A s \in new : s \in Board!PatrolRows(d, raised)
      BY <1>3, <1>4
    <2>3. \A s : Key(r) = Key(s) => r.metric = s.metric
      BY DEF Key
    <2> HIDE DEF new
    <2> QED
      BY <2>1, <2>2, <2>3, PatrolWrites
  <1> HIDE DEF new
  <1>6. Days'
    BY <1>1, <1>2 DEF BoardInv, Days
  <1>7. Board!Ours' = Board!Ours
    <2>1. \A r \in rows : r.check = "health" => \A n \in new : Key(n) # Key(r)
      <3> SUFFICES ASSUME NEW r \in rows, r.check = "health", NEW n \in new PROVE Key(n) # Key(r)
        OBVIOUS
      <3>1. n.check # r.check
        BY <1>5
      <3> QED
        BY <3>1 DEF Key
    <2> QED
      BY <1>1, <1>5, <2>1 DEF Board!Ours
  <1>8. Shown'
    <2>1. \A r \in rows' : r \in new \/ (r \in rows /\ \A n \in new : Key(n) # Key(r))
      BY <1>1
    <2>2. \A r \in rows' : r.date \in 1..calendar /\ r.by \in 0..checks + 1 /\ (r.status = "pass" => r.known)
      <3>1. checks + 1 \in 0..checks + 1 /\ 0..checks \subseteq 0..checks + 1
        BY <1>2
      <3> QED
        BY <1>5, <2>1, <3>1 DEF BoardInv, Shown
    <2>3. \A r, s \in rows' : Key(r) = Key(s) => r = s
      BY <1>5, <2>1 DEF BoardInv, Shown
    <2>4. \A r, s \in Board!Ours' : r.by = s.by
      BY <1>7 DEF BoardInv, Shown
    <2> QED
      BY <1>1, <2>2, <2>3, <2>4 DEF Shown, Key
  <1>9. Checking'
    <2>1. 0..checks \subseteq 0..checks'
      BY <1>1, <1>2
    <2> QED
      BY <1>1, <1>7, <2>1 DEF BoardInv, Checking
  <1> QED
    BY <1>6, <1>8, <1>9 DEF BoardInv

LEMMA HealthEndsKeeps == ASSUME BoardInv, Board!HealthEnds PROVE BoardInv'
  <1> DEFINE real == {x \in health.found : x[2] # "skipped"}
             value(x) == IF x[2] = "short" THEN Board!NoValue ELSE 1
             grade(x) == IF x[2] = "dead" THEN "fail" ELSE "pass"
             row(x) == Board!Row(calendar, "health", x[1], Board!Status(value(x), grade(x)), value(x), health.by)
             kept == IF \A x \in health.found : x[2] = "skipped" THEN rows \ Board!Ours ELSE rows
  <1>1. /\ rows' = kept \cup {row(x) : x \in real} /\ health' = Board!NoHealth
        /\ UNCHANGED <<calendar, kinds, checks>>
    BY DEF Board!HealthEnds, Board!HealthRows
  <1>2. ASSUME NEW x \in real
        PROVE  /\ row(x).date = calendar /\ row(x).check = "health" /\ row(x).metric = x[1]
               /\ row(x).by = health.by /\ (row(x).status = "pass" => row(x).known)
    <2>1. Board!Status(value(x), grade(x)) = "pass" => (value(x) # Board!NoValue) = TRUE
      BY DEF Board!Status
    <2> HIDE DEF value, grade
    <2> QED
      BY <2>1 DEF Board!Row
  <1> HIDE DEF row
  <1>3. \A x, y \in real : x[1] = y[1] => x = y
    BY DEF BoardInv, Checking
  <1>4. kept \subseteq rows /\ \A r \in kept : r.check # "health"
    <2>1. CASE \A x \in health.found : x[2] = "skipped"
      BY <2>1 DEF Board!Ours
    <2>2. CASE \E x \in health.found : x[2] # "skipped"
      BY <2>2 DEF BoardInv, Checking, Board!Ours
    <2> QED
      BY <2>1, <2>2
  <1>5. calendar \in 1..calendar /\ health.by \in 0..checks
    BY DEF BoardInv, Days, Checking
  <1> HIDE DEF kept, real
  <1>6. Days'
    BY <1>1 DEF BoardInv, Days
  <1>7. Shown'
    <2>1. \A r \in rows' : r \in kept \/ \E x \in real : r = row(x)
      BY <1>1
    <2>2. \A r \in rows' : r.date \in 1..calendar /\ r.by \in 0..checks /\ (r.status = "pass" => r.known)
      <3>1. \A x \in real : row(x).date \in 1..calendar /\ row(x).by \in 0..checks
                            /\ (row(x).status = "pass" => row(x).known)
        BY <1>2, <1>5
      <3>2. \A r \in kept : r.date \in 1..calendar /\ r.by \in 0..checks /\ (r.status = "pass" => r.known)
        BY <1>4 DEF BoardInv, Shown
      <3> QED
        BY <2>1, <3>1, <3>2
    <2>3. ASSUME NEW r \in rows', NEW s \in rows', Key(r) = Key(s) PROVE r = s
      <3>1. r.check = s.check /\ r.metric = s.metric
        BY <2>3 DEF Key
      <3>2. CASE r \in kept
        <4>1. s \in kept
          BY <1>2, <1>4, <2>1, <3>1, <3>2
        <4> QED
          BY <1>4, <2>3, <3>2, <4>1 DEF BoardInv, Shown
      <3>3. CASE r \notin kept
        <4>1. PICK x \in real : r = row(x)
          BY <2>1, <3>3
        <4>2. s \notin kept
          BY <1>2, <1>4, <3>1, <4>1
        <4>3. PICK y \in real : s = row(y)
          BY <2>1, <4>2
        <4>4. x[1] = y[1]
          BY <1>2, <3>1, <4>1, <4>3
        <4> QED
          BY <1>3, <4>1, <4>3, <4>4
      <3> QED
        BY <3>2, <3>3
    <2>4. \A r \in Board!Ours' : r.by = health.by
      BY <1>2, <1>4, <2>1 DEF Board!Ours
    <2> QED
      BY <1>1, <2>2, <2>3, <2>4 DEF Shown
  <1>8. Checking'
    <2>1. 0 \in 0..checks
      BY DEF BoardInv, Days
    <2> QED
      BY <1>1, <2>1 DEF Checking, Board!NoHealth
  <1> QED
    BY <1>6, <1>7, <1>8 DEF BoardInv

LEMMA HealthFactorKeeps ==
    ASSUME BoardInv, NEW f \in Factors, NEW e \in Evidence, Board!HealthFactor(f, e)
    PROVE  BoardInv'
  <1>1. /\ f \in health.left /\ UNCHANGED <<calendar, kinds, checks>>
        /\ rows' = (IF e = "skipped" THEN rows ELSE rows \ Board!Ours)
        /\ health' = [health EXCEPT !.left = @ \ {f}, !.found = @ \cup {<<f, e>>}]
    BY DEF Board!HealthFactor
  <1>2. health \in [on : BOOLEAN, left : SUBSET Factors, found : SUBSET (Factors \X Evidence),
                   by : 0..checks]
    BY DEF BoardInv, Checking
  <1>3. /\ health'.on = health.on /\ health'.by = health.by
        /\ health'.left = health.left \ {f} /\ health'.found = health.found \cup {<<f, e>>}
        /\ health' \in [on : BOOLEAN, left : SUBSET Factors, found : SUBSET (Factors \X Evidence), by : 0..checks]
    <2> DEFINE L == health.left \ {f}
               F == health.found \cup {<<f, e>>}
    <2>1. L \in SUBSET Factors /\ F \in SUBSET (Factors \X Evidence)
      BY <1>2
    <2>2. health' = [health EXCEPT !.left = L, !.found = F]
      BY <1>1
    <2> HIDE DEF L, F
    <2>3. health' = [on |-> health.on, left |-> L, found |-> F, by |-> health.by]
      BY <1>2, <2>2
    <2>4. health.on \in BOOLEAN /\ health.by \in 0..checks
      BY <1>2
    <2> QED
      BY <2>1, <2>3, <2>4 DEF L, F
  <1>4. rows' \subseteq rows /\ Board!Ours' \subseteq Board!Ours /\ (e # "skipped" => Board!Ours' = {})
    BY <1>1 DEF Board!Ours
  <1>5. Days'
    BY <1>1 DEF BoardInv, Days
  <1>6. Shown'
    BY <1>1, <1>4 DEF BoardInv, Shown
  <1>7. Checking'
    <2>1. <<f, e>>[1] = f /\ <<f, e>>[2] = e
      OBVIOUS
    <2>2. \A x \in health'.found : x[1] \notin health'.left
      BY <1>3, <2>1 DEF BoardInv, Checking
    <2>3. \A x \in health.found : x[1] # f
      BY <1>1 DEF BoardInv, Checking
    <2>4. \A x, y \in health'.found : x[1] = y[1] => x = y
      BY <1>3, <2>1, <2>3 DEF BoardInv, Checking
    <2>5. (\E x \in health'.found : x[2] # "skipped") => Board!Ours' = {}
      <3>1. CASE e # "skipped"
        BY <1>4, <3>1
      <3>2. CASE e = "skipped"
        BY <1>3, <1>4, <2>1, <3>2 DEF BoardInv, Checking
      <3> QED
        BY <3>1, <3>2
    <2> QED
      BY <1>1, <1>3, <2>2, <2>4, <2>5 DEF Checking
  <1> QED
    BY <1>5, <1>6, <1>7 DEF BoardInv

LEMMA BoardStep ==
    ASSUME BoardInv, [Board!Next]_(Board!vars) PROVE BoardInv'
  <1>0. MaxChecks \in Nat /\ BoardDays \in Nat \ {0} /\ calendar \in 1..BoardDays /\ checks \in 0..MaxChecks
    BY BoardAssumption DEF Board!Parameters, BoardInv, Days
  <1>1. ASSUME NEW k \in [BoardCodes -> Kinds], Board!Dawn(k) PROVE BoardInv'
    <2>1. /\ calendar < BoardDays /\ calendar' = calendar + 1 /\ UNCHANGED <<rows, health, checks>>
          /\ kinds' = [kinds EXCEPT ![calendar + 1] = k]
          /\ calendar + 1 \in BoardClosed => \A c \in BoardCodes : k[c] = "none"
      BY <1>1 DEF Board!Dawn
    <2>2. calendar + 1 \in 1..BoardDays /\ 1..calendar \subseteq 1..calendar + 1
      BY <1>0, <2>1
    <2>3. Days'
      BY <1>0, <2>1, <2>2 DEF BoardInv, Days
    <2>4. Shown' /\ Checking'
      BY <2>1, <2>2 DEF BoardInv, Shown, Checking, Board!Ours
    <2> QED
      BY <2>3, <2>4 DEF BoardInv
  <1>2. CASE Board!Complete
    <2>1. /\ calendar \notin BoardClosed /\ UNCHANGED <<calendar, rows, health, checks>>
          /\ kinds' = [kinds EXCEPT ![calendar] = [c \in BoardCodes |-> "ok"]]
      BY <1>2 DEF Board!Complete
    <2>2. Days'
      BY <1>0, <2>1 DEF BoardInv, Days, Kinds
    <2> QED
      BY <2>1, <2>2 DEF BoardInv, Shown, Checking, Board!Ours
  <1>3. CASE Board!HealthBegins
    <2>1. /\ checks < MaxChecks /\ checks' = checks + 1 /\ UNCHANGED <<calendar, kinds, rows>>
          /\ health' = [on |-> TRUE, left |-> Factors, found |-> {}, by |-> checks + 1]
      BY <1>3 DEF Board!HealthBegins
    <2>2. checks + 1 \in 0..MaxChecks /\ 0..checks \subseteq 0..checks + 1 /\ checks + 1 \in 0..checks + 1
      BY <1>0, <2>1
    <2>3. Days' /\ Shown'
      BY <2>1, <2>2 DEF BoardInv, Days, Shown, Board!Ours
    <2>4. Checking'
      BY <2>1, <2>2 DEF Checking
    <2> QED
      BY <2>3, <2>4 DEF BoardInv
  <1>4. CASE Board!HealthEnds
    BY <1>4, HealthEndsKeeps
  <1>5. CASE Board!HealthCutOff
    <2>1. health' = Board!NoHealth /\ UNCHANGED <<calendar, kinds, rows, checks>>
      BY <1>5 DEF Board!HealthCutOff
    <2>2. 0 \in 0..checks
      BY <1>0
    <2> QED
      BY <2>1, <2>2 DEF BoardInv, Days, Shown, Checking, Board!Ours, Board!NoHealth
  <1>6. ASSUME NEW raised, Board!Patrol(raised) PROVE BoardInv'
    BY <1>6, PatrolKeeps
  <1>7. ASSUME NEW f \in Factors, NEW e \in Evidence, Board!HealthFactor(f, e) PROVE BoardInv'
    BY <1>7, HealthFactorKeeps
  <1>8. CASE UNCHANGED Board!vars
    <2>1. UNCHANGED <<calendar, kinds, rows, health, checks>>
      BY <1>8 DEF Board!vars
    <2> QED
      BY <2>1 DEF BoardInv, Days, Shown, Checking, Board!Ours
  <1> QED
    BY <1>1, <1>2, <1>3, <1>4, <1>5, <1>6, <1>7, <1>8 DEF Board!Next, Kinds, Evidence

LEMMA BoardMeans == ASSUME BoardInv PROVE Board!BoardSound
  <1>1. calendar \in Nat /\ checks \in Nat
    BY BoardAssumption DEF Board!Parameters, BoardInv, Days
  <1>2. \A d \in BoardClosed : Board!Stored(d) = {}
    BY DEF BoardInv, Days, Board!Stored
  <1>3. \A r \in rows : r.date <= calendar /\ r.by <= checks
    BY <1>1 DEF BoardInv, Shown
  <1>4. Board!TypeOK
    BY <1>2, <1>3 DEF BoardInv, Days, Shown, Checking, Board!TypeOK, Key
  <1> QED
    BY <1>4 DEF BoardInv, Shown, Board!BoardSound, Board!UnknownIsNotGreen, Board!HealthOfOneCheck

\* The board of the admin page, for every market and whatever its jobs are cut off by: what
\* could not be measured is never green, and the factor rows are those of one check.
THEOREM BoardHolds == Spec => []BoardSound
  <1> DEFINE Inv == focus = "board" => BoardInv
  <1>1. Init => Inv
    BY InitBoard DEF Init
  <1>2. Inv /\ [Next]_vars => Inv'
    <2> SUFFICES ASSUME focus = "board" => BoardInv, [Next]_vars, focus' = "board" PROVE BoardInv'
      OBVIOUS
    <2>1. focus = "board" /\ [Board!Next]_(Board!vars)
      BY DEF Next, vars, boardVars, Board!vars
    <2> QED
      BY <2>1, BoardStep
  <1>3. Inv => BoardSound
    BY BoardMeans DEF BoardSound
  <1> QED
    BY <1>1, <1>2, <1>3, PTL DEF Spec

\* Neither job touches the rows of the other.
LEMMA BoardKeepsOthers == ASSUME BoardInv, Board!Next PROVE Board!OthersRowsKept
  <1>1. CASE UNCHANGED rows
    BY <1>1 DEF Board!OthersRowsKept, Board!Ours
  <1>2. ASSUME NEW raised, Board!Patrol(raised) PROVE Board!OthersRowsKept
    <2> DEFINE new == UNION {Board!PatrolRows(d, raised) : d \in Board!LatestSettled}
    <2>1. /\ rows' = new \cup {r \in rows : \A n \in new : <<n.date, n.check, n.metric>> # <<r.date, r.check, r.metric>>}
          /\ health' = health
      BY <1>2 DEF Board!Patrol
    <2>2. \A n \in new : n.check = "patrol"
      BY PatrolWrites
    <2> HIDE DEF new
    <2>3. \A r \in Board!Ours : r \in rows'
      <3> SUFFICES ASSUME NEW r \in Board!Ours PROVE r \in rows'
        OBVIOUS
      <3>1. r \in rows /\ r.check = "health"
        BY DEF Board!Ours
      <3>2. \A n \in new : <<n.date, n.check, n.metric>> # <<r.date, r.check, r.metric>>
        BY <2>2, <3>1
      <3> QED
        BY <2>1, <3>1, <3>2
    <2> QED
      BY <2>1, <2>3 DEF Board!OthersRowsKept
  <1>3. ASSUME NEW f \in Factors, NEW e \in Evidence, Board!HealthFactor(f, e) PROVE Board!OthersRowsKept
    <2>1. /\ f \in health.left /\ rows' = (IF e = "skipped" THEN rows ELSE rows \ Board!Ours)
          /\ health' = [health EXCEPT !.left = @ \ {f}, !.found = @ \cup {<<f, e>>}]
      BY <1>3 DEF Board!HealthFactor
    <2>2. {r \in rows : r.check = "patrol"} \subseteq rows'
      BY <2>1 DEF Board!Ours
    <2>3. health' # health
      <3>1. health'.left = health.left \ {f}
        BY <2>1 DEF BoardInv, Checking
      <3> QED
        BY <2>1, <3>1
    <2> QED
      BY <2>2, <2>3 DEF Board!OthersRowsKept
  <1>4. CASE Board!HealthEnds
    <2>1. {r \in rows : r.check = "patrol"} \subseteq rows'
      BY <1>4 DEF Board!HealthEnds, Board!Ours
    <2>2. health.on /\ health' = Board!NoHealth
      BY <1>4 DEF Board!HealthEnds
    <2>3. health' # health
      BY <2>2 DEF Board!NoHealth
    <2> QED
      BY <2>1, <2>3 DEF Board!OthersRowsKept
  <1>5. Board!Complete \/ Board!HealthBegins \/ Board!HealthCutOff => UNCHANGED rows
    BY DEF Board!Complete, Board!HealthBegins, Board!HealthCutOff
  <1>6. \A k : Board!Dawn(k) => UNCHANGED rows
    BY DEF Board!Dawn
  <1> QED
    BY <1>1, <1>2, <1>3, <1>4, <1>5, <1>6 DEF Board!Next, Evidence

LEMMA SameCount ==
    ASSUME NEW S PROVE Board!Cardinality(S) = Cardinality(S) /\ Board!IsFiniteSet(S) = IsFiniteSet(S)
  BY DEF Board!Cardinality, Cardinality, Board!IsFiniteSet, IsFiniteSet

\* Against a whole day a truncated one is below the threshold.
LEMMA TruncatedIsLow ==
    ASSUME BoardInv, NEW d \in 1..calendar,
           \E x \in Board!Counted : x < d /\ Board!Settled(x) = BoardCodes,
           100 * Cardinality(Board!Settled(d)) < LowRatio * Cardinality(BoardCodes)
    PROVE  Board!RowRatio(d) < LowRatio
  <1> DEFINE prior == {Cardinality(Board!Settled(x)) : x \in {x \in Board!Counted : x < d}}
             n == Cardinality(BoardCodes)
             k == Cardinality(Board!Settled(d))
  <1>1. /\ IsFiniteSet(BoardCodes) /\ LowRatio \in Nat
    BY BoardAssumption, SameCount DEF Board!Parameters
  <1>2. \A x : Cardinality(Board!Settled(x)) \in Nat /\ Cardinality(Board!Settled(x)) <= n
    <2> TAKE x
    <2>1. Board!Settled(x) \subseteq BoardCodes
      BY DEF Board!Settled
    <2> QED
      BY <1>1, <2>1, FS_Subset, FS_CardinalityType
  <1>3. n \in Nat /\ k \in Nat /\ n \in prior
    BY <1>1, <1>2, FS_CardinalityType
  <1>4. \A y \in prior : y \in Nat /\ y <= n
    BY <1>2
  <1> HIDE DEF prior
  <1>5. Board!Max(prior) = n
    <2>1. \A m \in prior : (\A y \in prior : m >= y) => m = n
      BY <1>3, <1>4
    <2>2. \A y \in prior : n >= y
      BY <1>3, <1>4
    <2> QED
      BY <1>3, <2>1, <2>2 DEF Board!Max
  <1>6. Board!RowRatio(d) = (100 * k) \div n
    BY <1>3, <1>5, SameCount DEF Board!RowRatio, prior
  <1>7. n > 0 /\ 100 * k < LowRatio * n
    <2>1. 100 * k < LowRatio * n
      OBVIOUS
    <2>2. n = 0 => LowRatio * n = 0
      BY <1>1
    <2> QED
      BY <1>3, <2>1, <2>2
  <1> HIDE DEF n, k
  <1>8. \A a \in Nat, m \in Nat \ {0} : a \div m \in Nat /\ m * (a \div m) <= a
    OBVIOUS
  <1> DEFINE q == (100 * k) \div n
             L == LowRatio
  <1>9. q \in Nat /\ n * q <= 100 * k /\ L \in Nat /\ 100 * k \in Nat /\ 100 * k < L * n
    BY <1>1, <1>3, <1>7, <1>8
  <1> HIDE DEF q, L
  <1>10. ~(q >= L)
    <2> SUFFICES ASSUME q >= L PROVE FALSE
      OBVIOUS
    <2>1. q - L \in Nat /\ n * (q - L) \in Nat /\ n * q = n * L + n * (q - L) /\ L * n = n * L /\ n * L \in Nat
      BY <1>3, <1>9
    <2> QED
      BY <1>9, <2>1
  <1> QED
    BY <1>6, <1>9, <1>10 DEF q, L

\* Days that come truncated do not become the norm while a whole one is counted.
LEMMA BoardTellsTruncation == ASSUME BoardInv, Board!Next PROVE Board!TruncationFails
  <1> SUFFICES ASSUME NEW d \in 1..calendar,
                      \E x \in Board!Counted : x < d /\ Board!Settled(x) = BoardCodes,
                      100 * Cardinality(Board!Settled(d)) < LowRatio * Cardinality(BoardCodes),
                      NEW r \in rows', r \notin rows, r.date = d, r.metric = "row_baseline", r.known
               PROVE  r.status = "fail"
    BY SameCount DEF Board!TruncationFails
  <1>1. ASSUME NEW raised, Board!Patrol(raised) PROVE r.status = "fail"
    <2>1. PICK e \in Board!LatestSettled : r \in Board!PatrolRows(e, raised)
      BY <1>1 DEF Board!Patrol
    <2>2. e = d
      BY <2>1, PatrolWrites
    <2> DEFINE ratio == IF "row_baseline" \in raised THEN Board!NoValue ELSE Board!RowRatio(d)
               grade == IF ratio < LowRatio THEN "fail" ELSE IF ratio < LowWarn THEN "warn" ELSE "pass"
    <2>3. r = Board!Row(d, "patrol", "row_baseline", Board!Status(ratio, grade), ratio, checks + 1)
      <3>1. r.metric = "row_baseline"
        OBVIOUS
      <3> QED
        BY <2>1, <2>2, <3>1 DEF Board!PatrolRows, Board!Row
    <2> HIDE DEF grade, ratio
    <2>4. r.status = Board!Status(ratio, grade)
      BY <2>3 DEF Board!Row
    <2>5. ratio # Board!NoValue
      <3> DEFINE kn == ratio # Board!NoValue
                 st == Board!Status(ratio, grade)
      <3>1. r = [date |-> d, check |-> "patrol", metric |-> "row_baseline", status |-> st,
                 known |-> kn, by |-> checks + 1]
        BY <2>3 DEF Board!Row
      <3> HIDE DEF kn, st
      <3>2. r.known = kn
        BY <3>1
      <3>3. kn
        BY <3>2
      <3> QED
        BY <3>3 DEF kn
    <2>6. ratio = Board!RowRatio(d)
      BY <2>5 DEF ratio
    <2>7. ratio < LowRatio
      BY <2>6, TruncatedIsLow
    <2> QED
      BY <2>4, <2>5, <2>7 DEF grade, Board!Status
  <1>2. CASE Board!HealthEnds
    <2>1. PICK x \in health.found :
              r = Board!Row(calendar, "health", x[1],
                            Board!Status(IF x[2] = "short" THEN Board!NoValue ELSE 1,
                                         IF x[2] = "dead" THEN "fail" ELSE "pass"),
                            IF x[2] = "short" THEN Board!NoValue ELSE 1, health.by)
      BY <1>2 DEF Board!HealthEnds, Board!HealthRows
    <2>2. r.metric = x[1] /\ x[1] \in Factors
      BY <2>1 DEF Board!Row, BoardInv, Checking
    <2> QED
      BY <2>2, BoardAssumption DEF Board!Parameters
  <1>3. Board!Complete \/ Board!HealthBegins \/ Board!HealthCutOff => UNCHANGED rows
    BY DEF Board!Complete, Board!HealthBegins, Board!HealthCutOff
  <1>4. \A k : Board!Dawn(k) => UNCHANGED rows
    BY DEF Board!Dawn
  <1>5. \A f, e : Board!HealthFactor(f, e) => rows' \subseteq rows
    BY DEF Board!HealthFactor
  <1> QED
    BY <1>1, <1>2, <1>3, <1>4, <1>5 DEF Board!Next

-----------------------------------------------------------------------------
(* The feeds *)

\* An item of the news is stored once, unless its time does not parse.
NewsInv == news \in SUBSET [item : Int, copy : Nat, scored : BOOLEAN]
           /\ runs \in Nat /\ \A r \in news : ~Feed!Untimed(r.item) => r.copy = 0

\* What a batch makes of the rows; an item keeps the score it had.
LEMMA UpsertNewsKeeps ==
    ASSUME NewsInv, NEW fetched \in SUBSET Int, NEW scored,
           news' = Feed!UpsertNews(fetched, scored), runs' \in Nat
    PROVE  NewsInv' /\ Feed!ScoresSurvive
  <1> DEFINE old(i) == {r \in news : r.item = i /\ ~Feed!Untimed(r.item)}
             sc(i) == i \in scored \/ \E r \in old(i) : r.scored
             row(i) == [item |-> i, copy |-> IF Feed!Untimed(i) THEN runs ELSE 0, scored |-> sc(i)]
             left == {r \in news : Feed!Untimed(r.item) \/ r.item \notin fetched}
  <1>1. news' = left \cup {row(i) : i \in fetched}
    <2>1. \A i : {r \in news : r.item = i /\ ~Feed!Untimed(i)} = old(i)
      OBVIOUS
    <2> QED
      BY <2>1 DEF Feed!UpsertNews
  <1>2. ASSUME NEW i \in fetched
        PROVE  /\ row(i) \in [item : Int, copy : Nat, scored : BOOLEAN] /\ row(i).item = i
               /\ (~Feed!Untimed(i) => row(i).copy = 0) /\ (sc(i) => row(i).scored)
    <2> DEFINE k == sc(i)
               c == IF Feed!Untimed(i) THEN runs ELSE 0
    <2>1. k \in BOOLEAN /\ c \in Nat /\ (~Feed!Untimed(i) => c = 0)
      BY DEF NewsInv
    <2>2. row(i) = [item |-> i, copy |-> c, scored |-> k]
      OBVIOUS
    <2> HIDE DEF c, k, row
    <2>3. row(i).scored = k /\ row(i).copy = c /\ row(i).item = i
      BY <2>2
    <2>4. row(i) \in [item : Int, copy : Nat, scored : BOOLEAN]
      BY <2>1, <2>2
    <2>5. k => row(i).scored
      BY <2>3
    <2> QED
      BY <2>1, <2>3, <2>4, <2>5 DEF k
  <1> HIDE DEF row
  <1>3. NewsInv'
    <2>1. left \subseteq news
      OBVIOUS
    <2> HIDE DEF left
    <2>2. news' \in SUBSET [item : Int, copy : Nat, scored : BOOLEAN]
      BY <1>1, <1>2, <2>1 DEF NewsInv
    <2>3. \A r \in news' : ~Feed!Untimed(r.item) => r.copy = 0
      BY <1>1, <1>2, <2>1 DEF NewsInv
    <2> QED
      BY <2>2, <2>3 DEF NewsInv, Feed!Untimed
  <1>4. ASSUME NEW r \in news, r.scored
        PROVE  \E s \in news' : s.item = r.item /\ s.copy = r.copy /\ s.scored
    <2>1. CASE Feed!Untimed(r.item) \/ r.item \notin fetched
      BY <1>1, <1>4, <2>1
    <2>2. CASE ~(Feed!Untimed(r.item) \/ r.item \notin fetched)
      <3>1. sc(r.item) /\ r.copy = 0
        BY <1>4, <2>2 DEF NewsInv
      <3> HIDE DEF sc, left
      <3>2. row(r.item) \in news' /\ row(r.item).item = r.item /\ row(r.item).copy = 0 /\ row(r.item).scored
        BY <1>1, <1>2, <2>2, <3>1
      <3> QED
        BY <3>1, <3>2
    <2> QED
      BY <2>1, <2>2
  <1> QED
    BY <1>3, <1>4 DEF Feed!ScoresSurvive

LEMMA NewsStep ==
    ASSUME NewsInv, [Feed!Next]_(Feed!vars) PROVE NewsInv' /\ Feed!ScoresSurvive
  <1>1. ASSUME news' = news, runs' \in Nat PROVE NewsInv' /\ Feed!ScoresSurvive
    BY <1>1 DEF NewsInv, Feed!ScoresSurvive, Feed!Untimed
  <1>2. ASSUME NEW fetched \in SUBSET Int, NEW scored, Feed!SyncNews(fetched, scored)
        PROVE  NewsInv' /\ Feed!ScoresSurvive
    <2>1. runs' \in Nat /\ (news' = news \/ news' = Feed!UpsertNews(fetched, scored))
      BY <1>2 DEF NewsInv, Feed!SyncNews
    <2> QED
      BY <1>1, <2>1, UpsertNewsKeeps
  <1>3. ASSUME NEW feed, NEW items, NEW all, Feed!Begin(feed, items, all) PROVE news' = news /\ runs' \in Nat
    BY <1>3 DEF Feed!Begin, NewsInv
  <1>4. \A feed : Feed!StartKeyed(feed) => news' = news /\ runs' \in Nat
    BY <1>3 DEF Feed!StartKeyed
  <1>5. \A nightly : Feed!StartFinance(nightly) => news' = news /\ runs' \in Nat
    BY <1>3 DEF Feed!StartFinance
  <1>6. \A a : Feed!SyncItem(a) \/ Feed!SyncCode(a) => news' = news /\ runs' \in Nat
    BY DEF Feed!SyncItem, Feed!SyncCode, NewsInv
  <1>7. \A again, codes : Feed!SyncPool(again, codes) => news' = news /\ runs' \in Nat
    BY DEF Feed!SyncPool, NewsInv
  <1>8. Feed!Revise \/ Feed!Crash \/ UNCHANGED Feed!vars => news' = news /\ runs' \in Nat
    BY DEF Feed!Revise, Feed!Crash, Feed!vars, NewsInv
  <1>9. \A cls \in Feed!ClsAnswers, em \in Feed!EmAnswers : cls \cup em \in SUBSET Int
    <2>1. MaxNews \in Nat
      BY FeedAssumption DEF Feed!Parameters
    <2> QED
      BY <2>1 DEF Feed!ClsAnswers, Feed!EmAnswers
  <1> QED
    BY <1>1, <1>2, <1>4, <1>5, <1>6, <1>7, <1>8, <1>9 DEF Feed!Next

-----------------------------------------------------------------------------
(* The repair of daily bars *)

RepairBars == [close : Int, pct : Int, amount : {0, 1}]

\* Every stock has a bar for every day so far, and its true closes go further.
Framed ==
    /\ frame \in [Repair!CodeSet -> Seq(RepairBars)]
    /\ \A c \in Repair!CodeSet : Len(frame[c]) = Repair!today
    /\ Repair!today \in 1..Len(Truth[RepairCodes[1]])

LEMMA RepairValues ==
    /\ RepairCodes[1] \in Repair!CodeSet
    /\ Len(Truth[RepairCodes[1]]) \in Nat \ {0}
    /\ \A c \in Repair!CodeSet : Truth[c] \in Seq(Nat) /\ Len(Truth[c]) = Len(Truth[RepairCodes[1]])
    /\ Shift \in Nat
  <1>1. RepairCodes \in Seq(Repair!CodeSet) /\ RepairCodes # <<>>
    BY RepairAssumption DEF Repair!Parameters
  <1>2. RepairCodes[1] \in Repair!CodeSet
    BY <1>1
  <1>3. \A c \in Repair!CodeSet : /\ Truth[c] \in Seq(Nat) /\ Truth[c] # <<>>
                                  /\ Len(Truth[c]) = Len(Truth[RepairCodes[1]])
    BY RepairAssumption DEF Repair!Parameters
  <1>4. Shift \in Nat
    BY RepairAssumption DEF Repair!Parameters
  <1> QED
    BY <1>2, <1>3, <1>4

LEMMA TruthIsInt ==
    ASSUME NEW c \in Repair!CodeSet, NEW d \in 1..Len(Truth[RepairCodes[1]])
    PROVE  Truth[c][d] \in Nat /\ Repair!TruePct(c, d) \in Int
  <1>1. Truth[c] \in Seq(Nat) /\ Len(Truth[c]) = Len(Truth[RepairCodes[1]])
    BY RepairValues
  <1>2. \A e \in 1..Len(Truth[RepairCodes[1]]) : Truth[c][e] \in Nat
    BY <1>1
  <1>3. d # 1 => d - 1 \in 1..Len(Truth[RepairCodes[1]])
    BY RepairValues
  <1> QED
    BY <1>2, <1>3 DEF Repair!TruePct, Repair!Null

LEMMA InitFrames == ASSUME Repair!Init PROVE Framed
  <1>1. frame = [c \in Repair!CodeSet |-> <<Repair!Bar(Truth[c][1], Repair!Null, 1)>>]
    BY DEF Repair!Init
  <1>2. \A c \in Repair!CodeSet : Repair!Bar(Truth[c][1], Repair!Null, 1) \in RepairBars
    <2>1. 1 \in 1..Len(Truth[RepairCodes[1]])
      BY RepairValues
    <2> QED
      BY <2>1, TruthIsInt DEF Repair!Bar, RepairBars, Repair!Null
  <1>3. \A c \in Repair!CodeSet : frame[c] \in Seq(RepairBars) /\ Len(frame[c]) = 1
    BY <1>1, <1>2
  <1> QED
    BY <1>1, <1>3, RepairValues DEF Framed, Repair!today

\* Days of one code are overwritten with what a source answers, the number of days stays.
Rewritten(code, lo, hi, amount) ==
    frame' = [frame EXCEPT ![code] =
                 [d \in DOMAIN @ |-> IF d \in lo..hi
                                    THEN Repair!Bar(Truth[code][d], Repair!TruePct(code, d), amount)
                                    ELSE @[d]]]

LEMMA RewriteKeeps ==
    ASSUME Framed, NEW code, NEW lo, NEW hi, NEW amount \in {0, 1}, Rewritten(code, lo, hi, amount)
    PROVE  Framed' /\ Repair!today' = Repair!today
  <1> DEFINE n == Repair!today
             F == frame[code]
             new(d) == IF d \in lo..hi THEN Repair!Bar(Truth[code][d], Repair!TruePct(code, d), amount) ELSE F[d]
  <1>1. /\ frame \in [Repair!CodeSet -> Seq(RepairBars)] /\ n \in 1..Len(Truth[RepairCodes[1]])
        /\ \A c \in Repair!CodeSet : Len(frame[c]) = n
    BY DEF Framed
  <1>2. CASE code \notin Repair!CodeSet
    <2>1. frame' = frame
      BY <1>1, <1>2 DEF Rewritten
    <2> QED
      BY <2>1 DEF Framed, Repair!today
  <1>3. CASE code \in Repair!CodeSet
    <2>1. F \in Seq(RepairBars) /\ DOMAIN F = 1..n /\ n \in Nat
      BY <1>1, <1>3, RepairValues
    <2>2. \A d \in 1..n : new(d) \in RepairBars
      <3> TAKE d \in 1..n
      <3>1. F[d] \in RepairBars /\ d \in 1..Len(Truth[RepairCodes[1]])
        BY <1>1, <2>1, RepairValues
      <3>2. Repair!Bar(Truth[code][d], Repair!TruePct(code, d), amount) \in RepairBars
        BY <1>3, <3>1, TruthIsInt DEF Repair!Bar, RepairBars
      <3> QED
        BY <3>1, <3>2
    <2> DEFINE G == [d \in 1..n |-> new(d)]
    <2>3. frame' = [frame EXCEPT ![code] = G]
      BY <2>1 DEF Rewritten
    <2> HIDE DEF new
    <2>4. G \in Seq(RepairBars) /\ Len(G) = n
      BY <2>1, <2>2
    <2> HIDE DEF G, n
    <2>5. /\ frame' \in [Repair!CodeSet -> Seq(RepairBars)] /\ \A c \in Repair!CodeSet : Len(frame'[c]) = n
      BY <1>1, <1>3, <2>3, <2>4
    <2>6. Repair!today' = n
      BY <2>5, RepairValues DEF Repair!today
    <2> QED
      BY <1>1, <2>5, <2>6 DEF Framed, n
  <1> QED
    BY <1>2, <1>3

LEMMA FramesStep == ASSUME Framed, [Repair!Next]_(Repair!vars) PROVE Framed' /\ Repair!AmountsGrow
  <1> DEFINE n == Repair!today
             N == Len(Truth[RepairCodes[1]])
  <1>0. n \in 1..N /\ N \in Nat /\ RepairCodes[1] \in Repair!CodeSet
    BY RepairValues DEF Framed
  <1>1. ASSUME frame' = frame PROVE Framed' /\ Repair!AmountsGrow
    BY <1>1 DEF Framed, Repair!AmountsGrow, Repair!Missing, Repair!today
  <1>2. ASSUME NEW as \in [Repair!CodeSet -> {"true", "stuck", "bare", "level", "amount"}], Repair!NewDay(as)
        PROVE  Framed' /\ Repair!AmountsGrow
    <2>1. /\ n < N
          /\ frame' = [c \in Repair!CodeSet |-> Append(frame[c], Repair!Served(c, n + 1, as[c]))]
      BY <1>2 DEF Repair!NewDay
    <2>2. n + 1 \in 1..N /\ n \in 1..N /\ (n + 1) - 1 = n
      BY <1>0, <2>1
    <2>3. ASSUME NEW c \in Repair!CodeSet PROVE Repair!Served(c, n + 1, as[c]) \in RepairBars
      <3>1. /\ Truth[c][n + 1] \in Nat /\ Repair!TruePct(c, n + 1) \in Int
        BY <2>2, TruthIsInt
      <3>2. frame[c][(n + 1) - 1].close \in Int
        <4>1. frame[c] \in Seq(RepairBars) /\ Len(frame[c]) = n
          BY DEF Framed
        <4>2. frame[c][n] \in RepairBars
          BY <1>0, <4>1
        <4> QED
          BY <2>2, <4>2 DEF RepairBars
      <3>3. Truth[c][n + 1] * Shift \in Int
        BY <3>1, RepairValues
      <3> DEFINE t == Truth[c][n + 1]
                 p == Repair!TruePct(c, n + 1)
                 x == frame[c][(n + 1) - 1].close
                 y == Truth[c][n + 1] * Shift
                 a == as[c]
      <3>4. Repair!Served(c, n + 1, a) =
                CASE a = "stuck" -> Repair!Bar(x, 0, 1) [] a = "bare" -> Repair!Bar(x, Repair!Null, 1)
                  [] a = "level" -> Repair!Bar(y, p, 1) [] a = "amount" -> Repair!Bar(t, p, 0)
                  [] a = "true" -> Repair!Bar(t, p, 1)
        BY DEF Repair!Served
      <3>5. a \in {"true", "stuck", "bare", "level", "amount"} /\ t \in Int /\ p \in Int /\ x \in Int /\ y \in Int
        <4>1. a \in {"true", "stuck", "bare", "level", "amount"}
          OBVIOUS
        <4> HIDE DEF t, a
        <4>2. t \in Int
          BY <3>1 DEF t
        <4> QED
          BY <3>1, <3>2, <3>3, <4>1, <4>2
      <3> HIDE DEF t, p, x, y, a
      <3>6. Repair!Served(c, n + 1, a) \in RepairBars
        BY <3>4, <3>5 DEF Repair!Bar, RepairBars, Repair!Null
      <3> QED
        BY <3>6 DEF a
    <2>4. \A c \in Repair!CodeSet : frame'[c] \in Seq(RepairBars) /\ Len(frame'[c]) = n + 1
      <3> TAKE c \in Repair!CodeSet
      <3> DEFINE b == Repair!Served(c, n + 1, as[c])
      <3>1. frame[c] \in Seq(RepairBars) /\ Len(frame[c]) = n /\ b \in RepairBars
        BY <2>3 DEF Framed
      <3>2. frame'[c] = Append(frame[c], b)
        BY <2>1
      <3> HIDE DEF b, n
      <3> QED
        BY <3>1, <3>2
    <2>5. Repair!today' = n + 1
      BY <1>0, <2>4 DEF Repair!today
    <2>6. Framed'
      BY <2>1, <2>2, <2>4, <2>5 DEF Framed
    <2>7. Repair!today' > Repair!today
      BY <1>0, <2>5
    <2> QED
      BY <2>6, <2>7 DEF Repair!AmountsGrow
  <1>3. ASSUME NEW o, Repair!RepairCode(o) PROVE Framed' /\ Repair!AmountsGrow
    <2> DEFINE item == Head(task.left)
               amount == IF o = "classic" THEN 0 ELSE 1
    <2>1. task.kind = "repair" /\
          (frame' = frame \/ Rewritten(item.code, item.lo, item.hi, amount))
      BY <1>3 DEF Repair!RepairCode, Rewritten
    <2>2. amount \in {0, 1}
      OBVIOUS
    <2> HIDE DEF item, amount
    <2>3. Framed'
      BY <1>1, <2>1, <2>2, RewriteKeeps
    <2> QED
      BY <2>1, <2>3 DEF Repair!AmountsGrow
  <1>4. ASSUME NEW o, Repair!AmountCode(o) PROVE Framed' /\ Repair!AmountsGrow
    <2> DEFINE item == Head(task.left)
               row(d) == Repair!Bar(Truth[item.code][d], Repair!TruePct(item.code, d), 1)
    <2>1. frame' = frame \/ Rewritten(item.code, item.lo, item.hi, 1)
      BY <1>4 DEF Repair!AmountCode, Rewritten
    <2>2. CASE frame' # frame
      <3>0. frame' = [frame EXCEPT ![item.code] =
                         [d \in DOMAIN @ |-> IF d \in item.lo..item.hi THEN row(d) ELSE @[d]]]
        BY <2>1, <2>2 DEF Rewritten
      <3> HIDE DEF item
      <3>1. Framed' /\ Repair!today' = n
        BY <2>1, <2>2, RewriteKeeps
      <3>2. \A d : row(d).amount = 1
        BY DEF Repair!Bar
      <3> HIDE DEF row
      <3>3. ASSUME NEW c \in Repair!CodeSet, NEW d \in 1..n, frame'[c][d].amount = 0
            PROVE  frame[c][d].amount = 0
        <4>1. DOMAIN frame[c] = 1..n /\ frame \in [Repair!CodeSet -> Seq(RepairBars)]
          BY <1>0 DEF Framed
        <4>2. CASE c # item.code
          BY <3>0, <3>3, <4>1, <4>2
        <4>3. CASE c = item.code
          <5>1. frame'[c] = [e \in 1..n |-> IF e \in item.lo..item.hi THEN row(e) ELSE frame[c][e]]
            BY <3>0, <4>1, <4>3
          <5>2. frame'[c][d] = IF d \in item.lo..item.hi THEN row(d) ELSE frame[c][d]
            BY <5>1
          <5> QED
            BY <3>2, <3>3, <5>2
        <4> QED
          BY <4>2, <4>3
      <3>4. Repair!Missing' \subseteq Repair!Missing
        BY <3>1, <3>3 DEF Repair!Missing
      <3> QED
        BY <3>1, <3>4 DEF Repair!AmountsGrow
    <2> QED
      BY <1>1, <2>2
  <1>5. \A kind, work, found : Repair!Task(kind, work, found) => frame' = frame
    BY DEF Repair!Task
  <1>6. Repair!FullRepair \/ Repair!BackfillAmount => frame' = frame
    BY <1>5 DEF Repair!FullRepair, Repair!BackfillAmount
  <1>7. Repair!Restart \/ UNCHANGED Repair!vars => frame' = frame
    BY DEF Repair!Restart, Repair!vars
  <1> QED
    BY <1>1, <1>2, <1>3, <1>4, <1>6, <1>7 DEF Repair!Next

-----------------------------------------------------------------------------
(* The raw store of one stock *)

\* Only the first bar of an asked window may come without a return.
Returned(answer, lo) == \A d \in DOMAIN answer : answer[d].pct = Kline!Null => d = lo

Prices ==
    /\ price \in Seq(Int) /\ paid \in Seq(Int) /\ price # <<>> /\ Len(paid) = Len(price)
    /\ \A d \in 2..Len(price) : price[d] - price[d - 1] \in Moves /\ paid[d] - paid[d - 1] \in {0, 1}

\* The rows a job holds are of days that have come.
Working ==
    /\ job = [j \in Jobs |-> job[j]]
    /\ \A j \in Jobs : job[j].at # "idle" =>
           /\ job[j] = [at |-> job[j].at, end |-> job[j].end, rows |-> job[j].rows, lo |-> job[j].lo]
           /\ job[j].lo \in Nat \ {0} /\ job[j].end \in Nat /\ job[j].end <= Len(price)
           /\ job[j].at = "fetched" => Returned(job[j].rows, job[j].lo)

StoreInv == Prices /\ Working

LEMMA TodayIsLen == ASSUME Prices PROVE Kline!today = Len(price) /\ Len(price) \in Nat \ {0} /\ DOMAIN price = 1..Len(price)
  <1>1. Len(price) \in Nat \ {0} /\ DOMAIN price = 1..Len(price)
    BY DEF Prices
  <1>2. Cardinality(1..Len(price)) = Len(price)
    BY <1>1, FS_Interval
  <1>3. Kline!Cardinality(1..Len(price)) = Cardinality(1..Len(price))
    BY DEF Kline!Cardinality, Cardinality
  <1> QED
    BY <1>1, <1>2, <1>3 DEF Kline!today

\* What a source answers, on raw or on adjusted closes, lacks the return of the first bar only.
LEMMA AnswerReturned ==
    ASSUME NEW n \in Nat, NEW close, NEW lo \in Nat \ {0}, NEW hi \in Nat, hi <= n, NEW source,
           source \in {"tencent", "em", "none"},
           \A d \in 2..n : close[d] - close[d - 1] # Kline!Null /\ price[d] - price[d - 1] # Kline!Null
    PROVE  Returned(Kline!Answer(close, lo, hi, source), lo)
  <1> DEFINE D == IF source = "none" THEN {} ELSE lo..hi
             pct(d) == CASE source = "tencent" -> Kline!TencentPct(close, d, lo)
                         [] source = "em" -> Kline!TruePct(d)
                         [] source = "banned" -> Kline!Null
             answer == Kline!Answer(close, lo, hi, source)
  <1>1. answer = [d \in D |-> [close |-> close[d], pct |-> pct(d)]]
    BY DEF Kline!Answer
  <1>2. ASSUME NEW d \in D PROVE pct(d) = Kline!Null => d = lo
    <2>1. d \in lo..hi /\ source \in {"tencent", "em"}
      BY <1>2
    <2>2. d # lo => d # 1 /\ d \in 2..n
      BY <2>1
    <2>3. CASE source = "tencent"
      <3>1. pct(d) = IF d = lo THEN Kline!Null ELSE close[d] - close[d - 1]
        BY <2>3 DEF Kline!TencentPct
      <3> QED
        BY <2>2, <3>1
    <2>4. CASE source = "em"
      <3>1. pct(d) = IF d = 1 THEN Kline!Null ELSE price[d] - price[d - 1]
        BY <2>4 DEF Kline!TruePct
      <3> QED
        BY <2>2, <3>1
    <2> QED
      BY <2>1, <2>3, <2>4
  <1> HIDE DEF pct, answer, D
  <1>3. DOMAIN answer = D /\ \A d \in D : answer[d].pct = pct(d)
    BY <1>1
  <1>4. Returned(answer, lo)
    BY <1>2, <1>3 DEF Returned
  <1> QED
    BY <1>4 DEF answer

LEMMA FetchReturned ==
    ASSUME Prices, NEW lo \in Nat \ {0}, NEW hi \in Nat, hi <= Len(price),
           NEW s \in Sources, NEW q \in Sources
    PROVE  Returned(Kline!TrueRows(lo, hi, s, q), lo)
  <1> DEFINE n == Len(price)
             R == [d \in Kline!Days |-> Kline!Raw(d)]
             Q == [d \in Kline!Days |-> price[d] - paid[Kline!today]]
             raw == Kline!RawRows(lo, hi, s)
             qfq == Kline!QfqRows(lo, hi, q)
  <1>1. Kline!today = n /\ n \in Nat \ {0} /\ Kline!Days = 1..n
    BY TodayIsLen DEF Kline!Days
  <1>2. /\ Moves \subseteq Int /\ \A m \in Moves : m # Kline!Null /\ m - 1 # Kline!Null
        /\ \A x \in Sources : Kline!Usable(x) \in {"tencent", "em", "none"}
    BY KlineAssumption DEF Kline!Parameters, Kline!Usable
  <1>3. ASSUME NEW d \in 2..n
        PROVE  /\ price[d] - price[d - 1] # Kline!Null /\ R[d] - R[d - 1] # Kline!Null
               /\ Q[d] - Q[d - 1] # Kline!Null
    <2>1. d \in 1..n /\ d - 1 \in 1..n
      BY <1>1
    <2>9. d \in 2..Len(price)
      OBVIOUS
    <2>10. price[d] - price[d - 1] \in Moves /\ paid[d] - paid[d - 1] \in {0, 1}
      BY <2>9, Zenon DEF Prices
    <2>11. /\ DOMAIN price = 1..n /\ DOMAIN paid = 1..n /\ n \in 1..n
           /\ \A i \in 1..n : price[i] \in Int /\ paid[i] \in Int
      <3>1. n \in 1..n
        BY <1>1
      <3> QED
        BY <3>1, SMTT(30) DEF Prices
    <2>2. /\ price[d] \in Int /\ price[d - 1] \in Int /\ paid[d] \in Int /\ paid[d - 1] \in Int /\ paid[n] \in Int
          /\ price[d] - price[d - 1] \in Moves /\ paid[d] - paid[d - 1] \in {0, 1}
      BY <2>1, <2>10, <2>11
    <2>3. /\ R[d] = price[d] - paid[d] /\ R[d - 1] = price[d - 1] - paid[d - 1]
          /\ Q[d] = price[d] - paid[n] /\ Q[d - 1] = price[d - 1] - paid[n]
      BY <1>1, <2>1 DEF Kline!Raw
    <2> DEFINE a == price[d]
               b == price[d - 1]
               x == paid[d]
               y == paid[d - 1]
               z == paid[n]
    <2>4. a \in Int /\ b \in Int /\ x \in Int /\ y \in Int /\ z \in Int /\ a - b \in Moves /\ x - y \in {0, 1}
      BY <2>2
    <2> HIDE DEF a, b, x, y, z, R, Q, n
    <2>5. /\ (a - x) - (b - y) = (a - b) - (x - y) /\ (a - z) - (b - z) = a - b
      BY <2>4
    <2>6. (a - b) - (x - y) = a - b \/ (a - b) - (x - y) = (a - b) - 1
      BY <2>4
    <2>7. R[d] - R[d - 1] = (a - x) - (b - y) /\ Q[d] - Q[d - 1] = (a - z) - (b - z)
      BY <2>3 DEF a, b, x, y, z
    <2>8. a - b # Kline!Null /\ (a - b) - 1 # Kline!Null
      BY <1>2, <2>4
    <2> QED
      BY <2>5, <2>6, <2>7, <2>8 DEF a, b
  <1> HIDE DEF R, Q, n
  <1>4. hi <= n
    BY DEF n
  <1>5. Returned(raw, lo)
    <2>1. raw = Kline!Answer(R, lo, hi, Kline!Usable(s))
      BY DEF Kline!RawRows, R
    <2>2. Kline!Usable(s) \in {"tencent", "em", "none"}
      BY <1>2
    <2> HIDE DEF raw
    <2> QED
      BY <1>1, <1>3, <1>4, <2>1, <2>2, AnswerReturned
  <1>6. Returned(qfq, lo)
    <2>1. qfq = Kline!Answer(Q, lo, hi, Kline!Usable(q))
      BY DEF Kline!QfqRows, Q
    <2>2. Kline!Usable(q) \in {"tencent", "em", "none"}
      BY <1>2
    <2> HIDE DEF qfq
    <2> QED
      BY <1>1, <1>3, <1>4, <2>1, <2>2, AnswerReturned
  <1> DEFINE answer == Kline!TrueRows(lo, hi, s, q)
             new(d) == IF d \in DOMAIN qfq /\ qfq[d].pct # Kline!Null THEN [raw[d] EXCEPT !.pct = qfq[d].pct]
                       ELSE raw[d]
  <1>7. answer = [d \in DOMAIN raw |-> new(d)]
    BY DEF Kline!TrueRows
  <1>8. \A d \in DOMAIN raw : DOMAIN raw[d] = {"close", "pct"}
    BY DEF Kline!RawRows, Kline!Answer
  <1> HIDE DEF raw, qfq, answer
  <1>9. \A d \in DOMAIN raw : new(d).pct = Kline!Null => d = lo
    <2> TAKE d \in DOMAIN raw
    <2>1. CASE d \in DOMAIN qfq /\ qfq[d].pct # Kline!Null
      <3> DEFINE p == qfq[d].pct
      <3>1. new(d) = [raw[d] EXCEPT !.pct = p] /\ DOMAIN raw[d] = {"close", "pct"}
        BY <1>8, <2>1
      <3>2. p # Kline!Null
        BY <2>1
      <3> HIDE DEF p, new
      <3>3. new(d).pct = p
        BY <3>1
      <3> QED
        BY <3>2, <3>3
    <2>2. CASE ~(d \in DOMAIN qfq /\ qfq[d].pct # Kline!Null)
      BY <1>5, <2>2 DEF Returned
    <2> QED
      BY <2>1, <2>2
  <1> HIDE DEF new
  <1>10. Returned(answer, lo)
    BY <1>7, <1>9 DEF Returned
  <1> QED
    BY <1>10 DEF answer

LEMMA InitStore == ASSUME Kline!Init PROVE StoreInv
  <1>1. price = <<0>> /\ paid = <<0>> /\ bars = <<>> /\ job = [j \in Jobs |-> Kline!Idle]
    BY DEF Kline!Init
  <1>2. Prices
    BY <1>1 DEF Prices
  <1>3. Working
    BY <1>1 DEF Working, Kline!Idle
  <1> QED
    BY <1>2, <1>3 DEF StoreInv

\* A job that is over, or sets out on a window.
LEMMA JobMoves ==
    ASSUME Working, NEW j \in Jobs, NEW x, job' = [job EXCEPT ![j] = x], price' = price,
           x.at # "idle" => /\ x = [at |-> x.at, end |-> x.end, rows |-> x.rows, lo |-> x.lo]
                            /\ x.lo \in Nat \ {0} /\ x.end \in Nat /\ x.end <= Len(price)
                            /\ x.at = "fetched" => Returned(x.rows, x.lo)
    PROVE  Working'
  <1>1. job = [i \in Jobs |-> job[i]]
    BY DEF Working
  <1> DEFINE J == [i \in Jobs |-> IF i = j THEN x ELSE job[i]]
  <1>2. job' = J
    BY <1>1
  <1>3. /\ J = [i \in Jobs |-> J[i]] /\ J[j] = x /\ \A i \in Jobs : i # j => J[i] = job[i]
    OBVIOUS
  <1> HIDE DEF J
  <1>4. ASSUME NEW i \in Jobs, J[i].at # "idle"
        PROVE  /\ J[i] = [at |-> J[i].at, end |-> J[i].end, rows |-> J[i].rows, lo |-> J[i].lo]
               /\ J[i].lo \in Nat \ {0} /\ J[i].end \in Nat /\ J[i].end <= Len(price)
               /\ J[i].at = "fetched" => Returned(J[i].rows, J[i].lo)
    <2>1. CASE i = j
      <3>1. J[i] = x
        BY <1>3, <2>1
      <3> QED
        BY <1>4, <3>1
    <2>2. CASE i # j
      <3>1. J[i] = job[i]
        BY <1>3, <2>2
      <3> QED
        BY <1>4, <3>1 DEF Working
    <2> QED
      BY <2>1, <2>2
  <1> QED
    BY <1>2, <1>3, <1>4 DEF Working, Returned

\* The window of a job lies in the days that have come.
LEMMA WindowEnds ==
    ASSUME Prices, Working, NEW j \in Jobs, job[j].at # "idle"
    PROVE  /\ job[j].lo \in Nat \ {0} /\ job[j].end \in Nat /\ job[j].end <= Len(price)
           /\ Kline!ChunkEnd(j) \in Nat /\ Kline!ChunkEnd(j) <= Len(price)
  <1>1. /\ job[j].lo \in Nat \ {0} /\ job[j].end \in Nat /\ job[j].end <= Len(price)
    BY DEF Working
  <1>2. Chunk \in Nat
    BY KlineAssumption DEF Kline!Parameters
  <1>3. Len(price) \in Nat
    BY TodayIsLen
  <1>4. Chunk # 0
    BY KlineAssumption DEF Kline!Parameters
  <1> QED
    BY <1>1, <1>2, <1>3, <1>4 DEF Kline!ChunkEnd

LEMMA ProceedKeeps ==
    ASSUME Prices, Working, NEW j \in Jobs, job[j].at # "idle", price' = price, Kline!Proceed(j)
    PROVE  Working'
  <1> DEFINE e == Kline!ChunkEnd(j)
             x == IF e = job[j].end THEN Kline!Idle ELSE [job[j] EXCEPT !.at = "next", !.lo = e + 1, !.rows = <<>>]
  <1>1. job' = [job EXCEPT ![j] = x]
    BY DEF Kline!Proceed
  <1>2. e \in Nat /\ job[j].end \in Nat /\ job[j].end <= Len(price)
    BY WindowEnds
  <1>3. job[j] = [at |-> job[j].at, end |-> job[j].end, rows |-> job[j].rows, lo |-> job[j].lo]
    BY DEF Working
  <1> DEFINE y == [at |-> "next", end |-> job[j].end, rows |-> <<>>, lo |-> e + 1]
  <1>4. x = Kline!Idle \/ x = y
    BY <1>3
  <1>5. /\ y = [at |-> y.at, end |-> y.end, rows |-> y.rows, lo |-> y.lo] /\ y.at = "next"
        /\ y.lo = e + 1 /\ y.end = job[j].end
    OBVIOUS
  <1>6. Kline!Idle.at = "idle"
    BY DEF Kline!Idle
  <1> HIDE DEF x, y, e
  <1>7. x.at # "idle" => /\ x = [at |-> x.at, end |-> x.end, rows |-> x.rows, lo |-> x.lo]
                         /\ x.lo \in Nat \ {0} /\ x.end \in Nat /\ x.end <= Len(price)
                         /\ x.at = "fetched" => Returned(x.rows, x.lo)
    <2>1. e + 1 \in Nat \ {0}
      BY <1>2
    <2> QED
      BY <1>2, <1>4, <1>5, <1>6, <2>1
  <1> QED
    BY <1>1, <1>7, JobMoves

\* A commit of returned rows takes no return away but where the window begins.
LEMMA UpsertKeepsPct ==
    ASSUME NEW j \in Jobs, job[j].at = "fetched", NEW new, Returned(new, job[j].lo),
           bars' = Kline!Overwrite(new, bars)
    PROVE  Kline!ReturnsKept
  <1>1. bars' = [d \in DOMAIN new \cup DOMAIN bars |-> IF d \in DOMAIN new THEN new[d] ELSE bars[d]]
    BY DEF Kline!Overwrite
  <1>2. DOMAIN bars' = DOMAIN new \cup DOMAIN bars
        /\ \A d \in DOMAIN bars' : bars'[d] = IF d \in DOMAIN new THEN new[d] ELSE bars[d]
    BY <1>1
  <1>3. \A d \in DOMAIN bars : bars[d].pct # Kline!Null /\ bars'[d].pct = Kline!Null => d = job[j].lo
    BY <1>2 DEF Returned
  <1> QED
    BY <1>2, <1>3 DEF Kline!ReturnsKept

LEMMA StoreStep ==
    ASSUME StoreInv, [Kline!Next]_(Kline!vars) PROVE StoreInv' /\ Kline!ReturnsKept
  <1> DEFINE n == Len(price)
  <1>0. /\ Prices /\ Working /\ n \in Nat \ {0} /\ Kline!today = n
        /\ job = [j \in Jobs |-> job[j]]
    BY TodayIsLen DEF StoreInv, Working
  <1>1. ASSUME bars' = bars PROVE Kline!ReturnsKept
    BY <1>1 DEF Kline!ReturnsKept
  <1>2. ASSUME price' = price, paid' = paid PROVE Prices'
    BY <1>0, <1>2 DEF Prices
  <1>3. ASSUME NEW m \in Moves, NEW e \in {0, 1}, Kline!NewDay(m, e) PROVE StoreInv' /\ Kline!ReturnsKept
    <2>1. /\ price' = Append(price, price[n] + m) /\ paid' = Append(paid, paid[n] + e)
          /\ bars' = bars /\ job' = job
      BY <1>0, <1>3 DEF Kline!NewDay
    <2>2. /\ price \in Seq(Int) /\ paid \in Seq(Int) /\ Len(paid) = n /\ price[n] \in Int /\ paid[n] \in Int /\ m \in Int
          /\ \A d \in 2..n : price[d] - price[d - 1] \in Moves /\ paid[d] - paid[d - 1] \in {0, 1}
      <3>1. price \in Seq(Int) /\ paid \in Seq(Int) /\ Len(paid) = n /\ n \in 1..n
        BY <1>0 DEF Prices
      <3>2. price[n] \in Int /\ paid[n] \in Int
        BY <3>1
      <3>3. m \in Int
        BY KlineAssumption DEF Kline!Parameters
      <3> QED
        BY <1>0, <3>1, <3>2, <3>3 DEF Prices
    <2> DEFINE a == price[n] + m
               b == paid[n] + e
    <2>3. a \in Int /\ b \in Int /\ a - price[n] = m /\ b - paid[n] = e
      BY <2>2
    <2> HIDE DEF a, b, n
    <2>4. /\ price' \in Seq(Int) /\ paid' \in Seq(Int) /\ Len(price') = n + 1 /\ Len(paid') = n + 1
          /\ price'[n + 1] = a /\ paid'[n + 1] = b
          /\ \A d \in 1..n : price'[d] = price[d] /\ paid'[d] = paid[d]
      <3>1. price' = Append(price, a) /\ paid' = Append(paid, b) /\ Len(price) = n
        BY <2>1 DEF a, b, n
      <3> QED
        BY <2>2, <2>3, <3>1
    <2>5. \A d \in 2..n + 1 : price'[d] - price'[d - 1] \in Moves /\ paid'[d] - paid'[d - 1] \in {0, 1}
      <3> TAKE d \in 2..n + 1
      <3>1. CASE d \in 2..n
        <4>1. d \in 1..n /\ d - 1 \in 1..n
          BY <1>0, <3>1
        <4> QED
          BY <2>2, <2>4, <3>1, <4>1
      <3>2. CASE d = n + 1
        <4>1. d - 1 = n /\ n \in 1..n
          BY <1>0, <3>2
        <4> QED
          BY <2>3, <2>4, <3>2, <4>1
      <3>3. d \in 2..n \/ d = n + 1
        BY <1>0
      <3> QED
        BY <3>1, <3>2, <3>3
    <2>6. Prices'
      <3>1. price' # <<>>
        BY <1>0, <2>4
      <3> QED
        BY <2>4, <2>5, <3>1 DEF Prices
    <2>7. Working'
      <3>1. \A x \in Nat : x <= n => x <= Len(price')
        BY <1>0, <2>4
      <3> QED
        BY <2>1, <3>1 DEF n, StoreInv, Working, Returned, Kline!Null
    <2> QED
      BY <1>1, <2>1, <2>6, <2>7 DEF StoreInv
  <1>4. ASSUME NEW j \in Jobs, Kline!Begin(j) PROVE StoreInv' /\ Kline!ReturnsKept
    <2> DEFINE x == [at |-> "next", end |-> n, rows |-> <<>>, lo |-> Kline!FirstDay(j)]
    <2>1. job' = [job EXCEPT ![j] = x] /\ price' = price /\ paid' = paid /\ bars' = bars
      BY <1>0, <1>4 DEF Kline!Begin
    <2>2. Kline!FirstDay(j) \in Nat \ {0}
      <3>1. Lookback \in Nat
        BY KlineAssumption DEF Kline!Parameters
      <3>2. n - Lookback + 1 \in Int
        BY <1>0, <3>1
      <3> DEFINE k == n - Lookback + 1
      <3> HIDE DEF k
      <3>3. Kline!MaxDay({1, k}) = IF k >= 1 THEN k ELSE 1
        BY <3>2 DEF Kline!MaxDay, k
      <3>4. Kline!FirstDay(j) = 1 \/ Kline!FirstDay(j) = Kline!MaxDay({1, k})
        BY <1>0 DEF Kline!FirstDay, k
      <3> QED
        BY <3>2, <3>3, <3>4 DEF k
    <2>3. /\ x = [at |-> x.at, end |-> x.end, rows |-> x.rows, lo |-> x.lo] /\ x.at = "next"
          /\ x.lo = Kline!FirstDay(j) /\ x.end = n
      OBVIOUS
    <2> HIDE DEF x
    <2>4. Working'
      <3>1. n <= Len(price) /\ n \in Nat
        BY <1>0
      <3> QED
        BY <1>0, <2>1, <2>2, <2>3, <3>1, JobMoves
    <2> QED
      BY <1>1, <1>2, <2>1, <2>4 DEF StoreInv
  <1>5. ASSUME NEW j \in Jobs, NEW s \in Sources, NEW q \in Sources, Kline!Fetch(j, s, q)
        PROVE  StoreInv' /\ Kline!ReturnsKept
    <2> DEFINE answer == Kline!TrueRows(job[j].lo, Kline!ChunkEnd(j), s, q)
               x == [job[j] EXCEPT !.at = "fetched", !.rows = answer]
    <2>1. /\ job[j].at = "next" /\ price' = price /\ paid' = paid /\ bars' = bars
          /\ Kline!Proceed(j) \/ job' = [job EXCEPT ![j] = x]
      BY <1>5 DEF Kline!Fetch
    <2>2. Returned(answer, job[j].lo)
      BY <1>0, <2>1, WindowEnds, FetchReturned
    <2>3. job[j] = [at |-> job[j].at, end |-> job[j].end, rows |-> job[j].rows, lo |-> job[j].lo]
          /\ job[j].lo \in Nat \ {0} /\ job[j].end \in Nat /\ job[j].end <= Len(price)
      BY <1>0, <2>1 DEF Working
    <2> HIDE DEF answer
    <2>4. x = [at |-> "fetched", end |-> job[j].end, rows |-> answer, lo |-> job[j].lo]
      <3> DEFINE y == job[j]
                 a == y.at
                 e == y.end
                 r == y.rows
                 l == y.lo
      <3>1. y = [at |-> a, end |-> e, rows |-> r, lo |-> l] /\ x = [y EXCEPT !.at = "fetched", !.rows = answer]
        BY <2>3
      <3> HIDE DEF y, a, e, r, l, x
      <3> DEFINE u == [y EXCEPT !.at = "fetched"]
      <3>2. u = [at |-> "fetched", end |-> e, rows |-> r, lo |-> l] /\ x = [u EXCEPT !.rows = answer]
        BY <3>1
      <3> HIDE DEF u
      <3>3. x = [at |-> "fetched", end |-> e, rows |-> answer, lo |-> l]
        BY <3>2
      <3> QED
        BY <3>3 DEF e, l, y
    <2> HIDE DEF x
    <2>5. /\ x = [at |-> x.at, end |-> x.end, rows |-> x.rows, lo |-> x.lo]
          /\ x.lo = job[j].lo /\ x.end = job[j].end /\ x.rows = answer
      BY <2>4
    <2>6. Working'
      <3>1. CASE Kline!Proceed(j)
        BY <1>0, <2>1, <3>1, ProceedKeeps
      <3>2. CASE job' = [job EXCEPT ![j] = x]
        BY <1>0, <2>1, <2>2, <2>3, <2>5, <3>2, JobMoves
      <3> QED
        BY <2>1, <3>1, <3>2
    <2> QED
      BY <1>1, <1>2, <2>1, <2>6 DEF StoreInv
  <1>6. ASSUME NEW j \in Jobs, NEW at, at \in {"upserted", "event"}, job[j].at # "idle",
               job' = [job EXCEPT ![j].at = at], price' = price
        PROVE  Working'
    <2> DEFINE x == [job[j] EXCEPT !.at = at]
    <2>1. job[j] = [at |-> job[j].at, end |-> job[j].end, rows |-> job[j].rows, lo |-> job[j].lo]
          /\ job[j].lo \in Nat \ {0} /\ job[j].end \in Nat /\ job[j].end <= Len(price)
      BY <1>0, <1>6 DEF Working
    <2>2. x = [at |-> at, end |-> job[j].end, rows |-> job[j].rows, lo |-> job[j].lo]
      BY <2>1
    <2>3. job' = [job EXCEPT ![j] = x]
      BY <1>6
    <2> HIDE DEF x
    <2>4. /\ x = [at |-> x.at, end |-> x.end, rows |-> x.rows, lo |-> x.lo]
          /\ x.lo = job[j].lo /\ x.end = job[j].end /\ x.at # "fetched"
      BY <1>6, <2>2
    <2> QED
      BY <1>0, <1>6, <2>1, <2>3, <2>4, JobMoves
  <1>7. ASSUME NEW j \in Jobs, Kline!Upsert(j) PROVE StoreInv' /\ Kline!ReturnsKept
    <2>1. /\ job[j].at = "fetched" /\ bars' = Kline!Overwrite(job[j].rows, bars)
          /\ job' = [job EXCEPT ![j].at = "upserted"] /\ price' = price /\ paid' = paid
      BY <1>7 DEF Kline!Upsert
    <2>2. Returned(job[j].rows, job[j].lo)
      BY <1>0, <2>1 DEF Working
    <2>3. Kline!ReturnsKept
      BY <1>0, <2>1, <2>2, UpsertKeepsPct
    <2>4. Working'
      BY <1>6, <2>1
    <2> QED
      BY <1>2, <2>1, <2>3, <2>4 DEF StoreInv
  <1>8. ASSUME NEW j \in Jobs, Kline!Maintain(j) \/ Kline!ReAnchor(j) PROVE StoreInv' /\ Kline!ReturnsKept
    <2>1. /\ job[j].at # "idle" /\ bars' = bars /\ price' = price /\ paid' = paid
          /\ Kline!Proceed(j) \/ job' = [job EXCEPT ![j].at = "event"]
      BY <1>8 DEF Kline!Maintain, Kline!ReAnchor
    <2>2. Working'
      BY <1>0, <1>6, <2>1, ProceedKeeps
    <2> QED
      BY <1>1, <1>2, <2>1, <2>2 DEF StoreInv
  <1>9. ASSUME NEW j \in Jobs, Kline!CutOff(j) PROVE StoreInv' /\ Kline!ReturnsKept
    <2>1. job' = [job EXCEPT ![j] = Kline!Idle] /\ bars' = bars /\ price' = price /\ paid' = paid
      BY <1>9 DEF Kline!CutOff
    <2>2. Kline!Idle.at = "idle"
      BY DEF Kline!Idle
    <2>3. Working'
      BY <1>0, <2>1, <2>2, JobMoves
    <2> QED
      BY <1>1, <1>2, <2>1, <2>3 DEF StoreInv
  <1>10. CASE UNCHANGED Kline!vars
    <2>1. bars' = bars /\ price' = price /\ paid' = paid /\ job' = job
      BY <1>10 DEF Kline!vars
    <2>2. Working'
      BY <1>0, <2>1 DEF Working, Returned, Kline!Null
    <2> QED
      BY <1>1, <1>2, <2>1, <2>2 DEF StoreInv
  <1> QED
    BY <1>3, <1>4, <1>5, <1>7, <1>8, <1>9, <1>10 DEF Kline!Next

-----------------------------------------------------------------------------
(* What no step takes away, in the parts together *)

Kept ==
    /\ focus = "kline" => StoreInv
    /\ focus = "repair" => Framed
    /\ focus = "feeds" => NewsInv
    /\ focus = "board" => BoardInv

\* No job takes a bar away or erases a stored return but where its window begins, for any
\* prices, windows, sources and corporate actions; no backfill loses an amount, no fetch of
\* the news a score; the morning patrol tells a truncated day and neither job touches the rows
\* of the other.
THEOREM StoresAreKept == Spec => StoresKeep
  <1>1. Init => Kept
    <2>1. Feed!Init => NewsInv
      BY DEF Feed!Init, NewsInv
    <2> QED
      BY <2>1, InitStore, InitFrames, InitBoard DEF Init, Kept
  <1> DEFINE A == /\ focus = "kline" => Kline!ReturnsKept
                  /\ focus = "repair" => Repair!AmountsGrow
                  /\ focus = "feeds" => Feed!ScoresSurvive
                  /\ focus = "board" => Board!TruncationFails /\ Board!OthersRowsKept
  <1>2. ASSUME Kept, [Next]_vars PROVE Kept' /\ [A]_vars
    <2>1. CASE UNCHANGED vars
      <3>1. /\ focus' = focus /\ UNCHANGED Kline!vars /\ UNCHANGED Repair!vars /\ UNCHANGED Feed!vars
            /\ UNCHANGED Board!vars
        BY <2>1 DEF vars, klineVars, repairVars, feedVars, boardVars, Kline!vars, Repair!vars, Feed!vars, Board!vars
      <3>2. Kept'
        BY <1>2, <3>1, StoreStep, FramesStep, NewsStep, BoardStep DEF Kept
      <3> QED
        BY <2>1, <3>2
    <2>2. CASE Next
      <3>1. /\ focus' = focus
            /\ focus = "kline" => Kline!Next
            /\ focus = "repair" => Repair!Next
            /\ focus = "feeds" => Feed!Next
            /\ focus = "board" => Board!Next
        BY <2>2 DEF Next
      <3>2. focus = "kline" => StoreInv' /\ Kline!ReturnsKept
        BY <1>2, <3>1, StoreStep DEF Kept
      <3>3. focus = "repair" => Framed' /\ Repair!AmountsGrow
        BY <1>2, <3>1, FramesStep DEF Kept
      <3>4. focus = "feeds" => NewsInv' /\ Feed!ScoresSurvive
        BY <1>2, <3>1, NewsStep DEF Kept
      <3>5. focus = "board" => BoardInv' /\ Board!TruncationFails /\ Board!OthersRowsKept
        BY <1>2, <3>1, BoardStep, BoardTellsTruncation, BoardKeepsOthers DEF Kept
      <3> HIDE DEF Next
      <3>6. Kept'
        BY <3>1, <3>2, <3>3, <3>4, <3>5 DEF Kept
      <3> QED
        BY <3>2, <3>3, <3>4, <3>5, <3>6
    <2> QED
      BY <1>2, <2>1, <2>2
  <1>3. StoresKeep <=> [][A]_vars
    BY DEF StoresKeep
  <1>4. Kept /\ [Next]_vars => Kept' /\ [A]_vars
    BY <1>2
  <1> QED
    BY <1>1, <1>3, <1>4, PTL DEF Spec

-----------------------------------------------------------------------------
(* What the feeds store *)

FeedItems == UNION {Feed!ToSet(Feed!Items[f]) : f \in Feed!Keyed}
FeedThings == FeedItems \cup Feed!CodeSet
FeedRuns == [feed : Feed!Keyed \cup {"idle", "finance"}, left : Seq(FeedThings), missed : SUBSET FeedThings,
             bad : Nat, began : Nat, all : BOOLEAN, of : SUBSET Feed!CodeSet, aborted : BOOLEAN]

\* Nothing is newer than its source; figures are dated by the day they are from.
Served ==
    /\ served \in 1..MaxVersion /\ runs \in 0..MaxRuns
    /\ stored \in [FeedItems -> 0..served]
    /\ fin \in [Feed!CodeSet -> [version : 0..served, touched : 0..served]]
    /\ \A c \in Feed!CodeSet : fin[c].touched = fin[c].version

\* What a run has come by so far is up to date in the tables st and fg, and what it has not
\* is still to come or was missed.
Reached(r, st, fg) ==
    /\ r.feed \in Feed!Keyed =>
        /\ Members(r.left) \subseteq FeedItems
        /\ \A i \in Members(Feed!Items[r.feed]) \ r.missed : i \in Members(r.left) \/ st[i] >= r.began
    /\ r.feed = "finance" =>
        /\ Members(r.left) \subseteq Feed!CodeSet
        /\ r.all => \A c \in r.of : fg[c].version = 0 => c \in r.missed \cup Members(r.left)

\* Each item of a run is still to come or over, never both.
Sorted(r) == Distinct(r.left) /\ r.missed \cap Members(r.left) = {}

Running ==
    /\ run \in FeedRuns /\ Reached(run, stored, fin) /\ Sorted(run)
    /\ run.began <= served /\ run.bad < FeedBreaker /\ ~run.aborted
    /\ run.feed = "idle" <=> run.left = <<>>

\* A run that came to its end has nothing left unless the breaker stopped it.
Closed(r, st, fg) ==
    /\ r \in FeedRuns /\ Reached(r, st, fg)
    /\ r.aborted => r.feed = "finance"
    /\ ~r.aborted => r.left = <<>>
Done == Closed(last, stored, fin)

\* The seats of a side, the rows of a lower rank never the newer ones.
SeatsOf(ranks, v) == ranks \in Seq(0..v) /\ \A r \in 1..Len(ranks) - 1 : ranks[r + 1] <= ranks[r]

\* The snapshots: one answer each, and a stock in all of them up to a day has its industry.
PoolDays == UNION {[S -> [industry : Feed!CodeSet \cup {Feed!NoIndustry}, answer : Nat]] :
                      S \in SUBSET Feed!CodeSet}
OneAnswer(snapshot) == \A a, b \in DOMAIN snapshot : snapshot[a].answer = snapshot[b].answer
HandedDown(p, d) == \A c \in DOMAIN p[d] : (\A x \in 1..d : c \in DOMAIN p[x]) => p[d][c].industry = c
Pools(p) == p \in Seq(PoolDays) /\ p # <<>> /\ \A d \in DOMAIN p : OneAnswer(p[d]) /\ HandedDown(p, d)

FeedInv == Served /\ Running /\ Done /\ SeatsOf(seatRows, served) /\ Pools(pool)

LEMMA FeedValues ==
    /\ FeedCodes \in Seq(Feed!CodeSet) /\ Distinct(FeedCodes) /\ IsFiniteSet(Feed!CodeSet)
    /\ Members(FeedCodes) = Feed!CodeSet
    /\ MaxVersion \in Nat \ {0} /\ MaxRuns \in Nat /\ FeedBreaker \in Nat \ {0}
    /\ StaleCap \in Nat /\ MissingCap \in Nat /\ RefreshDays \in Nat
  <1>1. /\ FeedCodes \in Seq(Feed!CodeSet) /\ Distinct(FeedCodes)
        /\ MaxVersion \in Nat \ {0} /\ MaxRuns \in Nat /\ FeedBreaker \in Nat \ {0}
        /\ StaleCap \in Nat /\ MissingCap \in Nat /\ RefreshDays \in Nat
    BY FeedAssumption DEF Feed!Parameters, Feed!IsInjective, Distinct
  <1>2. Members(FeedCodes) = Feed!CodeSet
    BY DEF Members, Feed!CodeSet, Feed!ToSet
  <1>3. IsFiniteSet(Feed!CodeSet)
    <2>1. DOMAIN FeedCodes = 1..Len(FeedCodes) /\ Len(FeedCodes) \in Nat
      BY <1>1
    <2>2. IsFiniteSet(DOMAIN FeedCodes)
      BY <2>1, FS_Interval
    <2>3. FeedCodes \in Surjection(DOMAIN FeedCodes, Feed!CodeSet)
      BY <1>1, <1>2, <2>1 DEF Surjection, Members
    <2> QED
      BY <2>2, <2>3, FS_Surjection
  <1> QED
    BY <1>1, <1>2, <1>3

LEMMA OneOrTwo ==
    ASSUME NEW T, NEW x \in T, NEW y \in T
    PROVE  /\ <<x>> \in Seq(T) /\ <<x>> # <<>> /\ Distinct(<<x>>)
           /\ <<x, y>> \in Seq(T) /\ <<x, y>> # <<>> /\ (x # y => Distinct(<<x, y>>))
  <1>1. <<x>> \in Seq(T) /\ <<x>> # <<>> /\ <<x, y>> \in Seq(T) /\ <<x, y>> # <<>>
    OBVIOUS
  <1>2. DOMAIN <<x>> = {1} /\ DOMAIN <<x, y>> = {1, 2} /\ <<x, y>>[1] = x /\ <<x, y>>[2] = y
    OBVIOUS
  <1>3. Distinct(<<x>>)
    BY <1>2 DEF Distinct
  <1>4. x # y => Distinct(<<x, y>>)
    BY <1>2 DEF Distinct
  <1> QED
    BY <1>1, <1>3, <1>4

\* The items of a feed, each of them once.
LEMMA ItemsOf ==
    ASSUME NEW f \in Feed!Keyed
    PROVE  /\ Feed!Items[f] \in Seq(FeedItems) /\ Feed!Items[f] # <<>> /\ Distinct(Feed!Items[f])
           /\ f # "finance" /\ f # "idle"
  <1> DEFINE T == {"sh", "sz", "industry", "concept", "board", "seats", "north", "minute", "flow"}
  <1>1. f \in {"index", "sector", "tiger", "north", "minute", "flow"}
    BY DEF Feed!Keyed, Feed!Items
  <1>2. /\ Feed!Items["index"] = <<"sh", "sz">> /\ Feed!Items["sector"] = <<"industry", "concept">>
        /\ Feed!Items["tiger"] = <<"board", "seats">> /\ Feed!Items["north"] = <<"north">>
        /\ Feed!Items["minute"] = <<"minute">> /\ Feed!Items["flow"] = <<"flow">>
    BY DEF Feed!Items
  <1>3. Feed!Items[f] \in Seq(T) /\ Feed!Items[f] # <<>> /\ Distinct(Feed!Items[f])
    <2>1. CASE f = "index"
      <3>1. "sh" \in T /\ "sz" \in T /\ "sh" # "sz"
        OBVIOUS
      <3> QED
        BY <1>2, <2>1, <3>1, OneOrTwo
    <2>2. CASE f = "sector"
      <3>1. "industry" \in T /\ "concept" \in T /\ "industry" # "concept"
        OBVIOUS
      <3> QED
        BY <1>2, <2>2, <3>1, OneOrTwo
    <2>3. CASE f = "tiger"
      <3>1. "board" \in T /\ "seats" \in T /\ "board" # "seats"
        OBVIOUS
      <3> QED
        BY <1>2, <2>3, <3>1, OneOrTwo
    <2>4. CASE f \in {"north", "minute", "flow"}
      <3>1. f \in T /\ Feed!Items[f] = <<f>>
        BY <1>2, <2>4
      <3> QED
        BY <3>1, OneOrTwo
    <2> QED
      BY <1>1, <2>1, <2>2, <2>3, <2>4
  <1>4. \A i \in DOMAIN Feed!Items[f] : Feed!Items[f][i] \in FeedItems
    BY DEF FeedItems, Feed!ToSet
  <1>5. Feed!Items[f] \in Seq(FeedItems)
    BY <1>3, <1>4
  <1> QED
    BY <1>1, <1>3, <1>5

LEMMA InitFeeds == ASSUME Feed!Init PROVE FeedInv
  <1>1. /\ served = 1 /\ runs = 0 /\ stored = [i \in FeedItems |-> 0] /\ seatRows = <<>>
        /\ fin = [c \in Feed!CodeSet |-> [version |-> 0, touched |-> 0]]
        /\ pool = <<[c \in Feed!CodeSet |-> [industry |-> c, answer |-> 0]]>>
        /\ run = Feed!Idle /\ last = Feed!Idle
    BY DEF Feed!Init, FeedItems
  <1>2. Served
    BY <1>1, FeedValues DEF Served
  <1>3. Feed!Idle \in FeedRuns /\ Feed!Idle.left = <<>> /\ Feed!Idle.bad = 0 /\ Feed!Idle.feed = "idle"
        /\ Feed!Idle.missed = {} /\ Feed!Idle.began = 0 /\ Feed!Idle.aborted = FALSE
    BY DEF Feed!Idle, FeedRuns
  <1>4. "idle" \notin Feed!Keyed
    BY ItemsOf
  <1>5. Reached(Feed!Idle, stored, fin)
    BY <1>3, <1>4 DEF Reached
  <1>6. Running /\ Done
    BY <1>1, <1>3, <1>5, FeedValues DEF Running, Done, Closed, Sorted, Distinct, Members
  <1>7. SeatsOf(seatRows, served)
    BY <1>1 DEF SeatsOf
  <1>8. Pools(pool)
    <2> DEFINE first == [c \in Feed!CodeSet |-> [industry |-> c, answer |-> 0]]
    <2>1. first \in PoolDays
      BY DEF PoolDays
    <2>2. DOMAIN first = Feed!CodeSet /\ \A c \in Feed!CodeSet : first[c].industry = c /\ first[c].answer = 0
      OBVIOUS
    <2> HIDE DEF first
    <2>3. pool = <<first>>
      BY <1>1 DEF first
    <2>4. pool \in Seq(PoolDays) /\ pool # <<>> /\ DOMAIN pool = {1} /\ pool[1] = first
      BY <2>1, <2>3
    <2> QED
      BY <2>2, <2>4 DEF Pools, OneAnswer, HandedDown
  <1> QED
    BY <1>2, <1>6, <1>7, <1>8 DEF FeedInv

\* Tables only grow, so what was reached stays so.
LEMMA ReachedStays ==
    ASSUME NEW r \in FeedRuns, NEW st \in [FeedItems -> Nat], NEW st2 \in [FeedItems -> Nat],
           NEW fg, NEW fg2, Reached(r, st, fg), \A i \in FeedItems : st2[i] >= st[i],
           \A c \in Feed!CodeSet : fg2[c].version = 0 => fg[c].version = 0
    PROVE  Reached(r, st2, fg2)
  <1>1. r.began \in Nat /\ r.of \subseteq Feed!CodeSet
    BY DEF FeedRuns
  <1>2. ASSUME r.feed \in Feed!Keyed, NEW i \in Members(Feed!Items[r.feed]) \ r.missed
        PROVE  i \in Members(r.left) \/ st2[i] >= r.began
    <2>1. i \in FeedItems
      BY <1>2 DEF FeedItems, Members, Feed!ToSet
    <2>2. i \in Members(r.left) \/ st[i] >= r.began
      BY <1>2 DEF Reached
    <2>3. st[i] \in Nat /\ st2[i] \in Nat /\ st2[i] >= st[i]
      BY <2>1
    <2> QED
      BY <1>1, <2>2, <2>3
  <1>3. ASSUME r.feed = "finance", r.all, NEW c \in r.of, fg2[c].version = 0 PROVE c \in r.missed \cup Members(r.left)
    BY <1>1, <1>3 DEF Reached
  <1> QED
    BY <1>2, <1>3 DEF Reached

\* The end of an item: the run goes on, or it is over and becomes the last one.
LEMMA EndedKeeps ==
    ASSUME NEW next \in FeedRuns, NEW stop \in BOOLEAN, Feed!Ended(next, stop),
           Reached(next, stored', fin'), Sorted(next), next.began <= served', next.feed # "idle",
           ~next.aborted, stop => next.feed = "finance", ~stop => next.bad < FeedBreaker,
           Closed(last, stored', fin'), served' \in Nat
    PROVE  Running' /\ Done'
  <1>1. CASE next.left = <<>> \/ stop
    <2>1. run' = Feed!Idle /\ last' = [next EXCEPT !.aborted = stop /\ next.left # <<>>]
      BY <1>1 DEF Feed!Ended
    <2>2. Feed!Idle \in FeedRuns /\ Feed!Idle.left = <<>> /\ Feed!Idle.bad = 0 /\ Feed!Idle.feed = "idle"
          /\ Feed!Idle.missed = {} /\ Feed!Idle.began = 0 /\ Feed!Idle.aborted = FALSE
      BY DEF Feed!Idle, FeedRuns
    <2>3. Reached(Feed!Idle, stored', fin') /\ Sorted(Feed!Idle)
      BY <2>2, ItemsOf DEF Reached, Sorted, Distinct
    <2>4. Running'
      BY <2>1, <2>2, <2>3, FeedValues DEF Running
    <2> DEFINE b == stop /\ next.left # <<>>
    <2>5. b \in BOOLEAN /\ (b => stop) /\ (~b => next.left = <<>>)
      BY <1>1
    <2> HIDE DEF b
    <2>6. /\ last' \in FeedRuns /\ last'.aborted = b /\ last'.feed = next.feed /\ last'.left = next.left
          /\ last'.missed = next.missed /\ last'.began = next.began /\ last'.all = next.all /\ last'.of = next.of
      BY <2>1, <2>5 DEF FeedRuns, b
    <2>7. Reached(last', stored', fin')
      BY <2>6 DEF Reached
    <2>8. Done'
      BY <2>5, <2>6, <2>7 DEF Done, Closed
    <2> QED
      BY <2>4, <2>8
  <1>2. CASE ~(next.left = <<>> \/ stop)
    <2>1. run' = next /\ last' = last
      BY <1>2 DEF Feed!Ended
    <2> QED
      BY <1>2, <2>1 DEF Running, Done
  <1> QED
    BY <1>1, <1>2

LEMMA BeginKeeps ==
    ASSUME FeedInv, NEW feed \in Feed!Keyed \cup {"finance"}, NEW items \in Seq(FeedThings), NEW all \in BOOLEAN,
           Feed!Begin(feed, items, all), items # <<>>, Distinct(items),
           feed \in Feed!Keyed => items = Feed!Items[feed],
           feed = "finance" => Members(items) \subseteq Feed!CodeSet,
           feed = "finance" /\ all => \A c \in Feed!PoolCodes : fin[c].version = 0 => c \in Members(items)
    PROVE  FeedInv'
  <1>1. /\ runs' = runs + 1 /\ runs < MaxRuns
        /\ run' = [Feed!Idle EXCEPT !.feed = feed, !.left = items, !.began = served, !.all = all,
                                    !.of = Feed!PoolCodes]
        /\ UNCHANGED <<served, stored, seatRows, fin, pool, last>>
    BY DEF Feed!Begin
  <1>2. Feed!PoolCodes \subseteq Feed!CodeSet
    <2>1. Len(pool) \in DOMAIN pool /\ pool \in Seq(PoolDays)
      BY DEF FeedInv, Pools
    <2>2. pool[Len(pool)] \in PoolDays
      BY <2>1
    <2> QED
      BY <2>2 DEF PoolDays, Feed!PoolCodes, Feed!Last
  <1>3. served \in Nat /\ served <= served
    BY FeedValues DEF FeedInv, Served
  <1>4. /\ run'.feed = feed /\ run'.left = items /\ run'.missed = {} /\ run'.bad = 0 /\ run'.began = served
        /\ run'.all = all /\ run'.of = Feed!PoolCodes /\ run'.aborted = FALSE /\ run' \in FeedRuns
    BY <1>1, <1>2, <1>3 DEF Feed!Idle, FeedRuns
  <1>5. Reached(run', stored, fin)
    <2>1. ASSUME feed \in Feed!Keyed PROVE Members(items) \subseteq FeedItems /\ items = Feed!Items[feed]
      BY <2>1 DEF FeedItems, Members, Feed!ToSet
    <2> QED
      BY <1>4, <2>1 DEF Reached
  <1>6. Sorted(run')
    BY <1>4 DEF Sorted
  <1>7. Running'
    BY <1>1, <1>3, <1>4, <1>5, <1>6, ItemsOf, FeedValues DEF Running
  <1>8. Served' /\ Done' /\ SeatsOf(seatRows, served)' /\ Pools(pool)'
    BY <1>1, FeedValues DEF FeedInv, Served, Done
  <1> QED
    BY <1>7, <1>8 DEF FeedInv

LEMMA StartKeyedKeeps == ASSUME FeedInv, NEW feed \in Feed!Keyed, Feed!StartKeyed(feed) PROVE FeedInv'
  <1>1. /\ Feed!Items[feed] \in Seq(FeedItems) /\ Feed!Items[feed] # <<>> /\ Distinct(Feed!Items[feed])
        /\ feed # "finance"
    BY ItemsOf
  <1>2. Feed!Items[feed] \in Seq(FeedThings)
    BY <1>1 DEF FeedThings
  <1>3. Feed!Begin(feed, Feed!Items[feed], TRUE)
    BY DEF Feed!StartKeyed
  <1> QED
    BY <1>1, <1>2, <1>3, BeginKeeps

\* What a finance run is about: no code twice, and nightly every code without figures.
LEMMA TodoIs ==
    ASSUME FeedInv, NEW cap \in Nat, NEW stale \in Feed!StaleOrders
    PROVE  /\ Feed!Todo(cap, stale) \in Seq(Feed!CodeSet) /\ Distinct(Feed!Todo(cap, stale))
           /\ cap = Len(FeedCodes) =>
                \A c \in Feed!PoolCodes : fin[c].version = 0 => c \in Members(Feed!Todo(cap, stale))
  <1> DEFINE none == {c \in Feed!PoolCodes : fin[c].version = 0}
             missing == Those(FeedCodes, none)
             a == Feed!Capped(Feed!Missing, cap)
             b == Feed!Capped(stale, StaleCap)
             n == IF cap < Len(missing) THEN cap ELSE Len(missing)
             m == IF StaleCap < Len(stale) THEN StaleCap ELSE Len(stale)
  <1>1. Feed!PoolCodes \subseteq Feed!CodeSet
    <2>1. Len(pool) \in DOMAIN pool /\ pool \in Seq(PoolDays)
      BY DEF FeedInv, Pools
    <2>2. pool[Len(pool)] \in PoolDays
      BY <2>1
    <2> QED
      BY <2>2 DEF PoolDays, Feed!PoolCodes, Feed!Last
  <1>2. Feed!Missing = missing
    BY DEF Feed!Missing, Feed!Those, Those
  <1>3. /\ missing \in Seq(Feed!CodeSet) /\ Len(missing) <= Len(FeedCodes) /\ Distinct(missing)
        /\ Members(missing) = none
    <2>1. /\ missing \in Seq(Feed!CodeSet) /\ Len(missing) <= Len(FeedCodes) /\ Distinct(missing)
          /\ \A k \in DOMAIN missing : missing[k] \in none
          /\ \A i \in DOMAIN FeedCodes : FeedCodes[i] \in none => \E k \in DOMAIN missing : missing[k] = FeedCodes[i]
      <3> HIDE DEF none
      <3> QED
        BY FeedValues, ThoseFacts
    <2>2. \A c \in none : \E i \in DOMAIN FeedCodes : FeedCodes[i] = c
      BY <1>1, FeedValues DEF Members
    <2> HIDE DEF missing, none
    <2> QED
      BY <2>1, <2>2 DEF Members
  <1>4. stale \in Seq(Feed!CodeSet) /\ Distinct(stale) /\ \A c \in Members(stale) : fin[c].version # 0
    <2>1. Feed!StaleCodes \subseteq Feed!CodeSet /\ \A c \in Feed!StaleCodes : fin[c].version > 0
      BY <1>1 DEF Feed!StaleCodes
    <2>2. IsFiniteSet(Feed!StaleCodes)
      BY <2>1, FeedValues, FS_Subset
    <2>3. Cardinality(Feed!StaleCodes) \in Nat
      BY <2>2, FS_CardinalityType
    <2>4. /\ stale \in [1..Cardinality(Feed!StaleCodes) -> Feed!StaleCodes]
          /\ \A i, j \in 1..Cardinality(Feed!StaleCodes) : i # j => stale[i] # stale[j]
      BY DEF Feed!StaleOrders, Feed!SetToSeqs, Feed!Cardinality, Cardinality
    <2>5. stale \in Seq(Feed!CodeSet) /\ DOMAIN stale = 1..Cardinality(Feed!StaleCodes)
      BY <2>1, <2>3, <2>4
    <2>6. Distinct(stale)
      BY <2>4, <2>5 DEF Distinct
    <2>7. \A c \in Members(stale) : c \in Feed!StaleCodes
      BY <2>4, <2>5 DEF Members
    <2>8. \A c \in Feed!CodeSet : fin[c].version \in Nat
      BY FeedValues DEF FeedInv, Served
    <2> QED
      BY <2>1, <2>5, <2>6, <2>7, <2>8
  <1> HIDE DEF missing, none
  <1>5. n \in 0..Len(missing) /\ m \in 0..Len(stale)
    BY <1>3, <1>4, FeedValues
  <1>6. a = SubSeq(missing, 1, n) /\ b = SubSeq(stale, 1, m)
    BY <1>2 DEF Feed!Capped
  <1>7. cap = Len(FeedCodes) => n = Len(missing)
    BY <1>3, FeedValues
  <1> HIDE DEF n, m, a, b
  <1>8. /\ a \in Seq(Feed!CodeSet) /\ Distinct(a) /\ Members(a) \subseteq none
        /\ cap = Len(FeedCodes) => Members(a) = none
    BY <1>3, <1>5, <1>6, <1>7, FirstRows
  <1>9. b \in Seq(Feed!CodeSet) /\ Distinct(b) /\ Members(b) \subseteq Members(stale)
    BY <1>4, <1>5, <1>6, FirstRows
  <1>10. Members(a) \cap Members(b) = {}
    BY <1>4, <1>8, <1>9 DEF none
  <1>11. Feed!Todo(cap, stale) = a \o b
    BY DEF Feed!Todo, a, b
  <1>12. a \o b \in Seq(Feed!CodeSet) /\ Members(a \o b) = Members(a) \cup Members(b) /\ Distinct(a \o b)
    BY <1>8, <1>9, <1>10, OneAfterOther
  <1> QED
    BY <1>8, <1>11, <1>12 DEF none

LEMMA StartFinanceKeeps == ASSUME FeedInv, NEW nightly \in BOOLEAN, Feed!StartFinance(nightly) PROVE FeedInv'
  <1> DEFINE cap == IF nightly THEN Len(FeedCodes) ELSE MissingCap
  <1>1. PICK stale \in Feed!StaleOrders :
            Feed!Todo(cap, stale) # <<>> /\ Feed!Begin("finance", Feed!Todo(cap, stale), nightly)
    BY DEF Feed!StartFinance
  <1>2. cap \in Nat /\ (nightly => cap = Len(FeedCodes))
    BY FeedValues
  <1> HIDE DEF cap
  <1> DEFINE todo == Feed!Todo(cap, stale)
  <1>3. /\ todo \in Seq(Feed!CodeSet) /\ Distinct(todo)
        /\ nightly => \A c \in Feed!PoolCodes : fin[c].version = 0 => c \in Members(todo)
    BY <1>2, TodoIs
  <1>4. todo # <<>> /\ Feed!Begin("finance", todo, nightly)
    BY <1>1
  <1> HIDE DEF todo
  <1>5. todo \in Seq(FeedThings) /\ Members(todo) \subseteq Feed!CodeSet
    BY <1>3 DEF FeedThings, Members
  <1>6. "finance" \notin Feed!Keyed
    BY ItemsOf
  <1> QED
    BY <1>3, <1>4, <1>5, <1>6, BeginKeeps

\* Rank by rank the seats of an answer over those of older ones.
LEMMA SeatsStay ==
    ASSUME SeatsOf(seatRows, served), served \in Nat, NEW item, NEW answer, Feed!UpsertSeats(item, answer)
    PROVE  SeatsOf(seatRows', served)
  <1> DEFINE n == CASE answer = "rows" -> 2 [] answer = "fewer" -> 1 [] OTHER -> 0
             k == Len(seatRows)
             top == Feed!Max({n, k})
  <1>1. CASE item # "seats"
    BY <1>1 DEF Feed!UpsertSeats
  <1>2. CASE item = "seats"
    <2>1. n \in Nat /\ k \in Nat /\ DOMAIN seatRows = 1..k /\ \A r \in 1..k : seatRows[r] \in 0..served
      BY DEF SeatsOf
    <2>2. seatRows' = [r \in 1..top |-> IF r <= n THEN served ELSE seatRows[r]]
      BY <1>2 DEF Feed!UpsertSeats
    <2> HIDE DEF n
    <2>3. top \in {n, k} /\ top >= n /\ top >= k
      <3>1. \E x \in {n, k} : \A y \in {n, k} : x >= y
        BY <2>1
      <3> QED
        BY <3>1 DEF Feed!Max
    <2> HIDE DEF top, k
    <2>4. \A r \in 1..top : r <= n \/ r \in 1..k
      <3>1. CASE top = n
        BY <2>1, <3>1
      <3>2. CASE top = k
        BY <2>1, <3>2
      <3> QED
        BY <2>3, <3>1, <3>2
    <2>5. \A r \in 1..top : seatRows'[r] \in 0..served
      BY <2>1, <2>2, <2>4
    <2>6. top \in Nat /\ seatRows' \in Seq(0..served) /\ Len(seatRows') = top
      BY <2>1, <2>2, <2>3, <2>5
    <2>7. ASSUME NEW r \in 1..top-1 PROVE seatRows'[r + 1] <= seatRows'[r]
      <3>1. r \in 1..top /\ r + 1 \in 1..top
        BY <2>6
      <3>2. CASE r <= n
        BY <2>2, <2>5, <3>1, <3>2
      <3>3. CASE ~(r <= n)
        <4>1. ~(r + 1 <= n) /\ r \in 1..k /\ r + 1 \in 1..k
          BY <2>1, <2>4, <3>1, <3>3
        <4>2. seatRows[r + 1] <= seatRows[r]
          BY <2>1, <4>1 DEF SeatsOf, k
        <4> QED
          BY <2>2, <3>1, <3>3, <4>1, <4>2
      <3> QED
        BY <3>2, <3>3
    <2> QED
      BY <2>6, <2>7 DEF SeatsOf
  <1> QED
    BY <1>1, <1>2

LEMMA SyncItemKeeps ==
    ASSUME FeedInv, run.feed \in Feed!Keyed, NEW answer, Feed!SyncItem(answer)
    PROVE  FeedInv'
  <1> DEFINE item == Head(run.left)
             got == answer \in {"rows", "fewer"}
             left == IF item = "board" /\ ~got THEN <<>> ELSE Tail(run.left)
             missed == IF got THEN run.missed
                       ELSE IF item = "board" THEN run.missed \cup Members(run.left)
                       ELSE run.missed \cup {item}
             next == [run EXCEPT !.left = left, !.missed = missed]
  <1>1. /\ Feed!Upsert(item, answer) /\ Feed!UpsertSeats(item, answer) /\ Feed!Ended(next, FALSE)
        /\ UNCHANGED <<served, fin, pool, news, runs>>
    BY DEF Feed!SyncItem, Members, Feed!ToSet
  <1>2. /\ run \in FeedRuns /\ run.left \in Seq(FeedThings) /\ run.left # <<>> /\ Distinct(run.left)
        /\ run.missed \subseteq FeedThings /\ run.began \in Nat /\ run.began <= served /\ served \in Nat
        /\ run.missed \cap Members(run.left) = {} /\ Members(run.left) \subseteq FeedItems
    BY FeedValues, ItemsOf DEF FeedInv, Running, FeedRuns, Sorted, Served, Reached
  <1>3. /\ item \in Members(run.left) /\ item \in FeedThings /\ Tail(run.left) \in Seq(FeedThings)
        /\ Members(Tail(run.left)) = Members(run.left) \ {item} /\ Distinct(Tail(run.left))
    BY <1>2, WorkLeft
  <1> HIDE DEF item, got
  <1>4. stored' = IF got THEN [stored EXCEPT ![item] = served] ELSE stored
    BY <1>1 DEF Feed!Upsert, got
  <1>5. /\ left \in Seq(FeedThings) /\ Distinct(left) /\ Members(left) \subseteq Members(run.left) \ {item}
        /\ missed \subseteq FeedThings /\ missed \cap Members(left) = {}
    <2>1. Members(<<>>) = {} /\ Distinct(<<>>) /\ <<>> \in Seq(FeedThings)
      BY DEF Members, Distinct
    <2>2. Members(run.left) \subseteq FeedThings
      BY <1>2 DEF FeedThings
    <2> QED
      BY <1>2, <1>3, <2>1, <2>2
  <1>6. /\ stored \in [FeedItems -> 0..served] /\ stored' \in [FeedItems -> 0..served]
        /\ \A i \in FeedItems : stored'[i] >= stored[i] /\ (got /\ i = item => stored'[i] = served)
    <2>1. stored \in [FeedItems -> 0..served] /\ item \in FeedItems
      BY <1>2, <1>3 DEF FeedInv, Served
    <2>2. CASE got
      <3>1. stored' = [stored EXCEPT ![item] = served]
        BY <1>4, <2>2
      <3>2. \A i \in FeedItems : stored'[i] = IF i = item THEN served ELSE stored[i]
        BY <2>1, <3>1
      <3>3. \A i \in FeedItems : stored[i] \in 0..served
        BY <2>1
      <3> QED
        BY <1>2, <2>1, <3>1, <3>2, <3>3
    <2>3. CASE ~got
      <3>1. \A i \in FeedItems : stored[i] \in 0..served
        BY <2>1
      <3> QED
        BY <1>2, <1>4, <2>1, <2>3, <3>1
    <2> QED
      BY <2>2, <2>3
  <1>7. /\ next \in FeedRuns /\ next.feed = run.feed /\ next.left = left /\ next.missed = missed
        /\ next.bad = run.bad /\ next.began = run.began /\ next.aborted = run.aborted
    <2> HIDE DEF left, missed
    <2> QED
      BY <1>2, <1>5 DEF FeedRuns
  <1>8. Reached(next, stored', fin')
    <2> SUFFICES ASSUME NEW i \in Members(Feed!Items[run.feed]) \ missed
                 PROVE  i \in Members(left) \/ stored'[i] >= run.began
      <3>1. run.feed # "finance" /\ Members(left) \subseteq FeedItems
        BY <1>2, <1>5, ItemsOf
      <3> HIDE DEF next, left, missed
      <3> QED
        BY <1>7, <3>1 DEF Reached
    <2>1. i \in FeedItems /\ i \notin run.missed /\ stored[i] \in Nat /\ stored'[i] \in Nat
      <3>1. i \in FeedItems
        BY DEF FeedItems, Members, Feed!ToSet
      <3> QED
        BY <1>6, <3>1
    <2>2. CASE stored[i] >= run.began
      BY <1>2, <1>6, <2>1, <2>2
    <2>3. CASE i \in Members(run.left)
      <3>1. CASE i = item
        BY <1>2, <1>3, <1>6, <2>1, <3>1
      <3>2. CASE i # item
        BY <1>3, <2>3, <3>2
      <3> QED
        BY <3>1, <3>2
    <2> QED
      BY <2>1, <2>2, <2>3 DEF FeedInv, Running, Reached
  <1> HIDE DEF next, left, missed
  <1>9. Closed(last, stored', fin')
    <2>1. Reached(last, stored', fin')
      <3>1. stored \in [FeedItems -> Nat] /\ stored' \in [FeedItems -> Nat]
        BY <1>2, <1>6
      <3>2. Reached(last, stored, fin) /\ last \in FeedRuns /\ fin' = fin
        BY <1>1 DEF FeedInv, Done, Closed
      <3> QED
        BY <1>6, <3>1, <3>2, ReachedStays
    <2> QED
      BY <2>1 DEF FeedInv, Done, Closed
  <1>10. Running' /\ Done'
    <2>1. run.feed # "idle" /\ ~run.aborted /\ run.bad < FeedBreaker
      BY ItemsOf DEF FeedInv, Running
    <2>2. Sorted(next)
      BY <1>5, <1>7 DEF Sorted
    <2> QED
      BY <1>1, <1>2, <1>7, <1>8, <1>9, <2>1, <2>2, EndedKeeps
  <1>11. SeatsOf(seatRows', served)
    BY <1>1, <1>2, SeatsStay DEF FeedInv
  <1>12. Served'
    BY <1>1, <1>6 DEF FeedInv, Served
  <1> QED
    BY <1>1, <1>10, <1>11, <1>12 DEF FeedInv

LEMMA SyncCodeKeeps ==
    ASSUME FeedInv, run.feed = "finance", NEW answer, Feed!SyncCode(answer)
    PROVE  FeedInv'
  <1> DEFINE c == Head(run.left)
             failed == IF answer = "error" THEN run.bad + 1 ELSE 0
             left == Tail(run.left)
             missed == IF answer = "rows" THEN run.missed ELSE run.missed \cup {c}
             next == [run EXCEPT !.left = left, !.bad = failed, !.missed = missed]
  <1>1. /\ Feed!UpsertFinance(c, answer) /\ Feed!Ended(next, failed = FeedBreaker)
        /\ UNCHANGED <<served, stored, seatRows, pool, news, runs>>
    BY DEF Feed!SyncCode
  <1>2. /\ run \in FeedRuns /\ run.left \in Seq(FeedThings) /\ run.left # <<>> /\ Distinct(run.left)
        /\ run.missed \subseteq FeedThings /\ run.began \in Nat /\ run.began <= served /\ served \in Nat \ {0}
        /\ run.missed \cap Members(run.left) = {} /\ Members(run.left) \subseteq Feed!CodeSet
        /\ run.bad \in Nat /\ run.bad < FeedBreaker /\ run.of \subseteq Feed!CodeSet
    BY FeedValues DEF FeedInv, Running, FeedRuns, Sorted, Served, Reached
  <1>3. /\ c \in Members(run.left) /\ c \in FeedThings /\ left \in Seq(FeedThings)
        /\ Members(left) = Members(run.left) \ {c} /\ Distinct(left)
    BY <1>2, WorkLeft
  <1> HIDE DEF c, left
  <1>4. fin' = IF answer # "rows" \/ fin[c].version = served THEN fin
               ELSE [fin EXCEPT ![c] = [version |-> served, touched |-> served]]
    BY <1>1 DEF Feed!UpsertFinance
  <1>5. missed \subseteq FeedThings /\ missed \cap Members(left) = {} /\ c \in Feed!CodeSet
    BY <1>2, <1>3
  <1>6. /\ fin' \in [Feed!CodeSet -> [version : 0..served, touched : 0..served]]
        /\ \A x \in Feed!CodeSet : /\ fin'[x].touched = fin'[x].version
                                   /\ fin'[x].version = 0 => fin[x].version = 0
        /\ answer = "rows" => fin'[c].version # 0
    <2>1. /\ fin \in [Feed!CodeSet -> [version : 0..served, touched : 0..served]]
          /\ \A x \in Feed!CodeSet : fin[x].touched = fin[x].version
      BY DEF FeedInv, Served
    <2>2. CASE answer # "rows" \/ fin[c].version = served
      BY <1>2, <1>4, <2>1, <2>2
    <2>3. CASE ~(answer # "rows" \/ fin[c].version = served)
      <3> DEFINE row == [version |-> served, touched |-> served]
      <3>1. row \in [version : 0..served, touched : 0..served] /\ row.version = served /\ row.touched = served
        BY <1>2
      <3> HIDE DEF row
      <3>2. fin' = [fin EXCEPT ![c] = row]
        BY <1>4, <2>3 DEF row
      <3>3. \A x \in Feed!CodeSet : fin'[x] = IF x = c THEN row ELSE fin[x]
        BY <1>5, <2>1, <3>2
      <3>4. fin' \in [Feed!CodeSet -> [version : 0..served, touched : 0..served]]
        BY <2>1, <3>1, <3>2
      <3> QED
        BY <1>2, <1>5, <2>1, <3>1, <3>3, <3>4
    <2> QED
      BY <2>2, <2>3
  <1>7. failed \in Nat /\ failed <= FeedBreaker
    BY <1>2, FeedValues
  <1>8. /\ next \in FeedRuns /\ next.feed = run.feed /\ next.left = left /\ next.missed = missed
        /\ next.bad = failed /\ next.began = run.began /\ next.aborted = run.aborted
        /\ next.all = run.all /\ next.of = run.of
    <2> HIDE DEF missed, failed
    <2> QED
      BY <1>2, <1>3, <1>5, <1>7 DEF FeedRuns
  <1>9. Reached(next, stored', fin')
    <2>1. "finance" \notin Feed!Keyed
      BY ItemsOf
    <2>2. ASSUME run.all, NEW x \in run.of, fin'[x].version = 0 PROVE x \in missed \cup Members(left)
      <3>1. x \in Feed!CodeSet /\ fin[x].version = 0
        BY <1>2, <1>6, <2>2
      <3>2. x \in run.missed \cup Members(run.left)
        BY <2>2, <3>1 DEF FeedInv, Running, Reached
      <3>3. x = c => answer # "rows"
        BY <1>6, <2>2
      <3> QED
        BY <1>3, <3>2, <3>3
    <2>3. Members(left) \subseteq Feed!CodeSet
      BY <1>2, <1>3
    <2> HIDE DEF next, missed, failed
    <2> QED
      BY <1>8, <2>1, <2>2, <2>3 DEF Reached
  <1> HIDE DEF next, missed, failed
  <1>10. Closed(last, stored', fin')
    <2>1. Reached(last, stored', fin')
      <3>1. stored \in [FeedItems -> Nat] /\ stored' = stored /\ \A i \in FeedItems : stored[i] >= stored[i]
        BY <1>1, <1>2 DEF FeedInv, Served
      <3>2. Reached(last, stored, fin) /\ last \in FeedRuns
        BY <1>1 DEF FeedInv, Done, Closed
      <3> QED
        BY <1>6, <3>1, <3>2, ReachedStays
    <2> QED
      BY <2>1 DEF FeedInv, Done, Closed
  <1>11. Running' /\ Done'
    <2>1. ~run.aborted
      BY DEF FeedInv, Running
    <2>2. Sorted(next)
      BY <1>3, <1>5, <1>8 DEF Sorted
    <2>3. failed # FeedBreaker => failed < FeedBreaker
      BY <1>7, FeedValues
    <2> QED
      BY <1>1, <1>2, <1>8, <1>9, <1>10, <2>1, <2>2, <2>3, EndedKeeps
  <1>12. Served'
    BY <1>1, <1>6 DEF FeedInv, Served
  <1> QED
    BY <1>1, <1>11, <1>12 DEF FeedInv

\* The newest snapshot before day d in which a stock has an industry.
LEMMA PriorIs ==
    ASSUME NEW d \in Nat, Pools(pool), d - 1 \in DOMAIN pool, NEW c \in Feed!CodeSet,
           \A x \in 1..d-1 : c \in DOMAIN pool[x]
    PROVE  LET prior == Feed!PriorIndustries(d)
           IN  (IF c \in DOMAIN prior THEN prior[c] ELSE Feed!NoIndustry) = c
  <1> DEFINE with == {x \in DOMAIN pool : x < d /\ \E e \in DOMAIN pool[x] : pool[x][e].industry # Feed!NoIndustry}
             prior == Feed!PriorIndustries(d)
  <1> SUFFICES (IF c \in DOMAIN prior THEN prior[c] ELSE Feed!NoIndustry) = c
    OBVIOUS
  <1>1. pool \in Seq(PoolDays) /\ DOMAIN pool = 1..Len(pool) /\ Len(pool) \in Nat
    BY DEF Pools
  <1>2. \A x \in 1..d-1 : x \in DOMAIN pool
    BY <1>1
  <1>3. ASSUME NEW x \in 1..d-1 PROVE pool[x][c].industry = c
    <2>1. x \in DOMAIN pool /\ HandedDown(pool, x) /\ c \in DOMAIN pool[x]
      BY <1>2 DEF Pools
    <2>2. \A y \in 1..x : c \in DOMAIN pool[y]
      OBVIOUS
    <2> QED
      BY <2>1, <2>2 DEF HandedDown
  <1>4. prior = IF with = {} THEN <<>>
                ELSE [e \in DOMAIN pool[Feed!Max(with)] |-> pool[Feed!Max(with)][e].industry]
    BY DEF Feed!PriorIndustries
  <1>5. CASE with = {}
    <2>1. c = Feed!NoIndustry
      <3> SUFFICES ASSUME c # Feed!NoIndustry PROVE FALSE
        OBVIOUS
      <3>1. d - 1 \in 1..d-1
        BY <1>1
      <3>2. pool[d - 1][c].industry # Feed!NoIndustry /\ c \in DOMAIN pool[d - 1]
        BY <1>3, <3>1
      <3>3. d - 1 \in with
        BY <3>2
      <3> QED
        BY <1>5, <3>3
    <2>2. prior = <<>>
      BY <1>4, <1>5
    <2>3. c \notin DOMAIN prior
      BY <2>2
    <2> HIDE DEF prior
    <2> QED
      BY <2>1, <2>3
  <1>6. CASE with # {}
    <2> DEFINE m == Feed!Max(with)
    <2>1. m \in with
      <3>1. with \in SUBSET (0..Len(pool))
        BY <1>1
      <3> HIDE DEF with
      <3>2. \E n \in with : \A y \in with : n >= y
        BY <1>1, <1>6, <3>1, HasLargest
      <3> QED
        BY <3>2 DEF Feed!Max
    <2> HIDE DEF m
    <2>2. m \in 1..d-1
      BY <1>1, <2>1
    <2>3. c \in DOMAIN pool[m] /\ pool[m][c].industry = c
      BY <1>3, <2>2
    <2>4. prior = [e \in DOMAIN pool[m] |-> pool[m][e].industry]
      BY <1>4, <1>6 DEF m
    <2>5. c \in DOMAIN prior /\ prior[c] = c
      BY <2>3, <2>4
    <2> HIDE DEF prior
    <2> QED
      BY <2>5
  <1> QED
    BY <1>5, <1>6

\* The rows of a day, whatever answer they are from.
LEMMA SnapshotIs ==
    ASSUME FeedInv, NEW d \in Nat, d - 1 \in DOMAIN pool, NEW codes \in SUBSET Feed!CodeSet
    PROVE  /\ Feed!Snapshot(d, codes) \in PoolDays /\ DOMAIN Feed!Snapshot(d, codes) = codes
           /\ OneAnswer(Feed!Snapshot(d, codes))
           /\ \A c \in codes : (\A x \in 1..d-1 : c \in DOMAIN pool[x]) =>
                                  Feed!Snapshot(d, codes)[c].industry = c
  <1> DEFINE prior == Feed!PriorIndustries(d)
             of(c) == IF c \in DOMAIN prior THEN prior[c] ELSE Feed!NoIndustry
             with == {x \in DOMAIN pool : x < d /\ \E e \in DOMAIN pool[x] : pool[x][e].industry # Feed!NoIndustry}
             Industries == Feed!CodeSet \cup {Feed!NoIndustry}
  <1>1. pool \in Seq(PoolDays) /\ DOMAIN pool = 1..Len(pool) /\ Len(pool) \in Nat /\ runs + 1 \in Nat
    BY FeedValues DEF FeedInv, Pools, Served
  <1>2. Feed!Snapshot(d, codes) = [c \in codes |-> [industry |-> of(c), answer |-> runs + 1]]
    BY DEF Feed!Snapshot
  <1>3. ASSUME NEW c \in codes PROVE of(c) \in Industries
    <2>1. prior = IF with = {} THEN <<>>
                  ELSE [e \in DOMAIN pool[Feed!Max(with)] |-> pool[Feed!Max(with)][e].industry]
      BY DEF Feed!PriorIndustries
    <2>2. CASE with = {}
      <3>1. prior = <<>>
        BY <2>1, <2>2
      <3>2. c \notin DOMAIN prior
        BY <3>1
      <3> HIDE DEF prior
      <3> QED
        BY <3>2
    <2>3. CASE with # {}
      <3> DEFINE m == Feed!Max(with)
      <3>1. m \in with
        <4>1. with \in SUBSET (0..Len(pool))
          BY <1>1
        <4> HIDE DEF with
        <4>2. \E n \in with : \A y \in with : n >= y
          BY <1>1, <2>3, <4>1, HasLargest
        <4> QED
          BY <4>2 DEF Feed!Max
      <3> HIDE DEF m
      <3>2. m \in DOMAIN pool
        BY <3>1
      <3> HIDE DEF with
      <3>3. pool[m] \in PoolDays
        BY <1>1, <3>2
      <3>4. \A e \in DOMAIN pool[m] : pool[m][e].industry \in Industries
        BY <3>3 DEF PoolDays
      <3>5. prior = [e \in DOMAIN pool[m] |-> pool[m][e].industry]
        BY <2>1, <2>3 DEF m
      <3>6. \A e \in DOMAIN prior : prior[e] \in Industries
        BY <3>4, <3>5
      <3> HIDE DEF prior
      <3> QED
        BY <3>6
    <2> QED
      BY <2>2, <2>3
  <1>4. ASSUME NEW c \in codes, \A x \in 1..d-1 : c \in DOMAIN pool[x] PROVE of(c) = c
    <2>1. Pools(pool) /\ c \in Feed!CodeSet
      BY DEF FeedInv
    <2> QED
      BY <1>4, <2>1, PriorIs
  <1> HIDE DEF of, Industries
  <1> DEFINE snap == Feed!Snapshot(d, codes)
  <1>5. snap \in [codes -> [industry : Industries, answer : Nat]]
    BY <1>1, <1>2, <1>3
  <1>6. DOMAIN snap = codes /\ \A c \in codes : snap[c].industry = of(c) /\ snap[c].answer = runs + 1
    BY <1>2
  <1> HIDE DEF snap
  <1>7. snap \in PoolDays
    BY <1>5 DEF PoolDays, Industries
  <1> QED
    BY <1>4, <1>6, <1>7 DEF snap, OneAnswer

LEMMA SyncPoolKeeps ==
    ASSUME FeedInv, NEW again \in BOOLEAN, NEW codes \in SUBSET Feed!CodeSet, Feed!SyncPool(again, codes)
    PROVE  FeedInv'
  <1> DEFINE d == IF again THEN Len(pool) ELSE Len(pool) + 1
             snap == Feed!Snapshot(d, codes)
  <1>1. /\ again => Len(pool) > 1
        /\ runs < MaxRuns /\ runs' = runs + 1
        /\ pool' = IF codes = {} THEN pool
                   ELSE IF again THEN [pool EXCEPT ![d] = snap] ELSE Append(pool, snap)
        /\ UNCHANGED <<served, stored, seatRows, fin, news, run, last>>
    BY DEF Feed!SyncPool
  <1>2. Served' /\ Running' /\ Done' /\ SeatsOf(seatRows, served)'
    BY <1>1, FeedValues DEF FeedInv, Served, Running, Done
  <1>3. /\ pool \in Seq(PoolDays) /\ DOMAIN pool = 1..Len(pool) /\ Len(pool) \in Nat \ {0}
        /\ \A x \in DOMAIN pool : OneAnswer(pool[x]) /\ HandedDown(pool, x)
    BY DEF FeedInv, Pools
  <1>4. d \in Nat /\ d - 1 \in DOMAIN pool /\ d \in 1..Len(pool)+1
    BY <1>1, <1>3
  <1>5. /\ snap \in PoolDays /\ DOMAIN snap = codes /\ OneAnswer(snap)
        /\ \A c \in codes : (\A x \in 1..d-1 : c \in DOMAIN pool[x]) => snap[c].industry = c
    BY <1>4, SnapshotIs
  <1>6. ASSUME codes # {} PROVE Pools(pool')
    <2> HIDE DEF snap
    <2>1. /\ pool' \in Seq(PoolDays) /\ DOMAIN pool' = 1..d /\ pool'[d] = snap
          /\ \A x \in 1..d-1 : x \in DOMAIN pool /\ pool'[x] = pool[x]
      <3>1. CASE again
        <4>1. pool' = [pool EXCEPT ![Len(pool)] = snap] /\ d = Len(pool)
          BY <1>1, <1>6, <3>1
        <4> HIDE DEF d
        <4> QED
          BY <1>3, <1>5, <4>1
      <3>2. CASE ~again
        <4>1. pool' = Append(pool, snap) /\ d = Len(pool) + 1
          BY <1>1, <1>6, <3>2
        <4> HIDE DEF d
        <4> QED
          BY <1>3, <1>5, <4>1
      <3> QED
        BY <3>1, <3>2
    <2> HIDE DEF d
    <2>2. ASSUME NEW x \in 1..d-1 PROVE OneAnswer(pool'[x]) /\ HandedDown(pool', x)
      <3>1. x \in DOMAIN pool /\ pool'[x] = pool[x] /\ OneAnswer(pool[x]) /\ HandedDown(pool, x)
        BY <1>3, <2>1, <2>2
      <3>2. \A y \in 1..x : pool'[y] = pool[y]
        <4>1. \A y \in 1..x : y \in 1..d-1
          BY <1>4
        <4> QED
          BY <2>1, <4>1
      <3> QED
        BY <3>1, <3>2 DEF HandedDown
    <2>3. OneAnswer(pool'[d]) /\ HandedDown(pool', d)
      <3>1. ASSUME NEW c \in codes, \A x \in 1..d : c \in DOMAIN pool'[x] PROVE snap[c].industry = c
        <4>1. \A x \in 1..d-1 : c \in DOMAIN pool[x]
          BY <1>4, <2>1, <3>1
        <4> QED
          BY <1>5, <4>1
      <3> QED
        BY <1>5, <2>1, <3>1 DEF HandedDown
    <2>4. \A x \in 1..d : x \in 1..d-1 \/ x = d
      BY <1>4
    <2>5. pool' # <<>>
      BY <1>4, <2>1
    <2> QED
      BY <2>1, <2>2, <2>3, <2>4, <2>5 DEF Pools
  <1>7. CASE codes = {}
    BY <1>1, <1>2, <1>7 DEF FeedInv
  <1> QED
    BY <1>2, <1>6, <1>7 DEF FeedInv

LEMMA FeedStep == ASSUME FeedInv, [Feed!Next]_(Feed!vars) PROVE FeedInv'
  <1>1. CASE UNCHANGED Feed!vars
    BY <1>1 DEF FeedInv, Served, Running, Done, Feed!vars
  <1>2. CASE Feed!Revise
    <2>1. served' = served + 1 /\ served < MaxVersion /\ UNCHANGED <<stored, seatRows, fin, pool, run, runs, last>>
      BY <1>2 DEF Feed!Revise
    <2>2. served' \in 1..MaxVersion /\ served \in Nat /\ 0..served \subseteq 0..served'
      BY <2>1, FeedValues DEF FeedInv, Served
    <2>3. Served'
      <3>1. stored \in [FeedItems -> 0..served']
        BY <2>2 DEF FeedInv, Served
      <3>2. fin \in [Feed!CodeSet -> [version : 0..served', touched : 0..served']]
        BY <2>2 DEF FeedInv, Served
      <3> QED
        BY <2>1, <2>2, <3>1, <3>2 DEF FeedInv, Served
    <2>4. Running' /\ Done' /\ SeatsOf(seatRows', served')
      <3>1. run.began \in Nat
        BY DEF FeedInv, Running, FeedRuns
      <3>2. run.began <= served'
        BY <2>1, <2>2, <3>1 DEF FeedInv, Running
      <3>3. seatRows \in Seq(0..served')
        <4>1. seatRows \in Seq(0..served)
          BY DEF FeedInv, SeatsOf
        <4>2. \A r \in 1..Len(seatRows) : seatRows[r] \in 0..served'
          BY <2>2, <4>1
        <4> QED
          BY <4>1, <4>2, SeqIn
      <3> QED
        BY <2>1, <3>2, <3>3 DEF FeedInv, Running, Done, SeatsOf
    <2> QED
      BY <2>1, <2>3, <2>4 DEF FeedInv
  <1>3. CASE Feed!Crash
    <2>1. run' = Feed!Idle /\ UNCHANGED <<served, stored, seatRows, fin, pool, runs, last>>
      BY <1>3 DEF Feed!Crash
    <2>2. Feed!Idle \in FeedRuns /\ Feed!Idle.left = <<>> /\ Feed!Idle.bad = 0 /\ Feed!Idle.feed = "idle"
          /\ Feed!Idle.missed = {} /\ Feed!Idle.began = 0 /\ Feed!Idle.aborted = FALSE
      BY DEF Feed!Idle, FeedRuns
    <2>3. Reached(Feed!Idle, stored, fin) /\ Sorted(Feed!Idle)
      BY <2>2, ItemsOf DEF Reached, Sorted, Distinct
    <2>4. Running'
      BY <2>1, <2>2, <2>3, FeedValues DEF FeedInv, Served, Running
    <2> QED
      BY <2>1, <2>4 DEF FeedInv, Served, Done
  <1>4. ASSUME NEW fetched, NEW scored, Feed!SyncNews(fetched, scored) PROVE FeedInv'
    <2>1. runs' = runs + 1 /\ runs < MaxRuns /\ UNCHANGED <<served, stored, seatRows, fin, pool, run, last>>
      BY <1>4 DEF Feed!SyncNews
    <2> QED
      BY <2>1, FeedValues DEF FeedInv, Served, Running, Done
  <1> QED
    BY <1>1, <1>2, <1>3, <1>4, StartKeyedKeeps, StartFinanceKeeps, SyncItemKeeps, SyncCodeKeeps, SyncPoolKeeps
       DEF Feed!Next

LEMMA FeedMeans == ASSUME FeedInv PROVE Feed!FeedsSound
  <1>1. Feed!TypeOK
    <2>1. \A i \in DOMAIN stored : stored[i] \in 0..served
      BY DEF FeedInv, Served
    <2>2. \A c \in Feed!CodeSet : fin[c].version \in 0..served /\ fin[c].touched = fin[c].version
      BY DEF FeedInv, Served
    <2>3. run.feed = "idle" <=> run.left = <<>>
      BY DEF FeedInv, Running
    <2>4. run.bad < FeedBreaker /\ run.missed \cap Feed!ToSet(run.left) = {}
      BY DEF FeedInv, Running, Sorted, Members, Feed!ToSet
    <2> QED
      BY <2>1, <2>2, <2>3, <2>4 DEF FeedInv, Served, Feed!TypeOK
  <1>2. Feed!RunCatchesUp
    <2> SUFFICES ASSUME last.feed \in Feed!Keyed, NEW i \in Feed!ToSet(Feed!Items[last.feed]) \ last.missed
                 PROVE  stored[i] >= last.began
      BY DEF Feed!RunCatchesUp
    <2>1. last.left = <<>>
      BY ItemsOf DEF FeedInv, Done, Closed, FeedRuns
    <2>2. i \notin Members(last.left)
      BY <2>1 DEF Members
    <2>3. i \in Members(Feed!Items[last.feed])
      BY DEF Members, Feed!ToSet
    <2> QED
      BY <2>2, <2>3 DEF FeedInv, Done, Closed, Reached
  <1>3. Feed!SeatsNewestFirst
    BY DEF FeedInv, SeatsOf, Feed!SeatsNewestFirst
  <1>4. Feed!NightlyFills
    <2> SUFFICES ASSUME last.feed = "finance", last.all, ~last.aborted, NEW c \in last.of, fin[c].version = 0
                 PROVE  c \in last.missed
      BY DEF Feed!NightlyFills
    <2>1. last.left = <<>>
      BY DEF FeedInv, Done, Closed
    <2>2. c \notin Members(last.left)
      BY <2>1 DEF Members
    <2> QED
      BY <2>2 DEF FeedInv, Done, Closed, Reached
  <1>5. Feed!SnapshotOfOneAnswer /\ Feed!IndustryHandedDown
    BY DEF FeedInv, Pools, OneAnswer, HandedDown, Feed!SnapshotOfOneAnswer, Feed!IndustryHandedDown
  <1> QED
    BY <1>1, <1>2, <1>3, <1>4, <1>5 DEF Feed!FeedsSound

\* The small syncs, for every list of stocks, cap and breaker and wherever a run is cut off:
\* what a run did not miss is as new as its source was when it began, a nightly finance run
\* leaves no stock without figures but those it missed, the seats of a side are never newer
\* than the rank above, and the snapshots are one answer each and hand the industry down.
THEOREM FeedsHold == Spec => []FeedsSound
  <1> DEFINE Inv == focus = "feeds" => FeedInv
  <1>1. Init => Inv
    BY InitFeeds DEF Init
  <1>2. Inv /\ [Next]_vars => Inv'
    <2> SUFFICES ASSUME focus = "feeds" => FeedInv, [Next]_vars, focus' = "feeds" PROVE FeedInv'
      OBVIOUS
    <2>1. focus = "feeds" /\ [Feed!Next]_(Feed!vars)
      BY DEF Next, vars, feedVars, Feed!vars
    <2> QED
      BY <2>1, FeedStep
  <1>3. Inv => FeedsSound
    BY FeedMeans DEF FeedsSound
  <1> QED
    BY <1>1, <1>2, <1>3, PTL DEF Spec

-----------------------------------------------------------------------------
(* Dirty bars are told from true ones *)

LEMMA RepairNumbers ==
    /\ {Shift, MaxBad, MaxJobs, FreezeRun, MisalignRun, Ratio, Buffer, MinPeriods, Pad, RepairBreaker,
        LimitCodes} \subseteq Nat
    /\ FreezeRun >= 2 /\ MinPeriods \in 1..Buffer /\ Ratio >= 1
    /\ RepairCodes \in Seq(Repair!CodeSet) /\ RepairCodes # <<>>
  BY RepairAssumption DEF Repair!Parameters

\* The module means the Cardinality of FiniteSets.
LEMMA RepairCounts == ASSUME NEW S PROVE Repair!Cardinality(S) = Cardinality(S)
  BY DEF Repair!Cardinality, Cardinality

\* The first and the last day of a set of days.
LEMMA EndsOf ==
    ASSUME NEW n \in Nat, NEW S \in SUBSET (0..n), S # {}
    PROVE  /\ Repair!Min(S) \in S /\ \A x \in S : Repair!Min(S) <= x
           /\ Repair!Max(S) \in S /\ \A x \in S : Repair!Max(S) >= x
  <1>1. \E x \in S : \A y \in S : x <= y
    BY Least
  <1>2. \E x \in S : \A y \in S : x >= y
    BY HasLargest
  <1> QED
    BY <1>1, <1>2 DEF Repair!Min, Repair!Max

\* Days of a set that follow each other are in one of its runs.
LEMMA RunAround ==
    ASSUME NEW n \in Nat, NEW S \in SUBSET (1..n), NEW a \in 1..n, NEW b \in 1..n, a <= b, a..b \subseteq S
    PROVE  \E r \in Repair!Runs(S) : r[1] <= a /\ b <= r[2]
  <1> DEFINE L == {x \in 1..a : x..b \subseteq S}
  <1>1. a \in L /\ L \in SUBSET Nat
    OBVIOUS
  <1>2. PICK l \in L : \A m \in L : l <= m
    BY <1>1, Least
  <1>3. l \in 1..a /\ l..b \subseteq S
    BY <1>2
  <1>4. l - 1 \notin S
    <2> SUFFICES ASSUME l - 1 \in S PROVE FALSE
      OBVIOUS
    <2>1. l - 1 \in 1..a
      BY <1>3
    <2>2. (l - 1)..b \subseteq S
      BY <1>3
    <2>3. l - 1 \in L
      BY <2>1, <2>2
    <2> QED
      BY <1>2, <1>3, <2>3
  <1> DEFINE U == {y \in b..n : l..y \subseteq S}
  <1>5. b \in U /\ U \in SUBSET (0..n)
    BY <1>3
  <1>6. PICK u \in U : \A m \in U : u >= m
    BY <1>5, HasLargest
  <1>7. u \in b..n /\ l..u \subseteq S
    BY <1>6
  <1>8. u + 1 \notin S
    <2> SUFFICES ASSUME u + 1 \in S PROVE FALSE
      OBVIOUS
    <2>1. u + 1 \in b..n
      BY <1>7
    <2>2. l..(u + 1) \subseteq S
      BY <1>3, <1>7
    <2>3. u + 1 \in U
      BY <2>1, <2>2
    <2> QED
      BY <1>6, <1>7, <2>3
  <1> HIDE DEF L, U
  <1>9. l <= u /\ l \in S /\ u \in S
    BY <1>3, <1>7
  <1>10. <<l, u>> \in Repair!Runs(S)
    BY <1>4, <1>7, <1>8, <1>9 DEF Repair!Runs
  <1> QED
    BY <1>3, <1>7, <1>10

\* The k-th value of a column: it is one, with fewer than k below it and k up to it.
LEMMA NthIs ==
    ASSUME NEW D, IsFiniteSet(D), NEW B \in Nat, NEW col \in [D -> 0..B], NEW k \in 1..Cardinality(D)
    PROVE  /\ Repair!Nth(col, k) \in {col[c] : c \in D}
           /\ Cardinality({c \in D : col[c] < Repair!Nth(col, k)}) < k
           /\ Cardinality({c \in D : col[c] <= Repair!Nth(col, k)}) >= k
  <1> DEFINE upTo(v) == {c \in D : col[c] <= v}
             T == {v \in 0..B : Cardinality(upTo(v)) >= k}
  <1>0. Cardinality(D) \in Nat /\ k \in Nat /\ k >= 1
    BY FS_CardinalityType
  <1>1. B \in T
    <2>1. upTo(B) = D
      OBVIOUS
    <2> QED
      BY <1>0, <2>1
  <1>2. T \in SUBSET Nat /\ T # {}
    <2> HIDE DEF upTo
    <2> QED
      BY <1>1
  <1>3. PICK v \in T : \A m \in T : v <= m
    BY <1>2, Least
  <1>4. v \in 0..B /\ Cardinality(upTo(v)) >= k
    BY <1>3
  <1>5. \A m \in 0..B : m < v => Cardinality(upTo(m)) < k
    <2> TAKE m \in 0..B
    <2> HAVE m < v
    <2>1. m \notin T
      BY <1>3, <1>4
    <2>2. Cardinality(upTo(m)) \in Nat
      <3>1. upTo(m) \in SUBSET D
        OBVIOUS
      <3> QED
        BY <3>1, FS_Subset, FS_CardinalityType
    <2> HIDE DEF upTo
    <2> QED
      BY <1>0, <2>1, <2>2
  <1>6. Cardinality({c \in D : col[c] < v}) < k
    <2>1. CASE v = 0
      <3>1. {c \in D : col[c] < v} = {}
        BY <2>1
      <3> QED
        BY <1>0, <3>1, FS_EmptySet
    <2>2. CASE v # 0
      <3>1. {c \in D : col[c] < v} = upTo(v - 1)
        BY <1>4
      <3>2. v - 1 \in 0..B /\ v - 1 < v
        BY <1>4, <2>2
      <3> HIDE DEF upTo
      <3> QED
        BY <1>5, <3>1, <3>2
    <2> QED
      BY <2>1, <2>2
  <1>7. v \in {col[c] : c \in D}
    <2> SUFFICES ASSUME \A c \in D : col[c] # v PROVE FALSE
      OBVIOUS
    <2>1. {c \in D : col[c] < v} = upTo(v)
      BY <1>4
    <2>2. Cardinality(upTo(v)) \in Nat
      <3>1. upTo(v) \in SUBSET D
        OBVIOUS
      <3> QED
        BY <3>1, FS_Subset, FS_CardinalityType
    <2> HIDE DEF upTo
    <2> QED
      BY <1>0, <1>4, <1>6, <2>1, <2>2
  <1>8. Cardinality({c \in D : col[c] <= v}) >= k
    BY <1>4
  <1>9. DOMAIN col = D
    OBVIOUS
  <1>10. \E w \in {col[c] : c \in D} : Cardinality({c \in D : col[c] < w}) < k /\ Cardinality({c \in D : col[c] <= w}) >= k
    BY <1>6, <1>7, <1>8
  <1> HIDE DEF upTo, T
  <1>11. Repair!Nth(col, k) = CHOOSE w \in {col[c] : c \in D} : Cardinality({c \in D : col[c] < w}) < k
                                                      /\ Cardinality({c \in D : col[c] <= w}) >= k
    BY <1>9, RepairCounts DEF Repair!Nth
  <1> QED
    BY <1>10, <1>11

\* Where the smaller values are the majority, the median is made of them.
LEMMA MiddleIsSmall ==
    ASSUME NEW D, IsFiniteSet(D), NEW B \in Nat, NEW col \in [D -> 0..B], NEW G \in SUBSET D,
           2 * Cardinality(G) > Cardinality(D), \A g \in G, o \in D \ G : col[g] < col[o]
    PROVE  \E g, h \in G : Repair!Median2(col) = col[g] + col[h]
  <1> DEFINE n == Cardinality(D)
             m == Cardinality(G)
  <1>1. n \in Nat /\ m \in Nat /\ m <= n /\ 2 * m > n
    BY FS_CardinalityType, FS_Subset
  <1>2. (n + 1) \div 2 \in 1..m /\ n \div 2 + 1 \in 1..m /\ \A k \in 1..m : k \in 1..n
    <2> HIDE DEF n, m
    <2> QED
      BY <1>1
  <1>3. ASSUME NEW k \in 1..m PROVE \E g \in G : Repair!Nth(col, k) = col[g]
    <2> DEFINE v == Repair!Nth(col, k)
               below == {c \in D : col[c] < v}
    <2>1. v \in {col[c] : c \in D} /\ Cardinality(below) < k
      BY <1>2, NthIs
    <2>2. PICK c \in D : v = col[c]
      BY <2>1
    <2>3. CASE c \in G
      BY <2>2, <2>3
    <2>4. CASE c \notin G
      <3>1. G \subseteq below /\ below \in SUBSET D
        BY <2>2, <2>4
      <3>2. IsFiniteSet(below) /\ m <= Cardinality(below) /\ Cardinality(below) \in Nat
        BY <3>1, FS_Subset, FS_CardinalityType
      <3> HIDE DEF below, v, m
      <3> QED
        BY <1>1, <2>1, <3>2
    <2> QED
      BY <2>3, <2>4
  <1>4. DOMAIN col = D
    OBVIOUS
  <1>5. Repair!Median2(col) = Repair!Nth(col, (n + 1) \div 2) + Repair!Nth(col, n \div 2 + 1)
    BY <1>4, RepairCounts DEF Repair!Median2
  <1> HIDE DEF n, m
  <1>6. PICK g \in G : Repair!Nth(col, (n + 1) \div 2) = col[g]
    BY <1>2, <1>3
  <1>7. PICK h \in G : Repair!Nth(col, n \div 2 + 1) = col[h]
    BY <1>2, <1>3
  <1> QED
    BY <1>5, <1>6, <1>7

\* A stock has a bar for each day so far.
LEMMA FrameOf ==
    ASSUME Framed, NEW c \in Repair!CodeSet
    PROVE  /\ Repair!today \in Nat \ {0} /\ DOMAIN frame[c] = 1..Repair!today
           /\ \A d \in 1..Repair!today : frame[c][d] \in RepairBars
  <1>1. frame[c] \in Seq(RepairBars) /\ Len(frame[c]) = Repair!today /\ Repair!today \in Nat \ {0}
    BY RepairValues DEF Framed
  <1> HIDE DEF Framed
  <1> QED
    BY <1>1

LEMMA FrozenIsExact == ASSUME Framed PROVE Repair!FrozenExact
  <1> SUFFICES ASSUME NEW c \in Repair!CodeSet
               PROVE  Repair!Covered(Repair!FrozenSegments(frame[c]))
                        = UNION {lo..lo + FreezeRun - 1 : lo \in {x \in 1..Repair!today - FreezeRun + 1 :
                              \A y \in x + 1..x + FreezeRun - 1 : /\ frame[c][y].close = frame[c][x].close
                                                                  /\ frame[c][y].pct \in {0, Repair!Null}}}
    BY DEF Repair!FrozenExact
  <1> DEFINE f == frame[c]
             n == Repair!today
             F == FreezeRun
             S == Repair!FlatDays(f)
             stuck(x) == \A y \in x + 1..x + F - 1 : f[y].close = f[x].close /\ f[y].pct \in {0, Repair!Null}
             Right == UNION {lo..lo + F - 1 : lo \in {x \in 1..n - F + 1 : stuck(x)}}
  <1>1. n \in Nat /\ F \in Nat /\ F >= 2 /\ DOMAIN f = 1..n
    BY FrameOf, RepairNumbers
  <1>2. S = {d \in 1..n : d > 1 /\ f[d].close = f[d - 1].close /\ f[d].pct \in {0, Repair!Null}}
    BY <1>1 DEF Repair!FlatDays, Repair!Flat
  <1>3. \A d : d \in Repair!Covered(Repair!FrozenSegments(f))
                  <=> \E r \in Repair!Runs(S) : r[2] - r[1] + 2 >= F /\ d \in (r[1] - 1)..r[2]
    <2> DEFINE R == {r \in Repair!Runs(S) : r[2] - r[1] + 2 >= F}
    <2>1. Repair!FrozenSegments(f) = {<<r[1] - 1, r[2]>> : r \in R}
      BY DEF Repair!FrozenSegments
    <2>2. \A d : d \in Repair!Covered({<<r[1] - 1, r[2]>> : r \in R}) <=> \E r \in R : d \in (r[1] - 1)..r[2]
      <3> HIDE DEF R
      <3> DEFINE Q == {<<r[1] - 1, r[2]>> : r \in R}
      <3>1. ASSUME NEW d, NEW r \in R, d \in (r[1] - 1)..r[2] PROVE d \in Repair!Covered(Q)
        <4> DEFINE q == <<r[1] - 1, r[2]>>
        <4>1. q \in Q /\ d \in q[1]..q[2]
          BY <3>1
        <4> HIDE DEF q, Q
        <4> QED
          BY <4>1 DEF Repair!Covered
      <3>2. ASSUME NEW d \in Repair!Covered(Q) PROVE \E r \in R : d \in (r[1] - 1)..r[2]
        <4>1. PICK q \in Q : d \in q[1]..q[2]
          BY DEF Repair!Covered
        <4>2. PICK r \in R : q = <<r[1] - 1, r[2]>>
          BY <4>1
        <4>3. q[1] = r[1] - 1 /\ q[2] = r[2]
          BY <4>2
        <4> QED
          BY <4>1, <4>3
      <3> HIDE DEF Q
      <3>3. \A d : d \in Repair!Covered(Q) <=> \E r \in R : d \in (r[1] - 1)..r[2]
        BY <3>1, <3>2
      <3> QED
        BY <3>3 DEF Q
    <2> QED
      BY <2>1, <2>2
  <1>4. S \subseteq 2..n
    BY <1>1, <1>2
  <1>5. \A r \in Repair!Runs(S) : r[1] \in 2..n /\ r[2] \in 2..n /\ r[1] <= r[2] /\ r[1]..r[2] \subseteq S
    BY <1>4 DEF Repair!Runs
  <1> HIDE DEF f, S, n, F
  \* Equal closes are flat transitions one by one, and the other way round.
  <1>6. \A x \in 1..n - F + 1 : stuck(x) => x + 1..x + F - 1 \subseteq S
    <2> SUFFICES ASSUME NEW x \in 1..n - F + 1, stuck(x), NEW y \in x + 1..x + F - 1 PROVE y \in S
      BY Zenon
    <2>1. y \in 1..n /\ y > 1 /\ f[y].close = f[x].close /\ f[y].pct \in {0, Repair!Null}
      BY <1>1
    <2>2. f[y - 1].close = f[x].close
      <3>1. CASE y = x + 1
        BY <1>1, <3>1
      <3>2. CASE y # x + 1
        <4>1. y - 1 \in x + 1..x + F - 1
          BY <1>1, <3>2
        <4> QED
          BY <4>1
      <3> QED
        BY <3>1, <3>2
    <2> QED
      BY <1>2, <2>1, <2>2
  <1>7. \A x \in 1..n - F + 1 : x + 1..x + F - 1 \subseteq S => stuck(x)
    <2> TAKE x \in 1..n - F + 1
    <2> HAVE x + 1..x + F - 1 \subseteq S
    <2> DEFINE W == {k \in 0..F - 1 : f[x + k].close = f[x].close}
    <2>1. 0 \in W
      BY <1>1
    <2>2. \A k \in 1..F - 1 : k - 1 \in W => k \in W
      <3> TAKE k \in 1..F - 1
      <3> HAVE k - 1 \in W
      <3>1. x + k \in S /\ (x + k) - 1 = x + (k - 1)
        BY <1>1
      <3>2. f[x + k].close = f[x + (k - 1)].close
        BY <1>2, <3>1
      <3>3. k \in 0..F - 1
        BY <1>1
      <3> QED
        BY <3>2, <3>3
    <2>3. \A k \in 0..F - 1 : k \in W
      <3>1. F - 1 \in Nat
        BY <1>1
      <3> HIDE DEF W
      <3> QED
        BY <2>1, <2>2, <3>1, Induct
    <2>4. ASSUME NEW y \in x + 1..x + F - 1 PROVE f[y].close = f[x].close /\ f[y].pct \in {0, Repair!Null}
      <3>1. y - x \in 0..F - 1 /\ x + (y - x) = y
        BY <1>1
      <3>2. y \in S
        OBVIOUS
      <3> QED
        BY <1>2, <2>3, <3>1, <3>2
    <2> QED
      BY <2>4
  <1>8. ASSUME NEW d, NEW r \in Repair!Runs(S), r[2] - r[1] + 2 >= F, d \in (r[1] - 1)..r[2]
        PROVE  d \in Right
    <2>1. r[1] \in 2..n /\ r[2] \in 2..n /\ r[1] <= r[2] /\ r[1]..r[2] \subseteq S
      BY <1>5
    <2> DEFINE a == r[1]
               b == r[2]
    <2>2. a \in 2..n /\ b \in 2..n /\ a <= b /\ b - a + 2 >= F /\ d \in (a - 1)..b /\ a..b \subseteq S
      BY <1>8, <2>1
    <2> HIDE DEF a, b
    <2>3. \E lo \in 1..n - F + 1 : d \in lo..lo + F - 1 /\ lo + 1..lo + F - 1 \subseteq a..b
      <3>1. CASE d <= b - F + 1
        <4>1. d \in 1..n - F + 1 /\ d \in d..d + F - 1 /\ d + 1..d + F - 1 \subseteq a..b
          BY <1>1, <2>2, <3>1
        <4> QED
          BY <4>1
      <3>2. CASE ~(d <= b - F + 1)
        <4> DEFINE lo == b - F + 1
        <4>1. lo \in 1..n - F + 1 /\ d \in lo..lo + F - 1 /\ lo + 1..lo + F - 1 \subseteq a..b
          BY <1>1, <2>2, <3>2
        <4> QED
          BY <4>1
      <3> QED
        BY <3>1, <3>2
    <2>4. PICK lo \in 1..n - F + 1 : d \in lo..lo + F - 1 /\ lo + 1..lo + F - 1 \subseteq a..b
      BY <2>3
    <2> HIDE DEF stuck
    <2>5. stuck(lo)
      BY <1>7, <2>2, <2>4
    <2> QED
      BY <2>4, <2>5
  <1>9. ASSUME NEW d \in Right PROVE \E r \in Repair!Runs(S) : r[2] - r[1] + 2 >= F /\ d \in (r[1] - 1)..r[2]
    <2>1. PICK lo \in 1..n - F + 1 : stuck(lo) /\ d \in lo..lo + F - 1
      BY <1>9
    <2> HIDE DEF stuck, Right
    <2>2. lo + 1..lo + F - 1 \subseteq S
      BY <1>6, <2>1
    <2> DEFINE a == lo + 1
               b == lo + F - 1
    <2>3. a \in 1..n /\ b \in 1..n /\ a <= b /\ lo = a - 1 /\ b - a + 2 = F
      BY <1>1
    <2>4. a..b \subseteq S /\ d \in (a - 1)..b
      BY <2>1, <2>2, <2>3
    <2>5. S \in SUBSET (1..n)
      BY <1>1, <1>4
    <2> HIDE DEF a, b
    <2>6. PICK r \in Repair!Runs(S) : r[1] <= a /\ b <= r[2]
      BY <1>1, <2>3, <2>4, <2>5, RunAround
    <2>7. r[1] \in 2..n /\ r[2] \in 2..n
      BY <1>5
    <2>8. r[2] - r[1] + 2 >= F /\ d \in (r[1] - 1)..r[2]
      BY <1>1, <2>3, <2>4, <2>6, <2>7
    <2> QED
      BY <2>8
  <1>10. Repair!Covered(Repair!FrozenSegments(f)) = Right
    <2> HIDE DEF Right
    <2> QED
      BY <1>3, <1>8, <1>9
  <1> QED
    BY <1>10 DEF f, n, F

\* What the detector of levels takes for granted, in numbers.
LEMMA SteadyFacts ==
    ASSUME Repair!Steady, NEW c \in Repair!CodeSet
    PROVE  \E B \in Nat :
              \A d \in 1..Len(Truth[RepairCodes[1]]) :
                  /\ Truth[c][d] \in 1..B /\ Truth[c][d] * Shift \in 1..B
                  /\ \A e \in 1..Len(Truth[RepairCodes[1]]) :
                        /\ Truth[c][d] <= Ratio * Truth[c][e] /\ Ratio * Truth[c][e] < Truth[c][d] * Shift
                        /\ Truth[c][e] < Truth[c][d] * Shift
  <1> DEFINE N == Len(Truth[RepairCodes[1]])
             T == Truth[c]
             top == Ratio * T[1]
             B == top * Shift
  <1>1. N \in Nat /\ 1 \in 1..N /\ DOMAIN T = 1..N /\ \A d \in 1..N : T[d] \in Nat
    <2>1. T \in Seq(Nat) /\ Len(T) = N /\ N \in Nat \ {0}
      BY RepairValues
    <2> HIDE DEF T, N
    <2> QED
      BY <2>1
  <1>2. Shift \in Nat /\ Ratio \in Nat /\ Ratio >= 1
    BY RepairNumbers
  <1>3. \A d, e \in 1..N : T[d] <= Ratio * T[e] /\ Ratio * T[e] < Shift * T[d]
    BY <1>1 DEF Repair!Steady
  <1> HIDE DEF T, N
  <1>4. \A x \in Nat, y \in Nat, z \in Nat : x <= y => x * z <= y * z
    OBVIOUS
  <1>5. \A d \in 1..N : Ratio * T[d] \in Nat /\ Shift * T[d] \in Nat /\ T[d] * Shift = Shift * T[d]
    BY <1>1, <1>2
  <1>6. \A d \in 1..N : T[d] <= Ratio * T[d] /\ T[d] >= 1
    <2> TAKE d \in 1..N
    <2>1. 1 * T[d] <= Ratio * T[d]
      BY <1>1, <1>2, <1>4
    <2>2. T[d] <= Ratio * T[d]
      BY <1>1, <2>1
    <2>3. T[d] # 0
      <3> SUFFICES ASSUME T[d] = 0 PROVE FALSE
        OBVIOUS
      <3>1. Ratio * T[d] = 0 /\ Shift * T[d] = 0
        BY <1>2
      <3> QED
        BY <1>3, <3>1
    <2> QED
      BY <1>1, <2>2, <2>3
  <1>7. Shift >= 1 /\ top \in Nat /\ B \in Nat
    <2>1. top \in Nat
      BY <1>1, <1>5
    <2>2. Shift # 0
      <3> SUFFICES ASSUME Shift = 0 PROVE FALSE
        OBVIOUS
      <3>1. Shift * T[1] = 0
        BY <1>1
      <3> HIDE DEF top
      <3> QED
        BY <1>1, <1>3, <1>5, <3>1
    <2> HIDE DEF top
    <2> QED
      BY <1>2, <2>1, <2>2
  <1>8. \A d \in 1..N : T[d] <= top
    BY <1>1, <1>3
  <1> HIDE DEF top
  <1>9. \A d \in 1..N : T[d] \in 1..B /\ T[d] * Shift \in 1..B
    <2> TAKE d \in 1..N
    <2>1. T[d] * Shift <= B
      BY <1>1, <1>2, <1>4, <1>7, <1>8
    <2>2. T[d] <= T[d] * Shift
      <3>1. 1 * T[d] <= Shift * T[d]
        BY <1>1, <1>2, <1>4, <1>7
      <3> QED
        BY <1>1, <1>5, <3>1
    <2> HIDE DEF B
    <2> QED
      BY <1>1, <1>5, <1>6, <1>7, <2>1, <2>2
  <1> HIDE DEF B
  <1>10. \A d, e \in 1..N : T[e] < T[d] * Shift
    BY <1>1, <1>3, <1>5, <1>6
  <1>11. \A d, e \in 1..N : T[d] <= Ratio * T[e] /\ Ratio * T[e] < T[d] * Shift
    BY <1>3, <1>5
  <1> QED
    BY <1>7, <1>9, <1>10, <1>11 DEF T, N

\* A stock as the detector of levels is meant for: each close is the true one or off by the
\* shift, and the ones that are off follow each other, from a on, w of them.
Broken(c, a, w) ==
    /\ \A d \in 1..Repair!today : frame[c][d].close = IF d \in a..a + w - 1 THEN Truth[c][d] * Shift ELSE Truth[c][d]
    /\ a \in Nat /\ w \in Nat /\ a + w - 1 <= Repair!today
    /\ w # 0 => a > MinPeriods /\ w <= a - 2 /\ 2 * w <= Buffer - 1

\* The bars before a day: most of those the detector sees are good.
LEMMA GoodOutnumber ==
    ASSUME NEW n \in Nat, NEW a \in Nat, NEW w \in Nat, NEW d \in 1..n, d - 1 >= MinPeriods,
           w # 0 => a > MinPeriods /\ w <= a - 2 /\ 2 * w <= Buffer - 1,
           NEW lo, lo = IF d - Buffer < 1 THEN 1 ELSE d - Buffer
    PROVE  /\ lo \in 1..d - 1 /\ IsFiniteSet(lo..d - 1)
           /\ 2 * Cardinality((lo..d - 1) \ (a..a + w - 1)) > Cardinality(lo..d - 1)
  <1> DEFINE D == lo..d - 1
             O == a..a + w - 1
             b == a + w - 1
             x == IF lo <= a THEN a ELSE lo
             y == IF d - 1 <= b THEN d - 1 ELSE b
  <1>1. MinPeriods \in 1..Buffer /\ Buffer \in Nat /\ MinPeriods \in Nat
    BY RepairNumbers
  <1>2. lo \in 1..d - 1
    BY <1>1
  <1>3. IsFiniteSet(D) /\ Cardinality(D) = d - lo
    BY <1>2, FS_Interval
  <1>4. D \cap O = x..y
    BY <1>2
  <1>5. x \in Int /\ y \in Int
    BY <1>2
  <1>6. Cardinality(D \cap O) = IF x > y THEN 0 ELSE y - x + 1
    <2> HIDE DEF x, y, D, O
    <2> QED
      BY <1>4, <1>5, FS_Interval
  <1>7. Cardinality(D \ O) = (d - lo) - Cardinality(D \cap O)
    <2> HIDE DEF D, O
    <2> QED
      BY <1>3, FS_Difference
  <1>8. 2 * (IF x > y THEN 0 ELSE y - x + 1) < d - lo
    <2>1. CASE w = 0
      <3>1. b < a
        BY <2>1
      <3>2. x > y
        BY <3>1, <1>2
      <3> HIDE DEF x, y
      <3> QED
        BY <1>2, <3>2
    <2>2. CASE w # 0 /\ d - Buffer < 1
      <3>1. lo = 1 /\ a > 1 /\ x = a /\ y <= a + w - 1 /\ y <= d - 1 /\ w <= a - 2
        BY <1>1, <2>2
      <3> HIDE DEF x, y
      <3>2. CASE x > y
        BY <1>2, <3>2
      <3>3. CASE ~(x > y)
        BY <1>2, <1>5, <3>1, <3>3
      <3> QED
        BY <3>2, <3>3
    <2>3. CASE w # 0 /\ ~(d - Buffer < 1)
      <3>1. lo = d - Buffer /\ x >= a /\ y <= a + w - 1 /\ 2 * w <= Buffer - 1
        BY <1>1, <2>3
      <3> HIDE DEF x, y
      <3>2. CASE x > y
        BY <1>2, <3>2
      <3>3. CASE ~(x > y)
        BY <1>1, <1>2, <1>5, <3>1, <3>3
      <3> QED
        BY <3>2, <3>3
    <2> QED
      BY <2>1, <2>2, <2>3
  <1>9. 2 * Cardinality(D \ O) > Cardinality(D)
    <2> DEFINE k == IF x > y THEN 0 ELSE y - x + 1
    <2>1. k \in Int
      <3> HIDE DEF x, y
      <3> QED
        BY <1>5
    <2>2. Cardinality(D \ O) = (d - lo) - k /\ Cardinality(D) = d - lo /\ 2 * k < d - lo
      BY <1>3, <1>6, <1>7, <1>8
    <2> HIDE DEF k, D, O
    <2> QED
      BY <1>2, <2>1, <2>2
  <1> QED
    BY <1>2, <1>3, <1>9

\* A bar is suspect exactly when it is off.
LEMMA SuspectIsOff ==
    ASSUME Framed, Repair!Steady, NEW c \in Repair!CodeSet, NEW a, NEW w, Broken(c, a, w), NEW d \in 1..Repair!today
    PROVE  Repair!Suspect(frame[c], d) <=> d \in a..a + w - 1
  <1> DEFINE n == Repair!today
             N == Len(Truth[RepairCodes[1]])
             T == Truth[c]
             f == frame[c]
             O == a..a + w - 1
  <1>1. n \in 1..N /\ N \in Nat /\ MinPeriods \in 1..Buffer /\ Ratio \in Nat /\ Shift \in Nat
    BY RepairValues, RepairNumbers DEF Framed
  <1>2. /\ a \in Nat /\ w \in Nat
        /\ w # 0 => a > MinPeriods /\ w <= a - 2 /\ 2 * w <= Buffer - 1
        /\ \A e \in 1..n : f[e].close = IF e \in O THEN T[e] * Shift ELSE T[e]
    BY DEF Broken
  <1>3. PICK B \in Nat : \A x \in 1..N : /\ T[x] \in 1..B /\ T[x] * Shift \in 1..B
                                        /\ \A e \in 1..N : /\ T[x] <= Ratio * T[e] /\ Ratio * T[e] < T[x] * Shift
                                                          /\ T[e] < T[x] * Shift
    BY SteadyFacts
  <1>4. d \in O => d - 1 >= MinPeriods
    BY <1>1, <1>2
  <1> HIDE DEF n, N, T, f
  <1>5. ASSUME d - 1 >= MinPeriods
        PROVE  \E v, u \in Nat : /\ Repair!PriorMedian2(f, d) = v + u
                                 /\ \E e, g \in 1..n : v = T[e] /\ u = T[g]
    <2> DEFINE lo == IF d - Buffer < 1 THEN 1 ELSE d - Buffer
               D == lo..d - 1
               col == [x \in D |-> f[x].close]
               G == D \ O
    <2>1. lo \in 1..d - 1 /\ IsFiniteSet(D) /\ 2 * Cardinality(G) > Cardinality(D)
      <3>1. d \in 1..n /\ n \in Nat
        BY <1>1 DEF n
      <3> HIDE DEF lo
      <3>2. lo = IF d - Buffer < 1 THEN 1 ELSE d - Buffer
        BY DEF lo
      <3> QED
        BY <1>2, <1>5, <3>1, <3>2, GoodOutnumber
    <2> HIDE DEF lo
    <2>2. D \subseteq 1..n /\ D \subseteq 1..N
      BY <1>1, <2>1 DEF n
    <2>3. \A x \in D : col[x] \in 0..B /\ (x \in G => col[x] = T[x]) /\ (x \notin G => col[x] = T[x] * Shift)
      BY <1>2, <1>3, <2>2
    <2>4. col \in [D -> 0..B]
      BY <2>3
    <2>5. \A g \in G, o \in D \ G : col[g] < col[o]
      <3> SUFFICES ASSUME NEW g \in G, NEW o \in D \ G PROVE col[g] < col[o]
        OBVIOUS
      <3>1. g \in 1..N /\ o \in 1..N /\ col[g] = T[g] /\ col[o] = T[o] * Shift
        BY <2>2, <2>3
      <3> HIDE DEF col, D, G
      <3> QED
        BY <1>3, <3>1
    <2>6. Repair!PriorMedian2(f, d) = Repair!Median2(col)
      BY DEF Repair!PriorMedian2, lo
    <2>7. G \in SUBSET D
      OBVIOUS
    <2> HIDE DEF D, col, G
    <2>8. PICK g \in G, h \in G : Repair!Median2(col) = col[g] + col[h]
      BY <2>1, <2>4, <2>5, <2>7, MiddleIsSmall
    <2>9. g \in 1..n /\ h \in 1..n /\ g \in 1..N /\ h \in 1..N /\ col[g] = T[g] /\ col[h] = T[h]
      BY <2>2, <2>3, <2>7
    <2>10. T[g] \in Nat /\ T[h] \in Nat
      BY <1>3, <2>9
    <2> QED
      BY <2>6, <2>8, <2>9, <2>10
  <1>6. ASSUME d - 1 >= MinPeriods
        PROVE  (2 * f[d].close > Ratio * Repair!PriorMedian2(f, d)
                \/ 2 * Ratio * f[d].close < Repair!PriorMedian2(f, d)) <=> d \in O
    <2>1. PICK v \in Nat, u \in Nat : /\ Repair!PriorMedian2(f, d) = v + u
                                      /\ \E e, g \in 1..n : v = T[e] /\ u = T[g]
      BY <1>5, <1>6
    <2>2. PICK e \in 1..n, g \in 1..n : v = T[e] /\ u = T[g]
      BY <2>1
    <2>3. e \in 1..N /\ g \in 1..N /\ d \in 1..N /\ d \in 1..n
      BY <1>1 DEF n
    <2> DEFINE x == f[d].close
               p == Ratio * v
               q == Ratio * u
               r == Ratio * x
    <2>4. Ratio * (v + u) = p + q /\ p \in Nat /\ q \in Nat
      BY <1>1
    <2>5. x \in Nat /\ x = IF d \in O THEN T[d] * Shift ELSE T[d]
      BY <1>2, <1>3, <2>3
    <2>6. r \in Nat /\ 2 * Ratio * x = 2 * r
      BY <1>1, <2>5
    <2>7. CASE d \in O
      <3>1. x > p /\ x > q
        BY <1>3, <2>2, <2>3, <2>5, <2>7
      <3> HIDE DEF x, p, q
      <3> QED
        BY <2>1, <2>4, <2>5, <2>7, <3>1 DEF x
    <2>8. CASE d \notin O
      <3>1. x <= p /\ x <= q /\ v <= r /\ u <= r
        BY <1>3, <2>2, <2>3, <2>5, <2>8
      <3> HIDE DEF x, p, q, r
      <3>2. ~(2 * x > p + q) /\ ~(2 * r < v + u)
        BY <2>4, <2>5, <2>6, <3>1
      <3> QED
        BY <2>1, <2>4, <2>6, <2>8, <3>2 DEF x
    <2> QED
      BY <2>7, <2>8
  <1> QED
    BY <1>4, <1>6 DEF Repair!Suspect, f

LEMMA LevelIsFound == ASSUME Framed, Repair!Steady PROVE Repair!LevelFound
  <1> SUFFICES ASSUME NEW c \in Repair!CodeSet,
                      \A d \in 1..Repair!today : d \in Repair!Off(c) \/ frame[c][d].close = Truth[c][d],
                      Repair!Off(c) # {} =>
                          /\ Repair!Off(c) = Repair!Min(Repair!Off(c))..Repair!Max(Repair!Off(c))
                          /\ Repair!Min(Repair!Off(c)) > MinPeriods
                          /\ Repair!Cardinality(Repair!Off(c))
                               \in MisalignRun..Repair!Min({Repair!Min(Repair!Off(c)) - 2, (Buffer - 1) \div 2})
               PROVE  Repair!Covered(Repair!MisalignedSegments(frame[c])) = Repair!Off(c)
    BY DEF Repair!LevelFound
  <1> DEFINE n == Repair!today
             f == frame[c]
             O == Repair!Off(c)
             a == IF O = {} THEN 1 ELSE Repair!Min(O)
             w == IF O = {} THEN 0 ELSE Repair!Max(O) - Repair!Min(O) + 1
             S == {d \in DOMAIN f : Repair!Suspect(f, d)}
  <1>1. /\ n \in Nat \ {0} /\ DOMAIN f = 1..n /\ Buffer \in Nat
        /\ MisalignRun \in Nat /\ MinPeriods \in Nat /\ RepairCodes[1] \in Repair!CodeSet
    BY FrameOf, RepairNumbers, RepairValues
  <1>2. O \in SUBSET (1..n) /\ \A d \in 1..n : d \in O <=> f[d].close = Truth[c][d] * Shift
    BY DEF Repair!Off
  <1>3. ASSUME O # {}
        PROVE  /\ a \in 1..n /\ w \in Nat /\ w >= 1 /\ O = a..a + w - 1 /\ a + w - 1 \in 1..n
               /\ a > MinPeriods /\ w >= MisalignRun /\ w <= a - 2 /\ 2 * w <= Buffer - 1
    <2> DEFINE lo == Repair!Min(O)
               hi == Repair!Max(O)
    <2>1. lo \in O /\ hi \in O /\ lo <= hi
      <3>1. O \in SUBSET (0..n) /\ n \in Nat
        BY <1>1, <1>2
      <3> HIDE DEF O, n
      <3> QED
        BY <1>3, <3>1, EndsOf
    <2>2. lo \in 1..n /\ hi \in 1..n
      BY <1>2, <2>1
    <2>3. /\ O = lo..hi /\ lo > MinPeriods
          /\ Cardinality(O) \in MisalignRun..Repair!Min({lo - 2, (Buffer - 1) \div 2})
      BY <1>3, RepairCounts
    <2>4. a = lo /\ w = hi - lo + 1
      BY <1>3
    <2> HIDE DEF O, lo, hi, a, w
    <2>5. Cardinality(O) = hi - lo + 1
      BY <2>1, <2>2, <2>3, FS_Interval
    <2> DEFINE x == lo - 2
               y == (Buffer - 1) \div 2
    <2>6. x \in Int /\ y \in Int /\ 2 * y <= Buffer - 1
      BY <1>1, <2>2
    <2>7. Repair!Min({x, y}) <= x /\ Repair!Min({x, y}) <= y /\ Repair!Min({x, y}) \in Int
      <3> HIDE DEF x, y
      <3>1. \E z \in {x, y} : \A v \in {x, y} : z <= v
        BY <2>6
      <3>2. Repair!Min({x, y}) \in {x, y} /\ \A v \in {x, y} : Repair!Min({x, y}) <= v
        BY <3>1 DEF Repair!Min
      <3> QED
        BY <2>6, <3>2
    <2> DEFINE m == Repair!Min({x, y})
    <2>8. w \in MisalignRun..m
      BY <2>3, <2>4, <2>5
    <2> HIDE DEF m, x, y
    <2>9. w <= x /\ w <= y
      BY <1>1, <2>1, <2>2, <2>4, <2>6, <2>7, <2>8 DEF m
    <2>10. w <= a - 2 /\ 2 * w <= Buffer - 1 /\ w >= MisalignRun /\ w >= 1
      BY <1>1, <2>1, <2>2, <2>4, <2>6, <2>8, <2>9 DEF x
    <2>11. a + w - 1 = hi /\ O = a..a + w - 1
      BY <2>2, <2>3, <2>4
    <2> QED
      BY <2>1, <2>2, <2>3, <2>4, <2>10, <2>11
  <1>4. O = {} => O = a..a + w - 1 /\ a = 1 /\ w = 0
    OBVIOUS
  <1> HIDE DEF O, a, w
  <1>5. O = a..a + w - 1 /\ a \in Nat /\ w \in Nat /\ a + w - 1 <= n
    BY <1>1, <1>3, <1>4
  <1>6. w # 0 => a > MinPeriods /\ w <= a - 2 /\ 2 * w <= Buffer - 1
    BY <1>3, <1>4
  <1>7. \A d \in 1..n : d \in O \/ f[d].close = Truth[c][d]
    BY DEF O
  <1>8. Broken(c, a, w)
    BY <1>2, <1>5, <1>6, <1>7 DEF Broken
  <1>9. S = O
    <2>1. \A d \in 1..n : Repair!Suspect(f, d) <=> d \in O
      BY <1>5, <1>8, SuspectIsOff
    <2> HIDE DEF f, n
    <2> QED
      BY <1>1, <1>2, <2>1
  <1>10. Repair!MisalignedSegments(f) = {r \in Repair!Runs(O) : r[2] - r[1] + 1 >= MisalignRun}
    <2>1. Repair!MisalignedSegments(f) = {r \in Repair!Runs(S) : r[2] - r[1] + 1 >= MisalignRun}
      BY DEF Repair!MisalignedSegments
    <2> HIDE DEF S, f
    <2> QED
      BY <1>9, <2>1
  <1> HIDE DEF S, f, n
  <1>11. Repair!Covered(Repair!MisalignedSegments(f)) \subseteq O
    BY <1>10 DEF Repair!Covered, Repair!Runs
  <1>12. O \subseteq Repair!Covered(Repair!MisalignedSegments(f))
    <2> SUFFICES ASSUME NEW d \in O PROVE d \in Repair!Covered(Repair!MisalignedSegments(f))
      OBVIOUS
    <2> DEFINE b == a + w - 1
    <2>1. a \in 1..n /\ b \in 1..n /\ a <= b /\ a..b \subseteq O /\ d \in a..b /\ w >= MisalignRun
      BY <1>1, <1>3
    <2>2. w = b - a + 1
      BY <1>3
    <2> HIDE DEF b
    <2>3. PICK r \in Repair!Runs(O) : r[1] <= a /\ b <= r[2]
      BY <1>1, <1>2, <2>1, RunAround
    <2>4. r[1] \in 1..n /\ r[2] \in 1..n
      BY <1>2 DEF Repair!Runs
    <2>5. r[2] - r[1] + 1 >= MisalignRun /\ d \in r[1]..r[2]
      BY <1>1, <2>1, <2>2, <2>3, <2>4
    <2> QED
      BY <1>10, <2>5 DEF Repair!Covered
  <1> QED
    BY <1>11, <1>12 DEF f, O

\* The stored return of a bar is the true one, zero or none.
ReturnsAre(f, n) == \A c \in Repair!CodeSet, d \in 1..n : f[c][d].pct \in {0, Repair!Null, Repair!TruePct(c, d)}

LEMMA PatrolIsHonest == ASSUME Framed, Repair!Steady, ReturnsAre(frame, Repair!today) PROVE Repair!PatrolHonest
  <1> SUFFICES ASSUME NEW c \in Repair!CodeSet, NEW d \in 2..Repair!today
               PROVE  /\ Repair!Is(c, d) /\ Repair!Is(c, d - 1) => c \notin Repair!Breaks(d)
                      /\ Repair!Is(c, d - 1) /\ d \in Repair!Off(c) /\ frame[c][d].pct # Repair!Null
                            => c \in Repair!Breaks(d)
    BY DEF Repair!PatrolHonest
  <1> DEFINE n == Repair!today
             N == Len(Truth[RepairCodes[1]])
             f == frame[c]
             t == Truth[c][d]
             s == Truth[c][d - 1]
  <1>1. n \in 1..N /\ N \in Nat /\ Ratio \in Nat
    BY RepairValues, RepairNumbers DEF Framed
  <1>2. d > 1 /\ d # 1 /\ d \in 1..n /\ d \in 1..N /\ d - 1 \in 1..N
    BY <1>1
  <1>3. t \in Nat /\ s \in Nat
    BY <1>2, TruthIsInt
  <1>4. Repair!TruePct(c, d) = t - s
    BY <1>2 DEF Repair!TruePct
  <1>5. s <= Ratio * t /\ Ratio * t < t * Shift /\ t < t * Shift /\ t * Shift \in Nat /\ Ratio * t \in Nat
    <2>1. s <= Ratio * t /\ Ratio * t < t * Shift /\ t < t * Shift
      BY <1>2, SteadyFacts
    <2>2. t * Shift \in Nat /\ Ratio * t \in Nat
      <3>1. Shift \in Nat
        BY RepairValues
      <3> HIDE DEF t, s
      <3> QED
        BY <1>1, <1>3, <3>1
    <2> QED
      BY <2>1, <2>2
  <1>6. f[d].pct \in {0, Repair!Null, t - s}
    BY <1>2, <1>4 DEF ReturnsAre
  <1>7. c \in Repair!Breaks(d) <=> f[d].pct # Repair!Null /\ f[d].close - f[d - 1].close # f[d].pct
    BY <1>2 DEF Repair!Breaks
  <1>8. ASSUME Repair!Is(c, d), Repair!Is(c, d - 1) PROVE c \notin Repair!Breaks(d)
    BY <1>4, <1>7, <1>8 DEF Repair!Is
  <1>9. ASSUME Repair!Is(c, d - 1), d \in Repair!Off(c), f[d].pct # Repair!Null PROVE c \in Repair!Breaks(d)
    <2>1. f[d].close = t * Shift /\ f[d - 1].close = s
      BY <1>9 DEF Repair!Off, Repair!Is
    <2>2. f[d].pct = 0 \/ f[d].pct = t - s
      BY <1>6, <1>9
    <2> DEFINE u == t * Shift
               v == Ratio * t
    <2>3. u \in Nat /\ v \in Nat /\ s <= v /\ v < u /\ t < u
      BY <1>5
    <2> HIDE DEF u, v, t, s
    <2>4. u - s # 0 /\ u - s # t - s
      BY <1>3, <2>3
    <2> QED
      BY <1>7, <1>9, <2>1, <2>2, <2>4 DEF u
  <1> QED
    BY <1>8, <1>9

\* The bar of a day is the true one; some fetch of a list covers it.
RowIs(f, c, d) == f[c][d].close = Truth[c][d] /\ f[c][d].pct = Repair!TruePct(c, d)
InFetch(item, m) == item.code = m[1] /\ m[2] \in item.lo..item.hi
Ahead(left, m) == \E i \in DOMAIN left : InFetch(left[i], m)

RepairItems(n) == {r \in [code : Repair!CodeSet, lo : Nat, hi : Nat] : r.lo \in 1..r.hi /\ r.hi <= n}
RepairTasks(n) ==
    [kind : {"idle", "repair", "amounts"}, left : Seq(RepairItems(n)), failed : Nat, clean : BOOLEAN,
     found : SUBSET (Repair!CodeSet \X (1..n))]

\* What a repair set out to mend is true already or still ahead of it, unless a fetch failed.
TaskIs(t, f, n) ==
    /\ t \in RepairTasks(n)
    /\ t.kind = "idle" <=> t.left = <<>>
    /\ t.kind = "repair" /\ t.clean => \A m \in t.found : RowIs(f, m[1], m[2]) \/ Ahead(t.left, m)
MendedIs(M, f, n) == M \subseteq Repair!CodeSet \X (1..n) /\ \A m \in M : RowIs(f, m[1], m[2])

RepairInv ==
    /\ Framed /\ ReturnsAre(frame, Repair!today)
    /\ TaskIs(task, frame, Repair!today) /\ MendedIs(mended, frame, Repair!today)
    /\ bad \in 0..MaxBad /\ jobs \in 0..MaxJobs

\* True bars stay and days are added.
Grows(f, n, g, k) ==
    /\ n \in Nat /\ k \in Nat /\ n <= k
    /\ \A c \in Repair!CodeSet, d \in 1..n : RowIs(f, c, d) => RowIs(g, c, d)

LEMMA ItemsStay ==
    ASSUME NEW n \in Nat, NEW k \in Nat, n <= k, NEW s \in Seq(RepairItems(n)) PROVE s \in Seq(RepairItems(k))
  <1>1. RepairItems(n) \subseteq RepairItems(k)
    BY DEF RepairItems
  <1> HIDE DEF RepairItems
  <1> QED
    BY <1>1

LEMMA MendedStays ==
    ASSUME NEW f, NEW n, NEW g, NEW k, Grows(f, n, g, k), NEW M, MendedIs(M, f, n) PROVE MendedIs(M, g, k)
  <1>1. M \subseteq Repair!CodeSet \X (1..n) /\ 1..n \subseteq 1..k
    BY DEF Grows, MendedIs
  <1>2. \A m \in M : m[1] \in Repair!CodeSet /\ m[2] \in 1..n
    BY <1>1
  <1> QED
    BY <1>1, <1>2 DEF Grows, MendedIs

\* What a found bar is about.
LEMMA FoundIs ==
    ASSUME NEW f, NEW n, NEW t, TaskIs(t, f, n)
    PROVE  /\ t.kind \in {"idle", "repair", "amounts"} /\ t.left \in Seq(RepairItems(n)) /\ t.failed \in Nat
           /\ t.clean \in BOOLEAN /\ t.found \subseteq Repair!CodeSet \X (1..n)
           /\ \A m \in t.found : m[1] \in Repair!CodeSet /\ m[2] \in 1..n
           /\ t = [kind |-> t.kind, left |-> t.left, failed |-> t.failed, clean |-> t.clean, found |-> t.found]
  <1>1. t \in RepairTasks(n)
    BY DEF TaskIs
  <1>2. t.found \subseteq Repair!CodeSet \X (1..n)
    BY <1>1 DEF RepairTasks
  <1>3. \A m \in t.found : m[1] \in Repair!CodeSet /\ m[2] \in 1..n
    BY <1>2
  <1>4. /\ t.kind \in {"idle", "repair", "amounts"} /\ t.left \in Seq(RepairItems(n)) /\ t.failed \in Nat
        /\ t.clean \in BOOLEAN
        /\ t = [kind |-> t.kind, left |-> t.left, failed |-> t.failed, clean |-> t.clean, found |-> t.found]
    BY <1>1 DEF RepairTasks
  <1> QED
    BY <1>2, <1>3, <1>4

LEMMA TaskStays ==
    ASSUME NEW f, NEW n, NEW g, NEW k, Grows(f, n, g, k), NEW t, TaskIs(t, f, n) PROVE TaskIs(t, g, k)
  <1>1. n \in Nat /\ k \in Nat /\ n <= k
    BY DEF Grows
  <1>2. t.left \in Seq(RepairItems(k))
    BY <1>1, FoundIs, ItemsStay
  <1>3. t.found \in SUBSET (Repair!CodeSet \X (1..k))
    <2>1. 1..n \subseteq 1..k
      BY <1>1
    <2> QED
      BY <2>1, FoundIs
  <1>4. t \in RepairTasks(k)
    BY <1>2, <1>3, FoundIs DEF RepairTasks
  <1>5. t.kind = "repair" /\ t.clean => \A m \in t.found : RowIs(g, m[1], m[2]) \/ Ahead(t.left, m)
    BY FoundIs DEF TaskIs, Grows
  <1> QED
    BY <1>4, <1>5 DEF TaskIs

LEMMA IdleIs == ASSUME NEW f, NEW n \in Nat PROVE TaskIs(Repair!Idle, f, n)
  <1>1. <<>> \in Seq(RepairItems(n)) /\ {} \in SUBSET (Repair!CodeSet \X (1..n))
    OBVIOUS
  <1>2. Repair!Idle = [kind |-> "idle", left |-> <<>>, failed |-> 0, clean |-> TRUE, found |-> {}]
    BY DEF Repair!Idle
  <1>3. Repair!Idle \in RepairTasks(n)
    BY <1>1, <1>2 DEF RepairTasks
  <1> QED
    BY <1>2, <1>3 DEF TaskIs

\* Taking up a task.
LEMMA TaskStarts ==
    ASSUME NEW n \in Nat, TaskIs(task, frame, n), NEW kind \in {"repair", "amounts"}, NEW work \in Seq(RepairItems(n)),
           NEW found \in SUBSET (Repair!CodeSet \X (1..n)), jobs \in 0..MaxJobs,
           kind = "repair" => \A m \in found : Ahead(work, m), Repair!Task(kind, work, found)
    PROVE  TaskIs(task', frame, n) /\ jobs' \in 0..MaxJobs
  <1>1. task' = [kind |-> IF work = <<>> THEN "idle" ELSE kind, left |-> work, failed |-> 0, clean |-> TRUE,
                 found |-> found]
    BY DEF Repair!Task, Repair!Idle
  <1>2. jobs' \in 0..MaxJobs
    BY RepairNumbers DEF Repair!Task
  <1>3. task' \in RepairTasks(n)
    BY <1>1 DEF RepairTasks
  <1>4. task'.kind = "idle" <=> task'.left = <<>>
    BY <1>1
  <1>5. task'.kind = "repair" => \A m \in task'.found : Ahead(task'.left, m)
    BY <1>1
  <1> QED
    BY <1>2, <1>3, <1>4, <1>5 DEF TaskIs

\* Going on to the next code: what the fetch covered is true now, or the task is not clean.
LEMMA TaskGoesOn ==
    ASSUME NEW n \in Nat, NEW f, NEW g, Grows(f, n, g, n), TaskIs(task, f, n), MendedIs(mended, f, n),
           task.kind # "idle", NEW failed \in BOOLEAN, Repair!Proceed(failed),
           task.kind = "repair" /\ ~failed =>
              \A c \in Repair!CodeSet, d \in 1..n : InFetch(Head(task.left), <<c, d>>) => RowIs(g, c, d)
    PROVE  TaskIs(task', g, n) /\ MendedIs(mended', g, n)
  <1> DEFINE left == Tail(task.left)
             clean == task.clean /\ ~failed
             stop == left = <<>> \/ (task.kind = "amounts" /\ failed /\ task.failed + 1 = RepairBreaker)
             more == task.failed + (IF failed THEN 1 ELSE 0)
  <1>1. /\ task.left \in Seq(RepairItems(n)) /\ task.left # <<>> /\ task.kind \in {"repair", "amounts"}
        /\ task.found \subseteq Repair!CodeSet \X (1..n) /\ task.failed \in Nat /\ task.clean \in BOOLEAN
    BY FoundIs DEF TaskIs
  <1>2. left \in Seq(RepairItems(n))
    BY <1>1
  <1>3. task' = IF stop THEN Repair!Idle ELSE [task EXCEPT !.left = left, !.failed = more, !.clean = clean]
    BY DEF Repair!Proceed
  <1>4. mended' = IF stop /\ task.kind = "repair" /\ clean THEN task.found ELSE mended
    BY DEF Repair!Proceed
  \* A found bar is true, or one of the fetches that are left covers it.
  <1>5. ASSUME task.kind = "repair", clean, NEW m \in task.found
        PROVE  RowIs(g, m[1], m[2]) \/ Ahead(left, m)
    <2>1. m[1] \in Repair!CodeSet /\ m[2] \in 1..n /\ m = <<m[1], m[2]>>
      BY <1>1
    <2>2. CASE RowIs(f, m[1], m[2])
      BY <2>1, <2>2 DEF Grows
    <2>3. CASE Ahead(task.left, m)
      <3>1. PICK i \in DOMAIN task.left : InFetch(task.left[i], m)
        BY <2>3 DEF Ahead
      <3>2. CASE i = 1
        <4>1. InFetch(Head(task.left), m)
          BY <1>1, <3>1, <3>2
        <4> QED
          BY <1>5, <2>1, <4>1
      <3>3. CASE i # 1
        <4>1. i - 1 \in DOMAIN left /\ left[i - 1] = task.left[i]
          BY <1>1, <3>1, <3>3
        <4> QED
          BY <3>1, <4>1 DEF Ahead
      <3> QED
        BY <3>2, <3>3
    <2> QED
      BY <1>5, <2>2, <2>3 DEF TaskIs
  <1>6. stop /\ task.kind = "repair" => left = <<>>
    OBVIOUS
  <1> HIDE DEF left, clean, stop, more
  <1>7. MendedIs(mended', g, n)
    <2>1. CASE stop /\ task.kind = "repair" /\ clean
      <3>1. left = <<>>
        BY <1>6, <2>1
      <3>2. \A m : ~Ahead(left, m)
        BY <3>1 DEF Ahead
      <3>3. mended' = task.found
        BY <1>4, <2>1
      <3> QED
        BY <1>1, <1>5, <2>1, <3>2, <3>3 DEF MendedIs
    <2>2. CASE ~(stop /\ task.kind = "repair" /\ clean)
      BY <1>4, <2>2, MendedStays
    <2> QED
      BY <2>1, <2>2
  <1>8. TaskIs(task', g, n)
    <2>1. CASE stop
      BY <1>3, <2>1, IdleIs
    <2>2. CASE ~stop
      <3>1. task' = [kind |-> task.kind, left |-> left, failed |-> more, clean |-> clean, found |-> task.found]
        <4> DEFINE k == task.kind
                   p == task.left
                   e == task.failed
                   b == task.clean
                   o == task.found
        <4>1. task = [kind |-> k, left |-> p, failed |-> e, clean |-> b, found |-> o]
          BY FoundIs
        <4>2. task' = [task EXCEPT !.left = left, !.failed = more, !.clean = clean]
          BY <1>3, <2>2
        <4> HIDE DEF k, p, e, b, o
        <4>3. task' = [kind |-> k, left |-> left, failed |-> more, clean |-> clean, found |-> o]
          BY <4>1, <4>2
        <4> QED
          BY <4>3 DEF k, o
      <3>2. left # <<>> /\ clean \in BOOLEAN /\ more \in Nat
        BY <1>1, <2>2 DEF stop, clean, more
      <3>3. task' \in RepairTasks(n)
        BY <1>1, <1>2, <3>1, <3>2 DEF RepairTasks
      <3>4. task'.kind # "idle" /\ task'.left # <<>>
        BY <1>1, <3>1, <3>2
      <3>5. task'.kind = "repair" /\ task'.clean => \A m \in task'.found : RowIs(g, m[1], m[2]) \/ Ahead(task'.left, m)
        BY <1>5, <3>1
      <3> QED
        BY <3>3, <3>4, <3>5 DEF TaskIs
    <2> QED
      BY <2>1, <2>2
  <1> QED
    BY <1>7, <1>8

\* The larger and the smaller of two numbers.
LEMMA OfTwo ==
    ASSUME NEW x \in Int, NEW y \in Int
    PROVE  /\ Repair!Max({x, y}) = IF x >= y THEN x ELSE y
           /\ Repair!Min({x, y}) = IF x <= y THEN x ELSE y
  <1>1. \E z \in {x, y} : \A v \in {x, y} : z >= v
    OBVIOUS
  <1>2. Repair!Max({x, y}) \in {x, y} /\ \A v \in {x, y} : Repair!Max({x, y}) >= v
    BY <1>1 DEF Repair!Max
  <1>3. \E z \in {x, y} : \A v \in {x, y} : z <= v
    OBVIOUS
  <1>4. Repair!Min({x, y}) \in {x, y} /\ \A v \in {x, y} : Repair!Min({x, y}) <= v
    BY <1>3 DEF Repair!Min
  <1> QED
    BY <1>2, <1>4

Segments(n) == {r \in Nat \X Nat : r[1] \in 1..r[2] /\ r[2] <= n}

\* The window of a fetch is about stored days and covers what was found.
LEMMA SpanIs ==
    ASSUME NEW n \in Nat \ {0}, Repair!today = n, NEW segs \in SUBSET Segments(n), segs # {}
    PROVE  /\ Repair!Span(segs).lo \in 1..Repair!Span(segs).hi /\ Repair!Span(segs).hi \in 1..n
           /\ \A r \in segs : Repair!Span(segs).lo <= r[1] /\ r[2] <= Repair!Span(segs).hi
  <1> DEFINE first == {r[1] : r \in segs}
             final == {r[2] : r \in segs}
             a == Repair!Min(first)
             b == Repair!Max(final)
  <1>1. \A r \in segs : r[1] \in 1..n /\ r[2] \in 1..n /\ r[1] <= r[2]
    BY DEF Segments
  <1>2. first \in SUBSET (0..n) /\ first # {} /\ final \in SUBSET (0..n) /\ final # {}
    BY <1>1
  <1>3. a \in first /\ (\A x \in first : a <= x) /\ b \in final /\ \A x \in final : b >= x
    <2> HIDE DEF first, final
    <2> QED
      BY <1>2, EndsOf
  <1>4. a \in 1..n /\ b \in 1..n /\ \A r \in segs : a <= r[1] /\ r[2] <= b
    BY <1>1, <1>3
  <1>5. a <= b
    <2>1. PICK r \in segs : TRUE
      OBVIOUS
    <2>2. a <= r[1] /\ r[1] <= r[2] /\ r[2] <= b /\ r[1] \in 1..n /\ r[2] \in 1..n
      BY <1>1, <1>4, <2>1
    <2> HIDE DEF a, b
    <2> QED
      BY <1>4, <2>2
  <1> HIDE DEF a, b
  <1>6. Pad \in Nat
    BY RepairNumbers
  <1>7. Repair!Span(segs) = [lo |-> Repair!Max({1, a - Pad}), hi |-> Repair!Min({n, b + Pad})]
    BY DEF Repair!Span, a, b
  <1>8. Repair!Max({1, a - Pad}) \in 1..a /\ Repair!Min({n, b + Pad}) \in b..n
    <2>1. a - Pad \in Int /\ b + Pad \in Int /\ 1 \in Int /\ n \in Int
      BY <1>4, <1>6
    <2>2. /\ Repair!Max({1, a - Pad}) = IF 1 >= a - Pad THEN 1 ELSE a - Pad
          /\ Repair!Min({n, b + Pad}) = IF n <= b + Pad THEN n ELSE b + Pad
      BY ONLY <2>1, OfTwo
    <2> QED
      BY <1>4, <1>6, <2>2
  <1>9. Repair!Span(segs).lo \in 1..a /\ Repair!Span(segs).hi \in b..n
    BY <1>7, <1>8
  <1> HIDE DEF first, final
  <1>10. \A r \in segs : Repair!Span(segs).lo <= r[1] /\ r[2] <= Repair!Span(segs).hi
    BY <1>1, <1>4, <1>9
  <1> QED
    BY <1>4, <1>5, <1>9, <1>10

\* What a scan found, code by code.
Found(of, n) == DOMAIN of \subseteq Repair!CodeSet /\ \A c \in DOMAIN of : of[c] \subseteq Segments(n) /\ of[c] # {}

LEMMA FetchesCover ==
    ASSUME Framed, NEW of, Found(of, Repair!today)
    PROVE  /\ Repair!Fetches(of) \in Seq(RepairItems(Repair!today))
           /\ Repair!Bars(of) \subseteq Repair!CodeSet \X (1..Repair!today)
           /\ \A m \in Repair!Bars(of) : Ahead(Repair!Fetches(of), m)
  <1> DEFINE n == Repair!today
             codes == Repair!Those(RepairCodes, DOMAIN of)
             item(c) == [code |-> c, lo |-> Repair!Span(of[c]).lo, hi |-> Repair!Span(of[c]).hi]
  <1>1. n \in Nat \ {0}
    BY RepairValues DEF Framed
  <1>2. codes = Those(RepairCodes, DOMAIN of)
    BY DEF Repair!Those, Those
  <1>3. /\ codes \in Seq(Repair!CodeSet) /\ \A k \in DOMAIN codes : codes[k] \in DOMAIN of
        /\ \A i \in DOMAIN RepairCodes : RepairCodes[i] \in DOMAIN of => \E k \in DOMAIN codes : codes[k] = RepairCodes[i]
    <2> HIDE DEF codes
    <2> QED
      BY <1>2, RepairNumbers, ThoseFacts
  <1>4. \A c \in Repair!CodeSet : \E i \in DOMAIN RepairCodes : RepairCodes[i] = c
    BY RepairNumbers DEF Repair!CodeSet, Repair!ToSet
  <1>5. \A c \in DOMAIN of : /\ c \in Repair!CodeSet /\ item(c).lo \in 1..item(c).hi /\ item(c).hi \in 1..n
                             /\ \A r \in of[c] : item(c).lo <= r[1] /\ r[2] <= item(c).hi
    BY <1>1, SpanIs DEF Found
  <1>6. Repair!Fetches(of) = [i \in DOMAIN codes |-> item(codes[i])]
    BY DEF Repair!Fetches
  <1>7. \A c \in DOMAIN of : item(c) \in RepairItems(n) /\ item(c).code = c
    <2> TAKE c \in DOMAIN of
    <2>1. c \in Repair!CodeSet /\ item(c).lo \in 1..item(c).hi /\ item(c).hi \in 1..n
      BY <1>5
    <2> DEFINE lo == Repair!Span(of[c]).lo
               hi == Repair!Span(of[c]).hi
    <2>2. item(c) = [code |-> c, lo |-> lo, hi |-> hi] /\ lo \in 1..hi /\ hi \in 1..n
      BY <2>1
    <2> HIDE DEF lo, hi, item, n
    <2>3. lo \in Nat /\ hi \in Nat /\ hi <= n
      BY <1>1, <2>2
    <2> QED
      BY <2>1, <2>2, <2>3 DEF RepairItems
  <1> HIDE DEF codes, item, n
  <1>8. Repair!Fetches(of) \in Seq(RepairItems(n))
    <2>1. \A i \in 1..Len(codes) : item(codes[i]) \in RepairItems(n)
      BY <1>3, <1>7
    <2> QED
      BY <1>3, <1>6, <2>1
  <1>9. Repair!Bars(of) \subseteq Repair!CodeSet \X (1..n)
    BY DEF Repair!Bars, n
  <1>10. ASSUME NEW m \in Repair!Bars(of) PROVE Ahead(Repair!Fetches(of), m)
    <2>1. m[1] \in DOMAIN of /\ m[2] \in Repair!Covered(of[m[1]]) /\ m[2] \in 1..n
      BY DEF Repair!Bars, n
    <2> DEFINE c == m[1]
    <2>2. PICK r \in of[c] : m[2] \in r[1]..r[2]
      BY <2>1 DEF Repair!Covered
    <2>3. r[1] \in Nat /\ r[2] \in Nat
      BY <2>1, <2>2 DEF Found, Segments
    <2>4. item(c).lo <= r[1] /\ r[2] <= item(c).hi /\ item(c).lo \in 1..item(c).hi /\ item(c).hi \in 1..n
      BY <1>5, <2>1
    <2>5. m[2] \in item(c).lo..item(c).hi
      BY <1>1, <2>1, <2>2, <2>3, <2>4
    <2>6. PICK k \in DOMAIN codes : codes[k] = c
      <3>1. c \in Repair!CodeSet /\ c \in DOMAIN of
        BY <1>5, <2>1
      <3> HIDE DEF c
      <3> QED
        BY <1>3, <1>4, <3>1
    <2>7. k \in DOMAIN Repair!Fetches(of) /\ Repair!Fetches(of)[k] = item(c)
      BY <1>6, <2>6
    <2>8. InFetch(item(c), m)
      BY <1>7, <2>1, <2>5 DEF InFetch
    <2> QED
      BY <2>7, <2>8 DEF Ahead
  <1> QED
    BY <1>8, <1>9, <1>10 DEF n

\* What the two scans find are segments of stored days.
LEMMA ScansFind ==
    ASSUME Framed
    PROVE  /\ Found(Repair!Findings([c \in Repair!CodeSet |-> Repair!FrozenSegments(frame[c])]), Repair!today)
           /\ Found(Repair!Findings([c \in Repair!CodeSet |-> Repair!MisalignedSegments(frame[c])]), Repair!today)
  <1> DEFINE n == Repair!today
  <1>1. \A segs : /\ DOMAIN Repair!Findings(segs) \subseteq Repair!CodeSet
                  /\ \A c \in DOMAIN Repair!Findings(segs) : Repair!Findings(segs)[c] = segs[c] /\ segs[c] # {}
    BY DEF Repair!Findings
  <1>2. ASSUME NEW c \in Repair!CodeSet PROVE Repair!FrozenSegments(frame[c]) \subseteq Segments(n)
    <2> DEFINE S == Repair!FlatDays(frame[c])
    <2>1. S \subseteq 2..n /\ n \in Nat
      BY FrameOf DEF Repair!FlatDays, Repair!Flat
    <2> HIDE DEF S
    <2>2. \A r \in Repair!Runs(S) : r[1] \in 2..n /\ r[2] \in 2..n /\ r[1] <= r[2]
      BY <2>1 DEF Repair!Runs
    <2> HIDE DEF n
    <2>3. \A r \in Repair!Runs(S) : <<r[1] - 1, r[2]>> \in Segments(n)
      <3> TAKE r \in Repair!Runs(S)
      <3>1. r[1] - 1 \in Nat /\ r[2] \in Nat /\ r[1] - 1 \in 1..r[2] /\ r[2] <= n
        BY <2>1, <2>2
      <3> QED
        BY <3>1 DEF Segments
    <2> QED
      BY <2>3 DEF Repair!FrozenSegments, S
  <1>3. ASSUME NEW c \in Repair!CodeSet PROVE Repair!MisalignedSegments(frame[c]) \subseteq Segments(n)
    <2> DEFINE S == {d \in DOMAIN frame[c] : Repair!Suspect(frame[c], d)}
    <2>1. S \subseteq 1..n /\ n \in Nat
      BY FrameOf
    <2> HIDE DEF S, n
    <2>2. \A r \in Repair!Runs(S) : r \in Segments(n)
      <3> TAKE r \in Repair!Runs(S)
      <3>1. r \in S \X S /\ r[1] <= r[2]
        BY DEF Repair!Runs
      <3>2. r[1] \in 1..n /\ r[2] \in 1..n /\ r \in Nat \X Nat
        <4>1. r[1] \in S /\ r[2] \in S /\ r = <<r[1], r[2]>>
          BY <3>1
        <4>2. r[1] \in 1..n /\ r[2] \in 1..n
          BY <2>1, <4>1
        <4>3. r[1] \in Nat /\ r[2] \in Nat
          BY <4>2
        <4> QED
          BY <4>1, <4>2, <4>3
      <3>3. r[1] \in 1..r[2] /\ r[2] <= n
        BY <2>1, <3>1, <3>2
      <3> QED
        BY <3>2, <3>3 DEF Segments
    <2> QED
      BY <2>2 DEF Repair!MisalignedSegments, S
  <1> HIDE DEF n
  <1>4. ASSUME NEW segs, \A c \in Repair!CodeSet : segs[c] \subseteq Segments(n) PROVE Found(Repair!Findings(segs), n)
    BY <1>1, <1>4 DEF Found
  <1>5. Found(Repair!Findings([c \in Repair!CodeSet |-> Repair!FrozenSegments(frame[c])]), n)
    <2> DEFINE segs == [c \in Repair!CodeSet |-> Repair!FrozenSegments(frame[c])]
    <2>1. \A c \in Repair!CodeSet : segs[c] \subseteq Segments(n)
      BY <1>2
    <2> HIDE DEF segs
    <2>2. Found(Repair!Findings(segs), n)
      BY <1>4, <2>1
    <2> QED
      BY <2>2 DEF segs
  <1>6. Found(Repair!Findings([c \in Repair!CodeSet |-> Repair!MisalignedSegments(frame[c])]), n)
    <2> DEFINE segs == [c \in Repair!CodeSet |-> Repair!MisalignedSegments(frame[c])]
    <2>1. \A c \in Repair!CodeSet : segs[c] \subseteq Segments(n)
      BY <1>3
    <2> HIDE DEF segs
    <2>2. Found(Repair!Findings(segs), n)
      BY <1>4, <2>1
    <2> QED
      BY <2>2 DEF segs
  <1> QED
    BY <1>5, <1>6 DEF n

\* The days without an amount of the first codes.
LEMMA GapsAre == ASSUME Framed PROVE Repair!AmountGaps \in Seq(RepairItems(Repair!today))
  <1> DEFINE n == Repair!today
             gaps(c) == {d \in 1..n : frame[c][d].amount = 0}
             S == {c \in Repair!CodeSet : gaps(c) # {}}
             with == Repair!Those(RepairCodes, S)
             k == IF Len(with) < LimitCodes THEN Len(with) ELSE LimitCodes
             item(c) == [code |-> c, lo |-> Repair!Min(gaps(c)), hi |-> Repair!Max(gaps(c))]
  <1>1. n \in Nat \ {0} /\ LimitCodes \in Nat
    BY RepairValues, RepairNumbers DEF Framed
  <1>2. with = Those(RepairCodes, S)
    BY DEF Repair!Those, Those
  <1>3. with \in Seq(Repair!CodeSet) /\ \A i \in DOMAIN with : with[i] \in S
    <2> HIDE DEF with, S
    <2> QED
      BY <1>2, RepairNumbers, ThoseFacts
  <1>4. Repair!AmountGaps = [i \in 1..k |-> item(with[i])]
    BY DEF Repair!AmountGaps
  <1>5. \A c \in S : item(c) \in RepairItems(n)
    <2> TAKE c \in S
    <2> DEFINE G == gaps(c)
    <2>1. G \in SUBSET (0..n) /\ G # {} /\ G \subseteq 1..n /\ c \in Repair!CodeSet
      OBVIOUS
    <2>2. item(c) = [code |-> c, lo |-> Repair!Min(G), hi |-> Repair!Max(G)]
      OBVIOUS
    <2> HIDE DEF G, gaps, S, item, n
    <2>3. Repair!Min(G) \in G /\ Repair!Max(G) \in G /\ Repair!Min(G) <= Repair!Max(G)
      BY <1>1, <2>1, EndsOf
    <2>4. Repair!Min(G) \in Nat /\ Repair!Max(G) \in Nat /\ Repair!Min(G) \in 1..Repair!Max(G) /\ Repair!Max(G) <= n
      <3> DEFINE a == Repair!Min(G)
                 b == Repair!Max(G)
      <3>1. a \in 1..n /\ b \in 1..n /\ a <= b
        BY <2>1, <2>3
      <3> HIDE DEF a, b
      <3>2. a \in Nat /\ b \in Nat /\ a \in 1..b /\ b <= n
        BY <1>1, <3>1
      <3> QED
        BY <3>2 DEF a, b
    <2> QED
      BY <2>1, <2>2, <2>4 DEF RepairItems
  <1> HIDE DEF S, with, item, n
  <1>6. k \in Nat /\ \A i \in 1..k : i \in DOMAIN with
    BY <1>1, <1>3
  <1> HIDE DEF k
  <1>7. \A i \in 1..k : item(with[i]) \in RepairItems(n)
    BY <1>3, <1>5, <1>6
  <1> QED
    BY <1>4, <1>6, <1>7 DEF n

\* A fetch overwrites its days with true bars and leaves the others.
LEMMA RewriteIs ==
    ASSUME Framed, NEW item \in RepairItems(Repair!today), NEW amount \in {0, 1},
           Rewritten(item.code, item.lo, item.hi, amount), ReturnsAre(frame, Repair!today)
    PROVE  /\ Repair!today' = Repair!today /\ Grows(frame, Repair!today, frame', Repair!today)
           /\ ReturnsAre(frame', Repair!today)
           /\ \A c \in Repair!CodeSet, d \in 1..Repair!today : InFetch(item, <<c, d>>) => RowIs(frame', c, d)
  <1> DEFINE n == Repair!today
             code == item.code
             bar(d) == Repair!Bar(Truth[code][d], Repair!TruePct(code, d), amount)
  <1>1. n \in Nat /\ code \in Repair!CodeSet
    BY RepairValues DEF Framed, RepairItems
  <1>2. Repair!today' = n
    BY RewriteKeeps
  <1>3. /\ frame \in [Repair!CodeSet -> Seq(RepairBars)] /\ \A c \in Repair!CodeSet : DOMAIN frame[c] = 1..n
    BY FrameOf DEF Framed
  <1>4. frame' = [frame EXCEPT ![code] = [d \in 1..n |-> IF d \in item.lo..item.hi THEN bar(d) ELSE frame[code][d]]]
    BY <1>1, <1>3 DEF Rewritten
  <1>5. \A d : bar(d).close = Truth[code][d] /\ bar(d).pct = Repair!TruePct(code, d)
    BY DEF Repair!Bar
  <1> HIDE DEF bar, n, code
  <1>6. \A c \in Repair!CodeSet, d \in 1..n :
            frame'[c][d] = IF c = code /\ d \in item.lo..item.hi THEN bar(d) ELSE frame[c][d]
    BY <1>1, <1>3, <1>4
  <1>7. \A c \in Repair!CodeSet, d \in 1..n : c = code /\ d \in item.lo..item.hi => RowIs(frame', c, d)
    BY <1>5, <1>6 DEF RowIs
  <1>8. \A c \in Repair!CodeSet, d \in 1..n : RowIs(frame, c, d) => RowIs(frame', c, d)
    BY <1>6, <1>7 DEF RowIs
  <1>9. \A c \in Repair!CodeSet, d \in 1..n : frame'[c][d].pct \in {0, Repair!Null, Repair!TruePct(c, d)}
    <2> TAKE c \in Repair!CodeSet, d \in 1..n
    <2>1. CASE c = code /\ d \in item.lo..item.hi
      BY <1>7, <2>1 DEF RowIs
    <2>2. CASE ~(c = code /\ d \in item.lo..item.hi)
      <3>1. frame'[c][d] = frame[c][d]
        BY <1>6, <2>2
      <3> QED
        BY <3>1 DEF ReturnsAre, n
    <2> QED
      BY <2>1, <2>2
  <1> QED
    BY <1>1, <1>2, <1>7, <1>8, <1>9 DEF n, code, Grows, ReturnsAre, InFetch

\* A day of the evening sync: the bars so far stay, and the return of the new one is the
\* true one, zero or none.
LEMMA DayIs ==
    ASSUME Framed, ReturnsAre(frame, Repair!today),
           NEW as \in [Repair!CodeSet -> {"true", "stuck", "bare", "level", "amount"}], Repair!NewDay(as), Framed'
    PROVE  /\ Repair!today' = Repair!today + 1 /\ Grows(frame, Repair!today, frame', Repair!today + 1)
           /\ ReturnsAre(frame', Repair!today + 1)
  <1> DEFINE n == Repair!today
  <1>1. /\ n \in Nat /\ RepairCodes[1] \in Repair!CodeSet
        /\ \A c \in Repair!CodeSet : frame[c] \in Seq(RepairBars) /\ Len(frame[c]) = n
    BY RepairValues DEF Framed
  <1>2. frame' = [c \in Repair!CodeSet |-> Append(frame[c], Repair!Served(c, n + 1, as[c]))]
    BY DEF Repair!NewDay
  <1>3. \A c \in Repair!CodeSet : \A d : Repair!Served(c, d, as[c]).pct \in {0, Repair!Null, Repair!TruePct(c, d)}
    <2> TAKE c \in Repair!CodeSet
    <2> TAKE d
    <2> DEFINE a == as[c]
    <2>1. a \in {"true", "stuck", "bare", "level", "amount"}
      OBVIOUS
    <2> HIDE DEF a
    <2>2. Repair!Served(c, d, a).pct \in {0, Repair!Null, Repair!TruePct(c, d)}
      BY <2>1 DEF Repair!Served, Repair!Bar
    <2> QED
      BY <2>2 DEF a
  <1> HIDE DEF n
  <1>4. ASSUME NEW c \in Repair!CodeSet
        PROVE  /\ Len(frame'[c]) = n + 1 /\ \A d \in 1..n : frame'[c][d] = frame[c][d]
               /\ frame'[c][n + 1].pct \in {0, Repair!Null, Repair!TruePct(c, n + 1)}
    <2> DEFINE s == Repair!Served(c, n + 1, as[c])
    <2>1. frame'[c] = Append(frame[c], s)
      BY <1>2
    <2>2. s.pct \in {0, Repair!Null, Repair!TruePct(c, n + 1)}
      BY <1>3
    <2> HIDE DEF s
    <2>3. frame'[c][n + 1] = s /\ Len(frame'[c]) = n + 1 /\ \A d \in 1..n : frame'[c][d] = frame[c][d]
      BY <1>1, <2>1
    <2> QED
      BY <2>2, <2>3
  <1>5. Repair!today' = n + 1
    BY <1>1, <1>4 DEF Repair!today
  <1>6. Grows(frame, n, frame', n + 1)
    BY <1>1, <1>4 DEF Grows, RowIs
  <1>7. ReturnsAre(frame', n + 1)
    <2> SUFFICES ASSUME NEW c \in Repair!CodeSet, NEW d \in 1..n + 1
                 PROVE  frame'[c][d].pct \in {0, Repair!Null, Repair!TruePct(c, d)}
      BY DEF ReturnsAre
    <2>1. CASE d = n + 1
      BY <1>4, <2>1
    <2>2. CASE d # n + 1
      <3>1. d \in 1..n
        BY <1>1, <2>2
      <3>2. frame'[c][d] = frame[c][d]
        BY <1>4, <3>1
      <3> QED
        BY <3>1, <3>2 DEF ReturnsAre, n
    <2> QED
      BY <2>1, <2>2
  <1> QED
    BY <1>5, <1>6, <1>7 DEF n

LEMMA GrowsSame == ASSUME NEW f, NEW n \in Nat PROVE Grows(f, n, f, n)
  BY DEF Grows

LEMMA InitRepair == ASSUME Repair!Init PROVE RepairInv
  <1>1. Framed
    BY InitFrames
  <1>2. Repair!today = 1
    BY RepairValues DEF Repair!Init, Repair!today
  <1>3. ReturnsAre(frame, 1)
    <2> SUFFICES ASSUME NEW c \in Repair!CodeSet, NEW d \in 1..1
                 PROVE  frame[c][d].pct \in {0, Repair!Null, Repair!TruePct(c, d)}
      BY DEF ReturnsAre
    <2>1. d = 1 /\ frame[c] = <<Repair!Bar(Truth[c][1], Repair!Null, 1)>>
      BY DEF Repair!Init
    <2>2. frame[c][1].pct = Repair!Null
      BY <2>1 DEF Repair!Bar
    <2> QED
      BY <2>1, <2>2
  <1>4. TaskIs(task, frame, 1) /\ MendedIs(mended, frame, 1)
    BY IdleIs DEF Repair!Init, MendedIs
  <1>5. bad \in 0..MaxBad /\ jobs \in 0..MaxJobs
    BY RepairNumbers DEF Repair!Init
  <1> QED
    BY <1>1, <1>2, <1>3, <1>4, <1>5 DEF RepairInv

LEMMA RepairStep == ASSUME RepairInv, [Repair!Next]_(Repair!vars) PROVE RepairInv'
  <1> DEFINE n == Repair!today
  <1>0. /\ Framed /\ ReturnsAre(frame, n) /\ TaskIs(task, frame, n) /\ MendedIs(mended, frame, n)
        /\ bad \in 0..MaxBad /\ jobs \in 0..MaxJobs
    BY DEF RepairInv
  <1>1. n \in Nat /\ n \in Nat \ {0}
    BY <1>0, RepairValues DEF Framed
  <1>2. Framed'
    BY <1>0, FramesStep
  <1>3. ASSUME frame' = frame PROVE Repair!today' = n
    BY <1>3 DEF Repair!today
  <1> HIDE DEF n, RepairInv
  <1>4. ASSUME frame' = frame, TaskIs(task', frame, n), MendedIs(mended', frame, n), bad' \in 0..MaxBad, jobs' \in 0..MaxJobs
        PROVE  RepairInv'
    BY <1>0, <1>2, <1>3, <1>4 DEF RepairInv, n
  <1>5. CASE UNCHANGED Repair!vars
    BY <1>0, <1>4, <1>5 DEF Repair!vars
  <1>6. ASSUME NEW as \in [Repair!CodeSet -> {"true", "stuck", "bare", "level", "amount"}], Repair!NewDay(as)
        PROVE  RepairInv'
    <2>1. Repair!today' = n + 1 /\ Grows(frame, n, frame', n + 1) /\ ReturnsAre(frame', n + 1)
      BY <1>0, <1>2, <1>6, DayIs DEF n
    <2>2. task' = task /\ mended' = mended /\ jobs' = jobs
      BY <1>6 DEF Repair!NewDay
    <2>3. bad' \in 0..MaxBad
      <3> DEFINE S == {c \in Repair!CodeSet : as[c] # "true"}
      <3>1. bad' = bad + Repair!Cardinality(S) /\ bad' <= MaxBad
        BY <1>6 DEF Repair!NewDay
      <3>2. IsFiniteSet(S)
        <4>1. IsFiniteSet(Repair!CodeSet)
          <5>1. RepairCodes \in Seq(Repair!CodeSet)
            BY RepairNumbers
          <5>2. IsFiniteSet(1..Len(RepairCodes)) /\ DOMAIN RepairCodes = 1..Len(RepairCodes)
            BY <5>1, FS_Interval
          <5>3. RepairCodes \in Surjection(1..Len(RepairCodes), Repair!CodeSet)
            BY <5>1, <5>2 DEF Surjection, Repair!CodeSet, Repair!ToSet
          <5> QED
            BY <5>2, <5>3, FS_Surjection
        <4> QED
          BY <4>1, FS_Subset
      <3> HIDE DEF S
      <3>3. Cardinality(S) \in Nat
        BY <3>2, FS_CardinalityType
      <3>4. bad' = bad + Cardinality(S)
        BY <3>1, RepairCounts
      <3> QED
        BY <1>0, <3>1, <3>3, <3>4, RepairNumbers
    <2>4. TaskIs(task, frame', n + 1)
      BY <1>0, <2>1, TaskStays
    <2>5. MendedIs(mended, frame', n + 1)
      BY <1>0, <2>1, MendedStays
    <2> QED
      BY <1>0, <1>2, <2>1, <2>2, <2>3, <2>4, <2>5 DEF RepairInv
  <1>7. CASE Repair!FullRepair
    <2> DEFINE frozen == Repair!Findings([c \in Repair!CodeSet |-> Repair!FrozenSegments(frame[c])])
               mis == Repair!Findings([c \in Repair!CodeSet |-> Repair!MisalignedSegments(frame[c])])
               work == Repair!Fetches(frozen) \o Repair!Fetches(mis)
               found == Repair!Bars(frozen) \cup Repair!Bars(mis)
    <2>1. Repair!Task("repair", work, found)
      BY <1>7 DEF Repair!FullRepair
    <2>2. Found(frozen, n) /\ Found(mis, n)
      BY <1>0, ScansFind DEF n
    <2> HIDE DEF frozen, mis
    <2> DEFINE p == Repair!Fetches(frozen)
               q == Repair!Fetches(mis)
    <2>3. /\ p \in Seq(RepairItems(n)) /\ Repair!Bars(frozen) \subseteq Repair!CodeSet \X (1..n)
          /\ \A m \in Repair!Bars(frozen) : Ahead(p, m)
      BY <1>0, <2>2, FetchesCover DEF n
    <2>4. /\ q \in Seq(RepairItems(n)) /\ Repair!Bars(mis) \subseteq Repair!CodeSet \X (1..n)
          /\ \A m \in Repair!Bars(mis) : Ahead(q, m)
      BY <1>0, <2>2, FetchesCover DEF n
    <2>5. work \in Seq(RepairItems(n)) /\ found \in SUBSET (Repair!CodeSet \X (1..n))
      BY <2>3, <2>4
    <2>6. work = p \o q
      OBVIOUS
    <2> HIDE DEF work, p, q
    <2>7. \A m \in found : Ahead(work, m)
      <3>1. ASSUME NEW m, Ahead(p, m) PROVE Ahead(work, m)
        <4>1. PICK i \in DOMAIN p : InFetch(p[i], m)
          BY <3>1 DEF Ahead
        <4>2. i \in DOMAIN work /\ work[i] = p[i]
          BY <2>3, <2>4, <2>6
        <4> QED
          BY <4>1, <4>2 DEF Ahead
      <3>2. ASSUME NEW m, Ahead(q, m) PROVE Ahead(work, m)
        <4>1. PICK i \in DOMAIN q : InFetch(q[i], m)
          BY <3>2 DEF Ahead
        <4>2. Len(p) + i \in DOMAIN work /\ work[Len(p) + i] = q[i]
          BY <2>3, <2>4, <2>6
        <4> QED
          BY <4>1, <4>2 DEF Ahead
      <3> QED
        BY <2>3, <2>4, <3>1, <3>2
    <2> HIDE DEF found
    <2>8. TaskIs(task', frame, n) /\ jobs' \in 0..MaxJobs
      BY <1>0, <1>1, <2>1, <2>5, <2>7, TaskStarts
    <2>9. frame' = frame /\ bad' = bad /\ mended' = mended
      BY <2>1 DEF Repair!Task
    <2> QED
      BY <1>0, <1>4, <2>8, <2>9
  <1>8. CASE Repair!BackfillAmount
    <2>1. Repair!Task("amounts", Repair!AmountGaps, {})
      BY <1>8 DEF Repair!BackfillAmount
    <2>2. Repair!AmountGaps \in Seq(RepairItems(n))
      BY <1>0, GapsAre DEF n
    <2> DEFINE work == Repair!AmountGaps
    <2>3. {} \in SUBSET (Repair!CodeSet \X (1..n)) /\ "amounts" \in {"repair", "amounts"} /\ "amounts" # "repair"
      OBVIOUS
    <2> HIDE DEF work
    <2>4. TaskIs(task', frame, n) /\ jobs' \in 0..MaxJobs
      BY <1>0, <1>1, <2>1, <2>2, <2>3, TaskStarts
    <2>5. frame' = frame /\ bad' = bad /\ mended' = mended
      BY <2>1 DEF Repair!Task
    <2> QED
      BY <1>0, <1>4, <2>4, <2>5
  <1>9. CASE Repair!Restart
    <2>1. task' = Repair!Idle /\ frame' = frame /\ bad' = bad /\ jobs' = jobs /\ mended' = mended
      BY <1>9 DEF Repair!Restart
    <2>2. TaskIs(task', frame, n)
      BY <1>1, <2>1, IdleIs
    <2> QED
      BY <1>0, <1>4, <2>1, <2>2
  \* A code is done: its fetch was written, or nothing was.
  <1>10. ASSUME NEW failed \in BOOLEAN, Repair!Proceed(failed), task.kind # "idle", bad' = bad, jobs' = jobs,
                NEW amount \in {0, 1},
                \/ frame' = frame /\ (task.kind = "repair" => failed)
                \/ Rewritten(Head(task.left).code, Head(task.left).lo, Head(task.left).hi, amount)
         PROVE  RepairInv'
    <2> DEFINE item == Head(task.left)
    <2>1. item \in RepairItems(n)
      <3>1. task.left \in Seq(RepairItems(n)) /\ task.left # <<>>
        BY <1>0, <1>10, FoundIs DEF TaskIs
      <3> QED
        BY <3>1
    <2> HIDE DEF item
    <2>2. CASE frame' = frame /\ (task.kind = "repair" => failed)
      <3>1. TaskIs(task', frame, n) /\ MendedIs(mended', frame, n)
        BY <1>0, <1>1, <1>10, <2>2, GrowsSame, TaskGoesOn
      <3> QED
        BY <1>0, <1>4, <1>10, <2>2, <3>1
    <2>3. CASE Rewritten(item.code, item.lo, item.hi, amount)
      <3>1. /\ Repair!today' = n /\ Grows(frame, n, frame', n) /\ ReturnsAre(frame', n)
            /\ \A c \in Repair!CodeSet, d \in 1..n : InFetch(item, <<c, d>>) => RowIs(frame', c, d)
        BY <1>0, <1>10, <2>1, <2>3, RewriteIs DEF n
      <3>2. TaskIs(task', frame', n) /\ MendedIs(mended', frame', n)
        BY <1>0, <1>1, <1>10, <3>1, TaskGoesOn DEF item
      <3> QED
        BY <1>0, <1>2, <1>10, <3>1, <3>2 DEF RepairInv
    <2> QED
      BY <1>10, <2>2, <2>3 DEF item
  <1>11. ASSUME NEW o, Repair!RepairCode(o) PROVE RepairInv'
    <2> DEFINE failed == o \in {"empty", "error"}
               amount == IF o = "classic" THEN 0 ELSE 1
    <2>1. /\ task.kind = "repair" /\ Repair!Proceed(failed) /\ bad' = bad /\ jobs' = jobs
          /\ \/ frame' = frame /\ failed
             \/ Rewritten(Head(task.left).code, Head(task.left).lo, Head(task.left).hi, amount)
      BY <1>11 DEF Repair!RepairCode, Rewritten
    <2>2. failed \in BOOLEAN /\ amount \in {0, 1}
      OBVIOUS
    <2> HIDE DEF failed, amount
    <2> QED
      BY <1>10, <2>1, <2>2
  <1>12. ASSUME NEW o, Repair!AmountCode(o) PROVE RepairInv'
    <2> DEFINE failed == o = "error"
    <2>1. /\ task.kind = "amounts" /\ Repair!Proceed(failed) /\ bad' = bad /\ jobs' = jobs
          /\ frame' = frame \/ Rewritten(Head(task.left).code, Head(task.left).lo, Head(task.left).hi, 1)
      BY <1>12 DEF Repair!AmountCode, Rewritten
    <2>2. failed \in BOOLEAN /\ 1 \in {0, 1}
      OBVIOUS
    <2> HIDE DEF failed
    <2> QED
      BY <1>10, <2>1, <2>2
  <1> QED
    BY <1>5, <1>6, <1>7, <1>8, <1>9, <1>11, <1>12 DEF Repair!Next

\* What the invariant says of the bars is the property.
LEMMA RepairMeans == ASSUME RepairInv, Repair!Steady PROVE Repair!RepairSound
  <1> DEFINE n == Repair!today
  <1>0. /\ Framed /\ ReturnsAre(frame, n) /\ TaskIs(task, frame, n) /\ MendedIs(mended, frame, n)
        /\ bad \in 0..MaxBad /\ jobs \in 0..MaxJobs
    BY DEF RepairInv
  <1>1. Repair!TypeOK
    <2>1. \A c \in Repair!CodeSet : Len(frame[c]) = n /\ \A d \in 1..n : frame[c][d].amount \in {0, 1}
      BY <1>0, FrameOf DEF Framed, RepairBars
    <2>2. \A i \in DOMAIN task.left : task.left[i].lo \in 1..task.left[i].hi /\ task.left[i].hi <= n
      <3>1. task.left \in Seq(RepairItems(n))
        BY <1>0, FoundIs
      <3>2. \A i \in DOMAIN task.left : task.left[i] \in RepairItems(n)
        BY <3>1
      <3> QED
        BY <3>2 DEF RepairItems
    <2>3. task.kind = "idle" <=> task.left = <<>>
      BY <1>0 DEF TaskIs
    <2> QED
      BY <1>0, <2>1, <2>2, <2>3 DEF Repair!TypeOK
  <1>2. Repair!RepairMends
    BY <1>0 DEF Repair!RepairMends, MendedIs, RowIs, Repair!Is
  <1> QED
    BY <1>0, <1>1, <1>2, FrozenIsExact, LevelIsFound, PatrolIsHonest DEF Repair!RepairSound

\* repair_daily, _check_adjustment_break: whatever the closes, as long as a stock does not
\* move by the ratio the detector looks for and a broken level is further off, the two
\* detectors name exactly the frozen closes and the broken levels they are meant for, the
\* patrol counts a break and no clean day, and every bar a full repair set out to mend is
\* true once all its fetches were answered, whatever is stored, repaired or killed meanwhile.
THEOREM RepairHolds == ASSUME Repair!Steady PROVE Spec => []RepairSound
  <1> DEFINE Inv == focus = "repair" => RepairInv
  <1>1. Init => Inv
    BY InitRepair DEF Init
  <1>2. Inv /\ [Next]_vars => Inv'
    <2> SUFFICES ASSUME Inv, [Next]_vars, focus' = "repair" PROVE RepairInv'
      OBVIOUS
    <2>1. focus = "repair" /\ [Repair!Next]_(Repair!vars)
      BY DEF Next, vars, repairVars, Repair!vars
    <2> QED
      BY <2>1, RepairStep
  <1>3. Inv => RepairSound
    BY RepairMeans DEF RepairSound
  <1> QED
    BY <1>1, <1>2, <1>3, PTL DEF Spec

-----------------------------------------------------------------------------
(* The catch-up *)

LEMMA CatchUpValues ==
    /\ IsFiniteSet(CatchUpCodes) /\ CatchUpCodes # {}
    /\ CatchUpDays \in Nat /\ CountWindow \in Nat /\ MaxBackfill \in Nat /\ CatchUpBreaker \in Nat /\ MaxFaults \in Nat
    /\ CatchUpDays >= 2 /\ 1 \in CatchUp!Trading /\ CatchUpBreaker > 0 /\ Percent \in 0..100
    /\ EveningLookback \in Nat
  <1>1. \A S : CatchUp!IsFiniteSet(S) <=> IsFiniteSet(S)
    BY DEF CatchUp!IsFiniteSet, IsFiniteSet
  <1> QED
    BY <1>1, CatchUpAssumption DEF CatchUp!Parameters

LEMMA CatchUpCounts == ASSUME NEW S PROVE CatchUp!Cardinality(S) = Cardinality(S)
  BY DEF CatchUp!Cardinality, Cardinality

CatchUpCalendar == 1..CatchUpDays
\* The last day that gap detection looks at, but for the limit of a window.
CapOf(t, l) == IF l THEN t ELSE t - 1
\* The days with settled bars.
Dates == {d \in CatchUpCalendar : settled[d] # {}}

ThreadRec == [lo : Nat, hi : Nat, left : SUBSET CatchUpCodes, bad : Nat, clean : BOOLEAN, met : BOOLEAN]
WindowOf(c) == (c.lo..c.hi) \cap CatchUp!Trading
\* The days a run is to price.
PricedOf(c) == CatchUp!Priced(WindowOf(c))
\* The running thread: what it has done so far without a failure is settled, and the day it
\* may erase returns of is not one that an earlier run has priced.
ThreadIs ==
    /\ catchUp \in ThreadRec /\ catchUp.bad < CatchUpBreaker
    /\ catchUp = CatchUp!NoThread \/
        /\ catchUp.left # {} /\ catchUp.lo <= catchUp.hi /\ catchUp.hi <= CapOf(day, late) /\ catchUp.lo > 0
        /\ ~catchUp.met /\ catchUp.clean =>
               \A d \in PricedOf(catchUp) : CatchUpCodes \ catchUp.left \subseteq settled[d]
        /\ WindowOf(catchUp) \cap filled \subseteq PricedOf(catchUp)

CatchInv ==
    /\ day \in CatchUpCalendar /\ late \in BOOLEAN /\ synced \in BOOLEAN
    /\ settled \in [CatchUpCalendar -> SUBSET CatchUpCodes]
    /\ \A d \in Dates : d \in CatchUp!Trading /\ d <= day
    /\ owed \subseteq CatchUp!Trading /\ between \in BOOLEAN /\ faults \in 0..MaxFaults
    /\ filled \subseteq CatchUp!Trading /\ \A d \in filled : settled[d] = CatchUpCodes
    /\ ThreadIs

\* What a run leaves when it breaks off will be found: all of its window is in the gap, or
\* every day it was to price has settled bars.
FoundInv ==
    /\ CatchUp!BrokenRunIsFound
    /\ catchUp # CatchUp!NoThread /\ ~catchUp.met =>
           WindowOf(catchUp) \subseteq CatchUp!DetectGap \/ \A d \in PricedOf(catchUp) : settled[d] # {}

LEMMA LargestIs ==
    ASSUME NEW N \in Nat, NEW S \in SUBSET (0..N), S # {}
    PROVE  CatchUp!Max(S) \in S /\ \A y \in S : CatchUp!Max(S) >= y
  BY HasLargest DEF CatchUp!Max

LEMMA LeastIs ==
    ASSUME NEW S \in SUBSET Nat, S # {}
    PROVE  CatchUp!Min(S) \in S /\ \A y \in S : CatchUp!Min(S) <= y
  BY Least DEF CatchUp!Min

LEMMA SmallerOfTwo ==
    ASSUME NEW a \in Int, NEW b \in Int
    PROVE  CatchUp!Min({a, b}) \in Int /\ \A d \in Int : d <= CatchUp!Min({a, b}) <=> d <= a /\ d <= b
  <1> DEFINE end == CatchUp!Min({a, b})
  <1>1. \E v \in {a, b} : \A y \in {a, b} : v <= y
    <2>1. CASE a <= b
      BY <2>1
    <2>2. CASE b <= a
      BY <2>2
    <2> QED
      BY <2>1, <2>2
  <1>2. end \in {a, b} /\ end <= a /\ end <= b
    BY <1>1 DEF CatchUp!Min
  <1> HIDE DEF end
  <1>3. end \in Int /\ \A d \in Int : d <= end <=> d <= a /\ d <= b
    BY <1>2
  <1> QED
    BY <1>3 DEF end

\* The dates are those up to today; they do not depend on which day it is.
LEMMA DatesAre ==
    ASSUME CatchInv
    PROVE  /\ {d \in 1..day : settled[d] # {}} = Dates /\ Dates \in SUBSET (0..CatchUpDays)
           /\ CatchUp!SettledDates = {d \in Dates : CatchUp!Cardinality({x \in Dates : x > d}) < CountWindow}
           /\ CatchUp!SettledDates \subseteq Dates
           /\ Dates # {} => CatchUp!Latest \in Dates /\ \A d \in Dates : d <= CatchUp!Latest
           /\ CatchUp!Latest = CatchUp!Max(Dates)
  <1>1. day \in Nat /\ CatchUpDays \in Nat /\ day <= CatchUpDays /\ \A d \in Dates : d <= day
    BY CatchUpValues DEF CatchInv, CatchUpCalendar
  <1>2. {d \in 1..day : settled[d] # {}} = Dates
    BY <1>1 DEF Dates, CatchUpCalendar
  <1>3. Dates \in SUBSET (0..CatchUpDays)
    BY <1>1 DEF Dates, CatchUpCalendar
  <1> HIDE DEF Dates
  <1>4. CatchUp!SettledDates = {d \in Dates : CatchUp!Cardinality({x \in Dates : x > d}) < CountWindow}
    BY <1>2 DEF CatchUp!SettledDates
  <1>5. CatchUp!Latest = CatchUp!Max(Dates)
    BY <1>2 DEF CatchUp!Latest
  <1>6. ASSUME Dates # {} PROVE CatchUp!Latest \in Dates /\ \A d \in Dates : d <= CatchUp!Latest
    <2>1. CatchUp!Latest \in Dates /\ \A d \in Dates : CatchUp!Latest >= d
      BY <1>1, <1>3, <1>5, <1>6, LargestIs
    <2> QED
      BY <1>3, <2>1
  <1> QED
    BY <1>2, <1>3, <1>4, <1>5, <1>6

LEMMA SizesAre ==
    ASSUME CatchInv
    PROVE  /\ Cardinality(CatchUpCodes) \in Nat /\ Percent \in Nat /\ Percent <= 100
           /\ \A d \in CatchUpCalendar : /\ CatchUp!Size(d) = Cardinality(settled[d]) /\ CatchUp!Size(d) \in Nat
                                         /\ CatchUp!Size(d) <= Cardinality(CatchUpCodes)
  <1>1. IsFiniteSet(CatchUpCodes) /\ Percent \in Nat /\ Percent <= 100
    BY CatchUpValues
  <1>2. \A T \in SUBSET CatchUpCodes : Cardinality(T) \in Nat /\ Cardinality(T) <= Cardinality(CatchUpCodes)
    BY <1>1, FS_Subset, FS_CardinalityType
  <1>3. Cardinality(CatchUpCodes) \in Nat
    BY <1>1, FS_CardinalityType
  <1>4. \A d \in CatchUpCalendar : settled[d] \in SUBSET CatchUpCodes
    BY DEF CatchInv
  <1> QED
    BY <1>1, <1>2, <1>3, <1>4, CatchUpCounts DEF CatchUp!Size

\* A whole day is not partial; where the baseline is true, what is too little beside any day is.
LEMMA PartialIs ==
    ASSUME CatchInv
    PROVE  /\ CatchUp!Partial \subseteq CatchUp!SettledDates
           /\ \A d \in CatchUp!Partial : settled[d] # CatchUpCodes
           /\ CatchUp!BaselineTrue =>
                  \A d \in Dates : \A x \in CatchUpCalendar :
                      100 * CatchUp!Size(d) < Percent * CatchUp!Size(x) => d \in CatchUp!Partial
  <1> DEFINE counted == CatchUp!SettledDates
             sizes == {CatchUp!Size(d) : d \in counted}
             best == CatchUp!Max(sizes)
             k == Cardinality(CatchUpCodes)
  <1>1. counted \subseteq Dates /\ Dates \subseteq CatchUpCalendar
    BY DatesAre DEF Dates
  <1>2. CatchUp!Partial = {d \in counted : 100 * CatchUp!Size(d) < Percent * best}
    BY DEF CatchUp!Partial
  <1>3. /\ k \in Nat /\ Percent \in Nat /\ Percent <= 100
        /\ \A d \in CatchUpCalendar : /\ CatchUp!Size(d) = Cardinality(settled[d]) /\ CatchUp!Size(d) \in Nat
                                      /\ CatchUp!Size(d) <= k
    BY SizesAre
  <1> HIDE DEF k
  <1>4. ASSUME counted # {} PROVE best \in sizes /\ (\A y \in sizes : best >= y) /\ best \in Nat /\ best <= k
    <2>1. sizes \in SUBSET (0..k) /\ sizes # {}
      BY <1>1, <1>3, <1>4
    <2> HIDE DEF sizes
    <2>2. best \in sizes /\ \A y \in sizes : best >= y
      BY <1>3, <2>1, LargestIs
    <2> HIDE DEF best
    <2> QED
      BY <1>3, <2>1, <2>2
  <1>5. ASSUME NEW d \in CatchUp!Partial, settled[d] = CatchUpCodes PROVE FALSE
    <2>1. d \in counted /\ 100 * CatchUp!Size(d) < Percent * best /\ CatchUp!Size(d) = k
      BY <1>1, <1>2, <1>3, <1>5 DEF k
    <2>2. best \in Nat /\ best <= k
      BY <1>4, <2>1
    <2> HIDE DEF best, sizes, counted
    <2>3. Percent * best <= Percent * k /\ Percent * k <= 100 * k /\ Percent * best \in Nat /\ Percent * k \in Nat
      <3>1. k - best \in Nat /\ 100 - Percent \in Nat
        BY <1>3, <2>2
      <3>2. Percent * (k - best) \in Nat /\ (100 - Percent) * k \in Nat /\ Percent * best \in Nat /\ Percent * k \in Nat
        BY <1>3, <2>2, <3>1
      <3>3. Percent * (k - best) = Percent * k - Percent * best /\ (100 - Percent) * k = 100 * k - Percent * k
        BY <1>3, <2>2
      <3> QED
        BY <1>3, <3>2, <3>3
    <2> QED
      BY <1>3, <2>1, <2>3
  <1>6. ASSUME CatchUp!BaselineTrue, NEW d \in Dates, NEW x \in CatchUpCalendar,
               100 * CatchUp!Size(d) < Percent * CatchUp!Size(x)
        PROVE  d \in CatchUp!Partial
    <2>1. d \in CatchUpCalendar /\ CatchUp!Size(d) \in Nat /\ CatchUp!Size(x) \in Nat
      BY <1>1, <1>3
    <2>2. x \in Dates
      <3>1. CASE settled[x] = {}
        <4>1. CatchUp!Size(x) = 0
          BY <1>3, <3>1, FS_EmptySet
        <4> QED
          BY <1>3, <1>6, <2>1, <4>1
      <3> QED
        BY <3>1 DEF Dates
    <2>3. /\ \E y \in counted : CatchUp!Size(x) <= CatchUp!Size(y)
          /\ d \in counted \/ 100 * CatchUp!Size(d) >= Percent * CatchUp!Size(x)
      BY <1>6, <2>2, DatesAre DEF CatchUp!BaselineTrue
    <2> DEFINE a == CatchUp!Size(d)
               b == CatchUp!Size(x)
    <2>4. PICK y \in counted : b <= CatchUp!Size(y)
      BY <2>3
    <2>5. best \in Nat /\ best >= CatchUp!Size(y) /\ CatchUp!Size(y) \in Nat
      BY <1>1, <1>3, <1>4, <2>4
    <2>6. a \in Nat /\ b \in Nat /\ b <= best /\ 100 * a < Percent * b
      BY <1>6, <2>1, <2>4, <2>5
    <2>7. d \in counted
      <3>1. d \in counted \/ 100 * a >= Percent * b
        BY <2>3
      <3> HIDE DEF a, b
      <3> QED
        BY <1>3, <2>6, <3>1
    <2> HIDE DEF a, b, best, sizes, counted
    <2>8. Percent * b <= Percent * best /\ Percent * b \in Nat /\ Percent * best \in Nat
      <3>1. best - b \in Nat
        BY <2>5, <2>6
      <3>2. Percent * (best - b) \in Nat /\ Percent * (best - b) = Percent * best - Percent * b
            /\ Percent * best \in Nat /\ Percent * b \in Nat
        BY <1>3, <2>5, <2>6, <3>1
      <3> QED
        BY <3>2
    <2>9. 100 * a < Percent * best
      BY <2>6, <2>8
    <2> QED
      BY <1>2, <2>7, <2>9 DEF a
  <1> QED
    BY <1>2, <1>5, <1>6

GapStart == IF CatchUp!Partial = {} THEN CatchUp!Latest + 1 ELSE CatchUp!Min(CatchUp!Partial)

\* The gap, day by day.
LEMMA GapIs ==
    ASSUME CatchInv
    PROVE  /\ CatchUp!SettledDates = {} => CatchUp!DetectGap = {}
           /\ CatchUp!SettledDates # {} =>
                /\ CatchUp!Latest \in Dates /\ \A d \in Dates : d <= CatchUp!Latest
                /\ GapStart \in Nat /\ GapStart >= 1
                /\ CatchUp!Partial = {} => GapStart = CatchUp!Latest + 1
                /\ CatchUp!Partial # {} => GapStart \in CatchUp!Partial /\ \A p \in CatchUp!Partial : GapStart <= p
                /\ \A d : d \in CatchUp!DetectGap <=>
                            /\ d \in Int /\ GapStart <= d /\ d <= CapOf(day, late)
                            /\ d <= CatchUp!Latest + MaxBackfill /\ d \notin Weekend
  <1>1. CatchUp!SettledDates = {} => CatchUp!DetectGap = {}
    BY DEF CatchUp!DetectGap
  <1> SUFFICES ASSUME CatchUp!SettledDates # {}
               PROVE  /\ CatchUp!Latest \in Dates /\ \A d \in Dates : d <= CatchUp!Latest
                      /\ GapStart \in Nat /\ GapStart >= 1
                      /\ CatchUp!Partial = {} => GapStart = CatchUp!Latest + 1
                      /\ CatchUp!Partial # {} => GapStart \in CatchUp!Partial /\ \A p \in CatchUp!Partial : GapStart <= p
                      /\ \A d : d \in CatchUp!DetectGap <=>
                                  /\ d \in Int /\ GapStart <= d /\ d <= CapOf(day, late)
                                  /\ d <= CatchUp!Latest + MaxBackfill /\ d \notin Weekend
    BY <1>1
  <1>2. CatchUp!Latest \in Dates /\ (\A d \in Dates : d <= CatchUp!Latest) /\ CatchUp!SettledDates \subseteq Dates
        /\ Dates \subseteq Nat /\ \A d \in Dates : d >= 1
    BY CatchUpValues, DatesAre DEF Dates, CatchUpCalendar
  <1>3. CatchUp!Partial \subseteq Dates
    BY <1>2, PartialIs
  <1>4. CatchUp!Partial # {} => GapStart \in CatchUp!Partial /\ \A p \in CatchUp!Partial : GapStart <= p
    BY <1>2, <1>3, LeastIs DEF GapStart
  <1>5. CatchUp!Partial = {} => GapStart = CatchUp!Latest + 1
    BY DEF GapStart
  <1>6. GapStart \in Nat /\ GapStart >= 1
    <2>1. CASE CatchUp!Partial = {}
      <3>1. CatchUp!Latest \in Nat /\ GapStart = CatchUp!Latest + 1
        BY <1>2, <1>5, <2>1
      <3> QED
        BY <3>1
    <2>2. CASE CatchUp!Partial # {}
      <3>1. GapStart \in Dates
        BY <1>3, <1>4, <2>2
      <3> QED
        BY <1>2, <3>1
    <2> QED
      BY <2>1, <2>2
  <1> DEFINE cap == CapOf(day, late)
             b == CatchUp!Latest + MaxBackfill
             end == CatchUp!Min({cap, b})
  <1>7. cap \in Int /\ b \in Int
    BY <1>2, CatchUpValues DEF CatchInv, CapOf, CatchUpCalendar
  <1>8. CatchUp!DetectGap = {d \in GapStart..end : d \notin Weekend}
    BY DEF CatchUp!DetectGap, CapOf, GapStart
  <1> HIDE DEF cap, b
  <1>9. end \in Int /\ \A d \in Int : d <= end <=> d <= cap /\ d <= b
    BY <1>7, SmallerOfTwo
  <1> HIDE DEF end
  <1>10. ASSUME NEW d PROVE d \in CatchUp!DetectGap <=>
                                  d \in Int /\ GapStart <= d /\ d <= cap /\ d <= b /\ d \notin Weekend
    BY <1>6, <1>8, <1>9
  <1> QED
    BY <1>2, <1>4, <1>5, <1>6, <1>10 DEF cap, b

LEMMA CapGrows ==
    ASSUME CatchInv, day' \in CatchUpCalendar, late' \in BOOLEAN, CatchUp!Clock \/ (day' = day /\ late' = late)
    PROVE  /\ CapOf(day, late) \in Int /\ CapOf(day', late') \in Int /\ CapOf(day, late) <= CapOf(day', late')
           /\ day' >= day
  <1>1. day \in Nat /\ day' \in Nat /\ late \in BOOLEAN
    BY CatchUpValues DEF CatchInv, CatchUpCalendar
  <1>2. CASE CatchUp!Clock
    <2>1. CASE late
      <3>1. day' = day + 1 /\ ~late'
        BY <1>2, <2>1 DEF CatchUp!Clock
      <3> QED
        BY <1>1, <2>1, <3>1 DEF CapOf
    <2>2. CASE ~late
      <3>1. day' = day /\ late'
        BY <1>2, <2>2 DEF CatchUp!Clock
      <3> QED
        BY <1>1, <2>2, <3>1 DEF CapOf
    <2> QED
      BY <2>1, <2>2
  <1>3. CASE day' = day /\ late' = late
    BY <1>1, <1>3 DEF CapOf
  <1> QED
    BY <1>2, <1>3

\* With the same bars the gap of a later hour has no fewer days.
LEMMA GapLater ==
    ASSUME CatchInv, settled' = settled, day' \in CatchUpCalendar, late' \in BOOLEAN,
           CatchUp!Clock \/ (day' = day /\ late' = late)
    PROVE  CatchUp!DetectGap \subseteq CatchUp!DetectGap'
  <1>1. /\ CapOf(day, late) \in Int /\ CapOf(day', late') \in Int /\ CapOf(day, late) <= CapOf(day', late')
        /\ day' >= day
    BY CapGrows
  <1>2. {d \in 1..day' : settled'[d] # {}} = Dates
    <2>1. day \in Nat /\ day' \in Nat /\ CatchUpDays \in Nat /\ day' <= CatchUpDays
      BY CatchUpValues DEF CatchInv, CatchUpCalendar
    <2>2. \A d \in Dates : d \in 1..CatchUpDays /\ d <= day
      BY DEF CatchInv, Dates, CatchUpCalendar
    <2>3. \A d \in 1..day' : d \in CatchUpCalendar
      BY <2>1 DEF CatchUpCalendar
    <2>4. \A d \in Dates : d \in 1..day' /\ settled[d] # {}
      BY <1>1, <2>1, <2>2 DEF Dates, CatchInv
    <2> QED
      BY <2>3, <2>4 DEF Dates
  <1>3. CatchUp!SettledDates' = CatchUp!SettledDates
    <2>1. CatchUp!SettledDates = {d \in Dates : CatchUp!Cardinality({x \in Dates : x > d}) < CountWindow}
      BY DatesAre
    <2>2. CatchUp!SettledDates' = {d \in Dates : CatchUp!Cardinality({x \in Dates : x > d}) < CountWindow}
      <3> HIDE DEF Dates
      <3> QED
        BY <1>2 DEF CatchUp!SettledDates
    <2> QED
      BY <2>1, <2>2
  <1>4. CatchUp!Partial' = CatchUp!Partial
    <2>1. \A d : CatchUp!Size(d)' = CatchUp!Size(d)
      BY DEF CatchUp!Size
    <2> QED
      BY <1>3, <2>1 DEF CatchUp!Partial
  <1>5. CatchUp!Latest' = CatchUp!Latest
    <2>1. CatchUp!Latest = CatchUp!Max(Dates)
      BY DatesAre
    <2>2. CatchUp!Latest' = CatchUp!Max(Dates)
      BY <1>2 DEF CatchUp!Latest
    <2> QED
      BY <2>1, <2>2
  <1> SUFFICES ASSUME NEW d \in CatchUp!DetectGap PROVE d \in CatchUp!DetectGap'
    OBVIOUS
  <1>6. /\ CatchUp!SettledDates # {} /\ d \in Int /\ GapStart <= d /\ d <= CapOf(day, late) /\ GapStart \in Nat
        /\ d <= CatchUp!Latest + MaxBackfill /\ d \notin Weekend /\ CatchUp!Latest \in Nat
    <2>1. Dates \subseteq Nat
      BY CatchUpValues DEF Dates, CatchUpCalendar
    <2> QED
      BY <2>1, GapIs
  <1> DEFINE cap == CapOf(day', late')
             b == CatchUp!Latest + MaxBackfill
  <1>7. CatchUp!DetectGap' = {x \in GapStart..CatchUp!Min({cap, b}) : x \notin Weekend}
    BY <1>3, <1>4, <1>5, <1>6 DEF CatchUp!DetectGap, CapOf, GapStart
  <1>8. cap \in Int /\ b \in Int /\ d <= cap /\ d <= b
    BY <1>1, <1>6, CatchUpValues
  <1> HIDE DEF cap, b
  <1>9. d <= CatchUp!Min({cap, b}) /\ CatchUp!Min({cap, b}) \in Int
    BY <1>8, SmallerOfTwo
  <1> QED
    BY <1>6, <1>7, <1>9

\* The gap that a start finds is a stretch of weekdays of which the first trading day is not
\* one that a clean run has priced.
LEMMA WindowBegins ==
    ASSUME CatchInv, CatchUp!DetectGap # {}
    PROVE  LET lo == CatchUp!Min(CatchUp!DetectGap)
               hi == CatchUp!Max(CatchUp!DetectGap)
               W == (lo..hi) \cap CatchUp!Trading
           IN  /\ lo \in Nat /\ hi \in Nat /\ lo > 0 /\ lo <= hi /\ hi <= CapOf(day, late)
               /\ CatchUp!DetectGap \subseteq lo..hi /\ W \subseteq CatchUp!DetectGap
               /\ W \cap filled \subseteq CatchUp!Priced(W)
  <1> DEFINE gap == CatchUp!DetectGap
             lo == CatchUp!Min(gap)
             hi == CatchUp!Max(gap)
             W == (lo..hi) \cap CatchUp!Trading
             end == CapOf(day, late)
  <1>1. CatchUp!SettledDates # {}
    BY GapIs
  <1>2. /\ GapStart \in Nat /\ GapStart >= 1 /\ CatchUp!Latest \in Dates /\ \A d \in Dates : d <= CatchUp!Latest
        /\ CatchUp!Partial = {} => GapStart = CatchUp!Latest + 1
        /\ CatchUp!Partial # {} => GapStart \in CatchUp!Partial
        /\ \A d : d \in gap <=> /\ d \in Int /\ GapStart <= d /\ d <= end
                                /\ d <= CatchUp!Latest + MaxBackfill /\ d \notin Weekend
    BY <1>1, GapIs
  <1>3. end \in Int /\ end <= CatchUpDays /\ CatchUpDays \in Nat /\ MaxBackfill \in Nat /\ CatchUp!Latest \in Nat
        /\ Dates \subseteq Nat
    BY <1>2, CatchUpValues DEF CatchInv, CapOf, CatchUpCalendar, Dates
  <1> HIDE DEF gap, end
  <1>4. gap \in SUBSET (0..CatchUpDays) /\ gap \in SUBSET Nat /\ gap # {}
    BY <1>2, <1>3 DEF gap
  <1>5. lo \in gap /\ hi \in gap /\ (\A d \in gap : lo <= d) /\ (\A d \in gap : d <= hi)
    BY <1>3, <1>4, LeastIs, LargestIs
  <1> HIDE DEF lo, hi
  <1>6. lo \in Nat /\ hi \in Nat /\ lo > 0 /\ lo <= hi /\ hi <= end /\ gap \subseteq lo..hi
    BY <1>2, <1>4, <1>5
  <1>7. W \subseteq gap
    <2> SUFFICES ASSUME NEW d \in W PROVE d \in gap
      OBVIOUS
    <2>1. d \in Int /\ lo <= d /\ d <= hi /\ d \notin Weekend
      BY <1>6 DEF CatchUp!Trading
    <2>2. GapStart <= lo /\ hi <= CatchUp!Latest + MaxBackfill
      BY <1>2, <1>5
    <2> QED
      BY <1>2, <1>3, <1>6, <2>1, <2>2
  <1>8. ASSUME NEW d \in W, d \in filled PROVE \E v \in W : v < d
    <2>1. d \in Int /\ d \in Dates /\ d <= CatchUp!Latest /\ d \in gap /\ settled[d] = CatchUpCodes
      <3>1. settled[d] = CatchUpCodes /\ d \in CatchUpCalendar
        BY <1>8 DEF CatchInv, CatchUp!Trading, CatchUpCalendar
      <3>2. d \in Dates
        BY <3>1, CatchUpValues DEF Dates
      <3> QED
        BY <1>2, <1>7, <3>1, <3>2
    <2>2. GapStart <= d
      BY <1>2, <2>1
    <2>3. CatchUp!Partial # {}
      BY <1>2, <1>3, <2>1, <2>2
    <2>4. GapStart \in CatchUp!Partial /\ GapStart \in Dates /\ settled[GapStart] # CatchUpCodes
      BY <1>2, <2>3, DatesAre, PartialIs
    <2>5. GapStart < d
      BY <1>2, <2>1, <2>2, <2>4
    <2>6. GapStart \in CatchUp!Trading /\ GapStart \notin Weekend
      BY <2>4 DEF CatchInv, CatchUp!Trading
    <2>7. GapStart \in gap
      BY <1>2, <1>3, <2>1, <2>5, <2>6
    <2>8. GapStart \in W
      BY <1>6, <2>6, <2>7
    <2> QED
      BY <2>5, <2>8
  <1>9. W \cap filled \subseteq CatchUp!Priced(W)
    BY <1>8 DEF CatchUp!Priced
  <1> QED
    BY <1>6, <1>7, <1>9 DEF gap, lo, hi, end

LEMMA CatchTypes == ASSUME CatchInv PROVE CatchUp!TypeOK
  <1>1. settled \in [1..CatchUpDays -> SUBSET CatchUpCodes] /\ day \in 1..CatchUpDays
    BY DEF CatchInv, CatchUpCalendar
  <1>2. ASSUME NEW d \in 1..CatchUpDays, d > day \/ d \notin CatchUp!Trading PROVE settled[d] = {}
    <2>1. d \in Int /\ day \in Int /\ d \in CatchUpCalendar
      BY <1>1 DEF CatchUpCalendar
    <2>2. d \notin Dates
      BY <1>2, <2>1 DEF CatchInv
    <2> QED
      BY <2>1, <2>2 DEF Dates
  <1>3. catchUp \in ThreadRec /\ catchUp.bad < CatchUpBreaker /\ catchUp.lo <= catchUp.hi /\ catchUp.hi <= day
    <2>1. catchUp \in ThreadRec /\ catchUp.bad < CatchUpBreaker /\ day \in Nat /\ day >= 1
      BY <1>1 DEF CatchInv, ThreadIs
    <2>2. CASE catchUp = CatchUp!NoThread
      BY <2>1, <2>2 DEF CatchUp!NoThread
    <2>3. CASE catchUp # CatchUp!NoThread
      <3>1. catchUp.lo <= catchUp.hi /\ catchUp.hi <= CapOf(day, late) /\ catchUp.hi \in Nat
        BY <2>1, <2>3 DEF CatchInv, ThreadIs, ThreadRec
      <3> QED
        BY <2>1, <3>1 DEF CapOf
    <2> QED
      BY <2>2, <2>3
  <1>4. catchUp.left \subseteq CatchUpCodes
    BY <1>3 DEF ThreadRec
  <1> QED
    BY <1>1, <1>2, <1>3, <1>4 DEF CatchInv, CatchUp!TypeOK

LEMMA CleanCloses == ASSUME CatchInv PROVE CatchUp!CleanRunCloses
  <1> SUFFICES ASSUME NEW d \in CatchUp!DetectGap, d \in filled PROVE \E p \in CatchUp!Partial : p < d
    BY DEF CatchUp!CleanRunCloses
  <1>1. settled[d] = CatchUpCodes /\ d \in Dates
    BY CatchUpValues DEF CatchInv, CatchUp!Trading, Dates, CatchUpCalendar
  <1>2. CatchUp!SettledDates # {}
    BY GapIs
  <1>3. /\ GapStart <= d /\ d \in Nat /\ d <= CatchUp!Latest /\ GapStart \in Nat
        /\ CatchUp!Partial = {} => GapStart = CatchUp!Latest + 1
        /\ CatchUp!Partial # {} => GapStart \in CatchUp!Partial
        /\ CatchUp!Latest \in Nat
    <2>1. Dates \subseteq Nat
      BY CatchUpValues DEF Dates, CatchUpCalendar
    <2> QED
      BY <1>1, <1>2, <2>1, GapIs
  <1>4. GapStart \in CatchUp!Partial
    BY <1>3
  <1>5. GapStart # d
    BY <1>1, <1>4, PartialIs
  <1> QED
    BY <1>3, <1>4, <1>5

\* What is too little beside some day is found, where the baseline is true.
LEMMA FoundAgain ==
    ASSUME CatchInv, CatchUp!BaselineTrue, NEW W, NEW d \in W, W \subseteq CatchUp!Trading,
           NEW x \in CatchUpCalendar, 100 * CatchUp!Size(d) < Percent * CatchUp!Size(x), d <= CapOf(day, late),
           W \subseteq CatchUp!DetectGap \/ settled[d] # {}
    PROVE  d \in CatchUp!DetectGap
  <1> SUFFICES ASSUME settled[d] # {} PROVE d \in CatchUp!DetectGap
    OBVIOUS
  <1>1. d \in Dates /\ d \in Nat /\ d \notin Weekend
    BY CatchUpValues DEF Dates, CatchUpCalendar, CatchUp!Trading
  <1>2. d \in CatchUp!Partial
    BY <1>1, PartialIs
  <1>3. CatchUp!SettledDates # {}
    BY <1>2, PartialIs
  <1>4. GapStart <= d /\ d <= CatchUp!Latest /\ CatchUp!Latest \in Nat
    <2>1. Dates \subseteq Nat
      BY CatchUpValues DEF Dates, CatchUpCalendar
    <2> QED
      BY <1>1, <1>2, <1>3, <2>1, GapIs
  <1>5. d <= CatchUp!Latest + MaxBackfill
    BY <1>1, <1>4, CatchUpValues
  <1> QED
    BY <1>1, <1>3, <1>4, <1>5, GapIs

\* What a run owes and is incomplete is too little beside some day.
LEMMA IncompleteIs ==
    ASSUME CatchInv
    PROVE  /\ CatchUp!Max({CatchUp!Size(x) : x \in 1..CatchUpDays}) \in {CatchUp!Size(x) : x \in CatchUpCalendar}
           /\ \A d \in CatchUp!Incomplete : \E x \in CatchUpCalendar : 100 * CatchUp!Size(d) < Percent * CatchUp!Size(x)
  <1> DEFINE sizes == {CatchUp!Size(x) : x \in 1..CatchUpDays}
             k == Cardinality(CatchUpCodes)
  <1>1. k \in Nat /\ \A d \in CatchUpCalendar : CatchUp!Size(d) \in Nat /\ CatchUp!Size(d) <= k
    BY SizesAre
  <1>2. sizes \in SUBSET (0..k) /\ sizes # {}
    BY <1>1, CatchUpValues DEF CatchUpCalendar
  <1> DEFINE m == CatchUp!Max(sizes)
  <1>3. m \in sizes
    <2> HIDE DEF sizes, k
    <2> QED
      BY <1>1, <1>2, LargestIs
  <1>4. CatchUp!Incomplete = {d \in owed : 100 * CatchUp!Size(d) < Percent * m}
    BY DEF CatchUp!Incomplete
  <1>5. PICK x \in 1..CatchUpDays : m = CatchUp!Size(x)
    BY <1>3
  <1> HIDE DEF m
  <1> QED
    BY <1>3, <1>4, <1>5 DEF CatchUpCalendar, m

\* What a run that is broken off owes is found, where the baseline is true.
LEMMA OwedFound ==
    ASSUME CatchInv, CatchUp!BaselineTrue, FoundInv, catchUp # CatchUp!NoThread, ~catchUp.met,
           settled' = settled, owed' = PricedOf(catchUp)
    PROVE  CatchUp!Incomplete' \subseteq CatchUp!DetectGap
  <1> SUFFICES ASSUME NEW d \in CatchUp!Incomplete' PROVE d \in CatchUp!DetectGap
    OBVIOUS
  <1> DEFINE W == WindowOf(catchUp)
  <1>1. \A x : CatchUp!Size(x)' = CatchUp!Size(x)
    BY DEF CatchUp!Size
  <1>2. d \in PricedOf(catchUp) /\ 100 * CatchUp!Size(d) < Percent * CatchUp!Max({CatchUp!Size(x) : x \in 1..CatchUpDays})
    BY <1>1 DEF CatchUp!Incomplete
  <1>3. PICK x \in CatchUpCalendar : 100 * CatchUp!Size(d) < Percent * CatchUp!Size(x)
    BY <1>2, IncompleteIs
  <1>4. d \in W /\ W \subseteq CatchUp!Trading
    BY <1>2 DEF PricedOf, CatchUp!Priced, WindowOf
  <1>5. d <= CapOf(day, late)
    <2>1. catchUp.hi \in Nat /\ catchUp.hi <= CapOf(day, late) /\ d \in Int /\ d <= catchUp.hi /\ CapOf(day, late) \in Int
      BY <1>4, CatchUpValues DEF CatchInv, ThreadIs, ThreadRec, WindowOf, CapOf, CatchUpCalendar
    <2> QED
      BY <2>1
  <1>6. W \subseteq CatchUp!DetectGap \/ settled[d] # {}
    BY <1>2 DEF FoundInv
  <1> HIDE DEF W
  <1> QED
    BY <1>3, <1>4, <1>5, <1>6, FoundAgain

LEMMA NothingOwed == ASSUME owed' = {} PROVE CatchUp!Incomplete' = {}
  BY DEF CatchUp!Incomplete

LEMMA InitCatch == ASSUME CatchUp!Init PROVE CatchInv /\ FoundInv
  <1>1. /\ day = 2 /\ late = FALSE /\ synced = FALSE /\ catchUp = CatchUp!NoThread /\ owed = {}
        /\ between = FALSE /\ filled = {} /\ faults = 0
        /\ settled = [d \in 1..CatchUpDays |-> IF d = 1 THEN CatchUpCodes ELSE {}]
    BY DEF CatchUp!Init
  <1>2. day \in CatchUpCalendar /\ settled \in [CatchUpCalendar -> SUBSET CatchUpCodes]
        /\ \A d \in Dates : d \in CatchUp!Trading /\ d <= day
    BY <1>1, CatchUpValues DEF Dates, CatchUpCalendar
  <1>3. ThreadIs
    BY <1>1, CatchUpValues DEF ThreadIs, ThreadRec, CatchUp!NoThread
  <1>4. CatchInv
    <2>1. late \in BOOLEAN /\ synced \in BOOLEAN /\ between \in BOOLEAN
          /\ owed \subseteq CatchUp!Trading /\ filled \subseteq CatchUp!Trading
          /\ \A d \in filled : settled[d] = CatchUpCodes
      BY <1>1
    <2>2. faults \in 0..MaxFaults
      BY <1>1, CatchUpValues
    <2> QED
      BY <1>2, <1>3, <2>1, <2>2 DEF CatchInv
  <1>5. CatchUp!Incomplete = {}
    BY <1>1 DEF CatchUp!Incomplete
  <1>6. FoundInv
    BY <1>1, <1>5 DEF FoundInv, CatchUp!BrokenRunIsFound
  <1> QED
    BY <1>4, <1>6

LEMMA ClockKeeps ==
    ASSUME CatchInv, CatchUp!BaselineTrue, FoundInv, CatchUp!Clock PROVE CatchInv' /\ FoundInv'
  <1>1. /\ settled' = settled /\ catchUp' = catchUp /\ owed' = owed /\ between' = between
        /\ filled' = filled /\ faults' = faults /\ late' \in BOOLEAN /\ synced' \in BOOLEAN
    BY DEF CatchUp!Clock, CatchInv
  <1>2. day' \in CatchUpCalendar
    <2>1. day \in 1..CatchUpDays /\ CatchUpDays \in Nat
      BY CatchUpValues DEF CatchInv, CatchUpCalendar
    <2>2. CASE late
      <3>1. day < CatchUpDays /\ day' = day + 1
        BY <2>2 DEF CatchUp!Clock
      <3> QED
        BY <2>1, <3>1 DEF CatchUpCalendar
    <2>3. CASE ~late
      BY <2>1, <2>3 DEF CatchUp!Clock, CatchUpCalendar
    <2> QED
      BY <2>2, <2>3
  <1>3. /\ CapOf(day, late) \in Int /\ CapOf(day', late') \in Int /\ CapOf(day, late) <= CapOf(day', late')
        /\ day' >= day
    BY <1>1, <1>2, CapGrows
  <1>4. \A d \in Dates' : d \in CatchUp!Trading /\ d <= day'
    <2>1. Dates' = Dates /\ Dates \subseteq Nat /\ day \in Nat /\ day' \in Nat
      BY <1>1, <1>2, CatchUpValues DEF Dates, CatchInv, CatchUpCalendar
    <2>2. \A d \in Dates : d \in CatchUp!Trading /\ d <= day
      BY DEF CatchInv
    <2> HIDE DEF Dates
    <2> QED
      BY <1>3, <2>1, <2>2
  <1>5. ThreadIs'
    <2>1. CASE catchUp = CatchUp!NoThread
      BY <1>1, <2>1 DEF CatchInv, ThreadIs, CatchUp!NoThread
    <2>2. CASE catchUp # CatchUp!NoThread
      <3>1. catchUp.hi \in Nat /\ catchUp.hi <= CapOf(day, late)
        BY <2>2 DEF CatchInv, ThreadIs, ThreadRec
      <3>2. catchUp.hi <= CapOf(day', late')
        BY <1>3, <3>1
      <3> QED
        BY <1>1, <2>2, <3>2 DEF CatchInv, ThreadIs, WindowOf, PricedOf
    <2> QED
      BY <2>1, <2>2
  <1>6. CatchInv'
    <2>1. /\ settled' \in [CatchUpCalendar -> SUBSET CatchUpCodes] /\ between' \in BOOLEAN /\ faults' \in 0..MaxFaults
          /\ owed' \subseteq CatchUp!Trading /\ filled' \subseteq CatchUp!Trading
          /\ \A d \in filled' : settled'[d] = CatchUpCodes
      BY <1>1 DEF CatchInv
    <2> QED
      BY <1>1, <1>2, <1>4, <1>5, <2>1 DEF CatchInv
  <1>7. CatchUp!DetectGap \subseteq CatchUp!DetectGap'
    BY <1>1, <1>2, GapLater
  <1>8. CatchUp!Incomplete' = CatchUp!Incomplete
    BY <1>1 DEF CatchUp!Incomplete, CatchUp!Size
  <1>9. FoundInv'
    <2>1. CatchUp!BrokenRunIsFound'
      BY <1>1, <1>7, <1>8 DEF FoundInv, CatchUp!BrokenRunIsFound
    <2>2. catchUp # CatchUp!NoThread /\ ~catchUp.met =>
             WindowOf(catchUp) \subseteq CatchUp!DetectGap' \/ \A d \in PricedOf(catchUp) : settled[d] # {}
      BY <1>7 DEF FoundInv
    <2> QED
      BY <1>1, <2>1, <2>2 DEF FoundInv, WindowOf, PricedOf
  <1> QED
    BY <1>6, <1>9

LEMMA StartupKeeps ==
    ASSUME CatchInv, CatchUp!BaselineTrue, FoundInv, CatchUp!Startup PROVE CatchInv' /\ FoundInv'
  <1> DEFINE gap == CatchUp!DetectGap
             new == [lo |-> CatchUp!Min(gap), hi |-> CatchUp!Max(gap), left |-> CatchUpCodes,
                     bad |-> 0, clean |-> TRUE, met |-> FALSE]
  <1>1. /\ UNCHANGED <<day, late, settled, synced, filled>> /\ faults < MaxFaults /\ faults' = faults + 1
        /\ catchUp' = IF gap = {} THEN CatchUp!NoThread ELSE new
        /\ catchUp = CatchUp!NoThread => owed' = {} /\ between' = FALSE
        /\ catchUp # CatchUp!NoThread => owed' = PricedOf(catchUp) /\ between' = catchUp.met
    BY DEF CatchUp!Startup, CatchUp!BrokenOff, CatchUp!Window, PricedOf, WindowOf
  <1>2. gap \subseteq gap'
    BY <1>1, GapLater DEF CatchInv
  <1>3. owed' \subseteq CatchUp!Trading /\ between' \in BOOLEAN
    <2>1. PricedOf(catchUp) \subseteq CatchUp!Trading
      BY DEF PricedOf, CatchUp!Priced, WindowOf
    <2>2. catchUp.met \in BOOLEAN
      BY DEF CatchInv, ThreadIs, ThreadRec
    <2> QED
      BY <1>1, <2>1, <2>2
  <1> DEFINE W == (new.lo..new.hi) \cap CatchUp!Trading
  <1>4. gap # {} => /\ new.lo \in Nat /\ new.hi \in Nat /\ new.lo > 0 /\ new.lo <= new.hi /\ new.hi <= CapOf(day, late)
                    /\ gap \subseteq new.lo..new.hi /\ W \subseteq gap /\ W \cap filled \subseteq CatchUp!Priced(W)
    BY WindowBegins
  <1>5. new.left = CatchUpCodes /\ new.bad = 0 /\ new.clean = TRUE /\ new.met = FALSE /\ W = WindowOf(new)
        /\ new = [lo |-> new.lo, hi |-> new.hi, left |-> CatchUpCodes, bad |-> 0, clean |-> TRUE, met |-> FALSE]
    BY DEF WindowOf
  <1> HIDE DEF new, W, gap
  <1>6. ThreadIs'
    <2>1. CASE gap = {}
      <3>1. catchUp' = CatchUp!NoThread /\ CatchUp!NoThread \in ThreadRec /\ CatchUp!NoThread.bad < CatchUpBreaker
        BY <1>1, <2>1, CatchUpValues DEF CatchUp!NoThread, ThreadRec
      <3> QED
        BY <3>1 DEF ThreadIs
    <2>2. CASE gap # {}
      <3>1. new \in ThreadRec /\ new.bad < CatchUpBreaker /\ new.left # {}
        <4> DEFINE a == new.lo
                   b == new.hi
        <4>1. a \in Nat /\ b \in Nat
              /\ new = [lo |-> a, hi |-> b, left |-> CatchUpCodes, bad |-> 0, clean |-> TRUE, met |-> FALSE]
          BY <1>4, <1>5, <2>2
        <4> HIDE DEF a, b
        <4>2. new \in ThreadRec
          BY <4>1 DEF ThreadRec
        <4>3. new.bad < CatchUpBreaker /\ new.left # {}
          BY <1>5, CatchUpValues
        <4> QED
          BY <4>2, <4>3
      <3>2. CatchUpCodes \ new.left = {}
        BY <1>5
      <3>3. catchUp' = new /\ filled' = filled /\ day' = day /\ late' = late /\ settled' = settled
        BY <1>1, <2>2
      <3>4. /\ new.left # {} /\ new.lo <= new.hi /\ new.hi <= CapOf(day, late) /\ new.lo > 0
            /\ \A d \in PricedOf(new) : CatchUpCodes \ new.left \subseteq settled[d]
            /\ WindowOf(new) \cap filled \subseteq PricedOf(new)
        BY <1>4, <1>5, <2>2, <3>1, <3>2 DEF PricedOf
      <3> QED
        BY <3>1, <3>3, <3>4 DEF ThreadIs, WindowOf, PricedOf, CapOf
    <2> QED
      BY <2>1, <2>2
  <1>7. CatchInv'
    <2>1. faults' \in 0..MaxFaults
      BY <1>1, CatchUpValues DEF CatchInv
    <2>2. /\ day' \in CatchUpCalendar /\ late' \in BOOLEAN /\ synced' \in BOOLEAN
          /\ settled' \in [CatchUpCalendar -> SUBSET CatchUpCodes]
          /\ \A d \in Dates' : d \in CatchUp!Trading /\ d <= day'
          /\ filled' \subseteq CatchUp!Trading /\ \A d \in filled' : settled'[d] = CatchUpCodes
      BY <1>1 DEF CatchInv, Dates
    <2> QED
      BY <1>3, <1>6, <2>1, <2>2 DEF CatchInv
  <1>8. ~between' => CatchUp!Incomplete' \subseteq gap
    <2>1. CASE catchUp = CatchUp!NoThread
      BY <1>1, <2>1, NothingOwed
    <2>2. CASE catchUp # CatchUp!NoThread
      <3>1. owed' = PricedOf(catchUp) /\ between' = catchUp.met /\ settled' = settled
        BY <1>1, <2>2
      <3> QED
        BY <2>2, <3>1, OwedFound DEF gap
    <2> QED
      BY <2>1, <2>2
  <1>9. CatchUp!BrokenRunIsFound'
    <2> SUFFICES ASSUME ~between'
                 PROVE  CatchUp!Incomplete' \subseteq IF catchUp' = CatchUp!NoThread THEN gap' ELSE catchUp.lo'..catchUp.hi'
      BY DEF CatchUp!BrokenRunIsFound, gap, CatchUp!NoThread
    <2>1. CASE gap = {}
      BY <1>2, <1>8, <2>1
    <2>2. CASE gap # {}
      BY <1>1, <1>2, <1>4, <1>8, <2>2
    <2> QED
      BY <2>1, <2>2
  <1>10. catchUp' # CatchUp!NoThread => WindowOf(catchUp)' \subseteq gap'
    <2>1. catchUp' # CatchUp!NoThread => catchUp' = new /\ gap # {}
      BY <1>1
    <2> QED
      BY <1>2, <1>4, <1>5, <2>1 DEF WindowOf
  <1>11. FoundInv'
    BY <1>9, <1>10 DEF FoundInv, gap
  <1> QED
    BY <1>7, <1>11

\* What the rows of some codes over a window make of the settled bars.
LEMMA UpsertedIs ==
    ASSUME CatchInv, NEW W \in SUBSET CatchUp!Trading, \A d \in W : d <= day,
           NEW codes \in SUBSET CatchUpCodes, NEW published \in SUBSET CatchUpCodes,
           settled' = CatchUp!Upserted(W, codes, published)
    PROVE  /\ settled' \in [CatchUpCalendar -> SUBSET CatchUpCodes]
           /\ \A d \in CatchUpCalendar : /\ d \notin W => settled'[d] = settled[d]
                                         /\ d \in CatchUp!Priced(W) => settled'[d] = settled[d] \cup codes
           /\ \A d \in Dates' : d \in CatchUp!Trading /\ d <= day
  <1>1. settled' = [d \in CatchUpCalendar |-> IF d \notin W THEN settled[d]
                                              ELSE IF d \in CatchUp!Priced(W) THEN settled[d] \cup codes
                                              ELSE (settled[d] \ codes) \cup published]
    BY DEF CatchUp!Upserted, CatchUpCalendar
  <1>2. \A d \in CatchUpCalendar : settled[d] \in SUBSET CatchUpCodes
    BY DEF CatchInv
  <1>3. CatchUp!Priced(W) \subseteq W
    BY DEF CatchUp!Priced
  <1> HIDE DEF CatchUpCalendar
  <1>4. \A d \in CatchUpCalendar : /\ d \notin W => settled'[d] = settled[d]
                                   /\ d \in CatchUp!Priced(W) => settled'[d] = settled[d] \cup codes
    BY <1>1, <1>3
  <1>5. settled' \in [CatchUpCalendar -> SUBSET CatchUpCodes]
    BY <1>1, <1>2
  <1>6. ASSUME NEW d \in Dates' PROVE d \in CatchUp!Trading /\ d <= day
    <2>1. d \in CatchUpCalendar /\ settled'[d] # {}
      BY DEF Dates
    <2>2. CASE d \in W
      BY <2>2
    <2>3. CASE d \notin W
      <3>1. d \in Dates
        BY <1>4, <2>1, <2>3 DEF Dates
      <3> QED
        BY <3>1 DEF CatchInv
    <2> QED
      BY <2>2, <2>3
  <1> QED
    BY <1>4, <1>5, <1>6

\* A thread that an evening sync has met.
LEMMA ThreadMet ==
    ASSUME NEW c \in ThreadRec, NEW m
    PROVE  [c EXCEPT !.met = m] = [lo |-> c.lo, hi |-> c.hi, left |-> c.left, bad |-> c.bad, clean |-> c.clean, met |-> m]
  <1> DEFINE lo == c.lo
             hi == c.hi
             left == c.left
             worst == c.bad
             clean == c.clean
             met == c.met
  <1>1. c = [lo |-> lo, hi |-> hi, left |-> left, bad |-> worst, clean |-> clean, met |-> met]
    BY DEF ThreadRec
  <1> HIDE DEF lo, hi, left, worst, clean, met
  <1>2. [c EXCEPT !.met = m] = [lo |-> lo, hi |-> hi, left |-> left, bad |-> worst, clean |-> clean, met |-> m]
    BY ONLY <1>1
  <1> QED
    BY <1>2 DEF lo, hi, left, worst, clean

Renewed(t, c, l, b, k) == t = [lo |-> c.lo, hi |-> c.hi, left |-> l, bad |-> b, clean |-> k, met |-> c.met]

\* A thread after one more code.
LEMMA ThreadAfter ==
    ASSUME NEW c \in ThreadRec, NEW l, NEW b, NEW k, NEW t, t = [c EXCEPT !.left = l, !.bad = b, !.clean = k]
    PROVE  Renewed(t, c, l, b, k)
  <1> DEFINE lo == c.lo
             hi == c.hi
             left == c.left
             worst == c.bad
             clean == c.clean
             met == c.met
  <1>1. c = [lo |-> lo, hi |-> hi, left |-> left, bad |-> worst, clean |-> clean, met |-> met]
    BY DEF ThreadRec
  <1> HIDE DEF lo, hi, left, worst, clean, met
  <1> DEFINE u == [c EXCEPT !.left = l]
             v == [u EXCEPT !.bad = b]
  <1>2. u = [lo |-> lo, hi |-> hi, left |-> l, bad |-> worst, clean |-> clean, met |-> met]
    BY ONLY <1>1
  <1> HIDE DEF u
  <1>3. v = [lo |-> lo, hi |-> hi, left |-> l, bad |-> b, clean |-> clean, met |-> met]
    BY ONLY <1>2
  <1> HIDE DEF v
  <1>4. [v EXCEPT !.clean = k] = [lo |-> lo, hi |-> hi, left |-> l, bad |-> b, clean |-> k, met |-> met]
    BY ONLY <1>3
  <1> QED
    BY <1>4 DEF u, v, lo, hi, met, Renewed
\* One more code of the window, whatever its sync gives.
LEMMA SyncKeeps ==
    ASSUME CatchInv, CatchUp!BaselineTrue, FoundInv, NEW code \in CatchUpCodes,
           NEW outcome \in CatchUp!Answers \cup {"empty", "error"}, CatchUp!SyncCode(code, outcome)
    PROVE  CatchInv' /\ FoundInv'
  <1> DEFINE c == catchUp
             W == WindowOf(catchUp)
             answered == outcome \in CatchUp!Answers
             thread == [catchUp EXCEPT
                           !.left = @ \ {code},
                           !.bad = IF outcome = "error" THEN @ + 1 ELSE 0,
                           !.clean = @ /\ outcome \in CatchUp!Answers]
             over == thread.left = {} \/ thread.bad = CatchUpBreaker
             published == IF outcome = "em" THEN {code} ELSE {}
  <1>1. /\ code \in c.left /\ UNCHANGED <<day, late, synced>>
        /\ IF answered THEN UNCHANGED faults ELSE faults < MaxFaults /\ faults' = faults + 1
        /\ settled' = IF ~answered THEN settled ELSE CatchUp!Upserted(W, {code}, published)
        /\ catchUp' = IF over THEN CatchUp!NoThread ELSE thread
        /\ ~over => UNCHANGED <<owed, between>>
        /\ over /\ thread.left # {} => owed' = PricedOf(c) /\ between' = c.met
        /\ over /\ thread.left = {} => owed' = {} /\ between' = FALSE
        /\ filled' = IF over /\ thread.clean /\ ~thread.met THEN filled \cup PricedOf(c) ELSE filled
    <2>1. CatchUp!Window = W
      BY DEF CatchUp!Window, WindowOf
    <2> QED
      BY <2>1 DEF CatchUp!SyncCode, CatchUp!BrokenOff, PricedOf
  <1>2. c # CatchUp!NoThread
    BY <1>1 DEF CatchUp!NoThread
  <1>3. /\ c \in ThreadRec /\ c.bad < CatchUpBreaker /\ c.left # {} /\ c.lo <= c.hi /\ c.hi <= CapOf(day, late)
        /\ c.lo > 0 /\ W \cap filled \subseteq PricedOf(c)
        /\ ~c.met /\ c.clean => \A d \in PricedOf(c) : CatchUpCodes \ c.left \subseteq settled[d]
    BY <1>2 DEF CatchInv, ThreadIs
  <1>4. /\ c.lo \in Nat /\ c.hi \in Nat /\ c.left \in SUBSET CatchUpCodes /\ c.bad \in Nat
        /\ c.clean \in BOOLEAN /\ c.met \in BOOLEAN
    BY <1>3 DEF ThreadRec
  <1>5. /\ thread = [lo |-> c.lo, hi |-> c.hi, left |-> c.left \ {code},
                     bad |-> IF outcome = "error" THEN c.bad + 1 ELSE 0,
                     clean |-> c.clean /\ answered, met |-> c.met]
        /\ thread \in ThreadRec
    <2>1. thread = [lo |-> c.lo, hi |-> c.hi, left |-> c.left \ {code},
                    bad |-> IF outcome = "error" THEN c.bad + 1 ELSE 0,
                    clean |-> c.clean /\ answered, met |-> c.met]
      <3> DEFINE l == c.left \ {code}
                 b == IF outcome = "error" THEN c.bad + 1 ELSE 0
                 k == c.clean /\ answered
      <3>1. thread = [c EXCEPT !.left = l, !.bad = b, !.clean = k]
        OBVIOUS
      <3>2. c \in ThreadRec
        BY <1>3
      <3> HIDE DEF thread, l, b, k, c, answered
      <3>3. Renewed(thread, c, l, b, k)
        BY ONLY <3>1, <3>2, ThreadAfter
      <3> QED
        BY <3>3 DEF l, b, k, Renewed
    <2>2. /\ c.left \ {code} \in SUBSET CatchUpCodes
          /\ (IF outcome = "error" THEN c.bad + 1 ELSE 0) \in Nat
          /\ (c.clean /\ answered) \in BOOLEAN
      BY <1>4
    <2> HIDE DEF thread, answered
    <2> QED
      BY <1>4, <2>1, <2>2 DEF ThreadRec
  <1> HIDE DEF thread
  <1>6. /\ thread.lo = c.lo /\ thread.hi = c.hi /\ thread.left = c.left \ {code} /\ thread.met = c.met
        /\ thread.clean = (c.clean /\ answered)
        /\ thread.bad = IF outcome = "error" THEN c.bad + 1 ELSE 0
    BY <1>5
  <1>7. WindowOf(thread) = W /\ PricedOf(thread) = PricedOf(c) /\ PricedOf(c) \subseteq W /\ W \in SUBSET CatchUp!Trading
    BY <1>6 DEF WindowOf, PricedOf, CatchUp!Priced
  <1>8. \A d \in W : d <= day /\ d \in CatchUpCalendar
    <2>1. \A d \in W : d \in Int /\ d <= c.hi /\ d \in CatchUpCalendar
      BY <1>4 DEF WindowOf, CatchUp!Trading, CatchUpCalendar
    <2>2. CapOf(day, late) <= day /\ CapOf(day, late) \in Int /\ day \in Int
      BY CatchUpValues DEF CatchInv, CapOf, CatchUpCalendar
    <2> QED
      BY <1>3, <1>4, <2>1, <2>2
  <1> HIDE DEF c, W, over
  \* What the code's rows leave: the window priced for it, and nothing else changed.
  <1>9. /\ settled' \in [CatchUpCalendar -> SUBSET CatchUpCodes]
        /\ \A d \in CatchUpCalendar : d \notin W => settled'[d] = settled[d]
        /\ \A d \in PricedOf(c) : settled'[d] = IF answered THEN settled[d] \cup {code} ELSE settled[d]
        /\ \A d \in Dates' : d \in CatchUp!Trading /\ d <= day
    <2>1. CASE ~answered
      <3>1. settled' = settled
        BY <1>1, <2>1
      <3> QED
        BY <2>1, <3>1 DEF CatchInv, Dates
    <2>2. CASE answered
      <3>1. settled' = CatchUp!Upserted(W, {code}, published) /\ {code} \in SUBSET CatchUpCodes
            /\ published \in SUBSET CatchUpCodes
        BY <1>1, <2>2
      <3>2. PricedOf(c) = CatchUp!Priced(W)
        BY DEF PricedOf, W, c
      <3> HIDE DEF published, answered
      <3>3. /\ settled' \in [CatchUpCalendar -> SUBSET CatchUpCodes]
            /\ \A d \in CatchUpCalendar : /\ d \notin W => settled'[d] = settled[d]
                                          /\ d \in CatchUp!Priced(W) => settled'[d] = settled[d] \cup {code}
            /\ \A d \in Dates' : d \in CatchUp!Trading /\ d <= day
        BY <1>7, <1>8, <3>1, UpsertedIs
      <3>4. \A d \in PricedOf(c) : d \in CatchUpCalendar
        BY <1>7, <1>8
      <3> HIDE DEF CatchUpCalendar
      <3> QED
        BY <2>2, <3>2, <3>3, <3>4
    <2> QED
      BY <2>1, <2>2
  <1>10. ~thread.met /\ thread.clean => \A d \in PricedOf(c) : CatchUpCodes \ thread.left \subseteq settled'[d]
    <2> SUFFICES ASSUME ~thread.met, thread.clean, NEW d \in PricedOf(c)
                 PROVE  CatchUpCodes \ thread.left \subseteq settled'[d]
      OBVIOUS
    <2>1. ~c.met /\ c.clean /\ answered
      BY <1>4, <1>6
    <2>2. CatchUpCodes \ c.left \subseteq settled[d] /\ settled'[d] = settled[d] \cup {code}
      BY <1>3, <1>9, <2>1
    <2> QED
      BY <1>6, <2>2
  <1>11. over /\ thread.clean => thread.left = {}
    <2> SUFFICES ASSUME over, thread.clean PROVE thread.left = {}
      OBVIOUS
    <2>1. outcome # "error"
      BY <1>6 DEF CatchUp!Answers
    <2>2. thread.bad = 0 /\ CatchUpBreaker # 0
      BY <1>6, <2>1, CatchUpValues
    <2> QED
      BY <2>2 DEF over
  <1>12. filled' \subseteq CatchUp!Trading /\ \A d \in filled' : settled'[d] = CatchUpCodes
    <2>1. filled \subseteq CatchUp!Trading /\ \A d \in filled : settled[d] = CatchUpCodes /\ d \in CatchUpCalendar
      BY DEF CatchInv, CatchUp!Trading, CatchUpCalendar
    <2>2. \A d \in filled : settled'[d] = CatchUpCodes
      <3> SUFFICES ASSUME NEW d \in filled PROVE settled'[d] = CatchUpCodes
        OBVIOUS
      <3>1. CASE d \in W
        <4>1. d \in PricedOf(c)
          BY <1>3, <3>1
        <4> QED
          BY <1>9, <2>1, <4>1
      <3>2. CASE d \notin W
        BY <1>9, <2>1, <3>2
      <3> QED
        BY <3>1, <3>2
    <2>3. CASE over /\ thread.clean /\ ~thread.met
      <3>1. filled' = filled \cup PricedOf(c) /\ thread.left = {}
        BY <1>1, <1>11, <2>3
      <3>2. \A d \in PricedOf(c) : settled'[d] = CatchUpCodes
        <4>1. \A d \in PricedOf(c) : CatchUpCodes \subseteq settled'[d] /\ settled'[d] \in SUBSET CatchUpCodes
          BY <1>7, <1>8, <1>9, <1>10, <2>3, <3>1
        <4> QED
          BY <4>1
      <3> QED
        BY <1>7, <2>1, <2>2, <3>1, <3>2
    <2>4. CASE ~(over /\ thread.clean /\ ~thread.met)
      <3>1. filled' = filled
        BY <1>1, <2>4
      <3> QED
        BY <2>1, <2>2, <3>1
    <2> QED
      BY <2>3, <2>4
  <1>13. ThreadIs'
    <2>1. CASE over
      <3>1. catchUp' = CatchUp!NoThread
        BY <1>1, <2>1
      <3> QED
        BY <3>1, CatchUpValues DEF ThreadIs, ThreadRec, CatchUp!NoThread
    <2>2. CASE ~over
      <3>1. catchUp' = thread /\ filled' = filled /\ day' = day /\ late' = late
        BY <1>1, <2>2
      <3>2. thread.left # {} /\ thread.bad < CatchUpBreaker
        BY <1>3, <1>4, <1>6, <2>2, CatchUpValues DEF over
      <3>3. thread.lo <= thread.hi /\ thread.hi <= CapOf(day', late') /\ thread.lo > 0
        BY <1>3, <1>6, <3>1 DEF CapOf
      <3>4. ~thread.met /\ thread.clean =>
               \A d \in PricedOf(thread) : CatchUpCodes \ thread.left \subseteq settled'[d]
        BY <1>7, <1>10
      <3>5. WindowOf(thread) \cap filled' \subseteq PricedOf(thread)
        BY <1>3, <1>7, <3>1
      <3> QED
        BY <1>5, <3>1, <3>2, <3>3, <3>4, <3>5 DEF ThreadIs, WindowOf, PricedOf
    <2> QED
      BY <2>1, <2>2
  <1>14. owed' \subseteq CatchUp!Trading /\ between' \in BOOLEAN
    <2>1. owed \subseteq CatchUp!Trading /\ between \in BOOLEAN
      BY DEF CatchInv
    <2> QED
      BY <1>1, <1>4, <1>7, <2>1
  <1>15. faults' \in 0..MaxFaults
    <2>1. faults \in 0..MaxFaults
      BY DEF CatchInv
    <2> QED
      BY <1>1, <2>1, CatchUpValues
  <1>16. CatchInv'
    <2>1. day' \in CatchUpCalendar /\ late' \in BOOLEAN /\ synced' \in BOOLEAN /\ day' = day
      BY <1>1 DEF CatchInv
    <2> QED
      BY <1>9, <1>12, <1>13, <1>14, <1>15, <2>1 DEF CatchInv
  <1>17. CatchUp!BrokenRunIsFound'
    <2>1. CASE ~over
      <3>1. catchUp' = thread /\ thread.left # CatchUpCodes /\ thread.left # {}
        BY <1>1, <1>6, <2>1 DEF over
      <3>2. catchUp' # CatchUp!NoThread
        BY <3>1 DEF CatchUp!NoThread
      <3> QED
        BY <3>1, <3>2 DEF CatchUp!BrokenRunIsFound, CatchUp!NoThread
    <2>2. CASE over /\ thread.left = {}
      <3>1. CatchUp!Incomplete' = {}
        BY <1>1, <2>2, NothingOwed
      <3> QED
        BY <3>1 DEF CatchUp!BrokenRunIsFound
    <2>3. CASE over /\ thread.left # {}
      <3>1. ~answered
        <4>1. thread.bad = CatchUpBreaker /\ CatchUpBreaker # 0
          BY <2>3, CatchUpValues DEF over
        <4>2. outcome = "error"
          BY <1>6, <4>1
        <4> QED
          BY <4>2 DEF CatchUp!Answers
      <3>2. settled' = settled /\ owed' = PricedOf(c) /\ between' = c.met /\ catchUp' = CatchUp!NoThread
        BY <1>1, <2>3, <3>1
      <3>3. ASSUME ~c.met PROVE CatchUp!Incomplete' \subseteq CatchUp!DetectGap'
        <4>1. CatchUp!Incomplete' \subseteq CatchUp!DetectGap
          BY <1>2, <3>2, <3>3, OwedFound DEF c
        <4>2. CatchUp!DetectGap \subseteq CatchUp!DetectGap'
          BY <1>1, <3>2, GapLater DEF CatchInv
        <4> QED
          BY <4>1, <4>2
      <3> QED
        BY <3>2, <3>3 DEF CatchUp!BrokenRunIsFound, CatchUp!NoThread
    <2> QED
      BY <2>1, <2>2, <2>3
  <1>18. ASSUME catchUp' # CatchUp!NoThread, ~catchUp.met'
         PROVE  WindowOf(catchUp)' \subseteq CatchUp!DetectGap' \/ \A d \in PricedOf(catchUp)' : settled'[d] # {}
    <2>1. catchUp' = thread /\ ~c.met
      BY <1>1, <1>6, <1>18
    <2>2. WindowOf(catchUp)' = W /\ PricedOf(catchUp)' = PricedOf(c)
      BY <1>7, <2>1 DEF WindowOf, PricedOf
    <2>3. CASE answered
      <3>1. \A d \in PricedOf(c) : settled'[d] # {}
        BY <1>9, <2>3
      <3> QED
        BY <2>2, <3>1
    <2>4. CASE ~answered
      <3>1. settled' = settled
        BY <1>1, <2>4
      <3>2. CatchUp!DetectGap \subseteq CatchUp!DetectGap'
        BY <1>1, <3>1, GapLater DEF CatchInv
      <3>3. W \subseteq CatchUp!DetectGap \/ \A d \in PricedOf(c) : settled[d] # {}
        BY <1>2, <2>1 DEF FoundInv, W, c
      <3> QED
        BY <2>2, <3>1, <3>2, <3>3
    <2> QED
      BY <2>3, <2>4
  <1>19. FoundInv'
    BY <1>17, <1>18 DEF FoundInv
  <1> QED
    BY <1>16, <1>19

\* The evening sync of a day over its window.
LEMMA EveningKeeps ==
    ASSUME CatchInv, NEW codes \in SUBSET CatchUpCodes, NEW published \in SUBSET codes,
           CatchUp!EveningSync(codes, published)
    PROVE  CatchInv' /\ FoundInv'
  <1> DEFINE c == catchUp
             E == CatchUp!Evening
             t == [c EXCEPT !.met = (c # CatchUp!NoThread)]
  <1>1. /\ synced' = TRUE /\ between' = TRUE /\ settled' = CatchUp!Upserted(E, codes, published)
        /\ filled' = filled \ (E \ CatchUp!Priced(E)) /\ catchUp' = t
        /\ UNCHANGED <<day, late, owed, faults>>
    BY DEF CatchUp!EveningSync
  <1>2. E \in SUBSET CatchUp!Trading /\ \A d \in E : d <= day
    <2>1. day \in Int
      BY CatchUpValues DEF CatchInv, CatchUpCalendar
    <2> QED
      BY <2>1, CatchUpValues DEF CatchUp!Evening
  <1> HIDE DEF E, t
  <1>3. /\ settled' \in [CatchUpCalendar -> SUBSET CatchUpCodes]
        /\ \A d \in CatchUpCalendar : /\ d \notin E => settled'[d] = settled[d]
                                      /\ d \in CatchUp!Priced(E) => settled'[d] = settled[d] \cup codes
        /\ \A d \in Dates' : d \in CatchUp!Trading /\ d <= day
    BY <1>1, <1>2, UpsertedIs
  <1>4. filled' \subseteq CatchUp!Trading /\ \A d \in filled' : settled'[d] = CatchUpCodes
    <2>1. \A d \in filled' : d \in filled /\ d \in CatchUpCalendar /\ d \in CatchUp!Trading /\ settled[d] = CatchUpCodes
                             /\ (d \in E => d \in CatchUp!Priced(E))
      BY <1>1 DEF CatchInv, CatchUp!Trading, CatchUpCalendar
    <2>2. ASSUME NEW d \in filled' PROVE settled'[d] = CatchUpCodes
      <3>1. settled'[d] = settled[d] \/ settled'[d] = settled[d] \cup codes
        BY <1>3, <2>1
      <3>2. settled[d] = CatchUpCodes /\ codes \subseteq CatchUpCodes
        BY <2>1
      <3> QED
        BY <3>1, <3>2
    <2> QED
      BY <2>1, <2>2
  <1>5. c \in ThreadRec
    BY DEF CatchInv, ThreadIs
  <1>6. t = [lo |-> c.lo, hi |-> c.hi, left |-> c.left, bad |-> c.bad, clean |-> c.clean, met |-> (c # CatchUp!NoThread)]
    <2> DEFINE m == (c # CatchUp!NoThread)
    <2>1. t = [c EXCEPT !.met = m]
      BY DEF t
    <2> HIDE DEF m, c
    <2>2. t = [lo |-> c.lo, hi |-> c.hi, left |-> c.left, bad |-> c.bad, clean |-> c.clean, met |-> m]
      BY <1>5, <2>1, ThreadMet
    <2> QED
      BY <2>2 DEF m
  <1>7. catchUp' # CatchUp!NoThread => catchUp.met'
    <2>1. CASE c = CatchUp!NoThread
      <3>1. t = CatchUp!NoThread
        BY <1>6, <2>1 DEF CatchUp!NoThread
      <3> QED
        BY <1>1, <3>1
    <2>2. CASE c # CatchUp!NoThread
      BY <1>1, <1>6, <2>2
    <2> QED
      BY <2>1, <2>2
  <1>8. ThreadIs'
    <2>1. CASE c = CatchUp!NoThread
      <3>1. t = CatchUp!NoThread
        BY <1>6, <2>1 DEF CatchUp!NoThread
      <3> QED
        BY <1>1, <3>1, CatchUpValues DEF ThreadIs, ThreadRec, CatchUp!NoThread
    <2>2. CASE c # CatchUp!NoThread
      <3>1. /\ c.bad < CatchUpBreaker /\ c.left # {} /\ c.lo <= c.hi /\ c.hi <= CapOf(day, late) /\ c.lo > 0
            /\ WindowOf(c) \cap filled \subseteq PricedOf(c)
        BY <2>2 DEF CatchInv, ThreadIs
      <3>2. /\ c.lo \in Nat /\ c.hi \in Nat /\ c.left \in SUBSET CatchUpCodes /\ c.bad \in Nat /\ c.clean \in BOOLEAN
        BY <1>5 DEF ThreadRec
      <3> HIDE DEF c
      <3>3. t = [lo |-> c.lo, hi |-> c.hi, left |-> c.left, bad |-> c.bad, clean |-> c.clean, met |-> TRUE]
        BY <1>6, <2>2
      <3>4. t \in ThreadRec
        BY <3>2, <3>3 DEF ThreadRec
      <3>5. /\ t.bad = c.bad /\ t.left = c.left /\ t.lo = c.lo /\ t.hi = c.hi /\ t.met
        BY <3>3
      <3>6. WindowOf(t) = WindowOf(c) /\ PricedOf(t) = PricedOf(c) /\ CapOf(day', late') = CapOf(day, late)
        BY <1>1, <3>5 DEF WindowOf, PricedOf
      <3>7. WindowOf(t) \cap filled' \subseteq PricedOf(t)
        BY <1>1, <3>1, <3>6
      <3>8. t.bad < CatchUpBreaker /\ t.left # {} /\ t.lo <= t.hi /\ t.hi <= CapOf(day', late') /\ t.lo > 0
        BY <3>1, <3>5, <3>6
      <3> QED
        BY <1>1, <3>4, <3>5, <3>7, <3>8 DEF ThreadIs, WindowOf, PricedOf
    <2> QED
      BY <2>1, <2>2
  <1>9. CatchInv'
    <2>1. /\ day' \in CatchUpCalendar /\ late' \in BOOLEAN /\ synced' \in BOOLEAN /\ between' \in BOOLEAN
          /\ owed' \subseteq CatchUp!Trading /\ faults' \in 0..MaxFaults /\ day' = day
      BY <1>1 DEF CatchInv
    <2> QED
      BY <1>3, <1>4, <1>8, <2>1 DEF CatchInv
  <1>10. FoundInv'
    BY <1>1, <1>7 DEF FoundInv, CatchUp!BrokenRunIsFound
  <1> QED
    BY <1>9, <1>10

\* Where every trading day is counted the baseline is true.
LEMMA AllCounted ==
    ASSUME CatchUp!AllDaysCounted, CatchInv
    PROVE  CatchUp!BaselineTrue
  <1>1. CountWindow \in Nat /\ \A x \in CatchUpCalendar : CatchUp!Size(x) \in Nat
    BY CatchUpValues, SizesAre
  <1>2. Dates \subseteq CatchUp!Trading /\ IsFiniteSet(CatchUp!Trading) /\ Dates \subseteq Int /\ Dates \subseteq CatchUpCalendar
    <2>1. CatchUp!Trading \in SUBSET (1..CatchUpDays) /\ IsFiniteSet(1..CatchUpDays)
      BY FS_Interval, CatchUpValues DEF CatchUp!Trading
    <2>2. IsFiniteSet(CatchUp!Trading)
      BY <2>1, FS_Subset
    <2> QED
      BY <2>1, <2>2, CatchUpValues DEF CatchInv, Dates, CatchUpCalendar
  <1>3. CatchUp!SettledDates = Dates
    <2>1. ASSUME NEW d \in Dates PROVE CatchUp!Cardinality({x \in Dates : x > d}) < CountWindow
      <3> DEFINE X == {x \in Dates : x > d}
      <3>1. X \in SUBSET CatchUp!Trading /\ d \in CatchUp!Trading /\ d \notin X
        <4>1. ~(d > d)
          BY <1>2
        <4> QED
          BY <1>2, <4>1
      <3> HIDE DEF X
      <3>2. Cardinality(X) <= Cardinality(CatchUp!Trading) /\ Cardinality(X) # Cardinality(CatchUp!Trading)
        BY <1>2, <3>1, FS_Subset
      <3>3. Cardinality(X) \in Nat /\ Cardinality(CatchUp!Trading) \in Nat
        BY <1>2, <3>1, FS_Subset, FS_CardinalityType
      <3>4. Cardinality(CatchUp!Trading) <= CountWindow /\ CatchUp!Cardinality(X) = Cardinality(X)
        BY CatchUpCounts DEF CatchUp!AllDaysCounted
      <3> QED
        BY <1>1, <3>2, <3>3, <3>4 DEF X
    <2>2. CatchUp!SettledDates = {d \in Dates : CatchUp!Cardinality({x \in Dates : x > d}) < CountWindow}
      BY DatesAre
    <2> HIDE DEF Dates
    <2> QED
      BY <2>1, <2>2
  <1>4. {e \in 1..day : settled[e] # {}} = Dates
    BY DatesAre
  <1> HIDE DEF Dates
  <1>5. \A x \in Dates : CatchUp!Size(x) <= CatchUp!Size(x)
    BY <1>1, <1>2
  <1> QED
    BY <1>3, <1>4, <1>5 DEF CatchUp!BaselineTrue

LEMMA CatchMeans == ASSUME CatchInv, FoundInv PROVE CatchUp!CatchUpSound
  BY CatchTypes, CleanCloses DEF FoundInv, CatchUp!CatchUpSound

LEMMA CatchStep ==
    ASSUME CatchInv, CatchUp!BaselineTrue, FoundInv, CatchUp!Next PROVE CatchInv' /\ FoundInv'
  <1>1. CASE CatchUp!Clock
    BY <1>1, ClockKeeps
  <1>2. CASE CatchUp!Startup
    BY <1>2, StartupKeeps
  <1>3. ASSUME NEW code \in CatchUpCodes, NEW outcome \in CatchUp!Answers \cup {"empty", "error"},
               CatchUp!SyncCode(code, outcome)
        PROVE  CatchInv' /\ FoundInv'
    BY <1>3, SyncKeeps
  <1>4. ASSUME NEW codes \in SUBSET CatchUpCodes, NEW published \in SUBSET codes, CatchUp!EveningSync(codes, published)
        PROVE  CatchInv' /\ FoundInv'
    BY <1>4, EveningKeeps
  <1> QED
    BY <1>1, <1>2, <1>3, <1>4 DEF CatchUp!Next

LEMMA CatchStays ==
    ASSUME focus = "backfill" => CatchInv /\ FoundInv, focus = "backfill" => CatchUp!BaselineTrue, [Next]_vars
    PROVE  (focus = "backfill" => CatchInv /\ FoundInv)'
  <1> SUFFICES ASSUME focus' = "backfill" PROVE CatchInv' /\ FoundInv'
    OBVIOUS
  <1>1. focus = "backfill" /\ CatchInv /\ FoundInv /\ CatchUp!BaselineTrue
    BY DEF Next, vars
  <1>2. CatchUp!Next \/ UNCHANGED CatchUp!vars
    BY <1>1 DEF Next, vars, catchupVars, CatchUp!vars
  <1>3. CASE CatchUp!Next
    BY <1>1, <1>3, CatchStep
  <1>4. CASE UNCHANGED CatchUp!vars
    <2>1. /\ day' = day /\ late' = late /\ settled' = settled /\ catchUp' = catchUp /\ synced' = synced
          /\ owed' = owed /\ between' = between /\ filled' = filled /\ faults' = faults
      BY <1>4 DEF CatchUp!vars
    <2>2. CatchInv'
      BY <1>1, <2>1 DEF CatchInv, ThreadIs, WindowOf, PricedOf, Dates, CapOf
    <2>3. CatchUp!DetectGap \subseteq CatchUp!DetectGap'
      BY <1>1, <2>1, GapLater DEF CatchInv
    <2>4. CatchUp!Incomplete' = CatchUp!Incomplete
      BY <2>1 DEF CatchUp!Incomplete, CatchUp!Size
    <2>5. FoundInv'
      BY <1>1, <2>1, <2>3, <2>4 DEF FoundInv, CatchUp!BrokenRunIsFound, WindowOf, PricedOf
    <2> QED
      BY <2>2, <2>5
  <1> QED
    BY <1>2, <1>3, <1>4

\* CatchUpSound holds of the composition, for every pool, calendar, holiday plan, breaker,
\* look-back, backfill limit and completeness ratio, as long as the baseline is true: what a
\* catch-up that the breaker or the death of the process broke off was to price and left
\* incomplete is found by the next start (detect_gap, backfill_on_startup), and a day that a
\* run without a failure has priced is not found again for its own sake.
THEOREM CatchUpHolds == Spec /\ [](focus = "backfill" => CatchUp!BaselineTrue) => []CatchUpSound
  <1> DEFINE Inv == focus = "backfill" => CatchInv /\ FoundInv
             Base == focus = "backfill" => CatchUp!BaselineTrue
  <1>1. Init => Inv
    BY InitCatch DEF Init
  <1>2. Inv /\ Base /\ [Next]_vars => Inv'
    BY CatchStays
  <1>3. Inv /\ Base => CatchUpSound
    BY CatchMeans DEF CatchUpSound
  <1> QED
    BY <1>1, <1>2, <1>3, PTL DEF Spec

\* The baseline is true for as many trading days after a whole one as it counts
\* (_COUNT_WINDOW), whatever breaks off meanwhile: until then CatchUpSound needs nothing.
THEOREM CatchUpHoldsSoon == ASSUME CatchUp!AllDaysCounted PROVE Spec => []CatchUpSound
  <1> DEFINE Inv == focus = "backfill" => CatchInv /\ FoundInv
             Base == focus = "backfill" => CatchUp!BaselineTrue
  <1>1. Init => Inv
    BY InitCatch DEF Init
  <1>2. Inv => Base
    BY AllCounted
  <1>3. Inv /\ Base /\ [Next]_vars => Inv'
    BY CatchStays
  <1>4. Inv /\ Base => CatchUpSound
    BY CatchMeans DEF CatchUpSound
  <1> QED
    BY <1>1, <1>2, <1>3, <1>4, PTL DEF Spec

-----------------------------------------------------------------------------
(* The store of one stock at rest *)

\* No hole in a set of days.
Interval(S) == \A a, b \in S : a..b \subseteq S

\* Bars of days that have come, at the prices p and the corporate actions g of their days.
Priced(table, p, g) ==
    /\ DOMAIN table \subseteq 1..Len(p)
    /\ \A d \in DOMAIN table : table[d].close = p[d] - g[d] /\ table[d].pct \in Int

\* A bar with its true return, or without one on a day that nothing was paid.
Right(table, p, g, d) ==
    table[d].pct = p[d] - p[d - 1] \/ (table[d].pct = Kline!Null /\ g[d] = g[d - 1])
\* Bars without a hole, and right but for the first.
Chained(table) ==
    /\ Priced(table, price, paid) /\ Interval(DOMAIN table)
    /\ \A d \in DOMAIN table : d - 1 \in DOMAIN table => Right(table, price, paid, d)

Whole(f) == \A d \in DOMAIN f : f[d] \in Int
\* f jumps where the corporate actions g are.
Follows(f, g) == \A d, e \in DOMAIN f : AsFar(f, g, e, d)

LEMMA PriceValues ==
    ASSUME Prices
    PROVE  /\ Kline!Days = 1..Len(price) /\ Len(price) \in Nat
           /\ \A d \in 1..Len(price) : price[d] \in Int /\ paid[d] \in Int
           /\ \A d \in 2..Len(price) : price[d] - price[d - 1] # Kline!Null
  <1>1. Kline!Days = 1..Len(price) /\ Len(price) \in Nat
    BY TodayIsLen DEF Kline!Days
  <1>2. Len(paid) = Len(price) /\ price \in Seq(Int) /\ paid \in Seq(Int)
    BY DEF Prices
  <1>3. \A m \in Moves : m # Kline!Null
    BY KlineAssumption DEF Kline!Parameters
  <1>4. \A d \in 2..Len(price) : price[d] - price[d - 1] \in Moves
    BY DEF Prices
  <1> QED
    BY <1>1, <1>2, <1>3, <1>4

\* The last and the first of a set of days.
LEMMA LastDay ==
    ASSUME NEW n \in Nat, NEW S \in SUBSET (1..n), S # {}
    PROVE  Kline!MaxDay(S) \in S /\ \A x \in S : x <= Kline!MaxDay(S)
  <1>1. S \in SUBSET (0..n)
    OBVIOUS
  <1>2. \E m \in S : \A x \in S : m >= x
    BY <1>1, HasLargest
  <1>3. \E m \in S : \A x \in S : x <= m
    BY <1>2
  <1> QED
    BY <1>3 DEF Kline!MaxDay

LEMMA FirstOfDays ==
    ASSUME NEW n \in Nat, NEW S \in SUBSET (1..n), S # {}
    PROVE  Kline!MinDay(S) \in S /\ \A x \in S : Kline!MinDay(S) <= x
  <1>1. S \in SUBSET Nat
    OBVIOUS
  <1>2. \E m \in S : \A x \in S : m <= x
    BY <1>1, Least
  <1> QED
    BY <1>2 DEF Kline!MinDay

\* A sum over days, term by term.
SumTo(f, D, d) == Kline!SumOver(f, {x \in D : x <= d})

LEMMA SumValue ==
    ASSUME Prices, NEW f, NEW S, \A x \in S : f[x] \in Int
    PROVE  /\ Kline!SumOver(f, S) \in Int
           /\ (\A x \in S : f[x] = 0) => Kline!SumOver(f, S) = 0
  <1> DEFINE n == Len(price)
             s == [d \in 1..n |-> IF d \in S THEN f[d] ELSE 0]
  <1>1. Kline!Days = 1..n /\ n \in Nat
    BY PriceValues
  <1>2. Kline!SumOver(f, S) = Kline!Total([d \in Kline!Days |-> IF d \in S THEN f[d] ELSE 0])
    BY DEF Kline!SumOver
  <1>3. \A u : Kline!Total(u) = Total(u)
    BY DEF Kline!Total, Total
  <1>4. Kline!SumOver(f, S) = Total(s)
    BY <1>1, <1>2, <1>3
  <1>5. \A d \in 1..n : s[d] = IF d \in S THEN f[d] ELSE 0
    OBVIOUS
  <1>6. s \in [1..n -> Int]
    OBVIOUS
  <1>7. s \in Seq(Int) /\ Len(s) = n
    BY <1>1, <1>6
  <1> HIDE DEF s, n
  <1>8. Total(s) \in Int
    BY <1>7, TotalIsInt
  <1>9. (\A x \in S : f[x] = 0) => Total(s) = 0
    BY <1>5, <1>7, TotalZeros
  <1> QED
    BY <1>4, <1>8, <1>9

LEMMA SumGrows ==
    ASSUME Prices, NEW f, NEW D \in SUBSET (1..Len(price)), \A x \in D : f[x] \in Int,
           NEW d \in D
    PROVE  SumTo(f, D, d) - SumTo(f, D, d - 1) = f[d]
  <1> DEFINE n == Len(price)
             A == {x \in D : x <= d}
             B == {x \in D : x <= d - 1}
             s == [x \in 1..n |-> IF x \in A THEN f[x] ELSE 0]
             t == [x \in 1..n |-> IF x \in B THEN f[x] ELSE 0]
  <1>1. Kline!Days = 1..n /\ n \in Nat
    BY PriceValues
  <1>2. \A u : Kline!Total(u) = Total(u)
    BY DEF Kline!Total, Total
  <1>3. SumTo(f, D, d) = Total(s) /\ SumTo(f, D, d - 1) = Total(t)
    BY <1>1, <1>2 DEF SumTo, Kline!SumOver
  <1>4. s \in [1..n -> Int] /\ t \in [1..n -> Int]
    OBVIOUS
  <1>5. s \in Seq(Int) /\ t \in Seq(Int) /\ Len(s) = n /\ Len(t) = n
    BY <1>1, <1>4
  <1>6. d \in 1..n /\ d \in A /\ d \notin B /\ s[d] = f[d] /\ t[d] = 0 /\ f[d] \in Int
    BY <1>1
  <1>7. \A x \in 1..n : x # d => (x \in A <=> x \in B)
    BY <1>1
  <1>8. \A x \in 1..n : x # d => s[x] = t[x]
    BY <1>7
  <1> HIDE DEF s, t, n, A, B
  <1>9. Total(s) - Total(t) = s[d] - t[d]
    <2>1. Len(s) = Len(t) /\ d \in 1..Len(s) /\ \A x \in 1..Len(s) : x # d => s[x] = t[x]
      BY <1>5, <1>6, <1>8
    <2>2. \A k \in 1..Len(s) : k = d => Total(s) - Total(t) = s[k] - t[k]
      BY ONLY <1>5, <2>1, TotalChange
    <2> QED
      BY ONLY <2>1, <2>2
  <1> QED
    BY <1>3, <1>6, <1>9

\* The jump after the bar of the day before, and of a first bar.
LEMMA JumpAfter ==
    ASSUME NEW n \in Nat, NEW table, DOMAIN table \subseteq 1..n, NEW d \in DOMAIN table
    PROVE  /\ d - 1 \in DOMAIN table =>
                  Kline!Jump(table, d) = IF table[d].pct = Kline!Null THEN 0
                                         ELSE table[d].pct - (table[d].close - table[d - 1].close)
           /\ (\A x \in DOMAIN table : d <= x) => Kline!Jump(table, d) = 0
  <1> DEFINE D == DOMAIN table
             before == {x \in D : x < d}
             m == Kline!MaxDay(before)
  <1>1. Kline!Jump(table, d) = IF before = {} \/ table[d].pct = Kline!Null THEN 0
                               ELSE table[d].pct - (table[d].close - table[m].close)
    BY DEF Kline!Jump
  <1>2. d \in 1..n /\ d \in D /\ D \subseteq 1..n
    OBVIOUS
  <1> HIDE DEF D
  <1>3. ASSUME d - 1 \in D PROVE m = d - 1 /\ before # {}
    <2>1. d - 1 \in before /\ before \in SUBSET (1..n)
      BY <1>2, <1>3
    <2>2. m \in before /\ \A x \in before : x <= m
      BY <2>1, LastDay
    <2> QED
      BY <1>2, <2>1, <2>2
  <1>4. (\A x \in D : d <= x) => before = {}
    BY <1>2
  <1> HIDE DEF m, before
  <1> QED
    BY <1>1, <1>3, <1>4 DEF D

\* In a chain of bars the jumps are the corporate actions.
LEMMA JumpIs ==
    ASSUME Prices, NEW table, Chained(table), NEW d \in DOMAIN table
    PROVE  /\ d - 1 \in DOMAIN table => Kline!Jump(table, d) = paid[d] - paid[d - 1]
           /\ d - 1 \notin DOMAIN table => Kline!Jump(table, d) = 0
  <1> DEFINE n == Len(price)
             D == DOMAIN table
  <1>1. /\ n \in Nat /\ D \subseteq 1..n /\ Interval(D)
        /\ \A x \in 1..n : price[x] \in Int /\ paid[x] \in Int
        /\ \A x \in D : table[x].close = price[x] - paid[x]
        /\ \A x \in D : x - 1 \in D => Right(table, price, paid, x)
        /\ \A x \in 2..n : price[x] - price[x - 1] # Kline!Null
    BY PriceValues DEF Chained, Priced
  <1>2. d \in 1..n /\ d \in D
    BY <1>1
  <1> HIDE DEF n
  <1>3. ASSUME d - 1 \in D PROVE Kline!Jump(table, d) = paid[d] - paid[d - 1]
    <2>1. d - 1 \in 1..n /\ d \in 2..n
      BY <1>1, <1>2, <1>3
    <2>2. Kline!Jump(table, d) = IF table[d].pct = Kline!Null THEN 0
                                 ELSE table[d].pct - (table[d].close - table[d - 1].close)
      BY <1>1, <1>3, JumpAfter
    <2>3. \/ table[d].pct = price[d] - price[d - 1] /\ table[d].pct # Kline!Null
          \/ table[d].pct = Kline!Null /\ paid[d] = paid[d - 1]
      BY <1>1, <1>2, <1>3, <2>1 DEF Right
    <2>4. table[d].close = price[d] - paid[d] /\ table[d - 1].close = price[d - 1] - paid[d - 1]
      BY <1>1, <1>2, <1>3
    <2>5. /\ price[d] \in Int /\ paid[d] \in Int /\ price[d - 1] \in Int /\ paid[d - 1] \in Int
      BY <1>1, <1>2, <2>1
    <2> DEFINE a == price[d]
               b == price[d - 1]
               x == paid[d]
               y == paid[d - 1]
    <2>6. /\ a \in Int /\ b \in Int /\ x \in Int /\ y \in Int
          /\ Kline!Jump(table, d) = (a - b) - ((a - x) - (b - y)) \/ (Kline!Jump(table, d) = 0 /\ x = y)
      BY <2>2, <2>3, <2>4, <2>5
    <2> HIDE DEF a, b, x, y
    <2>7. Kline!Jump(table, d) = x - y
      BY <2>6
    <2> QED
      BY <2>7 DEF x, y
  <1>4. ASSUME d - 1 \notin D PROVE Kline!Jump(table, d) = 0
    <2>1. \A x \in D : d <= x
      <3> SUFFICES ASSUME NEW x \in D, x < d PROVE FALSE
        BY <1>1, <1>2
      <3>1. d - 1 \in x..d
        BY <1>1, <1>2
      <3> QED
        BY <1>1, <1>2, <1>4, <3>1 DEF Interval
    <2> QED
      BY <1>1, <2>1, JumpAfter
  <1> QED
    BY <1>3, <1>4

\* Whatever the bars, a chain is of numbers and of their days.
LEMMA JumpNumbers ==
    ASSUME Prices, NEW table, Priced(table, price, paid), NEW d \in DOMAIN table
    PROVE  Kline!Jump(table, d) \in Int
  <1> DEFINE n == Len(price)
             D == DOMAIN table
             before == {x \in D : x < d}
             m == Kline!MaxDay(before)
  <1>1. /\ n \in Nat /\ D \subseteq 1..n
        /\ \A x \in 1..n : price[x] \in Int /\ paid[x] \in Int
        /\ \A x \in D : table[x].close = price[x] - paid[x] /\ table[x].pct \in Int
    BY PriceValues DEF Priced
  <1>2. Kline!Jump(table, d) = IF before = {} \/ table[d].pct = Kline!Null THEN 0
                               ELSE table[d].pct - (table[d].close - table[m].close)
    BY DEF Kline!Jump
  <1>3. \A x \in D : table[x].close \in Int /\ table[x].pct \in Int
    BY <1>1
  <1>4. before # {} => m \in D
    BY <1>1, LastDay
  <1>5. d \in D
    OBVIOUS
  <1> HIDE DEF n, D, m
  <1> QED
    BY <1>2, <1>3, <1>4, <1>5

LEMMA ChainNumbers ==
    ASSUME Prices, NEW table, Priced(table, price, paid)
    PROVE  DOMAIN Kline!FactorChain(table) = DOMAIN table /\ Whole(Kline!FactorChain(table))
  <1> DEFINE jump == [d \in DOMAIN table |-> Kline!Jump(table, d)]
             f == Kline!FactorChain(table)
  <1>1. f = [d \in DOMAIN table |-> Kline!SumOver(jump, {x \in DOMAIN table : x <= d})]
    BY DEF Kline!FactorChain
  <1>2. \A x \in DOMAIN table : jump[x] \in Int
    BY JumpNumbers
  <1> HIDE DEF jump, f
  <1>3. \A S \in SUBSET DOMAIN table : Kline!SumOver(jump, S) \in Int
    BY <1>2, SumValue
  <1>4. DOMAIN f = DOMAIN table /\ \A d \in DOMAIN table : f[d] \in Int
    BY <1>1, <1>3
  <1> QED
    BY <1>4 DEF Whole, f

\* A table of numbers that jumps with the corporate actions from day to day follows them.
LEMMA FollowsBySteps ==
    ASSUME Prices, NEW f, DOMAIN f \subseteq 1..Len(price), Interval(DOMAIN f), Whole(f),
           \A d \in DOMAIN f : d - 1 \in DOMAIN f => f[d] - f[d - 1] = paid[d] - paid[d - 1]
    PROVE  Follows(f, paid)
  <1> DEFINE D == DOMAIN f
  <1>1. \A d \in 1..Len(price) : paid[d] \in Int
    BY PriceValues
  <1>2. \A d \in D : d \in Int /\ f[d] \in Int /\ paid[d] \in Int
    BY <1>1 DEF Whole
  <1>3. ASSUME NEW d \in D, NEW e \in D, e <= d PROVE AsFar(f, paid, e, d)
    <2>1. e..d \subseteq D
      BY DEF Interval
    <2>2. \A x \in e..d : f[x] \in Int /\ paid[x] \in Int
      BY <1>2, <2>1
    <2>3. \A x \in (e + 1)..d : x \in e..d /\ x - 1 \in e..d
      BY <1>2
    <2>4. \A x \in (e + 1)..d : f[x] - f[x - 1] = paid[x] - paid[x - 1]
      BY <2>1, <2>3
    <2> QED
      BY <1>2, <1>3, <2>2, <2>4, SameWay
  <1>4. ASSUME NEW d \in D, NEW e \in D PROVE AsFar(f, paid, e, d)
    <2>1. CASE e <= d
      BY <1>3, <2>1
    <2>2. CASE d <= e
      <3>1. f[e] - f[d] = paid[e] - paid[d]
        BY <1>3, <2>2 DEF AsFar
      <3> DEFINE a == f[e]
                 b == f[d]
                 x == paid[e]
                 y == paid[d]
      <3>2. a \in Int /\ b \in Int /\ x \in Int /\ y \in Int /\ a - b = x - y
        BY <1>2, <3>1
      <3> HIDE DEF a, b, x, y
      <3>3. b - a = y - x
        BY <3>2
      <3> QED
        BY <3>3 DEF AsFar, a, b, x, y
    <2> QED
      BY <1>2, <2>1, <2>2
  <1> QED
    BY <1>4 DEF Follows

\* The chain of bars without a hole and with their true returns: each corporate action is a
\* jump of the chain, and nothing else is.
LEMMA ChainTrue ==
    ASSUME Prices, NEW table, Chained(table)
    PROVE  Follows(Kline!FactorChain(table), paid)
  <1> DEFINE n == Len(price)
             D == DOMAIN table
             jump == [d \in D |-> Kline!Jump(table, d)]
             f == Kline!FactorChain(table)
  <1>1. Priced(table, price, paid) /\ D \subseteq 1..n /\ Interval(D) /\ n \in Nat
    BY PriceValues DEF Chained, Priced
  <1>2. DOMAIN f = D /\ Whole(f)
    BY <1>1, ChainNumbers
  <1>3. f = [d \in D |-> Kline!SumOver(jump, {x \in D : x <= d})]
    BY DEF Kline!FactorChain
  <1>4. \A x \in D : jump[x] \in Int
    BY <1>1, JumpNumbers
  <1>5. ASSUME NEW d \in D, d - 1 \in D PROVE f[d] - f[d - 1] = paid[d] - paid[d - 1]
    <2>1. jump[d] = paid[d] - paid[d - 1]
      BY <1>5, JumpIs
    <2> HIDE DEF jump
    <2>2. f[d] = SumTo(jump, D, d) /\ f[d - 1] = SumTo(jump, D, d - 1)
      BY <1>3, <1>5 DEF SumTo
    <2> HIDE DEF f, D, n
    <2>3. D \in SUBSET (1..Len(price))
      BY <1>1 DEF n
    <2>4. SumTo(jump, D, d) - SumTo(jump, D, d - 1) = jump[d]
      BY <1>4, <2>3, SumGrows
    <2> QED
      BY <2>1, <2>2, <2>4
  <1> HIDE DEF f
  <1>6. \A d \in DOMAIN f : d - 1 \in DOMAIN f => f[d] - f[d - 1] = paid[d] - paid[d - 1]
    BY <1>2, <1>5
  <1>7. Follows(f, paid)
    BY <1>1, <1>2, <1>6, FollowsBySteps
  <1> QED
    BY <1>7 DEF f

\* Without an event in a chain of bars, it is level and no action was among them.
LEMMA NoEvents ==
    ASSUME Prices, NEW table, Chained(table), Kline!FactorEvents(table) = {}
    PROVE  /\ \A d \in DOMAIN table : Kline!FactorChain(table)[d] = 0
           /\ \A d, e \in DOMAIN table : paid[d] = paid[e]
  <1> DEFINE D == DOMAIN table
             jump == [d \in D |-> Kline!Jump(table, d)]
             f == Kline!FactorChain(table)
  <1>1. \A x \in D : Kline!Jump(table, x) = 0
    BY DEF Kline!FactorEvents
  <1>2. \A x \in D : jump[x] = 0
    BY <1>1
  <1>3. f = [d \in D |-> Kline!SumOver(jump, {x \in D : x <= d})]
    BY DEF Kline!FactorChain
  <1>4. Priced(table, price, paid) /\ \A d \in D : d \in 1..Len(price)
    BY DEF Chained, Priced
  <1> HIDE DEF jump
  <1>5. \A S \in SUBSET D : Kline!SumOver(jump, S) = 0
    BY <1>2, SumValue
  <1>6. \A d \in D : f[d] = 0
    BY <1>3, <1>5
  <1>7. Follows(f, paid) /\ DOMAIN f = D
    BY <1>4, ChainTrue, ChainNumbers
  <1> HIDE DEF f
  <1>8. ASSUME NEW d \in D, NEW e \in D PROVE paid[d] = paid[e]
    <2>1. f[d] - f[e] = paid[d] - paid[e] /\ f[d] = 0 /\ f[e] = 0
      BY <1>6, <1>7 DEF Follows, AsFar
    <2>2. paid[d] \in Int /\ paid[e] \in Int
      BY <1>4, PriceValues
    <2> QED
      BY <2>1, <2>2
  <1> QED
    BY <1>6, <1>8 DEF f

\* What the acceptance check compares.
LEMMA DeviationAt ==
    ASSUME Prices, Priced(bars, price, paid), Whole(factor), DOMAIN factor = DOMAIN bars,
           NEW d \in DOMAIN bars, d \in Kline!Known => bars[d].pct = Kline!TruePct(d),
           d - 1 \in DOMAIN bars \/ \A x \in DOMAIN bars : d <= x
    PROVE  d \in Kline!Deviations <=> d \in Kline!Known /\ factor[d] - factor[d - 1] # paid[d] - paid[d - 1]
  <1> DEFINE n == Len(price)
             D == DOMAIN bars
             hfq == [x \in D |-> [close |-> bars[x].close + factor[x], pct |-> bars[x].pct]]
  <1>1. /\ n \in Nat /\ D \subseteq 1..n
        /\ \A x \in 1..n : price[x] \in Int /\ paid[x] \in Int
        /\ \A x \in 2..n : price[x] - price[x - 1] # Kline!Null
        /\ \A x \in D : bars[x].close = price[x] - paid[x] /\ factor[x] \in Int
    BY PriceValues DEF Priced, Whole
  <1>2. Kline!Deviations = Kline!FactorEvents(hfq)
    <2>1. DOMAIN bars \cap DOMAIN factor = D
      OBVIOUS
    <2> QED
      BY <2>1 DEF Kline!Deviations
  <1>3. Kline!Deviations = {x \in D : Kline!Jump(hfq, x) # 0}
    BY <1>2 DEF Kline!FactorEvents
  <1>4. /\ DOMAIN hfq = D /\ d \in D /\ d \in 1..n
        /\ \A x \in D : hfq[x].close = bars[x].close + factor[x] /\ hfq[x].pct = bars[x].pct
    BY <1>1
  <1> HIDE DEF hfq, n
  <1>5. CASE d - 1 \in D
    <2>1. d - 1 \in 1..n /\ d \in 2..n
      BY <1>1, <1>4, <1>5
    <2> DEFINE known == bars[d].pct # Kline!Null
    <2>2. /\ d \in Kline!Known <=> known
          /\ known => bars[d].pct = price[d] - price[d - 1]
      BY <1>5, <2>1 DEF Kline!TruePct, Kline!Known, Kline!Adjacent
    <2>3. Kline!Jump(hfq, d) = IF hfq[d].pct = Kline!Null THEN 0
                               ELSE hfq[d].pct - (hfq[d].close - hfq[d - 1].close)
      BY <1>1, <1>4, <1>5, JumpAfter
    <2> DEFINE a == price[d]
               b == price[d - 1]
               x == paid[d]
               y == paid[d - 1]
               f == factor[d]
               g == factor[d - 1]
    <2>4. a \in Int /\ b \in Int /\ x \in Int /\ y \in Int /\ f \in Int /\ g \in Int /\ a - b # Kline!Null
      BY <1>1, <1>4, <1>5, <2>1
    <2>5. /\ known => hfq[d].pct = a - b
          /\ ~known => hfq[d].pct = Kline!Null
          /\ hfq[d].close = (a - x) + f /\ hfq[d - 1].close = (b - y) + g
      BY <1>1, <1>4, <1>5, <2>2
    <2> HIDE DEF a, b, x, y, f, g, known
    <2>6. /\ known => Kline!Jump(hfq, d) = (a - b) - (((a - x) + f) - ((b - y) + g))
          /\ ~known => Kline!Jump(hfq, d) = 0
      BY <2>3, <2>4, <2>5
    <2>7. known => Kline!Jump(hfq, d) = (x - y) - (f - g)
      BY <2>4, <2>6
    <2>8. Kline!Jump(hfq, d) # 0 <=> known /\ f - g # x - y
      BY <2>4, <2>6, <2>7
    <2> QED
      BY <1>3, <1>4, <1>5, <2>2, <2>8 DEF f, g, x, y
  <1>6. CASE d - 1 \notin D
    <2>1. Kline!Jump(hfq, d) = 0
      BY <1>1, <1>4, <1>6, JumpAfter
    <2> QED
      BY <1>3, <1>6, <2>1 DEF Kline!Known, Kline!Adjacent
  <1> QED
    BY <1>5, <1>6

LEMMA AcceptanceHolds == ASSUME Prices, Priced(bars, price, paid), Whole(factor) PROVE Kline!AcceptanceTells
  <1> DEFINE D == DOMAIN bars
             A == Kline!Adjacent
             K == Kline!Known
             T == \A d \in K : factor[d] - factor[d - 1] = paid[d] - paid[d - 1]
  <1> SUFFICES ASSUME D = DOMAIN factor, Kline!Cardinality(D \ A) <= 1,
                      \A d \in K : bars[d].pct = Kline!TruePct(d)
               PROVE  Kline!Deviations = {} <=> T
    BY DEF Kline!AcceptanceTells
  <1>1. A = {d \in D : d - 1 \in D} /\ K \subseteq D /\ D \subseteq 1..Len(price) /\ Len(price) \in Nat
    BY PriceValues DEF Kline!Adjacent, Kline!Known, Priced
  <1>2. Kline!Deviations \subseteq D
    BY DEF Kline!Deviations, Kline!FactorEvents
  <1>3. ASSUME NEW d \in D PROVE d \in A \/ \A x \in D : d <= x
    <2> SUFFICES ASSUME d \notin A PROVE \A x \in D : d <= x
      OBVIOUS
    <2> DEFINE m == Kline!MinDay(D)
    <2>1. m \in D /\ \A x \in D : m <= x
      BY <1>1, FirstOfDays
    <2> HIDE DEF m
    <2>2. m \notin A
      <3>1. m \in 1..Len(price) /\ ~(m <= m - 1)
        BY <1>1, <2>1
      <3> QED
        BY <1>1, <2>1, <3>1
    <2>3. d = m
      <3> SUFFICES ASSUME d # m PROVE FALSE
        OBVIOUS
      <3>1. IsFiniteSet(D \ A)
        <4>1. IsFiniteSet(1..Len(price)) /\ D \ A \subseteq 1..Len(price)
          BY <1>1, FS_Interval
        <4> QED
          BY <4>1, FS_Subset
      <3>2. {d, m} \subseteq D \ A
        BY <2>1, <2>2
      <3>3. IsFiniteSet({d}) /\ Cardinality({d}) = 1
        BY FS_Singleton
      <3>4. {d, m} = {d} \cup {m} /\ m \notin {d}
        OBVIOUS
      <3>5. Cardinality({d, m}) = 2
        <4>1. Cardinality({d} \cup {m}) = Cardinality({d}) + 1
          BY <3>3, <3>4, FS_AddElement
        <4> QED
          BY <3>3, <3>4, <4>1
      <3>6. Cardinality({d, m}) <= Cardinality(D \ A) /\ Cardinality(D \ A) \in Nat
        BY <3>1, <3>2, FS_Subset, FS_CardinalityType
      <3>7. Kline!Cardinality(D \ A) = Cardinality(D \ A)
        BY DEF Kline!Cardinality, Cardinality
      <3> QED
        BY <3>5, <3>6, <3>7
    <2> QED
      BY <2>1, <2>3
  <1>4. ASSUME NEW d \in D
        PROVE  d \in Kline!Deviations <=> d \in K /\ factor[d] - factor[d - 1] # paid[d] - paid[d - 1]
    BY <1>1, <1>3, DeviationAt
  <1> HIDE DEF A, K
  <1> QED
    BY <1>1, <1>2, <1>4

\* At rest: every bar has its factor and is right, and the factors follow the corporate
\* actions.
AtRest ==
    /\ Priced(bars, price, paid) /\ Whole(factor) /\ DOMAIN factor = DOMAIN bars /\ Follows(factor, paid)
    /\ \A d \in DOMAIN bars : d # 1 => Right(bars, price, paid, d)

LEMMA ReadIs ==
    ASSUME Prices, AtRest, NEW end \in DOMAIN bars, NEW d \in DOMAIN bars, d <= end
    PROVE  Kline!Read(d, end) = price[d] - paid[end]
  <1> DEFINE n == Len(price)
             upTo == {x \in DOMAIN factor : x <= end}
             m == Kline!MaxDay(upTo)
  <1>1. /\ n \in Nat /\ DOMAIN bars \subseteq 1..n /\ DOMAIN factor = DOMAIN bars
        /\ \A x \in 1..n : price[x] \in Int /\ paid[x] \in Int
        /\ \A x \in DOMAIN bars : bars[x].close = price[x] - paid[x] /\ factor[x] \in Int
    BY PriceValues DEF AtRest, Priced, Whole
  <1>2. d \in 1..n /\ end \in 1..n
    BY <1>1
  <1>3. d \in upTo /\ end \in upTo /\ upTo \in SUBSET (1..n)
    BY <1>1, <1>2
  <1>4. m \in upTo /\ \A x \in upTo : x <= m
    BY <1>1, <1>3, LastDay
  <1>5. m = end
    <2>1. end <= m /\ m <= end /\ m \in 1..n
      BY <1>3, <1>4
    <2> HIDE DEF m
    <2> QED
      BY <1>2, <2>1
  <1>6. Kline!Read(d, end) = bars[d].close + factor[d] - factor[m]
    BY <1>3 DEF Kline!Read
  <1>7. factor[d] - factor[end] = paid[d] - paid[end]
    BY <1>1 DEF AtRest, Follows, AsFar
  <1> DEFINE a == price[d]
             x == paid[d]
             y == paid[end]
             f == factor[d]
             g == factor[end]
  <1>8. /\ a \in Int /\ x \in Int /\ y \in Int /\ f \in Int /\ g \in Int
        /\ f - g = x - y /\ Kline!Read(d, end) = ((a - x) + f) - g
    BY <1>1, <1>2, <1>5, <1>6, <1>7
  <1> HIDE DEF a, x, y, f, g
  <1>9. Kline!Read(d, end) = a - y
    BY <1>8
  <1> QED
    BY <1>9 DEF a, y

LEMMA NoLookaheadHolds == ASSUME Prices, AtRest PROVE Kline!NoLookahead
  <1>1. ASSUME NEW end \in DOMAIN bars, NEW d \in DOMAIN bars \cap 1..end
        PROVE  Kline!Read(d, end) = Kline!Raw(end) + price[d] - price[end]
    <2>1. DOMAIN bars \subseteq 1..Len(price) /\ \A x \in 1..Len(price) : price[x] \in Int /\ paid[x] \in Int
      BY PriceValues DEF AtRest, Priced
    <2>2. d \in 1..Len(price) /\ end \in 1..Len(price) /\ d <= end
      BY <2>1
    <2>3. Kline!Read(d, end) = price[d] - paid[end]
      BY <2>2, ReadIs
    <2>4. Kline!Raw(end) = price[end] - paid[end]
      BY DEF Kline!Raw
    <2> DEFINE a == price[d]
               b == price[end]
               y == paid[end]
    <2>5. a \in Int /\ b \in Int /\ y \in Int /\ Kline!Read(d, end) = a - y /\ Kline!Raw(end) = b - y
      BY <2>1, <2>2, <2>3, <2>4
    <2> HIDE DEF a, b, y
    <2>6. Kline!Read(d, end) = Kline!Raw(end) + a - b
      BY <2>5
    <2> QED
      BY <2>6 DEF a, b
  <1> QED
    BY <1>1 DEF Kline!NoLookahead

\* Weeks follow one another.
LEMMA WeekSteps ==
    ASSUME NEW x \in Nat \ {0}, NEW y \in Nat \ {0}, x <= y
    PROVE  /\ Kline!Week(x) \in Nat /\ Kline!Week(y) \in Nat /\ Kline!Week(x) <= Kline!Week(y)
           /\ y = x + 1 => Kline!Week(y) <= Kline!Week(x) + 1
  <1> DEFINE L == WeekLen
             p == (x - 1) \div L
             q == (y - 1) \div L
  <1>1. L \in Nat /\ L > 0
    BY KlineAssumption DEF Kline!Parameters
  <1>2. x - 1 \in Nat /\ y - 1 \in Nat
    OBVIOUS
  <1>3. p \in Nat /\ L * p <= x - 1 /\ x - 1 < L * p + L
    BY <1>1, <1>2, Division
  <1>4. q \in Nat /\ L * q <= y - 1 /\ y - 1 < L * q + L
    BY <1>1, <1>2, Division
  <1>5. Kline!Week(x) = p /\ Kline!Week(y) = q
    BY DEF Kline!Week
  <1> HIDE DEF L, p, q
  <1>6. L * p \in Nat /\ L * q \in Nat /\ L * (p + 1) = L * p + L
    BY <1>1, <1>3, <1>4
  <1>7. p <= q
    <2> SUFFICES ASSUME q < p PROVE FALSE
      BY <1>3, <1>4
    <2>1. L * q + L <= L * p
      BY <1>1, <1>3, <1>4, MoreOften
    <2> DEFINE a == L * p
               b == L * q
    <2> HIDE DEF a, b
    <2> QED
      BY <1>1, <1>3, <1>4, <1>6, <2>1 DEF a, b
  <1>8. ASSUME y = x + 1 PROVE q <= p + 1
    <2> SUFFICES ASSUME p + 1 < q PROVE FALSE
      BY <1>3, <1>4
    <2>1. L * (p + 1) + L <= L * q
      BY <1>1, <1>3, <1>4, MoreOften
    <2> DEFINE a == L * p
               b == L * q
    <2>2. a \in Nat /\ b \in Nat /\ (a + L) + L <= b /\ b <= y - 1 /\ x - 1 < a + L
      BY <1>3, <1>4, <1>6, <2>1
    <2> HIDE DEF a, b
    <2> QED
      BY <1>1, <1>8, <2>2
  <1> QED
    BY <1>3, <1>4, <1>5, <1>7, <1>8

\* The true returns of neighbouring days add up to the way from the day before them.
LEMMA ReturnsAddUp ==
    ASSUME Prices, AtRest, NEW a \in Nat \ {0, 1}, NEW b \in Nat, a <= b,
           a - 1 \in DOMAIN bars, a..b \subseteq DOMAIN bars, \A d \in a..b : bars[d].pct # Kline!Null
    PROVE  Kline!SumOver(Kline!Returns, a..b) = price[b] - price[a - 1]
  <1> DEFINE n == Len(price)
             D == a..b
             r == Kline!Returns
             g == [k \in (a - 1)..b |-> SumTo(r, D, k)]
  <1>1. /\ n \in Nat /\ DOMAIN bars \subseteq 1..n /\ \A x \in 1..n : price[x] \in Int
        /\ \A d \in DOMAIN bars : d # 1 => Right(bars, price, paid, d)
    BY PriceValues DEF AtRest, Priced
  <1>2. \A d \in D : d \in 2..n /\ d - 1 \in 1..n /\ d \in 1..n
    BY <1>1
  <1>3. \A d \in D : r[d] = price[d] - price[d - 1]
    <2> TAKE d \in D
    <2>1. r[d] = bars[d].pct
      BY DEF Kline!Returns
    <2>2. bars[d].pct = price[d] - price[d - 1]
      BY <1>1, <1>2 DEF Right
    <2> QED
      BY <2>1, <2>2
  <1>4. D \in SUBSET (1..Len(price)) /\ \A x \in D : r[x] \in Int
    <2>1. \A x \in D : price[x] - price[x - 1] \in Int
      BY <1>1, <1>2
    <2> HIDE DEF r, D
    <2>2. \A x \in D : r[x] \in Int
      BY <1>3, <2>1
    <2> QED
      BY <1>2, <2>2
  <1>5. \A k \in (a - 1)..b : price[k] \in Int
    BY <1>1, <1>2
  <1> HIDE DEF n, r
  <1>6. \A k \in (a - 1)..b : g[k] = SumTo(r, D, k) /\ g[k] \in Int
    <2>1. \A S \in SUBSET D : Kline!SumOver(r, S) \in Int
      BY <1>4, SumValue
    <2> QED
      BY <2>1 DEF SumTo
  <1>7. ASSUME NEW k \in ((a - 1) + 1)..b PROVE g[k] - g[k - 1] = price[k] - price[k - 1]
    <2>1. k \in D /\ k \in (a - 1)..b /\ k - 1 \in (a - 1)..b
      OBVIOUS
    <2> HIDE DEF g, D
    <2>2. SumTo(r, D, k) - SumTo(r, D, k - 1) = r[k]
      BY <1>4, <2>1, SumGrows
    <2>3. g[k] = SumTo(r, D, k) /\ g[k - 1] = SumTo(r, D, k - 1)
      BY <1>6, <2>1
    <2> QED
      BY <1>3, <2>1, <2>2, <2>3
  <1> DEFINE c == a - 1
  <1>8. AsFar(g, price, c, b)
    <2>1. c \in Int /\ b \in Int /\ c <= b
      OBVIOUS
    <2>2. \A x \in c..b : g[x] \in Int /\ price[x] \in Int
      BY <1>5, <1>6
    <2>3. \A x \in (c + 1)..b : g[x] - g[x - 1] = price[x] - price[x - 1]
      BY <1>7
    <2> HIDE DEF g, c, D
    <2> QED
      BY <2>1, <2>2, <2>3, SameWay
  <1>9. g[c] = 0
    <2>1. {x \in D : x <= c} = {} /\ c \in (a - 1)..b
      OBVIOUS
    <2>2. Kline!SumOver(r, {}) = 0
      BY SumValue
    <2> QED
      BY <1>6, <2>1, <2>2 DEF SumTo
  <1>10. g[b] = Kline!SumOver(r, D)
    <2>1. {x \in D : x <= b} = D /\ b \in (a - 1)..b
      OBVIOUS
    <2> QED
      BY <1>6, <2>1 DEF SumTo
  <1>11. price[b] \in Int /\ price[c] \in Int /\ g[b] \in Int
    BY <1>5, <1>6
  <1> HIDE DEF g, c, D
  <1>12. g[b] = price[b] - price[c]
    BY <1>8, <1>9, <1>11 DEF AsFar
  <1> QED
    BY <1>10, <1>12 DEF c, D, r

LEMMA WeeksHold == ASSUME Prices, AtRest PROVE Kline!WeeksAgree
  <1> DEFINE n == Len(price)
             D == DOMAIN bars
  <1>1. /\ n \in Nat /\ D \subseteq 1..n /\ Kline!Days = 1..n
        /\ \A x \in 1..n : price[x] \in Int /\ paid[x] \in Int
    BY PriceValues DEF AtRest, Priced
  <1>2. ASSUME NEW end \in D, NEW w \in DOMAIN Kline!WeekBars(end), w + 1 \in DOMAIN Kline!WeekBars(end),
               {d \in Kline!Days : Kline!Week(d) = w + 1 /\ d <= end} \subseteq Kline!Known
        PROVE  Kline!WeekBars(end)[w + 1].close - Kline!WeekBars(end)[w].close = Kline!WeekBars(end)[w + 1].pct
    <2> DEFINE kept == {d \in D : d <= end}
               of(v) == {d \in kept : Kline!Week(d) = v}
               P == of(w + 1)
               a == Kline!MinDay(P)
               b == Kline!MaxDay(P)
               e == Kline!MaxDay(of(w))
               weeks == Kline!WeekBars(end)
    <2>1. /\ DOMAIN weeks = {Kline!Week(d) : d \in kept}
          /\ \A v \in DOMAIN weeks : /\ weeks[v].close = Kline!Read(Kline!MaxDay(of(v)), end)
                                     /\ weeks[v].pct = Kline!SumOver(Kline!Returns, of(v))
      BY DEF Kline!WeekBars
    <2> HIDE DEF weeks
    <2>2. weeks[w + 1].close = Kline!Read(b, end) /\ weeks[w + 1].pct = Kline!SumOver(Kline!Returns, P)
          /\ weeks[w].close = Kline!Read(e, end)
      BY <1>2, <2>1 DEF weeks
    <2>3. P # {} /\ of(w) # {} /\ P \in SUBSET (1..n) /\ of(w) \in SUBSET (1..n)
      BY <1>1, <1>2, <2>1 DEF weeks
    <2>4. /\ a \in P /\ (\A x \in P : a <= x) /\ b \in P /\ (\A x \in P : x <= b)
          /\ e \in of(w) /\ \A x \in of(w) : x <= e
      BY <1>1, <2>3, LastDay, FirstOfDays
    <2> HIDE DEF a, b, e
    <2>5. /\ a \in 1..n /\ b \in 1..n /\ e \in 1..n /\ a <= b /\ b <= end /\ a <= end /\ end \in 1..n
          /\ Kline!Week(a) = w + 1 /\ Kline!Week(b) = w + 1 /\ Kline!Week(e) = w /\ e <= end /\ e \in D /\ b \in D
      BY <1>1, <2>3, <2>4
    <2>6. \A x \in 1..n, y \in 1..n : x <= y =>
              /\ Kline!Week(x) \in Nat /\ Kline!Week(y) \in Nat /\ Kline!Week(x) <= Kline!Week(y)
              /\ y = x + 1 => Kline!Week(y) <= Kline!Week(x) + 1
      <3> TAKE x \in 1..n, y \in 1..n
      <3>1. x \in Nat \ {0} /\ y \in Nat \ {0}
        BY <1>1
      <3> QED
        BY <3>1, WeekSteps
    <2>7. w \in Nat
      BY <2>5, <2>6
    <2>8. P = a..b
      <3>1. ASSUME NEW x \in a..b PROVE x \in P
        <4>1. x \in 1..n /\ a <= x /\ x <= b /\ x <= end
          BY <1>1, <2>5
        <4>2. Kline!Week(x) = w + 1
          BY <2>5, <2>6, <2>7, <4>1
        <4>3. x \in Kline!Adjacent
          BY <1>1, <1>2, <4>1, <4>2 DEF Kline!Known
        <4>4. x \in D
          BY <4>3 DEF Kline!Adjacent
        <4> QED
          BY <4>1, <4>2, <4>4
      <3>2. \A x \in P : x \in a..b
        BY <1>1, <2>3, <2>4, <2>5
      <3> HIDE DEF P
      <3> QED
        BY <3>1, <3>2
    <2>9. \A x \in a..b : x - 1 \in D /\ x \in D /\ bars[x].pct # Kline!Null
      <3> TAKE x \in a..b
      <3>1. x \in P
        BY <2>8
      <3>2. x \in 1..n /\ Kline!Week(x) = w + 1 /\ x <= end
        BY <1>1, <3>1
      <3> QED
        BY <1>1, <1>2, <3>2 DEF Kline!Known, Kline!Adjacent
    <2>10. a - 1 \in D /\ a - 1 \in 1..n
      BY <1>1, <2>5, <2>9
    <2>11. e = a - 1
      <3>1. Kline!Week(a - 1) = w
        <4>1. a - 1 <= a /\ a = (a - 1) + 1 /\ a - 1 <= end
          BY <2>5, <2>10
        <4>2. /\ Kline!Week(a - 1) \in Nat /\ Kline!Week(a - 1) <= w + 1 /\ w + 1 <= Kline!Week(a - 1) + 1
          BY <2>5, <2>6, <2>10, <4>1
        <4>3. Kline!Week(a - 1) # w + 1
          <5> SUFFICES ASSUME Kline!Week(a - 1) = w + 1 PROVE FALSE
            OBVIOUS
          <5>1. a - 1 \in P
            BY <2>10, <4>1
          <5> QED
            BY <2>4, <2>5, <5>1
        <4> QED
          BY <2>7, <4>2, <4>3
      <3>2. a - 1 \in of(w)
        BY <2>5, <2>10, <3>1
      <3>3. a - 1 <= e
        BY <2>4, <3>2
      <3>4. ~(a <= e)
        <4> SUFFICES ASSUME a <= e PROVE FALSE
          OBVIOUS
        <4>1. Kline!Week(a) <= Kline!Week(e)
          BY <2>5, <2>6
        <4> QED
          BY <2>5, <2>7, <4>1
      <3> QED
        BY <2>5, <3>3, <3>4
    <2>12. Kline!SumOver(Kline!Returns, P) = price[b] - price[a - 1]
      <3>1. /\ a \in Nat \ {0, 1} /\ b \in Nat /\ a - 1 \in DOMAIN bars /\ a..b \subseteq DOMAIN bars
            /\ \A x \in a..b : bars[x].pct # Kline!Null
        BY <1>1, <2>5, <2>9, <2>10
      <3>2. Kline!SumOver(Kline!Returns, a..b) = price[b] - price[a - 1]
        BY <2>5, <3>1, ReturnsAddUp
      <3> QED
        BY <2>8, <3>2
    <2>13. Kline!Read(b, end) = price[b] - paid[end] /\ Kline!Read(e, end) = price[e] - paid[end]
      BY <2>5, ReadIs
    <2> DEFINE x == price[b]
               y == price[a - 1]
               z == paid[end]
    <2>14. x \in Int /\ y \in Int /\ z \in Int /\ Kline!Read(b, end) = x - z /\ Kline!Read(e, end) = y - z
           /\ Kline!SumOver(Kline!Returns, P) = x - y
      BY <1>1, <2>5, <2>10, <2>11, <2>12, <2>13
    <2> HIDE DEF x, y, z, P
    <2>15. Kline!Read(b, end) - Kline!Read(e, end) = x - y
      BY <2>14
    <2> QED
      BY <2>2, <2>14, <2>15 DEF weeks
  <1> QED
    BY <1>2 DEF Kline!WeeksAgree

-----------------------------------------------------------------------------
(* The jobs on the store of one stock *)

\* A return a bar may carry at the prices p and the corporate actions g: none, the true one, or
\* that of the raw closes.
Plausible(table, p, g) ==
    \A d \in DOMAIN table :
        /\ d = 1 => table[d].pct = Kline!Null
        /\ d # 1 => table[d].pct \in {Kline!Null, p[d] - p[d - 1], (p[d] - g[d]) - (p[d - 1] - g[d - 1])}

\* The days of S have right bars.
AllRight(table, S, p, g) == \A d \in S \cap DOMAIN table : d # 1 => Right(table, p, g, d)

\* An upsert by day.
Upserted(table, new, old) ==
    /\ DOMAIN table = DOMAIN new \cup DOMAIN old
    /\ \A d \in DOMAIN new : table[d] = new[d]
    /\ \A d \in DOMAIN old : d \notin DOMAIN new => table[d] = old[d]

LEMMA OverwriteIs == ASSUME NEW new, NEW old PROVE Upserted(Kline!Overwrite(new, old), new, old)
  BY DEF Kline!Overwrite, Upserted

\* The returns of an answer: those of its closes but for the first, or the published ones.
Answered(answer, close, lo, hi, source) ==
    /\ DOMAIN answer = lo..hi
    /\ \A d \in lo..hi :
           /\ DOMAIN answer[d] = {"close", "pct"} /\ answer[d].close = close[d]
           /\ answer[d].pct = IF source # "tencent" THEN Kline!TruePct(d)
                              ELSE IF d = lo THEN Kline!Null ELSE close[d] - close[d - 1]

LEMMA AnswerIs ==
    ASSUME NEW close, NEW lo \in Nat \ {0}, NEW hi \in Nat, NEW source \in {"tencent", "em"}
    PROVE  Answered(Kline!Answer(close, lo, hi, source), close, lo, hi, source)
  <1> DEFINE pct(d) == CASE source = "tencent" -> Kline!TencentPct(close, d, lo)
                         [] source = "em" -> Kline!TruePct(d)
                         [] source = "banned" -> Kline!Null
             answer == Kline!Answer(close, lo, hi, source)
  <1>1. answer = [d \in lo..hi |-> [close |-> close[d], pct |-> pct(d)]]
    BY DEF Kline!Answer
  <1>2. ASSUME NEW d \in lo..hi
        PROVE  pct(d) = IF source # "tencent" THEN Kline!TruePct(d)
                        ELSE IF d = lo THEN Kline!Null ELSE close[d] - close[d - 1]
    <2>1. CASE source = "tencent"
      BY <2>1 DEF Kline!TencentPct
    <2>2. CASE source = "em"
      BY <2>2
    <2> QED
      BY <2>1, <2>2
  <1> HIDE DEF pct, answer
  <1>3. DOMAIN answer = lo..hi
    BY <1>1
  <1>4. \A d \in lo..hi : DOMAIN answer[d] = {"close", "pct"} /\ answer[d].close = close[d] /\ answer[d].pct = pct(d)
    BY <1>1
  <1> QED
    BY <1>2, <1>3, <1>4 DEF answer, Answered

\* What sync_one_stock_v2 fetches: the bars of the window, at their prices, with returns that may
\* be.
LEMMA FetchTrue ==
    ASSUME Prices, NEW lo \in Nat \ {0}, NEW hi \in Nat, hi <= Len(price),
           NEW s \in Sources, NEW q \in Sources
    PROVE  /\ DOMAIN Kline!TrueRows(lo, hi, s, q) \in {{}, lo..hi}
           /\ Priced(Kline!TrueRows(lo, hi, s, q), price, paid)
           /\ Plausible(Kline!TrueRows(lo, hi, s, q), price, paid)
  <1> DEFINE n == Len(price)
             us == Kline!Usable(s)
             uq == Kline!Usable(q)
             R == [d \in Kline!Days |-> Kline!Raw(d)]
             Q == [d \in Kline!Days |-> price[d] - paid[Kline!today]]
             raw == Kline!RawRows(lo, hi, s)
             qfq == Kline!QfqRows(lo, hi, q)
             own(d) == IF d = 1 THEN Kline!Null ELSE price[d] - price[d - 1]
             rough(d) == (price[d] - paid[d]) - (price[d - 1] - paid[d - 1])
             may(d) == IF d = 1 THEN {Kline!Null} ELSE {Kline!Null, own(d), rough(d)}
  <1>1. /\ Kline!today = n /\ n \in Nat \ {0} /\ Kline!Days = 1..n
        /\ \A d \in 1..n : price[d] \in Int /\ paid[d] \in Int
    BY TodayIsLen, PriceValues DEF Kline!Days
  <1>2. us \in {"tencent", "em", "none"} /\ uq \in {"tencent", "em", "none"}
    BY KlineAssumption DEF Kline!Parameters, Kline!Usable
  <1>3. \A d \in lo..hi : d \in 1..n /\ (d # lo => d # 1 /\ d - 1 \in 1..n) /\ (d # 1 => d - 1 \in 1..n)
    BY <1>1
  <1>4. ASSUME NEW d \in 1..n
        PROVE  /\ R[d] = price[d] - paid[d] /\ Kline!TruePct(d) = own(d) /\ may(d) \subseteq Int
               /\ own(d) \in may(d) /\ Kline!Null \in may(d)
               /\ d # 1 => Q[d] - Q[d - 1] \in may(d) /\ R[d] - R[d - 1] \in may(d)
    <2>1. d # 1 => d - 1 \in 1..n
      BY <1>1
    <2>2. n \in 1..n
      BY <1>1
    <2>3. R[d] = price[d] - paid[d] /\ (d # 1 => R[d - 1] = price[d - 1] - paid[d - 1])
      BY <1>1, <2>1 DEF Kline!Raw
    <2>4. Q[d] = price[d] - paid[n] /\ (d # 1 => Q[d - 1] = price[d - 1] - paid[n])
      BY <1>1, <2>1
    <2>5. Kline!TruePct(d) = own(d)
      BY DEF Kline!TruePct
    <2>6. price[d] \in Int /\ paid[d] \in Int /\ paid[n] \in Int /\ (d # 1 => price[d - 1] \in Int /\ paid[d - 1] \in Int)
      BY <1>1, <2>1, <2>2
    <2>7. Kline!Null \in Int
      BY DEF Kline!Null
    <2> DEFINE a == price[d]
               b == price[d - 1]
               x == paid[d]
               y == paid[d - 1]
               z == paid[n]
    <2>8. ASSUME d # 1
          PROVE  Q[d] - Q[d - 1] = own(d) /\ R[d] - R[d - 1] = rough(d) /\ own(d) \in Int /\ rough(d) \in Int
      <3>1. a \in Int /\ b \in Int /\ x \in Int /\ y \in Int /\ z \in Int
        BY <2>6, <2>8
      <3>2. own(d) = a - b /\ rough(d) = (a - x) - (b - y)
        BY <2>8
      <3>3. Q[d] = a - z /\ Q[d - 1] = b - z /\ R[d] = a - x /\ R[d - 1] = b - y
        BY <2>3, <2>4, <2>8
      <3> HIDE DEF a, b, x, y, z, Q, R, own, rough
      <3>4. (a - z) - (b - z) = a - b /\ (a - x) - (b - y) \in Int /\ a - b \in Int
        BY <3>1
      <3> QED
        BY <3>3, <3>4, <3>2
    <2>9. d = 1 => own(d) = Kline!Null
      OBVIOUS
    <2>10. may(d) = IF d = 1 THEN {Kline!Null} ELSE {Kline!Null, own(d), rough(d)}
      OBVIOUS
    <2> HIDE DEF Q, R, own, rough, may
    <2> QED
      BY <2>3, <2>5, <2>7, <2>8, <2>9, <2>10
  <1>5. raw = Kline!Answer(R, lo, hi, us) /\ qfq = Kline!Answer(Q, lo, hi, uq)
    BY DEF Kline!RawRows, Kline!QfqRows
  <1>6. \A c : DOMAIN Kline!Answer(c, lo, hi, "none") = {}
    BY DEF Kline!Answer
  <1> HIDE DEF R, Q, raw, qfq, us, uq, n, own, rough, may
  <1>7. /\ us = "none" => DOMAIN raw = {}
        /\ us # "none" => Answered(raw, R, lo, hi, us)
        /\ uq = "none" => DOMAIN qfq = {}
        /\ uq # "none" => Answered(qfq, Q, lo, hi, uq)
    BY <1>2, <1>5, <1>6, AnswerIs
  <1>8. /\ us = "none" => DOMAIN raw = {}
        /\ us # "none" => DOMAIN raw = lo..hi
        /\ \A d \in DOMAIN raw : d \in lo..hi /\ DOMAIN raw[d] = {"close", "pct"} /\ raw[d].close = R[d]
    BY <1>7 DEF Answered
  <1>9. \A d \in DOMAIN raw : raw[d].pct \in may(d)
    <2> TAKE d \in DOMAIN raw
    <2>1. d \in lo..hi /\ raw[d].pct = IF us # "tencent" THEN Kline!TruePct(d)
                                       ELSE IF d = lo THEN Kline!Null ELSE R[d] - R[d - 1]
      BY <1>7, <1>8 DEF Answered
    <2>2. d \in 1..n /\ (d # lo => d # 1)
      BY <1>3, <2>1
    <2> QED
      BY <1>4, <2>1, <2>2
  <1>10. \A d \in DOMAIN qfq : qfq[d].pct \in may(d)
    <2> TAKE d \in DOMAIN qfq
    <2>1. d \in lo..hi /\ qfq[d].pct = IF uq # "tencent" THEN Kline!TruePct(d)
                                       ELSE IF d = lo THEN Kline!Null ELSE Q[d] - Q[d - 1]
      BY <1>7 DEF Answered
    <2>2. d \in 1..n /\ (d # lo => d # 1)
      BY <1>3, <2>1
    <2> QED
      BY <1>4, <2>1, <2>2
  <1> DEFINE answer == Kline!TrueRows(lo, hi, s, q)
             new(d) == IF d \in DOMAIN qfq /\ qfq[d].pct # Kline!Null THEN [raw[d] EXCEPT !.pct = qfq[d].pct]
                       ELSE raw[d]
  <1>11. answer = [d \in DOMAIN raw |-> new(d)]
    BY DEF Kline!TrueRows, raw, qfq
  <1>12. ASSUME NEW d \in DOMAIN raw PROVE new(d).close = R[d] /\ new(d).pct \in may(d)
    <2>1. CASE d \in DOMAIN qfq /\ qfq[d].pct # Kline!Null
      <3> DEFINE x == raw[d]
                 c == x.close
                 t == qfq[d].pct
      <3>1. new(d) = [x EXCEPT !.pct = t] /\ DOMAIN x = {"close", "pct"} /\ c = R[d]
        BY <1>8, <2>1
      <3> HIDE DEF new, x, t
      <3>2. new(d).pct = t /\ new(d).close = c
        BY <3>1
      <3> QED
        BY <1>10, <2>1, <3>1, <3>2 DEF t
    <2>2. CASE ~(d \in DOMAIN qfq /\ qfq[d].pct # Kline!Null)
      <3>1. new(d) = raw[d]
        BY <2>2
      <3> HIDE DEF new
      <3> QED
        BY <1>8, <1>9, <3>1
    <2> HIDE DEF new
    <2> QED
      BY <2>1, <2>2
  <1> HIDE DEF new, answer
  <1>13. DOMAIN answer = DOMAIN raw /\ \A d \in DOMAIN raw : answer[d] = new(d)
    BY <1>11
  <1>14. DOMAIN answer \in {{}, lo..hi} /\ DOMAIN answer \subseteq 1..n
    BY <1>2, <1>3, <1>8, <1>13
  <1>15. \A d \in DOMAIN answer : answer[d].close = price[d] - paid[d] /\ answer[d].pct \in may(d) /\ may(d) \subseteq Int
    <2> TAKE d \in DOMAIN answer
    <2>1. d \in DOMAIN raw /\ d \in 1..n
      BY <1>3, <1>8, <1>13
    <2> QED
      BY <1>4, <1>12, <1>13, <2>1
  <1>16. Priced(answer, price, paid)
    BY <1>14, <1>15 DEF Priced, n
  <1>17. Plausible(answer, price, paid)
    BY <1>15 DEF Plausible, may, own, rough
  <1> QED
    BY <1>14, <1>16, <1>17 DEF answer

\* Where a window ends.
EndOf(j, x) == IF j = "daily" \/ x.lo + Chunk - 1 > x.end THEN x.end ELSE x.lo + Chunk - 1

\* A corporate action on one of the days lo..hi.
EventIn(lo, hi, g) == \E d \in lo..hi : d # 1 /\ g[d] # g[d - 1]

\* The factors up to hi stand to the latest one as the corporate actions g do, unless one that is
\* still to come before the end re-anchors them.
AnchoredTo(hi, end, f, g) ==
    EventIn(hi + 1, end, g) \/ \A d \in 1..hi : AsFar(f, g, Kline!MaxDay(DOMAIN f), d)

\* What a job holds, whatever went wrong before.
JobSound(x, b, p, g) ==
    /\ x.at \in {"idle", "next", "fetched", "upserted", "event"}
    /\ x.at # "idle" => /\ x.lo \in Nat \ {0} /\ x.end \in Nat /\ x.lo <= x.end /\ x.end <= Len(p)
    /\ x.at \in {"fetched", "upserted"} =>
           Priced(x.rows, p, g) /\ Plausible(x.rows, p, g) /\ DOMAIN x.rows # {}
    /\ x.at = "upserted" => DOMAIN x.rows \subseteq DOMAIN b

TableSound ==
    /\ Priced(bars, price, paid) /\ Plausible(bars, price, paid)
    /\ Whole(factor) /\ DOMAIN factor \subseteq DOMAIN bars
    /\ \A j \in Jobs : JobSound(job[j], bars, price, paid)

Settled(b, f, g) == DOMAIN f = DOMAIN b /\ Follows(f, g)

\* The evening sync works on a settled store; the rebuild leaves one behind it, day by day.
Evening(x, b, f, p, g) ==
    /\ AllRight(b, DOMAIN b, p, g)
    /\ x.at # "upserted" => DOMAIN f = DOMAIN b
    /\ x.at = "upserted" => DOMAIN b = DOMAIN f \cup (x.lo..x.end)
    /\ x.at # "event" => Follows(f, g)

Rebuilding(x, hi, b, f, p, g) ==
    /\ 1..(x.lo - 1) \subseteq DOMAIN f /\ AllRight(b, 1..(x.lo - 1), p, g)
    /\ x.at \in {"upserted", "event"} => AllRight(b, 1..hi, p, g)
    /\ x.at = "event" => x.lo..hi \subseteq DOMAIN f
    /\ x.at # "event" => AnchoredTo(x.lo - 1, x.end, f, g)

\* A pass at work on bars b and factors f.
Passing(j, x, b, f, p, g) ==
    /\ DOMAIN b \subseteq 1..x.end
    /\ x.at \in {"fetched", "upserted"} =>
           /\ DOMAIN x.rows = x.lo..EndOf(j, x) /\ AllRight(x.rows, DOMAIN x.rows, p, g)
           /\ Interval(DOMAIN x.rows \cup DOMAIN b)
    /\ IF j = "daily" THEN Evening(x, b, f, p, g) ELSE Rebuilding(x, EndOf(j, x), b, f, p, g)

\* While nothing was flawed there is one job at most, and what it has not settled yet it will.
Clean ==
    /\ \A j, k \in Jobs : job[j].at # "idle" /\ job[k].at # "idle" => j = k
    /\ Interval(DOMAIN bars)
    /\ (\A j \in Jobs : job[j].at = "idle") =>
           Settled(bars, factor, paid) /\ AllRight(bars, DOMAIN bars, price, paid)
    /\ \A j \in Jobs : job[j].at # "idle" => Passing(j, job[j], bars, factor, price, paid)

RestInv == StoreInv /\ TableSound /\ (~flawed => Clean)

LEMMA SeededIs ==
    ASSUME Prices, NEW new, Priced(new, price, paid), Priced(bars, price, paid), DOMAIN new # {}
    PROVE  /\ Priced(Kline!Seeded(new), price, paid) /\ DOMAIN new \subseteq DOMAIN Kline!Seeded(new)
           /\ \A lo \in Nat, hi \in Nat :
                  /\ lo > 0 /\ lo <= hi /\ DOMAIN new = lo..hi /\ AllRight(new, DOMAIN new, price, paid)
                  /\ Interval(DOMAIN bars) /\ lo..hi \subseteq DOMAIN bars
                  => /\ Chained(Kline!Seeded(new))
                     /\ lo - 1 \in DOMAIN bars => lo - 1 \in DOMAIN Kline!Seeded(new)
  <1> DEFINE n == Len(price)
             first == Kline!MinDay(DOMAIN new)
             before == {x \in DOMAIN bars : x < first}
             m == Kline!MaxDay(before)
             seed == [d \in {m} |-> [close |-> bars[d].close, pct |-> Kline!Null]]
             seeded == Kline!Seeded(new)
  <1>1. /\ n \in Nat /\ DOMAIN new \subseteq 1..n /\ DOMAIN bars \subseteq 1..n
        /\ \A x \in DOMAIN new : new[x].close = price[x] - paid[x] /\ new[x].pct \in Int
        /\ \A x \in DOMAIN bars : bars[x].close = price[x] - paid[x]
    BY PriceValues DEF Priced
  <1>2. first \in DOMAIN new /\ \A x \in DOMAIN new : first <= x
    BY <1>1, FirstOfDays
  <1>3. before # {} => m \in DOMAIN bars /\ m < first /\ \A x \in before : x <= m
    <2> HIDE DEF first
    <2>1. before \in SUBSET (1..n)
      BY <1>1
    <2>2. before # {} => m \in before /\ \A x \in before : x <= m
      BY <1>1, <2>1, LastDay
    <2> HIDE DEF m
    <2> QED
      BY <2>2
  <1>4. seeded = IF before = {} THEN new ELSE Kline!Overwrite(new, seed)
    BY DEF Kline!Seeded
  <1>5. /\ DOMAIN seed = {m} /\ seed[m].close = bars[m].close /\ seed[m].pct = Kline!Null
    OBVIOUS
  <1>6. before = {} <=> \A x \in DOMAIN bars : ~(x < first)
    OBVIOUS
  <1>7. \A x \in DOMAIN bars : x < first => x \in before
    OBVIOUS
  <1> HIDE DEF seed, seeded, first, n, m, before
  <1>8. before # {} => m \notin DOMAIN new
    BY <1>1, <1>2, <1>3
  <1>9. /\ before = {} => seeded = new
        /\ before # {} => /\ DOMAIN seeded = DOMAIN new \cup {m} /\ seeded[m] = seed[m]
                          /\ \A d \in DOMAIN new : seeded[d] = new[d]
    <2>1. before # {} => Upserted(seeded, new, seed)
      BY <1>4, OverwriteIs
    <2>2. before = {} => seeded = new
      BY <1>4
    <2> QED
      BY <1>5, <1>8, <2>1, <2>2 DEF Upserted
  <1>10. Priced(seeded, price, paid)
    <2>1. CASE before = {}
      BY <1>9, <2>1
    <2>2. CASE before # {}
      <3>1. Kline!Null \in Int
        BY DEF Kline!Null
      <3>2. DOMAIN seeded \subseteq 1..n
        BY <1>1, <1>3, <1>9, <2>2
      <3>3. \A d \in DOMAIN new : seeded[d].close = price[d] - paid[d] /\ seeded[d].pct \in Int
        BY <1>1, <1>9, <2>2
      <3>4. seeded[m].close = price[m] - paid[m] /\ seeded[m].pct \in Int
        BY <1>1, <1>3, <1>5, <1>9, <2>2, <3>1
      <3> QED
        BY <1>9, <2>2, <3>2, <3>3, <3>4 DEF Priced, n
    <2> QED
      BY <2>1, <2>2
  <1>11. ASSUME NEW lo \in Nat, NEW hi \in Nat, lo > 0, lo <= hi, DOMAIN new = lo..hi,
               AllRight(new, DOMAIN new, price, paid),
               Interval(DOMAIN bars), lo..hi \subseteq DOMAIN bars
        PROVE  Chained(seeded) /\ (lo - 1 \in DOMAIN bars => lo - 1 \in DOMAIN seeded)
    <2>1. first = lo
      BY <1>1, <1>2, <1>11
    <2>2. \A d \in lo..hi : d # 1 => Right(new, price, paid, d)
      BY <1>11 DEF AllRight
    <2>3. CASE before = {}
      <3>1. lo - 1 \notin DOMAIN bars
        BY <1>1, <1>11, <1>6, <2>1, <2>3
      <3>2. Interval(DOMAIN new)
        BY <1>11 DEF Interval
      <3>3. \A d \in DOMAIN new : d - 1 \in DOMAIN new => Right(new, price, paid, d)
        BY <1>11, <2>2
      <3> QED
        BY <1>9, <1>10, <2>3, <3>1, <3>2, <3>3 DEF Chained
    <2>4. CASE before # {}
      <3>1. m \in DOMAIN bars /\ m < lo /\ m \in 1..n /\ lo \in DOMAIN bars /\ lo - 1 \in m..lo
        BY <1>1, <1>3, <1>11, <2>1, <2>4
      <3>2. lo - 1 \in DOMAIN bars
        BY <1>11, <3>1 DEF Interval
      <3>3. lo - 1 <= m
        BY <1>3, <1>11, <1>7, <2>1, <2>4, <3>1, <3>2
      <3>4. m = lo - 1
        BY <1>11, <3>1, <3>3
      <3>5. DOMAIN seeded = (lo - 1)..hi
        <4>1. (lo..hi) \cup {lo - 1} = (lo - 1)..hi
          BY <1>11
        <4> QED
          BY <1>9, <1>11, <2>4, <3>4, <4>1
      <3>6. Interval(DOMAIN seeded)
        BY <1>11, <3>5 DEF Interval
      <3>7. \A d \in DOMAIN seeded : d - 1 \in DOMAIN seeded => Right(seeded, price, paid, d)
        <4> TAKE d \in DOMAIN seeded
        <4> SUFFICES ASSUME d - 1 \in DOMAIN seeded PROVE Right(seeded, price, paid, d)
          OBVIOUS
        <4>1. d \in lo..hi /\ d # 1
          BY <1>11, <3>1, <3>4, <3>5
        <4> QED
          BY <1>9, <1>11, <2>2, <2>4, <4>1 DEF Right
      <3>8. lo - 1 \in DOMAIN seeded
        BY <1>11, <3>5
      <3> QED
        BY <1>10, <3>6, <3>7, <3>8 DEF Chained
    <2> QED
      BY <2>3, <2>4
  <1>12. DOMAIN new \subseteq DOMAIN seeded
    BY <1>9
  <1> QED
    BY <1>10, <1>11, <1>12 DEF seeded

\* The factors of new rows are numbers, of their days.
LEMMA ExtendedNumbers ==
    ASSUME Prices, TableSound, NEW new, Priced(new, price, paid), DOMAIN new # {}, DOMAIN factor # {}
    PROVE  Whole(Kline!Extended(new)) /\ DOMAIN Kline!Extended(new) = DOMAIN new \cup DOMAIN factor
  <1> DEFINE chain == Kline!FactorChain(Kline!Seeded(new))
             latest == Kline!MaxDay(DOMAIN factor)
             f == [d \in DOMAIN new |-> chain[d] + factor[latest]]
             ext == Kline!Extended(new)
  <1>1. Priced(bars, price, paid) /\ Whole(factor) /\ DOMAIN factor \subseteq 1..Len(price) /\ Len(price) \in Nat
    BY PriceValues DEF TableSound, Priced
  <1>2. Priced(Kline!Seeded(new), price, paid) /\ DOMAIN new \subseteq DOMAIN Kline!Seeded(new)
    BY <1>1, SeededIs
  <1>3. DOMAIN chain = DOMAIN Kline!Seeded(new) /\ Whole(chain)
    BY <1>2, ChainNumbers
  <1>4. latest \in DOMAIN factor
    BY <1>1, LastDay
  <1>5. factor[latest] \in Int
    BY <1>1, <1>4 DEF Whole
  <1>6. ext = Kline!Overwrite(f, factor)
    BY DEF Kline!Extended
  <1> HIDE DEF chain, latest
  <1>7. DOMAIN f = DOMAIN new /\ \A d \in DOMAIN new : f[d] \in Int
    BY <1>2, <1>3, <1>5 DEF Whole
  <1> HIDE DEF f, ext
  <1>8. DOMAIN ext = DOMAIN new \cup DOMAIN factor
    BY <1>6, <1>7, OverwriteIs DEF Upserted
  <1>9. \A d \in DOMAIN ext : ext[d] \in Int
    <2>1. Upserted(ext, f, factor)
      BY <1>6, OverwriteIs
    <2> QED
      BY <1>1, <1>7, <1>8, <2>1 DEF Upserted, Whole
  <1> QED
    BY <1>8, <1>9 DEF Whole, ext

\* The chain of all stored bars.
LEMMA ChainOfAll ==
    ASSUME Prices, TableSound
    PROVE  LET f == Kline!Overwrite(Kline!FactorChain(bars), factor)
           IN  /\ Whole(f) /\ DOMAIN f = DOMAIN bars
               /\ Interval(DOMAIN bars) /\ AllRight(bars, DOMAIN bars, price, paid) => Follows(f, paid)
  <1> DEFINE chain == Kline!FactorChain(bars)
             f == Kline!Overwrite(chain, factor)
  <1>1. Priced(bars, price, paid) /\ Whole(factor) /\ DOMAIN bars \subseteq 1..Len(price)
    BY DEF TableSound, Priced
  <1>2. DOMAIN chain = DOMAIN bars /\ Whole(chain)
    BY <1>1, ChainNumbers
  <1> HIDE DEF chain
  <1>3. /\ DOMAIN f = DOMAIN bars \cup DOMAIN factor
        /\ \A d \in DOMAIN bars : f[d] = chain[d]
        /\ \A d \in DOMAIN factor : d \notin DOMAIN bars => f[d] = factor[d]
    <2>1. Upserted(f, chain, factor)
      BY OverwriteIs
    <2> HIDE DEF f
    <2> QED
      BY <1>2, <2>1 DEF Upserted
  <1> HIDE DEF f
  <1>4. Whole(f)
    BY <1>1, <1>2, <1>3 DEF Whole
  <1>5. DOMAIN f = DOMAIN bars
    BY <1>3 DEF TableSound
  <1>6. ASSUME Interval(DOMAIN bars), AllRight(bars, DOMAIN bars, price, paid)
        PROVE  Follows(f, paid)
    <2>1. Chained(bars)
      <3>1. \A d \in DOMAIN bars : d - 1 \in DOMAIN bars => d # 1
        BY <1>1
      <3> QED
        BY <1>1, <1>6, <3>1 DEF Chained, AllRight
    <2>2. Follows(chain, paid)
      BY <2>1, ChainTrue DEF chain
    <2> QED
      BY <1>2, <1>3, <1>5, <2>2 DEF Follows, AsFar
  <1> QED
    BY <1>4, <1>5, <1>6 DEF f, chain

\* Without a corporate action between two days nothing was paid between them.
LEMMA LevelStretch ==
    ASSUME Prices, NEW a \in Nat \ {0}, NEW b \in Nat, b <= Len(price), ~EventIn(a + 1, b, paid),
           NEW d \in a..b, NEW e \in a..b
    PROVE  paid[d] = paid[e]
  <1> DEFINE zero == [x \in a..b |-> 0]
  <1>1. \A x \in a..b : x \in 1..Len(price) /\ zero[x] = 0 /\ paid[x] \in Int
    BY PriceValues
  <1>2. \A x \in (a + 1)..b : x # 1 /\ x \in a..b /\ x - 1 \in a..b
    OBVIOUS
  <1>3. \A x \in (a + 1)..b : paid[x] = paid[x - 1]
    BY <1>2 DEF EventIn
  <1> HIDE DEF zero
  <1>4. ASSUME NEW x \in a..b PROVE paid[x] = paid[a]
    <2>1. a \in Int /\ x \in Int /\ a <= x /\ a..x \subseteq a..b /\ (a + 1)..x \subseteq (a + 1)..b /\ a \in a..b
      OBVIOUS
    <2>2. \A y \in a..x : zero[y] \in Int /\ paid[y] \in Int
      BY <1>1, <2>1
    <2>3. \A y \in (a + 1)..x : zero[y] - zero[y - 1] = paid[y] - paid[y - 1]
      <3> TAKE y \in (a + 1)..x
      <3>1. y \in (a + 1)..b
        BY <2>1
      <3>2. paid[y] \in Int /\ zero[y] = 0 /\ zero[y - 1] = 0 /\ paid[y] = paid[y - 1]
        BY <1>1, <1>2, <1>3, <3>1
      <3> QED
        BY <3>2
    <2>4. AsFar(zero, paid, a, x)
      BY <2>1, <2>2, <2>3, SameWay
    <2>5. zero[x] = 0 /\ zero[a] = 0 /\ paid[x] \in Int /\ paid[a] \in Int
      BY <1>1, <2>1
    <2> QED
      BY <2>4, <2>5 DEF AsFar
  <1> QED
    BY <1>4

\* New rows without an event among them take the latest factor of all.
LEMMA LevelRows ==
    ASSUME Prices, TableSound, NEW lo \in Nat \ {0}, NEW hi \in Nat, lo <= hi, NEW new,
           Priced(new, price, paid), DOMAIN new = lo..hi, AllRight(new, DOMAIN new, price, paid),
           Interval(DOMAIN bars), lo..hi \subseteq DOMAIN bars, DOMAIN factor # {},
           Kline!FactorEvents(Kline!Seeded(new)) = {}
    PROVE  LET f == Kline!Extended(new)
               m == Kline!MaxDay(DOMAIN factor)
           IN  /\ m \in DOMAIN factor /\ \A d \in DOMAIN factor : d <= m
               /\ DOMAIN f = (lo..hi) \cup DOMAIN factor
               /\ \A d \in lo..hi : f[d] = factor[m] /\ paid[d] = paid[hi]
               /\ \A d \in DOMAIN factor : d \notin lo..hi => f[d] = factor[d]
               /\ lo - 1 \in DOMAIN bars => paid[lo - 1] = paid[hi]
  <1> DEFINE n == Len(price)
             W == lo..hi
             F == DOMAIN factor
             seeded == Kline!Seeded(new)
             chain == Kline!FactorChain(seeded)
             m == Kline!MaxDay(F)
             own == [d \in DOMAIN new |-> chain[d] + factor[m]]
             f == Kline!Extended(new)
  <1>1. /\ n \in Nat /\ F \subseteq 1..n /\ \A d \in F : factor[d] \in Int
        /\ Priced(bars, price, paid) /\ DOMAIN new # {} /\ hi \in W
    BY PriceValues DEF TableSound, Priced, Whole
  <1>2. /\ Chained(seeded) /\ W \subseteq DOMAIN seeded
        /\ lo - 1 \in DOMAIN bars => lo - 1 \in DOMAIN seeded
    <2>1. lo > 0 /\ lo \in Nat
      OBVIOUS
    <2> HIDE DEF seeded
    <2>2. DOMAIN new \subseteq DOMAIN Kline!Seeded(new)
      BY <1>1, SeededIs
    <2>3. Chained(Kline!Seeded(new)) /\ (lo - 1 \in DOMAIN bars => lo - 1 \in DOMAIN Kline!Seeded(new))
      BY <1>1, <2>1, SeededIs
    <2> QED
      BY <2>2, <2>3 DEF seeded
  <1>3. /\ \A d \in DOMAIN seeded : chain[d] = 0
        /\ \A d, e \in DOMAIN seeded : paid[d] = paid[e]
    BY <1>2, NoEvents
  <1>4. m \in F /\ \A d \in F : d <= m
    BY <1>1, LastDay
  <1>5. Upserted(f, own, factor)
    BY OverwriteIs DEF Kline!Extended
  <1>6. DOMAIN own = DOMAIN new /\ \A d \in DOMAIN new : own[d] = chain[d] + factor[m]
    OBVIOUS
  <1> HIDE DEF n, F, seeded, chain, m, own, f, W
  <1>7. DOMAIN new = W
    BY DEF W
  <1>8. \A d \in W : own[d] = factor[m]
    BY <1>1, <1>2, <1>3, <1>4, <1>6, <1>7
  <1>9. /\ DOMAIN f = W \cup F
        /\ \A d \in W : f[d] = factor[m]
        /\ \A d \in F : d \notin W => f[d] = factor[d]
    BY <1>5, <1>6, <1>7, <1>8 DEF Upserted, F
  <1>10. \A d \in W : paid[d] = paid[hi]
    BY <1>1, <1>2, <1>3
  <1>11. lo - 1 \in DOMAIN bars => paid[lo - 1] = paid[hi]
    BY <1>1, <1>2, <1>3
  <1> QED
    BY <1>4, <1>9, <1>10, <1>11 DEF W, F, f, m

\* The evening sync: its window ends on the last bar, so the whole chain is settled.
LEMMA LevelEvening ==
    ASSUME Prices, TableSound, NEW lo \in Nat \ {0}, NEW hi \in Nat, lo <= hi, hi <= Len(price), NEW new,
           Priced(new, price, paid), DOMAIN new = lo..hi, AllRight(new, DOMAIN new, price, paid),
           Interval(DOMAIN bars), DOMAIN bars = DOMAIN factor \cup (lo..hi), DOMAIN bars \subseteq 1..hi,
           DOMAIN factor # {}, Kline!FactorEvents(Kline!Seeded(new)) = {}, Follows(factor, paid)
    PROVE  Follows(Kline!Extended(new), paid)
  <1> DEFINE n == Len(price)
             F == DOMAIN factor
             m == Kline!MaxDay(F)
             f == Kline!Extended(new)
  <1>1. /\ n \in Nat /\ \A d \in F : factor[d] \in Int
        /\ \A d \in 1..n : paid[d] \in Int
        /\ F \subseteq 1..hi /\ \A d \in 1..hi : d \in 1..n
    BY PriceValues DEF TableSound, Whole
  <1>2. lo..hi \subseteq DOMAIN bars
    OBVIOUS
  <1>3. /\ m \in F /\ \A d \in F : d <= m
        /\ DOMAIN f = (lo..hi) \cup F
        /\ \A d \in lo..hi : f[d] = factor[m] /\ paid[d] = paid[hi]
        /\ \A d \in F : d \notin lo..hi => f[d] = factor[d]
        /\ lo - 1 \in DOMAIN bars => paid[lo - 1] = paid[hi]
    BY <1>2, LevelRows
  <1> HIDE DEF n, m, f
  <1>4. paid[m] = paid[hi]
    <2>1. m \in 1..hi
      BY <1>1, <1>3
    <2>2. CASE m \in lo..hi
      BY <1>3, <2>2
    <2>3. CASE m \notin lo..hi
      <3>1. m < lo /\ m \in DOMAIN bars /\ lo \in DOMAIN bars /\ lo - 1 \in m..lo /\ lo - 1 \notin lo..hi
        BY <1>3, <2>1, <2>3
      <3>2. lo - 1 \in DOMAIN bars
        BY <3>1 DEF Interval
      <3>3. lo - 1 \in F
        BY <3>1, <3>2
      <3>4. m = lo - 1
        BY <1>3, <2>1, <3>1, <3>3
      <3> QED
        BY <1>3, <3>2, <3>4
    <2> QED
      BY <2>2, <2>3
  <1>5. factor[m] \in Int /\ paid[m] \in Int
    BY <1>1, <1>3
  <1>6. ASSUME NEW d \in DOMAIN f PROVE f[d] \in Int /\ paid[d] \in Int /\ f[d] - factor[m] = paid[d] - paid[m]
    <2>1. CASE d \in lo..hi
      <3>1. f[d] = factor[m] /\ paid[d] = paid[m]
        BY <1>3, <1>4, <2>1
      <3> QED
        BY <1>5, <3>1
    <2>2. CASE d \notin lo..hi
      <3>1. d \in F /\ f[d] = factor[d]
        BY <1>3, <2>2
      <3>2. factor[d] - factor[m] = paid[d] - paid[m]
        BY <1>3, <3>1 DEF Follows, AsFar
      <3> QED
        BY <1>1, <3>1, <3>2
    <2> QED
      BY <2>1, <2>2
  <1>7. ASSUME NEW d \in DOMAIN f, NEW e \in DOMAIN f PROVE AsFar(f, paid, e, d)
    <2> DEFINE a == f[d]
               b == f[e]
               u == paid[d]
               v == paid[e]
               y == factor[m]
               z == paid[m]
    <2>1. a \in Int /\ b \in Int /\ u \in Int /\ v \in Int /\ y \in Int /\ z \in Int /\ a - y = u - z /\ b - y = v - z
      BY <1>5, <1>6
    <2> HIDE DEF a, b, u, v, y, z
    <2>2. a - b = u - v
      BY <2>1
    <2> QED
      BY <2>2 DEF AsFar, a, b, u, v
  <1> QED
    BY <1>7 DEF Follows, f

\* A chunk of the rebuild: the days behind it stand right to the latest factor, unless an event
\* is ahead.
LEMMA LevelChunk ==
    ASSUME Prices, TableSound, NEW lo \in Nat \ {0}, NEW hi \in Nat, NEW end \in Nat,
           lo <= hi, hi <= end, end <= Len(price), NEW new,
           Priced(new, price, paid), DOMAIN new = lo..hi, AllRight(new, DOMAIN new, price, paid),
           Interval(DOMAIN bars), lo..hi \subseteq DOMAIN bars, DOMAIN bars \subseteq 1..end,
           DOMAIN factor # {}, Kline!FactorEvents(Kline!Seeded(new)) = {},
           1..(lo - 1) \subseteq DOMAIN factor, AnchoredTo(lo - 1, end, factor, paid)
    PROVE  AnchoredTo(hi, end, Kline!Extended(new), paid)
  <1> DEFINE n == Len(price)
             F == DOMAIN factor
             m == Kline!MaxDay(F)
             f == Kline!Extended(new)
             k == Kline!MaxDay(DOMAIN f)
  <1> SUFFICES ASSUME ~EventIn(hi + 1, end, paid) PROVE \A d \in 1..hi : AsFar(f, paid, k, d)
    BY DEF AnchoredTo
  <1>1. /\ n \in Nat /\ \A d \in F : factor[d] \in Int
        /\ \A d \in 1..n : paid[d] \in Int
        /\ F \subseteq DOMAIN bars /\ F \subseteq 1..end /\ \A d \in 1..end : d \in 1..n
    BY PriceValues DEF TableSound, Whole
  <1>2. /\ m \in F /\ \A d \in F : d <= m
        /\ DOMAIN f = (lo..hi) \cup F
        /\ \A d \in lo..hi : f[d] = factor[m] /\ paid[d] = paid[hi]
        /\ \A d \in F : d \notin lo..hi => f[d] = factor[d]
        /\ lo - 1 \in DOMAIN bars => paid[lo - 1] = paid[hi]
    BY LevelRows
  <1> HIDE DEF n, m, f
  <1>3. \A d \in hi..end : paid[d] = paid[hi]
    <2>1. hi \in Nat \ {0} /\ hi \in hi..end
      OBVIOUS
    <2> QED
      BY <2>1, LevelStretch
  <1>4. lo # 1 => lo - 1 \in F /\ paid[lo - 1] = paid[hi]
    <2>1. lo # 1 => lo - 1 \in 1..(lo - 1)
      OBVIOUS
    <2> QED
      BY <1>1, <1>2, <2>1
  <1>5. ~EventIn((lo - 1) + 1, end, paid)
    <2> SUFFICES ASSUME NEW d \in lo..end, d # 1 PROVE paid[d] = paid[d - 1]
      <3>1. (lo - 1) + 1 = lo
        OBVIOUS
      <3> QED
        BY <3>1 DEF EventIn
    <2>1. CASE hi < d
      <3>1. d \in (hi + 1)..end
        BY <2>1
      <3> QED
        BY <3>1 DEF EventIn
    <2>2. CASE d <= hi /\ d # lo
      <3>1. d \in lo..hi /\ d - 1 \in lo..hi
        BY <2>2
      <3> QED
        BY <1>2, <3>1
    <2>3. CASE d = lo
      <3>1. d \in lo..hi
        BY <2>3
      <3> QED
        BY <1>2, <1>4, <2>3, <3>1
    <2> QED
      BY <2>1, <2>2, <2>3
  <1>6. \A d \in 1..(lo - 1) : AsFar(factor, paid, m, d)
    BY <1>5 DEF AnchoredTo, m
  <1>7. m \in 1..end
    BY <1>1, <1>2
  <1>8. k \in DOMAIN f /\ \A d \in DOMAIN f : d <= k
    <2>1. DOMAIN f \in SUBSET (1..end) /\ DOMAIN f # {}
      BY <1>1, <1>2
    <2> HIDE DEF k
    <2> QED
      BY <2>1, LastDay DEF k
  <1>9. hi \in DOMAIN f /\ hi \in lo..hi /\ m \in DOMAIN f
    BY <1>2
  <1> HIDE DEF k
  <1>10. f[k] = factor[m] /\ paid[k] = paid[m] /\ paid[k] = paid[hi] /\ k \in 1..end
    <2>1. CASE hi < m
      <3>1. k = m
        <4>1. k \in 1..end /\ m <= k /\ (k \in lo..hi \/ k \in F)
          BY <1>1, <1>2, <1>8, <1>9
        <4>2. k <= m
          BY <1>2, <1>7, <2>1, <4>1
        <4> QED
          BY <1>7, <4>1, <4>2
      <3>2. m \notin lo..hi /\ m \in hi..end
        BY <1>7, <2>1
      <3> QED
        BY <1>2, <1>3, <1>7, <3>1, <3>2
    <2>2. CASE m <= hi
      <3>1. k = hi
        <4>1. k \in 1..end /\ hi <= k /\ (k \in lo..hi \/ k \in F)
          BY <1>1, <1>2, <1>8, <1>9
        <4>2. k <= hi
          BY <1>2, <1>7, <2>2, <4>1
        <4> QED
          BY <4>1, <4>2
      <3>2. paid[m] = paid[hi]
        <4>1. CASE m \in lo..hi
          BY <1>2, <4>1
        <4>2. CASE m < lo
          <5>1. lo # 1
            BY <1>7, <4>2
          <5>2. lo - 1 <= m
            BY <1>2, <1>4, <5>1
          <5>3. m = lo - 1
            BY <1>7, <4>2, <5>2
          <5> QED
            BY <1>4, <5>1, <5>3
        <4> QED
          BY <1>7, <2>2, <4>1, <4>2
      <3> QED
        BY <1>2, <1>9, <3>1, <3>2
    <2> QED
      BY <1>7, <2>1, <2>2
  <1>11. ASSUME NEW d \in 1..hi PROVE AsFar(f, paid, k, d)
    <2>1. d \in 1..n /\ paid[d] \in Int /\ paid[k] \in Int /\ factor[m] \in Int
      <3>1. d \in 1..end
        OBVIOUS
      <3> QED
        BY <1>1, <1>2, <1>10, <3>1
    <2>2. CASE d \in lo..hi
      <3>1. f[d] = factor[m] /\ paid[d] = paid[k] /\ f[k] = factor[m]
        BY <1>2, <1>10, <2>2
      <3> QED
        BY <2>1, <3>1 DEF AsFar
    <2>3. CASE d \notin lo..hi
      <3>1. d \in 1..(lo - 1) /\ d \in F
        BY <2>3
      <3>2. f[d] = factor[d] /\ AsFar(factor, paid, m, d)
        BY <1>2, <1>6, <2>3, <3>1
      <3> QED
        BY <1>10, <3>2 DEF AsFar
    <2> QED
      BY <2>2, <2>3
  <1> QED
    BY <1>11

\* On a day that nothing was paid a plausible bar is right.
LEMMA PlausibleIsRight ==
    ASSUME Prices, NEW table, Priced(table, price, paid), Plausible(table, price, paid),
           NEW d \in DOMAIN table, d # 1, paid[d] = paid[d - 1]
    PROVE  Right(table, price, paid, d)
  <1>1. table[d].pct \in {Kline!Null, price[d] - price[d - 1], (price[d] - paid[d]) - (price[d - 1] - paid[d - 1])}
    BY DEF Plausible
  <1>2. d \in 1..Len(price) /\ d - 1 \in 1..Len(price)
    BY PriceValues DEF Priced
  <1>3. price[d] \in Int /\ price[d - 1] \in Int /\ paid[d] \in Int
    BY <1>2, PriceValues
  <1> DEFINE a == price[d]
             b == price[d - 1]
             x == paid[d]
  <1>4. a \in Int /\ b \in Int /\ x \in Int /\ table[d].pct \in {Kline!Null, a - b, (a - x) - (b - x)}
    BY <1>1, <1>3
  <1> HIDE DEF a, b, x
  <1>5. table[d].pct = Kline!Null \/ table[d].pct = a - b
    BY <1>4
  <1> QED
    BY <1>5 DEF Right, a, b

\* The chain of all bars, right up to a chunk of the rebuild: it follows the corporate actions,
\* unless one is ahead.
LEMMA ChainAnchors ==
    ASSUME Prices, TableSound, NEW hi \in Nat, NEW end \in Nat, end <= Len(price),
           Interval(DOMAIN bars), AllRight(bars, 1..hi, price, paid), DOMAIN bars \subseteq 1..end,
           1..hi \subseteq DOMAIN bars, DOMAIN bars # {}
    PROVE  AnchoredTo(hi, end, Kline!Overwrite(Kline!FactorChain(bars), factor), paid)
  <1> DEFINE f == Kline!Overwrite(Kline!FactorChain(bars), factor)
             k == Kline!MaxDay(DOMAIN f)
  <1> SUFFICES ASSUME ~EventIn(hi + 1, end, paid) PROVE \A d \in 1..hi : AsFar(f, paid, k, d)
    BY DEF AnchoredTo
  <1>1. AllRight(bars, DOMAIN bars, price, paid)
    <2> SUFFICES ASSUME NEW d \in DOMAIN bars, d # 1 PROVE Right(bars, price, paid, d)
      BY DEF AllRight
    <2>1. d \in 1..end
      OBVIOUS
    <2>2. CASE d \in 1..hi
      BY <2>2 DEF AllRight
    <2>3. CASE d \notin 1..hi
      <3>1. d \in (hi + 1)..end
        BY <2>1, <2>3
      <3>2. paid[d] = paid[d - 1]
        BY <3>1 DEF EventIn
      <3> QED
        BY <3>2, PlausibleIsRight DEF TableSound
    <2> QED
      BY <2>2, <2>3
  <1>2. Whole(f) /\ DOMAIN f = DOMAIN bars /\ Follows(f, paid)
    BY <1>1, ChainOfAll
  <1>3. k \in DOMAIN f
    <2> HIDE DEF f
    <2> QED
      BY <1>2, LastDay
  <1> HIDE DEF f, k
  <1> QED
    BY <1>2, <1>3 DEF Follows

\* The record of a job at work, and what it is after its window.
Work(at, end, new, lo) == [at |-> at, end |-> end, rows |-> new, lo |-> lo]
After(j, x) == IF EndOf(j, x) = x.end THEN Kline!Idle ELSE Work("next", x.end, <<>>, EndOf(j, x) + 1)

LEMMA WorkIs ==
    ASSUME NEW at, NEW end, NEW new, NEW lo
    PROVE  /\ Work(at, end, new, lo).at = at /\ Work(at, end, new, lo).end = end
           /\ Work(at, end, new, lo).rows = new /\ Work(at, end, new, lo).lo = lo
  BY DEF Work

\* The edits of a job's record that the actions make.
Edits(x, at, new, lo) ==
    /\ [x EXCEPT !.at = at] = Work(at, x.end, x.rows, x.lo)
    /\ [x EXCEPT !.at = at, !.rows = new] = Work(at, x.end, new, x.lo)
    /\ [x EXCEPT !.at = at, !.lo = lo, !.rows = new] = Work(at, x.end, new, lo)

LEMMA WorkEdits ==
    ASSUME NEW x, x = [at |-> x.at, end |-> x.end, rows |-> x.rows, lo |-> x.lo], NEW at, NEW new, NEW lo
    PROVE  Edits(x, at, new, lo)
  <1> DEFINE a == x.at
             e == x.end
             r == x.rows
             l == x.lo
             u == [x EXCEPT !.at = at]
             v == [u EXCEPT !.lo = lo]
  <1>1. x = [at |-> a, end |-> e, rows |-> r, lo |-> l]
    OBVIOUS
  <1>2. /\ [x EXCEPT !.at = at, !.rows = new] = [u EXCEPT !.rows = new]
        /\ [x EXCEPT !.at = at, !.lo = lo, !.rows = new] = [v EXCEPT !.rows = new]
    OBVIOUS
  <1> HIDE DEF a, e, r, l
  <1>3. u = [at |-> at, end |-> e, rows |-> r, lo |-> l]
    BY ONLY <1>1
  <1> HIDE DEF u
  <1>4. [u EXCEPT !.rows = new] = [at |-> at, end |-> e, rows |-> new, lo |-> l]
    BY ONLY <1>3
  <1>5. v = [at |-> at, end |-> e, rows |-> r, lo |-> lo]
    BY ONLY <1>3
  <1> HIDE DEF v
  <1>6. [v EXCEPT !.rows = new] = [at |-> at, end |-> e, rows |-> new, lo |-> lo]
    BY ONLY <1>5
  <1> QED
    BY <1>2, <1>3, <1>4, <1>6 DEF Edits, Work, u, a, e, r, l

LEMMA JobTo ==
    ASSUME Working, NEW j \in Jobs, NEW y, job' = [job EXCEPT ![j] = y]
    PROVE  job'[j] = y /\ \A i \in Jobs : i # j => job'[i] = job[i]
  <1>1. job = [i \in Jobs |-> job[i]]
    BY DEF Working
  <1>2. DOMAIN job = Jobs
    BY <1>1
  <1> QED
    BY <1>2

LEMMA EndIs ==
    ASSUME NEW j, NEW x, NEW b, NEW p, NEW g, JobSound(x, b, p, g), x.at # "idle"
    PROVE  /\ EndOf(j, x) \in Nat /\ x.lo <= EndOf(j, x) /\ EndOf(j, x) <= x.end
           /\ x.lo \in Nat /\ x.lo > 0 /\ x.end \in Nat /\ (j = "daily" => EndOf(j, x) = x.end)
  <1>1. x.lo \in Nat \ {0} /\ x.end \in Nat /\ x.lo <= x.end
    BY DEF JobSound
  <1>2. Chunk \in Nat /\ Chunk # 0
    BY KlineAssumption DEF Kline!Parameters
  <1> DEFINE l == x.lo
             e == x.end
  <1>3. EndOf(j, x) = IF j = "daily" \/ (l + Chunk) - 1 > e THEN e ELSE (l + Chunk) - 1
    BY <1>1, <1>2 DEF EndOf
  <1>4. l \in Nat /\ l > 0 /\ e \in Nat /\ l <= e
    BY <1>1
  <1> HIDE DEF l, e
  <1>5. EndOf(j, x) \in Nat /\ l <= EndOf(j, x) /\ EndOf(j, x) <= e /\ (j = "daily" => EndOf(j, x) = e)
    BY <1>2, <1>3, <1>4
  <1> QED
    BY <1>4, <1>5 DEF l, e

LEMMA ProceedTo ==
    ASSUME Working, NEW j \in Jobs, job[j].at # "idle", Kline!Proceed(j)
    PROVE  job' = [job EXCEPT ![j] = After(j, job[j])]
  <1> DEFINE x == job[j]
             e == EndOf(j, x)
             y == IF e = x.end THEN Kline!Idle ELSE [x EXCEPT !.at = "next", !.lo = e + 1, !.rows = <<>>]
  <1>1. x = [at |-> x.at, end |-> x.end, rows |-> x.rows, lo |-> x.lo]
    BY DEF Working
  <1>2. Kline!ChunkEnd(j) = e
    BY DEF Kline!ChunkEnd, EndOf
  <1>3. job' = [job EXCEPT ![j] = y]
    BY <1>2 DEF Kline!Proceed
  <1> DEFINE d == e + 1
             s == <<>>
  <1> HIDE DEF x, e, d, s
  <1>4. [x EXCEPT !.at = "next", !.lo = d, !.rows = s] = Work("next", x.end, s, d)
    <2>1. Edits(x, "next", s, d)
      BY <1>1, WorkEdits
    <2> QED
      BY <2>1 DEF Edits
  <1>5. y = After(j, x)
    BY <1>4 DEF After, d, e, s
  <1> HIDE DEF y
  <1> QED
    BY <1>3, <1>5 DEF x

LEMMA AfterSound ==
    ASSUME NEW j, NEW x, NEW b, NEW p, NEW g, JobSound(x, b, p, g), x.at # "idle"
    PROVE  JobSound(After(j, x), b, p, g)
  <1> DEFINE e == EndOf(j, x)
             y == Work("next", x.end, <<>>, e + 1)
  <1>1. /\ e \in Nat /\ e <= x.end /\ x.end \in Nat
    BY EndIs
  <1>2. x.end <= Len(p)
    BY DEF JobSound
  <1>3. y.at = "next" /\ y.end = x.end /\ y.lo = e + 1
    BY WorkIs
  <1>4. JobSound(Kline!Idle, b, p, g)
    BY DEF JobSound, Kline!Idle
  <1>5. ASSUME e # x.end PROVE JobSound(y, b, p, g)
    <2>1. e + 1 \in Nat \ {0} /\ e + 1 <= x.end
      BY <1>1, <1>5
    <2> HIDE DEF y, e
    <2> QED
      BY <1>1, <1>2, <1>3, <2>1 DEF JobSound
  <1> QED
    BY <1>4, <1>5 DEF After

\* What a window leaves behind it.
Left(j, x, b, f, p, g) ==
    IF j = "daily" THEN Settled(b, f, g) /\ AllRight(b, DOMAIN b, p, g)
    ELSE /\ 1..EndOf(j, x) \subseteq DOMAIN f /\ AllRight(b, 1..EndOf(j, x), p, g)
         /\ AnchoredTo(EndOf(j, x), x.end, f, g)

\* A pass after a window: what is not settled yet is ahead.
LEMMA AfterPassing ==
    ASSUME NEW j, NEW x, NEW b, NEW f, NEW p, NEW g, x.end \in Nat, EndOf(j, x) \in Nat,
           DOMAIN b \subseteq 1..x.end, DOMAIN f \subseteq DOMAIN b, Whole(f),
           \A d \in 1..x.end : g[d] \in Int, Left(j, x, b, f, p, g)
    PROVE  /\ After(j, x).at = "idle" => Settled(b, f, g) /\ AllRight(b, DOMAIN b, p, g)
           /\ After(j, x).at # "idle" => Passing(j, After(j, x), b, f, p, g)
  <1> DEFINE e == EndOf(j, x)
             y == Work("next", x.end, <<>>, e + 1)
  <1>1. y.at = "next" /\ y.end = x.end /\ y.lo = e + 1
    BY WorkIs
  <1>2. Kline!Idle.at = "idle"
    BY DEF Kline!Idle
  <1>3. CASE e = x.end
    <2>1. After(j, x) = Kline!Idle
      BY <1>3 DEF After
    <2>2. CASE j = "daily"
      BY <1>2, <2>1, <2>2 DEF Left
    <2>3. CASE j # "daily"
      <3> DEFINE n == x.end
                 k == Kline!MaxDay(DOMAIN f)
      <3>1. 1..n \subseteq DOMAIN f /\ AllRight(b, 1..n, p, g) /\ AnchoredTo(n, n, f, g)
        BY <1>3, <2>3 DEF Left
      <3>2. DOMAIN f = 1..n /\ DOMAIN b = 1..n /\ n \in Nat
        BY <3>1
      <3>3. ~EventIn(n + 1, n, g)
        <4>1. (n + 1)..n = {}
          BY <3>2
        <4> QED
          BY <4>1 DEF EventIn
      <3>4. \A d \in 1..n : f[d] - f[k] = g[d] - g[k]
        BY <3>1, <3>3 DEF AnchoredTo, AsFar
      <3>5. \A d \in 1..n : f[d] \in Int /\ g[d] \in Int
        BY <3>2 DEF Whole
      <3>6. 1..n # {} => k \in 1..n
        BY <3>2, LastDay
      <3> HIDE DEF n, k
      <3>7. ASSUME NEW d \in 1..n, NEW c \in 1..n PROVE AsFar(f, g, c, d)
        <4> DEFINE a1 == f[d]
                   a2 == f[c]
                   a3 == f[k]
                   g1 == g[d]
                   g2 == g[c]
                   g3 == g[k]
        <4>1. /\ a1 \in Int /\ a2 \in Int /\ a3 \in Int /\ g1 \in Int /\ g2 \in Int /\ g3 \in Int
              /\ a1 - a3 = g1 - g3 /\ a2 - a3 = g2 - g3
          BY <3>4, <3>5, <3>6
        <4> HIDE DEF a1, a2, a3, g1, g2, g3
        <4>2. a1 - a2 = g1 - g2
          BY <4>1
        <4> QED
          BY <4>2 DEF AsFar, a1, a2, g1, g2
      <3> QED
        BY <1>2, <2>1, <3>1, <3>2, <3>7 DEF Settled, Follows
    <2> QED
      BY <2>2, <2>3
  <1>4. CASE e # x.end
    <2>1. After(j, x) = y /\ j # "daily"
      BY <1>4 DEF After, EndOf
    <2>2. (e + 1) - 1 = e
      OBVIOUS
    <2>3. 1..e \subseteq DOMAIN f /\ AllRight(b, 1..e, p, g) /\ AnchoredTo(e, x.end, f, g)
      BY <2>1 DEF Left
    <2> HIDE DEF y, e
    <2>4. Passing(j, y, b, f, p, g)
      BY <1>1, <2>1, <2>2, <2>3 DEF Passing, Rebuilding
    <2> QED
      BY <1>1, <2>1, <2>4
  <1> QED
    BY <1>3, <1>4

LEMMA SoundAfter ==
    ASSUME Working, TableSound, NEW j \in Jobs, NEW y, job' = [job EXCEPT ![j] = y], price' = price, paid' = paid,
           JobSound(y, bars', price, paid), DOMAIN bars \subseteq DOMAIN bars', Priced(bars', price, paid),
           Plausible(bars', price, paid), Whole(factor'), DOMAIN factor' \subseteq DOMAIN bars'
    PROVE  TableSound'
  <1>1. job'[j] = y /\ \A i \in Jobs : i # j => job'[i] = job[i]
    BY JobTo
  <1>2. \A i \in Jobs : JobSound(job[i], bars', price, paid)
    BY DEF TableSound, JobSound
  <1>3. \A i \in Jobs : JobSound(job'[i], bars', price, paid)
    BY <1>1, <1>2
  <1> QED
    BY <1>3 DEF TableSound

LEMMA CleanAfter ==
    ASSUME Working, NEW j \in Jobs, NEW y, job' = [job EXCEPT ![j] = y], price' = price, paid' = paid,
           \A k \in Jobs : k # j => job[k].at = "idle",
           Interval(DOMAIN bars'),
           y.at = "idle" => Settled(bars', factor', paid) /\ AllRight(bars', DOMAIN bars', price, paid),
           y.at # "idle" => Passing(j, y, bars', factor', price, paid)
    PROVE  Clean'
  <1>1. job'[j] = y /\ \A i \in Jobs : i # j => job'[i] = job[i]
    BY JobTo
  <1>2. \A k \in Jobs : job'[k].at # "idle" => k = j
    BY <1>1
  <1>3. \A i, k \in Jobs : job'[i].at # "idle" /\ job'[k].at # "idle" => i = k
    BY <1>2
  <1>4. (\A k \in Jobs : job'[k].at = "idle") =>
            Settled(bars', factor', paid) /\ AllRight(bars', DOMAIN bars', price, paid)
    BY <1>1
  <1>5. \A k \in Jobs : job'[k].at # "idle" => Passing(k, job'[k], bars', factor', price, paid)
    BY <1>1, <1>2
  <1> QED
    BY <1>3, <1>4, <1>5 DEF Clean

LEMMA InitRest == ASSUME Kline!Init PROVE RestInv
  <1>1. /\ price = <<0>> /\ paid = <<0>> /\ bars = <<>> /\ factor = <<>> /\ job = [j \in Jobs |-> Kline!Idle]
        /\ flawed = FALSE
    BY DEF Kline!Init
  <1>2. StoreInv
    BY InitStore
  <1>3. DOMAIN bars = {} /\ DOMAIN factor = {} /\ \A j \in Jobs : job[j].at = "idle"
    BY <1>1 DEF Kline!Idle
  <1>4. TableSound
    BY <1>3 DEF TableSound, Priced, Plausible, Whole, JobSound
  <1>5. Clean
    BY <1>3 DEF Clean, Interval, AllRight, Settled, Follows
  <1> QED
    BY <1>2, <1>4, <1>5 DEF RestInv

\* A later day leaves what is of the days before it.
LEMMA LaterDay ==
    ASSUME NEW p, NEW g, NEW r, NEW h, NEW n \in Nat, n = Len(p), Len(r) = n + 1,
           \A d \in 1..n : r[d] = p[d] /\ h[d] = g[d], NEW t
    PROVE  /\ Priced(t, p, g) => Priced(t, r, h)
           /\ DOMAIN t \subseteq 1..n /\ Plausible(t, p, g) => Plausible(t, r, h)
           /\ \A S : DOMAIN t \subseteq 1..n /\ AllRight(t, S, p, g) => AllRight(t, S, r, h)
           /\ DOMAIN t \subseteq 1..n /\ Follows(t, g) => Follows(t, h)
           /\ \A lo \in Nat, end \in Nat :
                  lo <= end /\ end <= n /\ DOMAIN t \subseteq 1..n /\ 1..lo \subseteq DOMAIN t /\ AnchoredTo(lo, end, t, g)
                  => AnchoredTo(lo, end, t, h)
  <1>1. ASSUME Priced(t, p, g) PROVE Priced(t, r, h)
    <2>1. DOMAIN t \subseteq 1..n
      BY <1>1 DEF Priced
    <2>2. DOMAIN t \subseteq 1..(n + 1)
      BY <2>1
    <2> QED
      BY <1>1, <2>1, <2>2 DEF Priced
  <1>2. \A d \in 1..n : d # 1 => d - 1 \in 1..n
    OBVIOUS
  <1>3. ASSUME DOMAIN t \subseteq 1..n, Plausible(t, p, g) PROVE Plausible(t, r, h)
    <2> SUFFICES ASSUME NEW d \in DOMAIN t
                 PROVE  /\ d = 1 => t[d].pct = Kline!Null
                        /\ d # 1 => t[d].pct \in {Kline!Null, r[d] - r[d - 1], (r[d] - h[d]) - (r[d - 1] - h[d - 1])}
      BY DEF Plausible
    <2>1. d \in 1..n /\ (d # 1 => d - 1 \in 1..n)
      BY <1>2, <1>3
    <2> QED
      BY <1>3, <2>1 DEF Plausible
  <1>4. ASSUME NEW S, DOMAIN t \subseteq 1..n, AllRight(t, S, p, g) PROVE AllRight(t, S, r, h)
    <2> SUFFICES ASSUME NEW d \in S \cap DOMAIN t, d # 1 PROVE Right(t, r, h, d)
      BY DEF AllRight
    <2>1. d \in 1..n /\ d - 1 \in 1..n
      BY <1>2, <1>4
    <2> QED
      BY <1>4, <2>1 DEF AllRight, Right
  <1>5. ASSUME DOMAIN t \subseteq 1..n, Follows(t, g) PROVE Follows(t, h)
    BY <1>5 DEF Follows, AsFar
  <1>6. ASSUME NEW lo \in Nat, NEW end \in Nat, lo <= end, end <= n, DOMAIN t \subseteq 1..n, 1..lo \subseteq DOMAIN t,
               AnchoredTo(lo, end, t, g)
        PROVE  AnchoredTo(lo, end, t, h)
    <2> DEFINE k == Kline!MaxDay(DOMAIN t)
    <2>1. CASE EventIn(lo + 1, end, g)
      <3>1. PICK d \in (lo + 1)..end : d # 1 /\ g[d] # g[d - 1]
        BY <2>1 DEF EventIn
      <3>2. d \in 1..n /\ d - 1 \in 1..n
        BY <1>6, <3>1
      <3> QED
        BY <3>1, <3>2 DEF AnchoredTo, EventIn
    <2>2. CASE \A d \in 1..lo : AsFar(t, g, k, d)
      <3>1. ASSUME NEW d \in 1..lo PROVE AsFar(t, h, k, d)
        <4>1. d \in DOMAIN t /\ d \in 1..n
          BY <1>6
        <4>2. k \in 1..n
          BY <1>6, <4>1, LastDay
        <4> HIDE DEF k
        <4> QED
          BY <2>2, <4>1, <4>2 DEF AsFar
      <3> QED
        BY <3>1 DEF AnchoredTo
    <2> QED
      BY <1>6, <2>1, <2>2 DEF AnchoredTo
  <1> QED
    BY <1>1, <1>3, <1>4, <1>5, <1>6

LEMMA NewDayRests ==
    ASSUME StoreInv, TableSound, NEW m, NEW e, Kline!NewDay(m, e)
    PROVE  TableSound' /\ (~flawed /\ Clean => Clean')
  <1> DEFINE n == Len(price)
  <1>1. /\ Prices /\ n \in Nat /\ Kline!today = n
        /\ price \in Seq(Int) /\ paid \in Seq(Int) /\ Len(paid) = n
    BY TodayIsLen DEF StoreInv, Prices
  <1>2. /\ price' = Append(price, price[n] + m) /\ paid' = Append(paid, paid[n] + e)
        /\ bars' = bars /\ factor' = factor /\ job' = job /\ flawed' = flawed
    BY <1>1 DEF Kline!NewDay
  <1> DEFINE a == price[n] + m
             c == paid[n] + e
  <1>3. /\ Len(price') = n + 1 /\ \A d \in 1..n : price'[d] = price[d] /\ paid'[d] = paid[d]
    <2>1. price' = Append(price, a) /\ paid' = Append(paid, c)
      BY <1>2
    <2> HIDE DEF a, c
    <2> QED
      BY <1>1, <2>1
  <1> HIDE DEF a, c
  <1>4. \A t : /\ Priced(t, price, paid) => Priced(t, price', paid')
               /\ DOMAIN t \subseteq 1..n /\ Plausible(t, price, paid) => Plausible(t, price', paid')
               /\ \A S : DOMAIN t \subseteq 1..n /\ AllRight(t, S, price, paid) => AllRight(t, S, price', paid')
               /\ DOMAIN t \subseteq 1..n /\ Follows(t, paid) => Follows(t, paid')
               /\ \A lo \in Nat, end \in Nat :
                      lo <= end /\ end <= n /\ DOMAIN t \subseteq 1..n /\ 1..lo \subseteq DOMAIN t
                      /\ AnchoredTo(lo, end, t, paid)
                      => AnchoredTo(lo, end, t, paid')
    BY <1>1, <1>3, LaterDay
  <1>5. /\ Priced(bars, price, paid) /\ Plausible(bars, price, paid) /\ Whole(factor) /\ DOMAIN factor \subseteq 1..n
        /\ DOMAIN bars \subseteq 1..n /\ \A j \in Jobs : JobSound(job[j], bars, price, paid)
    BY DEF TableSound, Priced
  <1>6. ASSUME NEW j \in Jobs PROVE JobSound(job[j], bars, price', paid')
    <2>1. \A k \in Nat : k <= n => k <= Len(price')
      BY <1>1, <1>3
    <2>2. \A t : Priced(t, price, paid) => DOMAIN t \subseteq 1..n
      BY DEF Priced
    <2> QED
      BY <1>4, <1>5, <2>1, <2>2 DEF JobSound
  <1>7. TableSound'
    BY <1>2, <1>4, <1>5, <1>6 DEF TableSound
  <1>8. ASSUME Clean PROVE Clean'
    <2>1. /\ Settled(bars, factor, paid) => Settled(bars, factor, paid')
          /\ \A S : AllRight(bars, S, price, paid) => AllRight(bars, S, price', paid')
      BY <1>4, <1>5 DEF Settled
    <2>2. ASSUME NEW j \in Jobs, job[j].at # "idle" PROVE Passing(j, job[j], bars, factor, price', paid')
      <3> DEFINE x == job[j]
      <3>1. Passing(j, x, bars, factor, price, paid)
        BY <1>8, <2>2 DEF Clean
      <3>2. x.at \in {"fetched", "upserted"} => AllRight(x.rows, DOMAIN x.rows, price', paid')
        <4>1. x.at \in {"fetched", "upserted"} => DOMAIN x.rows \subseteq 1..n
          BY <1>5 DEF JobSound, Priced
        <4> QED
          BY <1>4, <3>1, <4>1 DEF Passing
      <3>3. Follows(factor, paid) => Follows(factor, paid')
        BY <1>4, <1>5
      <3>4. x.lo \in Nat \ {0} /\ x.end \in Nat /\ x.lo <= x.end /\ x.end <= n
        BY <1>5, <2>2 DEF JobSound
      <3> DEFINE l == x.lo - 1
      <3>5. l \in Nat /\ l <= x.end
        BY <3>4
      <3>6. 1..l \subseteq DOMAIN factor /\ AnchoredTo(l, x.end, factor, paid) => AnchoredTo(l, x.end, factor, paid')
        <4> HIDE DEF l
        <4> QED
          BY <1>4, <1>5, <3>4, <3>5
      <3> HIDE DEF x
      <3>7. CASE j = "daily"
        BY <2>1, <3>1, <3>2, <3>3, <3>7 DEF Passing, Evening, x
      <3>8. CASE j # "daily"
        BY <2>1, <3>1, <3>2, <3>6, <3>8 DEF Passing, Rebuilding, x
      <3> QED
        BY <3>7, <3>8
    <2> QED
      BY <1>2, <1>8, <2>1, <2>2 DEF Clean
  <1> QED
    BY <1>7, <1>8

LEMMA BeginRests ==
    ASSUME StoreInv, TableSound, NEW j \in Jobs, Kline!Begin(j)
    PROVE  TableSound' /\ (~flawed' /\ (~flawed => Clean) => Clean')
  <1> DEFINE n == Len(price)
             d == Kline!FirstDay(j)
             y == Work("next", n, <<>>, d)
             c == Kline!Cardinality(DOMAIN bars)
  <1>1. /\ Prices /\ Working /\ n \in Nat \ {0} /\ Kline!today = n
    BY TodayIsLen DEF StoreInv
  <1>2. /\ job' = [job EXCEPT ![j] = y] /\ price' = price /\ paid' = paid /\ bars' = bars /\ factor' = factor
        /\ ~flawed' => /\ \A k \in Jobs : job[k].at = "idle"
                       /\ ~flawed \/ (j # "daily" /\ DOMAIN bars = 1..c)
    BY <1>1 DEF Kline!Begin, Work
  <1>3. d \in Nat \ {0} /\ d <= n /\ (j # "daily" => d = 1)
    <2>1. Lookback \in Nat /\ Lookback # 0
      BY KlineAssumption DEF Kline!Parameters
    <2>2. n - Lookback + 1 \in Int /\ n - Lookback + 1 <= n
      BY <1>1, <2>1
    <2> DEFINE k == n - Lookback + 1
    <2> HIDE DEF k
    <2>3. Kline!MaxDay({1, k}) = IF k >= 1 THEN k ELSE 1
      BY <2>2 DEF Kline!MaxDay, k
    <2>4. Kline!FirstDay(j) = IF j = "daily" THEN Kline!MaxDay({1, k}) ELSE 1
      BY <1>1 DEF Kline!FirstDay, k
    <2> QED
      BY <1>1, <2>2, <2>3, <2>4 DEF k
  <1>4. y.at = "next" /\ y.end = n /\ y.lo = d
    BY WorkIs
  <1>5. /\ Priced(bars, price, paid) /\ Plausible(bars, price, paid) /\ Whole(factor)
        /\ DOMAIN factor \subseteq DOMAIN bars /\ DOMAIN bars \subseteq 1..n
    BY DEF TableSound, Priced
  <1>6. c \in Nat
    <2>1. IsFiniteSet(1..n) /\ DOMAIN bars \subseteq 1..n
      BY <1>1, <1>5, FS_Interval
    <2>2. Cardinality(DOMAIN bars) \in Nat
      BY <2>1, FS_Subset, FS_CardinalityType
    <2>3. c = Cardinality(DOMAIN bars)
      BY DEF Kline!Cardinality, Cardinality
    <2> QED
      BY <2>2, <2>3
  <1> HIDE DEF d, y, c
  <1>7. JobSound(y, bars, price, paid)
    BY <1>1, <1>3, <1>4 DEF JobSound
  <1>8. TableSound'
    BY <1>1, <1>2, <1>5, <1>7, SoundAfter
  <1>9. ASSUME ~flawed', ~flawed => Clean PROVE Clean'
    <2>1. \A k \in Jobs : job[k].at = "idle"
      BY <1>2, <1>9
    <2>2. ~flawed => Interval(DOMAIN bars) /\ AllRight(bars, DOMAIN bars, price, paid) /\ Settled(bars, factor, paid)
      BY <1>9, <2>1 DEF Clean
    <2>3. Interval(DOMAIN bars)
      <3>1. Interval(1..c)
        BY <1>6 DEF Interval
      <3> QED
        BY <1>2, <1>9, <2>2, <3>1
    <2>4. Passing(j, y, bars, factor, price, paid)
      <3>1. CASE j = "daily"
        <4>1. Evening(y, bars, factor, price, paid)
          BY <1>2, <1>4, <1>9, <2>2, <3>1 DEF Evening, Settled
        <4> QED
          BY <1>4, <1>5, <3>1, <4>1 DEF Passing
      <3>2. CASE j # "daily"
        <4>1. 1..(y.lo - 1) = {} /\ 1..0 = {} /\ y.lo - 1 = 0
          BY <1>3, <1>4, <3>2
        <4>2. Rebuilding(y, EndOf(j, y), bars, factor, price, paid)
          BY <1>4, <4>1 DEF Rebuilding, AllRight, AnchoredTo
        <4> QED
          BY <1>4, <1>5, <3>2, <4>2 DEF Passing
      <3> QED
        BY <3>1, <3>2
    <2> QED
      BY <1>1, <1>2, <1>4, <2>1, <2>3, <2>4, CleanAfter
  <1> QED
    BY <1>8, <1>9

\* The only job at work, and that it is at work.
LEMMA AloneIs ==
    ASSUME Clean, NEW j \in Jobs, job[j].at # "idle"
    PROVE  /\ \A k \in Jobs : k # j => job[k].at = "idle"
           /\ Interval(DOMAIN bars) /\ Passing(j, job[j], bars, factor, price, paid)
  BY DEF Clean

LEMMA FetchRests ==
    ASSUME StoreInv, TableSound, NEW j \in Jobs, NEW s \in Sources, NEW q \in Sources, Kline!Fetch(j, s, q)
    PROVE  TableSound' /\ (~flawed' /\ (~flawed => Clean) => Clean')
  <1> DEFINE n == Len(price)
             x == job[j]
             lo == x.lo
             hi == EndOf(j, x)
             new == Kline!TrueRows(lo, hi, s, q)
             all == DOMAIN new \cup DOMAIN bars
             y == Work("fetched", x.end, new, lo)
  <1>1. Prices /\ Working /\ n \in Nat
    BY TodayIsLen DEF StoreInv
  <1>2. /\ Kline!ChunkEnd(j) = hi
    BY DEF Kline!ChunkEnd, EndOf
  <1>3. /\ x.at = "next" /\ price' = price /\ paid' = paid /\ bars' = bars /\ factor' = factor
        /\ ~flawed' => /\ ~flawed
                       /\ DOMAIN new = {} => j = "daily"
                       /\ DOMAIN new # {} => all = Kline!MinDay(all)..Kline!MaxDay(all)
                       /\ \A d \in DOMAIN new \ {1} : paid[d] # paid[d - 1] => new[d].pct = Kline!TruePct(d)
        /\ DOMAIN new = {} => Kline!Proceed(j)
        /\ DOMAIN new # {} => job' = [job EXCEPT ![j] = [@ EXCEPT !.at = "fetched", !.rows = new]]
    BY <1>2 DEF Kline!Fetch
  <1>4. JobSound(x, bars, price, paid) /\ x = [at |-> x.at, end |-> x.end, rows |-> x.rows, lo |-> x.lo]
    BY <1>1, <1>3 DEF TableSound, Working
  <1>5. /\ hi \in Nat /\ lo <= hi /\ hi <= x.end /\ lo \in Nat \ {0} /\ x.end \in Nat /\ x.end <= n
        /\ j = "daily" => hi = x.end
    <2>1. x.at # "idle"
      BY <1>3
    <2> HIDE DEF x
    <2>2. x.end <= n
      BY <1>4, <2>1 DEF JobSound
    <2> QED
      BY <1>4, <2>1, <2>2, EndIs
  <1>6. hi <= n
    BY <1>1, <1>5
  <1>7. DOMAIN new \in {{}, lo..hi} /\ Priced(new, price, paid) /\ Plausible(new, price, paid)
    <2> HIDE DEF lo, hi
    <2> QED
      BY <1>1, <1>5, <1>6, FetchTrue
  <1>8. /\ Priced(bars, price, paid) /\ Plausible(bars, price, paid) /\ Whole(factor)
        /\ DOMAIN factor \subseteq DOMAIN bars /\ DOMAIN bars \subseteq 1..n
    BY DEF TableSound, Priced
  <1>9. ~flawed' => AllRight(new, DOMAIN new, price, paid)
    <2> SUFFICES ASSUME ~flawed', NEW d \in DOMAIN new, d # 1 PROVE Right(new, price, paid, d)
      BY DEF AllRight
    <2> HIDE DEF new
    <2>1. CASE paid[d] = paid[d - 1]
      BY <1>1, <1>7, <2>1, PlausibleIsRight
    <2>2. CASE paid[d] # paid[d - 1]
      BY <1>3, <2>2 DEF Kline!TruePct, Right
    <2> QED
      BY <2>1, <2>2
  <1> HIDE DEF new, hi
  <1>10. DOMAIN new # {} => job' = [job EXCEPT ![j] = y]
    <2> DEFINE z == [x EXCEPT !.at = "fetched", !.rows = new]
    <2>1. DOMAIN new # {} => job' = [job EXCEPT ![j] = z]
      BY <1>3
    <2> HIDE DEF x
    <2>2. Edits(x, "fetched", new, 0)
      BY <1>4, WorkEdits
    <2>3. z = y
      BY <2>2 DEF Edits
    <2> HIDE DEF y, z
    <2> QED
      BY <2>1, <2>3
  <1>11. y.at = "fetched" /\ y.end = x.end /\ y.rows = new /\ y.lo = lo
    BY WorkIs
  <1> HIDE DEF x, y, lo
  <1>12. x = job[j]
    BY DEF x
  <1>13. CASE DOMAIN new = {}
    <2>1. job' = [job EXCEPT ![j] = After(j, x)]
      BY <1>1, <1>3, <1>12, <1>13, ProceedTo
    <2>2. JobSound(After(j, x), bars, price, paid)
      BY <1>3, <1>4, AfterSound
    <2>3. TableSound'
      BY <1>1, <1>3, <1>8, <2>1, <2>2, SoundAfter
    <2>4. ASSUME ~flawed', Clean PROVE Clean'
      <3>1. /\ \A k \in Jobs : k # j => job[k].at = "idle"
            /\ Interval(DOMAIN bars) /\ Passing(j, x, bars, factor, price, paid)
        BY <1>3, <1>12, <2>4, AloneIs
      <3>2. j = "daily"
        BY <1>3, <1>13, <2>4
      <3>3. DOMAIN bars \subseteq 1..x.end /\ Left(j, x, bars, factor, price, paid)
        BY <1>3, <3>1, <3>2 DEF Passing, Evening, Left, Settled
      <3>4. \A d \in 1..x.end : paid[d] \in Int
        BY <1>1, <1>5, PriceValues
      <3>5. EndOf(j, x) \in Nat
        BY <1>5 DEF hi
      <3>6. /\ After(j, x).at = "idle" => Settled(bars, factor, paid) /\ AllRight(bars, DOMAIN bars, price, paid)
            /\ After(j, x).at # "idle" => Passing(j, After(j, x), bars, factor, price, paid)
        BY <1>5, <1>8, <3>3, <3>4, <3>5, AfterPassing
      <3> QED
        BY <1>1, <1>3, <2>1, <3>1, <3>6, CleanAfter
    <2> QED
      BY <1>3, <2>3, <2>4
  <1>14. CASE DOMAIN new # {}
    <2>1. job' = [job EXCEPT ![j] = y] /\ DOMAIN new = lo..hi
      BY <1>7, <1>10, <1>14
    <2>2. JobSound(y, bars, price, paid)
      <3>1. lo <= x.end
        BY <1>5
      <3> QED
        BY <1>5, <1>7, <1>11, <1>14, <3>1 DEF JobSound
    <2>3. TableSound'
      BY <1>1, <1>3, <1>8, <2>1, <2>2, SoundAfter
    <2>4. ASSUME ~flawed', Clean PROVE Clean'
      <3>1. /\ \A k \in Jobs : k # j => job[k].at = "idle"
            /\ Interval(DOMAIN bars) /\ Passing(j, x, bars, factor, price, paid)
        BY <1>3, <1>12, <2>4, AloneIs
      <3>2. Interval(all)
        <4>1. all \in SUBSET (1..n) /\ all # {}
          BY <1>7, <1>8, <1>14 DEF Priced
        <4> DEFINE a == Kline!MinDay(all)
                   b == Kline!MaxDay(all)
        <4>2. a \in all /\ b \in all /\ all = a..b
          BY <1>1, <1>3, <1>14, <2>4, <4>1, LastDay, FirstOfDays
        <4> HIDE DEF a, b, all
        <4>3. a \in Int /\ b \in Int
          BY <1>1, <4>1, <4>2
        <4> QED
          BY <4>2, <4>3 DEF Interval
      <3>3. AllRight(new, DOMAIN new, price, paid)
        BY <1>9, <2>4
      <3>4. EndOf(j, y) = hi /\ y.lo = x.lo
        BY <1>11 DEF EndOf, hi, lo
      <3>5. ASSUME j = "daily" PROVE Passing(j, y, bars, factor, price, paid)
        <4>1. Evening(y, bars, factor, price, paid)
          BY <1>3, <1>11, <3>1, <3>5 DEF Passing, Evening
        <4> QED
          BY <1>11, <2>1, <3>1, <3>2, <3>3, <3>4, <3>5, <4>1 DEF Passing
      <3>6. ASSUME j # "daily" PROVE Passing(j, y, bars, factor, price, paid)
        <4>1. Rebuilding(y, hi, bars, factor, price, paid)
          BY <1>3, <1>11, <3>1, <3>4, <3>6 DEF Passing, Rebuilding
        <4> QED
          BY <1>11, <2>1, <3>1, <3>2, <3>3, <3>4, <3>6, <4>1 DEF Passing
      <3> QED
        BY <1>1, <1>3, <1>11, <2>1, <3>1, <3>5, <3>6, CleanAfter
    <2> QED
      BY <1>3, <2>3, <2>4
  <1> QED
    BY <1>13, <1>14

LEMMA UpsertRests ==
    ASSUME StoreInv, TableSound, NEW j \in Jobs, Kline!Upsert(j)
    PROVE  TableSound' /\ (~flawed /\ Clean => Clean')
  <1> DEFINE n == Len(price)
             x == job[j]
             new == x.rows
             y == Work("upserted", x.end, new, x.lo)
  <1>1. /\ Prices /\ Working /\ n \in Nat
        /\ x.at = "fetched" /\ price' = price /\ paid' = paid /\ factor' = factor
        /\ bars' = Kline!Overwrite(new, bars) /\ job' = [job EXCEPT ![j].at = "upserted"]
    BY TodayIsLen DEF StoreInv, Kline!Upsert
  <1>2. /\ JobSound(x, bars, price, paid) /\ x = [at |-> x.at, end |-> x.end, rows |-> x.rows, lo |-> x.lo]
        /\ Priced(bars, price, paid) /\ Plausible(bars, price, paid) /\ Whole(factor) /\ DOMAIN factor \subseteq DOMAIN bars
    BY <1>1 DEF TableSound, Working
  <1>3. Upserted(bars', new, bars)
    BY <1>1, OverwriteIs
  <1>4. job' = [job EXCEPT ![j] = y]
    <2> DEFINE z == [x EXCEPT !.at = "upserted"]
    <2>1. job' = [job EXCEPT ![j] = z]
      BY <1>1
    <2> HIDE DEF x
    <2>2. Edits(x, "upserted", 0, 0)
      BY <1>2, WorkEdits
    <2>3. z = y
      BY <2>2 DEF Edits
    <2> HIDE DEF y, z
    <2> QED
      BY <2>1, <2>3
  <1>5. y.at = "upserted" /\ y.end = x.end /\ y.rows = new /\ y.lo = x.lo
    BY WorkIs
  <1>6. /\ Priced(new, price, paid) /\ Plausible(new, price, paid) /\ DOMAIN new # {}
        /\ x.lo \in Nat \ {0} /\ x.end \in Nat /\ x.lo <= x.end /\ x.end <= n
    BY <1>1, <1>2 DEF JobSound
  <1> HIDE DEF x, y, new
  <1>7. /\ Priced(bars', price, paid) /\ Plausible(bars', price, paid)
        /\ DOMAIN bars \subseteq DOMAIN bars' /\ DOMAIN new \subseteq DOMAIN bars'
    BY <1>2, <1>3, <1>6 DEF Priced, Plausible, Upserted
  <1>8. JobSound(y, bars', price, paid)
    BY <1>5, <1>6, <1>7 DEF JobSound
  <1>9. TableSound'
    BY <1>1, <1>2, <1>4, <1>7, <1>8, SoundAfter
  <1>10. ASSUME Clean PROVE Clean'
    <2>1. /\ \A k \in Jobs : k # j => job[k].at = "idle"
          /\ Passing(j, x, bars, factor, price, paid)
      BY <1>1, <1>10, AloneIs DEF x
    <2> DEFINE hi == EndOf(j, x)
    <2>2. /\ DOMAIN bars \subseteq 1..x.end /\ DOMAIN new = x.lo..hi /\ AllRight(new, DOMAIN new, price, paid)
          /\ Interval(DOMAIN new \cup DOMAIN bars)
      BY <1>1, <2>1 DEF Passing, new
    <2>3. DOMAIN bars' = DOMAIN new \cup DOMAIN bars /\ Interval(DOMAIN bars')
      BY <1>3, <2>2 DEF Upserted
    <2>4. EndOf(j, y) = hi
      BY <1>5 DEF EndOf
    <2>5. hi \in Nat /\ hi <= x.end /\ (j = "daily" => hi = x.end) /\ DOMAIN new \subseteq 1..x.end
      <3>1. EndOf(j, x) \in Nat /\ EndOf(j, x) <= x.end /\ (j = "daily" => EndOf(j, x) = x.end)
        BY <1>1, <1>2, EndIs DEF x
      <3> QED
        BY <1>6, <2>2, <3>1
    <2> HIDE DEF hi
    <2>6. \A d \in DOMAIN bars' : d # 1 /\ d \in DOMAIN new => Right(bars', price, paid, d)
      BY <1>3, <2>2 DEF AllRight, Upserted, Right
    <2>7. ASSUME NEW S, AllRight(bars, S, price, paid) PROVE AllRight(bars', S \cup DOMAIN new, price, paid)
      BY <1>3, <2>6, <2>7 DEF AllRight, Upserted, Right
    <2>8. Interval(DOMAIN new \cup DOMAIN bars')
      <3>1. DOMAIN new \cup DOMAIN bars' = DOMAIN bars'
        BY <2>3
      <3> QED
        BY <2>3, <3>1
    <2>9. ASSUME j = "daily" PROVE Passing(j, y, bars', factor', price, paid)
      <3>1. AllRight(bars, DOMAIN bars, price, paid) /\ DOMAIN factor = DOMAIN bars /\ Follows(factor, paid)
        BY <1>1, <2>1, <2>9 DEF Passing, Evening
      <3>2. AllRight(bars', DOMAIN bars', price, paid)
        <4>1. DOMAIN bars \cup DOMAIN new = DOMAIN bars'
          BY <2>3
        <4> QED
          BY <2>7, <3>1, <4>1
      <3>3. Evening(y, bars', factor', price, paid)
        BY <1>1, <1>5, <2>2, <2>3, <2>5, <2>9, <3>1, <3>2 DEF Evening
      <3> QED
        BY <1>5, <2>2, <2>3, <2>4, <2>5, <2>8, <2>9, <3>3 DEF Passing
    <2>10. ASSUME j # "daily" PROVE Passing(j, y, bars', factor', price, paid)
      <3>1. /\ 1..(x.lo - 1) \subseteq DOMAIN factor /\ AllRight(bars, 1..(x.lo - 1), price, paid)
            /\ AnchoredTo(x.lo - 1, x.end, factor, paid)
        BY <1>1, <2>1, <2>10 DEF Passing, Rebuilding
      <3>2. AllRight(bars', (1..(x.lo - 1)) \cup DOMAIN new, price, paid)
        BY <2>7, <3>1
      <3>3. 1..hi \subseteq (1..(x.lo - 1)) \cup DOMAIN new
        BY <1>6, <2>2, <2>5
      <3>4. AllRight(bars', 1..hi, price, paid) /\ AllRight(bars', 1..(x.lo - 1), price, paid)
        BY <3>2, <3>3 DEF AllRight
      <3>5. Rebuilding(y, hi, bars', factor', price, paid)
        BY <1>1, <1>5, <3>1, <3>4 DEF Rebuilding
      <3> QED
        BY <1>5, <2>2, <2>3, <2>4, <2>5, <2>8, <2>10, <3>5 DEF Passing
    <2>11. Passing(j, y, bars', factor', price, paid)
      BY <2>9, <2>10
    <2> QED
      BY <1>1, <1>4, <1>5, <2>1, <2>3, <2>11, CleanAfter
  <1> QED
    BY <1>9, <1>10

\* The chain after a window: of all bars on a store without one, else of the new rows.
LEMMA MaintainRests ==
    ASSUME StoreInv, TableSound, NEW j \in Jobs, Kline!Maintain(j)
    PROVE  TableSound' /\ (~flawed /\ Clean => Clean')
  <1> DEFINE n == Len(price)
             x == job[j]
             new == x.rows
             hi == EndOf(j, x)
             fresh == DOMAIN factor = {}
             seen == IF fresh THEN new ELSE Kline!Seeded(new)
             whole == Kline!Overwrite(Kline!FactorChain(bars), factor)
             y == Work("event", x.end, new, x.lo)
  <1>1. /\ Prices /\ Working /\ n \in Nat
        /\ x.at = "upserted" /\ price' = price /\ paid' = paid /\ bars' = bars
        /\ factor' = IF fresh THEN whole ELSE Kline!Extended(new)
        /\ Kline!FactorEvents(seen) = {} => Kline!Proceed(j)
        /\ Kline!FactorEvents(seen) # {} => job' = [job EXCEPT ![j].at = "event"]
    BY TodayIsLen DEF StoreInv, Kline!Maintain
  <1>2. /\ JobSound(x, bars, price, paid) /\ x = [at |-> x.at, end |-> x.end, rows |-> x.rows, lo |-> x.lo]
        /\ Priced(bars, price, paid) /\ Plausible(bars, price, paid) /\ Whole(factor)
        /\ DOMAIN factor \subseteq DOMAIN bars /\ DOMAIN bars \subseteq 1..n
    BY <1>1 DEF TableSound, Working, Priced
  <1>3. Priced(new, price, paid) /\ DOMAIN new # {} /\ DOMAIN new \subseteq DOMAIN bars
    BY <1>1, <1>2 DEF JobSound
  <1>4. /\ Whole(whole) /\ DOMAIN whole = DOMAIN bars
        /\ Interval(DOMAIN bars) /\ AllRight(bars, DOMAIN bars, price, paid) => Follows(whole, paid)
    BY <1>1, ChainOfAll
  <1>5. ~fresh => Whole(Kline!Extended(new)) /\ DOMAIN Kline!Extended(new) = DOMAIN new \cup DOMAIN factor
    BY <1>1, <1>3, ExtendedNumbers
  <1>6. y.at = "event" /\ y.end = x.end /\ y.rows = new /\ y.lo = x.lo
    BY WorkIs
  <1>7. Kline!FactorEvents(seen) # {} => job' = [job EXCEPT ![j] = y]
    <2> DEFINE z == [x EXCEPT !.at = "event"]
    <2>1. Kline!FactorEvents(seen) # {} => job' = [job EXCEPT ![j] = z]
      BY <1>1
    <2> HIDE DEF x, seen
    <2>2. Edits(x, "event", 0, 0)
      BY <1>2, WorkEdits
    <2>3. z = y
      BY <2>2 DEF Edits
    <2> HIDE DEF y, z
    <2> QED
      BY <2>1, <2>3
  <1> HIDE DEF y
  <1>8. JobSound(y, bars, price, paid)
    BY <1>1, <1>2, <1>6 DEF JobSound
  <1>9. Kline!FactorEvents(seen) = {} => job' = [job EXCEPT ![j] = After(j, x)] /\ JobSound(After(j, x), bars, price, paid)
    <2>1. x.at # "idle"
      BY <1>1
    <2>2. JobSound(After(j, x), bars, price, paid)
      BY <1>2, <2>1, AfterSound
    <2>3. Kline!FactorEvents(seen) = {} => job' = [job EXCEPT ![j] = After(j, x)]
      BY <1>1, <2>1, ProceedTo
    <2> QED
      BY <2>2, <2>3
  <1>10. /\ x.lo \in Nat \ {0} /\ x.end \in Nat /\ x.lo <= hi /\ hi \in Nat /\ hi <= x.end /\ x.end <= n
         /\ j = "daily" => hi = x.end
    <2>1. x.at # "idle"
      BY <1>1
    <2>2. x.lo \in Nat \ {0} /\ x.end <= n
      BY <1>2, <2>1 DEF JobSound
    <2> QED
      BY <1>2, <2>1, <2>2, EndIs
  <1> HIDE DEF whole, new, seen, hi, x
  <1>11. Whole(factor') /\ DOMAIN factor' \subseteq DOMAIN bars
    BY <1>1, <1>2, <1>3, <1>4, <1>5
  <1>12. TableSound'
    <2>1. CASE Kline!FactorEvents(seen) = {}
      BY <1>1, <1>2, <1>9, <1>11, <2>1, SoundAfter
    <2>2. CASE Kline!FactorEvents(seen) # {}
      BY <1>1, <1>2, <1>7, <1>8, <1>11, <2>2, SoundAfter
    <2> QED
      BY <2>1, <2>2
  <1>13. ASSUME Clean PROVE Clean'
    <2>1. /\ \A k \in Jobs : k # j => job[k].at = "idle"
          /\ Interval(DOMAIN bars) /\ Passing(j, x, bars, factor, price, paid)
      BY <1>1, <1>13, AloneIs DEF x
    <2>2. /\ DOMAIN bars \subseteq 1..x.end /\ DOMAIN new = x.lo..hi /\ AllRight(new, DOMAIN new, price, paid)
      BY <1>1, <2>1 DEF Passing, new, hi
    <2>3. EndOf(j, y) = hi
      BY <1>6 DEF EndOf, hi
    <2>4. DOMAIN factor' = IF fresh THEN DOMAIN bars ELSE DOMAIN new \cup DOMAIN factor
      BY <1>1, <1>4, <1>5
    <2>5. Kline!FactorEvents(seen) = {} /\ ~fresh =>
              Kline!FactorEvents(Kline!Seeded(new)) = {} /\ factor' = Kline!Extended(new)
      BY <1>1 DEF seen
    <2>6. ASSUME j = "daily"
          PROVE  /\ Kline!FactorEvents(seen) = {} => Left(j, x, bars, factor', price, paid)
                 /\ Passing(j, y, bars, factor', price, paid)
      <3>1. /\ AllRight(bars, DOMAIN bars, price, paid) /\ DOMAIN bars = DOMAIN factor \cup (x.lo..hi)
            /\ Follows(factor, paid)
        BY <1>1, <1>10, <2>1, <2>6 DEF Passing, Evening
      <3>2. DOMAIN factor' = DOMAIN bars
        BY <2>2, <2>4, <3>1
      <3>3. ASSUME Kline!FactorEvents(seen) = {} PROVE Follows(factor', paid)
        <4>1. CASE fresh
          BY <1>1, <1>4, <2>1, <3>1, <4>1
        <4>2. CASE ~fresh
          <5>1. DOMAIN bars \subseteq 1..hi /\ hi <= Len(price)
            BY <1>10, <2>2, <2>6
          <5>2. Follows(Kline!Extended(new), paid)
            BY <1>1, <1>3, <1>10, <2>1, <2>2, <2>5, <3>1, <3>3, <4>2, <5>1, LevelEvening
          <5> QED
            BY <2>5, <3>3, <4>2, <5>2
        <4> QED
          BY <4>1, <4>2
      <3>4. Evening(y, bars, factor', price, paid)
        BY <1>6, <3>1, <3>2 DEF Evening
      <3> QED
        BY <1>6, <2>2, <2>6, <3>1, <3>2, <3>3, <3>4 DEF Left, Settled, Passing
    <2>7. ASSUME j # "daily"
          PROVE  /\ Kline!FactorEvents(seen) = {} => Left(j, x, bars, factor', price, paid)
                 /\ Passing(j, y, bars, factor', price, paid)
      <3>1. /\ 1..(x.lo - 1) \subseteq DOMAIN factor /\ AllRight(bars, 1..(x.lo - 1), price, paid)
            /\ AllRight(bars, 1..hi, price, paid) /\ AnchoredTo(x.lo - 1, x.end, factor, paid)
        BY <1>1, <2>1, <2>7 DEF Passing, Rebuilding, hi
      <3>2. 1..hi \subseteq DOMAIN bars /\ 1..hi \subseteq DOMAIN factor'
        <4>1. 1..hi \subseteq DOMAIN factor \cup DOMAIN new
          BY <1>10, <2>2, <3>1
        <4> QED
          BY <1>2, <1>3, <2>4, <4>1
      <3>3. ASSUME Kline!FactorEvents(seen) = {} PROVE AnchoredTo(hi, x.end, factor', paid)
        <4>1. CASE fresh
          <5>1. DOMAIN bars # {} /\ factor' = whole
            BY <1>1, <1>3, <4>1
          <5>2. AnchoredTo(hi, x.end, Kline!Overwrite(Kline!FactorChain(bars), factor), paid)
            BY <1>1, <1>10, <2>1, <2>2, <3>1, <3>2, <5>1, ChainAnchors
          <5> QED
            BY <5>1, <5>2 DEF whole
        <4>2. CASE ~fresh
          <5>1. x.lo..hi \subseteq DOMAIN bars /\ x.end <= Len(price)
            BY <1>3, <1>10, <2>2
          <5>2. AnchoredTo(hi, x.end, Kline!Extended(new), paid)
            BY <1>1, <1>3, <1>10, <2>1, <2>2, <2>5, <3>1, <3>3, <4>2, <5>1, LevelChunk
          <5> QED
            BY <2>5, <3>3, <4>2, <5>2
        <4> QED
          BY <4>1, <4>2
      <3>4. 1..(x.lo - 1) \subseteq DOMAIN factor' /\ x.lo..hi \subseteq DOMAIN factor'
        BY <1>10, <3>2
      <3>5. Rebuilding(y, hi, bars, factor', price, paid)
        BY <1>6, <3>1, <3>4 DEF Rebuilding
      <3> QED
        BY <1>6, <2>2, <2>3, <2>7, <3>1, <3>2, <3>3, <3>5 DEF Left, Passing, hi
    <2>8. \A d \in 1..x.end : paid[d] \in Int
      BY <1>1, <1>10, PriceValues
    <2>9. CASE Kline!FactorEvents(seen) = {}
      <3>1. Left(j, x, bars, factor', price, paid)
        BY <2>6, <2>7, <2>9
      <3>2. EndOf(j, x) \in Nat
        BY <1>10 DEF hi
      <3>3. /\ After(j, x).at = "idle" => Settled(bars, factor', paid) /\ AllRight(bars, DOMAIN bars, price, paid)
            /\ After(j, x).at # "idle" => Passing(j, After(j, x), bars, factor', price, paid)
        BY <1>10, <1>11, <2>2, <2>8, <3>1, <3>2, AfterPassing
      <3> QED
        BY <1>1, <1>9, <2>1, <2>9, <3>3, CleanAfter
    <2>10. CASE Kline!FactorEvents(seen) # {}
      <3>1. Passing(j, y, bars, factor', price, paid)
        BY <2>6, <2>7
      <3> QED
        BY <1>1, <1>6, <1>7, <2>1, <2>10, <3>1, CleanAfter
    <2> QED
      BY <2>9, <2>10
  <1> QED
    BY <1>12, <1>13

\* After an event the chain is that of all stored bars.
LEMMA ReAnchorRests ==
    ASSUME StoreInv, TableSound, NEW j \in Jobs, Kline!ReAnchor(j)
    PROVE  TableSound' /\ (~flawed /\ Clean => Clean')
  <1> DEFINE n == Len(price)
             x == job[j]
             hi == EndOf(j, x)
             whole == Kline!Overwrite(Kline!FactorChain(bars), factor)
  <1>1. /\ Prices /\ Working /\ n \in Nat
        /\ x.at = "event" /\ price' = price /\ paid' = paid /\ bars' = bars /\ factor' = whole /\ Kline!Proceed(j)
    BY TodayIsLen DEF StoreInv, Kline!ReAnchor
  <1>2. /\ JobSound(x, bars, price, paid) /\ Priced(bars, price, paid) /\ Plausible(bars, price, paid)
        /\ DOMAIN factor \subseteq DOMAIN bars /\ DOMAIN bars \subseteq 1..n
    BY <1>1 DEF TableSound, Priced
  <1>3. /\ Whole(whole) /\ DOMAIN whole = DOMAIN bars
        /\ Interval(DOMAIN bars) /\ AllRight(bars, DOMAIN bars, price, paid) => Follows(whole, paid)
    BY <1>1, ChainOfAll
  <1>4. x.at # "idle" /\ job' = [job EXCEPT ![j] = After(j, x)]
    BY <1>1, ProceedTo
  <1>5. JobSound(After(j, x), bars, price, paid)
    BY <1>2, <1>4, AfterSound
  <1>6. x.lo \in Nat \ {0} /\ x.end \in Nat /\ x.lo <= hi /\ hi \in Nat /\ x.end <= n
    <2>1. x.lo \in Nat \ {0} /\ x.end <= n
      BY <1>2, <1>4 DEF JobSound
    <2> QED
      BY <1>2, <1>4, <2>1, EndIs
  <1> HIDE DEF whole, x, hi
  <1>7. TableSound'
    BY <1>1, <1>2, <1>3, <1>4, <1>5, SoundAfter
  <1>8. ASSUME Clean PROVE Clean'
    <2>1. /\ \A k \in Jobs : k # j => job[k].at = "idle"
          /\ Interval(DOMAIN bars) /\ Passing(j, x, bars, factor, price, paid)
      BY <1>4, <1>8, AloneIs DEF x
    <2>2. DOMAIN bars \subseteq 1..x.end
      BY <2>1 DEF Passing
    <2>3. Left(j, x, bars, factor', price, paid)
      <3>1. CASE j = "daily"
        <4>1. AllRight(bars, DOMAIN bars, price, paid)
          BY <2>1, <3>1 DEF Passing, Evening
        <4> QED
          BY <1>1, <1>3, <2>1, <3>1, <4>1 DEF Left, Settled
      <3>2. CASE j # "daily"
        <4>1. /\ 1..(x.lo - 1) \subseteq DOMAIN factor /\ x.lo..hi \subseteq DOMAIN factor
              /\ AllRight(bars, 1..hi, price, paid)
          BY <1>1, <2>1, <3>2 DEF Passing, Rebuilding, hi
        <4>2. 1..hi \subseteq DOMAIN bars /\ DOMAIN bars # {}
          <5>1. 1..hi \subseteq DOMAIN factor /\ hi \in 1..hi
            BY <1>6, <4>1
          <5> QED
            BY <1>2, <5>1
        <4>3. AnchoredTo(hi, x.end, Kline!Overwrite(Kline!FactorChain(bars), factor), paid)
          BY <1>1, <1>6, <2>1, <2>2, <4>1, <4>2, ChainAnchors
        <4> QED
          BY <1>1, <1>3, <3>2, <4>1, <4>2, <4>3 DEF Left, hi, whole
      <3> QED
        BY <3>1, <3>2
    <2>4. \A d \in 1..x.end : paid[d] \in Int
      BY <1>1, <1>6, PriceValues
    <2>5. EndOf(j, x) \in Nat
      BY <1>6 DEF hi
    <2>6. /\ After(j, x).at = "idle" => Settled(bars, factor', paid) /\ AllRight(bars, DOMAIN bars, price, paid)
          /\ After(j, x).at # "idle" => Passing(j, After(j, x), bars, factor', price, paid)
      BY <1>1, <1>3, <1>6, <2>2, <2>3, <2>4, <2>5, AfterPassing
    <2> QED
      BY <1>1, <1>4, <2>1, <2>6, CleanAfter
  <1> QED
    BY <1>7, <1>8

LEMMA CutOffRests == ASSUME StoreInv, TableSound, NEW j \in Jobs, Kline!CutOff(j) PROVE TableSound' /\ flawed'
  <1>1. /\ Working /\ job' = [job EXCEPT ![j] = Kline!Idle] /\ flawed' = TRUE
        /\ price' = price /\ paid' = paid /\ bars' = bars /\ factor' = factor
    BY DEF StoreInv, Kline!CutOff
  <1>2. JobSound(Kline!Idle, bars, price, paid)
    BY DEF JobSound, Kline!Idle
  <1>3. /\ Priced(bars', price, paid) /\ Plausible(bars', price, paid)
        /\ Whole(factor') /\ DOMAIN factor' \subseteq DOMAIN bars'
    BY <1>1 DEF TableSound
  <1> QED
    BY <1>1, <1>2, <1>3, SoundAfter

LEMMA RestStep == ASSUME RestInv, [Kline!Next]_(Kline!vars) PROVE RestInv'
  <1>1. StoreInv /\ TableSound /\ (~flawed => Clean)
    BY DEF RestInv
  <1>2. StoreInv'
    BY <1>1, StoreStep
  <1> SUFFICES TableSound' /\ (~flawed' => Clean')
    BY <1>2 DEF RestInv
  <1>3. ASSUME NEW m \in Moves, NEW e \in {0, 1}, Kline!NewDay(m, e) PROVE TableSound' /\ (~flawed' => Clean')
    <2>1. flawed' = flawed
      BY <1>3 DEF Kline!NewDay
    <2> QED
      BY <1>1, <1>3, <2>1, NewDayRests
  <1>4. ASSUME NEW j \in Jobs, NEW s \in Sources, NEW q \in Sources, Kline!Fetch(j, s, q)
        PROVE  TableSound' /\ (~flawed' => Clean')
    BY <1>1, <1>4, FetchRests
  <1>5. ASSUME NEW j \in Jobs, Kline!Begin(j) PROVE TableSound' /\ (~flawed' => Clean')
    BY <1>1, <1>5, BeginRests
  <1>6. ASSUME NEW j \in Jobs, Kline!Upsert(j) PROVE TableSound' /\ (~flawed' => Clean')
    <2>1. flawed' = flawed
      BY <1>6 DEF Kline!Upsert
    <2> QED
      BY <1>1, <1>6, <2>1, UpsertRests
  <1>7. ASSUME NEW j \in Jobs, Kline!Maintain(j) PROVE TableSound' /\ (~flawed' => Clean')
    <2>1. flawed' = flawed
      BY <1>7 DEF Kline!Maintain
    <2> QED
      BY <1>1, <1>7, <2>1, MaintainRests
  <1>8. ASSUME NEW j \in Jobs, Kline!ReAnchor(j) PROVE TableSound' /\ (~flawed' => Clean')
    <2>1. flawed' = flawed
      BY <1>8 DEF Kline!ReAnchor
    <2> QED
      BY <1>1, <1>8, <2>1, ReAnchorRests
  <1>9. ASSUME NEW j \in Jobs, Kline!CutOff(j) PROVE TableSound' /\ (~flawed' => Clean')
    BY <1>1, <1>9, CutOffRests
  <1>10. CASE UNCHANGED Kline!vars
    <2>1. /\ price' = price /\ paid' = paid /\ bars' = bars /\ factor' = factor /\ job' = job /\ flawed' = flawed
      BY <1>10 DEF Kline!vars
    <2> QED
      BY <1>1, <2>1 DEF TableSound, Clean
  <1> QED
    BY <1>3, <1>4, <1>5, <1>6, <1>7, <1>8, <1>9, <1>10 DEF Kline!Next

LEMMA TypesRest == ASSUME StoreInv, TableSound PROVE Kline!TypeOK
  <1> DEFINE n == Len(price)
  <1>1. Kline!Days = 1..n /\ Kline!today = n /\ n \in Nat /\ DOMAIN paid = 1..n
    <2>1. paid \in Seq(Int) /\ Len(paid) = n
      BY DEF StoreInv, Prices
    <2> QED
      BY <2>1, TodayIsLen, PriceValues DEF StoreInv
  <1>2. /\ DOMAIN bars \subseteq 1..n /\ DOMAIN factor \subseteq 1..n /\ \A d \in DOMAIN bars : bars[d].pct \in Int
    BY DEF TableSound, Priced
  <1>3. ASSUME NEW j \in Jobs
        PROVE  /\ job[j].at \in {"idle", "next", "fetched", "upserted", "event"}
               /\ job[j].at # "idle" => job[j].lo \in 1..job[j].end /\ job[j].end <= n
    BY DEF TableSound, JobSound
  <1> QED
    BY <1>1, <1>2, <1>3 DEF Kline!TypeOK

\* At rest and unflawed the store is true.
LEMMA QuietIsAtRest == ASSUME RestInv, Kline!Quiet, ~flawed PROVE AtRest
  <1>1. \A j \in Jobs : job[j].at = "idle"
    BY DEF Kline!Quiet, Kline!Idle
  <1>2. /\ Settled(bars, factor, paid) /\ AllRight(bars, DOMAIN bars, price, paid)
        /\ Priced(bars, price, paid) /\ Whole(factor)
    BY <1>1 DEF RestInv, Clean, TableSound
  <1> QED
    BY <1>2 DEF AtRest, Settled, AllRight

LEMMA RestMeans == ASSUME RestInv PROVE Kline!StoreTrue
  <1>1. StoreInv /\ TableSound /\ Prices
    BY DEF RestInv, StoreInv
  <1>2. Kline!TypeOK
    BY <1>1, TypesRest
  <1>3. Kline!AcceptanceTells
    BY <1>1, AcceptanceHolds DEF TableSound
  <1>4. CASE Kline!AtRest
    <2>1. AtRest
      BY <1>4, QuietIsAtRest DEF Kline!AtRest
    <2>2. Kline!FactorsTrue
      BY <2>1 DEF Kline!FactorsTrue, AtRest, Follows, AsFar
    <2> QED
      BY <1>1, <1>2, <1>3, <2>1, <2>2, NoLookaheadHolds, WeeksHold DEF Kline!StoreTrue
  <1>5. CASE ~Kline!AtRest
    BY <1>2, <1>3, <1>5 DEF Kline!StoreTrue, Kline!FactorsTrue, Kline!NoLookahead, Kline!WeeksAgree
  <1> QED
    BY <1>4, <1>5

LEMMA RestStays == ASSUME focus = "kline" => RestInv, [Next]_vars PROVE (focus = "kline" => RestInv)'
  <1> SUFFICES ASSUME focus' = "kline" PROVE RestInv'
    OBVIOUS
  <1>1. focus = "kline" /\ RestInv
    BY DEF Next, vars
  <1>2. [Kline!Next]_(Kline!vars)
    BY <1>1 DEF Next, vars, klineVars, Kline!vars
  <1> QED
    BY <1>1, <1>2, RestStep

\* StoreTrue holds of the composition, for every history of prices and corporate actions,
\* every look-back, chunk and week, and any number of passes of the evening sync and of
\* rebuilds, though Tencent leaves out the return of the first bar of every window: when no
\* job is at work and nothing was flawed since a rebuild of bars without a hole began, exactly
\* the corporate actions are in the factors (maintain_factor_incremental,
\* init_adjust_factors), a reader up to a past day sees no later one (_apply_adjust), and the
\* weeks tell one story (get_kline); and the acceptance check
\* (hfq_close_2_close_deviation) tells, however jobs met or were cut off.
THEOREM StoreHolds == Spec => []StoreTrue
  <1> DEFINE Inv == focus = "kline" => RestInv
  <1>1. Init => Inv
    BY InitRest DEF Init
  <1>2. Inv /\ [Next]_vars => Inv'
    BY RestStays
  <1>3. Inv => StoreTrue
    BY RestMeans DEF StoreTrue
  <1> QED
    BY <1>1, <1>2, <1>3, PTL DEF Spec
=============================================================================
