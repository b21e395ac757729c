----------------------------- MODULE QualityBoard -----------------------------
(***************************************************************************)
(* sa_data_quality_check, the board of the admin page: the morning patrol  *)
(* writes a row per metric for the latest settled day, the weekly factor   *)
(* health check replaces its own rows. A health check computes factor by   *)
(* factor, and what it computes commits; it may be cut off in between.     *)
(* Days are calendar days; on some the exchange is closed.                 *)
(***************************************************************************)
EXTENDS Integers, FiniteSets, FiniteSetsExt

CONSTANTS
    Codes,        \* the stocks
    Horizon,      \* bound of the model: days
    Closed,       \* days without trading
    CountWindow,  \* _COUNT_WINDOW of settled_counts
    LowRatio, LowWarn,     \* fail and warn threshold of row_ratio, in percent
    MissingFail,  \* fail threshold of amount_missing_pct
    Factors,      \* FACTOR_CODES
    MaxChecks     \* bound of the model: patrols and health checks

VARIABLES
    calendar, \* today
    bars,     \* per day and stock the stored bar: none, open (unsettled), ok, bare, wide
    rows,     \* sa_data_quality_check: date, check, metric, status, whether there was a
              \* value, and the number of the check that wrote it
    health,   \* the health check under way: factors left, rows so far, whether its delete
              \* has been committed
    checks    \* checks so far

vars == <<calendar, bars, rows, health, checks>>
\* What the parameters are.
Parameters ==
    /\ IsFiniteSet(Codes) /\ Horizon \in Nat \ {0} /\ Closed \subseteq 2..Horizon
    /\ {CountWindow, LowRatio, LowWarn, MissingFail, MaxChecks} \subseteq Nat
    /\ "row_baseline" \notin Factors

NoHealth == [on |-> FALSE, left |-> {}, found |-> {}, by |-> 0]
NoValue == -1

-----------------------------------------------------------------------------
(* The metrics of a day *)

Settled(d) == {c \in Codes : bars[d][c] \in {"ok", "bare", "wide"}}
Stored(d) == {c \in Codes : bars[d][c] # "none"}

\* _latest_settled
LatestSettled == {d \in 1..calendar : Settled(d) # {} /\ \A x \in d + 1..calendar : Settled(x) = {}}

\* settled_counts: the newest days that have settled bars.
Counted ==
    LET dates == {d \in 1..calendar : Settled(d) # {}}
    IN  {d \in dates : Cardinality({x \in dates : x > d}) < CountWindow}

\* mutant: the day is compared with the day before
RowRatioYesterday(d) ==
    LET prior == {x \in Counted : x < d}
    IN  IF prior = {} THEN NoValue
        ELSE (100 * Cardinality(Settled(d))) \div Cardinality(Settled(Max(prior)))

\* _check_row_baseline: against the fullest day before it that is counted.
RowRatio(d) ==
    LET prior == {Cardinality(Settled(x)) : x \in {x \in Counted : x < d}}
    IN  IF prior = {} THEN NoValue ELSE (100 * Cardinality(Settled(d))) \div Max(prior)

\* _check_field_missing
AmountMissing(d) ==
    IF Stored(d) = {} THEN NoValue
    ELSE (100 * Cardinality({c \in Codes : bars[d][c] = "bare"})) \div Cardinality(Stored(d))

\* _check_amplitude: wide bars of stocks that have an earlier one.
WideBars(d) ==
    Cardinality({c \in Codes : bars[d][c] = "wide" /\ \E x \in 1..d - 1 : bars[x][c] # "none"})

Row(d, check, metric, status, value, by) ==
    [date |-> d, check |-> check, metric |-> metric, status |-> status,
     known |-> value # NoValue, by |-> by]

\* mutant: a metric without a value passes
StatusLenient(value, grade) == IF value = NoValue THEN "pass" ELSE grade

\* run_daily_check and _status: no value, be it for want of data or because the check
\* raised, is a warning.
Status(value, grade) == IF value = NoValue THEN "warn" ELSE grade

\* The rows of a patrol of d; a check that raises has no value.
PatrolRows(d, raised) ==
    LET value(check, v) == IF check \in raised THEN NoValue ELSE v
        ratio == value("row_baseline", RowRatio(d))
        missing == value("field_missing", AmountMissing(d))
        wide == value("amplitude", WideBars(d))
    IN  {Row(d, "patrol", "row_baseline",
             Status(ratio, IF ratio < LowRatio THEN "fail" ELSE IF ratio < LowWarn THEN "warn" ELSE "pass"),
             ratio, checks + 1),
         Row(d, "patrol", "field_missing",
             Status(missing, IF missing > MissingFail THEN "fail" ELSE "pass"), missing, checks + 1),
         Row(d, "patrol", "amplitude", Status(wide, IF wide > 0 THEN "fail" ELSE "pass"), wide, checks + 1)}

-----------------------------------------------------------------------------
Init ==
    /\ calendar = 1
    /\ bars = [d \in 1..Horizon |-> [c \in Codes |-> IF d = 1 THEN "ok" ELSE "none"]]
    /\ rows = {} /\ health = NoHealth /\ checks = 0

\* A day begins; what the syncs store of it.
Dawn(kinds) ==
    /\ calendar < Horizon /\ calendar' = calendar + 1
    /\ calendar + 1 \in Closed => \A c \in Codes : kinds[c] = "none"
    /\ bars' = [bars EXCEPT ![calendar + 1] = kinds]
    /\ UNCHANGED <<rows, health, checks>>

\* A later sync completes the newest day.
Complete ==
    /\ calendar \notin Closed
    /\ bars' = [bars EXCEPT ![calendar] = [c \in Codes |-> "ok"]]
    /\ UNCHANGED <<calendar, rows, health, checks>>

\* _save: upserts on (date, check, metric), one commit.
Patrol(raised) ==
    /\ checks < MaxChecks /\ checks' = checks + 1
    /\ rows' = LET new == UNION {PatrolRows(d, raised) : d \in LatestSettled}
               IN  new \cup {r \in rows : \A n \in new : <<n.date, n.check, n.metric>> # <<r.date, r.check, r.metric>>}
    /\ UNCHANGED <<calendar, bars, health>>

Ours == {r \in rows : r.check = "health"}

\* run_factor_health_check: the delete of the old rows waits for a commit.
HealthBegins ==
    /\ ~health.on /\ checks < MaxChecks /\ checks' = checks + 1
    /\ health' = [on |-> TRUE, left |-> Factors, found |-> {}, by |-> checks + 1]
    /\ UNCHANGED <<calendar, bars, rows>>

\* mutant: everything older goes
HealthFactorAll(f, evidence) ==
    /\ f \in health.left
    /\ rows' = IF evidence = "skipped" THEN rows ELSE {}
    /\ health' = [health EXCEPT !.left = @ \ {f}, !.found = @ \cup {<<f, evidence>>}]
    /\ UNCHANGED <<calendar, bars, checks>>

\* mutant: rows are inserted beside the old ones
HealthFactorKeeps(f, evidence) ==
    /\ f \in health.left
    /\ health' = [health EXCEPT !.left = @ \ {f}, !.found = @ \cup {<<f, evidence>>}]
    /\ UNCHANGED <<calendar, bars, rows, checks>>

\* The next factor: computing it stores IC rows and commits, the delete with them; a
\* factor without evidence is skipped.
HealthFactor(f, evidence) ==
    /\ f \in health.left
    /\ rows' = IF evidence = "skipped" THEN rows ELSE rows \ Ours
    /\ health' = [health EXCEPT !.left = @ \ {f}, !.found = @ \cup {<<f, evidence>>}]
    /\ UNCHANGED <<calendar, bars, checks>>

HealthRows ==
    {Row(calendar, "health", x[1], Status(IF x[2] = "short" THEN NoValue ELSE 1,
                                          IF x[2] = "dead" THEN "fail" ELSE "pass"),
         IF x[2] = "short" THEN NoValue ELSE 1, health.by)
        : x \in {x \in health.found : x[2] # "skipped"}}

\* All rows are written at the end, under the date of the day.
HealthEnds ==
    /\ health.on /\ health.left = {}
    /\ rows' = (IF \A x \in health.found : x[2] = "skipped" THEN rows \ Ours ELSE rows) \cup HealthRows
    /\ health' = NoHealth
    /\ UNCHANGED <<calendar, bars, checks>>

\* The process dies: what was committed stays gone.
HealthCutOff ==
    /\ health.on /\ health' = NoHealth
    /\ UNCHANGED <<calendar, bars, rows, checks>>

Next ==
    \/ \E kinds \in [Codes -> {"none", "open", "ok", "bare", "wide"}] : Dawn(kinds)
    \/ Complete \/ HealthBegins \/ HealthEnds \/ HealthCutOff
    \/ \E raised \in {{}, {"row_baseline"}, {"field_missing", "amplitude"}} : Patrol(raised)
    \/ \E f \in Factors, e \in {"strong", "dead", "short", "skipped"} : HealthFactor(f, e)
Spec == Init /\ [][Next]_vars

-----------------------------------------------------------------------------
TypeOK ==
    /\ calendar \in 1..Horizon /\ checks \in 0..MaxChecks
    /\ \A d \in Closed : Stored(d) = {}
    /\ \A r, s \in rows : <<r.date, r.check, r.metric>> = <<s.date, s.check, s.metric>> => r = s
    /\ \A r \in rows : r.date <= calendar /\ r.by <= checks
    /\ health.left \subseteq Factors

\* What could not be measured is never shown green.
UnknownIsNotGreen == \A r \in rows : r.status = "pass" => r.known

\* A patrol that could count fails a day on which most stocks are missing, as long as one
\* whole day is among the days counted: several truncated days in a row do not become the norm.
TruncationFails ==
    \A d \in 1..calendar :
       /\ \E x \in Counted : x < d /\ Settled(x) = Codes
       /\ 100 * Cardinality(Settled(d)) < LowRatio * Cardinality(Codes)
       => \A r \in rows' \ rows : r.date = d /\ r.metric = "row_baseline" /\ r.known => r.status = "fail"

\* The rows of factor health are those of one check, whatever check was cut off before.
HealthOfOneCheck == \A r, s \in Ours : r.by = s.by

\* Neither job touches the rows of the other.
OthersRowsKept ==
    /\ health' # health => {r \in rows : r.check = "patrol"} \subseteq rows'
    /\ health' = health => Ours \subseteq rows'

\* The board shows what was measured, by one check.
BoardSound == TypeOK /\ UnknownIsNotGreen /\ HealthOfOneCheck

=============================================================================
