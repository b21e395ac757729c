----------------------------- MODULE DataRepair -----------------------------
(***************************************************************************)
(* Dirty daily bars: what the evening syncs may store, what the morning    *)
(* patrol counts, the two detectors (frozen closes, broken price levels),  *)
(* and the long tasks that re-fetch what they find or the amounts that are *)
(* missing, code by code. Long tasks run one at a time.                    *)
(*                                                                         *)
(* One store stands for daily_prices and sa_kline_daily, which a repair    *)
(* writes alike. Returns are differences of closes; the bar before a       *)
(* fetched window is known to the source. Thresholds are scaled down.      *)
(***************************************************************************)
EXTENDS Integers, Sequences, FiniteSets, SequencesExt, FiniteSetsExt, Scoring, Rows

CONSTANTS
    Codes,        \* the stocks, in the order of their codes
    Truth,        \* their true closes, day by day
    Shift,        \* what a broken price level is off by
    MaxBad,       \* bound of the model: bars that are not as they should be
    MaxJobs,      \* bound of the model: long tasks
    FreezeRun,    \* FREEZE_RUN_LEN
    MisalignRun,  \* MISALIGN_RUN_LEN
    Ratio,        \* MISALIGN_RATIO
    Buffer, MinPeriods,  \* MISALIGN_BUFFER, min_periods
    Pad,          \* pad_days
    Breaker,      \* REPAIR_CIRCUIT_BREAKER
    LimitCodes    \* limit_codes of the amount backfill

Null == -1000
Bar(close, pct, amount) == [close |-> close, pct |-> pct, amount |-> amount]

VARIABLES
    frame,  \* stored bars per code
    bad,    \* bars that came broken so far
    job,    \* the long task: kind, work left, failures; what it set out to mend
    jobs,   \* long tasks so far
    mended  \* history: bars found by a repair all of whose fetches were answered

vars == <<frame, bad, job, jobs, mended>>
today == Len(frame[Codes[1]])
CodeSet == ToSet(Codes)
\* What the parameters are: the true closes of every stock span the same days.
Parameters ==
    /\ Codes \in Seq(CodeSet) /\ Codes # <<>>
    /\ DOMAIN Truth = CodeSet /\ \A c \in CodeSet : Truth[c] \in Seq(Nat)
    /\ \A c \in CodeSet : Truth[c] # <<>> /\ Len(Truth[c]) = Len(Truth[Codes[1]])
    /\ {Shift, MaxBad, MaxJobs, FreezeRun, MisalignRun, Ratio, Buffer, MinPeriods, Pad, Breaker,
        LimitCodes} \subseteq Nat
    /\ FreezeRun >= 2 /\ MinPeriods \in 1..Buffer /\ Ratio >= 1
\* What the detector of broken levels takes for granted: a stock never trades RATIO times as
\* high as it ever did, and a broken level is further off than that.
Steady ==
    \A c \in CodeSet : \A d, e \in DOMAIN Truth[c] :
        Truth[c][d] <= Ratio * Truth[c][e] /\ Ratio * Truth[c][e] < Shift * Truth[c][d]
Idle == [kind |-> "idle", left |-> <<>>, failed |-> 0, clean |-> TRUE, found |-> {}]
TruePct(c, d) == IF d = 1 THEN Null ELSE Truth[c][d] - Truth[c][d - 1]
Is(c, d) == frame[c][d].close = Truth[c][d] /\ frame[c][d].pct = TruePct(c, d)

-----------------------------------------------------------------------------
(* Detection *)

\* A transition that is flat: the same close, and a return of zero or none.
Flat(f, d) == d > 1 /\ f[d].close = f[d - 1].close /\ f[d].pct \in {0, Null}

\* Maximal runs of consecutive days of a set, as pairs of their ends.
Runs(S) == {r \in S \X S : r[1] <= r[2] /\ r[1]..r[2] \subseteq S /\ r[1] - 1 \notin S /\ r[2] + 1 \notin S}
\* The days of a set of such runs.
Covered(segments) == UNION {r[1]..r[2] : r \in segments}
FlatDays(f) == {d \in DOMAIN f : Flat(f, d)}

\* mutant: the segment begins on the second bar of the run
FrozenSegmentsLate(f) ==
    {r \in Runs(FlatDays(f)) : r[2] - r[1] + 2 >= FreezeRun}

\* frozen_segments: the runs of flat transitions, with the bar before them.
FrozenSegments(f) ==
    {<<r[1] - 1, r[2]>> : r \in {x \in Runs(FlatDays(f)) :
                                    x[2] - x[1] + 2 >= FreezeRun}}

\* Twice the median of the bars before d.
PriorMedian2(f, d) ==
    LET lo == IF d - Buffer < 1 THEN 1 ELSE d - Buffer
    IN  Median2([x \in lo..d - 1 |-> f[x].close])

\* mutant: the median takes in the bar itself and what follows
SuspectSelf(f, d) ==
    /\ d - 1 >= MinPeriods
    /\ LET med == Median2([x \in d..Len(f) |-> f[x].close])
       IN  2 * f[d].close > Ratio * med \/ 2 * Ratio * f[d].close < med

Suspect(f, d) ==
    /\ d - 1 >= MinPeriods
    /\ 2 * f[d].close > Ratio * PriorMedian2(f, d) \/ 2 * Ratio * f[d].close < PriorMedian2(f, d)

\* misaligned_segments
MisalignedSegments(f) ==
    {r \in Runs({d \in DOMAIN f : Suspect(f, d)}) : r[2] - r[1] + 1 >= MisalignRun}

\* _scan: frames too short are skipped.
Findings(segments) == [c \in {x \in CodeSet : today >= FreezeRun /\ segments[x] # {}} |-> segments[c]]

\* find_amount_gaps: per code the days without an amount (a longer suspension would split
\* them), of the first codes that have any.
AmountGaps ==
    LET gaps(c) == {d \in 1..today : frame[c][d].amount = 0}
        with == Those(Codes, {c \in CodeSet : gaps(c) # {}})
    IN  [i \in 1..(IF Len(with) < LimitCodes THEN Len(with) ELSE LimitCodes) |->
            [code |-> with[i], lo |-> Min(gaps(with[i])), hi |-> Max(gaps(with[i]))]]

-----------------------------------------------------------------------------
(* The patrol of a day *)

\* mutant: the return of the bar before is compared
BreaksBefore(d) ==
    {c \in CodeSet : /\ d > 1 /\ frame[c][d - 1].pct # Null
                     /\ frame[c][d].close - frame[c][d - 1].close # frame[c][d - 1].pct}

\* _check_adjustment_break: bars whose return is not that of their closes.
Breaks(d) ==
    {c \in CodeSet : /\ d > 1 /\ frame[c][d].pct # Null
                     /\ frame[c][d].close - frame[c][d - 1].close # frame[c][d].pct}

-----------------------------------------------------------------------------
Init ==
    /\ frame = [c \in CodeSet |-> <<Bar(Truth[c][1], Null, 1)>>]
    /\ bad = 0 /\ job = Idle /\ jobs = 0 /\ mended = {}

\* What a degraded source serves for the bar of d instead of the true one: the last close
\* again, with or without a return, a broken level, or a bar without amount.
Served(c, d, as) ==
    CASE as = "stuck" -> Bar(frame[c][d - 1].close, 0, 1)
      [] as = "bare" -> Bar(frame[c][d - 1].close, Null, 1)
      [] as = "level" -> Bar(Truth[c][d] * Shift, TruePct(c, d), 1)
      [] as = "amount" -> Bar(Truth[c][d], TruePct(c, d), 0)
      [] as = "true" -> Bar(Truth[c][d], TruePct(c, d), 1)

\* The evening sync stores the bars of a new day.
NewDay(as) ==
    /\ today < Len(Truth[Codes[1]])
    /\ bad' = bad + Cardinality({c \in CodeSet : as[c] # "true"}) /\ bad' <= MaxBad
    /\ frame' = [c \in CodeSet |-> Append(frame[c], Served(c, today + 1, as[c]))]
    /\ UNCHANGED <<job, jobs, mended>>

Task(kind, work, found) ==
    /\ job.kind = "idle" /\ jobs < MaxJobs /\ jobs' = jobs + 1
    /\ job' = [Idle EXCEPT !.kind = IF work = <<>> THEN "idle" ELSE kind, !.left = work, !.found = found]
    /\ UNCHANGED <<frame, bad, mended>>

\* mutant: a code with several segments is fetched for the first of them
SpanFirst(segments) ==
    LET first == CHOOSE r \in segments : \A s \in segments : r[1] <= s[1]
    IN  [lo |-> Max({1, first[1] - Pad}), hi |-> Min({today, first[2] + Pad})]

\* repair_findings: one window over all segments of a code, padded on both sides.
Span(segments) ==
    [lo |-> Max({1, Min({r[1] : r \in segments}) - Pad}),
     hi |-> Min({today, Max({r[2] : r \in segments}) + Pad})]

\* The fetches for what a scan found, in the order of the codes, and the bars it found.
Fetches(found) ==
    LET codes == Those(Codes, DOMAIN found)
    IN  [i \in DOMAIN codes |-> [code |-> codes[i], lo |-> Span(found[codes[i]]).lo,
                                 hi |-> Span(found[codes[i]]).hi]]
Bars(found) == {m \in CodeSet \X (1..today) : m[1] \in DOMAIN found /\ m[2] \in Covered(found[m[1]])}

\* run_full_repair: both scans come first, then the frozen codes, then the misaligned ones.
FullRepair ==
    LET frozen == Findings([c \in CodeSet |-> FrozenSegments(frame[c])])
        mis == Findings([c \in CodeSet |-> MisalignedSegments(frame[c])])
    IN  Task("repair", Fetches(frozen) \o Fetches(mis), Bars(frozen) \cup Bars(mis))

BackfillAmount == Task("amounts", AmountGaps, {})

\* The next code of the task, or its end. The breaker of a repair never opens: every call
\* of repair_codes gets a single code.
Proceed(failed) ==
    LET left == Tail(job.left)
        clean == job.clean /\ ~failed
        stop == left = <<>> \/ (job.kind = "amounts" /\ failed /\ job.failed + 1 = Breaker)
    IN  /\ job' = IF stop THEN Idle
                  ELSE [job EXCEPT !.left = left, !.failed = @ + (IF failed THEN 1 ELSE 0), !.clean = clean]
        /\ mended' = IF stop /\ job.kind = "repair" /\ clean THEN job.found ELSE mended

\* repair_codes for one code: the rows answered overwrite the stored ones, the amount
\* included, which the classic host does not serve.
RepairCode(outcome) ==
    LET item == Head(job.left)
        row(d) == Bar(Truth[item.code][d], TruePct(item.code, d), IF outcome = "classic" THEN 0 ELSE 1)
    IN  /\ job.kind = "repair"
        /\ frame' = IF outcome \in {"empty", "error"} THEN frame
                    ELSE [frame EXCEPT ![item.code] =
                             [d \in DOMAIN @ |-> IF d \in item.lo..item.hi THEN row(d) ELSE @[d]]]
        /\ Proceed(outcome \in {"empty", "error"})
        /\ UNCHANGED <<bad, jobs>>

\* mutant: rows without an amount are written too
AmountCodeAny(outcome) ==
    LET item == Head(job.left)
        row(d) == Bar(Truth[item.code][d], TruePct(item.code, d), IF outcome = "classic" THEN 0 ELSE 1)
    IN  /\ job.kind = "amounts"
        /\ frame' = IF outcome \in {"empty", "error"} THEN frame
                    ELSE [frame EXCEPT ![item.code] =
                             [d \in DOMAIN @ |-> IF d \in item.lo..item.hi THEN row(d) ELSE @[d]]]
        /\ Proceed(outcome = "error")
        /\ UNCHANGED <<bad, jobs>>

\* backfill_amount for one code: of the rows answered those in the gap with an amount.
AmountCode(outcome) ==
    LET item == Head(job.left)
        row(d) == Bar(Truth[item.code][d], TruePct(item.code, d), 1)
    IN  /\ job.kind = "amounts"
        /\ frame' = IF outcome # "rows" THEN frame
                    ELSE [frame EXCEPT ![item.code] =
                             [d \in DOMAIN @ |-> IF d \in item.lo..item.hi THEN row(d) ELSE @[d]]]
        /\ Proceed(outcome = "error")
        /\ UNCHANGED <<bad, jobs>>

\* The process dies in a long task.
Restart ==
    /\ job # Idle /\ job' = Idle
    /\ UNCHANGED <<frame, bad, jobs, mended>>

Next ==
    \/ \E as \in [CodeSet -> {"true", "stuck", "bare", "level", "amount"}] : NewDay(as)
    \/ FullRepair \/ BackfillAmount \/ Restart
    \/ \E o \in {"rows", "classic", "empty", "error"} : RepairCode(o) \/ AmountCode(o)
Spec == Init /\ [][Next]_vars
-----------------------------------------------------------------------------
TypeOK ==
    /\ \A c \in CodeSet : Len(frame[c]) = today /\ \A d \in 1..today : frame[c][d].amount \in {0, 1}
    /\ job.kind = "idle" <=> job.left = <<>>
    /\ \A i \in DOMAIN job.left : job.left[i].lo \in 1..job.left[i].hi /\ job.left[i].hi <= today
    /\ bad \in 0..MaxBad /\ jobs \in 0..MaxJobs

\* A bar is reported as frozen exactly when it is one of FREEZE_RUN_LEN equal closes in a
\* row, the first of them included, that no return explains.
FrozenExact ==
    \A c \in CodeSet :
        LET f == frame[c]
            stuck(lo) == \A x \in lo + 1..lo + FreezeRun - 1 : f[x].close = f[lo].close /\ f[x].pct \in {0, Null}
        IN  Covered(FrozenSegments(f))
                = UNION {lo..lo + FreezeRun - 1 : lo \in {x \in 1..today - FreezeRun + 1 : stuck(x)}}

Off(c) == {d \in 1..today : frame[c][d].close = Truth[c][d] * Shift}
\* A broken price level is found, bar by bar, as long as the good bars before it that the
\* detector still sees outnumber it, and nothing else is taken for one.
LevelFound ==
    \A c \in CodeSet :
        /\ \A d \in 1..today : d \in Off(c) \/ frame[c][d].close = Truth[c][d]
        /\ Off(c) # {} => /\ Off(c) = Min(Off(c))..Max(Off(c)) /\ Min(Off(c)) > MinPeriods
                          /\ Cardinality(Off(c)) \in MisalignRun..Min({Min(Off(c)) - 2, (Buffer - 1) \div 2})
        => Covered(MisalignedSegments(frame[c])) = Off(c)

\* Every bar a repair set out to mend is the true one when all its fetches were answered.
RepairMends == \A m \in mended : Is(m[1], m[2])

\* The patrol counts a code whose level broke on the day, if the bar has a return, and none whose last two bars are
\* the true ones.
PatrolHonest ==
    \A c \in CodeSet, d \in 2..today :
        /\ Is(c, d) /\ Is(c, d - 1) => c \notin Breaks(d)
        /\ Is(c, d - 1) /\ d \in Off(c) /\ frame[c][d].pct # Null => c \in Breaks(d)

Missing == {m \in CodeSet \X (1..today) : frame[m[1]][m[2]].amount = 0}
\* Filling amounts never loses one, whichever host answers.
AmountsGrow ==
    job.kind = "amounts" => Missing' \subseteq Missing \/ today' > today

\* Detectors, patrol and repair tell dirty bars from true ones.
RepairSound == TypeOK /\ FrozenExact /\ LevelFound /\ RepairMends /\ PatrolHonest

=============================================================================
