--------------------------- MODULE DailySyncProofs ---------------------------
(* Theorems about DailySync for every value of its constants.              *)
EXTENDS DailySync, FiniteSetTheorems, TLAPS

\* A run is in a loop only on its way, and has an outcome only at its end.
Shape(rec) ==
    /\ rec.pc \in {"pool", "sync"} => rec.core
    /\ rec.pc = "replay" => ~rec.core
    /\ rec.outcome # "none" => rec.pc = "done"
    /\ rec.outcome = "ok" /\ rec.core => rec.todo = {}

RecOK(rec) ==
    /\ rec \in RunRec /\ Shape(rec)
    /\ rec.failed \cap rec.todo = {}
    /\ rec.silent \cap (rec.todo \cup rec.failed) = {}

\* In the loop of the core, and after it: what has left the list of codes to do
\* without an error and with an answer is stored.
Covered(rec, table) ==
    (rec.pc = "sync" \/ (rec.outcome = "ok" /\ rec.core)) =>
        \A c \in Codes \ (rec.todo \cup rec.failed \cup rec.silent) : \A p \in Paths :
            Window(rec.day) \subseteq table[p][c]

RunsOK == run \in [Runs -> RunRec] /\ \A q \in Runs : RecOK(run[q]) /\ Covered(run[q], stored)

ScalarsOK ==
    /\ today \in Days /\ slot \in 0..2 /\ faults \in 0..MaxFaults /\ banned \in BOOLEAN
    /\ calLoaded \in BOOLEAN /\ calUntil \in Nat /\ (calUntil # 0 => calLoaded)
    /\ (\E r \in Runs : run[r].pc = "calendar") => calLoaded
    /\ failedCodes \subseteq Codes

TablesOK ==
    /\ stored \in [Paths -> [Codes -> SUBSET TradeDays]]
    /\ settled \in [Codes -> SUBSET TradeDays]
    /\ "legacy" \in Paths => \A c \in Codes : settled[c] \subseteq stored["legacy"][c]

Inv == ScalarsOK /\ TablesOK /\ RunsOK

Grows == \A p \in Paths, c \in Codes : stored[p][c] \subseteq stored'[p][c]

-----------------------------------------------------------------------------
LEMMA DaysAreNat == Days \subseteq Nat /\ 0 \in Days /\ 1 \in Days
  BY ParametersAssumption DEF Days

LEMMA CodesCounted ==
    ASSUME NEW cs \in SUBSET Codes PROVE Cardinality(cs) \in Nat
  <1>1. IsFiniteSet(cs)
    BY ParametersAssumption, FS_Subset
  <1>. QED
    BY <1>1, FS_CardinalityType

LEMMA NoRunOK == RecOK(NoRun) /\ Covered(NoRun, stored)
  BY DaysAreNat DEF NoRun, RecOK, RunRec, Shape, Covered, Kinds, PCs, Outcomes

\* The record of a run that a compensation takes to its replay.
LEMMA ReplayOK ==
    ASSUME NEW rec, RecOK(rec), NEW list \in SUBSET Codes, today \in Days,
           rec.pc # "done"
    PROVE  RecOK(Replay(rec, list)) /\ Covered(Replay(rec, list), stored)
  BY DEF Replay, RecOK, RunRec, Shape, Covered, PCs, Outcomes

LEMMA RaiseOK ==
    ASSUME NEW rec, RecOK(rec), NEW list \in SUBSET Codes, today \in Days,
           rec.pc # "done"
    PROVE  RecOK(Raise(rec, list)) /\ Covered(Raise(rec, list), stored)
  <1>1. CASE rec.kind = "main"
    BY <1>1 DEF Raise, RecOK, RunRec, Shape, Covered, PCs, Outcomes
  <1>2. CASE rec.kind # "main"
    <2>. DEFINE s == [rec EXCEPT !.swallowed = "core"]
    <2>1. RecOK(s) /\ s.pc # "done"
      BY DEF RecOK, RunRec, Shape
    <2>. QED
      BY <1>2, <2>1, ReplayOK DEF Raise
  <1>. QED
    BY <1>1, <1>2

\* A step of run r to a good record keeps all runs good, for no bar goes away.
LEMMA SetKeepsRuns ==
    ASSUME RunsOK, NEW r \in Runs, NEW rec, Set(r, rec), RecOK(rec), Covered(rec, stored'), Grows
    PROVE  RunsOK'
  <1>1. run' \in [Runs -> RunRec]
    BY DEF RunsOK, Set, RecOK
  <1>2. run'[r] = rec /\ \A q \in Runs \ {r} : run'[q] = run[q]
    BY DEF RunsOK, Set
  <1>3. ASSUME NEW q \in Runs PROVE RecOK(run'[q]) /\ Covered(run'[q], stored')
    <2>1. CASE q = r
      BY <2>1, <1>2 DEF Covered
    <2>2. CASE q # r
      BY <2>2, <1>2 DEF RunsOK, Covered, Grows
    <2>. QED
      BY <2>1, <2>2
  <1>. QED
    BY <1>1, <1>3 DEF RunsOK, RecOK, Shape

\* The upserts of the window of one code.
LEMMA UpsertKeeps ==
    ASSUME TablesOK, NEW c \in Codes, NEW d, NEW P \in SUBSET Paths, Upsert(c, d, P)
    PROVE  /\ TablesOK' /\ Grows
           /\ \A p \in P : Window(d) \subseteq stored'[p][c]
  <1>1. Window(d) \subseteq TradeDays /\ Priced(d) \subseteq Window(d)
    BY DEF Window, Priced
  <1>2. /\ stored' \in [Paths -> [Codes -> SUBSET TradeDays]]
        /\ \A p \in Paths, e \in Codes :
              stored'[p][e] = IF p \in P /\ e = c THEN stored[p][e] \cup Window(d)
                              ELSE stored[p][e]
    BY <1>1 DEF Upsert, TablesOK
  <1>3. /\ settled' \in [Codes -> SUBSET TradeDays]
        /\ \A e \in Codes :
              settled'[e] = IF "legacy" \in P /\ e = c
                            THEN (settled[e] \ Window(d)) \cup Priced(d) ELSE settled[e]
    BY <1>1 DEF Upsert, TablesOK
  <1>4. ASSUME "legacy" \in Paths, NEW e \in Codes
        PROVE  settled'[e] \subseteq stored'["legacy"][e]
    BY <1>1, <1>2, <1>3, <1>4 DEF TablesOK
  <1>. QED
    BY <1>2, <1>3, <1>4 DEF TablesOK, Grows

-----------------------------------------------------------------------------
(* One lemma per action: it preserves the invariant, and no bar goes away.   *)

LEMMA Unwritten ==
    ASSUME TablesOK, UNCHANGED tables PROVE TablesOK' /\ Grows
  BY DEF TablesOK, tables, Grows

\* What holds of a run that is on its way.
LEMMA OnItsWay ==
    ASSUME RunsOK, NEW r \in Runs, run[r].pc \notin {"none", "done"}
    PROVE  /\ RecOK(run[r]) /\ Covered(run[r], stored) /\ run[r].outcome = "none"
           /\ run[r].day \in Days
  BY DEF RunsOK, RecOK, Shape, RunRec

LEMMA FaultTyped == ASSUME ScalarsOK, Fault PROVE faults' \in 0..MaxFaults
  BY ParametersAssumption DEF ScalarsOK, Fault

LEMMA LaunchKeeps ==
    ASSUME Inv, NEW k \in Kinds, Launch(k), UNCHANGED <<tables, calendar, today>>
    PROVE  TablesOK' /\ RunsOK' /\ Grows
           /\ ((\E r \in Runs : run'[r].pc = "calendar") => calLoaded')
  <1>1. PICK r \in Runs :
            /\ run[r].pc = "none"
            /\ Set(r, [NoRun EXCEPT !.kind = k, !.pc = "judge", !.day = today,
                                    !.checked = today, !.core = k = "main"])
    BY DEF Launch
  <1>. DEFINE rec == [NoRun EXCEPT !.kind = k, !.pc = "judge", !.day = today,
                                   !.checked = today, !.core = k = "main"]
  <1>2. RecOK(rec) /\ Covered(rec, stored')
    BY DaysAreNat DEF Inv, ScalarsOK, NoRun, RecOK, RunRec, Shape, Covered, Kinds, PCs, Outcomes
  <1>3. TablesOK' /\ Grows
    BY Unwritten DEF Inv
  <1>4. RunsOK'
    BY <1>1, <1>2, <1>3, SetKeepsRuns DEF Inv
  <1>5. rec.pc # "calendar"
    BY DEF NoRun
  <1>6. \A q \in Runs : run'[q] = IF q = r THEN rec ELSE run[q]
    BY <1>1 DEF Inv, RunsOK, Set
  <1>. QED
    BY <1>3, <1>4, <1>5, <1>6 DEF Inv, ScalarsOK, calendar

LEMMA CronFireStep == ASSUME Inv, CronFire PROVE Inv'
  <1>1. PICK k \in Kinds : Launch(k)
    BY DEF CronFire, Kinds
  <1>2. UNCHANGED <<tables, calendar, today>>
    BY DEF CronFire
  <1>3. TablesOK' /\ RunsOK' /\ ((\E r \in Runs : run'[r].pc = "calendar") => calLoaded')
    BY <1>1, <1>2, LaunchKeeps
  <1>. QED
    BY <1>3 DEF Inv, ScalarsOK, CronFire, calendar

LEMMA ManualRunStep == ASSUME Inv, ManualRun PROVE Inv'
  <1>1. PICK k \in Kinds : Launch(k)
    BY DEF ManualRun
  <1>2. UNCHANGED <<tables, calendar, today>>
    BY DEF ManualRun, clock
  <1>3. TablesOK' /\ RunsOK' /\ ((\E r \in Runs : run'[r].pc = "calendar") => calLoaded')
    BY <1>1, <1>2, LaunchKeeps
  <1>. QED
    BY <1>3 DEF Inv, ScalarsOK, ManualRun, calendar, clock

\* Steps of the outside world that leave runs and tables alone.
LEMMA OutsideStep ==
    ASSUME Inv, UNCHANGED <<tables, calendar, failedCodes, run>>, today' \in Days,
           slot' \in 0..2, faults' \in 0..MaxFaults, banned' \in BOOLEAN
    PROVE  Inv'
  <1>1. TablesOK'
    BY Unwritten DEF Inv
  <1>2. RunsOK'
    BY DEF Inv, RunsOK, RecOK, Shape, Covered, tables
  <1>. QED
    BY <1>1, <1>2 DEF Inv, ScalarsOK, calendar

LEMMA CronMissedStep == ASSUME Inv, CronMissed PROVE Inv'
  <1>1. faults' \in 0..MaxFaults
    BY FaultTyped DEF Inv, CronMissed
  <1>2. /\ today' \in Days /\ slot' \in 0..2 /\ banned' \in BOOLEAN
        /\ UNCHANGED <<tables, calendar, failedCodes, run>>
    BY DEF Inv, ScalarsOK, CronMissed
  <1>. QED
    BY <1>1, <1>2, OutsideStep

LEMMA MidnightStep == ASSUME Inv, Midnight PROVE Inv'
  <1>1. today' \in Days
    BY ParametersAssumption DEF Inv, ScalarsOK, Midnight, Days
  <1>2. /\ faults' \in 0..MaxFaults /\ slot' \in 0..2 /\ banned' \in BOOLEAN
        /\ UNCHANGED <<tables, calendar, failedCodes, run>>
    BY DEF Inv, ScalarsOK, Midnight
  <1>. QED
    BY <1>1, <1>2, OutsideStep

LEMMA BanStep == ASSUME Inv, Ban PROVE Inv'
  <1>1. faults' \in 0..MaxFaults
    BY FaultTyped DEF Inv, ScalarsOK, Ban
  <1>2. /\ today' \in Days /\ slot' \in 0..2 /\ banned' \in BOOLEAN
        /\ UNCHANGED <<tables, calendar, failedCodes, run>>
    BY DEF Inv, ScalarsOK, Ban, clock
  <1>. QED
    BY <1>1, <1>2, OutsideStep

LEMMA CrashStep == ASSUME Inv, Crash PROVE Inv'
  <1>. DEFINE dead == [NoRun EXCEPT !.pc = "done"]
  <1>1. RecOK(dead) /\ Covered(dead, stored') /\ RecOK(NoRun) /\ Covered(NoRun, stored')
    BY DaysAreNat DEF NoRun, RecOK, RunRec, Shape, Covered, Kinds, PCs, Outcomes
  <1>2. \A q \in Runs : run'[q] \in {NoRun, dead}
    BY DEF Crash
  <1>3. RunsOK'
    <2>1. run' \in [Runs -> RunRec]
      BY <1>1 DEF Crash, RecOK
    <2>2. \A q \in Runs : RecOK(run'[q]) /\ Covered(run'[q], stored')
      BY <1>1, <1>2 DEF Covered
    <2>. QED
      BY <2>1, <2>2 DEF RunsOK, RecOK, Shape
  <1>4. \A q \in Runs : run'[q].pc # "calendar"
    BY <1>2 DEF NoRun
  <1>5. faults' \in 0..MaxFaults
    BY FaultTyped DEF Inv, Crash
  <1>6. TablesOK'
    BY Unwritten DEF Inv, Crash
  <1>. QED
    BY <1>3, <1>4, <1>5, <1>6 DEF Inv, ScalarsOK, Crash, clock

-----------------------------------------------------------------------------
(* The steps of a run.                                                     *)

\* A step of run r to a good record that touches no table and no clock.
LEMMA RunStep ==
    ASSUME Inv, NEW r \in Runs, NEW rec, Set(r, rec), RecOK(rec), Covered(rec, stored),
           UNCHANGED <<tables, clock, banned>>, faults' \in 0..MaxFaults,
           failedCodes' \subseteq Codes, calLoaded' \in BOOLEAN, calUntil' \in Nat,
           calUntil' # 0 => calLoaded', calLoaded => calLoaded',
           rec.pc = "calendar" => calLoaded'
    PROVE  Inv'
  <1>1. TablesOK' /\ Grows
    BY Unwritten DEF Inv
  <1>2. Covered(rec, stored')
    BY DEF Covered, tables
  <1>3. RunsOK'
    BY <1>1, <1>2, SetKeepsRuns DEF Inv
  <1>4. \A q \in Runs : run'[q] = IF q = r THEN rec ELSE run[q]
    BY DEF Inv, RunsOK, Set
  <1>5. (\E q \in Runs : run'[q].pc = "calendar") => calLoaded'
    BY <1>4 DEF Inv, ScalarsOK
  <1>. QED
    BY <1>1, <1>3, <1>5 DEF Inv, ScalarsOK, clock

LEMMA JudgeStep == ASSUME Inv, NEW r \in Runs, Judge(r) PROVE Inv'
  <1>1. RecOK(run[r]) /\ Covered(run[r], stored) /\ run[r].outcome = "none" /\ run[r].day \in Days
    BY OnItsWay DEF Inv, Judge
  <1>2. CASE ~calLoaded
    <2>. DEFINE rec == [run[r] EXCEPT !.pc = "calendar"]
    <2>1. RecOK(rec) /\ Covered(rec, stored) /\ rec.pc = "calendar"
      BY <1>1 DEF RecOK, RunRec, Shape, Covered, PCs
    <2>2. Set(r, rec) /\ calLoaded' /\ UNCHANGED failedCodes
      BY <1>2 DEF Judge
    <2>. QED
      BY <2>1, <2>2, RunStep DEF Inv, ScalarsOK, Judge
  <1>3. CASE calLoaded
    <2>1. AfterJudging(r, Judged(run[r].day)) /\ UNCHANGED calLoaded
      BY <1>3 DEF Judge
    <2>2. PICK rec : Set(r, rec) /\ RecOK(rec) /\ Covered(rec, stored) /\ rec.pc # "calendar"
      <3>1. CASE run[r].core
        <4>1. \/ Set(r, [run[r] EXCEPT !.pc = "pool"])
              \/ Set(r, [run[r] EXCEPT !.pc = "done", !.outcome = "skipped"])
          BY <2>1, <3>1 DEF AfterJudging
        <4>2. /\ RecOK([run[r] EXCEPT !.pc = "pool"])
              /\ Covered([run[r] EXCEPT !.pc = "pool"], stored)
              /\ [run[r] EXCEPT !.pc = "pool"].pc = "pool"
          BY <1>1, <3>1 DEF RecOK, RunRec, Shape, Covered, PCs
        <4>3. /\ RecOK([run[r] EXCEPT !.pc = "done", !.outcome = "skipped"])
              /\ Covered([run[r] EXCEPT !.pc = "done", !.outcome = "skipped"], stored)
              /\ [run[r] EXCEPT !.pc = "done", !.outcome = "skipped"].pc = "done"
          BY <1>1, <3>1 DEF RecOK, RunRec, Shape, Covered, PCs, Outcomes
        <4>. QED
          BY <4>1, <4>2, <4>3
      <3>2. CASE ~run[r].core
        <4>1. \/ Set(r, [run[r] EXCEPT !.core = TRUE, !.day = today])
              \/ Set(r, Replay(run[r], failedCodes))
          BY <2>1, <3>2 DEF AfterJudging
        <4>2. /\ RecOK([run[r] EXCEPT !.core = TRUE, !.day = today])
              /\ Covered([run[r] EXCEPT !.core = TRUE, !.day = today], stored)
              /\ [run[r] EXCEPT !.core = TRUE, !.day = today].pc = "judge"
          BY <1>1, <3>2 DEF RecOK, RunRec, Shape, Covered, Judge, Inv, ScalarsOK
        <4>3. RecOK(Replay(run[r], failedCodes)) /\ Covered(Replay(run[r], failedCodes), stored)
          BY <1>1, ReplayOK DEF Judge, Inv, ScalarsOK
        <4>4. Replay(run[r], failedCodes).pc # "calendar"
          BY <1>1 DEF Replay, RecOK, RunRec
        <4>. QED
          BY <4>1, <4>2, <4>3, <4>4
      <3>. QED
        BY <3>1, <3>2
    <2>3. failedCodes' \subseteq Codes
      BY <2>1 DEF AfterJudging, Inv, ScalarsOK
    <2>. QED
      BY <2>1, <2>2, <2>3, RunStep DEF Inv, ScalarsOK, Judge
  <1>. QED
    BY <1>2, <1>3

LEMMA FetchCalendarStep == ASSUME Inv, NEW r \in Runs, FetchCalendar(r) PROVE Inv'
  <1>. DEFINE rec == [run[r] EXCEPT !.pc = "judge"]
  <1>1. RecOK(run[r]) /\ Covered(run[r], stored) /\ run[r].outcome = "none"
    BY OnItsWay DEF Inv, FetchCalendar
  <1>2. RecOK(rec) /\ Covered(rec, stored) /\ rec.pc # "calendar"
    BY <1>1 DEF RecOK, RunRec, Shape, Covered, PCs
  <1>3. calLoaded = TRUE /\ calUntil' \in Nat
    BY ParametersAssumption DEF FetchCalendar, Inv, ScalarsOK
  <1>4. faults' \in 0..MaxFaults
    BY FaultTyped DEF FetchCalendar, Inv, ScalarsOK
  <1>. QED
    BY <1>2, <1>3, <1>4, RunStep DEF Inv, ScalarsOK, FetchCalendar

LEMMA SelfCheckFailsStep == ASSUME Inv, NEW r \in Runs, SelfCheckFails(r) PROVE Inv'
  <1>. DEFINE s == [run[r] EXCEPT !.swallowed = "check"]
  <1>1. RecOK(run[r]) /\ run[r].outcome = "none"
    BY OnItsWay DEF Inv, SelfCheckFails
  <1>2. RecOK(s) /\ s.pc = "judge"
    BY <1>1 DEF RecOK, RunRec, Shape, SelfCheckFails
  <1>3. RecOK(Replay(s, failedCodes)) /\ Covered(Replay(s, failedCodes), stored)
    BY <1>2, ReplayOK DEF Inv, ScalarsOK
  <1>4. Replay(s, failedCodes).pc # "calendar"
    BY <1>2 DEF Replay, RecOK, RunRec
  <1>5. faults' \in 0..MaxFaults
    BY FaultTyped DEF SelfCheckFails, Inv
  <1>. QED
    BY <1>3, <1>4, <1>5, RunStep DEF Inv, ScalarsOK, SelfCheckFails, calendar

LEMMA ReadPoolStep == ASSUME Inv, NEW r \in Runs, ReadPool(r) PROVE Inv'
  <1>1. RecOK(run[r]) /\ Covered(run[r], stored) /\ run[r].outcome = "none" /\ run[r].core
    BY OnItsWay DEF Inv, ReadPool, RecOK, Shape
  <1>2. faults' \in 0..MaxFaults
    BY FaultTyped DEF ReadPool, Inv, ScalarsOK
  <1>3. PICK rec : Set(r, rec) /\ RecOK(rec) /\ Covered(rec, stored) /\ rec.pc # "calendar"
    <2>1. CASE Set(r, [run[r] EXCEPT !.pc = "sync", !.todo = Codes, !.failed = {}, !.silent = {}])
      <3>. DEFINE rec == [run[r] EXCEPT !.pc = "sync", !.todo = Codes, !.failed = {},
                                        !.silent = {}]
      <3>1. RecOK(rec) /\ Covered(rec, stored) /\ rec.pc = "sync"
        BY <1>1 DEF RecOK, RunRec, Shape, Covered, PCs
      <3>. QED
        BY <2>1, <3>1
    <2>2. CASE Set(r, Raise(run[r], failedCodes))
      <3>1. RecOK(Raise(run[r], failedCodes)) /\ Covered(Raise(run[r], failedCodes), stored)
        BY <1>1, RaiseOK DEF Inv, ScalarsOK, ReadPool
      <3>2. Raise(run[r], failedCodes).pc # "calendar"
        BY <1>1 DEF Raise, Replay, RecOK, RunRec
      <3>. QED
        BY <2>2, <3>1, <3>2
    <2>. QED
      BY <2>1, <2>2 DEF ReadPool
  <1>. QED
    BY <1>2, <1>3, RunStep DEF Inv, ScalarsOK, ReadPool, calendar

\* What is processed leaves the list of codes to do and is counted.
LEMMA ProcessedOK ==
    ASSUME NEW rec, RecOK(rec), NEW cs \in SUBSET rec.todo
    PROVE  /\ RecOK(Processed(rec, cs))
           /\ Processed(rec, cs).todo = rec.todo \ cs
           /\ Processed(rec, cs).failed = rec.failed /\ Processed(rec, cs).silent = rec.silent
           /\ Processed(rec, cs).pc = rec.pc /\ Processed(rec, cs).day = rec.day
           /\ Processed(rec, cs).outcome = rec.outcome
  <1>1. Cardinality(cs) \in Nat
    BY CodesCounted DEF RecOK, RunRec
  <1>. DEFINE n == rec.spent + Cardinality(cs)
  <1>2. n \in Nat /\ rec.todo \ cs \in SUBSET Codes
    BY <1>1 DEF RecOK, RunRec
  <1>3. Processed(rec, cs) = [rec EXCEPT !.todo = rec.todo \ cs, !.spent = n]
    BY DEF Processed
  <1>. HIDE DEF n
  <1>4. Processed(rec, cs) \in RunRec
    BY <1>2, <1>3 DEF RecOK, RunRec
  <1>5. /\ Processed(rec, cs).todo = rec.todo \ cs
        /\ Processed(rec, cs).failed = rec.failed /\ Processed(rec, cs).silent = rec.silent
        /\ Processed(rec, cs).pc = rec.pc /\ Processed(rec, cs).day = rec.day
        /\ Processed(rec, cs).outcome = rec.outcome /\ Processed(rec, cs).core = rec.core
    BY <1>3 DEF RecOK, RunRec
  <1>. QED
    BY <1>4, <1>5 DEF RecOK, Shape

\* A step of run r in a loop: it processes codes, and writes the tables.
LEMMA LoopStep ==
    ASSUME Inv, NEW r \in Runs, NEW rec, Set(r, rec), RecOK(rec), Covered(rec, stored'),
           TablesOK', Grows, rec.pc # "calendar",
           UNCHANGED <<clock, banned, calendar, failedCodes>>, faults' \in 0..MaxFaults
    PROVE  Inv'
  <1>1. RunsOK'
    BY SetKeepsRuns DEF Inv
  <1>2. \A q \in Runs : run'[q] = IF q = r THEN rec ELSE run[q]
    BY DEF Inv, RunsOK, Set
  <1>. QED
    BY <1>1, <1>2 DEF Inv, ScalarsOK, clock, calendar

LEMMA SyncCodeStep == ASSUME Inv, NEW r \in Runs, SyncCode(r) PROVE Inv'
  <1>1. RecOK(run[r]) /\ Covered(run[r], stored) /\ run[r].outcome = "none" /\ run[r].day \in Days
    BY OnItsWay DEF Inv, SyncCode
  <1>2. PICK c \in run[r].todo :
          LET rec    == Processed(run[r], {c})
              failed == [rec EXCEPT !.failed = @ \cup {c}]
              silent == [rec EXCEPT !.silent = @ \cup {c}]
          IN  \/ ~banned /\ Upsert(c, rec.day, Paths) /\ Set(r, rec) /\ UNCHANGED faults
              \/ ~banned /\ Fault
                 /\ \E P \in SUBSET Paths :
                       Upsert(c, rec.day, P) /\ (Set(r, failed) \/ (P # Paths /\ Set(r, silent)))
              \/ banned /\ Set(r, silent) /\ UNCHANGED <<faults, tables>>
    BY DEF SyncCode
  <1>. DEFINE rec    == Processed(run[r], {c})
              failed == [rec EXCEPT !.failed = @ \cup {c}]
              silent == [rec EXCEPT !.silent = @ \cup {c}]
  <1>3. c \in Codes /\ c \notin run[r].failed /\ c \notin run[r].silent
    BY <1>1 DEF RecOK, RunRec
  <1>4. /\ RecOK(rec) /\ rec.todo = run[r].todo \ {c} /\ rec.failed = run[r].failed
        /\ rec.silent = run[r].silent /\ rec.pc = run[r].pc /\ rec.day = run[r].day
        /\ rec.outcome = "none"
    BY <1>1, ProcessedOK
  <1>5. RecOK(failed) /\ RecOK(silent)
    BY <1>3, <1>4 DEF RecOK, RunRec, Shape
  <1>6. /\ failed.todo = rec.todo /\ failed.failed = rec.failed \cup {c}
        /\ failed.silent = rec.silent /\ failed.pc = rec.pc /\ failed.day = rec.day
        /\ failed.outcome = "none"
        /\ silent.todo = rec.todo /\ silent.failed = rec.failed
        /\ silent.silent = rec.silent \cup {c} /\ silent.pc = rec.pc /\ silent.day = rec.day
        /\ silent.outcome = "none"
    BY <1>4 DEF RecOK, RunRec
  <1>7. faults' \in 0..MaxFaults
    BY <1>2, FaultTyped DEF Inv, ScalarsOK
  <1>8. rec.pc # "calendar" /\ failed.pc # "calendar" /\ silent.pc # "calendar"
    BY <1>4, <1>6 DEF SyncCode
  <1>9. CASE Upsert(c, rec.day, Paths) /\ Set(r, rec)
    <2>1. TablesOK' /\ Grows /\ \A p \in Paths : Window(rec.day) \subseteq stored'[p][c]
      BY <1>3, <1>9, UpsertKeeps DEF Inv
    <2>2. Covered(rec, stored')
      BY <2>1, <1>1, <1>4 DEF Covered, Grows
    <2>. QED
      BY <2>1, <2>2, <1>4, <1>7, <1>8, <1>9, LoopStep DEF SyncCode
  <1>10. CASE (Set(r, failed) \/ Set(r, silent)) /\ TablesOK' /\ Grows
    <2>1. Covered(failed, stored') /\ Covered(silent, stored')
      BY <1>1, <1>4, <1>6, <1>10 DEF Covered, Grows
    <2>. QED
      BY <2>1, <1>5, <1>7, <1>8, <1>10, LoopStep DEF SyncCode
  <1>11. ASSUME NEW P \in SUBSET Paths, Upsert(c, rec.day, P) PROVE TablesOK' /\ Grows
    BY <1>3, <1>11, UpsertKeeps DEF Inv
  <1>12. UNCHANGED tables => TablesOK' /\ Grows
    BY Unwritten DEF Inv
  <1>. QED
    BY <1>2, <1>9, <1>10, <1>11, <1>12

LEMMA LoseConnectionStep == ASSUME Inv, NEW r \in Runs, LoseConnection(r) PROVE Inv'
  <1>. DEFINE done == Processed(run[r], run[r].todo)
              rec  == [done EXCEPT !.failed = @ \cup run[r].todo]
  <1>1. RecOK(run[r]) /\ Covered(run[r], stored) /\ run[r].outcome = "none"
    BY OnItsWay DEF Inv, LoseConnection
  <1>2. /\ RecOK(done) /\ done.todo = {} /\ done.failed = run[r].failed
        /\ done.silent = run[r].silent /\ done.pc = run[r].pc /\ done.day = run[r].day
        /\ done.outcome = "none"
    BY <1>1, ProcessedOK
  <1>3. /\ RecOK(rec) /\ rec.todo = {} /\ rec.failed = run[r].failed \cup run[r].todo
        /\ rec.silent = run[r].silent /\ rec.pc = run[r].pc /\ rec.day = run[r].day
        /\ rec.outcome = "none"
    BY <1>1, <1>2 DEF RecOK, RunRec, Shape
  <1>4. TablesOK' /\ Grows
    BY Unwritten DEF Inv, LoseConnection
  <1>5. Covered(rec, stored')
    BY <1>1, <1>3, <1>4 DEF Covered, Grows
  <1>6. faults' \in 0..MaxFaults
    BY FaultTyped DEF Inv, LoseConnection
  <1>7. Set(r, rec) /\ rec.pc # "calendar" /\ UNCHANGED <<clock, banned, calendar, failedCodes>>
    BY <1>3 DEF LoseConnection
  <1>. QED
    BY <1>3, <1>4, <1>5, <1>6, <1>7, LoopStep

LEMMA FinishSyncStep == ASSUME Inv, NEW r \in Runs, FinishSync(r) PROVE Inv'
  <1>. DEFINE ok == [run[r] EXCEPT !.pc = "done", !.outcome = "ok"]
  <1>1. RecOK(run[r]) /\ Covered(run[r], stored) /\ run[r].outcome = "none"
    BY OnItsWay DEF Inv, FinishSync
  <1>2. run[r].failed \subseteq Codes
    BY <1>1 DEF RecOK, RunRec
  <1>3. RecOK(ok) /\ Covered(ok, stored) /\ ok.pc # "calendar"
    BY <1>1 DEF RecOK, RunRec, Shape, Covered, PCs, Outcomes, FinishSync
  <1>4. RecOK(Raise(run[r], run[r].failed)) /\ Covered(Raise(run[r], run[r].failed), stored)
    BY <1>1, <1>2, RaiseOK DEF Inv, ScalarsOK, FinishSync
  <1>5. Raise(run[r], run[r].failed).pc # "calendar"
    BY <1>1 DEF Raise, Replay, RecOK, RunRec, FinishSync
  <1>6. PICK rec : Set(r, rec) /\ RecOK(rec) /\ Covered(rec, stored) /\ rec.pc # "calendar"
    BY <1>3, <1>4, <1>5 DEF FinishSync
  <1>. QED
    BY <1>2, <1>6, RunStep DEF Inv, ScalarsOK, FinishSync, calendar

LEMMA FinishReplayStep == ASSUME Inv, NEW r \in Runs, FinishReplay(r) PROVE Inv'
  <1>. DEFINE ok == [run[r] EXCEPT !.pc = "done", !.outcome = "ok"]
  <1>1. RecOK(run[r]) /\ Covered(run[r], stored) /\ ~run[r].core
    BY OnItsWay DEF Inv, FinishReplay, RecOK, Shape
  <1>2. RecOK(ok) /\ Covered(ok, stored) /\ ok.pc # "calendar"
    BY <1>1 DEF RecOK, RunRec, Shape, Covered, PCs, Outcomes
  <1>3. Set(r, ok)
    BY DEF FinishReplay
  <1>. QED
    BY <1>2, <1>3, RunStep DEF Inv, ScalarsOK, FinishReplay, calendar

-----------------------------------------------------------------------------
(* The invariant, and the theorems.                                        *)

LEMMA InitInv == Init => Inv
  <1>. SUFFICES ASSUME Init PROVE Inv
    OBVIOUS
  <1>1. RunsOK
    BY NoRunOK DEF Init, RunsOK, RecOK
  <1>2. TablesOK
    BY ParametersAssumption DEF Init, TablesOK
  <1>3. \A r \in Runs : run[r].pc # "calendar"
    BY DEF Init, NoRun
  <1>4. ScalarsOK
    <2>1. today \in Days /\ slot \in 0..2 /\ faults \in 0..MaxFaults /\ calUntil \in Nat
      BY DaysAreNat, ParametersAssumption DEF Init
    <2>2. banned \in BOOLEAN /\ calLoaded \in BOOLEAN /\ calUntil = 0 /\ failedCodes = {}
      BY DEF Init
    <2>. QED
      BY <1>3, <2>1, <2>2 DEF ScalarsOK
  <1>. QED
    BY <1>1, <1>2, <1>4 DEF Inv

LEMMA AdvanceStep == ASSUME Inv, NEW r \in Runs, Advance(r) PROVE Inv'
  BY JudgeStep, FetchCalendarStep, SelfCheckFailsStep, ReadPoolStep, SyncCodeStep,
     LoseConnectionStep, FinishSyncStep, FinishReplayStep DEF Advance

LEMMA NextInv == Inv /\ [Next]_vars => Inv'
  <1>. SUFFICES ASSUME Inv, [Next]_vars PROVE Inv'
    OBVIOUS
  <1>1. CASE UNCHANGED vars
    <2>1. UNCHANGED <<tables, calendar, failedCodes, run, today, slot, faults, banned>>
      BY <1>1 DEF vars, tables, calendar
    <2>. QED
      BY <2>1, OutsideStep DEF Inv, ScalarsOK
  <1>2. CASE Next
    BY <1>2, AdvanceStep, CronFireStep, CronMissedStep, ManualRunStep, MidnightStep,
       CrashStep, BanStep DEF Next
  <1>. QED
    BY <1>1, <1>2

LEMMA Invariance == Spec => []Inv
  BY InitInv, NextInv, PTL DEF Spec

\* Every reachable state is well typed: no run loses or doubles a code, no bar is
\* settled that is not stored.
THEOREM TypeCorrect == Spec => []TypeOK
  <1>1. Inv => TypeOK
    BY DEF Inv, ScalarsOK, TablesOK, RunsOK, RecOK, TypeOK
  <1>. QED
    BY <1>1, Invariance, PTL

\* A core that ended left the look-back window of every code that it neither failed
\* nor got no answer for on every write path (the comment on
\* _last_run_failed_codes that the next 17:30 run still covers everything).
THEOREM NextRunCovers == Spec => []LookbackCovers
  <1>1. Inv => LookbackCovers
    <2>. SUFFICES ASSUME Inv, NEW r \in Runs, run[r].outcome = "ok", run[r].core,
                         NEW c \in Codes \ (run[r].failed \cup run[r].silent),
                         NEW p \in Paths
                  PROVE  {w \in TradeDays : run[r].day - Lookback <= w /\ w <= run[r].day}
                             \subseteq stored[p][c]
      BY DEF LookbackCovers
    <2>1. run[r].todo = {} /\ Covered(run[r], stored)
      BY DEF Inv, RunsOK, RecOK, Shape
    <2>. QED
      BY <2>1 DEF Covered, Window
  <1>. QED
    BY <1>1, Invariance, PTL

-----------------------------------------------------------------------------
(* The calendar.  What it takes for a run to skip no trade day is that any  *)
(* calendar the process may have fetched covers every trade day it will     *)
(* meet, which the code does not see to (run sync_calendar).                *)

CalendarCovers == \A d \in Days, t \in TradeDays : t <= Horizon[d]

SkipInv == (calUntil # 0 => \A t \in TradeDays : t <= calUntil) /\ SkipsOnlyHolidays

\* No step but that of the core that judges its own day makes a run skipped.
Unskipped(r) == \E rec : Set(r, rec) /\ rec.outcome # "skipped"

LEMMA OnlyJudgeSkips ==
    ASSUME Inv, NEW r \in Runs, Advance(r)
    PROVE  \/ Unskipped(r)
           \/ /\ Set(r, [run[r] EXCEPT !.pc = "done", !.outcome = "skipped"])
              /\ ~Judged(run[r].day) /\ UNCHANGED calUntil
  <1>1. run[r].pc \notin {"none", "done"}
    BY DEF Advance, Judge, FetchCalendar, SelfCheckFails, ReadPool, SyncCode, LoseConnection,
           FinishSync, FinishReplay
  <1>2. run[r] \in RunRec /\ run[r].outcome = "none"
    BY <1>1, OnItsWay DEF Inv, RecOK
  <1>3. ASSUME NEW rec \in RunRec, rec.outcome = "none", NEW list
        PROVE  Replay(rec, list).outcome # "skipped" /\ Raise(rec, list).outcome # "skipped"
    BY <1>3 DEF Replay, Raise, RunRec
  <1>0. ASSUME NEW rec, Set(r, rec), rec.outcome # "skipped" PROVE Unskipped(r)
    BY <1>0 DEF Unskipped
  <1>4. CASE Judge(r)
    <2>. DEFINE again == [run[r] EXCEPT !.core = TRUE, !.day = today]
                pool  == [run[r] EXCEPT !.pc = "pool"]
    <2>1. /\ again.outcome # "skipped" /\ pool.outcome # "skipped"
          /\ Replay(run[r], failedCodes).outcome # "skipped"
      BY <1>2, <1>3 DEF RunRec
    <2>2. CASE ~calLoaded
      <3>1. Set(r, [run[r] EXCEPT !.pc = "calendar"])
            /\ [run[r] EXCEPT !.pc = "calendar"].outcome = "none"
        BY <1>2, <1>4, <2>2 DEF Judge, RunRec
      <3>. QED
        BY <3>1, <1>0
    <2>3. CASE calLoaded /\ run[r].core
      <3>1. \/ Set(r, pool)
            \/ /\ Set(r, [run[r] EXCEPT !.pc = "done", !.outcome = "skipped"])
               /\ ~Judged(run[r].day) /\ UNCHANGED calUntil
        BY <1>4, <2>3 DEF Judge, AfterJudging
      <3>. QED
        BY <2>1, <3>1, <1>0
    <2>4. CASE calLoaded /\ ~run[r].core
      <3>1. Set(r, again) \/ Set(r, Replay(run[r], failedCodes))
        BY <1>4, <2>4 DEF Judge, AfterJudging
      <3>. QED
        BY <2>1, <3>1, <1>0
    <2>. QED
      BY <2>2, <2>3, <2>4
  <1>5. CASE FetchCalendar(r)
    BY <1>2, <1>5 DEF FetchCalendar, Unskipped, RunRec
  <1>6. CASE SelfCheckFails(r)
    <2>1. [run[r] EXCEPT !.swallowed = "check"] \in RunRec
          /\ [run[r] EXCEPT !.swallowed = "check"].outcome = "none"
      BY <1>2 DEF RunRec
    <2>. QED
      BY <1>3, <1>6, <2>1 DEF SelfCheckFails, Unskipped
  <1>7. CASE ReadPool(r)
    <2>. DEFINE start == [run[r] EXCEPT !.pc = "sync", !.todo = Codes, !.failed = {},
                                        !.silent = {}]
    <2>1. start.outcome # "skipped" /\ Raise(run[r], failedCodes).outcome # "skipped"
      BY <1>2, <1>3 DEF RunRec
    <2>2. Set(r, start) \/ Set(r, Raise(run[r], failedCodes))
      BY <1>7 DEF ReadPool
    <2>. QED
      BY <2>1, <2>2, <1>0
  <1>8. CASE SyncCode(r)
    <2>1. PICK c \in run[r].todo :
            LET rec == Processed(run[r], {c}) IN
            \/ Set(r, rec)
            \/ Set(r, [rec EXCEPT !.failed = @ \cup {c}])
            \/ Set(r, [rec EXCEPT !.silent = @ \cup {c}])
      BY <1>8 DEF SyncCode
    <2>. DEFINE rec    == Processed(run[r], {c})
                failed == [rec EXCEPT !.failed = @ \cup {c}]
                silent == [rec EXCEPT !.silent = @ \cup {c}]
    <2>2. RecOK(rec) /\ rec.outcome = "none"
      BY <1>1, <1>2, OnItsWay, ProcessedOK DEF Inv
    <2>3. failed.outcome = "none" /\ silent.outcome = "none"
      BY <2>2 DEF RecOK, RunRec
    <2>4. Set(r, rec) \/ Set(r, failed) \/ Set(r, silent)
      BY <2>1
    <2>. HIDE DEF rec, failed, silent
    <2>. QED
      BY <2>2, <2>3, <2>4, <1>0
  <1>9. CASE LoseConnection(r)
    <2>. DEFINE done == Processed(run[r], run[r].todo)
                rec  == [done EXCEPT !.failed = @ \cup run[r].todo]
    <2>1. RecOK(done) /\ done.outcome = "none"
      BY <1>1, <1>2, OnItsWay, ProcessedOK DEF Inv
    <2>2. rec.outcome = "none"
      BY <2>1 DEF RecOK, RunRec
    <2>3. Set(r, rec)
      BY <1>9 DEF LoseConnection
    <2>. HIDE DEF rec
    <2>. QED
      BY <2>2, <2>3, <1>0
  <1>10. CASE FinishSync(r)
    <2>. DEFINE ok == [run[r] EXCEPT !.pc = "done", !.outcome = "ok"]
    <2>1. ok.outcome # "skipped" /\ Raise(run[r], run[r].failed).outcome # "skipped"
      BY <1>2, <1>3 DEF RunRec
    <2>2. Set(r, ok) \/ Set(r, Raise(run[r], run[r].failed))
      BY <1>10 DEF FinishSync
    <2>. QED
      BY <2>1, <2>2, <1>0
  <1>11. CASE FinishReplay(r)
    <2>1. Set(r, [run[r] EXCEPT !.pc = "done", !.outcome = "ok"])
          /\ [run[r] EXCEPT !.pc = "done", !.outcome = "ok"].outcome = "ok"
      BY <1>2, <1>11 DEF FinishReplay, RunRec
    <2>. QED
      BY <2>1, <1>0
  <1>. QED
    BY <1>4, <1>5, <1>6, <1>7, <1>8, <1>9, <1>10, <1>11 DEF Advance

\* The calendar changes only to nothing or to what is published today.
LEMMA CalendarChange ==
    ASSUME Next PROVE calUntil' \in {calUntil, 0, Horizon[today]}
  BY DEF Next, Advance, CronFire, CronMissed, ManualRun, Midnight, Crash, Ban, Judge,
         FetchCalendar, SelfCheckFails, ReadPool, SyncCode, LoseConnection, FinishSync,
         FinishReplay, calendar

LEMMA SkipStep ==
    ASSUME Inv, SkipInv, Next, CalendarCovers PROVE SkipInv'
  <1>1. calUntil' # 0 => \A t \in TradeDays : t <= calUntil'
    BY CalendarChange DEF CalendarCovers, SkipInv, Inv, ScalarsOK
  <1>2. ASSUME NEW q \in Runs, run'[q].outcome = "skipped" PROVE run'[q].day \notin TradeDays
    <2>1. CASE run'[q] = run[q]
      BY <1>2, <2>1 DEF SkipInv, SkipsOnlyHolidays
    <2>2. ASSUME NEW r \in Runs, NEW rec, Set(r, rec), rec.outcome # "skipped"
          PROVE  run'[q] = run[q]
      BY <1>2, <2>2 DEF Set, Inv, RunsOK
    <2>3. CASE \E k \in Kinds : Launch(k)
      BY <1>2, <2>1, <2>2, <2>3 DEF Launch, NoRun
    <2>4. CASE Crash
      BY <1>2, <2>4 DEF Crash, NoRun
    <2>5. CASE \E r \in Runs : Advance(r)
      <3>1. PICK r \in Runs : Advance(r)
        BY <2>5
      <3>2. CASE Unskipped(r)
        BY <2>1, <2>2, <3>2 DEF Unskipped
      <3>3. CASE /\ Set(r, [run[r] EXCEPT !.pc = "done", !.outcome = "skipped"])
                 /\ ~Judged(run[r].day)
        <4>1. CASE q # r
          BY <2>1, <3>3, <4>1 DEF Set, Inv, RunsOK
        <4>2. CASE q = r
          <5>1. run'[q].day = run[r].day
            BY <3>3, <4>2 DEF Set, Inv, RunsOK, RunRec
          <5>. QED
            BY <3>3, <5>1 DEF Judged, SkipInv
        <4>. QED
          BY <4>1, <4>2
      <3>. QED
        BY <3>1, <3>2, <3>3, OnlyJudgeSkips
    <2>6. CASE CronFire
      BY <2>3, <2>6 DEF CronFire, Kinds
    <2>7. CASE ManualRun
      BY <2>3, <2>7 DEF ManualRun
    <2>8. CASE CronMissed \/ Midnight \/ Ban
      BY <2>1, <2>8 DEF CronMissed, Midnight, Ban
    <2>. QED
      BY <2>4, <2>5, <2>6, <2>7, <2>8 DEF Next
  <1>. QED
    BY <1>1, <1>2 DEF SkipInv, SkipsOnlyHolidays

\* While every calendar that is fetched covers the trade days to come, no run skips
\* one, whatever the races and failures of loading it ("wrongly skipping
\* a real trading day would lose a day of data", scheduler.py).
THEOREM NoTradeDaySkipped ==
    ASSUME CalendarCovers PROVE Spec => []SkipsOnlyHolidays
  <1>1. Init => SkipInv
    BY DEF Init, SkipInv, SkipsOnlyHolidays, NoRun
  <1>2. Inv /\ SkipInv /\ [Next]_vars => SkipInv'
    <2>1. UNCHANGED vars /\ SkipInv => SkipInv'
      BY DEF vars, SkipInv, SkipsOnlyHolidays
    <2>. QED
      BY <2>1, SkipStep
  <1>3. SkipInv => SkipsOnlyHolidays
    BY DEF SkipInv
  <1>. QED
    BY <1>1, <1>2, <1>3, Invariance, PTL DEF Spec

-----------------------------------------------------------------------------
(* The list of failed codes, which runs share without a lock.               *)

Waiting == {"none", "judge", "calendar", "pool"}
Active(q) == run[q].pc \notin {"none", "done"}

\* Before its loop a run has booked nothing, a main run does not leave the core, and
\* while a main run of today is known, whoever is on its way works on today.
RunsOfToday ==
    /\ today # 0
    /\ \A q \in Runs :
          /\ run[q].day <= today
          /\ run[q].pc \in Waiting => run[q].failed = {} /\ run[q].silent = {}
          /\ run[q].kind = "main" /\ Active(q) => run[q].core
          /\ run[q].kind = "main" /\ run[q].pc # "none" /\ run[q].day = today
                => \A x \in Runs : Active(x) => run[x].day = today

\* What a step of its own makes of the record of a run.
Moved(old, new) ==
    /\ new \in RunRec /\ new.pc # "none" /\ new.kind = old.kind /\ new.day \in {old.day, today}
    /\ old.kind = "main" => new.day = old.day /\ new.core
    /\ old.pc = "replay" => /\ new.pc \in {"replay", "done"} /\ new.core = old.core
                            /\ new.day = old.day
    /\ new.pc \in Waiting => new.failed = {} /\ new.silent = {}
    /\ old.silent \subseteq new.silent
    /\ old.kind = "main" /\ new.pc = "done" => new.failed = {} \/ failedCodes' = new.failed

\* A compensation reaches its replay, or ends, with no code left unanswered behind it.
LEMMA ReplayMoved ==
    ASSUME NEW old \in RunRec, NEW rec \in RunRec, NEW list \in SUBSET Codes, today \in Days,
           rec.kind = old.kind, rec.day = old.day, old.kind # "main", old.pc # "replay",
           old.silent = {}, Replay(rec, list) \in RunRec
    PROVE  Moved(old, Replay(rec, list))
  BY DEF Replay, Moved, RunRec, Kinds, Waiting

LEMMA RaiseMoved ==
    ASSUME NEW old \in RunRec, NEW list \in SUBSET Codes, today \in Days, old.pc # "replay",
           old.silent = {}, old.kind = "main" => old.core /\ (old.failed = {} \/ failedCodes' = old.failed),
           Raise(old, list) \in RunRec
    PROVE  Moved(old, Raise(old, list))
  <1>1. CASE old.kind = "main"
    BY <1>1 DEF Raise, Moved, RunRec, Waiting
  <1>2. CASE old.kind # "main"
    <2> DEFINE rec == [old EXCEPT !.swallowed = "core"]
    <2>1. rec \in RunRec /\ rec.kind = old.kind /\ rec.day = old.day
      BY DEF RunRec
    <2>2. Raise(old, list) = Replay(rec, list)
      BY <1>2 DEF Raise
    <2> QED
      BY <1>2, <2>1, <2>2, ReplayMoved
  <1> QED
    BY <1>1, <1>2

LEMMA RunMoves ==
    ASSUME Inv, RunsOfToday, NEW r \in Runs, Advance(r)
    PROVE  \E new : Set(r, new) /\ Moved(run[r], new)
  <1>1. run[r].pc \notin {"none", "done"}
    BY DEF Advance, Judge, FetchCalendar, SelfCheckFails, ReadPool, SyncCode, LoseConnection,
           FinishSync, FinishReplay
  <1>2. /\ run[r] \in RunRec /\ RecOK(run[r]) /\ today \in Days /\ failedCodes \in SUBSET Codes
        /\ run[r].kind = "main" => run[r].core
        /\ run[r].pc \in Waiting => run[r].failed = {} /\ run[r].silent = {}
    BY <1>1, OnItsWay DEF Inv, ScalarsOK, RecOK, RunsOfToday, Active
  <1>3. CASE Judge(r)
    <2>1. CASE ~calLoaded
      <3>1. Set(r, [run[r] EXCEPT !.pc = "calendar"])
        BY <1>3, <2>1 DEF Judge
      <3>2. Moved(run[r], [run[r] EXCEPT !.pc = "calendar"])
        BY <1>2, <1>3 DEF Judge, Moved, RunRec, Waiting, PCs
      <3> QED
        BY <3>1, <3>2
    <2>2. CASE calLoaded /\ run[r].core
      <3>1. \/ Set(r, [run[r] EXCEPT !.pc = "pool"])
            \/ Set(r, [run[r] EXCEPT !.pc = "done", !.outcome = "skipped"])
        BY <1>3, <2>2 DEF Judge, AfterJudging
      <3>2. /\ Moved(run[r], [run[r] EXCEPT !.pc = "pool"])
            /\ Moved(run[r], [run[r] EXCEPT !.pc = "done", !.outcome = "skipped"])
        BY <1>2, <1>3 DEF Judge, Moved, RunRec, Waiting, PCs, Outcomes
      <3> QED
        BY <3>1, <3>2
    <2>3. CASE calLoaded /\ ~run[r].core
      <3>1. \/ Set(r, [run[r] EXCEPT !.core = TRUE, !.day = today])
            \/ Set(r, Replay(run[r], failedCodes))
        BY <1>3, <2>3 DEF Judge, AfterJudging
      <3>2. Moved(run[r], [run[r] EXCEPT !.core = TRUE, !.day = today])
        BY <1>2, <1>3, <2>3 DEF Judge, Moved, RunRec, Waiting
      <3>3. Replay(run[r], failedCodes) \in RunRec
        BY <1>1, <1>2, ReplayOK DEF RecOK
      <3>4. Moved(run[r], Replay(run[r], failedCodes))
        BY <1>2, <1>3, <2>3, <3>3, ReplayMoved DEF Judge, Waiting
      <3> QED
        BY <3>1, <3>2, <3>4
    <2> QED
      BY <2>1, <2>2, <2>3
  <1>4. CASE FetchCalendar(r)
    <2>1. Set(r, [run[r] EXCEPT !.pc = "judge"])
      BY <1>4 DEF FetchCalendar
    <2>2. Moved(run[r], [run[r] EXCEPT !.pc = "judge"])
      BY <1>2, <1>4 DEF FetchCalendar, Moved, RunRec, Waiting, PCs
    <2> QED
      BY <2>1, <2>2
  <1>5. CASE SelfCheckFails(r)
    <2> DEFINE s == [run[r] EXCEPT !.swallowed = "check"]
    <2>1. s \in RunRec /\ RecOK(s) /\ s.pc = "judge" /\ s.kind = run[r].kind /\ s.day = run[r].day
      BY <1>2, <1>5 DEF RecOK, RunRec, Shape, SelfCheckFails
    <2>2. Replay(s, failedCodes) \in RunRec
      BY <1>2, <2>1, ReplayOK DEF RecOK
    <2>3. Set(r, Replay(s, failedCodes)) /\ run[r].pc = "judge" /\ ~run[r].core
      BY <1>5 DEF SelfCheckFails
    <2> HIDE DEF s
    <2>4. Moved(run[r], Replay(s, failedCodes))
      BY <1>2, <2>1, <2>2, <2>3, ReplayMoved DEF Waiting
    <2> QED
      BY <2>3, <2>4
  <1>6. CASE ReadPool(r)
    <2> DEFINE start == [run[r] EXCEPT !.pc = "sync", !.todo = Codes, !.failed = {}, !.silent = {}]
    <2>1. Set(r, start) \/ Set(r, Raise(run[r], failedCodes))
      BY <1>6 DEF ReadPool
    <2>2. Moved(run[r], start)
      BY <1>2, <1>6 DEF ReadPool, Moved, RunRec, Waiting, PCs
    <2>3. Raise(run[r], failedCodes) \in RunRec
      BY <1>1, <1>2, RaiseOK DEF RecOK
    <2>4. Moved(run[r], Raise(run[r], failedCodes))
      BY <1>2, <1>6, <2>3, RaiseMoved DEF ReadPool, Waiting
    <2> QED
      BY <2>1, <2>2, <2>4
  <1>7. CASE SyncCode(r)
    <2>1. PICK c \in run[r].todo :
            LET rec == Processed(run[r], {c}) IN
            \/ Set(r, rec)
            \/ Set(r, [rec EXCEPT !.failed = @ \cup {c}])
            \/ Set(r, [rec EXCEPT !.silent = @ \cup {c}])
      BY <1>7 DEF SyncCode
    <2> DEFINE rec    == Processed(run[r], {c})
               failed == [rec EXCEPT !.failed = @ \cup {c}]
               silent == [rec EXCEPT !.silent = @ \cup {c}]
    <2>2. /\ rec \in RunRec /\ rec.pc = run[r].pc /\ rec.day = run[r].day
          /\ rec.silent = run[r].silent /\ rec.kind = run[r].kind /\ rec.core = run[r].core
      <3>1. /\ RecOK(rec) /\ rec.pc = run[r].pc /\ rec.day = run[r].day
            /\ rec.silent = run[r].silent
        BY <1>2, ProcessedOK
      <3>2. rec.kind = run[r].kind /\ rec.core = run[r].core
        BY <1>2 DEF Processed, RunRec
      <3> QED
        BY <3>1, <3>2 DEF RecOK
    <2>3. Set(r, rec) \/ Set(r, failed) \/ Set(r, silent)
      BY <2>1
    <2>4. c \in Codes /\ run[r].pc \in {"sync", "replay"}
      BY <1>2, <1>7 DEF RunRec, SyncCode
    <2> HIDE DEF rec
    <2>5. Moved(run[r], rec) /\ Moved(run[r], failed) /\ Moved(run[r], silent)
      BY <1>2, <2>2, <2>4 DEF Moved, RunRec, Waiting
    <2> QED
      BY <2>3, <2>5
  <1>8. CASE LoseConnection(r)
    <2> DEFINE done == Processed(run[r], run[r].todo)
               rec  == [done EXCEPT !.failed = @ \cup run[r].todo]
    <2>1. /\ done \in RunRec /\ done.pc = run[r].pc /\ done.day = run[r].day
          /\ done.silent = run[r].silent /\ done.kind = run[r].kind /\ done.core = run[r].core
      BY <1>2, ProcessedOK DEF RecOK, RunRec, Processed
    <2>2. run[r].todo \subseteq Codes /\ run[r].pc \in {"sync", "replay"}
      BY <1>2, <1>8 DEF RunRec, LoseConnection
    <2>3. Set(r, rec)
      BY <1>8 DEF LoseConnection
    <2> HIDE DEF done
    <2>4. Moved(run[r], rec)
      BY <1>2, <2>1, <2>2 DEF Moved, RunRec, Waiting
    <2> QED
      BY <2>3, <2>4
  <1>9. CASE FinishSync(r)
    <2> DEFINE ok == [run[r] EXCEPT !.pc = "done", !.outcome = "ok"]
    <2>1. run[r].pc = "sync" /\ failedCodes' = run[r].failed
      BY <1>9 DEF FinishSync
    <2>2. CASE run[r].failed = Codes
      <3>1. Set(r, Raise(run[r], run[r].failed))
        BY <1>9, <2>2 DEF FinishSync
      <3>2. run[r].silent = {}
        BY <1>2, <2>2 DEF RecOK, RunRec
      <3>3. Raise(run[r], run[r].failed) \in RunRec
        BY <1>1, <1>2, <2>2, RaiseOK DEF RecOK
      <3>4. Moved(run[r], Raise(run[r], run[r].failed))
        BY <1>2, <2>1, <2>2, <3>2, <3>3, RaiseMoved
      <3> QED
        BY <3>1, <3>4
    <2>3. CASE run[r].failed # Codes
      <3>1. Set(r, ok)
        BY <1>9, <2>3 DEF FinishSync
      <3>2. Moved(run[r], ok)
        BY <1>2, <2>1 DEF Moved, RunRec, Waiting, PCs, Outcomes
      <3> QED
        BY <3>1, <3>2
    <2> QED
      BY <2>2, <2>3
  <1>10. CASE FinishReplay(r)
    <2> DEFINE ok == [run[r] EXCEPT !.pc = "done", !.outcome = "ok"]
    <2>1. Set(r, ok) /\ run[r].pc = "replay" /\ ~run[r].core
      BY <1>2, <1>10 DEF FinishReplay, RecOK, Shape
    <2>2. Moved(run[r], ok)
      BY <1>2, <2>1 DEF Moved, RunRec, Waiting, PCs, Outcomes
    <2> QED
      BY <2>1, <2>2
  <1> QED
    BY <1>3, <1>4, <1>5, <1>6, <1>7, <1>8, <1>9, <1>10 DEF Advance

\* A launched run is new, and it finds no run of another day on its way.
LEMMA LaunchRuns ==
    ASSUME Inv, RunsOfToday, NEW k \in Kinds, Launch(k), today' = today
    PROVE  RunsOfToday'
  <1>1. PICK r \in Runs :
          /\ run[r].pc = "none"
          /\ Set(r, [NoRun EXCEPT !.kind = k, !.pc = "judge", !.day = today, !.checked = today,
                                  !.core = k = "main"])
    BY DEF Launch
  <1>2. /\ run'[r].pc = "judge" /\ run'[r].day = today /\ run'[r].failed = {}
        /\ run'[r].silent = {} /\ run'[r].kind = k /\ (k = "main" => run'[r].core)
        /\ \A q \in Runs \ {r} : run'[q] = run[q]
    BY <1>1 DEF Set, NoRun, Inv, RunsOK
  <1>3. \A q \in Runs : Active(q) => run[q].day = today
    BY DEF Launch, Active
  <1>4. today \in Nat
    BY DaysAreNat DEF Inv, ScalarsOK
  <1> QED
    BY <1>2, <1>3, <1>4 DEF RunsOfToday, Active, Waiting

\* Runs keep to their day: the third line of defence of the shared list.
LEMMA RunsStayOfToday == Inv /\ RunsOfToday /\ [Next]_vars => RunsOfToday'
  <1> SUFFICES ASSUME Inv, RunsOfToday, [Next]_vars PROVE RunsOfToday'
    OBVIOUS
  <1>0. today \in Nat /\ run \in [Runs -> RunRec] /\ \A q \in Runs : run[q].day \in Nat
    BY DaysAreNat DEF Inv, ScalarsOK, RunsOK, RunRec
  <1>1. CASE CronFire
    <2>1. PICK k \in Kinds : Launch(k)
      BY <1>1 DEF CronFire, Kinds
    <2> QED
      BY <1>1, <2>1, LaunchRuns DEF CronFire
  <1>2. CASE ManualRun
    BY <1>2, LaunchRuns DEF ManualRun, clock
  <1>3. CASE CronMissed \/ Ban \/ UNCHANGED vars
    <2>1. run' = run /\ today' = today
      BY <1>3 DEF CronMissed, Ban, vars, clock
    <2> QED
      BY <2>1 DEF RunsOfToday, Active
  <1>4. CASE Midnight
    <2>1. run' = run /\ today' = today + 1
      BY <1>4 DEF Midnight
    <2> QED
      BY <1>0, <2>1 DEF RunsOfToday, Active
  <1>5. CASE Crash
    <2>1. today' = today /\ \A q \in Runs : /\ run'[q].pc \in {"none", "done"} /\ run'[q].day = 0
                                            /\ run'[q].failed = {} /\ run'[q].silent = {}
      BY <1>5 DEF Crash, NoRun, clock
    <2> QED
      BY <1>0, <2>1 DEF RunsOfToday, Active
  <1>6. ASSUME NEW r \in Runs, Advance(r) PROVE RunsOfToday'
    <2>1. PICK new : Set(r, new) /\ Moved(run[r], new)
      BY <1>6, RunMoves
    <2>2. run'[r] = new /\ \A q \in Runs \ {r} : run'[q] = run[q]
      BY <1>0, <2>1 DEF Set
    <2>3. today' = today /\ Active(r)
      BY <1>6 DEF Advance, Judge, FetchCalendar, SelfCheckFails, ReadPool, SyncCode,
         LoseConnection, FinishSync, FinishReplay, clock, Active
    <2>4. new.kind = run[r].kind /\ new.day \in {run[r].day, today} /\ new.pc # "none"
          /\ (run[r].kind = "main" => new.day = run[r].day /\ new.core)
          /\ (new.pc \in Waiting => new.failed = {} /\ new.silent = {})
      BY <2>1 DEF Moved
    <2>5. ASSUME NEW q \in Runs
          PROVE  /\ run'[q].day <= today
                 /\ run'[q].pc \in Waiting => run'[q].failed = {} /\ run'[q].silent = {}
                 /\ run'[q].kind = "main" /\ run'[q].pc \notin {"none", "done"} => run'[q].core
      BY <1>0, <2>2, <2>3, <2>4 DEF RunsOfToday, Active
    <2>6. ASSUME NEW q \in Runs, run'[q].kind = "main", run'[q].pc # "none", run'[q].day = today,
                 NEW x \in Runs, run'[x].pc \notin {"none", "done"}
          PROVE  run'[x].day = today
      <3>1. run[q].kind = "main" /\ run[q].pc # "none" /\ run[q].day = today
        BY <2>2, <2>3, <2>4, <2>6 DEF Active
      <3>2. Active(x)
        BY <2>2, <2>3, <2>6 DEF Active
      <3>3. run[x].day = today
        BY <3>1, <3>2 DEF RunsOfToday
      <3> QED
        BY <2>2, <2>4, <3>3
    <2> QED
      BY <2>3, <2>5, <2>6 DEF RunsOfToday, Active
  <1> QED
    BY <1>1, <1>2, <1>3, <1>4, <1>5, <1>6 DEF Next

\* The tables change by the upsert of one code only.
LEMMA OneUpsert ==
    ASSUME Inv, [Next]_vars
    PROVE  \/ UNCHANGED tables
           \/ \E r \in Runs : Active(r) /\ \E c \in Codes, P \in SUBSET Paths : Upsert(c, run[r].day, P)
  <1>1. ASSUME NEW r \in Runs, SyncCode(r), ~UNCHANGED tables
        PROVE  Active(r) /\ \E c \in Codes, P \in SUBSET Paths : Upsert(c, run[r].day, P)
    <2>1. PICK c \in run[r].todo :
            \/ Upsert(c, Processed(run[r], {c}).day, Paths)
            \/ \E P \in SUBSET Paths : Upsert(c, Processed(run[r], {c}).day, P)
      BY <1>1 DEF SyncCode
    <2>2. RecOK(run[r]) /\ c \in Codes
      BY DEF Inv, RunsOK, RunRec
    <2>3. Processed(run[r], {c}).day = run[r].day
      BY <2>2, ProcessedOK
    <2> QED
      BY <1>1, <2>1, <2>2, <2>3 DEF Active, SyncCode
  <1>2. CASE \A r \in Runs : ~SyncCode(r)
    BY <1>2 DEF Next, Advance, CronFire, CronMissed, ManualRun, Midnight, Crash, Ban, Judge,
       FetchCalendar, SelfCheckFails, ReadPool, LoseConnection, FinishSync, FinishReplay,
       vars, tables
  <1> QED
    BY <1>1, <1>2


\* No step takes a bar away.
LEMMA BarsStay == ASSUME Inv, [Next]_vars PROVE Grows
  BY OneUpsert, UpsertKeeps, Unwritten DEF Inv

\* What has become of the bar of today of a code: stored, or nobody answered for it.
Answered(c) ==
    \/ \A p \in Paths : today \in stored[p][c]
    \/ \E q \in Runs : run[q].day = today /\ c \in run[q].silent
\* A compensation of today has left its core: it replays the list, or has.
Replayed == \E q \in Runs : /\ run[q].kind = "retry" /\ run[q].day = today
                            /\ ~run[q].core /\ run[q].pc \in {"replay", "done"}

\* A core of today that has come to the end of its loop has stored what it does not list.
LEMMA LoopAnswers ==
    ASSUME Inv, NEW q \in Runs, run[q].pc = "sync", run[q].todo = {}, run[q].day = today,
           today \in TradeDays, NEW c \in Codes, c \notin run[q].failed
    PROVE  Answered(c)
  <1>1. today \in Nat /\ Lookback \in Nat
    BY DaysAreNat, ParametersAssumption DEF Inv, ScalarsOK
  <1>2. today \in Window(today)
    BY <1>1 DEF Window
  <1>3. c \in run[q].silent \/ \A p \in Paths : Window(today) \subseteq stored[p][c]
    BY DEF Inv, RunsOK, Covered
  <1> QED
    BY <1>2, <1>3 DEF Answered

\* On the same day an answer stays one.
LEMMA AnswerLasts ==
    ASSUME Inv, RunsOfToday, NEW r \in Runs, Advance(r), NEW c \in Codes, Answered(c)
    PROVE  Answered(c)'
  <1>1. today' = today
    BY DEF Advance, Judge, FetchCalendar, SelfCheckFails, ReadPool, SyncCode,
       LoseConnection, FinishSync, FinishReplay, clock
  <1>2. Grows
    BY BarsStay DEF Next
  <1>3. CASE \A p \in Paths : today \in stored[p][c]
    BY <1>1, <1>2, <1>3 DEF Answered, Grows
  <1>4. ASSUME NEW q \in Runs, run[q].day = today, c \in run[q].silent PROVE Answered(c)'
    <2>1. PICK new : Set(r, new) /\ Moved(run[r], new)
      BY RunMoves
    <2>2. run'[r] = new /\ \A x \in Runs \ {r} : run'[x] = run[x]
      BY <2>1 DEF Set, Inv, RunsOK
    <2>3. run'[q].day = today /\ c \in run'[q].silent
      BY <1>4, <2>1, <2>2 DEF Moved
    <2> QED
      BY <1>1, <2>3 DEF Answered
  <1> QED
    BY <1>3, <1>4 DEF Answered

\* A replay of today goes on or is over, today.
LEMMA ReplayLasts ==
    ASSUME Inv, RunsOfToday, NEW r \in Runs, Advance(r), Replayed
    PROVE  Replayed'
  <1>1. today' = today
    BY DEF Advance, Judge, FetchCalendar, SelfCheckFails, ReadPool, SyncCode,
       LoseConnection, FinishSync, FinishReplay, clock
  <1>2. PICK q \in Runs : /\ run[q].kind = "retry" /\ run[q].day = today
                          /\ ~run[q].core /\ run[q].pc \in {"replay", "done"}
    BY DEF Replayed
  <1>3. PICK new : Set(r, new) /\ Moved(run[r], new)
    BY RunMoves
  <1>4. run'[r] = new /\ \A x \in Runs \ {r} : run'[x] = run[x]
    BY <1>3 DEF Set, Inv, RunsOK
  <1>5. r = q => run[q].pc = "replay"
    BY <1>2 DEF Advance, Judge, FetchCalendar, SelfCheckFails, ReadPool, SyncCode,
       LoseConnection, FinishSync, FinishReplay
  <1>6. /\ run'[q].kind = "retry" /\ run'[q].day = today
        /\ ~run'[q].core /\ run'[q].pc \in {"replay", "done"}
    BY <1>2, <1>3, <1>4, <1>5 DEF Moved
  <1> QED
    BY <1>1, <1>6 DEF Replayed

\* What a main run has booked is on the list, answered for, or replayed.
Forgotten(r, c) ==
    /\ run[r].pc = "done" /\ run[r].kind = "main" /\ run[r].day = today /\ today \in TradeDays
    /\ ~Replayed /\ c \notin failedCodes /\ ~Answered(c)

LEMMA AdvanceForgetsNothing ==
    ASSUME Inv, SkipInv, RunsOfToday, NothingForgotten, NEW x \in Runs, Advance(x),
           NEW r \in Runs, NEW c \in run'[r].failed, Forgotten(r, c)'
    PROVE  FALSE
  <1>1. today' = today /\ Active(x)
    BY DEF Advance, Judge, FetchCalendar, SelfCheckFails, ReadPool, SyncCode,
       LoseConnection, FinishSync, FinishReplay, clock, Active
  <1>2. PICK new : Set(x, new) /\ Moved(run[x], new)
    BY RunMoves
  <1>3. run'[x] = new /\ \A q \in Runs \ {x} : run'[q] = run[q]
    BY <1>2 DEF Set, Inv, RunsOK
  <1>4. /\ run[r].kind = "main" /\ run[r].day = today /\ today \in TradeDays
        /\ run[r].pc # "none" /\ run'[r].pc = "done" /\ run'[r].kind = "main"
    BY <1>1, <1>2, <1>3 DEF Forgotten, Moved, Active
  <1>5. run[x].day = today
    BY <1>1, <1>4 DEF RunsOfToday
  <1>6. ~Replayed /\ c \in Codes
    <2>1. run'[r] \in RunRec
      BY <1>2, <1>3 DEF Moved, Inv, RunsOK
    <2> QED
      BY <2>1, ReplayLasts DEF Forgotten, RunRec
  <1>7. ~Answered(c)
    BY <1>6, AnswerLasts DEF Forgotten
  <1>8. CASE r = x
    BY <1>1, <1>2, <1>3, <1>4, <1>8 DEF Forgotten, Moved
  <1>9. CASE r # x
    <2>1. run'[r] = run[r] /\ c \in failedCodes
      BY <1>3, <1>4, <1>6, <1>7, <1>9 DEF NothingForgotten, Replayed, Answered
    <2>2. c \notin failedCodes'
      BY DEF Forgotten
    <2>3. CASE FinishSync(x)
      BY <1>4, <1>5, <1>6, <1>7, <2>2, <2>3, LoopAnswers DEF FinishSync
    <2>4. CASE FinishReplay(x)
      <3>1. run[x].pc = "replay" /\ ~run[x].core /\ run[x].kind \in Kinds
        BY <2>4 DEF FinishReplay, Inv, RunsOK, RecOK, Shape, RunRec
      <3>2. run[x].kind = "retry"
        BY <1>1, <3>1 DEF RunsOfToday, Kinds
      <3> QED
        BY <1>5, <1>6, <3>1, <3>2 DEF Replayed
    <2>5. CASE Judge(x)
      <3>1. run[x].core /\ ~Judged(run[x].day)
        BY <2>1, <2>2, <2>5 DEF Judge, AfterJudging
      <3> QED
        BY <1>4, <1>5, <3>1 DEF Judged, SkipInv
    <2>6. CASE ~FinishSync(x) /\ ~FinishReplay(x) /\ ~Judge(x)
      BY <2>1, <2>2, <2>6 DEF Advance, FetchCalendar, SelfCheckFails, ReadPool, SyncCode,
         LoseConnection
    <2> QED
      BY <2>3, <2>4, <2>5, <2>6
  <1> QED
    BY <1>8, <1>9

LEMMA StepForgetsNothing ==
    ASSUME Inv, SkipInv, RunsOfToday, NothingForgotten, [Next]_vars
    PROVE  NothingForgotten'
  <1> SUFFICES ASSUME NEW r \in Runs, NEW c \in run'[r].failed, Forgotten(r, c)' PROVE FALSE
    BY DEF NothingForgotten, Forgotten, Replayed, Answered
  <1>0. run \in [Runs -> RunRec] /\ today \in Nat /\ \A q \in Runs : run[q].day \in Nat
    BY DaysAreNat DEF Inv, ScalarsOK, RunsOK, RunRec
  <1>1. CASE \E k \in Kinds : Launch(k) /\ UNCHANGED <<today, failedCodes, tables>>
    <2>1. PICK k \in Kinds, x \in Runs :
            /\ run[x].pc = "none"
            /\ Set(x, [NoRun EXCEPT !.kind = k, !.pc = "judge", !.day = today, !.checked = today,
                                    !.core = k = "main"])
      BY <1>1 DEF Launch
    <2>2. run'[x].pc = "judge" /\ \A q \in Runs \ {x} : run'[q] = run[q]
      BY <1>0, <2>1 DEF Set, NoRun
    <2>3. r # x /\ run[x].silent = {}
      BY <2>1, <2>2 DEF Forgotten, RunsOfToday, Waiting
    <2>4. Forgotten(r, c)
      BY <1>1, <2>1, <2>2, <2>3 DEF Forgotten, Replayed, Answered, tables
    <2> QED
      BY <2>2, <2>3, <2>4 DEF NothingForgotten, Forgotten, Replayed, Answered
  <1>2. CASE UNCHANGED <<run, today, failedCodes, stored>>
    BY <1>2 DEF NothingForgotten, Forgotten, Replayed, Answered
  <1>3. CASE Midnight
    <2>1. run' = run /\ today' = today + 1
      BY <1>3 DEF Midnight
    <2>2. run[r].day <= today /\ run[r].day = today + 1
      BY <2>1 DEF Forgotten, RunsOfToday
    <2> QED
      BY <1>0, <2>2
  <1>4. CASE Crash
    BY <1>4 DEF Crash, NoRun, Forgotten, clock, RunsOfToday
  <1> QED
    BY <1>1, <1>2, <1>3, <1>4, AdvanceForgetsNothing
       DEF Next, CronFire, CronMissed, ManualRun, Ban, vars, clock, tables, Kinds

\* While the calendar covers the trade days, no interleaving of main runs, compensations,
\* crashes and bans loses a code that a main run of today has booked as failed.
THEOREM NoFailureForgotten ==
    ASSUME CalendarCovers PROVE Spec => []NothingForgotten
  <1> DEFINE All == SkipInv /\ RunsOfToday /\ NothingForgotten
  <1>1. Init => All
    <2> SUFFICES ASSUME Init PROVE All
      OBVIOUS
    <2>1. /\ today = 1 /\ calUntil = 0
          /\ \A q \in Runs : /\ run[q].pc = "none" /\ run[q].outcome = "none" /\ run[q].day = 0
                             /\ run[q].failed = {} /\ run[q].silent = {}
      BY DEF Init, NoRun
    <2> QED
      BY <2>1 DEF SkipInv, SkipsOnlyHolidays, RunsOfToday, NothingForgotten, Waiting, Active
  <1>2. Inv /\ All /\ [Next]_vars => All'
    <2>1. UNCHANGED vars /\ SkipInv => SkipInv'
      BY DEF vars, SkipInv, SkipsOnlyHolidays
    <2> QED
      BY <2>1, SkipStep, RunsStayOfToday, StepForgetsNothing
  <1>3. All => NothingForgotten
    OBVIOUS
  <1> HIDE DEF All
  <1> QED
    BY <1>1, <1>2, <1>3, Invariance, PTL DEF Spec

-----------------------------------------------------------------------------
(* What the self-check of the compensation counts: bars with a pct_change.   *)

\* Whoever is on its way works on today or on the day before.
RunsRecent ==
    /\ today # 0
    /\ \A q \in Runs : Active(q) => run[q].day # 0 /\ (run[q].day = today \/ run[q].day + 1 = today)

LEMMA RunsStayRecent == Inv /\ RunsOfToday /\ RunsRecent /\ [Next]_vars => RunsRecent'
  <1> SUFFICES ASSUME Inv, RunsOfToday, RunsRecent, [Next]_vars PROVE RunsRecent'
    OBVIOUS
  <1>1. CASE UNCHANGED <<run, today>>
    BY <1>1 DEF RunsRecent, Active
  <1>2. ASSUME NEW k \in Kinds, Launch(k), UNCHANGED today PROVE RunsRecent'
    <2>1. PICK r \in Runs : \E rec : rec.day = today /\ Set(r, rec)
      BY <1>2 DEF Launch, NoRun
    <2> QED
      BY <1>2, <2>1 DEF Set, RunsRecent, Active, Inv, RunsOK
  <1>3. ASSUME NEW r \in Runs, Advance(r) PROVE RunsRecent'
    <2>1. PICK rec : Set(r, rec) /\ rec.day \in {run[r].day, today}
      BY <1>3, RunMoves DEF Moved
    <2>2. Active(r) /\ UNCHANGED today
      BY <1>3 DEF Active, Advance, Judge, FetchCalendar, SelfCheckFails, ReadPool, SyncCode,
                  LoseConnection, FinishSync, FinishReplay, clock
    <2> QED
      BY <2>1, <2>2 DEF Set, RunsRecent, Active, Inv, RunsOK
  <1>4. CASE Crash
    BY <1>4 DEF Crash, RunsRecent, Active, NoRun, clock
  <1>5. CASE Midnight
    BY <1>5, DaysAreNat DEF Midnight, RunsRecent, Active, Inv, ScalarsOK
  <1> QED
    BY <1>1, <1>2, <1>3, <1>4, <1>5 DEF Next, CronFire, ManualRun, CronMissed, Ban, vars, Kinds, clock

\* The day and the day before have a trade day ahead of them in every window they are in.
WindowsReachBack == \A d \in TradeDays \ {0} : \E v \in TradeDays : d + 1 - Lookback <= v /\ v < d

\* The days that a run on its way can be about are settled wherever their bar is stored.
RecentSettled ==
    \A c \in Codes : \A d \in TradeDays \ {0} :
        today <= d + 1 /\ d \in stored["legacy"][c] => d \in settled[c]

LEMMA RecentInit ==
    ASSUME "legacy" \in Paths PROVE Init => RecentSettled
  BY DEF Init, RecentSettled

LEMMA RecentStaysSettled ==
    ASSUME WindowsReachBack, "legacy" \in Paths, Inv, RunsOfToday, RunsRecent, RecentSettled,
           [Next]_vars
    PROVE  RecentSettled'
  <1>1. today \in Nat /\ today' \in Nat /\ today <= today' /\ TradeDays \subseteq Nat /\ Lookback \in Nat
    <2>1. today \in Nat /\ TradeDays \subseteq Nat /\ Lookback \in Nat
      BY DaysAreNat, ParametersAssumption DEF Inv, ScalarsOK
    <2>2. ASSUME NEW r \in Runs, Advance(r) PROVE UNCHANGED today
      BY <2>2 DEF Advance, Judge, FetchCalendar, SelfCheckFails, ReadPool, SyncCode,
                  LoseConnection, FinishSync, FinishReplay, clock
    <2>3. UNCHANGED today \/ today' = today + 1
      BY <2>2 DEF Next, CronFire, CronMissed, ManualRun, Midnight, Crash, Ban, clock, vars
    <2> QED
      BY <2>1, <2>3
  <1>2. CASE UNCHANGED tables
    BY <1>1, <1>2 DEF RecentSettled, tables
  <1>3. ASSUME NEW r \in Runs, Active(r), NEW x \in Codes, NEW P \in SUBSET Paths,
               Upsert(x, run[r].day, P)
        PROVE  RecentSettled'
    <2> SUFFICES ASSUME NEW c \in Codes, NEW d \in TradeDays \ {0},
                        today <= d + 1, d \in stored'["legacy"][c]
                 PROVE  d \in settled'[c]
      <3> SUFFICES ASSUME NEW c \in Codes, NEW d \in TradeDays \ {0},
                          today' <= d + 1, d \in stored'["legacy"][c]
                   PROVE  d \in settled'[c]
        BY DEF RecentSettled
      <3> QED
        BY <1>1
    <2>1. /\ stored'["legacy"][c] = IF "legacy" \in P /\ c = x
                                    THEN stored["legacy"][c] \cup Window(run[r].day) ELSE stored["legacy"][c]
          /\ settled'[c] = IF "legacy" \in P /\ c = x
                           THEN (settled[c] \ Window(run[r].day)) \cup Priced(run[r].day) ELSE settled[c]
      BY <1>3 DEF Upsert, Inv, TablesOK
    <2>2. run[r].day \in Nat /\ run[r].day <= today
      BY DaysAreNat DEF Inv, RunsOK, RunRec, RunsOfToday
    <2>3. ASSUME d \in Window(run[r].day) PROVE d \in Priced(run[r].day)
      <3>1. PICK v \in TradeDays : d + 1 - Lookback <= v /\ v < d
        BY DEF WindowsReachBack
      <3>2. d <= run[r].day /\ run[r].day <= d + 1
        BY <1>1, <2>2, <2>3 DEF Window
      <3>3. v \in Window(run[r].day)
        BY <1>1, <2>2, <3>1, <3>2 DEF Window
      <3> QED
        BY <2>3, <3>1, <3>3 DEF Priced
    <2> QED
      BY <2>1, <2>3 DEF RecentSettled
  <1> QED
    BY <1>2, <1>3, OneUpsert

\* A day that falls short of any other lacks a bar of some code.
LEMMA ShortDayLacks ==
    ASSUME Percent <= 100, NEW d \in Days, Incomplete(d)
    PROVE  \E c \in Codes : d \notin settled[c]
  <1> SUFFICES ASSUME \A c \in Codes : d \in settled[c] PROVE FALSE
    OBVIOUS
  <1>1. PICK p \in Days : 100 * Count(d) < Percent * Count(p)
    BY DEF Incomplete
  <1>2. Count(d) = Cardinality(Codes)
    <2>1. {c \in Codes : d \in settled[c]} = Codes
      OBVIOUS
    <2> QED
      BY <2>1 DEF Count
  <1>3. Count(p) <= Cardinality(Codes) /\ Count(p) \in Nat /\ Cardinality(Codes) \in Nat
    <2>1. {c \in Codes : p \in settled[c]} \subseteq Codes
      OBVIOUS
    <2> QED
      BY <2>1, FS_Subset, CodesCounted, ParametersAssumption DEF Count
  <1>4. Percent \in Nat
    BY ParametersAssumption
  <1>5. ASSUME NEW n \in Nat, NEW m \in Nat, n <= m PROVE Percent * n <= 100 * m
    <2>1. Percent * n <= 100 * n
      BY <1>4, <1>5
    <2>2. 100 * n <= 100 * m
      BY <1>5
    <2> QED
      BY <1>4, <1>5, <2>1, <2>2
  <1> QED
    BY <1>1, <1>2, <1>3, <1>4, <1>5

\* Before it starts an execution is no compensation.
Unstarted == \A q \in Runs : run[q].pc = "none" => run[q].kind = "main"

LEMMA UnstartedStays == Inv /\ RunsOfToday /\ Unstarted /\ [Next]_vars => Unstarted'
  <1> SUFFICES ASSUME Inv, RunsOfToday, Unstarted, [Next]_vars PROVE Unstarted'
    OBVIOUS
  <1>1. CASE UNCHANGED run
    BY <1>1 DEF Unstarted
  <1>2. ASSUME NEW k \in Kinds, Launch(k) PROVE Unstarted'
    <2>1. PICK r \in Runs : \E rec : rec.pc = "judge" /\ Set(r, rec)
      BY <1>2 DEF Launch, NoRun
    <2> QED
      BY <2>1 DEF Set, Unstarted, Inv, RunsOK
  <1>3. ASSUME NEW r \in Runs, Advance(r) PROVE Unstarted'
    <2>1. PICK rec : Set(r, rec) /\ rec.pc # "none"
      BY <1>3, RunMoves DEF Moved
    <2> QED
      BY <2>1 DEF Set, Unstarted, Inv, RunsOK
  <1>4. CASE Crash
    BY <1>4 DEF Crash, Unstarted, NoRun
  <1> QED
    BY <1>1, <1>2, <1>3, <1>4 DEF Next, CronFire, ManualRun, CronMissed, Midnight, Ban, vars, Kinds

\* Only the self-check sends a compensation into the core, and only on a short day.
LEMMA IntoTheCore ==
    ASSUME Inv, RunsOfToday, Unstarted, [Next]_vars, NEW r \in Runs,
           run[r].kind = "retry", ~run[r].core, run'[r].core
    PROVE  Incomplete(run[r].day) /\ Active(r) /\ UNCHANGED tables
  <1>1. ASSUME NEW q \in Runs, NEW rec, Set(q, rec) PROVE q = r /\ rec.core
    BY <1>1 DEF Set, Inv, RunsOK
  <1>2. /\ run[r] \in RunRec /\ RecOK(run[r])
    BY DEF Inv, RunsOK
  <1>3. ASSUME NEW k \in Kinds, Launch(k) PROVE FALSE
    BY <1>1, <1>3 DEF Launch, Unstarted
  <1>4. ~Crash /\ run' # run
    BY DEF Crash, NoRun
  <1>5. PICK q \in Runs : Advance(q)
    BY <1>3, <1>4 DEF Next, CronFire, ManualRun, CronMissed, Midnight, Ban, vars, Kinds
  <1>6. ASSUME NEW rec, Set(q, rec), rec.core = run[q].core PROVE FALSE
    BY <1>1, <1>6
  <1>7. run[q] \in RunRec /\ RecOK(run[q]) /\ ~Replay(run[q], failedCodes).core
    BY DEF Inv, RunsOK, Replay, RunRec
  <1>8. CASE Judge(q)
    <2>1. q = r /\ Active(q)
      BY <1>1, <1>8 DEF Judge, AfterJudging, Active
    <2>2. CASE ~calLoaded
      <3>1. [run[q] EXCEPT !.pc = "calendar"].core = run[q].core
        BY <1>7 DEF RunRec
      <3> QED
        BY <1>6, <1>8, <2>2, <3>1 DEF Judge
    <2>3. CASE calLoaded
      BY <1>1, <1>7, <1>8, <2>1, <2>3 DEF Judge, AfterJudging
    <2> QED
      BY <2>2, <2>3
  <1>9. ~FetchCalendar(q) /\ ~FinishReplay(q)
    <2>1. /\ [run[q] EXCEPT !.pc = "judge"].core = run[q].core
          /\ [run[q] EXCEPT !.pc = "done", !.outcome = "ok"].core = run[q].core
      BY <1>7 DEF RunRec
    <2> QED
      BY <1>6, <2>1 DEF FetchCalendar, FinishReplay
  <1>10. ~SelfCheckFails(q)
    <2>1. ~Replay([run[q] EXCEPT !.swallowed = "check"], failedCodes).core
      BY <1>7 DEF Replay, RunRec
    <2> QED
      BY <1>1, <2>1 DEF SelfCheckFails
  <1>11. ~ReadPool(q) /\ ~FinishSync(q)
    BY <1>1, <1>7 DEF ReadPool, FinishSync, RecOK, Shape
  <1>12. ASSUME NEW cs PROVE /\ Processed(run[q], cs).core = run[q].core
                             /\ \A x : /\ [Processed(run[q], cs) EXCEPT !.failed = x].core = run[q].core
                                       /\ [Processed(run[q], cs) EXCEPT !.silent = x].core = run[q].core
    BY <1>7 DEF Processed, RunRec
  <1>13. ~SyncCode(q)
    <2> SUFFICES ASSUME SyncCode(q) PROVE FALSE
      OBVIOUS
    <2>1. PICK c \in run[q].todo :
            LET rec == Processed(run[q], {c})
            IN  \/ Set(q, rec)
                \/ Set(q, [rec EXCEPT !.failed = @ \cup {c}])
                \/ Set(q, [rec EXCEPT !.silent = @ \cup {c}])
      BY DEF SyncCode
    <2> QED
      BY <1>6, <1>12, <2>1
  <1>14. ~LoseConnection(q)
    BY <1>6, <1>12 DEF LoseConnection
  <1> QED
    BY <1>5, <1>8, <1>9, <1>10, <1>11, <1>13, <1>14 DEF Advance

\* A compensation goes through the whole market only while today lacks a bar, whatever
\* overlaps with it, crashes or fails, although an upsert takes the pct_change from the first
\* bar of every window: with a trade day ahead of its days in the window, the count that the
\* self-check reads for them is the count of bars, and a complete day falls short of none.
THEOREM CompleteDayIsLeft ==
    ASSUME WindowsReachBack, "legacy" \in Paths, Percent <= 100
    PROVE  Spec => CompleteDayIsLeftAlone
  <1> DEFINE All == RunsOfToday /\ RunsRecent /\ Unstarted /\ RecentSettled
             Alone(r) == run[r].kind = "retry" /\ ~run[r].core /\ run'[r].core
                            => \E c \in Codes, p \in Paths : run[r].day \notin stored[p][c]
  <1>1. Init => All
    <2>1. Init => RunsOfToday /\ RunsRecent /\ Unstarted
      BY DaysAreNat DEF Init, RunsOfToday, RunsRecent, Unstarted, NoRun, Waiting, Active
    <2> QED
      BY <2>1, RecentInit
  <1>2. Inv /\ All /\ [Next]_vars => All'
    BY RecentStaysSettled, RunsStayOfToday, RunsStayRecent, UnstartedStays
  <1>3. Inv /\ All /\ [Next]_vars => [\A r \in Runs : Alone(r)]_vars
    <2> SUFFICES ASSUME Inv, All, [Next]_vars, NEW r \in Runs,
                        run[r].kind = "retry", ~run[r].core, run'[r].core
                 PROVE  \E c \in Codes, p \in Paths : run[r].day \notin stored[p][c]
      OBVIOUS
    <2>1. Incomplete(run[r].day) /\ Active(r) /\ run[r].day \in Days
      BY IntoTheCore DEF Inv, RunsOK, RunRec
    <2>2. PICK c \in Codes : run[r].day \notin settled[c]
      BY <2>1, ShortDayLacks
    <2>3. run[r].day \in Nat \ {0} /\ today <= run[r].day + 1
      <3>1. run[r].day # 0 /\ (run[r].day = today \/ run[r].day + 1 = today)
        BY <2>1 DEF RunsRecent
      <3>2. run[r].day \in Nat
        BY <2>1, DaysAreNat
      <3> QED
        BY <3>1, <3>2
    <2>4. CASE run[r].day \in TradeDays
      BY <2>2, <2>3, <2>4 DEF RecentSettled
    <2>5. CASE run[r].day \notin TradeDays
      BY <2>2, <2>5 DEF Inv, TablesOK
    <2> QED
      BY <2>4, <2>5
  <1>4. CompleteDayIsLeftAlone <=> [][\A r \in Runs : Alone(r)]_vars
    BY DEF CompleteDayIsLeftAlone
  <1> HIDE DEF All, Alone
  <1> QED
    BY <1>1, <1>2, <1>3, <1>4, Invariance, PTL DEF Spec
=============================================================================
