------------------------------ MODULE Pipeline ------------------------------
(***************************************************************************)
(* Run/step bookkeeping of the daily pipeline: the scheduler and the admin *)
(* console launch tasks, the hooks of pipeline_service record them in the  *)
(* run and step rows, retries are in-memory one-shot jobs, final failures  *)
(* become alert rows, and the 08:00 patrol looks back at the settled date. *)
(*                                                                         *)
(* Every hook transaction starts with the upsert of the run row, which     *)
(* holds that row's lock until commit: a hook is one atomic step here.     *)
(* Days are weekdays (the cron jobs are mon-fri); a holiday is a day that  *)
(* is not in TradeDays.  An execution is identified by its log row id.     *)
(***************************************************************************)
EXTENDS Integers, Sequences, FiniteSets

CONSTANTS
    Ids,         \* primary keys of sa_admin_task_log
    Steps,       \* step keys of the daily topology
    Critical,    \* the steps whose StepSpec has critical=True
    Last,        \* the last topology step of the pipeline
    Tasks,       \* task names: the step keys and their aliases
    StepOf,      \* TASK_ALIASES composed with _STEP_INDEX
    DataTasks,   \* tasks whose runner writes the day's kline rows
    LongTasks,   \* tasks the console submits to the long-task executor
    Cron,        \* the tasks in the order their cron times come in a day
    TradeDays,   \* days of the trading calendar
    RetryMax,    \* settings.pipeline_step_retry_max
    MaxDay, MaxManual, MaxFaults, \* bounds: days, manual launches, crashes and DB errors
    NoTask       \* value of the task field of an unused log id

Days == 1..MaxDay

ASSUME TopologyAssumption ==
    /\ Steps \subseteq Tasks /\ Critical \subseteq Steps /\ Last \in Steps
    /\ StepOf \in [Tasks -> Steps] /\ \A s \in Steps : StepOf[s] = s
    /\ DataTasks \subseteq Tasks /\ LongTasks \subseteq Tasks
    /\ Cron \in Seq(Tasks) /\ NoTask \notin Tasks
    /\ IsFiniteSet(Steps)

ASSUME BoundsAssumption ==
    /\ RetryMax \in Nat /\ MaxDay \in Nat \ {0}
    /\ MaxManual \in Nat /\ MaxFaults \in Nat
    /\ TradeDays \subseteq Days /\ 0 \notin Ids

VARIABLES
    day, slot,   \* date.today(), and how many cron times of it have come
    up,          \* the backend process is running
    manual, faults, \* manual launches and faults so far
    exec,        \* volatile: what each execution is doing
    longq,       \* volatile: queue of _long_task_executor, its head running
    retries,     \* volatile: pending one-shot retry jobs
    log,         \* sa_admin_task_log.status
    run, fin,    \* sa_pipeline_run.status, and whether finished_at is set
    step,        \* sa_pipeline_step rows
    alerts,      \* step_failed:<key> rows of sa_data_quality_check
    patrol,      \* step_missing rows, by date
    patrolled,   \* days on which the 08:00 patrol ran
    settled      \* latest date with kline rows (0: before the first day)

vars == <<day, slot, up, manual, faults, exec, longq, retries, log, run, fin,
          step, alerts, patrol, patrolled, settled>>
clock  == <<day, slot>>
books  == <<run, fin, step>>
looked == <<patrol, patrolled>>

Outcomes == {"success", "failed"}
Triggers == {"scheduler", "retry", "manual"}
PCs == {"none", "logged", "running", "ran", "finalized", "booked", "done"}

\* late: the deadline has passed; on: date.today() as the runner read it; book:
\* day the finish hook booked on (0: not booked); seen: attempts as it read them.
ExecRec == [task : Tasks \cup {NoTask}, trig : Triggers, pc : PCs,
            outcome : Outcomes, late : BOOLEAN, on : 0..MaxDay, book : 0..MaxDay,
            seen : Nat]
NoExec == [task |-> NoTask, trig |-> "manual", pc |-> "none", outcome |-> "success",
           late |-> FALSE, on |-> 0, book |-> 0, seen |-> 0]

StepRec  == [status : Outcomes \cup {"none", "running"}, attempts : Nat, log : Ids \cup {0}]
NoRow    == [status |-> "none", attempts |-> 0, log |-> 0]
RetryRec == [step : Steps, n : Nat]   \* the job id retry:<step>:<attempts>

StepKey(e) == StepOf[exec[e].task]
Async(e)   == exec[e].trig = "manual" /\ exec[e].task \in LongTasks

\* _step_run_date: the hooks book on today, if it is a trade day.
BookableAlways == TRUE \* mutant: no look at the calendar
Bookable == day \in TradeDays

-----------------------------------------------------------------------------
(* Pure state machine: recompute_run_status over the materialized rows.    *)

Final(rows) == rows[Last].status \in Outcomes

\* mutant: the final step is looked at before the critical ones
RecomputeFinalFirst(rows) ==
    LET failed == {s \in Steps : rows[s].status = "failed"}
    IN  IF ~Final(rows) THEN "running"
        ELSE IF failed \cap Critical # {} THEN "failed"
        ELSE IF failed # {} THEN "partial" ELSE "success"

Recompute(rows) ==
    LET failed == {s \in Steps : rows[s].status = "failed"}
        present == {s \in Steps : rows[s].status # "none"}
    IN  IF failed \cap Critical # {} THEN "failed"
        ELSE IF ~Final(rows) THEN "running"
        ELSE IF failed # {} THEN "partial"
        ELSE IF \A s \in present : rows[s].status = "success" THEN "success"
        ELSE "running"

\* quality_service._classify with warn=None, fail=1 (DEFAULT_RULES), fail-high.
Classify(missing) == IF Cardinality(missing) > 1 THEN "fail" ELSE "pass"

-----------------------------------------------------------------------------
Init ==
    /\ day = 1 /\ slot = 0 /\ up = TRUE /\ manual = 0 /\ faults = 0
    /\ exec = [e \in Ids |-> NoExec]
    /\ longq = <<>> /\ retries = {}
    /\ log = [e \in Ids |-> "none"]
    /\ run = [d \in Days |-> "none"] /\ fin = [d \in Days |-> FALSE]
    /\ step = [d \in Days |-> [s \in Steps |-> NoRow]]
    /\ alerts = {}
    /\ patrol = [d \in Days |-> [missing |-> {}, status |-> "none"]]
    /\ patrolled = {} /\ settled = 0

\* run_task / run_task_async: the log row is committed first.
Launch(t, trig) ==
    \E e \in Ids :
        /\ log[e] = "none"
        /\ log' = [log EXCEPT ![e] = "running"]
        /\ exec' = [exec EXCEPT ![e] = [NoExec EXCEPT !.task = t, !.trig = trig, !.pc = "logged"]]

CronFire ==
    /\ up /\ slot \in 1..Len(Cron)
    /\ slot' = slot + 1
    /\ Launch(Cron[slot], "scheduler")
    /\ UNCHANGED <<day, up, manual, faults, longq, retries, books, alerts, looked, settled>>

ManualRun ==
    /\ up /\ manual < MaxManual
    /\ manual' = manual + 1
    /\ \E t \in Tasks : Launch(t, "manual")
    /\ UNCHANGED <<clock, up, faults, longq, retries, books, alerts, looked, settled>>

RetryFire ==
    /\ up
    /\ \E r \in retries : Launch(r.step, "retry") /\ retries' = retries \ {r}
    /\ UNCHANGED <<clock, up, manual, faults, longq, books, alerts, looked, settled>>

\* A cron time passes while the process is down, the job is a misfire, or its
\* log row cannot be inserted: the job does not run.
CronMissed ==
    /\ slot <= Len(Cron)
    /\ \/ ~up /\ UNCHANGED faults
       \/ up /\ faults < MaxFaults /\ faults' = faults + 1
    /\ slot' = slot + 1
    /\ UNCHANGED <<day, up, manual, exec, longq, retries, log, books, alerts, looked, settled>>

Midnight ==
    /\ slot > Len(Cron) /\ day < MaxDay
    /\ day' = day + 1 /\ slot' = 0
    /\ UNCHANGED <<up, manual, faults, exec, longq, retries, log, books, alerts, looked, settled>>

-----------------------------------------------------------------------------
(* One execution, in the order run_task and _worker do it. *)

\* mutant: the upsert sets log_id on insert only
StartedRowOldLog(e) ==
    LET row == step[day][StepKey(e)]
    IN  [status |-> "running", attempts |-> row.attempts + 1,
         log |-> IF row.log = 0 THEN e ELSE row.log]

StartedRow(e) ==
    [status |-> "running", attempts |-> step[day][StepKey(e)].attempts + 1, log |-> e]

\* on_step_start; an async launch then queues its worker.
StartHook(e) ==
    /\ up /\ exec[e].pc = "logged"
    /\ exec' = [exec EXCEPT ![e] = [@ EXCEPT !.pc = "running", !.on = day]]
    /\ longq' = IF Async(e) THEN Append(longq, e) ELSE longq
    /\ IF Bookable
       THEN /\ step' = [step EXCEPT ![day][StepKey(e)] = StartedRow(e)]
            /\ run' = [run EXCEPT ![day] = "running"]
       ELSE UNCHANGED <<step, run>>
    /\ UNCHANGED <<clock, up, manual, faults, retries, log, fin, alerts, looked, settled>>

\* fut.result(timeout=...) gives up, but leaving the `with` block waits for the
\* worker: the caller goes on only when the runner returns.
Deadline(e) ==
    /\ up /\ exec[e].pc = "running" /\ ~Async(e) /\ ~exec[e].late
    /\ exec' = [exec EXCEPT ![e] = [@ EXCEPT !.late = TRUE]]
    /\ UNCHANGED <<clock, up, manual, faults, longq, retries, log, books, alerts, looked, settled>>

\* The kline runner commits code by code the rows of the day it started on.
RowsLand(e) ==
    /\ up /\ exec[e].pc = "running" /\ exec[e].task \in DataTasks
    /\ exec[e].on \in TradeDays /\ settled < exec[e].on
    /\ settled' = exec[e].on
    /\ UNCHANGED <<clock, up, manual, faults, exec, longq, retries, log, books, alerts, looked>>

\* The runner returns or raises.  The long-task executor runs the head of its
\* queue.
RunnerEnds(e) ==
    /\ up /\ exec[e].pc = "running"
    /\ Async(e) => e = Head(longq)
    /\ \E o \in IF exec[e].late THEN {"failed"} ELSE Outcomes :
          exec' = [exec EXCEPT ![e] = [@ EXCEPT !.pc = "ran", !.outcome = o, !.late = FALSE]]
    /\ UNCHANGED <<clock, up, manual, faults, longq, retries, log, books, alerts, looked, settled>>

\* The log row gets its outcome.
Finalize(e) ==
    /\ up /\ exec[e].pc = "ran"
    /\ log' = [log EXCEPT ![e] = exec[e].outcome]
    /\ exec' = [exec EXCEPT ![e] = [@ EXCEPT !.pc = "finalized"]]
    /\ UNCHANGED <<clock, up, manual, faults, longq, retries, books, alerts, looked, settled>>

\* The execution is over; a long task hands the executor to the next one.
ReleaseForgotten(e) == longq' = longq \* mutant
Release(e) == longq' = IF Async(e) THEN Tail(longq) ELSE longq

\* The step row as the finish hook writes it: the start hook's row, or a new
\* one when there is none (attempts=1).
FinishedRowOldLog(e) == \* mutant: log_id is not written
    [status |-> exec[e].outcome, log |-> step[day][StepKey(e)].log,
     attempts |-> step[day][StepKey(e)].attempts]

FinishedRowOfOther(e) == \* mutant: the row stays running while it names another execution
    [status |-> IF step[day][StepKey(e)].log = e THEN exec[e].outcome ELSE "running",
     log |-> e, attempts |-> step[day][StepKey(e)].attempts]

FinishedRowPartial(e) == \* mutant: a run status in a step row
    [status |-> IF StepKey(e) \notin Critical /\ exec[e].outcome = "failed"
                THEN "partial" ELSE exec[e].outcome,
     log |-> e, attempts |-> step[day][StepKey(e)].attempts]

FinishedRow(e) ==
    [status |-> exec[e].outcome, log |-> e,
     attempts |-> IF step[day][StepKey(e)].status = "none" THEN 1
                  ELSE step[day][StepKey(e)].attempts]

RowsAfter(e) == [step[day] EXCEPT ![StepKey(e)] = FinishedRow(e)]

FailedOrNot(e) == TRUE \* mutant: no early return for a step that did not fail
Failed(e) == exec[e].outcome = "failed"

\* on_step_finish up to its first commit.
FinishHook(e) ==
    /\ up /\ exec[e].pc = "finalized" /\ Bookable
    /\ step' = [step EXCEPT ![day] = RowsAfter(e)]
    /\ run' = [run EXCEPT ![day] = Recompute(RowsAfter(e))]
    /\ fin' = [fin EXCEPT ![day] = @ \/ Final(RowsAfter(e))]
    /\ exec' = [exec EXCEPT ![e] =
                  [@ EXCEPT !.pc = IF Failed(e) THEN "booked" ELSE "done",
                            !.book = day,
                            !.seen = FinishedRow(e).attempts]]
    /\ IF Failed(e) THEN UNCHANGED longq ELSE Release(e)
    /\ UNCHANGED <<clock, up, manual, faults, retries, log, alerts, looked, settled>>

\* on_step_finish on a day without bookkeeping returns at once.
FinishUnbooked(e) ==
    /\ up /\ exec[e].pc = "finalized" /\ ~Bookable
    /\ exec' = [exec EXCEPT ![e] = [@ EXCEPT !.pc = "done"]]
    /\ Release(e)
    /\ UNCHANGED <<clock, up, manual, faults, retries, log, books, alerts, looked, settled>>

\* The rest of on_step_finish for a failed step: a one-shot retry (a pending
\* job of the same id is replaced) or the alert row.
RetryingAny(e) == exec[e].seen <= RetryMax \* mutant: whoever launched it
Retrying(e) == exec[e].trig = "scheduler" /\ exec[e].seen <= RetryMax

AlertRowScheduled(e) == \* mutant: retried and manual failures write none
    IF exec[e].trig = "scheduler" THEN {<<exec[e].book, StepKey(e)>>} ELSE {}
AlertRow(e) == {<<exec[e].book, StepKey(e)>>}

FollowUp(e) ==
    /\ up /\ exec[e].pc = "booked"
    /\ exec' = [exec EXCEPT ![e] = [@ EXCEPT !.pc = "done"]]
    /\ IF Retrying(e)
       THEN /\ retries' = retries \cup {[step |-> StepKey(e), n |-> exec[e].seen]}
            /\ UNCHANGED alerts
       ELSE /\ alerts' = alerts \cup AlertRow(e)
            /\ UNCHANGED retries
    /\ Release(e)
    /\ UNCHANGED <<clock, up, manual, faults, log, books, looked, settled>>

-----------------------------------------------------------------------------
(* The 08:00 patrol over the latest settled date. *)

Live == {d \in Days : run[d] # "none"}

Gaps(d) == IF \E x \in Live : x <= d
           THEN {s \in Steps : step[d][s].status # "success"} ELSE {}

Patrol ==
    /\ up /\ slot = 0
    /\ slot' = 1 /\ patrolled' = patrolled \cup {day}
    /\ IF settled # 0 /\ Live # {}
       THEN /\ patrol' = [patrol EXCEPT ![settled] =
                            [missing |-> Gaps(settled), status |-> Classify(Gaps(settled))]]
            /\ alerts' = alerts \cup
                 {<<settled, s>> : s \in {x \in Gaps(settled) : step[settled][x].status = "failed"}}
       ELSE UNCHANGED <<patrol, alerts>>
    /\ UNCHANGED <<day, up, manual, faults, exec, longq, retries, log, books, settled>>

-----------------------------------------------------------------------------
(* Faults: the process dies, or a bookkeeping transaction raises. *)

Crash ==
    /\ up /\ faults < MaxFaults
    /\ up' = FALSE /\ faults' = faults + 1
    /\ exec' = [e \in Ids |-> IF exec[e].pc = "none" THEN exec[e] ELSE [exec[e] EXCEPT !.pc = "done"]]
    /\ longq' = <<>> /\ retries' = {}
    /\ UNCHANGED <<clock, manual, log, books, alerts, looked, settled>>

Restart ==
    /\ ~up /\ up' = TRUE
    /\ UNCHANGED <<clock, manual, faults, exec, longq, retries, log, books, alerts, looked, settled>>

\* A hook swallows its exception: the task goes on, the rows stay as they are.
HookFails(e) ==
    /\ up /\ faults < MaxFaults /\ exec[e].pc \in {"logged", "finalized", "booked"}
    /\ faults' = faults + 1
    /\ IF exec[e].pc = "logged"
       THEN /\ exec' = [exec EXCEPT ![e] = [@ EXCEPT !.pc = "running", !.on = day]]
            /\ longq' = IF Async(e) THEN Append(longq, e) ELSE longq
       ELSE exec' = [exec EXCEPT ![e] = [@ EXCEPT !.pc = "done"]] /\ Release(e)
    /\ UNCHANGED <<clock, up, manual, retries, log, books, alerts, looked, settled>>

\* Updating the log row raises: run_task is over, the long-task worker turns
\* the outcome into a failure and tries once more.
FinalizeFails(e) ==
    /\ up /\ faults < MaxFaults /\ exec[e].pc = "ran"
    /\ faults' = faults + 1
    /\ IF Async(e) /\ exec[e].outcome = "success"
       THEN exec' = [exec EXCEPT ![e] = [@ EXCEPT !.outcome = "failed"]] /\ UNCHANGED longq
       ELSE exec' = [exec EXCEPT ![e] = [@ EXCEPT !.pc = "done"]] /\ Release(e)
    /\ UNCHANGED <<clock, up, manual, retries, log, books, alerts, looked, settled>>
-----------------------------------------------------------------------------
Progress(e) == \/ StartHook(e) \/ RunnerEnds(e) \/ Finalize(e)
               \/ FinishHook(e) \/ FinishUnbooked(e) \/ FollowUp(e)

Next ==
    \/ CronFire \/ ManualRun \/ RetryFire \/ CronMissed \/ Midnight \/ Patrol
    \/ \E e \in Ids : Progress(e) \/ RowsLand(e) \/ Deadline(e) \/ HookFails(e) \/ FinalizeFails(e)
    \/ Crash \/ Restart

Spec == Init /\ [][Next]_vars

\* The threads of the process go on while it is up, runners return, the
\* scheduler fires what is due, and midnight comes.
Fairness ==
    /\ \A e \in Ids : WF_vars(Progress(e))
    /\ WF_vars(CronFire) /\ WF_vars(RetryFire) /\ WF_vars(Patrol)
    /\ WF_vars(Midnight) /\ WF_vars(Restart)

FairSpec == Spec /\ Fairness

-----------------------------------------------------------------------------
(* Type and safety.                                                        *)

TypeOK ==
    /\ day \in Days /\ slot \in 0..(Len(Cron) + 1) /\ up \in BOOLEAN
    /\ manual \in Nat /\ faults \in Nat
    /\ exec \in [Ids -> ExecRec] /\ longq \in Seq(Ids)
    /\ retries \in SUBSET RetryRec
    /\ log \in [Ids -> {"none", "running"} \cup Outcomes]
    /\ run \in [Days -> {"none", "running", "failed", "partial", "success"}]
    /\ fin \in [Days -> BOOLEAN]
    /\ step \in [Days -> [Steps -> StepRec]]
    /\ alerts \in SUBSET (Days \X Steps)
    /\ patrol \in [Days -> [missing : SUBSET Steps, status : {"none", "pass", "fail"}]]
    /\ patrolled \in SUBSET Days /\ settled \in 0..MaxDay

FailedSteps(d) == {s \in Steps : step[d][s].status = "failed"}

\* The verdict a reader of the pipeline page sees is the one its step rows
\* justify, whatever the order in which concurrent executions of the day start,
\* finish, crash or lose a hook: only a run that shows "running" may lag behind
\* its rows, and then one of its steps is shown running too.
VerdictSound ==
    \A d \in Days :
        /\ run[d] = "success" => /\ step[d][Last].status = "success"
                                 /\ \A s \in Steps : step[d][s].status \in {"none", "success"}
        /\ run[d] = "partial" => /\ FailedSteps(d) # {} /\ FailedSteps(d) \cap Critical = {}
                                 /\ step[d][Last].status \in Outcomes
        /\ run[d] = "failed"  => FailedSteps(d) \cap Critical # {}
        /\ run[d] = "running" => \/ \E s \in Steps : step[d][s].status = "running"
                                 \/ /\ FailedSteps(d) \cap Critical = {}
                                    /\ step[d][Last].status \notin Outcomes
        /\ run[d] = "none" => \A s \in Steps : step[d][s].status = "none"

\* A step row that shows an outcome points at a log row with the same outcome,
\* also when several executions of the step overlap (the drill-down of
\* daily_report joins the two).
StepMatchesLog ==
    \A d \in Days, s \in Steps :
        step[d][s].status \in Outcomes => /\ step[d][s].log \in Ids
                                          /\ log[step[d][s].log] = step[d][s].status

\* Somebody still has to deal with a failed step: the hook that booked the
\* failure, a pending retry of the step, or that retry, just launched.
Owed(d, s) ==
    \/ \E r \in retries : r.step = s
    \/ \E e \in Ids : /\ exec[e].pc # "none" /\ StepKey(e) = s
                      /\ \/ exec[e].pc = "booked" /\ exec[e].book = d
                         \/ exec[e].pc = "logged" /\ exec[e].trig = "retry"

\* While no crash, misfire or database error occurs, a step shown failed today
\* is never silent: it has its alert row or somebody still owes it, however
\* scheduled, retried and manual executions of it overlap.
NoSilentFailure ==
    faults = 0 => \A s \in Steps :
        step[day][s].status = "failed" => <<day, s>> \in alerts \/ Owed(day, s)

InFlight == {"running", "ran", "finalized"}

\* While no fault occurs, a step shown running today is being run by the
\* execution its row names: overlapping executions cannot leave a row that
\* nobody will finish.
RunningHasOwner ==
    faults = 0 => \A s \in Steps :
        step[day][s].status = "running" =>
            /\ step[day][s].log \in Ids
            /\ exec[step[day][s].log].pc \in InFlight

\* Alerts are only about failures: an alert row of (d, s) is backed by an
\* execution of s whose log row says it failed.
AlertsBacked ==
    \A a \in alerts : \E e \in Ids :
        log[e] = "failed" /\ exec[e].pc # "none" /\ StepKey(e) = a[2]

\* A retry storm cannot happen: every retry, pending or launched, answers a
\* different failed execution that the scheduler itself had launched.
RetriesBounded ==
    \A s \in Steps :
        Cardinality({e \in Ids : exec[e].trig = "retry" /\ exec[e].task = s})
          + Cardinality({r \in retries : r.step = s})
        <= Cardinality({e \in Ids : /\ exec[e].trig = "scheduler" /\ log[e] = "failed"
                                    /\ exec[e].pc # "none" /\ StepKey(e) = s})

\* The log row follows the execution.
LogFollows ==
    \A e \in Ids :
        /\ exec[e].pc = "none" <=> log[e] = "none"
        /\ exec[e].pc # "none" => exec[e].task \in Tasks
        /\ exec[e].pc \in {"logged", "running", "ran"} => log[e] = "running"
        /\ exec[e].pc \in {"finalized", "booked"} => log[e] = exec[e].outcome
        /\ exec[e].pc = "booked" => exec[e].outcome = "failed" /\ exec[e].book # 0

\* A row belongs to an execution of its step; holidays and days to come have none.
RowsOwned ==
    \A d \in Days, s \in Steps :
        step[d][s].status # "none" =>
            /\ d \in TradeDays /\ d <= day
            /\ step[d][s].log \in Ids
            /\ exec[step[d][s].log].pc # "none"
            /\ StepKey(step[d][s].log) = s

\* What the other safety properties rest on, across midnights and crashes: log
\* rows, step rows and executions tell one story.
Coherent == LogFollows /\ RowsOwned

-----------------------------------------------------------------------------
(* Action properties.                                                      *)

\* The books implement the abstract run board: only the board of the current
\* day changes, one step at a time, and every finished step leaves the verdict
\* that the board's rows call for.
Board == INSTANCE RunBoard WITH today <- day, verdict <- run,
             shown <- [d \in Days |-> [s \in Steps |-> step[d][s].status]]
BoardSpec == Board!Spec

\* A green run turns back to "running" only because one of its steps was started
\* again: no late finish of an overlapping execution reopens it.
GreenReopenedByStart ==
    [][\A d \in Days :
          run[d] = "success" /\ run'[d] = "running" =>
             \E s \in Steps : step'[d][s].attempts = step[d][s].attempts + 1]_vars

-----------------------------------------------------------------------------
(* Liveness.                                                               *)

\* With fair threads and no fault, every task log row gets an outcome, queued
\* long tasks included.
LogsClose == \A e \in Ids : log[e] = "running" ~> log[e] \in Outcomes

\* With fair threads and no fault, a step that failed is announced, has been
\* run again, or the day is over.
FailuresSurface ==
    \A d \in Days, s \in Steps :
        step[d][s].status = "failed" ~>
            \/ <<d, s>> \in alerts \/ step[d][s].status # "failed" \/ day # d
=============================================================================
