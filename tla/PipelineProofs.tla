--------------------------- MODULE PipelineProofs ---------------------------
(* Theorems about Pipeline for every value of its constants.               *)
EXTENDS Pipeline, FiniteSetTheorems, TLAPS

USE DEF Bookable, StartedRow, Failed, AlertRow

\* The queue of the long-task executor: an execution past its runner is the head
\* of the queue, a submitted one is somewhere in it.
QueueOK ==
    \A e \in Ids : Async(e) =>
        /\ exec[e].pc = "running" => \E i \in 1..Len(longq) : longq[i] = e
        /\ exec[e].pc \in {"ran", "finalized", "booked"} =>
              longq # <<>> /\ Head(longq) = e

LEMMA DayTyped == Days \subseteq Nat \ {0} /\ 1 \in Days
  BY BoundsAssumption DEF Days

LEMMA RecomputeTyped ==
    ASSUME NEW rows PROVE Recompute(rows) \in {"running", "failed", "partial", "success"}
  BY DEF Recompute

\* The updates of an execution record that the actions make.
LEMMA RecordUpdate ==
    ASSUME NEW r \in ExecRec
    PROVE  /\ \A p \in PCs : [r EXCEPT !.pc = p] \in ExecRec
           /\ \A o \in Outcomes : [r EXCEPT !.outcome = o] \in ExecRec
           /\ [r EXCEPT !.late = TRUE] \in ExecRec
           /\ \A p \in PCs, d \in 0..MaxDay : [r EXCEPT !.pc = p, !.on = d] \in ExecRec
           /\ \A p \in PCs, o \in Outcomes :
                 [r EXCEPT !.pc = p, !.outcome = o, !.late = FALSE] \in ExecRec
           /\ \A p \in PCs, d \in 0..MaxDay, n \in Nat :
                 [r EXCEPT !.pc = p, !.book = d, !.seen = n] \in ExecRec
           /\ \A t \in Tasks, g \in Triggers, p \in PCs :
                 [r EXCEPT !.task = t, !.trig = g, !.pc = p] \in ExecRec
  BY DEF ExecRec

LEMMA QueueType ==
    ASSUME NEW q \in Seq(Ids), NEW e \in Ids
    PROVE  Append(q, e) \in Seq(Ids)
  OBVIOUS

LEMMA NoExecType == NoExec \in ExecRec
  BY BoundsAssumption DEF NoExec, ExecRec, Triggers, PCs, Outcomes

LEMMA ExecUpdate ==
    ASSUME TypeOK, NEW e \in Ids, NEW r \in ExecRec, exec' = [exec EXCEPT ![e] = r]
    PROVE  exec' \in [Ids -> ExecRec]
  BY DEF TypeOK

LEMMA ExecTyped ==
    ASSUME TypeOK, NEW e \in Ids
    PROVE  /\ exec[e] \in ExecRec /\ day \in 0..MaxDay
           /\ exec[e].outcome \in Outcomes
  BY BoundsAssumption DEF TypeOK, ExecRec, Days

\* A launch takes a fresh log id.
LEMMA LaunchType ==
    ASSUME TypeOK, NEW t \in Tasks, NEW trig \in Triggers, Launch(t, trig)
    PROVE  exec' \in [Ids -> ExecRec]
           /\ log' \in [Ids -> {"none", "running"} \cup Outcomes]
  <1>1. PICK e \in Ids :
           /\ log' = [log EXCEPT ![e] = "running"]
           /\ exec' = [exec EXCEPT ![e] = [NoExec EXCEPT !.task = t, !.trig = trig, !.pc = "logged"]]
    BY DEF Launch
  <1>2. [NoExec EXCEPT !.task = t, !.trig = trig, !.pc = "logged"] \in ExecRec
    BY NoExecType, RecordUpdate DEF PCs
  <1> QED
    BY <1>1, <1>2, ExecUpdate DEF TypeOK

LEMMA ReleaseType ==
    ASSUME TypeOK, QueueOK, NEW e \in Ids,
           exec[e].pc \in {"ran", "finalized", "booked"}, Release(e)
    PROVE  longq' \in Seq(Ids)
  BY DEF TypeOK, QueueOK, Release

LEMMA InitType == Init => TypeOK /\ QueueOK
  <1> SUFFICES ASSUME Init PROVE TypeOK /\ QueueOK
    OBVIOUS
  <1> USE DayTyped
  <1>1. NoExec \in ExecRec
    BY NoExecType
  <1>2. NoRow \in StepRec
    BY DEF NoRow, StepRec
  <1>3. exec \in [Ids -> ExecRec]
    BY <1>1 DEF Init
  <1>4. step \in [Days -> [Steps -> StepRec]]
    BY <1>2 DEF Init
  <1>5. QueueOK
    BY DEF Init, QueueOK, NoExec
  <1>6. patrol \in [Days -> [missing : SUBSET Steps, status : {"none", "pass", "fail"}]]
    BY DEF Init
  <1>7. longq \in Seq(Ids) /\ slot \in 0..(Len(Cron) + 1) /\ retries \in SUBSET RetryRec
    BY TopologyAssumption DEF Init
  <1> QED
    BY BoundsAssumption, <1>3, <1>4, <1>5, <1>6, <1>7 DEF Init, TypeOK

LEMMA StepType == TypeOK /\ QueueOK /\ Coherent /\ [Next]_vars => TypeOK'
  <1> SUFFICES ASSUME TypeOK, QueueOK, Coherent, [Next]_vars PROVE TypeOK'
    OBVIOUS
  <1> USE DayTyped DEF clock, books, looked
  <1>1. CASE CronFire
    <2>1. Cron[slot] \in Tasks /\ slot' \in 0..(Len(Cron) + 1)
      BY <1>1, TopologyAssumption DEF CronFire, TypeOK
    <2> QED
      BY <1>1, <2>1, LaunchType DEF CronFire, TypeOK, Triggers
  <1>2. CASE ManualRun
    BY <1>2, LaunchType DEF ManualRun, TypeOK, Triggers
  <1>3. CASE RetryFire
    <2>1. PICK r \in retries : Launch(r.step, "retry") /\ retries' = retries \ {r}
      BY <1>3 DEF RetryFire
    <2>2. r.step \in Tasks
      BY <2>1, TopologyAssumption DEF TypeOK, RetryRec
    <2> QED
      BY <1>3, <2>1, <2>2, LaunchType DEF RetryFire, TypeOK, Triggers
  <1>4. CASE CronMissed
    BY <1>4, TopologyAssumption DEF CronMissed, TypeOK
  <1>5. CASE Midnight
    BY <1>5, BoundsAssumption, TopologyAssumption DEF Midnight, TypeOK, Days
  <1>6. CASE Patrol
    <2>1. settled # 0 => settled \in Days
      BY DEF TypeOK, Days
    <2>2. Gaps(settled) \subseteq Steps /\ Classify(Gaps(settled)) \in {"none", "pass", "fail"}
      BY DEF Gaps, Classify
    <2>3. slot' \in 0..(Len(Cron) + 1)
      BY <1>6, TopologyAssumption DEF Patrol
    <2>4. patrol' \in [Days -> [missing : SUBSET Steps, status : {"none", "pass", "fail"}]]
      BY <1>6, <2>1, <2>2 DEF Patrol, TypeOK
    <2>5. alerts' \in SUBSET (Days \X Steps)
      BY <1>6, <2>1, <2>2 DEF Patrol, TypeOK
    <2> QED
      BY <1>6, <2>3, <2>4, <2>5 DEF Patrol, TypeOK
  <1>7. CASE Crash
    <2>1. exec' \in [Ids -> ExecRec]
      <3>1. \A e \in Ids : [exec[e] EXCEPT !.pc = "done"] \in ExecRec
        BY ExecTyped, RecordUpdate DEF PCs
      <3> QED
        BY <1>7, <3>1 DEF Crash, TypeOK
    <2>2. longq' \in Seq(Ids) /\ retries' \in SUBSET RetryRec
      BY <1>7 DEF Crash
    <2>3. up' \in BOOLEAN
      BY <1>7, Zenon DEF Crash
    <2>5. faults' \in Nat
      BY <1>7 DEF Crash, TypeOK
    <2>4. UNCHANGED <<day, slot, manual, log, run, fin, step, alerts, patrol, patrolled, settled>>
      BY <1>7 DEF Crash
    <2> QED
      BY <2>1, <2>2, <2>3, <2>4, <2>5 DEF TypeOK
  <1>8. CASE Restart
    BY <1>8 DEF Restart, TypeOK
  <1>9. ASSUME NEW e \in Ids, StartHook(e) PROVE TypeOK'
    <2>1. StepKey(e) \in Steps
      BY <1>9, TopologyAssumption DEF StepKey, StartHook, Coherent, LogFollows
    <2>2. exec' \in [Ids -> ExecRec]
      <3>1. [exec[e] EXCEPT !.pc = "running", !.on = day] \in ExecRec
        BY ExecTyped, RecordUpdate DEF PCs
      <3> QED
        BY <1>9, <3>1, ExecUpdate DEF StartHook
    <2>3. step' \in [Days -> [Steps -> StepRec]]
      <3>1. [status |-> "running", attempts |-> step[day][StepKey(e)].attempts + 1, log |-> e]
              \in StepRec
        BY <2>1 DEF TypeOK, StepRec
      <3> DEFINE row == [status |-> "running",
                         attempts |-> step[day][StepKey(e)].attempts + 1, log |-> e]
      <3>2. CASE day \in TradeDays
        <4>1. step' = [step EXCEPT ![day] = [step[day] EXCEPT ![StepKey(e)] = row]]
          BY <1>9, <3>2 DEF StartHook
        <4>2. [step[day] EXCEPT ![StepKey(e)] = row] \in [Steps -> StepRec]
          BY <2>1, <3>1 DEF TypeOK
        <4> QED
          BY <4>1, <4>2 DEF TypeOK
      <3>3. CASE day \notin TradeDays
        BY <1>9, <3>3 DEF StartHook, TypeOK
      <3> QED
        BY <3>2, <3>3
    <2>4. longq' \in Seq(Ids)
      <3>1. longq' = longq \/ longq' = Append(longq, e)
        BY <1>9 DEF StartHook
      <3>2. longq \in Seq(Ids)
        BY DEF TypeOK
      <3> QED
        BY <3>1, <3>2, QueueType
    <2>5. run' \in [Days -> {"none", "running", "failed", "partial", "success"}]
      BY <1>9 DEF StartHook, TypeOK
    <2> QED
      BY <1>9, <2>2, <2>3, <2>4, <2>5 DEF StartHook, TypeOK
  <1>10. ASSUME NEW e \in Ids, Deadline(e) PROVE TypeOK'
    <2>1. exec' \in [Ids -> ExecRec]
      BY <1>10, ExecTyped, RecordUpdate, ExecUpdate DEF Deadline
    <2> QED
      BY <1>10, <2>1 DEF Deadline, TypeOK
  <1>11. ASSUME NEW e \in Ids, RowsLand(e) PROVE TypeOK'
    BY <1>11 DEF RowsLand, TypeOK, ExecRec
  <1>12. ASSUME NEW e \in Ids, RunnerEnds(e) PROVE TypeOK'
    <2>1. exec' \in [Ids -> ExecRec]
      <3>1. PICK o \in Outcomes :
               exec' = [exec EXCEPT ![e] = [@ EXCEPT !.pc = "ran", !.outcome = o, !.late = FALSE]]
        BY <1>12 DEF RunnerEnds, Outcomes
      <3>2. [exec[e] EXCEPT !.pc = "ran", !.outcome = o, !.late = FALSE] \in ExecRec
        BY ExecTyped, RecordUpdate DEF PCs
      <3> QED
        BY <3>1, <3>2, ExecUpdate
    <2> QED
      BY <1>12, <2>1 DEF RunnerEnds, TypeOK
  <1>13. ASSUME NEW e \in Ids, Finalize(e) PROVE TypeOK'
    <2>1. exec' \in [Ids -> ExecRec] /\ log' \in [Ids -> {"none", "running"} \cup Outcomes]
      <3>1. [exec[e] EXCEPT !.pc = "finalized"] \in ExecRec
        BY ExecTyped, RecordUpdate DEF PCs
      <3> QED
        BY <1>13, <3>1, ExecUpdate, ExecTyped DEF Finalize, TypeOK
    <2> QED
      BY <1>13, <2>1 DEF Finalize, TypeOK
  <1>14. ASSUME NEW e \in Ids, FinishHook(e) PROVE TypeOK'
    <2>1. StepKey(e) \in Steps
      BY <1>14, TopologyAssumption DEF StepKey, FinishHook, Coherent, LogFollows
    <2>2. FinishedRow(e) \in StepRec
      BY <2>1 DEF FinishedRow, StepRec, TypeOK, ExecRec
    <2>3. step' \in [Days -> [Steps -> StepRec]]
      BY <1>14, <2>1, <2>2 DEF FinishHook, RowsAfter, TypeOK
    <2>4. run' \in [Days -> {"none", "running", "failed", "partial", "success"}]
      BY <1>14, RecomputeTyped DEF FinishHook, TypeOK
    <2>5. fin' \in [Days -> BOOLEAN]
      BY <1>14 DEF FinishHook, TypeOK, Final
    <2>6. exec' \in [Ids -> ExecRec]
      <3> DEFINE p == IF exec[e].outcome = "failed" THEN "booked" ELSE "done"
      <3>1. p \in PCs /\ FinishedRow(e).attempts \in Nat
        BY <2>2 DEF PCs, StepRec
      <3>2. [exec[e] EXCEPT !.pc = p, !.book = day, !.seen = FinishedRow(e).attempts] \in ExecRec
        BY <3>1, ExecTyped, RecordUpdate
      <3> QED
        BY <1>14, <3>2, ExecUpdate DEF FinishHook
    <2>7. longq' \in Seq(Ids)
      BY <1>14, ReleaseType DEF FinishHook, TypeOK
    <2> QED
      BY <1>14, <2>3, <2>4, <2>5, <2>6, <2>7 DEF FinishHook, TypeOK
  <1>15. ASSUME NEW e \in Ids, FinishUnbooked(e) PROVE TypeOK'
    <2>1. exec' \in [Ids -> ExecRec]
      <3>1. [exec[e] EXCEPT !.pc = "done"] \in ExecRec
        BY ExecTyped, RecordUpdate DEF PCs
      <3> QED
        BY <1>15, <3>1, ExecUpdate DEF FinishUnbooked
    <2>2. longq' \in Seq(Ids)
      BY <1>15, ReleaseType DEF FinishUnbooked
    <2> QED
      BY <1>15, <2>1, <2>2 DEF FinishUnbooked, TypeOK
  <1>16. ASSUME NEW e \in Ids, FollowUp(e) PROVE TypeOK'
    <2>1. StepKey(e) \in Steps
      BY <1>16, TopologyAssumption DEF StepKey, FollowUp, Coherent, LogFollows
    <2>2. exec' \in [Ids -> ExecRec]
      <3>1. [exec[e] EXCEPT !.pc = "done"] \in ExecRec
        BY ExecTyped, RecordUpdate DEF PCs
      <3> QED
        BY <1>16, <3>1, ExecUpdate DEF FollowUp
    <2>3. longq' \in Seq(Ids)
      BY <1>16, ReleaseType DEF FollowUp
    <2>4. exec[e].book \in Days /\ exec[e].seen \in Nat
      BY <1>16 DEF FollowUp, Coherent, LogFollows, TypeOK, ExecRec, Days
    <2>5. retries' \in SUBSET RetryRec /\ alerts' \in SUBSET (Days \X Steps)
      BY <1>16, <2>1, <2>4 DEF FollowUp, TypeOK, RetryRec
    <2> QED
      BY <1>16, <2>2, <2>3, <2>5 DEF FollowUp, TypeOK
  <1>17. ASSUME NEW e \in Ids, HookFails(e) PROVE TypeOK'
    <2>1. exec' \in [Ids -> ExecRec]
      <3>1. /\ [exec[e] EXCEPT !.pc = "done"] \in ExecRec
            /\ [exec[e] EXCEPT !.pc = "running", !.on = day] \in ExecRec
        BY ExecTyped, RecordUpdate DEF PCs
      <3> QED
        BY <1>17, <3>1, ExecUpdate DEF HookFails
    <2>2. longq' \in Seq(Ids)
      <3>1. CASE exec[e].pc = "logged"
        <4>1. longq' = longq \/ longq' = Append(longq, e)
          BY <1>17, <3>1 DEF HookFails
        <4>2. longq \in Seq(Ids)
          BY DEF TypeOK
        <4> QED
          BY <4>1, <4>2, QueueType
      <3>2. CASE exec[e].pc # "logged"
        BY <1>17, <3>2, ReleaseType DEF HookFails
      <3> QED
        BY <3>1, <3>2
    <2> QED
      BY <1>17, <2>1, <2>2 DEF HookFails, TypeOK
  <1>18. ASSUME NEW e \in Ids, FinalizeFails(e) PROVE TypeOK'
    <2>1. exec' \in [Ids -> ExecRec]
      <3>1. /\ [exec[e] EXCEPT !.pc = "done"] \in ExecRec
            /\ [exec[e] EXCEPT !.outcome = "failed"] \in ExecRec
        BY ExecTyped, RecordUpdate DEF PCs, Outcomes
      <3> QED
        BY <1>18, <3>1, ExecUpdate DEF FinalizeFails
    <2>2. longq' \in Seq(Ids)
      BY <1>18, ReleaseType DEF FinalizeFails, TypeOK
    <2> QED
      BY <1>18, <2>1, <2>2 DEF FinalizeFails, TypeOK
  <1>19. CASE UNCHANGED vars
    BY <1>19 DEF vars, TypeOK
  <1> QED
    BY <1>1, <1>2, <1>3, <1>4, <1>5, <1>6, <1>7, <1>8, <1>9, <1>10, <1>11, <1>12,
       <1>13, <1>14, <1>15, <1>16, <1>17, <1>18, <1>19 DEF Next, Progress

-----------------------------------------------------------------------------
(* The long-task queue.                                                    *)

Past == {"ran", "finalized", "booked"}

\* A step that does not touch the queue keeps QueueOK when each execution stays
\* on its side of the runner or is not in the executor's hands.
LEMMA QueueFrame ==
    ASSUME QueueOK, longq' = longq,
           \A x \in Ids :
              \/ exec'[x].pc \in {"none", "logged", "done"}
              \/ /\ exec'[x].task = exec[x].task /\ exec'[x].trig = exec[x].trig
                 /\ exec'[x].pc = exec[x].pc \/ {exec'[x].pc, exec[x].pc} \subseteq Past
    PROVE  QueueOK'
  BY DEF QueueOK, Async, Past

LEMMA QueueAppend ==
    ASSUME TypeOK, QueueOK, NEW e \in Ids, NEW r, exec[e].pc = "logged",
           longq' = (IF Async(e) THEN Append(longq, e) ELSE longq),
           exec' = [exec EXCEPT ![e] = r],
           r.pc = "running", r.task = exec[e].task, r.trig = exec[e].trig
    PROVE  QueueOK'
  <1>1. longq \in Seq(Ids) /\ exec \in [Ids -> ExecRec]
    BY DEF TypeOK
  <1>2. SUFFICES ASSUME NEW x \in Ids, Async(x)'
                 PROVE  /\ exec'[x].pc = "running" => \E i \in 1..Len(longq') : longq'[i] = x
                        /\ exec'[x].pc \in Past => longq' # <<>> /\ Head(longq') = x
    BY DEF QueueOK, Past
  <1>3. Async(x) /\ (x # e => exec'[x] = exec[x])
    BY <1>1, <1>2 DEF Async
  <1>4. CASE x = e
    <2>1. longq' = Append(longq, e) /\ exec'[x].pc = "running"
      BY <1>1, <1>3, <1>4
    <2>2. Len(longq) + 1 \in 1..Len(longq') /\ longq'[Len(longq) + 1] = e
      BY <1>1, <2>1
    <2> QED
      BY <1>4, <2>1, <2>2 DEF Past
  <1>5. CASE x # e
    <2>1. CASE exec[x].pc = "running"
      <3>1. PICK i \in 1..Len(longq) : longq[i] = x
        BY <1>3, <2>1 DEF QueueOK
      <3>2. i \in 1..Len(longq') /\ longq'[i] = x
        BY <1>1, <3>1
      <3> QED
        BY <1>3, <1>5, <2>1, <3>2 DEF Past
    <2>2. CASE exec[x].pc \in Past
      <3>1. longq # <<>> /\ Head(longq) = x
        BY <1>3, <2>2 DEF QueueOK, Past
      <3>2. longq' # <<>> /\ Head(longq') = x
        BY <1>1, <3>1
      <3> QED
        BY <1>3, <1>5, <2>2, <3>2 DEF Past
    <2> QED
      BY <1>3, <1>5, <2>1, <2>2
  <1> QED
    BY <1>4, <1>5

LEMMA QueueRelease ==
    ASSUME TypeOK, QueueOK, NEW e \in Ids, NEW r, exec[e].pc \in Past,
           Release(e), exec' = [exec EXCEPT ![e] = r], r.pc = "done"
    PROVE  QueueOK'
  <1>1. longq \in Seq(Ids) /\ exec \in [Ids -> ExecRec]
    BY DEF TypeOK
  <1>2. SUFFICES ASSUME NEW x \in Ids, Async(x)', x # e
                 PROVE  /\ exec[x].pc = "running" => \E i \in 1..Len(longq') : longq'[i] = x
                        /\ exec[x].pc \in Past => longq' # <<>> /\ Head(longq') = x
    BY <1>1 DEF QueueOK, Past
  <1>3. Async(x)
    BY <1>1, <1>2 DEF Async
  <1>4. CASE ~Async(e)
    BY <1>3, <1>4 DEF Release, QueueOK, Past
  <1>5. CASE Async(e)
    <2>1. longq # <<>> /\ Head(longq) = e /\ longq' = Tail(longq)
      BY <1>5 DEF Release, QueueOK, Past
    <2>2. exec[x].pc \notin Past
      BY <1>2, <1>3, <2>1 DEF QueueOK, Past
    <2>3. CASE exec[x].pc = "running"
      <3>1. PICK i \in 1..Len(longq) : longq[i] = x
        BY <1>3, <2>3 DEF QueueOK
      <3>2. i - 1 \in 1..Len(longq') /\ longq'[i - 1] = x
        BY <1>1, <1>2, <2>1, <3>1
      <3> QED
        BY <2>2, <3>2
    <2> QED
      BY <2>2, <2>3
  <1> QED
    BY <1>4, <1>5

LEMMA StepQueue == TypeOK /\ QueueOK /\ [Next]_vars => QueueOK'
  <1> SUFFICES ASSUME TypeOK, QueueOK, [Next]_vars PROVE QueueOK'
    OBVIOUS
  <1>0. exec \in [Ids -> ExecRec] /\ longq \in Seq(Ids)
    BY DEF TypeOK
  <1>1. ASSUME longq' = longq, NEW t, NEW trig, Launch(t, trig) PROVE QueueOK'
    BY <1>0, <1>1, QueueFrame DEF Launch, NoExec
  <1>2. CASE CronFire \/ ManualRun \/ RetryFire
    BY <1>1, <1>2 DEF CronFire, ManualRun, RetryFire
  <1>3. CASE CronMissed \/ Midnight \/ Patrol \/ Restart \/ UNCHANGED vars
    BY <1>3, QueueFrame DEF CronMissed, Midnight, Patrol, Restart, vars
  <1>4. CASE Crash
    <2>1. \A x \in Ids : exec'[x].pc \in {"none", "done"}
      BY <1>0, <1>4 DEF Crash, ExecRec
    <2> QED
      BY <2>1 DEF QueueOK
  <1>5. ASSUME NEW e \in Ids, StartHook(e) PROVE QueueOK'
    <2> DEFINE r == [exec[e] EXCEPT !.pc = "running", !.on = day]
    <2>1. r.pc = "running" /\ r.task = exec[e].task /\ r.trig = exec[e].trig
      BY <1>0 DEF ExecRec
    <2>2. exec' = [exec EXCEPT ![e] = r] /\ exec[e].pc = "logged"
          /\ longq' = IF Async(e) THEN Append(longq, e) ELSE longq
      BY <1>5 DEF StartHook
    <2> HIDE DEF r
    <2> QED
      BY <2>1, <2>2, QueueAppend
  <1>6. ASSUME NEW e \in Ids, RowsLand(e) \/ Deadline(e) \/ Finalize(e) PROVE QueueOK'
    <2>1. longq' = longq
      BY <1>6 DEF RowsLand, Deadline, Finalize
    <2>2. \A x \in Ids :
             /\ exec'[x].task = exec[x].task /\ exec'[x].trig = exec[x].trig
             /\ exec'[x].pc = exec[x].pc \/ {exec'[x].pc, exec[x].pc} \subseteq Past
      <3>1. CASE RowsLand(e)
        BY <3>1 DEF RowsLand
      <3>2. CASE Deadline(e)
        BY <1>0, <3>2 DEF Deadline, ExecRec
      <3>3. CASE Finalize(e)
        BY <1>0, <3>3 DEF Finalize, ExecRec, Past
      <3> QED
        BY <1>6, <3>1, <3>2, <3>3
    <2> QED
      BY <2>1, <2>2, QueueFrame
  <1>7. ASSUME NEW e \in Ids, RunnerEnds(e) PROVE QueueOK'
    <2>1. PICK o : exec' = [exec EXCEPT ![e] = [@ EXCEPT !.pc = "ran", !.outcome = o, !.late = FALSE]]
      BY <1>7 DEF RunnerEnds
    <2>2. longq' = longq /\ exec[e].pc = "running" /\ (Async(e) => e = Head(longq))
      BY <1>7 DEF RunnerEnds
    <2>3. Async(e) => longq # <<>>
      BY <2>2 DEF QueueOK
    <2>4. \A x \in Ids : /\ exec'[x].task = exec[x].task /\ exec'[x].trig = exec[x].trig
                         /\ x # e => exec'[x].pc = exec[x].pc
      BY <1>0, <2>1 DEF ExecRec
    <2>5. exec'[e].pc = "ran"
      BY <1>0, <2>1 DEF ExecRec
    <2> QED
      BY <2>2, <2>3, <2>4, <2>5 DEF QueueOK, Async
  <1>8. ASSUME NEW e \in Ids, NEW r, exec[e].pc \in Past, Release(e),
               exec' = [exec EXCEPT ![e] = r], r.pc = "done"
        PROVE  QueueOK'
    BY <1>8, QueueRelease
  <1>9. ASSUME NEW e \in Ids, FinishHook(e) PROVE QueueOK'
    <2> DEFINE p == IF exec[e].outcome = "failed" THEN "booked" ELSE "done"
               r == [exec[e] EXCEPT !.pc = p, !.book = day, !.seen = FinishedRow(e).attempts]
    <2>1. exec' = [exec EXCEPT ![e] = r] /\ exec[e].pc = "finalized"
      BY <1>9 DEF FinishHook
    <2>2. r.pc = p /\ r.task = exec[e].task /\ r.trig = exec[e].trig
      BY <1>0 DEF ExecRec
    <2> HIDE DEF r
    <2>3. CASE exec[e].outcome = "failed"
      <3>1. longq' = longq
        BY <1>9, <2>3 DEF FinishHook
      <3>2. \A x \in Ids :
               /\ exec'[x].task = exec[x].task /\ exec'[x].trig = exec[x].trig
               /\ exec'[x].pc = exec[x].pc \/ {exec'[x].pc, exec[x].pc} \subseteq Past
        BY <1>0, <2>1, <2>2, <2>3 DEF Past
      <3> QED
        BY <3>1, <3>2, QueueFrame
    <2>4. CASE exec[e].outcome # "failed"
      <3>1. Release(e) /\ r.pc = "done" /\ exec[e].pc \in Past
        BY <1>9, <2>1, <2>2, <2>4 DEF FinishHook, Past
      <3> QED
        BY <1>8, <2>1, <3>1
    <2> QED
      BY <2>3, <2>4
  <1>10. ASSUME NEW e \in Ids, FinishUnbooked(e) \/ FollowUp(e) PROVE QueueOK'
    <2> DEFINE r == [exec[e] EXCEPT !.pc = "done"]
    <2>1. exec' = [exec EXCEPT ![e] = r] /\ Release(e) /\ exec[e].pc \in Past
      BY <1>10 DEF FinishUnbooked, FollowUp, Past
    <2>2. r.pc = "done"
      BY <1>0 DEF ExecRec
    <2> HIDE DEF r
    <2> QED
      BY <1>8, <2>1, <2>2
  <1>11. ASSUME NEW e \in Ids, HookFails(e) PROVE QueueOK'
    <2>1. CASE exec[e].pc = "logged"
      <3> DEFINE r == [exec[e] EXCEPT !.pc = "running", !.on = day]
      <3>1. r.pc = "running" /\ r.task = exec[e].task /\ r.trig = exec[e].trig
        BY <1>0 DEF ExecRec
      <3>2. exec' = [exec EXCEPT ![e] = r]
            /\ longq' = IF Async(e) THEN Append(longq, e) ELSE longq
        BY <1>11, <2>1 DEF HookFails
      <3> HIDE DEF r
      <3> QED
        BY <2>1, <3>1, <3>2, QueueAppend
    <2>2. CASE exec[e].pc # "logged"
      <3> DEFINE r == [exec[e] EXCEPT !.pc = "done"]
      <3>1. exec' = [exec EXCEPT ![e] = r] /\ Release(e) /\ exec[e].pc \in Past
        BY <1>11, <2>2 DEF HookFails, Past
      <3>2. r.pc = "done"
        BY <1>0 DEF ExecRec
      <3> HIDE DEF r
      <3> QED
        BY <1>8, <3>1, <3>2
    <2> QED
      BY <2>1, <2>2
  <1>12. ASSUME NEW e \in Ids, FinalizeFails(e) PROVE QueueOK'
    <2>1. CASE Async(e) /\ exec[e].outcome = "success"
      <3>1. longq' = longq /\ exec' = [exec EXCEPT ![e] = [@ EXCEPT !.outcome = "failed"]]
        BY <1>12, <2>1 DEF FinalizeFails
      <3>2. \A x \in Ids : /\ exec'[x].task = exec[x].task /\ exec'[x].trig = exec[x].trig
                           /\ exec'[x].pc = exec[x].pc
        BY <1>0, <3>1 DEF ExecRec
      <3> QED
        BY <3>1, <3>2, QueueFrame
    <2>2. CASE ~(Async(e) /\ exec[e].outcome = "success")
      <3> DEFINE r == [exec[e] EXCEPT !.pc = "done"]
      <3>1. exec' = [exec EXCEPT ![e] = r] /\ Release(e) /\ exec[e].pc \in Past
        BY <1>12, <2>2 DEF FinalizeFails, Past
      <3>2. r.pc = "done"
        BY <1>0 DEF ExecRec
      <3> HIDE DEF r
      <3> QED
        BY <1>8, <3>1, <3>2
    <2> QED
      BY <2>1, <2>2
  <1> QED
    BY <1>2, <1>3, <1>4, <1>5, <1>6, <1>7, <1>9, <1>10, <1>11, <1>12 DEF Next, Progress

-----------------------------------------------------------------------------
(* Log rows, step rows and executions tell one story.                      *)

\* What a step leaves of the executions that exist.
LEMMA ExecLasts ==
    ASSUME TypeOK, LogFollows, [Next]_vars, NEW x \in Ids, exec[x].pc # "none"
    PROVE  /\ exec'[x].pc # "none"
           /\ exec'[x].task = exec[x].task /\ exec'[x].trig = exec[x].trig
  <1>0. exec \in [Ids -> ExecRec]
    BY DEF TypeOK
  <1>1. CASE CronFire \/ ManualRun \/ RetryFire
    <2>1. PICK e, r : e \in Ids /\ log[e] = "none" /\ exec' = [exec EXCEPT ![e] = r]
      BY <1>1 DEF CronFire, ManualRun, RetryFire, Launch
    <2> QED
      BY <1>0, <2>1 DEF LogFollows
  <1>2. CASE CronMissed \/ Midnight \/ Patrol \/ Restart \/ UNCHANGED vars
    BY <1>2 DEF CronMissed, Midnight, Patrol, Restart, vars
  <1>3. CASE Crash
    BY <1>0, <1>3 DEF Crash, ExecRec
  <1>4. ASSUME NEW e \in Ids, StartHook(e)
        PROVE  /\ exec'[x].pc # "none"
               /\ exec'[x].task = exec[x].task /\ exec'[x].trig = exec[x].trig
    <2>1. exec' = [exec EXCEPT ![e] = [@ EXCEPT !.pc = "running", !.on = day]]
      BY <1>4 DEF StartHook
    <2> QED
      BY <1>0, <2>1 DEF ExecRec
  <1>5. ASSUME NEW e \in Ids, Deadline(e)
        PROVE  /\ exec'[x].pc # "none"
               /\ exec'[x].task = exec[x].task /\ exec'[x].trig = exec[x].trig
    <2>1. exec' = [exec EXCEPT ![e] = [@ EXCEPT !.late = TRUE]]
      BY <1>5 DEF Deadline
    <2> QED
      BY <1>0, <2>1 DEF ExecRec
  <1>6. ASSUME NEW e \in Ids, Finalize(e)
        PROVE  /\ exec'[x].pc # "none"
               /\ exec'[x].task = exec[x].task /\ exec'[x].trig = exec[x].trig
    <2>1. exec' = [exec EXCEPT ![e] = [@ EXCEPT !.pc = "finalized"]]
      BY <1>6 DEF Finalize
    <2> QED
      BY <1>0, <2>1 DEF ExecRec
  <1>7. ASSUME NEW e \in Ids, RunnerEnds(e)
        PROVE  /\ exec'[x].pc # "none"
               /\ exec'[x].task = exec[x].task /\ exec'[x].trig = exec[x].trig
    <2>1. PICK o \in Outcomes : exec' = [exec EXCEPT ![e] = [@ EXCEPT !.pc = "ran", !.outcome = o, !.late = FALSE]]
      BY <1>7 DEF RunnerEnds, Outcomes
    <2> QED
      BY <1>0, <2>1 DEF ExecRec
  <1>8. ASSUME NEW e \in Ids, FinishUnbooked(e)
        PROVE  /\ exec'[x].pc # "none"
               /\ exec'[x].task = exec[x].task /\ exec'[x].trig = exec[x].trig
    <2>1. exec' = [exec EXCEPT ![e] = [@ EXCEPT !.pc = "done"]]
      BY <1>8 DEF FinishUnbooked
    <2> QED
      BY <1>0, <2>1 DEF ExecRec
  <1>9. ASSUME NEW e \in Ids, FinishHook(e)
        PROVE  /\ exec'[x].pc # "none"
               /\ exec'[x].task = exec[x].task /\ exec'[x].trig = exec[x].trig
    BY <1>0, <1>9 DEF FinishHook, ExecRec
  <1>10. ASSUME NEW e \in Ids, FollowUp(e)
        PROVE  /\ exec'[x].pc # "none"
               /\ exec'[x].task = exec[x].task /\ exec'[x].trig = exec[x].trig
    <2>1. exec' = [exec EXCEPT ![e] = [@ EXCEPT !.pc = "done"]]
      BY <1>10 DEF FollowUp
    <2> QED
      BY <1>0, <2>1 DEF ExecRec
  <1>11. ASSUME NEW e \in Ids, HookFails(e)
        PROVE  /\ exec'[x].pc # "none"
               /\ exec'[x].task = exec[x].task /\ exec'[x].trig = exec[x].trig
    <2>1. CASE exec[e].pc = "logged"
      <3>1. exec' = [exec EXCEPT ![e] = [@ EXCEPT !.pc = "running", !.on = day]]
        BY <1>11, <2>1 DEF HookFails
      <3> QED
        BY <1>0, <3>1 DEF ExecRec
    <2>2. CASE exec[e].pc # "logged"
      <3>1. exec' = [exec EXCEPT ![e] = [@ EXCEPT !.pc = "done"]]
        BY <1>11, <2>2 DEF HookFails
      <3> QED
        BY <1>0, <3>1 DEF ExecRec
    <2> QED
      BY <2>1, <2>2
  <1>12. ASSUME NEW e \in Ids, FinalizeFails(e)
        PROVE  /\ exec'[x].pc # "none"
               /\ exec'[x].task = exec[x].task /\ exec'[x].trig = exec[x].trig
    <2>1. CASE Async(e) /\ exec[e].outcome = "success"
      <3>1. exec' = [exec EXCEPT ![e] = [@ EXCEPT !.outcome = "failed"]]
        BY <1>12, <2>1 DEF FinalizeFails
      <3> QED
        BY <1>0, <3>1 DEF ExecRec
    <2>2. CASE ~(Async(e) /\ exec[e].outcome = "success")
      <3>1. exec' = [exec EXCEPT ![e] = [@ EXCEPT !.pc = "done"]]
        BY <1>12, <2>2 DEF FinalizeFails
      <3> QED
        BY <1>0, <3>1 DEF ExecRec
    <2> QED
      BY <2>1, <2>2
  <1>13. ASSUME NEW e \in Ids, RowsLand(e)
        PROVE  /\ exec'[x].pc # "none"
               /\ exec'[x].task = exec[x].task /\ exec'[x].trig = exec[x].trig
    BY <1>13 DEF RowsLand
  <1> QED
    BY <1>1, <1>2, <1>3, <1>4, <1>5, <1>6, <1>7, <1>8, <1>9, <1>10, <1>11, <1>12, <1>13
       DEF Next, Progress

\* Only the two hooks write step rows.
LEMMA RowsKept ==
    ASSUME [Next]_vars, \A e \in Ids : ~StartHook(e) /\ ~FinishHook(e)
    PROVE  step' = step /\ run' = run /\ fin' = fin
  BY DEF Next, Progress, vars, books, CronFire, ManualRun, RetryFire, CronMissed, Midnight,
         Patrol, Crash, Restart, RowsLand, Deadline, RunnerEnds, Finalize,
         FinishUnbooked, FollowUp, HookFails, FinalizeFails

LEMMA StepLogFollows == TypeOK /\ LogFollows /\ [Next]_vars => LogFollows'
  <1> SUFFICES ASSUME TypeOK, LogFollows, [Next]_vars PROVE LogFollows'
    OBVIOUS
  <1>0. exec \in [Ids -> ExecRec] /\ log \in [Ids -> {"none", "running"} \cup Outcomes]
    BY DEF TypeOK
  <1>1. ASSUME NEW t \in Tasks, NEW trig, Launch(t, trig) PROVE LogFollows'
    <2>1. PICK e \in Ids :
             /\ log[e] = "none" /\ log' = [log EXCEPT ![e] = "running"]
             /\ exec' = [exec EXCEPT ![e] = [NoExec EXCEPT !.task = t, !.trig = trig, !.pc = "logged"]]
      BY <1>1 DEF Launch
    <2>2. exec'[e].pc = "logged" /\ exec'[e].task = t
      BY <1>0, <2>1 DEF NoExec
    <2>3. \A x \in Ids : x # e => exec'[x] = exec[x] /\ log'[x] = log[x]
      BY <1>0, <2>1
    <2> QED
      BY <1>0, <2>1, <2>2, <2>3 DEF LogFollows
  <1>2. CASE CronFire
    <2>1. Cron[slot] \in Tasks
      BY <1>2, TopologyAssumption DEF CronFire, TypeOK
    <2> QED
      BY <1>1, <1>2, <2>1 DEF CronFire
  <1>3. CASE ManualRun
    BY <1>1, <1>3 DEF ManualRun
  <1>4. CASE RetryFire
    <2>1. \A r \in retries : r.step \in Tasks
      BY TopologyAssumption DEF TypeOK, RetryRec
    <2> QED
      BY <1>1, <1>4, <2>1 DEF RetryFire
  <1>5. CASE CronMissed \/ Midnight \/ Patrol \/ Restart \/ UNCHANGED vars
    BY <1>5 DEF CronMissed, Midnight, Patrol, Restart, vars, LogFollows
  <1>6. CASE Crash
    BY <1>0, <1>6 DEF Crash, ExecRec, LogFollows
  <1>7. ASSUME NEW e \in Ids, StartHook(e) PROVE LogFollows'
    BY <1>0, <1>7 DEF StartHook, ExecRec, LogFollows
  <1>8. ASSUME NEW e \in Ids, RowsLand(e) \/ Deadline(e) PROVE LogFollows'
    BY <1>0, <1>8 DEF RowsLand, Deadline, ExecRec, LogFollows
  <1>9. ASSUME NEW e \in Ids, RunnerEnds(e) PROVE LogFollows'
    BY <1>0, <1>9 DEF RunnerEnds, ExecRec, LogFollows
  <1>10. ASSUME NEW e \in Ids, Finalize(e) PROVE LogFollows'
    BY <1>0, <1>10 DEF Finalize, ExecRec, Outcomes, LogFollows
  <1>11. ASSUME NEW e \in Ids, FinishHook(e) PROVE LogFollows'
    <2>1. day # 0
      BY BoundsAssumption DEF TypeOK, Days
    <2> QED
      BY <1>0, <1>11, <2>1 DEF FinishHook, ExecRec, Outcomes, LogFollows
  <1>12. ASSUME NEW e \in Ids, FinishUnbooked(e) \/ FollowUp(e) PROVE LogFollows'
    BY <1>0, <1>12 DEF FinishUnbooked, FollowUp, ExecRec, LogFollows
  <1>13. ASSUME NEW e \in Ids, HookFails(e) PROVE LogFollows'
    <2>1. CASE exec[e].pc = "logged"
      BY <1>0, <1>13, <2>1 DEF HookFails, ExecRec, LogFollows
    <2>2. CASE exec[e].pc # "logged"
      BY <1>0, <1>13, <2>2 DEF HookFails, ExecRec, LogFollows
    <2> QED
      BY <2>1, <2>2
  <1>14. ASSUME NEW e \in Ids, FinalizeFails(e) PROVE LogFollows'
    BY <1>0, <1>14 DEF FinalizeFails, ExecRec, LogFollows
  <1> QED
    BY <1>2, <1>3, <1>4, <1>5, <1>6, <1>7, <1>8, <1>9, <1>10, <1>11, <1>12, <1>13, <1>14
       DEF Next, Progress

\* Only midnight moves the date, and only forward.
LEMMA DayGrows ==
    ASSUME TypeOK, [Next]_vars PROVE day' \in Days /\ day <= day' /\ (~Midnight => day' = day)
  <1>1. day \in Nat
    BY DayTyped DEF TypeOK
  <1>2. CASE Midnight
    <2>1. day' = day + 1 /\ day < MaxDay /\ day \in 1..MaxDay /\ MaxDay \in Nat
      BY <1>2, BoundsAssumption DEF Midnight, TypeOK, Days
    <2>2. day' \in 1..MaxDay /\ day <= day'
      BY <2>1
    <2> QED
      BY <1>2, <2>2 DEF Days
  <1>3. CASE ~Midnight
    <2>1. day' = day
      BY <1>3 DEF Next, Progress, vars, clock, CronFire, ManualRun, RetryFire, CronMissed, Patrol,
           Crash, Restart, RowsLand, Deadline, RunnerEnds, Finalize, StartHook, FinishHook,
           FinishUnbooked, FollowUp, HookFails, FinalizeFails
    <2> QED
      BY <1>1, <2>1 DEF TypeOK
  <1> QED
    BY <1>2, <1>3

\* What one hook writes: the row of its step on the current trade day.
LEMMA HookWrites ==
    ASSUME TypeOK, NEW e \in Ids, StartHook(e) \/ FinishHook(e),
           NEW d \in Days, NEW s \in Steps, step'[d][s] # step[d][s]
    PROVE  /\ d \in TradeDays /\ d = day /\ StepKey(e) = s /\ exec[e].pc # "none"
           /\ step'[d][s].log = e
  <1>0. step \in [Days -> [Steps -> StepRec]]
    BY DEF TypeOK
  <1>1. CASE StartHook(e)
    BY <1>0, <1>1 DEF StartHook
  <1>2. CASE FinishHook(e)
    BY <1>0, <1>2 DEF FinishHook, RowsAfter, FinishedRow
  <1> QED
    BY <1>1, <1>2

LEMMA StepRowsOwned == TypeOK /\ Coherent /\ [Next]_vars => RowsOwned'
  <1> SUFFICES ASSUME TypeOK, LogFollows, RowsOwned, [Next]_vars,
                      NEW d \in Days, NEW s \in Steps, step'[d][s].status # "none"
               PROVE  /\ d \in TradeDays /\ d <= day'
                      /\ step'[d][s].log \in Ids
                      /\ exec'[step'[d][s].log].pc # "none"
                      /\ StepOf[exec'[step'[d][s].log].task] = s
    BY DEF RowsOwned, Coherent, StepKey
  <1>0. day \in Nat /\ day' \in Nat /\ day <= day'
    BY DayGrows, DayTyped DEF TypeOK
  <1>1. ASSUME NEW e \in Ids, exec[e].pc # "none", StepKey(e) = s
        PROVE  exec'[e].pc # "none" /\ StepOf[exec'[e].task] = s
    BY <1>1, ExecLasts DEF StepKey
  <1>2. CASE step'[d][s] = step[d][s]
    <2>1. /\ d \in TradeDays /\ d <= day
          /\ step[d][s].log \in Ids
          /\ exec[step[d][s].log].pc # "none"
          /\ StepKey(step[d][s].log) = s
      BY <1>2 DEF RowsOwned
    <2>2. d <= day'
      BY <1>0, <2>1, DayTyped
    <2> QED
      BY <1>1, <1>2, <2>1, <2>2
  <1>3. CASE step'[d][s] # step[d][s]
    <2>1. PICK e \in Ids : StartHook(e) \/ FinishHook(e)
      BY <1>3, RowsKept
    <2>2. /\ d \in TradeDays /\ d = day /\ StepKey(e) = s /\ exec[e].pc # "none"
          /\ step'[d][s].log = e
      BY <1>3, <2>1, HookWrites
    <2> QED
      BY <1>0, <1>1, <2>2
  <1> QED
    BY <1>2, <1>3

LEMMA InitCoherent == Init => Coherent
  BY DEF Init, Coherent, LogFollows, RowsOwned, NoExec, NoRow

\* The inductive invariant: types, the executor's queue, and the coherence of
\* executions, log rows and step rows.
IInv == TypeOK /\ QueueOK /\ Coherent

LEMMA IInvHolds == Spec => []IInv
  <1>1. Init => IInv
    BY InitType, InitCoherent DEF IInv
  <1>2. IInv /\ [Next]_vars => IInv'
    BY StepType, StepQueue, StepLogFollows, StepRowsOwned DEF IInv, Coherent
  <1> QED
    BY <1>1, <1>2, PTL DEF Spec

\* Every reachable state is well typed, for every topology, alias table and bound.
THEOREM TypeCorrect == Spec => []TypeOK
  <1>1. IInv => TypeOK
    BY DEF IInv
  <1> QED
    BY <1>1, IInvHolds, PTL

\* Log rows, step rows and executions tell one story (Coherent), across
\* midnights, crashes and lost hooks.
THEOREM BooksCoherent == Spec => []Coherent
  <1>1. IInv => Coherent
    BY DEF IInv
  <1> QED
    BY <1>1, IInvHolds, PTL

-----------------------------------------------------------------------------
(* The verdict of a run.                                                   *)

\* VerdictSound for one day: v is a verdict that the rows justify.
VerdictOf(v, rows) ==
    LET failed == {s \in Steps : rows[s].status = "failed"}
    IN  /\ v = "success" => /\ rows[Last].status = "success"
                            /\ \A s \in Steps : rows[s].status \in {"none", "success"}
        /\ v = "partial" => /\ failed # {} /\ failed \cap Critical = {}
                            /\ rows[Last].status \in Outcomes
        /\ v = "failed"  => failed \cap Critical # {}
        /\ v = "running" => \/ \E s \in Steps : rows[s].status = "running"
                            \/ failed \cap Critical = {} /\ rows[Last].status \notin Outcomes
        /\ v = "none" => \A s \in Steps : rows[s].status = "none"

LEMMA RecomputeSound ==
    ASSUME NEW rows \in [Steps -> StepRec] PROVE VerdictOf(Recompute(rows), rows)
  <1>1. \A s \in Steps : rows[s].status \in {"none", "running", "success", "failed"}
    BY DEF StepRec, Outcomes
  <1>2. Last \in Steps
    BY TopologyAssumption
  <1> QED
    BY <1>1, <1>2 DEF VerdictOf, Recompute, Final, Outcomes

\* An execution that is not unused has a step.
LEMMA StepKeyTyped ==
    ASSUME LogFollows, NEW e \in Ids, exec[e].pc # "none" PROVE StepKey(e) \in Steps
  BY TopologyAssumption DEF LogFollows, StepKey

\* What one hook does to the verdict and the rows of a day: nothing, a start, or
\* a finish that recomputes.
LEMMA HookVerdict ==
    ASSUME TypeOK, LogFollows, [Next]_vars, NEW d \in Days
    PROVE  \/ step'[d] = step[d] /\ run'[d] = run[d]
           \/ \E s \in Steps : step'[d][s].status = "running" /\ run'[d] = "running"
           \/ run'[d] = Recompute(step'[d])
  <1>0. step \in [Days -> [Steps -> StepRec]] /\ day \in Days
        /\ run \in [Days -> {"none", "running", "failed", "partial", "success"}]
    BY DEF TypeOK
  <1>1. ASSUME NEW e \in Ids, StartHook(e), d = day, day \in TradeDays
        PROVE  \E s \in Steps : step'[d][s].status = "running" /\ run'[d] = "running"
    <2>1. StepKey(e) \in Steps
      BY <1>1, StepKeyTyped DEF StartHook
    <2> QED
      BY <1>0, <1>1, <2>1 DEF StartHook
  <1>2. ASSUME NEW e \in Ids, FinishHook(e), d = day
        PROVE  run'[d] = Recompute(step'[d])
    BY <1>0, <1>2 DEF FinishHook
  <1>3. ASSUME NEW e \in Ids, StartHook(e) \/ FinishHook(e), d # day \/ day \notin TradeDays
        PROVE  step'[d] = step[d] /\ run'[d] = run[d]
    BY <1>0, <1>3 DEF StartHook, FinishHook
  <1> QED
    BY <1>1, <1>2, <1>3, RowsKept DEF FinishHook

\* The verdict of a run is the one its step rows justify.
THEOREM VerdictHolds == Spec => []VerdictSound
  <1>1. Init => VerdictSound
    BY DEF Init, VerdictSound, NoRow
  <1>2. TypeOK /\ TypeOK' /\ Coherent /\ VerdictSound /\ [Next]_vars => VerdictSound'
    <2> SUFFICES ASSUME TypeOK, TypeOK', LogFollows, VerdictSound, [Next]_vars, NEW d \in Days
                 PROVE  VerdictOf(run'[d], step'[d])
      BY DEF Coherent, VerdictSound, VerdictOf, FailedSteps
    <2>0. VerdictOf(run[d], step[d])
      BY DEF VerdictSound, VerdictOf, FailedSteps
    <2>1. CASE step'[d] = step[d] /\ run'[d] = run[d]
      BY <2>0, <2>1
    <2>2. CASE \E s \in Steps : step'[d][s].status = "running" /\ run'[d] = "running"
      BY <2>2 DEF VerdictOf
    <2>3. CASE run'[d] = Recompute(step'[d])
      <3>1. step'[d] \in [Steps -> StepRec]
        BY DEF TypeOK
      <3> QED
        BY <2>3, <3>1, RecomputeSound
    <2> QED
      BY <2>1, <2>2, <2>3, HookVerdict
  <1> QED
    BY <1>1, <1>2, TypeCorrect, BooksCoherent, PTL DEF Spec

-----------------------------------------------------------------------------
(* Rows that show an outcome agree with their log row.                     *)

\* A log row that has its outcome keeps it.
LEMMA OutcomesStay ==
    ASSUME TypeOK, LogFollows, [Next]_vars, NEW x \in Ids, log[x] \in Outcomes
    PROVE  log'[x] = log[x]
  <1>0. log \in [Ids -> {"none", "running"} \cup Outcomes]
    BY DEF TypeOK
  <1>1. CASE CronFire \/ ManualRun \/ RetryFire
    <2>1. PICK e \in Ids : log[e] = "none" /\ log' = [log EXCEPT ![e] = "running"]
      BY <1>1 DEF CronFire, ManualRun, RetryFire, Launch
    <2> QED
      BY <1>0, <2>1 DEF Outcomes
  <1>2. ASSUME NEW e \in Ids, Finalize(e) PROVE log'[x] = log[x]
    BY <1>0, <1>2 DEF Finalize, LogFollows, Outcomes
  <1>3. CASE /\ ~CronFire /\ ~ManualRun /\ ~RetryFire
             /\ \A e \in Ids : ~Finalize(e)
    BY <1>3 DEF Next, Progress, vars, CronMissed, Midnight, Patrol, Crash, Restart, RowsLand,
       Deadline, RunnerEnds, StartHook, FinishHook, FinishUnbooked, FollowUp, HookFails,
       FinalizeFails
  <1> QED
    BY <1>1, <1>2, <1>3

\* A step row that shows an outcome points at a log row with that outcome.
THEOREM RowsMatchLogs == Spec => []StepMatchesLog
  <1>1. Init => StepMatchesLog
    BY DEF Init, StepMatchesLog, NoRow, Outcomes
  <1>2. TypeOK /\ Coherent /\ StepMatchesLog /\ [Next]_vars => StepMatchesLog'
    <2> SUFFICES ASSUME TypeOK, LogFollows, StepMatchesLog, [Next]_vars,
                        NEW d \in Days, NEW s \in Steps, step'[d][s].status \in Outcomes
                 PROVE  step'[d][s].log \in Ids /\ log'[step'[d][s].log] = step'[d][s].status
      BY DEF Coherent, StepMatchesLog
    <2>1. CASE step'[d][s] = step[d][s]
      <3>1. step[d][s].log \in Ids /\ log[step[d][s].log] = step[d][s].status
        BY <2>1 DEF StepMatchesLog
      <3> QED
        BY <2>1, <3>1, OutcomesStay
    <2>2. CASE step'[d][s] # step[d][s]
      <3>1. PICK e \in Ids : StartHook(e) \/ FinishHook(e)
        BY <2>2, RowsKept
      <3>2. /\ d = day /\ StepKey(e) = s /\ step'[d][s].log = e
        BY <2>2, <3>1, HookWrites
      <3>3. step \in [Days -> [Steps -> StepRec]] /\ day \in Days
        BY DEF TypeOK
      <3>4. CASE StartHook(e)
        <4>1. step'[d][s].status = "running"
          BY <2>2, <3>2, <3>3, <3>4 DEF StartHook
        <4> QED
          BY <4>1 DEF Outcomes
      <3>5. CASE FinishHook(e)
        <4>1. step'[d][s].status = exec[e].outcome /\ log' = log
          BY <3>2, <3>3, <3>5 DEF FinishHook, RowsAfter, FinishedRow
        <4>2. log[e] = exec[e].outcome
          BY <3>5 DEF FinishHook, LogFollows
        <4> QED
          BY <3>2, <4>1, <4>2
      <3> QED
        BY <3>1, <3>4, <3>5
    <2> QED
      BY <2>1, <2>2
  <1> QED
    BY <1>1, <1>2, TypeCorrect, BooksCoherent, PTL DEF Spec

-----------------------------------------------------------------------------
(* No failed step is silent.                                               *)

\* The executions that owe something about a failed step s of day d.
Holds(e, d) == \/ exec[e].pc = "booked" /\ exec[e].book = d
               \/ exec[e].pc = "logged" /\ exec[e].trig = "retry"

\* A debt outlives the steps that leave its holder, its retry jobs and the alerts alone.
LEMMA OwedLasts ==
    ASSUME TypeOK, LogFollows, [Next]_vars, NEW d \in Days, NEW s \in Steps,
           retries \subseteq retries', alerts \subseteq alerts',
           \A e \in Ids : Holds(e, d) => Holds(e, d)',
           <<d, s>> \in alerts \/ Owed(d, s)
    PROVE  <<d, s>> \in alerts' \/ Owed(d, s)'
  <1>1. CASE <<d, s>> \in alerts
    BY <1>1
  <1>2. CASE \E r \in retries : r.step = s
    BY <1>2 DEF Owed
  <1>3. CASE \E e \in Ids : exec[e].pc # "none" /\ StepKey(e) = s /\ Holds(e, d)
    <2>1. PICK e \in Ids : exec[e].pc # "none" /\ StepKey(e) = s /\ Holds(e, d)
      BY <1>3
    <2>2. exec'[e].pc # "none" /\ StepOf[exec'[e].task] = s /\ Holds(e, d)'
      BY <2>1, ExecLasts DEF StepKey
    <2> QED
      BY <2>2 DEF Owed, Holds, StepKey
  <1> QED
    BY <1>1, <1>2, <1>3 DEF Owed, Holds

Announced(s) == <<day, s>> \in alerts \/ Owed(day, s)

\* A launch uses a fresh id, so it takes no debt away.
LEMMA LaunchHolds ==
    ASSUME TypeOK, LogFollows, NEW t, NEW trig, Launch(t, trig), NEW d
    PROVE  \A e \in Ids : Holds(e, d) => Holds(e, d)'
  <1>1. PICK x, r : x \in Ids /\ log[x] = "none" /\ exec' = [exec EXCEPT ![x] = r]
    BY DEF Launch
  <1>2. exec[x].pc = "none"
    BY <1>1 DEF LogFollows
  <1> QED
    BY <1>1, <1>2 DEF TypeOK, Holds

LEMMA StepAnnounced ==
    ASSUME TypeOK, LogFollows, RowsOwned, NoSilentFailure, [Next]_vars, faults' = 0,
           NEW s \in Steps, step'[day'][s].status = "failed"
    PROVE  Announced(s)'
  <1>0. /\ exec \in [Ids -> ExecRec] /\ step \in [Days -> [Steps -> StepRec]]
        /\ day \in Days /\ faults \in Nat
    BY DEF TypeOK
  <1>1. CASE Midnight
    <2>1. day' \in Days /\ day \in Nat /\ day' = day + 1 /\ step' = step
      BY <1>1, DayGrows, DayTyped, <1>0 DEF Midnight, books
    <2>2. ~(day' <= day)
      BY <2>1
    <2> QED
      BY <2>1, <2>2 DEF RowsOwned
  <1> SUFFICES ASSUME ~Midnight PROVE Announced(s)'
    BY <1>1
  <1>2. day' = day
    BY DayGrows
  <1> SUFFICES ASSUME NEW d \in Days, d = day
               PROVE  <<d, s>> \in alerts' \/ Owed(d, s)'
    BY <1>0, <1>2 DEF Announced, Owed
  <1>3. /\ faults = 0
        /\ ~Crash /\ \A e \in Ids : ~HookFails(e) /\ ~FinalizeFails(e)
    <2>1. faults + 1 # 0
      BY <1>0
    <2>2. ~Crash /\ \A e \in Ids : ~HookFails(e) /\ ~FinalizeFails(e)
      BY <2>1 DEF Crash, HookFails, FinalizeFails
    <2>3. CronMissed => faults = 0
      BY <2>1 DEF CronMissed
    <2>4. CASE ~CronMissed
      BY <2>2, <2>4 DEF Next, Progress, vars, CronFire, ManualRun, RetryFire, Patrol,
         Midnight, Restart, RowsLand, Deadline, RunnerEnds, Finalize, StartHook, FinishHook,
         FinishUnbooked, FollowUp
    <2> QED
      BY <2>2, <2>3, <2>4
  <1>4. step[day][s].status = "failed" => <<d, s>> \in alerts \/ Owed(d, s)
    BY <1>3 DEF NoSilentFailure
  <1>5. step[day][s].status # "none" => day \in TradeDays
    BY <1>0 DEF RowsOwned
  <1>6. ASSUME step'[day][s] = step[day][s], retries \subseteq retries', alerts \subseteq alerts',
               \A e \in Ids : Holds(e, d) => Holds(e, d)'
        PROVE  <<d, s>> \in alerts' \/ Owed(d, s)'
    BY <1>0, <1>2, <1>4, <1>6, OwedLasts
  <1>7. CASE CronFire \/ ManualRun
    <2>1. PICK n, g : Launch(n, g)
      BY <1>7 DEF CronFire, ManualRun
    <2>2. step' = step /\ retries' = retries /\ alerts' = alerts
      BY <1>7 DEF CronFire, ManualRun, books
    <2> QED
      BY <1>6, <2>1, <2>2, LaunchHolds
  <1>8. CASE RetryFire
    <2>1. PICK r \in retries : Launch(r.step, "retry") /\ retries' = retries \ {r}
      BY <1>8 DEF RetryFire
    <2>2. step' = step /\ alerts' = alerts
      BY <1>8 DEF RetryFire, books
    <2>3. r.step \in Steps /\ StepOf[r.step] = r.step
      BY TopologyAssumption DEF TypeOK, RetryRec
    <2>4. CASE r.step = s
      <3>1. PICK x \in Ids : exec' = [exec EXCEPT ![x] =
                  [NoExec EXCEPT !.task = r.step, !.trig = "retry", !.pc = "logged"]]
        BY <2>1 DEF Launch
      <3>2. exec'[x].pc = "logged" /\ exec'[x].trig = "retry" /\ exec'[x].task = s
        BY <1>0, <2>4, <3>1 DEF NoExec
      <3>3. exec'[x].pc # "none" /\ StepOf[exec'[x].task] = s
        BY <2>3, <2>4, <3>2
      <3> QED
        BY <3>2, <3>3 DEF Owed, StepKey
    <2>5. CASE r.step # s
      <3>1. \A e \in Ids : Holds(e, d) => Holds(e, d)'
        BY <2>1, LaunchHolds
      <3>2. step[day][s].status = "failed"
        BY <1>2, <2>2
      <3>3. CASE \E q \in retries : q.step = s
        <4>1. \E q \in retries' : q.step = s
          BY <2>1, <2>5, <3>3
        <4> QED
          BY <4>1 DEF Owed
      <3>4. CASE \E e \in Ids : exec[e].pc # "none" /\ StepKey(e) = s /\ Holds(e, d)
        <4>1. PICK e \in Ids : exec[e].pc # "none" /\ StepKey(e) = s /\ Holds(e, d)
          BY <3>4
        <4>2. exec'[e].pc # "none" /\ StepOf[exec'[e].task] = s /\ Holds(e, d)'
          BY <3>1, <4>1, ExecLasts DEF StepKey
        <4> QED
          BY <1>2, <4>2 DEF Owed, Holds, StepKey
      <3> QED
        BY <1>4, <2>2, <3>2, <3>3, <3>4 DEF Owed, Holds
    <2> QED
      BY <2>4, <2>5
  <1>9. CASE CronMissed \/ Patrol \/ Restart \/ UNCHANGED vars
    <2>1. exec' = exec /\ step' = step /\ retries' = retries /\ alerts \subseteq alerts'
      BY <1>9 DEF CronMissed, Patrol, Restart, vars, books
    <2> QED
      BY <1>2, <1>6, <2>1 DEF Holds
  <1>10. ASSUME NEW e \in Ids, StartHook(e) PROVE <<d, s>> \in alerts' \/ Owed(d, s)'
    <2>1. CASE StepKey(e) = s /\ day \in TradeDays
      <3>1. step'[day][s].status = "running"
        BY <1>0, <1>10, <2>1 DEF StartHook
      <3> QED
        BY <1>2, <3>1
    <2>2. CASE StepKey(e) # s \/ day \notin TradeDays
      <3>1. step'[day][s] = step[day][s] /\ retries' = retries /\ alerts' = alerts
        BY <1>0, <1>10, <2>2 DEF StartHook
      <3>2. StepKey(e) # s
        BY <1>2, <1>5, <2>2, <3>1
      <3>3. \A x \in Ids : x # e => exec'[x] = exec[x]
        BY <1>0, <1>10 DEF StartHook
      <3>4. step[day][s].status = "failed"
        BY <1>2, <3>1
      <3> QED
        BY <1>2, <1>4, <3>1, <3>2, <3>3, <3>4 DEF Owed, StepKey
    <2> QED
      BY <2>1, <2>2
  <1>11. ASSUME NEW e \in Ids, RowsLand(e) PROVE <<d, s>> \in alerts' \/ Owed(d, s)'
    BY <1>2, <1>6, <1>11 DEF RowsLand, books, Holds
  <1>12. ASSUME NEW e \in Ids, NEW r, exec' = [exec EXCEPT ![e] = r], exec[e].pc \notin {"logged", "booked"},
                step'[day][s] = step[day][s], retries' = retries, alerts' = alerts
         PROVE  <<d, s>> \in alerts' \/ Owed(d, s)'
    BY <1>0, <1>2, <1>6, <1>12 DEF Holds
  <1>13. ASSUME NEW e \in Ids, Deadline(e) PROVE <<d, s>> \in alerts' \/ Owed(d, s)'
    BY <1>12, <1>13 DEF Deadline, books
  <1>14. ASSUME NEW e \in Ids, RunnerEnds(e) PROVE <<d, s>> \in alerts' \/ Owed(d, s)'
    <2>1. PICK o : exec' = [exec EXCEPT ![e] = [@ EXCEPT !.pc = "ran", !.outcome = o, !.late = FALSE]]
      BY <1>14 DEF RunnerEnds
    <2> QED
      BY <1>12, <1>14, <2>1 DEF RunnerEnds, books
  <1>15. ASSUME NEW e \in Ids, Finalize(e) PROVE <<d, s>> \in alerts' \/ Owed(d, s)'
    BY <1>12, <1>15 DEF Finalize, books
  <1>16. ASSUME NEW e \in Ids, FinishUnbooked(e) PROVE <<d, s>> \in alerts' \/ Owed(d, s)'
    BY <1>12, <1>16 DEF FinishUnbooked, books
  <1>17. ASSUME NEW e \in Ids, FinishHook(e) PROVE <<d, s>> \in alerts' \/ Owed(d, s)'
    <2>1. CASE StepKey(e) = s
      <3>1. step'[day][s].status = exec[e].outcome
        BY <1>0, <1>17, <2>1 DEF FinishHook, RowsAfter, FinishedRow
      <3>2. exec'[e].pc = "booked" /\ exec'[e].book = day /\ exec'[e].task = exec[e].task
        BY <1>0, <1>2, <1>17, <3>1 DEF FinishHook, ExecRec
      <3> QED
        BY <1>2, <2>1, <3>2 DEF Owed, StepKey
    <2>2. CASE StepKey(e) # s
      <3>1. step'[day][s] = step[day][s]
        BY <1>0, <1>17, <2>2 DEF FinishHook, RowsAfter
      <3> QED
        BY <1>12, <1>17, <3>1 DEF FinishHook
    <2> QED
      BY <2>1, <2>2
  <1>18. ASSUME NEW e \in Ids, FollowUp(e) PROVE <<d, s>> \in alerts' \/ Owed(d, s)'
    <2>1. /\ step' = step /\ alerts \subseteq alerts' /\ retries \subseteq retries'
          /\ exec[e].pc = "booked"
      BY <1>18 DEF FollowUp, books
    <2>2. \A x \in Ids : x # e => exec'[x] = exec[x]
      BY <1>0, <1>18 DEF FollowUp
    <2>3. CASE StepKey(e) = s /\ exec[e].book = day
      <3>1. CASE Retrying(e)
        <4>1. retries' = retries \cup {[step |-> StepKey(e), n |-> exec[e].seen]}
          BY <1>18, <3>1 DEF FollowUp
        <4>2. [step |-> StepKey(e), n |-> exec[e].seen] \in retries'
          BY <4>1
        <4>3. [step |-> StepKey(e), n |-> exec[e].seen].step = s
          BY <2>3
        <4> QED
          BY <4>2, <4>3 DEF Owed
      <3>2. CASE ~Retrying(e)
        BY <1>18, <2>3, <3>2 DEF FollowUp
      <3> QED
        BY <3>1, <3>2
    <2>4. CASE StepKey(e) # s \/ exec[e].book # day
      <3>1. step[day][s].status = "failed"
        BY <1>2, <2>1
      <3> QED
        BY <1>2, <1>4, <2>1, <2>2, <2>4, <3>1 DEF Owed, StepKey
    <2> QED
      BY <2>3, <2>4
  <1> QED
    BY <1>3, <1>7, <1>8, <1>9, <1>10, <1>11, <1>13, <1>14, <1>15, <1>16, <1>17, <1>18
       DEF Next, Progress

\* While no fault occurs, no step shown failed today is silent.
THEOREM FailuresAnnounced == Spec => []NoSilentFailure
  <1>1. Init => NoSilentFailure
    BY DayTyped DEF Init, NoSilentFailure, NoRow
  <1>2. TypeOK /\ Coherent /\ NoSilentFailure /\ [Next]_vars => NoSilentFailure'
    BY StepAnnounced DEF Coherent, NoSilentFailure, Announced
  <1> QED
    BY <1>1, <1>2, TypeCorrect, BooksCoherent, PTL DEF Spec

-----------------------------------------------------------------------------
(* A running step has an owner.                                            *)

\* What a step without faults does to an execution in flight: only a finish
\* hook, or the end of an execution on a holiday, takes it out of flight.
LEMMA FlightLasts ==
    ASSUME TypeOK, LogFollows, [Next]_vars, faults' = 0, NEW x \in Ids,
           exec[x].pc \in InFlight, ~FinishHook(x), ~FinishUnbooked(x)
    PROVE  exec'[x].pc \in InFlight
  <1>0. exec \in [Ids -> ExecRec] /\ faults \in Nat
    BY DEF TypeOK
  <1>1. /\ ~Crash /\ \A e \in Ids : ~HookFails(e) /\ ~FinalizeFails(e)
    <2>1. faults + 1 # 0
      BY <1>0
    <2> QED
      BY <2>1 DEF Crash, HookFails, FinalizeFails
  <1>2. CASE CronFire \/ ManualRun \/ RetryFire
    <2>1. PICK e, r : e \in Ids /\ log[e] = "none" /\ exec' = [exec EXCEPT ![e] = r]
      BY <1>2 DEF CronFire, ManualRun, RetryFire, Launch
    <2> QED
      BY <1>0, <2>1 DEF LogFollows, InFlight
  <1>3. CASE CronMissed \/ Midnight \/ Patrol \/ Restart \/ UNCHANGED vars
    BY <1>3 DEF CronMissed, Midnight, Patrol, Restart, vars
  <1>4. ASSUME NEW e \in Ids, e # x, NEW r, exec' = [exec EXCEPT ![e] = r]
        PROVE  exec'[x].pc \in InFlight
    BY <1>0, <1>4
  <1>5. ASSUME NEW e \in Ids, e # x, FinishHook(e) \/ FinishUnbooked(e) \/ FollowUp(e) \/ StartHook(e)
        PROVE  exec'[x].pc \in InFlight
    BY <1>4, <1>5 DEF FinishHook, FinishUnbooked, FollowUp, StartHook
  <1>6. ~FollowUp(x) /\ ~StartHook(x)
    BY DEF FollowUp, StartHook, InFlight
  <1>7. ASSUME NEW e \in Ids, Deadline(e) PROVE exec'[x].pc \in InFlight
    BY <1>0, <1>7 DEF Deadline, ExecRec
  <1>8. ASSUME NEW e \in Ids, RunnerEnds(e) PROVE exec'[x].pc \in InFlight
    <2>1. PICK o : exec' = [exec EXCEPT ![e] = [@ EXCEPT !.pc = "ran", !.outcome = o, !.late = FALSE]]
      BY <1>8 DEF RunnerEnds
    <2> QED
      BY <1>0, <2>1 DEF ExecRec, InFlight
  <1>9. ASSUME NEW e \in Ids, Finalize(e) PROVE exec'[x].pc \in InFlight
    <2>1. exec' = [exec EXCEPT ![e] = [@ EXCEPT !.pc = "finalized"]]
      BY <1>9 DEF Finalize
    <2> QED
      BY <1>0, <2>1 DEF ExecRec, InFlight
  <1>10. ASSUME NEW e \in Ids, RowsLand(e) PROVE exec'[x].pc \in InFlight
    BY <1>10 DEF RowsLand
  <1> QED
    BY <1>1, <1>2, <1>3, <1>5, <1>6, <1>7, <1>8, <1>9, <1>10 DEF Next, Progress

\* While no fault occurs, a step shown running today is in the hands of the
\* execution its row names.
THEOREM RunningOwned == Spec => []RunningHasOwner
  <1>1. Init => RunningHasOwner
    BY DayTyped DEF Init, RunningHasOwner, NoRow
  <1>2. TypeOK /\ Coherent /\ RunningHasOwner /\ [Next]_vars => RunningHasOwner'
    <2> SUFFICES ASSUME TypeOK, LogFollows, RowsOwned, RunningHasOwner, [Next]_vars, faults' = 0,
                        NEW s \in Steps, step'[day'][s].status = "running"
                 PROVE  /\ step'[day'][s].log \in Ids
                        /\ exec'[step'[day'][s].log].pc \in InFlight
      BY DEF Coherent, RunningHasOwner
    <2>0. /\ exec \in [Ids -> ExecRec] /\ step \in [Days -> [Steps -> StepRec]]
          /\ day \in Days /\ faults \in Nat
      BY DEF TypeOK
    <2>1. CASE Midnight
      <3>1. day' \in Days /\ day \in Nat /\ day' = day + 1 /\ step' = step
        BY <2>0, <2>1, DayGrows, DayTyped DEF Midnight, books
      <3>2. ~(day' <= day)
        BY <3>1
      <3> QED
        BY <3>1, <3>2 DEF RowsOwned
    <2>2. CASE ~Midnight
      <3>1. day' = day
        BY <2>2, DayGrows
      <3>2. CASE step'[day][s] = step[day][s]
        <4>1. faults = 0
          <5>1. faults + 1 # 0
            BY <2>0
          <5> QED
            BY <5>1 DEF Next, Progress, vars, CronFire, ManualRun, RetryFire, CronMissed, Patrol,
               Midnight, Crash, Restart, RowsLand, Deadline, RunnerEnds, Finalize, StartHook,
               FinishHook, FinishUnbooked, FollowUp, HookFails, FinalizeFails
        <4>2. /\ step[day][s].log \in Ids /\ exec[step[day][s].log].pc \in InFlight
              /\ StepKey(step[day][s].log) = s /\ day \in TradeDays
          BY <2>0, <3>1, <3>2, <4>1 DEF RunningHasOwner, RowsOwned
        <4>3. ~FinishHook(step[day][s].log)
          <5> SUFFICES ASSUME FinishHook(step[day][s].log) PROVE FALSE
            OBVIOUS
          <5>1. step'[day][s].status = exec[step[day][s].log].outcome
            BY <2>0, <4>2 DEF FinishHook, RowsAfter, FinishedRow
          <5>2. exec[step[day][s].log].outcome \in Outcomes
            BY <2>0, <4>2 DEF ExecRec
          <5> QED
            BY <3>1, <5>1, <5>2 DEF Outcomes
        <4>4. ~FinishUnbooked(step[day][s].log)
          BY <4>2 DEF FinishUnbooked
        <4> QED
          BY <3>1, <3>2, <4>2, <4>3, <4>4, FlightLasts
      <3>3. CASE step'[day][s] # step[day][s]
        <4>1. PICK e \in Ids : StartHook(e) \/ FinishHook(e)
          BY <3>3, RowsKept
        <4>2. PICK d \in Days : d = day
          BY <2>0
        <4>3. StepKey(e) = s /\ step'[day][s].log = e
          BY <3>3, <4>1, <4>2, HookWrites
        <4>4. CASE StartHook(e)
          <5>1. exec'[e].pc = "running"
            BY <2>0, <4>4 DEF StartHook, ExecRec
          <5> QED
            BY <3>1, <4>3, <5>1 DEF InFlight
        <4>5. CASE FinishHook(e)
          <5>1. step'[day][s].status = exec[e].outcome
            BY <2>0, <4>3, <4>5 DEF FinishHook, RowsAfter, FinishedRow
          <5>2. exec[e].outcome \in Outcomes
            BY <2>0 DEF ExecRec
          <5> QED
            BY <3>1, <5>1, <5>2 DEF Outcomes
        <4> QED
          BY <4>1, <4>4, <4>5
      <3> QED
        BY <3>2, <3>3
    <2> QED
      BY <2>1, <2>2
  <1> QED
    BY <1>1, <1>2, TypeCorrect, BooksCoherent, PTL DEF Spec

-----------------------------------------------------------------------------
(* The books implement the run board.                                      *)

LEMMA BoardJustified ==
    ASSUME NEW rows \in [Steps -> StepRec]
    PROVE  Board!Justified([s \in Steps |-> rows[s].status], Recompute(rows))
  <1>1. \A s \in Steps : rows[s].status \in {"none", "running", "success", "failed"}
    BY DEF StepRec, Outcomes
  <1>2. Last \in Steps /\ Critical \subseteq Steps
    BY TopologyAssumption
  <1> QED
    BY <1>1, <1>2 DEF Board!Justified, Board!Ended, Recompute, Final, Outcomes

\* Every step of the books is a step of the board or leaves it alone.
LEMMA BoardStep == TypeOK /\ TypeOK' /\ LogFollows /\ [Next]_vars => [Board!Next]_(Board!boardVars)
  <1> SUFFICES ASSUME TypeOK, TypeOK', LogFollows, [Next]_vars
               PROVE  [Board!Next]_(Board!boardVars)
    OBVIOUS
  <1>0. /\ step \in [Days -> [Steps -> StepRec]] /\ day \in Days
        /\ run \in [Days -> {"none", "running", "failed", "partial", "success"}]
        /\ step' \in [Days -> [Steps -> StepRec]]
    BY DEF TypeOK
  <1>1. CASE Midnight
    <2>1. day' = day + 1 /\ day' \in Days /\ step' = step /\ run' = run
      BY <1>1, DayGrows DEF Midnight, books
    <2> QED
      BY <2>1 DEF Board!Next, Board!NewDay
  <1>2. ASSUME NEW e \in Ids, StartHook(e), day \in TradeDays PROVE Board!Next
    <2>1. PICK s \in Steps : s = StepKey(e)
      BY <1>2, StepKeyTyped DEF StartHook
    <2>2. /\ step' = [step EXCEPT ![day][s] = [status |-> "running", log |-> e,
                                              attempts |-> step[day][s].attempts + 1]]
          /\ run' = [run EXCEPT ![day] = "running"] /\ day' = day
      BY <1>0, <1>2, <2>1 DEF StartHook, clock
    <2>3. [d \in Days |-> [x \in Steps |-> step'[d][x].status]]
          = [[d \in Days |-> [x \in Steps |-> step[d][x].status]] EXCEPT ![day][s] = "running"]
      BY <1>0, <2>2
    <2>4. Board!Start(s)
      BY <2>2, <2>3 DEF Board!Start
    <2> QED
      BY <2>1, <2>4 DEF Board!Next
  <1>3. ASSUME NEW e \in Ids, FinishHook(e) PROVE Board!Next
    <2>1. PICK s \in Steps : s = StepKey(e)
      BY <1>3, StepKeyTyped DEF FinishHook
    <2>2. PICK o \in Board!Ended : o = exec[e].outcome
      BY DEF TypeOK, ExecRec, Outcomes, Board!Ended
    <2>3. step'[day] = RowsAfter(e) /\ run' = [run EXCEPT ![day] = Recompute(step'[day])]
          /\ day' = day
      BY <1>0, <1>3 DEF FinishHook, clock
    <2>4. step' = [step EXCEPT ![day][s] = FinishedRow(e)]
      BY <1>0, <1>3, <2>1 DEF FinishHook, RowsAfter
    <2>5. FinishedRow(e).status = o
      BY <2>2 DEF FinishedRow
    <2>6. [d \in Days |-> [x \in Steps |-> step'[d][x].status]]
          = [[d \in Days |-> [x \in Steps |-> step[d][x].status]] EXCEPT ![day][s] = o]
      BY <1>0, <2>1, <2>4, <2>5
    <2>7. Board!Justified([x \in Steps |-> step'[day][x].status], Recompute(step'[day]))
      BY <1>0, BoardJustified
    <2>8. Recompute(step'[day]) \in {"running", "failed", "partial", "success"}
      BY RecomputeTyped
    <2>9. Board!Finish(s, o)
      BY <1>0, <2>3, <2>6, <2>7, <2>8 DEF Board!Finish
    <2> QED
      BY <2>1, <2>2, <2>9 DEF Board!Next
  <1>4. CASE ~Midnight /\ \A e \in Ids : ~FinishHook(e) /\ ~(StartHook(e) /\ day \in TradeDays)
    <2>1. day' = day
      BY <1>4, DayGrows
    <2>2. step' = step /\ run' = run
      BY <1>4, RowsKept DEF StartHook
    <2> QED
      BY <2>1, <2>2 DEF Board!boardVars
  <1> QED
    BY <1>1, <1>2, <1>3, <1>4

\* The books implement the abstract run board, for every topology and schedule.
THEOREM BoardImplemented == Spec => BoardSpec
  <1>1. Init => Board!Init
    BY DEF Init, Board!Init, NoRow
  <1> QED
    BY <1>1, BoardStep, TypeCorrect, BooksCoherent, PTL DEF Spec, BoardSpec, Board!Spec, Coherent
-----------------------------------------------------------------------------
(* Alerts are about failures.                                              *)

\* What backs an alert: a used execution of the step whose log row says failed.
Backed(s) == \E e \in Ids : log[e] = "failed" /\ exec[e].pc # "none" /\ StepKey(e) = s

\* Neither the execution nor the outcome in its log row is ever taken back.
LEMMA BackedLasts ==
    ASSUME TypeOK, LogFollows, [Next]_vars, NEW s, Backed(s)
    PROVE  Backed(s)'
  <1>1. PICK e \in Ids : log[e] = "failed" /\ exec[e].pc # "none" /\ StepKey(e) = s
    BY DEF Backed
  <1>2. log'[e] = "failed"
    BY <1>1, OutcomesStay DEF Outcomes
  <1>3. exec'[e].pc # "none" /\ exec'[e].task = exec[e].task
    BY <1>1, ExecLasts
  <1> QED
    BY <1>1, <1>2, <1>3 DEF Backed, StepKey

\* Alerts are written by the follow-up of a failure and by the patrol, about steps
\* that have failed.
LEMMA NewAlertBacked ==
    ASSUME TypeOK, LogFollows, RowsOwned, StepMatchesLog, [Next]_vars,
           NEW a \in alerts', a \notin alerts
    PROVE  Backed(a[2])
  <1>1. ASSUME NEW e \in Ids, FollowUp(e) PROVE Backed(a[2])
    <2>1. a \in {<<exec[e].book, StepKey(e)>>}
      BY <1>1 DEF FollowUp
    <2>2. log[e] = "failed" /\ exec[e].pc # "none"
      BY <1>1 DEF FollowUp, LogFollows
    <2> QED
      BY <2>1, <2>2 DEF Backed
  <1>2. CASE Patrol
    <2>1. PICK s \in Steps : a = <<settled, s>> /\ step[settled][s].status = "failed"
      BY <1>2 DEF Patrol, Gaps
    <2>2. settled \in Days
      BY <1>2, <2>1 DEF Patrol, TypeOK, Days
    <2> QED
      BY <2>1, <2>2 DEF StepMatchesLog, RowsOwned, Outcomes, Backed
  <1>3. CASE ~Patrol /\ \A e \in Ids : ~FollowUp(e)
    <2>1. alerts' = alerts
      BY <1>3 DEF Next, Progress, vars, CronFire, ManualRun, RetryFire, CronMissed, Midnight,
         Crash, Restart, RowsLand, Deadline, RunnerEnds, Finalize, StartHook, FinishHook,
         FinishUnbooked, HookFails, FinalizeFails
    <2> QED
      BY <2>1
  <1> QED
    BY <1>1, <1>2, <1>3

\* An alert row is backed by a failed execution of its step, for ever.
THEOREM AlertsHold == Spec => []AlertsBacked
  <1>1. Init => AlertsBacked
    BY DEF Init, AlertsBacked
  <1>2. TypeOK /\ Coherent /\ StepMatchesLog /\ AlertsBacked /\ [Next]_vars => AlertsBacked'
    <2> SUFFICES ASSUME TypeOK, LogFollows, RowsOwned, StepMatchesLog, AlertsBacked, [Next]_vars,
                        NEW a \in alerts'
                 PROVE  Backed(a[2])'
      BY DEF Coherent, AlertsBacked, Backed, StepKey
    <2>1. Backed(a[2])
      BY NewAlertBacked DEF AlertsBacked, Backed
    <2> QED
      BY <2>1, BackedLasts
  <1> QED
    BY <1>1, <1>2, TypeCorrect, BooksCoherent, RowsMatchLogs, PTL DEF Spec

-----------------------------------------------------------------------------
(* A green run reopens only by a start.                                    *)

\* In a green run every finish leaves a final verdict: the last step stays ended, so
\* with a critical failure it is failed, with another partial, with none green.
LEMMA GreenFinish ==
    ASSUME TypeOK, TypeOK', VerdictSound, NEW e \in Ids, FinishHook(e), run[day] = "success"
    PROVE  Recompute(RowsAfter(e)) # "running"
  <1> DEFINE rows == RowsAfter(e)
  <1>1. /\ step[day] \in [Steps -> StepRec] /\ day \in Days /\ Last \in Steps
        /\ exec[e].outcome \in Outcomes
    BY TopologyAssumption DEF TypeOK, ExecRec
  <1>2. step[day][Last].status = "success" /\ \A s \in Steps : step[day][s].status \in {"none", "success"}
    BY <1>1 DEF VerdictSound
  <1>3. \A s \in Steps : \/ rows[s].status = exec[e].outcome
                         \/ rows[s].status = step[day][s].status
    BY <1>1 DEF RowsAfter, FinishedRow
  <1>4. \A s \in Steps : rows[s].status \in {"none", "success", "failed"}
    BY <1>1, <1>2, <1>3 DEF Outcomes
  <1>5. rows[Last].status \in {"success", "failed"}
    BY <1>1, <1>2, <1>3 DEF Outcomes
  <1>6. Recompute(rows) # "running"
    BY <1>4, <1>5 DEF Recompute, Final, Outcomes
  <1> QED
    BY <1>6

\* A green run turns back to running only in a step that starts one of its steps again.
THEOREM GreenKept == Spec => GreenReopenedByStart
  <1>1. ASSUME TypeOK, TypeOK', Coherent, VerdictSound, [Next]_vars, NEW d \in Days,
               run[d] = "success", run'[d] = "running"
        PROVE  \E s \in Steps : step'[d][s].attempts = step[d][s].attempts + 1
    <2>1. PICK e \in Ids : StartHook(e) \/ FinishHook(e)
      BY <1>1, RowsKept
    <2>2. /\ d = day /\ step \in [Days -> [Steps -> StepRec]]
          /\ run \in [Days -> {"none", "running", "failed", "partial", "success"}]
      BY <1>1, <2>1 DEF TypeOK, StartHook, FinishHook
    <2>3. CASE StartHook(e)
      <3>1. StepKey(e) \in Steps
        BY <1>1, <2>3, StepKeyTyped DEF StartHook, Coherent
      <3>2. step' = [step EXCEPT ![day][StepKey(e)] = StartedRow(e)]
        BY <1>1, <2>2, <2>3 DEF StartHook
      <3> QED
        BY <1>1, <2>2, <3>1, <3>2
    <2>4. CASE FinishHook(e)
      <3>1. run'[d] = Recompute(RowsAfter(e))
        BY <1>1, <2>2, <2>4 DEF FinishHook
      <3> QED
        BY <1>1, <2>2, <2>4, <3>1, GreenFinish
    <2> QED
      BY <2>1, <2>3, <2>4
  <1>2. TypeOK /\ TypeOK' /\ Coherent /\ VerdictSound /\ [Next]_vars
        => [\A d \in Days : run[d] = "success" /\ run'[d] = "running" =>
               \E s \in Steps : step'[d][s].attempts = step[d][s].attempts + 1]_vars
    BY <1>1
  <1> QED
    BY <1>2, TypeCorrect, BooksCoherent, VerdictHolds, PTL DEF Spec, GreenReopenedByStart

-----------------------------------------------------------------------------
(* Retries answer failures.                                                *)

\* Counting one more element, and one less.
LEMMA OneMore ==
    ASSUME NEW S, IsFiniteSet(S), NEW x
    PROVE  /\ IsFiniteSet(S \cup {x}) /\ Cardinality(S \cup {x}) \in Nat
           /\ Cardinality(S \cup {x}) <= Cardinality(S) + 1
           /\ x \notin S => Cardinality(S \cup {x}) = Cardinality(S) + 1
  <1>1. Cardinality(S) \in Nat
    BY FS_CardinalityType
  <1>2. CASE x \in S
    BY <1>1, <1>2, FS_AddElement
  <1>3. CASE x \notin S
    BY <1>1, <1>3, FS_AddElement
  <1> QED
    BY <1>2, <1>3

LEMMA OneLess ==
    ASSUME NEW S, IsFiniteSet(S), NEW x \in S
    PROVE  IsFiniteSet(S \ {x}) /\ Cardinality(S \ {x}) = Cardinality(S) - 1
  BY FS_RemoveElement

Used == {e \in Ids : exec[e].pc # "none"}
Answers(s) == {e \in Ids : exec[e].trig = "retry" /\ exec[e].task = s}
Pending(s) == {r \in retries : r.step = s}
Scheduled(s) == {e \in Ids : /\ exec[e].trig = "scheduler" /\ log[e] = "failed"
                             /\ exec[e].pc # "none" /\ StepKey(e) = s}
\* The failures that were followed up: what a retry can be the answer to.
Answerable(s) == {e \in Scheduled(s) : exec[e].pc = "done"}

\* The inductive form of RetriesBounded: a retry is counted against the failures that
\* are over, so the follow-up of one more failure makes room for one more retry.
RetryInv ==
    /\ IsFiniteSet(Used) /\ IsFiniteSet(retries)
    /\ \A e \in Ids : exec[e].pc = "none" => exec[e].trig = "manual"
    /\ \A s \in Steps :
          Cardinality(Answers(s)) + Cardinality(Pending(s)) <= Cardinality(Answerable(s))

LaunchStep == CronFire \/ ManualRun \/ RetryFire

\* Only a launch takes an unused log id.
LEMMA UnusedStays ==
    ASSUME TypeOK, [Next]_vars, ~LaunchStep, NEW x \in Ids, exec[x].pc = "none"
    PROVE  exec'[x] = exec[x]
  <1>0. exec \in [Ids -> ExecRec]
    BY DEF TypeOK
  <1>1. CASE CronMissed \/ Midnight \/ Patrol \/ Restart \/ UNCHANGED vars
    BY <1>1 DEF CronMissed, Midnight, Patrol, Restart, vars
  <1>2. CASE Crash
    BY <1>0, <1>2 DEF Crash
  <1>3. ASSUME NEW e \in Ids, StartHook(e) \/ Deadline(e) \/ Finalize(e) \/ FinishHook(e)
                              \/ FinishUnbooked(e) \/ FollowUp(e)
        PROVE  exec'[x] = exec[x]
    <2>1. e # x
      BY <1>3 DEF StartHook, Deadline, Finalize, FinishHook, FinishUnbooked, FollowUp
    <2>2. PICK r : exec' = [exec EXCEPT ![e] = r]
      BY <1>3 DEF StartHook, Deadline, Finalize, FinishHook, FinishUnbooked, FollowUp
    <2> QED
      BY <1>0, <2>1, <2>2
  <1>4. ASSUME NEW e \in Ids, RunnerEnds(e) \/ HookFails(e) \/ FinalizeFails(e)
        PROVE  exec'[x] = exec[x]
    <2>1. e # x
      BY <1>4 DEF RunnerEnds, HookFails, FinalizeFails
    <2>2. PICK r : exec' = [exec EXCEPT ![e] = r]
      BY <1>4 DEF RunnerEnds, HookFails, FinalizeFails
    <2> QED
      BY <1>0, <2>1, <2>2
  <1>5. ASSUME NEW e \in Ids, RowsLand(e) PROVE exec'[x] = exec[x]
    BY <1>5 DEF RowsLand
  <1> QED
    BY <1>1, <1>2, <1>3, <1>4, <1>5 DEF Next, Progress, LaunchStep

\* An execution that is over stays over.
LEMMA DoneStays ==
    ASSUME TypeOK, LogFollows, [Next]_vars, NEW x \in Ids, exec[x].pc = "done"
    PROVE  exec'[x].pc = "done"
  <1>0. exec \in [Ids -> ExecRec]
    BY DEF TypeOK
  <1>1. CASE LaunchStep
    <2>1. PICK e, r : e \in Ids /\ log[e] = "none" /\ exec' = [exec EXCEPT ![e] = r]
      BY <1>1 DEF LaunchStep, CronFire, ManualRun, RetryFire, Launch
    <2> QED
      BY <1>0, <2>1 DEF LogFollows
  <1>2. CASE CronMissed \/ Midnight \/ Patrol \/ Restart \/ UNCHANGED vars
    BY <1>2 DEF CronMissed, Midnight, Patrol, Restart, vars
  <1>3. CASE Crash
    BY <1>0, <1>3 DEF Crash, ExecRec
  <1>4. ASSUME NEW e \in Ids, StartHook(e) \/ Deadline(e) \/ Finalize(e) \/ FinishHook(e)
                              \/ FinishUnbooked(e) \/ FollowUp(e)
        PROVE  exec'[x].pc = "done"
    <2>1. e # x
      BY <1>4 DEF StartHook, Deadline, Finalize, FinishHook, FinishUnbooked, FollowUp
    <2>2. PICK r : exec' = [exec EXCEPT ![e] = r]
      BY <1>4 DEF StartHook, Deadline, Finalize, FinishHook, FinishUnbooked, FollowUp
    <2> QED
      BY <1>0, <2>1, <2>2
  <1>5. ASSUME NEW e \in Ids, RunnerEnds(e) \/ HookFails(e) \/ FinalizeFails(e)
        PROVE  exec'[x].pc = "done"
    <2>1. e # x
      BY <1>5 DEF RunnerEnds, HookFails, FinalizeFails
    <2>2. PICK r : exec' = [exec EXCEPT ![e] = r]
      BY <1>5 DEF RunnerEnds, HookFails, FinalizeFails
    <2> QED
      BY <1>0, <2>1, <2>2
  <1>6. ASSUME NEW e \in Ids, RowsLand(e) PROVE exec'[x].pc = "done"
    BY <1>6 DEF RowsLand
  <1> QED
    BY <1>1, <1>2, <1>3, <1>4, <1>5, <1>6 DEF Next, Progress, LaunchStep

\* A failure that was followed up can be answered for ever.
LEMMA AnswerableGrows ==
    ASSUME TypeOK, LogFollows, [Next]_vars, NEW s
    PROVE  Answerable(s) \subseteq Answerable(s)'
  <1>1. SUFFICES ASSUME NEW e \in Ids, exec[e].trig = "scheduler", log[e] = "failed",
                        exec[e].pc = "done", StepKey(e) = s
                 PROVE  /\ exec'[e].trig = "scheduler" /\ log'[e] = "failed"
                        /\ exec'[e].pc = "done" /\ StepOf[exec'[e].task] = s
    BY DEF Answerable, Scheduled, StepKey
  <1> QED
    BY <1>1, DoneStays, ExecLasts, OutcomesStay DEF StepKey, Outcomes

\* A step that launches nothing leaves the launched retries as they are.
LEMMA AnswersStay ==
    ASSUME TypeOK, LogFollows, [Next]_vars, ~LaunchStep
    PROVE  Used' = Used /\ \A s : Answers(s)' = Answers(s)
  <1>1. \A e \in Ids : /\ exec'[e].trig = exec[e].trig /\ exec'[e].task = exec[e].task
                       /\ exec'[e].pc # "none" <=> exec[e].pc # "none"
    BY ExecLasts, UnusedStays
  <1> QED
    BY <1>1 DEF Used, Answers

\* A launch uses one more log id.
LEMMA LaunchCounts ==
    ASSUME TypeOK, LogFollows, NEW t, NEW trig \in Triggers, Launch(t, trig)
    PROVE  \E e \in Ids :
              /\ e \notin Used /\ Used' = Used \cup {e}
              /\ \A x \in Ids : x # e => exec'[x] = exec[x]
              /\ exec'[e].trig = trig /\ exec'[e].task = t /\ exec'[e].pc = "logged"
  <1>0. exec \in [Ids -> ExecRec]
    BY DEF TypeOK
  <1>1. PICK e \in Ids :
           /\ log[e] = "none"
           /\ exec' = [exec EXCEPT ![e] = [NoExec EXCEPT !.task = t, !.trig = trig, !.pc = "logged"]]
    BY DEF Launch
  <1>2. /\ exec'[e].trig = trig /\ exec'[e].task = t /\ exec'[e].pc = "logged"
        /\ \A x \in Ids : x # e => exec'[x] = exec[x]
    BY <1>0, <1>1 DEF NoExec
  <1>3. e \notin Used /\ Used' = Used \cup {e}
    BY <1>1, <1>2 DEF Used, LogFollows
  <1> QED
    BY <1>2, <1>3

\* The counted sets are finite.
LEMMA CountedFinite ==
    ASSUME RetryInv, NEW s
    PROVE  /\ IsFiniteSet(Answers(s)) /\ IsFiniteSet(Pending(s))
           /\ IsFiniteSet(Scheduled(s)) /\ IsFiniteSet(Answerable(s))
  <1>1. /\ Answers(s) \subseteq Used /\ Scheduled(s) \subseteq Used
        /\ Answerable(s) \subseteq Used /\ Pending(s) \subseteq retries
    BY DEF RetryInv, Answers, Scheduled, Answerable, Pending, Used
  <1> QED
    BY <1>1, FS_Subset DEF RetryInv

\* Retries change only when one fires, a failure is followed up, or the process dies.
LEMMA RetriesMove ==
    ASSUME [Next]_vars, ~RetryFire, \A e \in Ids : ~(FollowUp(e) /\ Retrying(e))
    PROVE  retries' = retries \/ retries' = {}
  BY DEF Next, Progress, vars, CronFire, ManualRun, CronMissed, Midnight, Patrol,
     Crash, Restart, RowsLand, Deadline, RunnerEnds, Finalize, StartHook, FinishHook,
     FinishUnbooked, FollowUp, HookFails, FinalizeFails

\* Smaller retries and no fewer failures keep the bound.
LEMMA BoundKept ==
    ASSUME RetryInv, NEW s \in Steps, Answers(s)' = Answers(s), Pending(s)' \subseteq Pending(s),
           Answerable(s) \subseteq Answerable(s)', IsFiniteSet(Answerable(s)')
    PROVE  Cardinality(Answers(s)') + Cardinality(Pending(s)') <= Cardinality(Answerable(s)')
  <1>1. /\ Cardinality(Pending(s)') <= Cardinality(Pending(s))
        /\ Cardinality(Answerable(s)) <= Cardinality(Answerable(s)')
    BY CountedFinite, FS_Subset
  <1>2. /\ Cardinality(Answers(s)) \in Nat /\ Cardinality(Pending(s)) \in Nat
        /\ Cardinality(Pending(s)') \in Nat
        /\ Cardinality(Answerable(s)) \in Nat /\ Cardinality(Answerable(s)') \in Nat
    BY CountedFinite, FS_CardinalityType, FS_Subset
  <1>3. Cardinality(Answers(s)) + Cardinality(Pending(s)) <= Cardinality(Answerable(s))
    BY DEF RetryInv
  <1> QED
    BY <1>1, <1>2, <1>3

\* Room for one more: a follow-up that asks for a retry adds a failure, a retry that fires
\* is pending no longer.
LEMMA StepRetryInv == TypeOK /\ LogFollows /\ RetryInv /\ [Next]_vars => RetryInv'
  <1> SUFFICES ASSUME TypeOK, LogFollows, RetryInv, [Next]_vars PROVE RetryInv'
    OBVIOUS
  <1>1. \A s : Answerable(s) \subseteq Answerable(s)'
    BY AnswerableGrows
  <1>2. CASE LaunchStep
    <2>0. PICK trig \in Triggers : \E t :
             /\ Launch(t, trig)
             /\ \/ trig # "retry" /\ retries' = retries
                \/ trig = "retry" /\ \E r \in retries : r.step = t /\ retries' = retries \ {r}
      <3>1. ASSUME NEW r \in retries, Launch(r.step, "retry"), retries' = retries \ {r}
            PROVE  \E t : Launch(t, "retry") /\ \E q \in retries : q.step = t /\ retries' = retries \ {q}
        BY <3>1
      <3>2. CASE RetryFire
        BY <3>1, <3>2 DEF RetryFire, Triggers
      <3>3. CASE CronFire \/ ManualRun
        BY <3>3 DEF CronFire, ManualRun, Triggers
      <3> QED
        BY <1>2, <3>2, <3>3 DEF LaunchStep
    <2>1. PICK t :
             /\ Launch(t, trig)
             /\ \/ trig # "retry" /\ retries' = retries
                \/ trig = "retry" /\ \E r \in retries : r.step = t /\ retries' = retries \ {r}
      BY <2>0
    <2>2. PICK e \in Ids :
              /\ e \notin Used /\ Used' = Used \cup {e}
              /\ \A x \in Ids : x # e => exec'[x] = exec[x]
              /\ exec'[e].trig = trig /\ exec'[e].task = t /\ exec'[e].pc = "logged"
      BY <2>1, LaunchCounts
    <2>3. IsFiniteSet(Used') /\ IsFiniteSet(retries')
      BY <2>1, <2>2, FS_AddElement, FS_RemoveElement DEF RetryInv
    <2>4. \A x \in Ids : exec'[x].pc = "none" => exec'[x].trig = "manual"
      BY <2>2 DEF RetryInv
    <2>5. \A s : IsFiniteSet(Answerable(s)')
      <3>1. \A s : Answerable(s)' \subseteq Used'
        BY DEF Answerable, Scheduled, Used
      <3> QED
        BY <2>3, <3>1, FS_Subset
    <2>6. e \notin UNION {Answers(s) : s \in Steps}
      BY <2>2 DEF Answers, Used, RetryInv
    <2>7. ASSUME NEW s \in Steps
          PROVE  Cardinality(Answers(s)') + Cardinality(Pending(s)') <= Cardinality(Answerable(s)')
      <3>1. CASE trig = "retry" /\ t = s
        <4>1. PICK r \in retries : r.step = s /\ retries' = retries \ {r}
          BY <2>1, <3>1
        <4>2. Answers(s)' = Answers(s) \cup {e} /\ e \notin Answers(s)
          BY <2>2, <2>6, <3>1 DEF Answers
        <4>3. Pending(s)' = Pending(s) \ {r} /\ r \in Pending(s)
          BY <4>1 DEF Pending
        <4>4. /\ Cardinality(Answers(s)') = Cardinality(Answers(s)) + 1
              /\ Cardinality(Pending(s)') = Cardinality(Pending(s)) - 1
              /\ Cardinality(Answerable(s)) <= Cardinality(Answerable(s)')
          <5>1. IsFiniteSet(Answers(s)) /\ IsFiniteSet(Pending(s)) /\ IsFiniteSet(Answerable(s)')
            BY <2>5, CountedFinite
          <5>2. Answerable(s) \subseteq Answerable(s)'
            BY <1>1
          <5> QED
            BY <4>2, <4>3, <5>1, <5>2, OneMore, OneLess, FS_Subset
        <4>5. /\ Cardinality(Answers(s)) \in Nat /\ Cardinality(Pending(s)) \in Nat
              /\ Cardinality(Answerable(s)) \in Nat /\ Cardinality(Answerable(s)') \in Nat
          BY <2>5, CountedFinite, FS_CardinalityType
        <4>6. Cardinality(Answers(s)) + Cardinality(Pending(s)) <= Cardinality(Answerable(s))
          BY DEF RetryInv
        <4> QED
          BY <4>4, <4>5, <4>6
      <3>2. CASE trig # "retry" \/ t # s
        <4>1. Answers(s)' = Answers(s)
          BY <2>2, <2>6, <3>2 DEF Answers
        <4>2. Pending(s)' \subseteq Pending(s)
          BY <2>1 DEF Pending
        <4> QED
          BY <1>1, <2>5, <4>1, <4>2, BoundKept
      <3> QED
        BY <3>1, <3>2
    <2> QED
      BY <2>3, <2>4, <2>7 DEF RetryInv
  <1>3. CASE ~LaunchStep
    <2>1. Used' = Used /\ \A s : Answers(s)' = Answers(s)
      BY <1>3, AnswersStay
    <2>2. \A s : IsFiniteSet(Answerable(s)')
      <3>1. \A s : Answerable(s)' \subseteq Used'
        BY DEF Answerable, Scheduled, Used
      <3> QED
        BY <2>1, <3>1, FS_Subset DEF RetryInv
    <2>3. \A x \in Ids : exec'[x].pc = "none" => exec'[x].trig = "manual"
      BY <1>3, ExecLasts, UnusedStays DEF RetryInv
    <2>4. CASE \A e \in Ids : ~(FollowUp(e) /\ Retrying(e))
      <3>1. retries' = retries \/ retries' = {}
        BY <1>3, <2>4, RetriesMove DEF LaunchStep
      <3>2. IsFiniteSet(retries') /\ \A s : Pending(s)' \subseteq Pending(s)
        BY <3>1, FS_EmptySet DEF RetryInv, Pending
      <3>3. \A s \in Steps : Cardinality(Answers(s)') + Cardinality(Pending(s)')
                                <= Cardinality(Answerable(s)')
        BY <1>1, <2>1, <2>2, <3>2, BoundKept
      <3> QED
        BY <2>1, <2>3, <3>2, <3>3 DEF RetryInv
    <2>5. ASSUME NEW e \in Ids, FollowUp(e), Retrying(e) PROVE RetryInv'
      <3> DEFINE r == [step |-> StepKey(e), n |-> exec[e].seen]
      <3>1. retries' = retries \cup {r}
        BY <2>5 DEF FollowUp
      <3>2. /\ exec[e].trig = "scheduler" /\ log[e] = "failed" /\ exec[e].pc = "booked"
            /\ exec' = [exec EXCEPT ![e].pc = "done"] /\ log' = log
        BY <2>5 DEF FollowUp, Retrying, LogFollows
      <3>3. exec'[e].pc = "done" /\ exec'[e].trig = "scheduler" /\ exec'[e].task = exec[e].task
        BY <3>2 DEF TypeOK, ExecRec
      <3>4. IsFiniteSet(retries')
        BY <3>1, FS_AddElement DEF RetryInv
      <3>5. ASSUME NEW s \in Steps
            PROVE  Cardinality(Answers(s)') + Cardinality(Pending(s)') <= Cardinality(Answerable(s)')
        <4>1. CASE s = StepKey(e)
          <5>1. e \notin Answerable(s) /\ Answerable(s) \cup {e} \subseteq Answerable(s)'
            BY <1>1, <3>2, <3>3, <4>1 DEF Answerable, Scheduled, StepKey
          <5>2. Cardinality(Answerable(s)) + 1 <= Cardinality(Answerable(s)')
            <6>1. IsFiniteSet(Answerable(s)) /\ IsFiniteSet(Answerable(s)')
              BY <2>2, CountedFinite
            <6>2. Cardinality(Answerable(s) \cup {e}) = Cardinality(Answerable(s)) + 1
              BY <5>1, <6>1, OneMore
            <6>3. Cardinality(Answerable(s) \cup {e}) <= Cardinality(Answerable(s)')
              BY <5>1, <6>1, FS_Subset
            <6> QED
              BY <6>2, <6>3
          <5>3. Pending(s)' = Pending(s) \cup {r}
            BY <3>1, <4>1 DEF Pending
          <5>4. Cardinality(Pending(s)') <= Cardinality(Pending(s)) + 1
            <6>1. IsFiniteSet(Pending(s)) /\ Cardinality(Pending(s)) \in Nat
              BY CountedFinite, FS_CardinalityType
            <6> QED
              BY <5>3, <6>1, OneMore
          <5>5. /\ Cardinality(Answers(s)) \in Nat /\ Cardinality(Pending(s)) \in Nat
                /\ Cardinality(Pending(s)') \in Nat
                /\ Cardinality(Answerable(s)) \in Nat /\ Cardinality(Answerable(s)') \in Nat
            BY <2>2, <5>3, CountedFinite, FS_CardinalityType, OneMore
          <5>6. Cardinality(Answers(s)) + Cardinality(Pending(s)) <= Cardinality(Answerable(s))
            BY DEF RetryInv
          <5> QED
            BY <2>1, <5>2, <5>4, <5>5, <5>6
        <4>2. CASE s # StepKey(e)
          <5>1. Pending(s)' \subseteq Pending(s)
            BY <3>1, <4>2 DEF Pending
          <5> QED
            BY <1>1, <2>1, <2>2, <5>1, BoundKept
        <4> QED
          BY <4>1, <4>2
      <3> QED
        BY <2>1, <2>3, <3>4, <3>5 DEF RetryInv
    <2> QED
      BY <2>4, <2>5
  <1> QED
    BY <1>2, <1>3

\* Nothing is launched, retried or failed at first.
LEMMA InitRetryInv == Init => RetryInv
  <1> SUFFICES ASSUME Init PROVE RetryInv
    OBVIOUS
  <1>1. Used = {} /\ retries = {} /\ \A e \in Ids : exec[e].trig = "manual" /\ exec[e].pc = "none"
    BY DEF Init, Used, NoExec
  <1>2. \A s : Answers(s) = {} /\ Pending(s) = {} /\ Answerable(s) = {}
    BY <1>1 DEF Answers, Pending, Answerable, Scheduled
  <1> QED
    BY <1>1, <1>2, FS_EmptySet DEF RetryInv

\* However executions overlap and crash, a step never has more retries, pending or
\* launched, than failures of executions the scheduler itself had launched.
THEOREM RetriesHold == Spec => []RetriesBounded
  <1>1. TypeOK /\ Coherent /\ RetryInv /\ [Next]_vars => RetryInv'
    BY StepRetryInv DEF Coherent
  <1>2. RetryInv => RetriesBounded
    <2> SUFFICES ASSUME RetryInv, NEW s \in Steps
                 PROVE  Cardinality(Answers(s)) + Cardinality(Pending(s)) <= Cardinality(Scheduled(s))
      BY DEF RetriesBounded, Answers, Pending, Scheduled
    <2>1. Cardinality(Answerable(s)) <= Cardinality(Scheduled(s))
      BY CountedFinite, FS_Subset DEF Answerable
    <2>2. /\ Cardinality(Answers(s)) \in Nat /\ Cardinality(Pending(s)) \in Nat
          /\ Cardinality(Answerable(s)) \in Nat /\ Cardinality(Scheduled(s)) \in Nat
      BY CountedFinite, FS_CardinalityType
    <2> QED
      BY <2>1, <2>2 DEF RetryInv
  <1> QED
    BY <1>1, <1>2, InitRetryInv, TypeCorrect, BooksCoherent, PTL DEF Spec
=============================================================================
