---------------------------- MODULE SystemProofs ----------------------------
(***************************************************************************)
(* Proofs of safety properties of System, for any number of jobs, stages,  *)
(* workers and schedulers, any dependency graph and retry limits, and any  *)
(* faults.  They go through one lemma, TaskMoves, which says what a step   *)
(* of the whole system can do to one task.                                 *)
(***************************************************************************)
EXTENDS SystemTypes

USE DEF tableVars, redisVars, schedulerVars, monitorVars, workerVars

-----------------------------------------------------------------------------
(* Everything that refers to a task refers to one that was submitted.      *)
Submitted(t) == tasks[t].status # "ABSENT"

KnownTasks ==
    /\ \A t \in Tasks : Submitted(t) => jobs[JobOf(t)] # "ABSENT"
    /\ \A q \in Streams : \A i \in 1 .. Len(log[q]) : Submitted(log[q][i])
    /\ \A s \in Schedulers : current[s] # NoTask => Submitted(current[s])
    /\ \A s \in Schedulers : \A r \in stuck[s] : Submitted(r.task)

(* Somebody has found task t to be out of retries and is about to fail it. *)
GivenUp(t) ==
    \/ \E w \in Workers : wpc[w] = "exhaust" /\ TaskOf(w) = t
    \/ \E s \in Schedulers : \E r \in stuck[s] :
          r.task = t /\ r.retry_count >= max_retries(t)

(* What a step can do to the row of task t and to its history.             *)
KeepsAttempts(t) ==
    /\ tasks'[t].retry_count = tasks[t].retry_count
    /\ claims'[t] = claims[t]

KeepsResult(t) == tasks'[t].result_json = tasks[t].result_json

Stays(t) ==
    tasks'[t].status = tasks[t].status /\ KeepsAttempts(t) /\ KeepsResult(t)

Moves(t, from, to) ==
    /\ tasks[t].status \in from /\ tasks'[t].status = to
    /\ KeepsResult(t)

IsSubmitted(t) ==
    /\ Moves(t, {"ABSENT"}, "PENDING") /\ KeepsAttempts(t)
    /\ jobs'[JobOf(t)] = "PENDING"

IsQueued(t) ==
    /\ Moves(t, {"PENDING"}, "ENQUEUED") /\ KeepsAttempts(t)
    /\ \E s \in Schedulers : \E r \in batch[s] : r.task = t

IsClaimed(t) ==
    /\ Moves(t, {"ENQUEUED"}, "RUNNING")
    /\ tasks'[t].retry_count = tasks[t].retry_count
    /\ claims'[t] = claims[t] + 1

IsReset(t) ==
    /\ Moves(t, {"RUNNING"}, "PENDING")
    /\ tasks'[t].retry_count = tasks[t].retry_count + 1
    /\ claims'[t] = claims[t]

IsCompleted(t) ==
    /\ Submitted(t)
    /\ tasks'[t].status = "COMPLETED" /\ tasks'[t].result_json
    /\ KeepsAttempts(t)

IsFailed(t) ==
    /\ Submitted(t) /\ tasks'[t].status = "FAILED"
    /\ KeepsAttempts(t) /\ KeepsResult(t)
    /\ GivenUp(t)

IsSkipped(t) ==
    /\ Moves(t, {"PENDING", "ENQUEUED"}, "SKIPPED") /\ KeepsAttempts(t)
    /\ jobs'[JobOf(t)] = "CANCELLED"

TaskMove(t) ==
    \/ Stays(t)
    \/ IsSubmitted(t) \/ IsQueued(t) \/ IsClaimed(t) \/ IsReset(t)
    \/ IsCompleted(t) \/ IsFailed(t) \/ IsSkipped(t)

-----------------------------------------------------------------------------
(* A step that writes neither tasks nor claims leaves every task as it is. *)
LEMMA RowsUntouched ==
    ASSUME UNCHANGED <<tasks, claims>>, NEW t \in Tasks
    PROVE  TaskMove(t)
BY DEF TaskMove, Stays, KeepsAttempts, KeepsResult

(* The statement that worker and monitor share resets a RUNNING task and   *)
(* leaves all others alone.                                                *)
LEMMA ResetMove ==
    ASSUME TypeOK, NEW u \in Tasks, ResetIfRunning(u), UNCHANGED claims, NEW t \in Tasks
    PROVE  TaskMove(t)
<1>1. /\ \A v \in Tasks : v # u => tasks'[v] = tasks[v]
      /\ tasks'[u].result_json = tasks[u].result_json
      /\ IF tasks[u].status = "RUNNING"
         THEN /\ tasks'[u].status = "PENDING"
              /\ tasks'[u].retry_count = tasks[u].retry_count + 1
         ELSE tasks' = tasks
  BY ResetRow DEF TypeOK
<1>2. CASE t = u /\ tasks[u].status = "RUNNING"
  BY <1>1, <1>2 DEF TaskMove, IsReset, Moves, KeepsResult
<1>3. CASE t # u \/ tasks[u].status # "RUNNING"
  BY <1>1, <1>3 DEF TaskMove, Stays, KeepsAttempts, KeepsResult
<1> QED BY <1>2, <1>3

(* UPDATE tasks SET status='FAILED', by worker or monitor, fails one task  *)
(* that somebody found exhausted.                                          *)
LEMMA FailMove ==
    ASSUME TypeOK, NEW u \in Tasks, Submitted(u), GivenUp(u),
           SetStatus(u, "FAILED"), UNCHANGED claims, NEW t \in Tasks
    PROVE  TaskMove(t)
<1>1. tasks \in [Tasks -> TaskRow]
  BY DEF TypeOK, TablesTypeOK
<1>2. CASE t = u
  BY <1>1, <1>2 DEF SetStatus, TaskRow, TaskMove, IsFailed, KeepsAttempts, KeepsResult
<1>3. CASE t # u
  BY <1>1, <1>3 DEF SetStatus, TaskMove, Stays, KeepsAttempts, KeepsResult
<1> QED BY <1>2, <1>3

(* What the scheduler process, with its monitor, can do to a task.         *)
LEMMA SchedulerTaskMoves ==
    ASSUME TypeOK, KnownTasks, NEW s \in Schedulers, NEW t \in Tasks,
           \/ StartScheduler(s) \/ RunCycle(s) \/ RunMonitor(s)
           \/ TimePasses(s) \/ SchedulerFault(s)
    PROVE  TaskMove(t)
<1>0. UNCHANGED claims
  BY DEF StartScheduler, RunCycle, RunMonitor, TimePasses, SchedulerFault, SchedulerAlone
<1>1. tasks \in [Tasks -> TaskRow]
  BY DEF TypeOK, TablesTypeOK
<1>2. CASE UNCHANGED tasks
  BY <1>0, <1>2, RowsUntouched
<1>3. CASE EnqueueWon(s)
  <2>1. PICK r \in batch[s] : /\ StillPending(r.task)
                             /\ SetStatus(r.task, "ENQUEUED")
    BY <1>3 DEF EnqueueWon
  <2>2. r.task \in Tasks
    BY <2>1 DEF TypeOK, SchedulerTypeOK, ReadyRow
  <2>3. CASE t = r.task
    BY <1>0, <1>1, <2>1, <2>2, <2>3
       DEF StillPending, SetStatus, TaskRow, TaskMove, IsQueued, Moves, KeepsAttempts,
           KeepsResult
  <2>4. CASE t # r.task
    BY <1>0, <1>1, <2>1, <2>2, <2>4
       DEF SetStatus, TaskMove, Stays, KeepsAttempts, KeepsResult
  <2> QED BY <2>3, <2>4
<1>4. CASE StoreMessageId(s)
  <2>1. tasks' = [tasks EXCEPT ![current[s]].stream_message_id = message[s]]
    BY <1>4 DEF StoreMessageId
  <2>2. current[s] \in Tasks
    BY <1>4 DEF StoreMessageId, TypeOK, SchedulerTypeOK
  <2>3. /\ tasks'[t].status = tasks[t].status
        /\ tasks'[t].retry_count = tasks[t].retry_count
        /\ tasks'[t].result_json = tasks[t].result_json
    BY <1>1, <2>1, <2>2 DEF TaskRow
  <2> QED BY <1>0, <2>3 DEF TaskMove, Stays, KeepsAttempts, KeepsResult
<1>5. CASE ReapExhausted(s)
  <2>1. PICK r \in stuck[s] : /\ r.retry_count >= max_retries(r.task)
                             /\ SetStatus(r.task, "FAILED")
    BY <1>5 DEF ReapExhausted
  <2>2. r.task \in Tasks /\ Submitted(r.task) /\ GivenUp(r.task)
    BY <2>1 DEF TypeOK, MonitorTypeOK, StuckRow, KnownTasks, GivenUp
  <2> QED BY <1>0, <2>1, <2>2, FailMove
<1>6. CASE ReapReset(s)
  <2>1. PICK r \in stuck[s] : ResetIfRunning(r.task)
    BY <1>6 DEF ReapReset
  <2>2. r.task \in Tasks
    BY <2>1 DEF TypeOK, MonitorTypeOK, StuckRow
  <2> QED BY <1>0, <2>1, <2>2, ResetMove
<1>7. \/ UNCHANGED tasks
      \/ EnqueueWon(s) \/ StoreMessageId(s) \/ ReapExhausted(s) \/ ReapReset(s)
  BY DEF StartScheduler, SchedulerStart, TimePasses, WindowElapses,
         SchedulerFault, CycleError, ReapAckError, BackToReap, MonitorError,
         SchedulerCrash, ProcessEnds, RunCycle, CycleStep, FindReadyTasks,
         SkipIneligible, EnqueueLost, PushMessage, MarkJobRunning,
         CheckJobCompletions, SettleJob, EndCycle, RunMonitor, MonitorStep,
         MarkStaleDead, FindStuckTasks, AckReaped, MonitorDone
<1> QED BY <1>2, <1>3, <1>4, <1>5, <1>6, <1>7

(* What a worker can do to a task.                                         *)
LEMMA WorkerTaskMoves ==
    ASSUME TypeOK, KnownTasks, NEW w \in Workers, NEW t \in Tasks,
           \/ StartWorker(w) \/ RunWorker(w) \/ BeatHeart(w)
           \/ GoStale(w) \/ WorkerFault(w) \/ Deregistration(w)
    PROVE  TaskMove(t)
<1>1. tasks \in [Tasks -> TaskRow] /\ claims \in [Tasks -> Nat]
  BY DEF TypeOK, TablesTypeOK, WorkerTypeOK
<1>2. wpc[w] \notin {"off", "poll"} => TaskOf(w) \in Tasks /\ Submitted(TaskOf(w))
  <2> SUFFICES ASSUME wpc[w] \notin {"off", "poll"}
               PROVE  TaskOf(w) \in Tasks /\ Submitted(TaskOf(w))
    OBVIOUS
  <2>1. Serves[w] \in Streams /\ held[w] \in 1 .. Len(log[Serves[w]])
    BY ServesAssumption DEF TypeOK, WorkerTypeOK, RedisTypeOK
  <2> QED BY <2>1, HeldTask DEF KnownTasks, TaskOf
<1>3. CASE UNCHANGED <<tasks, claims>>
  BY <1>3, RowsUntouched
<1>4. CASE ClaimWon(w)
  <2> DEFINE u == TaskOf(w)
  <2>1. u \in Tasks /\ Claimable(u)
    BY <1>2, <1>4 DEF ClaimWon, At
  <2>2. /\ tasks' = [tasks EXCEPT ![u].status = "RUNNING", ![u].worker_id = w]
        /\ claims' = [claims EXCEPT ![u] = @ + 1]
    BY <1>4 DEF ClaimWon
  <2> HIDE DEF u
  <2>3. CASE t = u
    BY <1>1, <2>1, <2>2, <2>3 DEF Claimable, TaskRow, TaskMove, IsClaimed, Moves, KeepsResult
  <2>4. CASE t # u
    BY <1>1, <2>1, <2>2, <2>4 DEF TaskMove, Stays, KeepsAttempts, KeepsResult
  <2> QED BY <2>3, <2>4
<1>5. CASE Complete(w)
  <2> DEFINE u == TaskOf(w)
  <2>1. u \in Tasks /\ Submitted(u)
    BY <1>2, <1>5 DEF Complete, At
  <2>2. /\ tasks' = [tasks EXCEPT ![u].status = "COMPLETED", ![u].result_json = TRUE]
        /\ UNCHANGED claims
    BY <1>5 DEF Complete
  <2> HIDE DEF u
  <2>3. CASE t = u
    BY <1>1, <2>1, <2>2, <2>3 DEF TaskRow, TaskMove, IsCompleted, KeepsAttempts
  <2>4. CASE t # u
    BY <1>1, <2>1, <2>2, <2>4 DEF TaskMove, Stays, KeepsAttempts, KeepsResult
  <2> QED BY <2>3, <2>4
<1>6. CASE ResetToPending(w)
  BY <1>2, <1>6, ResetMove DEF ResetToPending, At
<1>7. CASE MarkFailed(w)
  BY <1>2, <1>7, FailMove DEF MarkFailed, At, GivenUp
<1>8. \/ UNCHANGED <<tasks, claims>>
      \/ ClaimWon(w) \/ Complete(w) \/ ResetToPending(w) \/ MarkFailed(w)
  BY DEF StartWorker, Register, RunWorker, WorkerStep, Poll, ClaimLost, MarkBusy,
         ExecuteFails, MarkIdle, Ack, ReadRetries, MarkIdleAfterFailure, Bury,
         BeatHeart, Heartbeat, GoStale, HeartbeatLapse, WorkerFault, WorkerCrash,
         LoopError, PersistError, Deregistration, DeregisterWorker, ApiAlone
<1> QED BY <1>3, <1>4, <1>5, <1>6, <1>7, <1>8

(* What a request can do to a task.                                        *)
LEMMA RequestTaskMoves ==
    ASSUME TypeOK, KnownTasks, NEW j \in Jobs, NEW t \in Tasks, Request(j)
    PROVE  TaskMove(t)
<1>0. UNCHANGED claims
  BY DEF Request, ApiAlone
<1>1. tasks \in [Tasks -> TaskRow]
  BY DEF TypeOK, TablesTypeOK
<1>2. CASE SubmitJob(j)
  <2>1. CASE JobOf(t) = j
    <3>1. tasks[t].status = "ABSENT"
      BY <1>2, <2>1 DEF SubmitJob, KnownTasks, Submitted
    <3>2. tasks'[t] = [tasks[t] EXCEPT !.status = "PENDING"]
      BY <1>2, <2>1 DEF SubmitJob
    <3>3. jobs'[JobOf(t)] = "PENDING"
      BY <1>2, <2>1 DEF SubmitJob, TypeOK, TablesTypeOK
    <3> QED BY <1>0, <1>1, <3>1, <3>2, <3>3
            DEF TaskRow, TaskMove, IsSubmitted, Moves, KeepsAttempts, KeepsResult
  <2>2. CASE JobOf(t) # j
    BY <1>0, <1>2, <2>2 DEF SubmitJob, TaskMove, Stays, KeepsAttempts, KeepsResult
  <2> QED BY <2>1, <2>2
<1>3. CASE CancelCheck(j)
  BY <1>0, <1>3, RowsUntouched DEF CancelCheck
<1>4. CASE CancelCommit(j)
  <2>1. CASE JobOf(t) = j /\ tasks[t].status \in {"PENDING", "ENQUEUED"}
    <3>1. tasks'[t] = [tasks[t] EXCEPT !.status = "SKIPPED"]
      BY <1>4, <2>1 DEF CancelCommit
    <3>2. jobs'[JobOf(t)] = "CANCELLED"
      BY <1>4, <2>1 DEF CancelCommit, TypeOK, TablesTypeOK
    <3> QED BY <1>0, <1>1, <2>1, <3>1, <3>2
            DEF TaskRow, TaskMove, IsSkipped, Moves, KeepsAttempts, KeepsResult
  <2>2. CASE ~(JobOf(t) = j /\ tasks[t].status \in {"PENDING", "ENQUEUED"})
    BY <1>0, <1>4, <2>2 DEF CancelCommit, TaskMove, Stays, KeepsAttempts, KeepsResult
  <2> QED BY <2>1, <2>2
<1> QED BY <1>2, <1>3, <1>4 DEF Request

(* A step of the system does to a task one of eight things, or nothing.    *)
LEMMA TaskMoves ==
    ASSUME TypeOK, KnownTasks, [Next]_vars, NEW t \in Tasks
    PROVE  TaskMove(t)
<1>1. CASE UNCHANGED vars
  BY <1>1, RowsUntouched DEF vars
<1>2. CASE Next
  BY <1>2, SchedulerTaskMoves, WorkerTaskMoves, RequestTaskMoves DEF Next
<1> QED BY <1>1, <1>2

-----------------------------------------------------------------------------
(* What a step can do to the status of job j: it is submitted with all its *)
(* tasks, marked RUNNING on behalf of one of them, settled or cancelled.   *)
JobMove(j) ==
    \/ jobs'[j] = jobs[j]
    \/ /\ jobs[j] = "ABSENT" /\ jobs'[j] = "PENDING"
       /\ \A t \in TasksOf(j) : Submitted(t)'
    \/ /\ jobs[j] = "PENDING" /\ jobs'[j] = "RUNNING"
       /\ \E s \in Schedulers : current[s] \in TasksOf(j)
    \/ \E s \in Schedulers : \E r \in completable[s] : r.job = j /\ jobs'[j] = r.verdict
    \/ /\ jobs'[j] = "CANCELLED" /\ cancels[j] > 0
       /\ \A t \in TasksOf(j) : tasks'[t].status \notin {"PENDING", "ENQUEUED"}

LEMMA JobMoves ==
    ASSUME TypeOK, [Next]_vars, NEW j \in Jobs
    PROVE  JobMove(j)
<1>0. jobs \in [Jobs -> JobStatus] /\ tasks \in [Tasks -> TaskRow]
  BY DEF TypeOK, TablesTypeOK
<1>a. ASSUME NEW t \in TasksOf(j) PROVE t \in Tasks /\ JobOf(t) = j
  BY <1>a DEF TasksOf, Tasks, JobOf
<1>1. CASE UNCHANGED jobs
  BY <1>1 DEF JobMove
<1>2. ASSUME NEW s \in Schedulers, MarkJobRunning(s) PROVE JobMove(j)
  <2>1. current[s] \in Tasks /\ jobs' = [jobs EXCEPT ![JobOf(current[s])] = Started(@)]
    BY <1>2 DEF MarkJobRunning, TypeOK, SchedulerTypeOK
  <2>2. CASE JobOf(current[s]) = j
    <3>1. current[s] \in TasksOf(j)
      BY <2>1, <2>2 DEF TasksOf, Tasks, JobOf
    <3> QED BY <1>0, <2>1, <2>2, <3>1 DEF Started, JobMove
  <2>3. CASE JobOf(current[s]) # j
    BY <1>0, <2>1, <2>3 DEF JobMove
  <2> QED BY <2>2, <2>3
<1>3. ASSUME NEW s \in Schedulers, SettleJob(s) PROVE JobMove(j)
  BY <1>0, <1>3 DEF SettleJob, JobMove
<1>4. ASSUME NEW i \in Jobs, Request(i) PROVE JobMove(j)
  <2>1. CASE SubmitJob(i) /\ i = j
    <3>1. \A t \in TasksOf(j) : tasks'[t].status = "PENDING"
      BY <1>0, <1>a, <2>1 DEF SubmitJob, TaskRow
    <3> QED BY <1>0, <2>1, <3>1 DEF SubmitJob, JobMove, Submitted
  <2>2. CASE CancelCommit(i) /\ i = j
    <3>1. \A t \in TasksOf(j) : tasks'[t].status \notin {"PENDING", "ENQUEUED"}
      BY <1>0, <1>a, <2>2 DEF CancelCommit, TaskRow
    <3> QED BY <1>0, <2>2, <3>1 DEF CancelCommit, JobMove
  <2>3. CASE i # j \/ CancelCheck(i)
    BY <1>0, <1>4, <2>3 DEF Request, SubmitJob, CancelCheck, CancelCommit, JobMove
  <2> QED BY <1>4, <2>1, <2>2, <2>3 DEF Request
<1>5. \/ UNCHANGED jobs
      \/ \E s \in Schedulers : MarkJobRunning(s) \/ SettleJob(s)
      \/ \E i \in Jobs : Request(i)
  <2>1. CASE UNCHANGED vars
    BY <2>1 DEF vars
  <2>2. ASSUME NEW s \in Schedulers,
               \/ StartScheduler(s) \/ RunCycle(s) \/ RunMonitor(s)
               \/ TimePasses(s) \/ SchedulerFault(s)
        PROVE  UNCHANGED jobs \/ MarkJobRunning(s) \/ SettleJob(s)
    BY <2>2 DEF StartScheduler, SchedulerStart, TimePasses, WindowElapses,
         SchedulerFault, CycleError, ReapAckError, BackToReap, MonitorError,
         SchedulerCrash, ProcessEnds, RunCycle, CycleStep, FindReadyTasks,
         SkipIneligible, EnqueueLost, EnqueueWon, PushMessage, StoreMessageId,
         CheckJobCompletions, EndCycle, RunMonitor, MonitorStep, MarkStaleDead,
         FindStuckTasks, ReapExhausted, ReapReset, AckReaped, MonitorDone
  <2>3. ASSUME NEW w \in Workers,
               \/ StartWorker(w) \/ RunWorker(w) \/ BeatHeart(w)
               \/ GoStale(w) \/ WorkerFault(w) \/ Deregistration(w)
        PROVE  UNCHANGED jobs
    BY <2>3 DEF StartWorker, Register, RunWorker, WorkerStep, Poll, ClaimWon,
         ClaimLost, MarkBusy, Complete, ExecuteFails, MarkIdle, Ack, ReadRetries,
         ResetToPending, MarkFailed, MarkIdleAfterFailure, Bury, BeatHeart,
         Heartbeat, GoStale, HeartbeatLapse, WorkerFault, WorkerCrash, LoopError,
         PersistError, Deregistration, DeregisterWorker
  <2>4. CASE Next
    BY <2>2, <2>3, <2>4 DEF Next
  <2> QED BY <2>1, <2>4
<1> QED BY <1>1, <1>2, <1>3, <1>4, <1>5

-----------------------------------------------------------------------------
(* Who writes the streams and the variables that hold tasks.               *)
SchedulerSteps(s) ==
    \/ StartScheduler(s) \/ RunCycle(s) \/ RunMonitor(s)
    \/ TimePasses(s) \/ SchedulerFault(s)

(* Only the scheduler process s itself writes its local variables.         *)
LEMMA OthersKeepSchedulers ==
    ASSUME [Next]_vars
    PROVE  \/ \E s \in Schedulers : SchedulerSteps(s)
           \/ UNCHANGED <<monitorVars, log>>
<1>1. CASE UNCHANGED vars
  BY <1>1 DEF vars
<1>2. ASSUME NEW j \in Jobs, Request(j) PROVE UNCHANGED <<monitorVars, log>>
  BY <1>2 DEF Request, ApiAlone, SubmitJob, CancelCheck, CancelCommit
<1>3. ASSUME NEW w \in Workers,
             \/ StartWorker(w) \/ RunWorker(w) \/ BeatHeart(w)
             \/ GoStale(w) \/ WorkerFault(w) \/ Deregistration(w)
      PROVE  UNCHANGED <<monitorVars, log>>
  BY <1>3 DEF StartWorker, Register, RunWorker, WorkerStep, Poll, ClaimWon,
         ClaimLost, MarkBusy, Complete, ExecuteFails, MarkIdle, Ack, ReadRetries,
         ResetToPending, MarkFailed, MarkIdleAfterFailure, Bury, BeatHeart,
         Heartbeat, GoStale, HeartbeatLapse, WorkerFault, WorkerCrash, LoopError,
         PersistError, Deregistration, DeregisterWorker, WorkerAlone, ApiAlone
<1> QED BY <1>1, <1>2, <1>3 DEF Next, SchedulerSteps

(* A stream grows by the task that some scheduler is dispatching.          *)
LEMMA LogWriter ==
    ASSUME [Next]_vars
    PROVE  log' = log \/ \E s \in Schedulers : PushMessage(s)
<1>1. ASSUME NEW s \in Schedulers, SchedulerSteps(s)
      PROVE  log' = log \/ PushMessage(s)
  BY <1>1 DEF SchedulerSteps, StartScheduler, SchedulerStart, TimePasses, WindowElapses,
         SchedulerFault, CycleError, ReapAckError, BackToReap, MonitorError,
         SchedulerCrash, ProcessEnds, RunCycle, CycleStep, FindReadyTasks,
         SkipIneligible, EnqueueLost, EnqueueWon, StoreMessageId, MarkJobRunning,
         CheckJobCompletions, SettleJob, EndCycle, RunMonitor, MonitorStep,
         MarkStaleDead, FindStuckTasks, ReapExhausted, ReapReset, AckReaped, MonitorDone
<1> QED BY <1>1, OthersKeepSchedulers

(* The task in hand was PENDING when it was won, or comes from a row of    *)
(* the stuck list.                                                         *)
LEMMA CurrentWriter ==
    ASSUME TypeOK, [Next]_vars, NEW s \in Schedulers
    PROVE  \/ current'[s] = current[s] \/ current'[s] = NoTask
           \/ \E r \in batch[s] : /\ StillPending(r.task) /\ current'[s] = r.task
                                  /\ tasks'[r.task].status = "ENQUEUED"
           \/ \E r \in stuck[s] : current'[s] = r.task
<1> DEFINE Goal == \/ current'[s] = current[s] \/ current'[s] = NoTask
                   \/ \E r \in batch[s] : /\ StillPending(r.task) /\ current'[s] = r.task
                                          /\ tasks'[r.task].status = "ENQUEUED"
                   \/ \E r \in stuck[s] : current'[s] = r.task
<1>0. current \in [Schedulers -> Tasks \cup {NoTask}]
  BY DEF TypeOK, SchedulerTypeOK
<1>1. ASSUME NEW u \in Schedulers, SchedulerSteps(u) PROVE Goal
  <2>1. CASE current' = current
    BY <2>1
  <2>2. CASE current' = [current EXCEPT ![u] = NoTask]
    BY <1>0, <2>2
  <2>3. CASE EnqueueWon(u)
    <3>1. PICK r \in batch[u] : /\ StillPending(r.task) /\ SetStatus(r.task, "ENQUEUED")
                               /\ current' = [current EXCEPT ![u] = r.task]
      BY <2>3 DEF EnqueueWon
    <3>2. tasks'[r.task].status = "ENQUEUED"
      BY <3>1 DEF SetStatus, TypeOK, TablesTypeOK, TaskRow, SchedulerTypeOK, ReadyRow
    <3> QED BY <1>0, <3>1, <3>2
  <2>4. CASE ReapReset(u)
    BY <1>0, <2>4 DEF ReapReset
  <2>5. \/ current' = current \/ current' = [current EXCEPT ![u] = NoTask]
        \/ EnqueueWon(u) \/ ReapReset(u)
    BY <1>1 DEF SchedulerSteps, StartScheduler, SchedulerStart, TimePasses,
         WindowElapses, SchedulerFault, CycleError, ReapAckError, BackToReap,
         MonitorError, SchedulerCrash, ProcessEnds, ForgetLocals, RunCycle, CycleStep,
         FindReadyTasks, SkipIneligible, EnqueueLost, PushMessage, StoreMessageId,
         MarkJobRunning, CheckJobCompletions, SettleJob, EndCycle, RunMonitor,
         MonitorStep, MarkStaleDead, FindStuckTasks, ReapExhausted, AckReaped,
         MonitorDone
  <2> QED BY <2>1, <2>2, <2>3, <2>4, <2>5
<1>2. CASE UNCHANGED <<monitorVars, log>>
  BY <1>2
<1> QED BY <1>1, <1>2, OthersKeepSchedulers

(* The rows of a stuck list are RUNNING tasks of that moment, with their   *)
(* retry_count.                                                            *)
LEMMA StuckWriter ==
    ASSUME TypeOK, [Next]_vars, NEW s \in Schedulers, NEW r \in stuck'[s]
    PROVE  \/ r \in stuck[s]
           \/ /\ tasks[r.task].status = "RUNNING"
              /\ r.retry_count = tasks[r.task].retry_count
              /\ UNCHANGED tasks
<1> DEFINE Goal == \/ r \in stuck[s]
                   \/ /\ tasks[r.task].status = "RUNNING"
                      /\ r.retry_count = tasks[r.task].retry_count
                      /\ UNCHANGED tasks
<1>0. stuck \in [Schedulers -> SUBSET StuckRow]
  BY DEF TypeOK, MonitorTypeOK
<1>1. ASSUME NEW u \in Schedulers, SchedulerSteps(u) PROVE Goal
  <2>1. CASE stuck' = stuck
    BY <2>1
  <2>2. CASE stuck' = [stuck EXCEPT ![u] = {}]
    BY <1>0, <2>2
  <2>3. CASE \E x \in stuck[u] : TakeStuck(u, x)
    BY <1>0, <2>3 DEF TakeStuck
  <2>4. CASE FindStuckTasks(u)
    BY <1>0, <2>4 DEF FindStuckTasks, StuckTasks
  <2>5. \/ stuck' = stuck \/ stuck' = [stuck EXCEPT ![u] = {}]
        \/ \E x \in stuck[u] : TakeStuck(u, x)
        \/ FindStuckTasks(u)
    BY <1>1 DEF SchedulerSteps, StartScheduler, TimePasses, SchedulerFault,
         ReapAckError, BackToReap, MonitorError, SchedulerCrash, ProcessEnds, RunCycle,
         RunMonitor, MonitorStep, MarkStaleDead, ReapExhausted, ReapReset, AckReaped,
         MonitorDone
  <2> QED BY <2>1, <2>2, <2>3, <2>4, <2>5
<1>2. CASE UNCHANGED <<monitorVars, log>>
  BY <1>2
<1> QED BY <1>1, <1>2, OthersKeepSchedulers

(* The rows of a batch were ready when they were read.                     *)
LEMMA BatchWriter ==
    ASSUME TypeOK, [Next]_vars, NEW s \in Schedulers, NEW r \in batch'[s]
    PROVE  r \in batch[s] \/ (Ready(r.task) /\ UNCHANGED tasks)
<1> DEFINE Goal == r \in batch[s] \/ (Ready(r.task) /\ UNCHANGED tasks)
<1>0. batch \in [Schedulers -> SUBSET ReadyRow]
  BY DEF TypeOK, SchedulerTypeOK
<1>1. ASSUME NEW u \in Schedulers, SchedulerSteps(u) PROVE Goal
  <2>1. CASE batch' = batch
    BY <2>1
  <2>2. CASE batch' = [batch EXCEPT ![u] = {}]
    BY <1>0, <2>2
  <2>3. CASE \E x \in batch[u] : TakeRow(u, x)
    BY <1>0, <2>3 DEF TakeRow
  <2>4. CASE FindReadyTasks(u)
    <3>1. PICK R \in SUBSET ReadyTasks : batch' = [batch EXCEPT ![u] =
             {[task |-> t, retry_count |-> tasks[t].retry_count] : t \in R}]
      BY <2>4 DEF FindReadyTasks
    <3> QED BY <1>0, <2>4, <3>1 DEF FindReadyTasks, ReadyTasks
  <2>5. \/ batch' = batch \/ batch' = [batch EXCEPT ![u] = {}]
        \/ \E x \in batch[u] : TakeRow(u, x)
        \/ FindReadyTasks(u)
    BY <1>1 DEF SchedulerSteps, StartScheduler, SchedulerStart, TimePasses,
         WindowElapses, SchedulerFault, CycleError, ForgetLocals, ReapAckError,
         BackToReap, MonitorError, SchedulerCrash, ProcessEnds, RunCycle, CycleStep,
         SkipIneligible, EnqueueLost, EnqueueWon, PushMessage, StoreMessageId,
         MarkJobRunning, CheckJobCompletions, SettleJob, EndCycle, RunMonitor,
         MonitorStep, MarkStaleDead, FindStuckTasks, ReapExhausted, ReapReset,
         AckReaped, MonitorDone
  <2> QED BY <2>1, <2>2, <2>3, <2>4, <2>5
<1>2. CASE UNCHANGED <<monitorVars, log>>
  BY <1>2
<1> QED BY <1>1, <1>2, OthersKeepSchedulers

(* A scheduler reads all its verdicts at once, and then writes them one by *)
(* one.                                                                    *)
Verdicts == {[job |-> j, verdict |-> Verdict(j)] : j \in Completable}

LEMMA CompletableReader ==
    ASSUME TypeOK, [Next]_vars, NEW s \in Schedulers
    PROVE  \/ completable'[s] \subseteq completable[s]
           \/ completable'[s] = Verdicts /\ UNCHANGED <<tasks, jobs>>
<1> DEFINE Goal == \/ completable'[s] \subseteq completable[s]
                   \/ completable'[s] = Verdicts /\ UNCHANGED <<tasks, jobs>>
<1>0. completable \in [Schedulers -> SUBSET SettleRow]
  BY DEF TypeOK, SchedulerTypeOK
<1>1. ASSUME NEW u \in Schedulers, SchedulerSteps(u) PROVE Goal
  <2>1. CASE completable' = completable
    BY <2>1
  <2>2. CASE completable' = [completable EXCEPT ![u] = {}]
    BY <1>0, <2>2
  <2>3. CASE SettleJob(u)
    BY <1>0, <2>3 DEF SettleJob
  <2>4. CASE CheckJobCompletions(u)
    BY <1>0, <2>4 DEF CheckJobCompletions, Verdicts
  <2>5. \/ completable' = completable
        \/ completable' = [completable EXCEPT ![u] = {}]
        \/ SettleJob(u) \/ CheckJobCompletions(u)
    BY <1>1 DEF SchedulerSteps, StartScheduler, SchedulerStart, TimePasses,
         WindowElapses, SchedulerFault, CycleError, ForgetLocals, ReapAckError,
         BackToReap, MonitorError, SchedulerCrash, ProcessEnds, RunCycle, CycleStep,
         FindReadyTasks, SkipIneligible, EnqueueLost, EnqueueWon, PushMessage,
         StoreMessageId, MarkJobRunning, EndCycle, RunMonitor, MonitorStep,
         MarkStaleDead, FindStuckTasks, ReapExhausted, ReapReset, AckReaped, MonitorDone
  <2> QED BY <2>1, <2>2, <2>3, <2>4, <2>5
<1>2. CASE UNCHANGED <<monitorVars, log>>
  BY <1>2
<1> QED BY <1>1, <1>2, OthersKeepSchedulers

(* So they were right when they were read.                                 *)
LEMMA CompletableWriter ==
    ASSUME TypeOK, [Next]_vars, NEW s \in Schedulers, NEW r \in completable'[s]
    PROVE  \/ r \in completable[s]
           \/ r.job \in Completable /\ r.verdict = Verdict(r.job) /\ UNCHANGED tasks
BY CompletableReader DEF Verdicts

-----------------------------------------------------------------------------
(* KnownTasks is preserved.  Messages come from current, current from a    *)
(* row that was PENDING or stuck, and stuck rows from RUNNING tasks.       *)
LEMMA SubmittedForGood ==
    ASSUME TypeOK, KnownTasks, [Next]_vars, NEW t \in Tasks, Submitted(t)
    PROVE  Submitted(t)'
BY TaskMoves DEF TaskMove, Stays, IsSubmitted, IsQueued, IsClaimed, IsReset,
                 IsCompleted, IsFailed, IsSkipped, Moves, Submitted

(* No step makes a message, a dispatch or a stuck row refer to a task that *)
(* does not exist.                                                         *)
LEMMA KnownTasksKept ==
    ASSUME TypeOK, TypeOK', KnownTasks, [Next]_vars
    PROVE  KnownTasks'
<1>0. \A t \in Tasks : Submitted(t) => Submitted(t)'
  BY SubmittedForGood
<1>1. ASSUME NEW t \in Tasks, Submitted(t)' PROVE jobs'[JobOf(t)] # "ABSENT"
  <2>1. JobOf(t) \in Jobs
    BY DEF Tasks, JobOf
  <2>2. CASE jobs[JobOf(t)] # "ABSENT"
    <3>1. \A s \in Schedulers : \A r \in completable[s] : r.verdict # "ABSENT"
      BY DEF TypeOK, SchedulerTypeOK, SettleRow
    <3> QED BY <2>1, <2>2, <3>1, JobMoves DEF JobMove
  <2>3. CASE jobs[JobOf(t)] = "ABSENT"
    <3>1. ~Submitted(t)
      BY <2>3 DEF KnownTasks
    <3>2. IsSubmitted(t)
      BY <1>1, <3>1, TaskMoves
         DEF TaskMove, Stays, IsQueued, IsClaimed, IsReset, IsCompleted, IsFailed,
             IsSkipped, Moves, Submitted
    <3> QED BY <3>2 DEF IsSubmitted
  <2> QED BY <2>2, <2>3
<1>2. ASSUME NEW q \in Streams, NEW i \in 1 .. Len(log'[q]) PROVE Submitted(log[q][i])'
  <2>1. CASE log' = log
    BY <1>0, <1>2, <2>1 DEF KnownTasks, TypeOK, RedisTypeOK
  <2>2. ASSUME NEW s \in Schedulers, PushMessage(s) PROVE Submitted(log[q][i])'
    <3>1. current[s] \in Tasks /\ Submitted(current[s])
      BY <2>2 DEF PushMessage, TypeOK, SchedulerTypeOK, KnownTasks
    <3>2. log[q] \in Seq(Tasks)
      BY DEF TypeOK, RedisTypeOK
    <3>3. log'[q] = log[q] \/ log'[q] = Append(log[q], current[s])
      BY <2>2 DEF PushMessage, XAdd, TypeOK, RedisTypeOK
    <3>4. log'[q][i] \in Tasks /\ Submitted(log'[q][i])
      <4>1. CASE i \in 1 .. Len(log[q])
        <5>1. log'[q][i] = log[q][i]
          BY <3>1, <3>2, <3>3, <4>1
        <5> QED BY <3>2, <4>1, <5>1 DEF KnownTasks
      <4>2. CASE i \notin 1 .. Len(log[q])
        <5>1. log'[q][i] = current[s]
          BY <1>2, <3>1, <3>2, <3>3, <4>2
        <5> QED BY <3>1, <5>1
      <4> QED BY <4>1, <4>2
    <3> QED BY <1>0, <3>4 DEF Submitted
  <2> QED BY <2>1, <2>2, LogWriter
<1>3. ASSUME NEW s \in Schedulers, current'[s] # NoTask PROVE Submitted(current[s])'
  <2>1. current[s] \in Tasks \cup {NoTask} /\ current'[s] \in Tasks \cup {NoTask}
    BY DEF TypeOK, SchedulerTypeOK
  <2>2. CASE current'[s] = current[s]
    BY <1>0, <1>3, <2>1, <2>2 DEF KnownTasks, Submitted
  <2>3. CASE \E r \in batch[s] : StillPending(r.task) /\ current'[s] = r.task
    <3>1. Submitted(current'[s])
      BY <2>3 DEF StillPending, Submitted
    <3> QED BY <1>0, <1>3, <2>1, <3>1 DEF Submitted
  <2>4. CASE \E r \in stuck[s] : current'[s] = r.task
    <3>1. Submitted(current'[s])
      BY <2>4 DEF KnownTasks
    <3> QED BY <1>0, <1>3, <2>1, <3>1 DEF Submitted
  <2> QED BY <1>3, <2>2, <2>3, <2>4, CurrentWriter
<1>4. ASSUME NEW s \in Schedulers, NEW r \in stuck'[s] PROVE Submitted(r.task)'
  <2>1. r.task \in Tasks
    BY DEF TypeOK, MonitorTypeOK, StuckRow
  <2>2. CASE r \in stuck[s]
    BY <1>0, <2>1, <2>2 DEF KnownTasks
  <2>3. CASE tasks[r.task].status = "RUNNING"
    BY <1>0, <2>1, <2>3 DEF Submitted
  <2> QED BY <2>2, <2>3, StuckWriter
<1> QED BY <1>1, <1>2, <1>3, <1>4 DEF KnownTasks

(* Whatever refers to a task, in Redis or in the memory of a scheduler,    *)
(* refers to one that create_job inserted, together with its job.          *)
THEOREM TasksKnown == Spec => []KnownTasks
<1>1. Init => KnownTasks
  BY DEF Init, TablesInit, RedisInit, SchedulerInit, MonitorInit, AbsentTask,
         KnownTasks, Submitted
<1>2. TypeOK /\ TypeOK' /\ KnownTasks /\ [Next]_vars => KnownTasks'
  BY KnownTasksKept
<1> QED BY <1>1, <1>2, TypeCorrect, PTL DEF Spec

-----------------------------------------------------------------------------
(* Every retry is counted once: retry_count is the number of claims given  *)
(* up, under any faults and with any number of schedulers.                 *)
THEOREM AttemptsCounted == Spec => []AttemptAccounting
<1>1. Init => AttemptAccounting
  BY DEF Init, TablesInit, WorkerInit, AbsentTask, AttemptAccounting
<1>2. ASSUME TypeOK, KnownTasks, AttemptAccounting, [Next]_vars
      PROVE  AttemptAccounting'
  <2> SUFFICES ASSUME NEW t \in Tasks
        PROVE /\ tasks'[t].status \in {"ABSENT", "PENDING", "ENQUEUED"}
                    => claims'[t] = tasks'[t].retry_count
              /\ tasks'[t].status = "RUNNING" => claims'[t] = tasks'[t].retry_count + 1
              /\ claims'[t] \in {tasks'[t].retry_count, tasks'[t].retry_count + 1}
    BY DEF AttemptAccounting
  <2>1. tasks[t].retry_count \in Nat /\ claims[t] \in Nat
    <3>1. tasks[t] \in TaskRow /\ claims[t] \in Nat
      BY <1>2 DEF TypeOK, TablesTypeOK, WorkerTypeOK
    <3> QED BY <3>1 DEF TaskRow
  <2> QED BY <1>2, <2>1, TaskMoves
          DEF AttemptAccounting, TaskMove, Stays, IsSubmitted, IsQueued, IsClaimed,
              IsReset, IsCompleted, IsFailed, IsSkipped, Moves, KeepsAttempts
<1> QED BY <1>1, <1>2, TypeCorrect, TasksKnown, PTL DEF Spec

-----------------------------------------------------------------------------
(* Nothing that is settled is reopened.                                    *)
LEMMA TerminalForGood ==
    ASSUME TypeOK, KnownTasks, [Next]_vars
    PROVE  /\ \A t \in Tasks : tasks[t].status \in TerminalTask
                                => tasks'[t].status \in TerminalTask
           /\ \A j \in Jobs : jobs[j] \in TerminalJob => jobs'[j] \in TerminalJob
<1>1. ASSUME NEW t \in Tasks, tasks[t].status \in TerminalTask
      PROVE  tasks'[t].status \in TerminalTask
  BY <1>1, TaskMoves
     DEF TaskMove, Stays, IsSubmitted, IsQueued, IsClaimed, IsReset, IsCompleted,
         IsFailed, IsSkipped, Moves, TerminalTask
<1>2. ASSUME NEW j \in Jobs, jobs[j] \in TerminalJob
      PROVE  jobs'[j] \in TerminalJob
  <2>1. \A s \in Schedulers : \A r \in completable[s] : r.verdict \in TerminalJob
    BY DEF TypeOK, SchedulerTypeOK, SettleRow, TerminalJob
  <2> QED BY <1>2, <2>1, JobMoves DEF JobMove, TerminalJob
<1> QED BY <1>1, <1>2

(* A terminal task or job is never reopened, by late messages, late resets *)
(* or late dispatches.                                                     *)
THEOREM SettledIsFinal == Spec => SettledStaysSettled
<1> DEFINE A == /\ \A t \in Tasks : tasks[t].status \in TerminalTask
                                      => tasks'[t].status \in TerminalTask
                /\ \A j \in Jobs : jobs[j] \in TerminalJob => jobs'[j] \in TerminalJob
<1>1. TypeOK /\ KnownTasks /\ [Next]_vars => [A]_vars
  BY TerminalForGood
<1> QED BY <1>1, TypeCorrect, TasksKnown, PTL DEF Spec, SettledStaysSettled

-----------------------------------------------------------------------------
(* Inputs: results are never taken back, and a task is queued from a row   *)
(* of the ready-task query, whose dependencies were COMPLETED.             *)
HasResult(t) == tasks[t].result_json

ResultOfCompleted == \A t \in Tasks : tasks[t].status = "COMPLETED" => HasResult(t)

InputsOf(t) == \A d \in depends_on(t) : HasResult(d)

BatchHasInputs == \A s \in Schedulers : \A r \in batch[s] : InputsOf(r.task)

InputInv == ResultOfCompleted /\ BatchHasInputs /\ InputsAvailable

(* depends_on of a task holds tasks.                                       *)
LEMMA DependenciesAreTasks ==
    ASSUME NEW t \in Tasks, NEW d \in depends_on(t)
    PROVE  d \in Tasks
BY DagAssumption DEF depends_on, Tasks, JobOf, StageOf

(* No step takes a result back.                                            *)
LEMMA ResultForGood ==
    ASSUME TypeOK, KnownTasks, [Next]_vars, NEW t \in Tasks, HasResult(t)
    PROVE  HasResult(t)'
BY TaskMoves DEF TaskMove, Stays, IsSubmitted, IsQueued, IsClaimed, IsReset,
                 IsCompleted, IsFailed, IsSkipped, Moves, KeepsResult, HasResult

(* The invariant on inputs is inductive.                                   *)
LEMMA InputInvKept ==
    ASSUME TypeOK, TypeOK', KnownTasks, InputInv, [Next]_vars
    PROVE  InputInv'
<1>0. ASSUME NEW t \in Tasks, InputsOf(t) PROVE InputsOf(t)'
  BY <1>0, ResultForGood, DependenciesAreTasks DEF InputsOf, depends_on
<1>1. ResultOfCompleted'
  <2> SUFFICES ASSUME NEW t \in Tasks, tasks'[t].status = "COMPLETED"
               PROVE  tasks'[t].result_json
    BY DEF ResultOfCompleted, HasResult
  <2> QED BY TaskMoves
          DEF TaskMove, Stays, IsSubmitted, IsQueued, IsClaimed, IsReset, IsCompleted,
              IsFailed, IsSkipped, Moves, KeepsResult, InputInv, ResultOfCompleted,
              HasResult
<1>2. BatchHasInputs'
  <2> SUFFICES ASSUME NEW s \in Schedulers, NEW r \in batch'[s] PROVE InputsOf(r.task)'
    BY DEF BatchHasInputs
  <2>1. r.task \in Tasks
    BY DEF TypeOK, SchedulerTypeOK, ReadyRow
  <2>2. CASE r \in batch[s]
    BY <1>0, <2>1, <2>2 DEF InputInv, BatchHasInputs
  <2>3. CASE Ready(r.task)
    <3>1. InputsOf(r.task)
      BY <2>1, <2>3, DependenciesAreTasks
         DEF Ready, InputsOf, InputInv, ResultOfCompleted
    <3> QED BY <1>0, <2>1, <3>1
  <2> QED BY <2>2, <2>3, BatchWriter
<1>3. InputsAvailable'
  <2> SUFFICES ASSUME NEW t \in Tasks, tasks'[t].status = "ENQUEUED" \/ claims'[t] > 0
               PROVE  InputsOf(t)'
    BY DEF InputsAvailable, InputsOf, HasResult, depends_on
  <2>1. CASE tasks[t].status = "ENQUEUED" \/ claims[t] > 0
    BY <1>0, <2>1 DEF InputInv, InputsAvailable, InputsOf, HasResult
  <2>2. CASE ~(tasks[t].status = "ENQUEUED" \/ claims[t] > 0)
    <3>1. IsQueued(t)
      BY <2>2, TaskMoves
         DEF TaskMove, Stays, IsSubmitted, IsClaimed, IsReset, IsCompleted, IsFailed,
             IsSkipped, Moves, KeepsAttempts
    <3> QED BY <1>0, <3>1 DEF IsQueued, InputInv, BatchHasInputs
  <2> QED BY <2>1, <2>2
<1> QED BY <1>1, <1>2, <1>3 DEF InputInv

(* A task that is queued or was ever claimed finds the results of all its  *)
(* dependencies.                                                           *)
THEOREM InputsAlwaysAvailable == Spec => []InputsAvailable
<1>1. Init => InputInv
  BY DEF Init, TablesInit, SchedulerInit, WorkerInit, AbsentTask, InputInv,
         ResultOfCompleted, BatchHasInputs, InputsAvailable
<1>2. TypeOK /\ TypeOK' /\ KnownTasks /\ InputInv /\ [Next]_vars => InputInv'
  BY InputInvKept
<1>3. InputInv => InputsAvailable
  BY DEF InputInv
<1> QED BY <1>1, <1>2, <1>3, TypeCorrect, TasksKnown, PTL DEF Spec

-----------------------------------------------------------------------------
(* Reports: a job is found complete while it is RUNNING, when none of its  *)
(* tasks can be SKIPPED; the results it has then it keeps.                 *)
HasReport(j) == \A t \in TasksOf(j) : HasResult(t)

SkippedIsDecided ==
    \A t \in Tasks : tasks[t].status = "SKIPPED" => jobs[JobOf(t)] \in TerminalJob

VerdictHasReport ==
    \A s \in Schedulers : \A r \in completable[s] :
       r.verdict = "COMPLETED" => HasReport(r.job)

ReportInv ==
    ResultOfCompleted /\ SkippedIsDecided /\ VerdictHasReport /\ CompletedJobHasReport

(* The invariant on reports is inductive.                                  *)
LEMMA ReportInvKept ==
    ASSUME TypeOK, TypeOK', KnownTasks, InputInv, InputInv', ReportInv, [Next]_vars
    PROVE  ReportInv'
<1>0. ASSUME NEW j \in Jobs, HasReport(j) PROVE HasReport(j)'
  <2>1. TasksOf(j) \subseteq Tasks
    BY DEF TasksOf, Tasks
  <2> QED BY <1>0, <2>1, ResultForGood DEF HasReport, TasksOf
<1>1. ResultOfCompleted'
  BY DEF InputInv
<1>2. SkippedIsDecided'
  <2> SUFFICES ASSUME NEW t \in Tasks, tasks'[t].status = "SKIPPED"
               PROVE  jobs'[JobOf(t)] \in TerminalJob
    BY DEF SkippedIsDecided, JobOf
  <2>1. JobOf(t) \in Jobs
    BY DEF Tasks, JobOf
  <2>2. CASE tasks[t].status = "SKIPPED"
    BY <2>1, <2>2, TerminalForGood DEF ReportInv, SkippedIsDecided
  <2>3. CASE tasks[t].status # "SKIPPED"
    <3>1. IsSkipped(t)
      BY <2>3, TaskMoves
         DEF TaskMove, Stays, IsSubmitted, IsQueued, IsClaimed, IsReset, IsCompleted,
             IsFailed, Moves
    <3> QED BY <3>1 DEF IsSkipped, TerminalJob
  <2> QED BY <2>2, <2>3
<1>3. VerdictHasReport'
  <2> SUFFICES ASSUME NEW s \in Schedulers, NEW r \in completable'[s],
                      r.verdict = "COMPLETED"
               PROVE  HasReport(r.job)'
    BY DEF VerdictHasReport
  <2>1. r.job \in Jobs
    BY DEF TypeOK, SchedulerTypeOK, SettleRow
  <2>2. CASE r \in completable[s]
    BY <1>0, <2>1, <2>2 DEF ReportInv, VerdictHasReport
  <2>3. CASE r.job \in Completable /\ r.verdict = Verdict(r.job)
    <3>1. ASSUME NEW t \in TasksOf(r.job) PROVE HasResult(t)
      <4>1. t \in Tasks /\ JobOf(t) = r.job
        BY <2>1 DEF TasksOf, Tasks, JobOf
      <4>2. tasks[t].status \in TerminalTask /\ tasks[t].status # "FAILED"
        BY <2>3 DEF Completable, Verdict
      <4>3. tasks[t].status # "SKIPPED"
        BY <2>3, <4>1 DEF Completable, ReportInv, SkippedIsDecided, TerminalJob
      <4> QED BY <4>1, <4>2, <4>3 DEF TerminalTask, ReportInv, ResultOfCompleted
    <3> QED BY <1>0, <2>1, <3>1 DEF HasReport
  <2> QED BY <2>2, <2>3, CompletableWriter
<1>4. CompletedJobHasReport'
  <2> SUFFICES ASSUME NEW j \in Jobs, jobs'[j] = "COMPLETED" PROVE HasReport(j)'
    BY DEF CompletedJobHasReport, HasReport, HasResult, TasksOf
  <2>1. CASE jobs[j] = "COMPLETED"
    BY <1>0, <2>1 DEF ReportInv, CompletedJobHasReport, HasReport, HasResult
  <2>2. CASE jobs[j] # "COMPLETED"
    <3>1. PICK s \in Schedulers : \E r \in completable[s] :
             r.job = j /\ r.verdict = "COMPLETED"
      BY <2>2, JobMoves DEF JobMove
    <3> QED BY <1>0, <3>1 DEF ReportInv, VerdictHasReport
  <2> QED BY <2>1, <2>2
<1> QED BY <1>1, <1>2, <1>3, <1>4 DEF ReportInv

(* So the invariant on reports holds.                                      *)
LEMMA ReportsKept == Spec => []ReportInv
<1>1. Init => InputInv /\ ReportInv
  BY DEF Init, TablesInit, SchedulerInit, WorkerInit, AbsentTask, InputInv,
         ResultOfCompleted, BatchHasInputs, InputsAvailable, ReportInv,
         SkippedIsDecided, VerdictHasReport, CompletedJobHasReport
<1>2. TypeOK /\ TypeOK' /\ KnownTasks /\ InputInv /\ [Next]_vars => InputInv'
  BY InputInvKept
<1>3. TypeOK /\ TypeOK' /\ KnownTasks /\ InputInv /\ InputInv' /\ ReportInv
         /\ [Next]_vars => ReportInv'
  BY ReportInvKept
<1> QED BY <1>1, <1>2, <1>3, TypeCorrect, TasksKnown, PTL DEF Spec

(* A COMPLETED job has every result, also when a cancellation raced.       *)
THEOREM CompletedJobsHaveReports == Spec => []CompletedJobHasReport
<1>1. ReportInv => CompletedJobHasReport
  BY DEF ReportInv
<1> QED BY <1>1, ReportsKept, PTL

-----------------------------------------------------------------------------
(* Failures: who is about to fail a task has read an exhausted count, and  *)
(* counts never fall.                                                      *)
Exhausted(t) == tasks[t].retry_count >= max_retries(t)

FailingIsExhausted ==
    \A w \in Workers : At(w, "exhaust") => Exhausted(TaskOf(w))

StuckIsBehind ==
    \A s \in Schedulers : \A r \in stuck[s] :
       r.retry_count <= tasks[r.task].retry_count

FailureInv == FailingIsExhausted /\ StuckIsBehind /\ FailedOnlyExhausted

(* No step takes a retry back.                                             *)
LEMMA RetriesGrow ==
    ASSUME TypeOK, TypeOK', KnownTasks, [Next]_vars, NEW t \in Tasks
    PROVE  /\ tasks[t].retry_count \in Nat /\ tasks'[t].retry_count \in Nat
           /\ tasks[t].retry_count <= tasks'[t].retry_count
<1>1. tasks[t].retry_count \in Nat /\ tasks'[t].retry_count \in Nat
  <2>1. tasks[t] \in TaskRow /\ tasks'[t] \in TaskRow
    BY DEF TypeOK, TablesTypeOK
  <2> QED BY <2>1 DEF TaskRow
<1>2. \/ tasks'[t].retry_count = tasks[t].retry_count
      \/ tasks'[t].retry_count = tasks[t].retry_count + 1
      \/ IsSubmitted(t)
  BY TaskMoves DEF TaskMove, Stays, IsQueued, IsClaimed, IsReset, IsCompleted, IsFailed,
                   IsSkipped, KeepsAttempts
<1> QED BY <1>1, <1>2 DEF IsSubmitted, KeepsAttempts

(* A retry limit is a number.                                              *)
LEMMA LimitIsNatural ==
    ASSUME NEW t \in Tasks
    PROVE  max_retries(t) \in Nat
BY RetriesAssumption DEF max_retries, Tasks, StageOf

(* A message that a worker was given stays the same message.               *)
LEMMA MessageStays ==
    ASSUME TypeOK, [Next]_vars, NEW w \in Workers, wpc[w] \notin {"off", "poll"}
    PROVE  /\ TaskOf(w) \in Tasks
           /\ log'[Serves[w]][held[w]] = TaskOf(w)
<1>1. /\ Serves[w] \in Streams
      /\ log \in [Streams -> Seq(Tasks)]
      /\ log[Serves[w]] \in Seq(Tasks)
      /\ held[w] \in 1 .. Len(log[Serves[w]])
  BY ServesAssumption DEF TypeOK, RedisTypeOK, WorkerTypeOK
<1>2. CASE log' = log
  BY <1>1, <1>2 DEF TaskOf
<1>3. ASSUME NEW s \in Schedulers, PushMessage(s)
      PROVE  log'[Serves[w]][held[w]] = TaskOf(w)
  <2>1. current[s] \in Tasks
    BY <1>3 DEF PushMessage, TypeOK, SchedulerTypeOK
  <2>2. log' = [log EXCEPT ![StreamOf(current[s])] = Append(@, current[s])]
    BY <1>3 DEF PushMessage, XAdd
  <2>3. CASE StreamOf(current[s]) = Serves[w]
    BY <1>1, <2>1, <2>2, <2>3 DEF TaskOf
  <2>4. CASE StreamOf(current[s]) # Serves[w]
    BY <1>1, <2>2, <2>4 DEF TaskOf
  <2> QED BY <2>3, <2>4
<1> QED BY <1>1, <1>2, <1>3, LogWriter DEF TaskOf

(* A worker comes to fail its task by reading a count that leaves no retry. *)
LEMMA ExhaustWriter ==
    ASSUME TypeOK, [Next]_vars, NEW w \in Workers, wpc'[w] = "exhaust"
    PROVE  /\ held'[w] = held[w]
           /\ \/ wpc[w] = "exhaust"
              \/ wpc[w] = "fail" /\ ~HasRetryLeft(TaskOf(w))
<1> DEFINE Goal == /\ held'[w] = held[w]
                   /\ \/ wpc[w] = "exhaust"
                      \/ wpc[w] = "fail" /\ ~HasRetryLeft(TaskOf(w))
<1>0. wpc \in [Workers -> WorkerPC] /\ held \in [Workers -> Nat]
  BY DEF TypeOK, WorkerTypeOK
<1>1. CASE UNCHANGED <<wpc, held>>
  BY <1>1
<1>2. ASSUME NEW u \in Workers, ReadRetries(u) PROVE Goal
  <2>1. CASE u = w
    BY <1>0, <1>2, <2>1 DEF ReadRetries, At, Jump
  <2>2. CASE u # w
    BY <1>0, <1>2, <2>2 DEF ReadRetries, Jump
  <2> QED BY <2>1, <2>2
<1>3. ASSUME NEW u \in Workers,
             NEW label \in WorkerPC \ {"exhaust"}, Jump(u, label),
             UNCHANGED held \/ \E i \in Nat : held' = [held EXCEPT ![u] = i]
      PROVE  Goal
  BY <1>0, <1>3 DEF Jump
<1>4. ASSUME NEW u \in Workers, RunWorker(u) PROVE Goal
  <2>1. CASE Poll(u)
    <3>1. cursor[Serves[u]] + 1 \in Nat
      BY ServesAssumption DEF TypeOK, RedisTypeOK
    <3>2. Jump(u, "claim") /\ \E i \in Nat : held' = [held EXCEPT ![u] = i]
      BY <2>1, <3>1 DEF Poll
    <3> QED BY <1>3, <3>2 DEF WorkerPC
  <2>2. CASE Ack(u)
    BY <1>3, <2>2 DEF Ack, LetGo, WorkerPC
  <2>3. CASE ReadRetries(u)
    BY <1>2, <2>3
  <2>4. CASE MarkIdleAfterFailure(u)
    BY <1>3, <2>4 DEF MarkIdleAfterFailure, NextAfterIdle, WorkerPC, Failing
  <2>5. CASE ClaimWon(u) \/ ClaimLost(u) \/ MarkBusy(u) \/ Complete(u) \/ ExecuteFails(u)
    BY <1>3, <2>5 DEF ClaimWon, ClaimLost, MarkBusy, Complete, ExecuteFails, WorkerPC,
                      AfterClaim, Failing
  <2>6. CASE MarkIdle(u) \/ ResetToPending(u) \/ MarkFailed(u) \/ Bury(u)
    BY <1>3, <2>6 DEF MarkIdle, ResetToPending, MarkFailed, Bury, WorkerPC, AfterClaim,
                      Failing
  <2> QED BY <1>4, <2>1, <2>2, <2>3, <2>4, <2>5, <2>6 DEF RunWorker, WorkerStep
<1>5. ASSUME NEW u \in Workers, StartWorker(u) \/ WorkerFault(u) PROVE Goal
  <2>1. CASE StartWorker(u)
    BY <1>3, <2>1 DEF StartWorker, Register, WorkerPC
  <2>2. CASE WorkerCrash(u)
    BY <1>3, <2>2 DEF WorkerCrash, WorkerPC
  <2>3. CASE LoopError(u)
    BY <1>3, <2>3 DEF LoopError, LetGo, WorkerPC
  <2>4. CASE PersistError(u)
    BY <1>3, <2>4 DEF PersistError, WorkerPC, Failing
  <2>5. CASE HeartbeatLapse(u)
    BY <1>1, <2>5 DEF HeartbeatLapse
  <2> QED BY <1>5, <2>1, <2>2, <2>3, <2>4, <2>5 DEF WorkerFault
<1>6. ASSUME NEW u \in Workers, BeatHeart(u) \/ GoStale(u) \/ Deregistration(u)
      PROVE  Goal
  BY <1>1, <1>6 DEF BeatHeart, Heartbeat, GoStale, HeartbeatLapse, Deregistration, ApiAlone
<1>7. ASSUME NEW s \in Schedulers, SchedulerSteps(s) PROVE Goal
  BY <1>1, <1>7 DEF SchedulerSteps, StartScheduler, RunCycle, RunMonitor, TimePasses,
                    SchedulerFault, SchedulerAlone
<1>8. ASSUME NEW j \in Jobs, Request(j) PROVE Goal
  BY <1>1, <1>8 DEF Request, ApiAlone
<1>9. CASE UNCHANGED vars
  BY <1>1, <1>9 DEF vars
<1> QED BY <1>4, <1>5, <1>6, <1>7, <1>8, <1>9 DEF Next, SchedulerSteps

(* The invariant on failures is inductive.                                 *)
LEMMA FailureInvKept ==
    ASSUME TypeOK, TypeOK', KnownTasks, FailureInv, [Next]_vars
    PROVE  FailureInv'
<1>1. ASSUME NEW t \in Tasks, Exhausted(t) PROVE Exhausted(t)'
  BY <1>1, RetriesGrow, LimitIsNatural DEF Exhausted, max_retries
<1>2. FailingIsExhausted'
  <2> SUFFICES ASSUME NEW w \in Workers, wpc'[w] = "exhaust"
               PROVE  Exhausted(TaskOf(w))'
    BY DEF FailingIsExhausted, At
  <2>1. wpc[w] \in {"exhaust", "fail"} /\ held'[w] = held[w]
    BY ExhaustWriter
  <2>2. TaskOf(w) \in Tasks /\ TaskOf(w)' = TaskOf(w)
    BY <2>1, MessageStays DEF TaskOf
  <2>3. Exhausted(TaskOf(w))
    <3>1. CASE wpc[w] = "exhaust"
      BY <3>1 DEF FailureInv, FailingIsExhausted, At
    <3>2. CASE ~HasRetryLeft(TaskOf(w))
      BY <2>2, <3>2, RetriesGrow, LimitIsNatural DEF HasRetryLeft, Exhausted
    <3> QED BY <3>1, <3>2, ExhaustWriter
  <2> QED BY <1>1, <2>2, <2>3 DEF Exhausted, max_retries
<1>3. StuckIsBehind'
  <2> SUFFICES ASSUME NEW s \in Schedulers, NEW r \in stuck'[s]
               PROVE  r.retry_count <= tasks'[r.task].retry_count
    BY DEF StuckIsBehind
  <2>1. r.task \in Tasks /\ r.retry_count \in Nat
    BY DEF TypeOK, MonitorTypeOK, StuckRow
  <2>2. r.retry_count <= tasks[r.task].retry_count
    BY <2>1, StuckWriter, RetriesGrow DEF FailureInv, StuckIsBehind
  <2> QED BY <2>1, <2>2, RetriesGrow
<1>4. FailedOnlyExhausted'
  <2> SUFFICES ASSUME NEW t \in Tasks, tasks'[t].status = "FAILED" PROVE Exhausted(t)'
    BY DEF FailedOnlyExhausted, Exhausted
  <2>1. CASE tasks[t].status = "FAILED"
    BY <1>1, <2>1 DEF FailureInv, FailedOnlyExhausted, Exhausted
  <2>2. CASE GivenUp(t)
    <3>1. CASE \E w \in Workers : wpc[w] = "exhaust" /\ TaskOf(w) = t
      BY <1>1, <3>1 DEF FailureInv, FailingIsExhausted, At
    <3>2. ASSUME NEW s \in Schedulers, NEW r \in stuck[s],
                 r.task = t, r.retry_count >= max_retries(t)
          PROVE  Exhausted(t)
      <4>1. r.retry_count \in Nat /\ r.retry_count <= tasks[t].retry_count
        BY <3>2 DEF TypeOK, MonitorTypeOK, StuckRow, FailureInv, StuckIsBehind
      <4> QED BY <3>2, <4>1, RetriesGrow, LimitIsNatural DEF Exhausted
    <3> QED BY <1>1, <2>2, <3>1, <3>2 DEF GivenUp
  <2>3. tasks[t].status = "FAILED" \/ GivenUp(t)
    BY TaskMoves DEF TaskMove, Stays, IsSubmitted, IsQueued, IsClaimed, IsReset,
                     IsCompleted, IsFailed, IsSkipped, Moves
  <2> QED BY <2>1, <2>2, <2>3
<1> QED BY <1>2, <1>3, <1>4 DEF FailureInv

(* No task is failed by worker or monitor while it has a retry left,       *)
(* although both decide that from a row they read before.                  *)
THEOREM FailuresAreExhausted == Spec => []FailedOnlyExhausted
<1>1. Init => FailureInv
  BY DEF Init, TablesInit, MonitorInit, WorkerInit, AbsentTask, FailureInv, At,
         FailingIsExhausted, StuckIsBehind, FailedOnlyExhausted
<1>2. TypeOK /\ TypeOK' /\ KnownTasks /\ FailureInv /\ [Next]_vars => FailureInv'
  BY FailureInvKept
<1>3. FailureInv => FailedOnlyExhausted
  BY DEF FailureInv
<1> QED BY <1>1, <1>2, <1>3, TypeCorrect, TasksKnown, PTL DEF Spec
=============================================================================
