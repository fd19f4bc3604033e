----------------------------- MODULE SystemTypes -----------------------------
(***************************************************************************)
(* Proof that System is type correct.  One step per action: the actions of *)
(* a cycle, of the monitor and of a worker each have a lemma.              *)
(***************************************************************************)
EXTENDS System, TLAPS

USE DEF tableVars, redisVars, schedulerVars, monitorVars, workerVars

-----------------------------------------------------------------------------
(* The statement that worker and monitor share writes one row only.        *)

LEMMA ResetRow ==
    ASSUME TablesTypeOK, NEW t \in Tasks, ResetIfRunning(t)
    PROVE  /\ tasks' \in [Tasks -> TaskRow]
           /\ \A u \in Tasks : u # t => tasks'[u] = tasks[u]
           /\ tasks'[t].result_json = tasks[t].result_json
           /\ IF tasks[t].status = "RUNNING"
              THEN tasks'[t].status = "PENDING" /\ tasks'[t].retry_count = tasks[t].retry_count + 1
              ELSE tasks' = tasks
<1>1. CASE tasks[t].status = "RUNNING"
  <2>1. tasks' = [tasks EXCEPT ![t].status = "PENDING", ![t].retry_count = @ + 1, ![t].worker_id = NoWorker]
    BY <1>1 DEF ResetIfRunning
  <2>2. \A u \in Tasks : u # t => tasks'[u] = tasks[u]
    BY <2>1 DEF TablesTypeOK
  <2>3. tasks'[t] = [tasks[t] EXCEPT !.status = "PENDING", !.retry_count = @ + 1, !.worker_id = NoWorker]
    BY <2>1 DEF TablesTypeOK
  <2>4. tasks' \in [Tasks -> TaskRow]
    BY <2>1 DEF TablesTypeOK, TaskRow, TaskStatus
  <2> QED BY <1>1, <2>2, <2>3, <2>4 DEF TablesTypeOK, TaskRow
<1>2. CASE tasks[t].status # "RUNNING"
  BY <1>2 DEF ResetIfRunning, TablesTypeOK
<1> QED BY <1>1, <1>2

(* Writing a status keeps the rows well typed. *)
LEMMA StatusRow ==
    ASSUME TablesTypeOK, NEW t \in Tasks, NEW st \in TaskStatus, SetStatus(t, st)
    PROVE  tasks' \in [Tasks -> TaskRow]
BY DEF TablesTypeOK, SetStatus, TaskRow

(* So does writing the status of a worker. *)
LEMMA StatusWorker ==
    ASSUME TablesTypeOK, NEW w \in Workers, NEW st \in WorkerStatus,
           SetWorkerStatus(w, st)
    PROVE  workers' \in [Workers -> WorkerRow]
BY DEF TablesTypeOK, SetWorkerStatus, WorkerRow

(* And so do the other statements on task rows. *)
LEMMA MessageRow ==
    ASSUME TablesTypeOK, NEW t \in Tasks, NEW id \in Nat,
           tasks' = [tasks EXCEPT ![t].stream_message_id = id]
    PROVE  tasks' \in [Tasks -> TaskRow]
BY DEF TablesTypeOK, TaskRow

(* The claim of base_worker.py:184 gives a task a worker.                  *)
LEMMA ClaimRow ==
    ASSUME TablesTypeOK, NEW t \in Tasks, NEW w \in Workers,
           tasks' = [tasks EXCEPT ![t].status = "RUNNING", ![t].worker_id = w]
    PROVE  tasks' \in [Tasks -> TaskRow]
BY DEF TablesTypeOK, TaskRow, TaskStatus

(* Storing the result of base_worker.py:216 sets the flag result_json.     *)
LEMMA ResultRow ==
    ASSUME TablesTypeOK, NEW t \in Tasks,
           tasks' = [tasks EXCEPT ![t].status = "COMPLETED", ![t].result_json = TRUE]
    PROVE  tasks' \in [Tasks -> TaskRow]
BY DEF TablesTypeOK, TaskRow, TaskStatus, TerminalTask

(* create_job and cancel_job write the status of several rows at once.     *)
LEMMA StatusRows ==
    ASSUME TablesTypeOK, NEW S \in SUBSET Tasks, NEW st \in TaskStatus,
           tasks' = [t \in Tasks |-> IF t \in S THEN [tasks[t] EXCEPT !.status = st]
                                               ELSE tasks[t]]
    PROVE  tasks' \in [Tasks -> TaskRow]
BY DEF TablesTypeOK, TaskRow

(* Every statement of run_once keeps the types.                            *)
LEMMA CycleTyped ==
    ASSUME TypeOK, NEW s \in Schedulers, RunCycle(s)
    PROVE  TypeOK'
<1> USE DEF TypeOK, TablesTypeOK, RedisTypeOK, SchedulerTypeOK, MonitorTypeOK,
            WorkerTypeOK, ApiTypeOK, SchedulerAlone, Goto, SchedulerPC
<1>0. UNCHANGED <<stuck, workerVars, cancels, faults>> /\ CycleStep(s)
  BY DEF RunCycle
<1>1. CASE FindReadyTasks(s)
  BY <1>0, <1>1 DEF FindReadyTasks, ReadyTasks, ReadyRow, TaskRow
<1>2. CASE SkipIneligible(s)
  <2>1. PICK r \in batch[s] : /\ TakeRow(s, r)
                             /\ windows' = [windows EXCEPT ![s][r.task] = "open"]
    BY <1>2 DEF SkipIneligible
  <2>2. r.task \in Tasks
    BY <2>1 DEF ReadyRow
  <2>3. windows' \in [Schedulers -> [Tasks -> {"none", "open", "due"}]]
    BY <2>1, <2>2
  <2>4. batch' \in [Schedulers -> SUBSET ReadyRow]
    BY <2>1 DEF TakeRow
  <2> QED BY <1>0, <1>2, <2>3, <2>4 DEF SkipIneligible
<1>3. CASE EnqueueLost(s)
  BY <1>0, <1>3 DEF EnqueueLost, TakeRow
<1>4. CASE EnqueueWon(s)
  <2>1. PICK r \in batch[s] : /\ SetStatus(r.task, "ENQUEUED") /\ TakeRow(s, r)
                             /\ current' = [current EXCEPT ![s] = r.task]
    BY <1>4 DEF EnqueueWon
  <2>2. r.task \in Tasks
    BY <2>1 DEF ReadyRow
  <2>3. tasks' \in [Tasks -> TaskRow]
    BY <2>1, <2>2, StatusRow DEF TaskStatus
  <2>4. batch' \in [Schedulers -> SUBSET ReadyRow]
    BY <2>1 DEF TakeRow
  <2>5. /\ current' \in [Schedulers -> Tasks \cup {NoTask}]
        /\ current'[s] # NoTask
        /\ \A u \in Schedulers : u # s => current'[u] = current[u]
    BY <2>1, <2>2, NoTaskAssumption
  <2>6. spc' = [spc EXCEPT ![s] = "xadd"]
    BY <1>4 DEF EnqueueWon
  <2>7. UNCHANGED <<jobs, workers, message, completable, windows, redisVars>>
    BY <1>4 DEF EnqueueWon
  <2> QED BY <1>0, <2>3, <2>4, <2>5, <2>6, <2>7
<1>5. CASE PushMessage(s)
  <2>1. current[s] \in Tasks
    BY <1>5 DEF PushMessage
  <2>2. PICK q \in Streams : q = StreamOf(current[s])
    BY <2>1, StreamAssumption DEF StreamOf, StageOf, Tasks
  <2>3. log' = [log EXCEPT ![q] = Append(@, current[s])]
    BY <1>5, <2>2 DEF PushMessage, XAdd
  <2>4. /\ log' \in [Streams -> Seq(Tasks)]
        /\ \A p \in Streams : cursor[p] <= Len(log'[p])
    BY <2>1, <2>3
  <2>5. message' \in [Schedulers -> Nat]
    BY <1>5, <2>2 DEF PushMessage
  <2>6. /\ spc' = [spc EXCEPT ![s] = "setmsg"] /\ spc[s] = "xadd"
        /\ UNCHANGED <<cursor, pel, deadLetters, batch, current, completable,
                       windows, tableVars>>
    BY <1>5 DEF PushMessage
  <2> QED BY <1>0, <2>4, <2>5, <2>6
<1>6. CASE StoreMessageId(s)
  <2>1. current[s] \in Tasks
    BY <1>6 DEF StoreMessageId
  <2>2. tasks' \in [Tasks -> TaskRow]
    BY <1>6, <2>1, MessageRow DEF StoreMessageId
  <2> QED BY <1>0, <1>6, <2>2 DEF StoreMessageId
<1>7. CASE MarkJobRunning(s)
  BY <1>0, <1>7 DEF MarkJobRunning, Started, JobStatus, JobOf, Tasks
<1>8. CASE CheckJobCompletions(s)
  BY <1>0, <1>8 DEF CheckJobCompletions, Completable, Verdict, SettleRow
<1>9. CASE SettleJob(s)
  BY <1>0, <1>9 DEF SettleJob, SettleRow, JobStatus, TerminalJob
<1>10. CASE EndCycle(s)
  BY <1>0, <1>10 DEF EndCycle
<1> QED
  BY <1>0, <1>1, <1>2, <1>3, <1>4, <1>5, <1>6, <1>7, <1>8, <1>9, <1>10 DEF CycleStep

(* Every statement of run_heartbeat_monitor keeps the types.               *)
LEMMA MonitorTyped ==
    ASSUME TypeOK, NEW s \in Schedulers, RunMonitor(s)
    PROVE  TypeOK'
<1> USE DEF TypeOK, TablesTypeOK, RedisTypeOK, SchedulerTypeOK, MonitorTypeOK,
            WorkerTypeOK, ApiTypeOK, SchedulerAlone, Goto, SchedulerPC
<1>0. UNCHANGED <<workerVars, cancels, faults>> /\ MonitorStep(s)
  BY DEF RunMonitor
<1>1. CASE MarkStaleDead(s)
  BY <1>0, <1>1 DEF MarkStaleDead, WorkerRow, WorkerStatus
<1>2. CASE FindStuckTasks(s)
  BY <1>0, <1>2 DEF FindStuckTasks, StuckTasks, StuckRow, TaskRow
<1>3. CASE ReapExhausted(s)
  <2>1. PICK r \in stuck[s] : TakeStuck(s, r) /\ SetStatus(r.task, "FAILED")
    BY <1>3 DEF ReapExhausted
  <2>2. tasks' \in [Tasks -> TaskRow]
    BY <2>1, StatusRow DEF StuckRow, TaskStatus, TerminalTask
  <2> QED BY <1>0, <1>3, <2>1, <2>2 DEF ReapExhausted, TakeStuck
<1>4. CASE ReapReset(s)
  <2>1. PICK r \in stuck[s] :
           /\ TakeStuck(s, r) /\ ResetIfRunning(r.task)
           /\ \/ UNCHANGED <<spc, current, message>>
              \/ /\ spc' = [spc EXCEPT ![s] = "reapack"]
                 /\ current' = [current EXCEPT ![s] = r.task]
                 /\ message' = [message EXCEPT ![s] = r.stream_message_id]
    BY <1>4 DEF ReapReset
  <2>2. r.task \in Tasks /\ r.stream_message_id \in Nat
    BY <2>1 DEF StuckRow
  <2>3. tasks' \in [Tasks -> TaskRow]
    BY <2>1, <2>2, ResetRow
  <2>4. stuck' \in [Schedulers -> SUBSET StuckRow] /\ spc[s] = "reap"
    BY <2>1 DEF TakeStuck
  <2>5. UNCHANGED <<jobs, workers, batch, completable, windows, redisVars>>
    BY <1>4 DEF ReapReset
  <2>6. CASE UNCHANGED <<spc, current, message>>
    BY <1>0, <2>3, <2>4, <2>5, <2>6
  <2>7. CASE /\ spc' = [spc EXCEPT ![s] = "reapack"]
             /\ current' = [current EXCEPT ![s] = r.task]
             /\ message' = [message EXCEPT ![s] = r.stream_message_id]
    BY <1>0, <2>2, <2>3, <2>4, <2>5, <2>7, NoTaskAssumption
  <2> QED BY <2>1, <2>6, <2>7
<1>5. CASE AckReaped(s)
  BY <1>0, <1>5 DEF AckReaped, BackToReap, XAck
<1>6. CASE MonitorDone(s)
  BY <1>0, <1>6 DEF MonitorDone
<1> QED BY <1>0, <1>1, <1>2, <1>3, <1>4, <1>5, <1>6 DEF MonitorStep

(* So do start, passing time, errors and crashes of the scheduler process. *)
LEMMA SchedulerProcessTyped ==
    ASSUME TypeOK, NEW s \in Schedulers,
           StartScheduler(s) \/ TimePasses(s) \/ SchedulerFault(s)
    PROVE  TypeOK'
<1> USE DEF TypeOK, TablesTypeOK, RedisTypeOK, SchedulerTypeOK, MonitorTypeOK,
            WorkerTypeOK, ApiTypeOK, SchedulerAlone, Goto, SchedulerPC
<1>1. CASE StartScheduler(s)
  BY <1>1 DEF StartScheduler, SchedulerStart
<1>2. CASE TimePasses(s)
  BY <1>2 DEF TimePasses, WindowElapses
<1>3. CASE SchedulerFault(s)
  <2>0. UNCHANGED <<workerVars, cancels>>
    BY <1>3 DEF SchedulerFault
  <2>1. CASE CycleError(s) /\ UNCHANGED stuck /\ Fault("scheduler_call")
    BY <2>0, <2>1 DEF CycleError, ForgetLocals, Fault
  <2>2. CASE ReapAckError(s) /\ Fault("scheduler_call")
    BY <2>0, <2>2 DEF ReapAckError, BackToReap, Fault
  <2>3. CASE MonitorError(s) /\ Fault("scheduler_call")
    BY <2>0, <2>3 DEF MonitorError, ProcessEnds, ForgetLocals, NoWindows, Fault
  <2>4. CASE SchedulerCrash(s) /\ Fault("scheduler_crash")
    BY <2>0, <2>4 DEF SchedulerCrash, ProcessEnds, ForgetLocals, NoWindows, Fault
  <2> QED BY <1>3, <2>1, <2>2, <2>3, <2>4 DEF SchedulerFault
<1> QED BY <1>1, <1>2, <1>3

-----------------------------------------------------------------------------
(* A worker that processes a message was given one that is in its stream.  *)
LEMMA HeldTask ==
    ASSUME TypeOK, NEW w \in Workers, wpc[w] \notin {"off", "poll"}
    PROVE  TaskOf(w) \in Tasks
BY ServesAssumption DEF TypeOK, RedisTypeOK, WorkerTypeOK, TaskOf

(* Every statement of _process_message and _handle_failure keeps the       *)
(* types, and with them the message that the worker holds.                 *)
LEMMA WorkerTyped ==
    ASSUME TypeOK, NEW w \in Workers, RunWorker(w)
    PROVE  TypeOK'
<1> USE DEF TypeOK, TablesTypeOK, RedisTypeOK, SchedulerTypeOK, MonitorTypeOK,
            WorkerTypeOK, ApiTypeOK, WorkerAlone, At, Jump, LetGo,
            WorkerPC, AfterClaim, Failing
<1>0. UNCHANGED <<monitorVars, cancels, faults>> /\ WorkerStep(w)
  BY DEF RunWorker
<1>a. wpc[w] \notin {"off", "poll"} => TaskOf(w) \in Tasks
  BY HeldTask
<1>1. CASE Poll(w)
  <2>1. PICK q \in Streams : q = Serves[w]
    BY ServesAssumption
  <2>2. /\ Undelivered(q) # {} /\ cursor' = [cursor EXCEPT ![q] = @ + 1]
        /\ pel' = pel \cup {<<q, cursor[q] + 1>>}
        /\ held' = [held EXCEPT ![w] = cursor[q] + 1]
        /\ wpc' = [wpc EXCEPT ![w] = "claim"] /\ wpc[w] = "poll"
        /\ UNCHANGED <<log, deadLetters, claims, tableVars>>
    BY <1>1, <2>1 DEF Poll, XReadGroup
  <2>3. /\ cursor' \in [Streams -> Nat]
        /\ cursor'[q] = cursor[q] + 1
        /\ \A p \in Streams : cursor'[p] <= Len(log[p]) /\ cursor[p] <= cursor'[p]
    BY <2>2 DEF Undelivered
  <2>4. RedisTypeOK'
    BY <2>2, <2>3
  <2>5. ASSUME NEW v \in Workers, wpc'[v] \notin {"off", "poll"}
        PROVE  held'[v] \in 1 .. cursor'[Serves[v]]
    <3>1. CASE v = w
      BY <2>1, <2>2, <2>3, <3>1
    <3>2. CASE v # w
      BY <2>2, <2>3, <2>5, <3>2, ServesAssumption
    <3> QED BY <3>1, <3>2
  <2>6. WorkerTypeOK'
    BY <2>2, <2>5
  <2> QED BY <1>0, <2>2, <2>4, <2>6
<1>2. CASE ClaimWon(w)
  <2>1. tasks' \in [Tasks -> TaskRow]
    BY <1>2, <1>a, ClaimRow DEF ClaimWon
  <2>2. claims' \in [Tasks -> Nat]
    BY <1>2, <1>a DEF ClaimWon
  <2> QED BY <1>0, <1>2, <2>1, <2>2 DEF ClaimWon
<1>3. CASE ClaimLost(w)
  BY <1>0, <1>3 DEF ClaimLost
<1>4. CASE MarkBusy(w)
  BY <1>0, <1>4 DEF MarkBusy, SetWorkerStatus, WorkerRow, WorkerStatus
<1>5. CASE Complete(w)
  <2>1. tasks' \in [Tasks -> TaskRow]
    BY <1>5, <1>a, ResultRow DEF Complete
  <2> QED BY <1>0, <1>5, <2>1 DEF Complete
<1>6. CASE ExecuteFails(w)
  BY <1>0, <1>6 DEF ExecuteFails
<1>7. CASE MarkIdle(w)
  BY <1>0, <1>7 DEF MarkIdle, SetWorkerStatus, WorkerRow, WorkerStatus
<1>8. CASE Ack(w)
  BY <1>0, <1>8 DEF Ack, XAck
<1>9. CASE ReadRetries(w)
  BY <1>0, <1>9 DEF ReadRetries
<1>10. CASE ResetToPending(w)
  <2>1. tasks' \in [Tasks -> TaskRow]
    BY <1>10, <1>a, ResetRow DEF ResetToPending
  <2> QED BY <1>0, <1>10, <2>1 DEF ResetToPending
<1>11. CASE MarkFailed(w)
  <2>1. tasks' \in [Tasks -> TaskRow]
    BY <1>11, <1>a, StatusRow DEF MarkFailed, TaskStatus, TerminalTask
  <2> QED BY <1>0, <1>11, <2>1 DEF MarkFailed
<1>12. CASE MarkIdleAfterFailure(w)
  BY <1>0, <1>12 DEF MarkIdleAfterFailure, NextAfterIdle, SetWorkerStatus,
                     WorkerRow, WorkerStatus
<1>13. CASE Bury(w)
  <2>1. deadLetters' \in [Tasks -> Nat]
    BY <1>13, <1>a DEF Bury
  <2> QED BY <1>0, <1>13, <2>1 DEF Bury
<1> QED
  BY <1>0, <1>1, <1>2, <1>3, <1>4, <1>5, <1>6, <1>7, <1>8, <1>9, <1>10, <1>11,
     <1>12, <1>13 DEF WorkerStep

(* So do registration, heartbeats, errors and crashes of a worker.         *)
LEMMA WorkerProcessTyped ==
    ASSUME TypeOK, NEW w \in Workers,
           StartWorker(w) \/ BeatHeart(w) \/ GoStale(w) \/ WorkerFault(w)
    PROVE  TypeOK'
<1> USE DEF TypeOK, TablesTypeOK, RedisTypeOK, SchedulerTypeOK, MonitorTypeOK,
            WorkerTypeOK, ApiTypeOK, WorkerAlone, At, Jump, LetGo,
            WorkerPC, AfterClaim, Failing
<1>1. CASE StartWorker(w)
  BY <1>1 DEF StartWorker, Register, WorkerRow, WorkerStatus
<1>2. CASE BeatHeart(w)
  BY <1>2 DEF BeatHeart, Heartbeat, WorkerRow
<1>3. CASE GoStale(w)
  BY <1>3 DEF GoStale, HeartbeatLapse, WorkerRow
<1>4. CASE WorkerFault(w)
  <2>0. UNCHANGED <<monitorVars, cancels>>
    BY <1>4 DEF WorkerFault
  <2>1. CASE WorkerCrash(w) /\ Fault("worker_crash")
    BY <2>0, <2>1 DEF WorkerCrash, Fault
  <2>2. CASE LoopError(w) /\ Fault("worker_call")
    BY <2>0, <2>2 DEF LoopError, Fault
  <2>3. CASE PersistError(w) /\ Fault("persist_call")
    BY <2>0, <2>3 DEF PersistError, Fault
  <2>4. CASE HeartbeatLapse(w) /\ Fault("lapse")
    <3>1. workers' \in [Workers -> WorkerRow]
      BY <2>4 DEF HeartbeatLapse, WorkerRow
    <3>2. UNCHANGED <<jobs, tasks, workerVars, redisVars>> /\ faults' = faults + 1
      BY <2>4 DEF HeartbeatLapse, Fault
    <3> QED BY <2>0, <3>1, <3>2
  <2> QED BY <1>4, <2>1, <2>2, <2>3, <2>4 DEF WorkerFault
<1> QED BY <1>1, <1>2, <1>3, <1>4

(* So do the requests that write.                                          *)
LEMMA ApiTyped ==
    ASSUME TypeOK,
           \/ \E j \in Jobs : Request(j)
           \/ \E w \in Workers : Deregistration(w)
    PROVE  TypeOK'
<1> USE DEF TypeOK, TablesTypeOK, RedisTypeOK, SchedulerTypeOK, MonitorTypeOK,
            WorkerTypeOK, ApiTypeOK, ApiAlone
<1>1. ASSUME NEW j \in Jobs, Request(j) PROVE TypeOK'
  <2>0. UNCHANGED <<monitorVars, workerVars, faults>>
    BY <1>1 DEF Request
  <2>1. CASE SubmitJob(j)
    <3>1. tasks' \in [Tasks -> TaskRow]
      <4> DEFINE S == {t \in Tasks : JobOf(t) = j}
      <4>1. tasks' = [t \in Tasks |-> IF t \in S
                        THEN [tasks[t] EXCEPT !.status = "PENDING"] ELSE tasks[t]]
        BY <2>1 DEF SubmitJob
      <4> QED BY <4>1, StatusRows DEF TaskStatus
    <3>2. jobs' \in [Jobs -> JobStatus]
      BY <2>1 DEF SubmitJob, JobStatus
    <3> QED BY <2>0, <2>1, <3>1, <3>2 DEF SubmitJob
  <2>2. CASE CancelCheck(j)
    BY <2>0, <2>2 DEF CancelCheck
  <2>3. CASE CancelCommit(j)
    <3>1. tasks' \in [Tasks -> TaskRow]
      <4> DEFINE S == {t \in Tasks : JobOf(t) = j
                                     /\ tasks[t].status \in {"PENDING", "ENQUEUED"}}
      <4>1. tasks' = [t \in Tasks |-> IF t \in S
                        THEN [tasks[t] EXCEPT !.status = "SKIPPED"] ELSE tasks[t]]
        BY <2>3 DEF CancelCommit
      <4> QED BY <4>1, StatusRows DEF TaskStatus, TerminalTask
    <3>2. jobs' \in [Jobs -> JobStatus] /\ cancels' \in [Jobs -> Nat]
      BY <2>3 DEF CancelCommit, JobStatus, TerminalJob
    <3> QED BY <2>0, <2>3, <3>1, <3>2 DEF CancelCommit
  <2> QED BY <1>1, <2>1, <2>2, <2>3 DEF Request
<1>2. ASSUME NEW w \in Workers, Deregistration(w) PROVE TypeOK'
  <2>1. workers' \in [Workers -> WorkerRow]
    BY <1>2, StatusWorker DEF Deregistration, DeregisterWorker, WorkerStatus
  <2>2. /\ UNCHANGED <<jobs, tasks, cancels, redisVars, monitorVars, workerVars>>
        /\ faults' = faults + 1
    BY <1>2 DEF Deregistration, DeregisterWorker, Fault
  <2>3. TablesTypeOK'
    BY <2>1, <2>2
  <2>4. RedisTypeOK' /\ SchedulerTypeOK' /\ MonitorTypeOK'
    BY <2>2
  <2>5. WorkerTypeOK' /\ ApiTypeOK' /\ (faults \in Nat)'
    BY <2>2
  <2> QED BY <2>3, <2>4, <2>5
<1> QED BY <1>1, <1>2

-----------------------------------------------------------------------------
(* Every reachable state is well typed, whatever fails and however many    *)
(* jobs, stages, workers and schedulers there are.                         *)
THEOREM TypeCorrect == Spec => []TypeOK
<1>1. Init => TypeOK
  BY DEF Init, TablesInit, RedisInit, SchedulerInit, MonitorInit, WorkerInit,
         ApiInit, TypeOK, TablesTypeOK, RedisTypeOK, SchedulerTypeOK,
         MonitorTypeOK, WorkerTypeOK, ApiTypeOK, AbsentTask, TaskRow, TaskStatus,
         WorkerRow, WorkerStatus, JobStatus, WorkerPC, SchedulerPC, NoWindows
<1>2. TypeOK /\ [Next]_vars => TypeOK'
  <2> SUFFICES ASSUME TypeOK, [Next]_vars PROVE TypeOK'
    OBVIOUS
  <2>1. CASE UNCHANGED vars
    BY <2>1 DEF vars, TypeOK, TablesTypeOK, RedisTypeOK, SchedulerTypeOK,
                MonitorTypeOK, WorkerTypeOK, ApiTypeOK
  <2>2. CASE Next
    BY <2>2, CycleTyped, MonitorTyped, SchedulerProcessTyped, WorkerTyped,
       WorkerProcessTyped, ApiTyped DEF Next
  <2> QED BY <2>1, <2>2
<1> QED BY <1>1, <1>2, PTL DEF Spec
=============================================================================
