--------------------------- MODULE RecoveryProofs ---------------------------
(***************************************************************************)
(* What holds as long as the system judges right who is alive, for any     *)
(* number of workers, jobs, stages and crashes: a task has one executor, a *)
(* bounded number of attempts and at most one dead letter, and the tables  *)
(* follow TaskLifecycle.  Who executes a task owns its row, and nobody     *)
(* else writes it; whose row the monitor holds has no executor.            *)
(***************************************************************************)
EXTENDS ReadProofs

USE DEF tableVars, redisVars, schedulerVars, monitorVars, workerVars

-----------------------------------------------------------------------------
(* The condition: one scheduler, heartbeats in time, nobody deregistered.  *)
Trusting ==
    /\ OneScheduler
    /\ FaultKinds \cap {"lapse", "deregister"} = {}

(* A living worker never looks dead.                                       *)
LivingAreKnown ==
    \A w \in Workers : ~At(w, "off") =>
       ~workers[w].stale /\ workers[w].status \in {"IDLE", "BUSY"}

(* The parts of a worker's work on a task, from its claim until it has     *)
(* written the last that it has to write about it.                         *)
Executing == {"busy", "exec"}
Handling == {"fail", "retry", "exhaust"}
Stored == {"idle", "ack"}
Burying == {"exhausted", "bury"}
Engaged == Executing \cup Handling \cup Stored \cup Burying

Has(w, t) == wpc[w] \in Engaged /\ TaskOf(w) = t

Owns(w, t) == tasks[t].status = "RUNNING" /\ tasks[t].worker_id = w

(* Who executes a task owns its row; who handles a failure owns it, or has *)
(* stored the result before the call that failed.                          *)
FitsRow(w, t) ==
    /\ wpc[w] \in Executing => Owns(w, t)
    /\ wpc[w] \in Handling => Owns(w, t) \/ tasks[t].status = "COMPLETED"
    /\ wpc[w] = "retry" => HasRetryLeft(t)
    /\ wpc[w] = "exhaust" => ~HasRetryLeft(t)
    /\ wpc[w] \in Stored => tasks[t].status = "COMPLETED"
    /\ wpc[w] \in Burying => tasks[t].status = "FAILED"

Engagement == \A w \in Workers : wpc[w] \in Engaged => FitsRow(w, TaskOf(w))

OneEngaged == \A t \in Tasks : \A v, w \in Workers : Has(v, t) /\ Has(w, t) => v = w

(* A row that the monitor holds is still as it was read, is held once, and *)
(* nobody works on its task.                                               *)
IsLost(r) ==
    /\ tasks[r.task].status = "RUNNING"
    /\ tasks[r.task].retry_count = r.retry_count
    /\ \A w \in Workers : ~Has(w, r.task)

StuckAreLost ==
    \A s \in Schedulers : \A r \in stuck[s] :
       IsLost(r) /\ \A x \in stuck[s] : x.task = r.task => x = r

WithinLimit == \A t \in Tasks : tasks[t].retry_count <= max_retries(t)

(* A buried task has failed, and nobody is left who could bury it again.   *)
BuriedOnce ==
    \A t \in Tasks :
       /\ deadLetters[t] <= 1
       /\ deadLetters[t] > 0 => /\ tasks[t].status = "FAILED"
                                /\ \A w \in Workers : ~Has(w, t)

RecoveryInv ==
    /\ LivingAreKnown /\ Engagement /\ OneEngaged
    /\ StuckAreLost /\ WithinLimit /\ BuriedOnce

-----------------------------------------------------------------------------
(* What a step can do to the rows of tasks: the row of at most one task    *)
(* moves, unless a request submits or cancels a job.                       *)
KeepsRow(t) ==
    /\ tasks'[t].status = tasks[t].status
    /\ tasks'[t].retry_count = tasks[t].retry_count
    /\ tasks'[t].worker_id = tasks[t].worker_id

Goes(t, from, to) == tasks[t].status = from /\ tasks'[t].status = to

SameRetries(t) == tasks'[t].retry_count = tasks[t].retry_count

Dispatching(t) ==
    /\ Goes(t, "PENDING", "ENQUEUED") /\ SameRetries(t)
    /\ \E s \in Schedulers : \E r \in batch[s] : r.task = t

Claiming(t) ==
    /\ Goes(t, "ENQUEUED", "RUNNING") /\ SameRetries(t)
    /\ \E w \in Workers : ClaimWon(w) /\ TaskOf(w) = t

Completing(t) == Goes(t, "RUNNING", "COMPLETED") /\ SameRetries(t)

GivingBack(t) ==
    /\ tasks[t].retry_count < max_retries(t)
    /\ Goes(t, "RUNNING", "PENDING")
    /\ tasks'[t].retry_count = tasks[t].retry_count + 1

GivingUp(t) ==
    /\ tasks[t].retry_count = max_retries(t)
    /\ Goes(t, "RUNNING", "FAILED") /\ SameRetries(t)

(* A call failed after the result was stored, and no retry is left.        *)
Spoiling(t) ==
    /\ Goes(t, "COMPLETED", "FAILED") /\ SameRetries(t)
    /\ \E w \in Workers : At(w, "exhaust") /\ TaskOf(w) = t

(* Who ends an attempt has it in hand, and goes on or lets go of it.       *)
ByWorker(w, t) == Has(w, t) /\ wpc'[w] # wpc[w]
ByMonitor(s, t) == \E r \in stuck[s] : r.task = t /\ r \notin stuck'[s]

Ending(t) ==
    \/ /\ Completing(t) \/ GivingBack(t) \/ GivingUp(t)
       /\ (\E w \in Workers : ByWorker(w, t)) \/ (\E s \in Schedulers : ByMonitor(s, t))
    \/ Spoiling(t) /\ \E w \in Workers : ByWorker(w, t)

OneMove(t) ==
    /\ Dispatching(t) \/ Claiming(t) \/ Ending(t)
    /\ \A u \in Tasks : u # t => KeepsRow(u)
    /\ UNCHANGED jobs

NoMove == \A t \in Tasks : KeepsRow(t)

(* The writes of a scheduler and its monitor.                              *)
LEMMA SchedulerWrites ==
    ASSUME TypeOK, RecoveryInv, NEW s \in Schedulers, SchedulerSteps(s)
    PROVE  NoMove \/ \E t \in Tasks : OneMove(t)
<1>0. /\ tasks \in [Tasks -> TaskRow]
      /\ stuck \in [Schedulers -> SUBSET StuckRow] /\ batch \in [Schedulers -> SUBSET ReadyRow]
  BY DEF TypeOK, TablesTypeOK, MonitorTypeOK, SchedulerTypeOK
<1>1. CASE UNCHANGED tasks
  BY <1>1 DEF NoMove, KeepsRow
<1>2. CASE EnqueueWon(s)
  <2>1. PICK r \in batch[s] : StillPending(r.task) /\ SetStatus(r.task, "ENQUEUED")
    BY <1>2 DEF EnqueueWon
  <2>2. r.task \in Tasks
    BY <1>0 DEF ReadyRow
  <2>3. Dispatching(r.task)
    BY <1>0, <2>1, <2>2 DEF Dispatching, Goes, SameRetries, StillPending, SetStatus, TaskRow
  <2>4. \A u \in Tasks : u # r.task => KeepsRow(u)
    BY <1>0, <2>1, <2>2 DEF SetStatus, KeepsRow
  <2> QED BY <1>2, <2>2, <2>3, <2>4 DEF OneMove, EnqueueWon
<1>3. CASE StoreMessageId(s)
  <2>1. current[s] \in Tasks
    BY <1>3 DEF StoreMessageId, TypeOK, SchedulerTypeOK
  <2> QED BY <1>0, <1>3, <2>1 DEF StoreMessageId, NoMove, KeepsRow, TaskRow
<1>4. CASE ReapExhausted(s)
  <2>1. PICK r \in stuck[s] : /\ TakeStuck(s, r) /\ r.retry_count >= max_retries(r.task)
                             /\ SetStatus(r.task, "FAILED")
    BY <1>4 DEF ReapExhausted
  <2>2. /\ r.task \in Tasks /\ IsLost(r) /\ max_retries(r.task) \in Nat
        /\ tasks[r.task].retry_count \in Nat /\ tasks[r.task].retry_count <= max_retries(r.task)
    BY <1>0, LimitIsNatural DEF StuckRow, RecoveryInv, StuckAreLost, WithinLimit, TaskRow
  <2>3. GivingUp(r.task)
    BY <1>0, <2>1, <2>2 DEF GivingUp, Goes, SameRetries, SetStatus, TaskRow, IsLost
  <2>4. ByMonitor(s, r.task)
    BY <1>0, <2>1 DEF ByMonitor, TakeStuck
  <2>5. \A u \in Tasks : u # r.task => KeepsRow(u)
    BY <1>0, <2>1, <2>2 DEF SetStatus, KeepsRow
  <2> QED BY <1>4, <2>2, <2>3, <2>4, <2>5 DEF OneMove, Ending, ReapExhausted
<1>5. CASE ReapReset(s)
  <2>1. PICK r \in stuck[s] : /\ TakeStuck(s, r) /\ r.retry_count < max_retries(r.task)
                             /\ ResetIfRunning(r.task)
    BY <1>5 DEF ReapReset
  <2>2. r.task \in Tasks /\ IsLost(r)
    BY <1>0 DEF StuckRow, RecoveryInv, StuckAreLost
  <2>3. GivingBack(r.task)
    BY <2>1, <2>2, ResetRow DEF GivingBack, Goes, IsLost, TypeOK
  <2>4. ByMonitor(s, r.task)
    BY <1>0, <2>1 DEF ByMonitor, TakeStuck
  <2>5. \A u \in Tasks : u # r.task => KeepsRow(u)
    BY <2>1, <2>2, ResetRow DEF KeepsRow, TypeOK
  <2> QED BY <1>5, <2>2, <2>3, <2>4, <2>5 DEF OneMove, Ending, ReapReset
<1>6. CASE StartScheduler(s) \/ TimePasses(s) \/ SchedulerFault(s)
  BY <1>1, <1>6 DEF StartScheduler, SchedulerStart, TimePasses, WindowElapses,
         SchedulerFault, CycleError, ReapAckError, MonitorError, SchedulerCrash, ProcessEnds
<1>7. CASE RunCycle(s)
  BY <1>1, <1>2, <1>3, <1>7 DEF RunCycle, CycleStep, FindReadyTasks, SkipIneligible,
         EnqueueLost, PushMessage, MarkJobRunning, CheckJobCompletions, SettleJob, EndCycle
<1>8. CASE RunMonitor(s)
  BY <1>1, <1>4, <1>5, <1>8 DEF RunMonitor, MonitorStep, MarkStaleDead, FindStuckTasks,
         AckReaped, MonitorDone
<1> QED BY <1>6, <1>7, <1>8 DEF SchedulerSteps

(* The steps of the process of worker w, and what happens to its row.      *)
WorkerSteps(w) ==
    \/ StartWorker(w) \/ RunWorker(w) \/ BeatHeart(w)
    \/ GoStale(w) \/ WorkerFault(w) \/ Deregistration(w)

(* The writes of a worker.                                                 *)
LEMMA WorkerWrites ==
    ASSUME TypeOK, RecoveryInv, NEW w \in Workers, WorkerSteps(w)
    PROVE  NoMove \/ \E t \in Tasks : OneMove(t)
<1> DEFINE t == TaskOf(w)
<1>0. tasks \in [Tasks -> TaskRow] /\ wpc \in [Workers -> WorkerPC]
  BY DEF TypeOK, TablesTypeOK, WorkerTypeOK
<1>1. CASE UNCHANGED tasks
  BY <1>1 DEF NoMove, KeepsRow
<1>2. wpc[w] \notin {"off", "poll"} => t \in Tasks
  <2>1. Serves[w] \in Streams /\ log[Serves[w]] \in Seq(Tasks)
    BY ServesAssumption DEF TypeOK, RedisTypeOK
  <2>2. wpc[w] \notin {"off", "poll"} => held[w] \in 1 .. Len(log[Serves[w]])
    BY <2>1 DEF TypeOK, RedisTypeOK, WorkerTypeOK
  <2> QED BY <2>1, <2>2 DEF TaskOf
<1>3. wpc[w] \in Engaged => FitsRow(w, t)
  BY DEF RecoveryInv, Engagement
<1>4. t \in Tasks => /\ max_retries(t) \in Nat /\ tasks[t].retry_count \in Nat
                     /\ tasks[t].retry_count <= max_retries(t)
  BY <1>0, LimitIsNatural DEF RecoveryInv, WithinLimit, TaskRow
<1>5. CASE ClaimWon(w)
  <2>1. t \in Tasks
    BY <1>2, <1>5 DEF ClaimWon, At
  <2>2. Claiming(t)
    BY <1>0, <1>5, <2>1 DEF ClaimWon, Claimable, Claiming, Goes, SameRetries, TaskRow
  <2>3. \A u \in Tasks : u # t => KeepsRow(u)
    BY <1>0, <1>5, <2>1 DEF ClaimWon, KeepsRow
  <2> QED BY <1>5, <2>1, <2>2, <2>3 DEF OneMove, ClaimWon
<1>6. CASE Complete(w)
  <2>1. t \in Tasks /\ tasks[t].status = "RUNNING" /\ ByWorker(w, t)
    BY <1>0, <1>2, <1>3, <1>6
       DEF Complete, At, Jump, ByWorker, Has, FitsRow, Owns, Engaged, Executing
  <2>2. Completing(t)
    BY <1>0, <1>6, <2>1 DEF Complete, Completing, Goes, SameRetries, TaskRow
  <2>3. \A u \in Tasks : u # t => KeepsRow(u)
    BY <1>0, <1>6, <2>1 DEF Complete, KeepsRow
  <2> QED BY <1>6, <2>1, <2>2, <2>3 DEF OneMove, Ending, Complete
<1>7. CASE ResetToPending(w)
  <2>1. /\ t \in Tasks /\ ByWorker(w, t) /\ HasRetryLeft(t)
        /\ tasks[t].status \in {"RUNNING", "COMPLETED"}
    BY <1>0, <1>2, <1>3, <1>7
       DEF ResetToPending, At, Jump, ByWorker, Has, FitsRow, Owns, Engaged, Handling
  <2>2. CASE tasks[t].status = "RUNNING"
    <3>1. GivingBack(t)
      BY <1>7, <2>1, <2>2, ResetRow DEF ResetToPending, GivingBack, Goes, HasRetryLeft, TypeOK
    <3>2. \A u \in Tasks : u # t => KeepsRow(u)
      BY <1>7, <2>1, ResetRow DEF ResetToPending, KeepsRow, TypeOK
    <3> QED BY <1>7, <2>1, <3>1, <3>2 DEF OneMove, Ending, ResetToPending
  <2>3. CASE tasks[t].status = "COMPLETED"
    BY <1>1, <1>7, <2>3 DEF ResetToPending, ResetIfRunning
  <2> QED BY <2>1, <2>2, <2>3
<1>8. CASE MarkFailed(w)
  <2>1. /\ t \in Tasks /\ ByWorker(w, t) /\ ~HasRetryLeft(t) /\ At(w, "exhaust")
        /\ tasks[t].status \in {"RUNNING", "COMPLETED"}
    BY <1>0, <1>2, <1>3, <1>8
       DEF MarkFailed, At, Jump, ByWorker, Has, FitsRow, Owns, Engaged, Handling
  <2>2. tasks'[t].status = "FAILED" /\ SameRetries(t)
    BY <1>0, <1>8, <2>1 DEF MarkFailed, SetStatus, SameRetries, TaskRow
  <2>3. \A u \in Tasks : u # t => KeepsRow(u)
    BY <1>0, <1>8, <2>1 DEF MarkFailed, SetStatus, KeepsRow
  <2>4. GivingUp(t) \/ Spoiling(t)
    BY <1>4, <2>1, <2>2 DEF GivingUp, Spoiling, Goes, HasRetryLeft
  <2> QED BY <1>8, <2>1, <2>3, <2>4 DEF OneMove, Ending, MarkFailed
<1>9. UNCHANGED tasks \/ ClaimWon(w) \/ Complete(w) \/ ResetToPending(w) \/ MarkFailed(w)
  BY DEF WorkerSteps, StartWorker, Register, RunWorker, WorkerStep, Poll, ClaimLost, MarkBusy,
         ExecuteFails, MarkIdle, Ack, ReadRetries, MarkIdleAfterFailure, Bury, BeatHeart,
         Heartbeat, GoStale, HeartbeatLapse, WorkerFault, WorkerCrash, LoopError,
         PersistError, Deregistration, DeregisterWorker
<1> QED BY <1>1, <1>5, <1>6, <1>7, <1>8, <1>9

(* The writes of everybody.                                                *)
LEMMA Writes ==
    ASSUME TypeOK, RecoveryInv, [Next]_vars
    PROVE  \/ NoMove
           \/ \E t \in Tasks : OneMove(t)
           \/ \E j \in Jobs : SubmitJob(j) \/ CancelCommit(j)
<1>1. CASE UNCHANGED vars
  BY <1>1 DEF vars, NoMove, KeepsRow
<1>2. ASSUME NEW s \in Schedulers, SchedulerSteps(s)
      PROVE  NoMove \/ \E t \in Tasks : OneMove(t)
  BY <1>2, SchedulerWrites
<1>3. ASSUME NEW w \in Workers, WorkerSteps(w)
      PROVE  NoMove \/ \E t \in Tasks : OneMove(t)
  BY <1>3, WorkerWrites
<1>4. ASSUME NEW j \in Jobs, Request(j), ~SubmitJob(j), ~CancelCommit(j) PROVE NoMove
  BY <1>4 DEF Request, CancelCheck, NoMove, KeepsRow
<1> QED BY <1>1, <1>2, <1>3, <1>4 DEF Next, SchedulerSteps, WorkerSteps

-----------------------------------------------------------------------------
(* The faults of a worker that remain: it dies, drops its message, or      *)
(* fails after it stored a result.                                         *)
FailsLate(w) == PersistError(w) /\ "persist_call" \in FaultKinds
RunsOff(w) == WorkerCrash(w) \/ LoopError(w) \/ FailsLate(w)

(* The other faults of workers do not happen.                              *)
LEMMA NoLies ==
    ASSUME Trusting, [Next]_vars, NEW w \in Workers
    PROVE  /\ ~Deregistration(w)
           /\ WorkerFault(w) => RunsOff(w)
BY DEF Trusting, Deregistration, WorkerFault, Fault, RunsOff, FailsLate

(* A living worker never looks dead: only a missing process loses its      *)
(* heartbeat, and only a lost heartbeat makes a worker DEAD.               *)
LEMMA LivingKept ==
    ASSUME Trusting, TypeOK, LivingAreKnown, [Next]_vars
    PROVE  LivingAreKnown'
<1> SUFFICES ASSUME NEW v \in Workers, wpc'[v] # "off"
             PROVE  ~workers'[v].stale /\ workers'[v].status \in {"IDLE", "BUSY"}
  BY DEF LivingAreKnown, At
<1> DEFINE Goal == ~workers'[v].stale /\ workers'[v].status \in {"IDLE", "BUSY"}
<1>0. /\ workers \in [Workers -> WorkerRow] /\ wpc \in [Workers -> WorkerPC]
      /\ wpc[v] # "off" => ~workers[v].stale /\ workers[v].status \in {"IDLE", "BUSY"}
  BY DEF TypeOK, TablesTypeOK, WorkerTypeOK, LivingAreKnown, At
<1>1. CASE wpc' = wpc /\ workers' = workers
  BY <1>0, <1>1
<1>2. ASSUME NEW s \in Schedulers, SchedulerSteps(s) PROVE Goal
  <2>1. wpc' = wpc
    BY <1>2 DEF SchedulerSteps, StartScheduler, RunCycle, RunMonitor, TimePasses,
                SchedulerFault, SchedulerAlone
  <2>2. CASE MarkStaleDead(s)
    BY <1>0, <2>1, <2>2 DEF MarkStaleDead
  <2>3. workers' = workers \/ MarkStaleDead(s)
    BY <1>2 DEF SchedulerSteps, StartScheduler, SchedulerStart, RunCycle, CycleStep,
           FindReadyTasks, SkipIneligible, EnqueueLost, EnqueueWon, PushMessage,
           StoreMessageId, MarkJobRunning, CheckJobCompletions, SettleJob, EndCycle,
           RunMonitor, MonitorStep, FindStuckTasks, ReapExhausted, ReapReset, AckReaped,
           MonitorDone, TimePasses, WindowElapses, SchedulerFault, CycleError,
           ReapAckError, MonitorError, SchedulerCrash, ProcessEnds
  <2> QED BY <1>1, <2>1, <2>2, <2>3
<1>3. ASSUME NEW w \in Workers, RunWorker(w) PROVE Goal
  <2>1. wpc[w] # "off" /\ \E label \in WorkerPC : wpc' = [wpc EXCEPT ![w] = label]
    BY <1>3 DEF RunWorker, WorkerStep, Poll, ClaimWon, ClaimLost, MarkBusy, Complete,
           ExecuteFails, MarkIdle, Ack, ReadRetries, ResetToPending, MarkFailed,
           MarkIdleAfterFailure, Bury, At, Jump, LetGo, NextAfterIdle,
           WorkerPC, AfterClaim, Failing
  <2>2. \/ workers' = workers
        \/ \E st \in {"IDLE", "BUSY"} : workers' = [workers EXCEPT ![w].status = st]
    BY <1>3 DEF RunWorker, WorkerStep, Poll, ClaimWon, ClaimLost, MarkBusy, Complete,
           ExecuteFails, MarkIdle, Ack, ReadRetries, ResetToPending, MarkFailed,
           MarkIdleAfterFailure, Bury, SetWorkerStatus
  <2>3. wpc[v] # "off"
    BY <1>0, <2>1
  <2> QED BY <1>0, <2>2, <2>3 DEF WorkerRow
<1>4. ASSUME NEW w \in Workers, StartWorker(w) PROVE Goal
  BY <1>0, <1>4 DEF StartWorker, Register, Jump
<1>5. ASSUME NEW w \in Workers, BeatHeart(w) \/ GoStale(w) PROVE Goal
  BY <1>0, <1>5 DEF BeatHeart, Heartbeat, GoStale, HeartbeatLapse, WorkerRow, At
<1>6. ASSUME NEW w \in Workers, WorkerFault(w) PROVE Goal
  BY <1>0, <1>6, NoLies
     DEF RunsOff, FailsLate, WorkerCrash, LoopError, PersistError, LetGo, Jump, At, Failing
<1>7. ASSUME NEW j \in Jobs, Request(j) PROVE wpc' = wpc /\ workers' = workers
  BY <1>7 DEF Request, ApiAlone, SubmitJob, CancelCheck, CancelCommit
<1>8. CASE UNCHANGED vars
  BY <1>1, <1>8 DEF vars
<1> QED BY <1>1, <1>2, <1>3, <1>4, <1>5, <1>6, <1>7, <1>8, NoLies
        DEF Next, SchedulerSteps

(* The step with which an engaged worker goes on.                          *)
GoesOn(w) ==
    \/ MarkBusy(w) \/ Complete(w) \/ ExecuteFails(w) \/ MarkIdle(w) \/ ReadRetries(w)
    \/ MarkFailed(w) \/ MarkIdleAfterFailure(w) \/ FailsLate(w)

(* How a worker comes to be engaged, or stays so.                          *)
LEMMA EngagedWriter ==
    ASSUME Trusting, TypeOK, [Next]_vars, NEW w \in Workers, wpc'[w] \in Engaged
    PROVE  /\ held'[w] = held[w]
           /\ \/ wpc'[w] = wpc[w]
              \/ ClaimWon(w)
              \/ GoesOn(w) /\ wpc[w] \in Engaged
<1> DEFINE Goal == /\ held'[w] = held[w]
                   /\ \/ wpc'[w] = wpc[w]
                      \/ ClaimWon(w)
                      \/ GoesOn(w) /\ wpc[w] \in Engaged
<1>0. wpc \in [Workers -> WorkerPC] /\ held \in [Workers -> Nat]
  BY DEF TypeOK, WorkerTypeOK
<1>1. CASE UNCHANGED <<wpc, held>>
  BY <1>1
<1>2. ASSUME NEW u \in Workers, u # w,
             \E label \in WorkerPC : wpc' = [wpc EXCEPT ![u] = label],
             held' = held \/ \E n \in Nat : held' = [held EXCEPT ![u] = n]
      PROVE  Goal
  BY <1>0, <1>2
<1>3. ASSUME NEW u \in Workers, RunWorker(u) PROVE Goal
  <2>1. CASE u # w
    <3>1. \E label \in WorkerPC : wpc' = [wpc EXCEPT ![u] = label]
      BY <1>3 DEF RunWorker, WorkerStep, Poll, ClaimWon, ClaimLost, MarkBusy, Complete,
             ExecuteFails, MarkIdle, Ack, ReadRetries, ResetToPending, MarkFailed,
             MarkIdleAfterFailure, Bury, Jump, LetGo, NextAfterIdle,
             WorkerPC, AfterClaim, Failing
    <3>2. Serves[u] \in Streams /\ cursor[Serves[u]] + 1 \in Nat
      BY ServesAssumption DEF TypeOK, RedisTypeOK
    <3>3. held' = held \/ \E n \in Nat : held' = [held EXCEPT ![u] = n]
      BY <1>3, <3>2 DEF RunWorker, WorkerStep, Poll, ClaimWon, ClaimLost, MarkBusy,
             Complete, ExecuteFails, MarkIdle, Ack, ReadRetries, ResetToPending,
             MarkFailed, MarkIdleAfterFailure, Bury, LetGo
    <3> QED BY <1>2, <2>1, <3>1, <3>3
  <2>2. CASE u = w
    <3>1. CASE Poll(w) \/ ClaimLost(w) \/ Ack(w) \/ ResetToPending(w) \/ Bury(w)
      BY <1>0, <3>1 DEF Poll, ClaimLost, Ack, ResetToPending, Bury, LetGo, Jump,
                        Engaged, Executing, Handling, Stored, Burying
    <3>2. CASE ClaimWon(w)
      BY <3>2 DEF ClaimWon
    <3>3. CASE GoesOn(w)
      BY <1>0, <3>3 DEF GoesOn, MarkBusy, Complete, ExecuteFails, MarkIdle, ReadRetries,
         MarkFailed, MarkIdleAfterFailure, FailsLate, PersistError, At, Jump, NextAfterIdle,
         Engaged, Executing, Handling, Stored, Burying
    <3> QED BY <1>3, <2>2, <3>1, <3>2, <3>3 DEF RunWorker, WorkerStep, GoesOn
  <2> QED BY <2>1, <2>2
<1>4. ASSUME NEW u \in Workers, StartWorker(u) PROVE Goal
  BY <1>0, <1>4 DEF StartWorker, Register, Jump, Engaged, Executing, Handling, Stored, Burying
<1>5. ASSUME NEW u \in Workers, WorkerFault(u) PROVE Goal
  <2>1. CASE WorkerCrash(u) \/ LoopError(u)
    BY <1>0, <2>1 DEF WorkerCrash, LoopError, LetGo, Jump,
                      Engaged, Executing, Handling, Stored, Burying
  <2>2. CASE FailsLate(u)
    BY <1>0, <2>2 DEF FailsLate, PersistError, GoesOn, Jump, Engaged, Stored
  <2> QED BY <1>5, <2>1, <2>2, NoLies DEF RunsOff
<1>6. ASSUME NEW u \in Workers, BeatHeart(u) \/ GoStale(u) PROVE Goal
  BY <1>1, <1>6 DEF BeatHeart, Heartbeat, GoStale, HeartbeatLapse
<1>7. ASSUME NEW s \in Schedulers, SchedulerSteps(s) PROVE Goal
  BY <1>1, <1>7 DEF SchedulerSteps, StartScheduler, RunCycle, RunMonitor, TimePasses,
              SchedulerFault, SchedulerAlone
<1>8. ASSUME NEW j \in Jobs, Request(j) PROVE Goal
  BY <1>1, <1>8 DEF Request, ApiAlone
<1>9. CASE UNCHANGED vars
  BY <1>1, <1>9 DEF vars
<1> QED BY <1>3, <1>4, <1>5, <1>6, <1>7, <1>8, <1>9, NoLies DEF Next, SchedulerSteps

(* Who has a task had it before, or has just claimed it.                   *)
LEMMA HadBefore ==
    ASSUME Trusting, TypeOK, [Next]_vars, NEW w \in Workers, NEW t, Has(w, t)'
    PROVE  /\ t \in Tasks /\ TaskOf(w) = t
           /\ \/ Has(w, t) /\ (wpc'[w] = wpc[w] \/ GoesOn(w))
              \/ ClaimWon(w) /\ tasks[t].status = "ENQUEUED"
<1>1. wpc'[w] \in Engaged /\ TaskOf(w)' = t
  BY DEF Has
<1>2. held'[w] = held[w] /\ wpc[w] \notin {"off", "poll"}
  BY <1>1, EngagedWriter DEF ClaimWon, At, Engaged, Executing, Handling, Stored, Burying
<1>3. t \in Tasks /\ TaskOf(w) = t
  BY <1>1, <1>2, MessageStays DEF TaskOf
<1> QED BY <1>1, <1>3, EngagedWriter DEF Has, ClaimWon, Claimable

(* How the monitor comes to hold a row.                                    *)
LEMMA StuckReader ==
    ASSUME TypeOK, [Next]_vars, NEW s \in Schedulers
    PROVE  \/ stuck'[s] \subseteq stuck[s]
           \/ RunMonitor(s) /\ FindStuckTasks(s)
<1> DEFINE Goal == stuck'[s] \subseteq stuck[s] \/ (RunMonitor(s) /\ FindStuckTasks(s))
<1>0. stuck \in [Schedulers -> SUBSET StuckRow]
  BY DEF TypeOK, MonitorTypeOK
<1>1. CASE stuck' = stuck
  BY <1>1
<1>2. ASSUME NEW u \in Schedulers, SchedulerSteps(u) PROVE Goal
  <2>1. CASE \E r \in stuck[u] : TakeStuck(u, r)
    BY <1>0, <2>1 DEF TakeStuck
  <2>2. CASE stuck' = [stuck EXCEPT ![u] = {}]
    BY <1>0, <2>2
  <2>3. CASE RunMonitor(u) /\ FindStuckTasks(u)
    BY <1>0, <2>3 DEF FindStuckTasks
  <2>4. CASE RunMonitor(u)
    BY <1>1, <2>1, <2>3, <2>4
       DEF RunMonitor, MonitorStep, MarkStaleDead, ReapExhausted, ReapReset, AckReaped,
           BackToReap, MonitorDone
  <2> QED BY <1>1, <1>2, <2>2, <2>4
          DEF SchedulerSteps, StartScheduler, RunCycle, TimePasses, SchedulerFault,
              ReapAckError, BackToReap, MonitorError, SchedulerCrash, ProcessEnds
<1>3. CASE UNCHANGED monitorVars
  BY <1>1, <1>3
<1> QED BY <1>2, <1>3, OthersKeepSchedulers

(* What a step does to the row of a task that is past its queue.           *)
LEMMA StartedMoves ==
    ASSUME TypeOK, KnownTasks, RecoveryInv, [Next]_vars,
           NEW t \in Tasks, tasks[t].status \in {"RUNNING", "COMPLETED", "FAILED"}
    PROVE  KeepsRow(t) \/ Ending(t)
<1>1. CASE NoMove
  BY <1>1 DEF NoMove
<1>2. ASSUME NEW u \in Tasks, OneMove(u) PROVE KeepsRow(t) \/ Ending(t)
  BY <1>2 DEF OneMove, Dispatching, Claiming, Goes
<1>3. ASSUME NEW j \in Jobs, SubmitJob(j) PROVE KeepsRow(t)
  <2>1. JobOf(t) # j
    BY <1>3 DEF SubmitJob, KnownTasks, Submitted
  <2> QED BY <1>3, <2>1 DEF SubmitJob, KeepsRow
<1>4. ASSUME NEW j \in Jobs, CancelCommit(j) PROVE KeepsRow(t)
  BY <1>4 DEF CancelCommit, KeepsRow
<1> QED BY <1>1, <1>2, <1>3, <1>4, Writes

(* The row of an engaged worker that makes no step keeps as it is.         *)
LEMMA EngagedKeepsRow ==
    ASSUME TypeOK, KnownTasks, RecoveryInv, [Next]_vars,
           NEW w \in Workers, NEW t \in Tasks, Has(w, t), wpc'[w] = wpc[w]
    PROVE  KeepsRow(t)
<1>1. tasks[t].status \in {"RUNNING", "COMPLETED", "FAILED"}
  BY DEF Has, Engaged, RecoveryInv, Engagement, FitsRow, Owns
<1>2. ASSUME NEW v \in Workers, ByWorker(v, t) PROVE FALSE
  BY <1>2 DEF ByWorker, RecoveryInv, OneEngaged
<1>3. ASSUME NEW s \in Schedulers, ByMonitor(s, t) PROVE FALSE
  BY <1>3 DEF ByMonitor, RecoveryInv, StuckAreLost, IsLost
<1> QED BY <1>1, <1>2, <1>3, StartedMoves DEF Ending

(* What a worker in the middle of its work believes of its row is true.    *)
LEMMA EngagementKept ==
    ASSUME Trusting, TypeOK, TypeOK', KnownTasks, RecoveryInv, [Next]_vars
    PROVE  Engagement'
<1> SUFFICES ASSUME NEW w \in Workers, wpc'[w] \in Engaged
             PROVE  FitsRow(w, TaskOf(w))'
  BY DEF Engagement
<1>0. /\ tasks \in [Tasks -> TaskRow] /\ wpc \in [Workers -> WorkerPC]
      /\ wpc[w] \in WorkerPC
  BY DEF TypeOK, TablesTypeOK, WorkerTypeOK
<1> PICK t : TaskOf(w)' = t
  OBVIOUS
<1>1. Has(w, t)'
  BY DEF Has
<1>2. t \in Tasks /\ TaskOf(w)' = t /\ TaskOf(w) = t
  BY <1>1, HadBefore
<1> SUFFICES FitsRow(w, t)'
  BY <1>2 DEF FitsRow, Owns, HasRetryLeft, max_retries
<1>3. CASE Has(w, t) /\ wpc'[w] = wpc[w]
  <2>1. KeepsRow(t) /\ FitsRow(w, t)
    BY <1>2, <1>3, EngagedKeepsRow DEF RecoveryInv, Engagement, Has
  <2> QED BY <1>2, <1>3, <2>1 DEF FitsRow, Owns, KeepsRow, HasRetryLeft, max_retries
<1>4. CASE Has(w, t) /\ GoesOn(w)
  <2>0. FitsRow(w, t)
    BY <1>4 DEF RecoveryInv, Engagement, Has
  <2>1. CASE Complete(w)
    BY <1>0, <1>2, <2>1 DEF Complete, Jump, FitsRow, TaskRow, Executing, Handling, Burying
  <2>2. CASE MarkFailed(w)
    BY <1>0, <1>2, <2>2
       DEF MarkFailed, SetStatus, Jump, FitsRow, TaskRow, Executing, Handling, Stored
  <2>3. CASE MarkBusy(w) \/ ExecuteFails(w) \/ MarkIdle(w) \/ ReadRetries(w)
    <3>1. tasks' = tasks
      BY <2>3 DEF MarkBusy, ExecuteFails, MarkIdle, ReadRetries
    <3>2. \/ wpc[w] = "busy" /\ wpc'[w] = "exec"
          \/ wpc[w] = "exec" /\ wpc'[w] = "fail"
          \/ wpc[w] = "idle" /\ wpc'[w] = "ack"
          \/ wpc[w] = "fail" /\ wpc'[w] = "retry" /\ HasRetryLeft(t)
          \/ wpc[w] = "fail" /\ wpc'[w] = "exhaust" /\ ~HasRetryLeft(t)
      BY <1>0, <1>2, <2>3 DEF MarkBusy, ExecuteFails, MarkIdle, ReadRetries, At, Jump
    <3> QED BY <2>0, <3>1, <3>2 DEF FitsRow, Owns, HasRetryLeft, max_retries,
                                    Executing, Handling, Stored, Burying
  <2>4. CASE MarkIdleAfterFailure(w)
    <3>1. tasks' = tasks /\ wpc[w] = "exhausted" /\ wpc'[w] \in {"bury", "drop"}
      BY <1>0, <1>4, <2>4 DEF MarkIdleAfterFailure, Jump, NextAfterIdle, Has,
         Engaged, Executing, Handling, Stored, Burying
    <3> QED BY <2>0, <3>1 DEF FitsRow, Owns, HasRetryLeft, max_retries,
                              Executing, Handling, Stored, Burying
  <2>5. CASE FailsLate(w)
    <3>1. tasks' = tasks /\ wpc[w] \in Stored /\ wpc'[w] = "fail"
      BY <1>0, <2>5 DEF FailsLate, PersistError, Jump, Stored
    <3> QED BY <2>0, <3>1 DEF FitsRow, Owns, Executing, Handling, Stored, Burying
  <2> QED BY <1>4, <2>1, <2>2, <2>3, <2>4, <2>5 DEF GoesOn
<1>5. CASE ClaimWon(w)
  BY <1>0, <1>2, <1>5 DEF ClaimWon, Jump, FitsRow, Owns, TaskRow,
                          Executing, Handling, Stored, Burying
<1> QED BY <1>1, <1>2, <1>3, <1>4, <1>5, HadBefore

(* Nobody claims a task that a worker is still engaged with.               *)
LEMMA OneEngagedKept ==
    ASSUME Trusting, TypeOK, TypeOK', KnownTasks, RecoveryInv, [Next]_vars
    PROVE  OneEngaged'
<1> SUFFICES ASSUME NEW t \in Tasks, NEW v \in Workers, NEW w \in Workers,
                    Has(v, t)', Has(w, t)'
             PROVE  v = w
  BY DEF OneEngaged
<1>1. \A u \in Workers : Has(u, t) => tasks[t].status # "ENQUEUED"
  BY DEF Has, Engaged, RecoveryInv, Engagement, FitsRow, Owns
<1>2. CASE Has(v, t) /\ Has(w, t)
  BY <1>2 DEF RecoveryInv, OneEngaged
<1>3. CASE ClaimWon(v) /\ ClaimWon(w)
  <2>1. wpc \in [Workers -> WorkerPC] /\ wpc' = [wpc EXCEPT ![v] = "busy"]
        /\ wpc[w] = "claim" /\ wpc'[w] # "claim"
    BY <1>3 DEF ClaimWon, At, Jump, TypeOK, WorkerTypeOK, Has,
                Engaged, Executing, Handling, Stored, Burying
  <2> QED BY <2>1
<1> QED BY <1>1, <1>2, <1>3, HadBefore

(* Nobody becomes engaged with a task except by claiming it.               *)
LEMMA NobodyJoins ==
    ASSUME Trusting, TypeOK, [Next]_vars, NEW t \in Tasks,
           tasks[t].status # "ENQUEUED", \A w \in Workers : ~Has(w, t)
    PROVE  \A w \in Workers : ~Has(w, t)'
BY HadBefore

(* What the monitor holds stays lost.                                      *)
LEMMA StuckAreLostKept ==
    ASSUME Trusting, TypeOK, TypeOK', KnownTasks, RecoveryInv, [Next]_vars
    PROVE  StuckAreLost'
<1> SUFFICES ASSUME NEW s \in Schedulers, NEW r \in stuck'[s]
             PROVE  IsLost(r)' /\ \A x \in stuck'[s] : x.task = r.task => x = r
  BY DEF StuckAreLost
<1>0. /\ r \in StuckRow /\ r.task \in Tasks /\ stuck[s] \subseteq StuckRow
      /\ stuck \in [Schedulers -> SUBSET StuckRow]
  BY DEF TypeOK, MonitorTypeOK, StuckRow
<1>2. CASE stuck'[s] \subseteq stuck[s]
  <2>1. IsLost(r) /\ \A x \in stuck[s] : x.task = r.task => x = r
    BY <1>2 DEF RecoveryInv, StuckAreLost
  <2>2. ASSUME NEW w \in Workers, ByWorker(w, r.task) PROVE FALSE
    BY <2>1, <2>2 DEF ByWorker, IsLost
  <2>3. ASSUME NEW u \in Schedulers, ByMonitor(u, r.task) PROVE FALSE
    <3>1. u = s
      BY DEF Trusting, OneScheduler
    <3> QED BY <2>1, <2>3, <3>1 DEF ByMonitor
  <2>4. KeepsRow(r.task)
    BY <1>0, <2>1, <2>2, <2>3, StartedMoves DEF Ending, IsLost
  <2>5. IsLost(r)'
    BY <1>0, <2>1, <2>4, NobodyJoins DEF IsLost, KeepsRow
  <2> QED BY <1>2, <2>1, <2>5
<1>3. CASE RunMonitor(s) /\ FindStuckTasks(s)
  <2>1. /\ UNCHANGED tasks /\ wpc' = wpc
        /\ stuck'[s] = {[task |-> t, retry_count |-> tasks[t].retry_count,
                         stream_message_id |-> tasks[t].stream_message_id] : t \in StuckTasks}
    BY <1>0, <1>3 DEF FindStuckTasks, RunMonitor, SchedulerAlone
  <2>2. PICK t \in StuckTasks :
           r = [task |-> t, retry_count |-> tasks[t].retry_count,
                stream_message_id |-> tasks[t].stream_message_id]
    BY <2>1
  <2>3. r.task = t /\ r.retry_count = tasks[t].retry_count
    BY <2>2
  <2>4. tasks[t].status = "RUNNING"
    BY <2>2 DEF StuckTasks
  <2>5. \A w \in Workers : ~Has(w, t)
    <3> SUFFICES ASSUME NEW w \in Workers, Has(w, t) PROVE FALSE
      OBVIOUS
    <3>1. tasks[t].worker_id = w /\ wpc[w] # "off"
      BY <2>4 DEF Has, RecoveryInv, Engagement, FitsRow, Owns,
                  Engaged, Executing, Handling, Stored, Burying
    <3>2. workers[w].status = "DEAD"
      BY <2>2, <3>1 DEF StuckTasks
    <3> QED BY <3>1, <3>2 DEF RecoveryInv, LivingAreKnown, At
  <2>6. IsLost(r)'
    BY <1>0, <2>1, <2>3, <2>4, <2>5, NobodyJoins DEF IsLost
  <2> QED BY <2>1, <2>2, <2>6
<1> QED BY <1>2, <1>3, StuckReader

-----------------------------------------------------------------------------
(* No attempt is counted beyond the limit.                                 *)
LEMMA WithinLimitKept ==
    ASSUME TypeOK, KnownTasks, RecoveryInv, [Next]_vars
    PROVE  WithinLimit'
<1> SUFFICES ASSUME NEW t \in Tasks
             PROVE  tasks'[t].retry_count <= max_retries(t)
  BY DEF WithinLimit, max_retries
<1>0. /\ tasks[t].retry_count <= max_retries(t) /\ max_retries(t) \in Nat
      /\ tasks[t].retry_count \in Nat
  BY LimitIsNatural DEF RecoveryInv, WithinLimit, TypeOK, TablesTypeOK, TaskRow
<1>1. CASE NoMove
  BY <1>0, <1>1 DEF NoMove, KeepsRow
<1>2. ASSUME NEW u \in Tasks, OneMove(u) PROVE tasks'[t].retry_count <= max_retries(t)
  <2>1. CASE u = t
    BY <1>0, <1>2, <2>1 DEF OneMove, Dispatching, Claiming, Ending, Completing,
                            GivingBack, GivingUp, Spoiling, SameRetries
  <2>2. CASE u # t
    BY <1>0, <1>2, <2>2 DEF OneMove, KeepsRow
  <2> QED BY <2>1, <2>2
<1>3. ASSUME NEW j \in Jobs, SubmitJob(j) \/ CancelCommit(j)
      PROVE  tasks'[t].retry_count = tasks[t].retry_count
  BY <1>3 DEF SubmitJob, CancelCommit, TypeOK, TablesTypeOK, TaskRow
<1> QED BY <1>0, <1>1, <1>2, <1>3, Writes

(* A FAILED task stays FAILED.                                             *)
LEMMA FailedIsFinal ==
    ASSUME TypeOK, KnownTasks, RecoveryInv, [Next]_vars,
           NEW t \in Tasks, tasks[t].status = "FAILED"
    PROVE  tasks'[t].status = "FAILED"
BY StartedMoves DEF KeepsRow, Ending, Completing, GivingBack, GivingUp, Spoiling, Goes

(* Only a worker that has come to it buries a task.                        *)
LEMMA Gravedigger ==
    ASSUME [Next]_vars
    PROVE  deadLetters' = deadLetters \/ \E w \in Workers : Bury(w)
<1>1. CASE UNCHANGED vars
  BY <1>1 DEF vars
<1>2. ASSUME NEW s \in Schedulers, SchedulerSteps(s) PROVE deadLetters' = deadLetters
  BY <1>2 DEF SchedulerSteps, StartScheduler, SchedulerStart, RunCycle, CycleStep,
         FindReadyTasks, SkipIneligible, EnqueueLost, EnqueueWon, PushMessage,
         StoreMessageId, MarkJobRunning, CheckJobCompletions, SettleJob, EndCycle,
         RunMonitor, MonitorStep, MarkStaleDead, FindStuckTasks, ReapExhausted, ReapReset,
         AckReaped, MonitorDone, TimePasses, WindowElapses, SchedulerFault, CycleError,
         ReapAckError, MonitorError, SchedulerCrash, ProcessEnds
<1>3. ASSUME NEW w \in Workers, WorkerSteps(w) PROVE deadLetters' = deadLetters \/ Bury(w)
  BY <1>3 DEF WorkerSteps, StartWorker, Register, RunWorker, WorkerStep, Poll, ClaimWon,
         ClaimLost, MarkBusy, Complete, ExecuteFails, MarkIdle, Ack, ReadRetries,
         ResetToPending, MarkFailed, MarkIdleAfterFailure, BeatHeart, Heartbeat,
         GoStale, HeartbeatLapse, WorkerFault, WorkerCrash, LoopError, PersistError,
         Deregistration, DeregisterWorker
<1>4. ASSUME NEW j \in Jobs, Request(j) PROVE deadLetters' = deadLetters
  BY <1>4 DEF Request, SubmitJob, CancelCheck, CancelCommit
<1> QED BY <1>1, <1>2, <1>3, <1>4 DEF Next, SchedulerSteps, WorkerSteps

(* Nobody buries a task twice.                                             *)
LEMMA BuriedOnceKept ==
    ASSUME Trusting, TypeOK, TypeOK', KnownTasks, RecoveryInv, [Next]_vars
    PROVE  BuriedOnce'
<1> SUFFICES ASSUME NEW t \in Tasks
             PROVE  /\ deadLetters'[t] <= 1
                    /\ deadLetters'[t] > 0 => /\ tasks'[t].status = "FAILED"
                                              /\ \A w \in Workers : ~Has(w, t)'
  BY DEF BuriedOnce
<1>0. /\ deadLetters \in [Tasks -> Nat] /\ deadLetters[t] <= 1
      /\ deadLetters[t] > 0 => tasks[t].status = "FAILED" /\ \A w \in Workers : ~Has(w, t)
  BY DEF RecoveryInv, BuriedOnce, TypeOK, RedisTypeOK
<1>1. CASE deadLetters'[t] = deadLetters[t]
  BY <1>0, <1>1, FailedIsFinal, NobodyJoins
<1>2. ASSUME NEW w \in Workers, Bury(w), deadLetters'[t] # deadLetters[t]
      PROVE  /\ deadLetters'[t] = 1 /\ tasks'[t].status = "FAILED"
             /\ \A v \in Workers : ~Has(v, t)'
  <2>1. TaskOf(w) = t /\ wpc[w] = "bury" /\ wpc'[w] = "drop"
        /\ deadLetters' = [deadLetters EXCEPT ![t] = @ + 1] /\ tasks' = tasks
    BY <1>0, <1>2 DEF Bury, At, Jump, TypeOK, WorkerTypeOK
  <2>2. Has(w, t) /\ tasks[t].status = "FAILED"
    BY <2>1 DEF Has, Engaged, Burying, RecoveryInv, Engagement, FitsRow
  <2>3. deadLetters[t] = 0
    BY <1>0, <2>2
  <2>4. ASSUME NEW v \in Workers, Has(v, t)' PROVE FALSE
    <3>1. Has(v, t)
      BY <2>2, <2>4, HadBefore
    <3>2. v = w
      BY <2>2, <3>1 DEF RecoveryInv, OneEngaged
    <3> QED BY <2>1, <2>4, <3>2 DEF Has, Engaged, Executing, Handling, Stored, Burying
  <2> QED BY <1>0, <2>1, <2>2, <2>3, <2>4
<1> QED BY <1>1, <1>2, Gravedigger

(* The invariant of recovery is inductive.                                 *)
LEMMA RecoveryInvKept ==
    ASSUME Trusting, TypeOK, TypeOK', KnownTasks, RecoveryInv, [Next]_vars
    PROVE  RecoveryInv'
<1>1. LivingAreKnown'
  BY LivingKept DEF RecoveryInv
<1> QED BY <1>1, EngagementKept, OneEngagedKept, StuckAreLostKept, WithinLimitKept,
           BuriedOnceKept DEF RecoveryInv

(* It holds while the system judges right who is alive.                    *)
THEOREM RecoveryIsSafe == ASSUME Trusting PROVE Spec => []RecoveryInv
<1>1. Init => RecoveryInv
  <2> SUFFICES ASSUME Init PROVE RecoveryInv
    OBVIOUS
  <2>1. WithinLimit
    BY LimitIsNatural DEF Init, TablesInit, AbsentTask, WithinLimit
  <2>2. \A w \in Workers : wpc[w] \notin Engaged
    BY DEF Init, WorkerInit, Engaged, Executing, Handling, Stored, Burying
  <2>3. Engagement /\ OneEngaged
    BY <2>2 DEF Engagement, OneEngaged, Has
  <2>4. LivingAreKnown /\ StuckAreLost
    BY DEF Init, WorkerInit, MonitorInit, LivingAreKnown, StuckAreLost, At
  <2>5. BuriedOnce
    BY DEF Init, RedisInit, BuriedOnce
  <2> QED BY <2>1, <2>3, <2>4, <2>5 DEF RecoveryInv
<1>2. TypeOK /\ TypeOK' /\ KnownTasks /\ RecoveryInv /\ [Next]_vars => RecoveryInv'
  BY RecoveryInvKept
<1> QED BY <1>1, <1>2, TypeCorrect, TasksKnown, PTL DEF Spec

(* OneExecutor: then no task is executed by two workers at once, whatever  *)
(* crashes and whichever call fails.                                       *)
THEOREM OneExecutor == ASSUME Trusting PROVE Spec => []SingleExecutor
<1>1. RecoveryInv => SingleExecutor
  BY DEF RecoveryInv, Engagement, FitsRow, Owns, Engaged, Executing, SingleExecutor, Executors
<1> QED BY <1>1, RecoveryIsSafe, PTL

(* AttemptsAreBounded: no task is claimed more often than max_retries + 1  *)
(* times, however workers and monitor share its failures.                  *)
THEOREM AttemptsAreBounded == ASSUME Trusting PROVE Spec => []AttemptsBounded
<1>1. TypeOK /\ AttemptAccounting /\ RecoveryInv => AttemptsBounded
  <2> SUFFICES ASSUME TypeOK, AttemptAccounting, RecoveryInv, NEW t \in Tasks
               PROVE  claims[t] <= max_retries(t) + 1
    BY DEF AttemptsBounded
  <2>1. /\ claims[t] \in {tasks[t].retry_count, tasks[t].retry_count + 1}
        /\ tasks[t].retry_count <= max_retries(t)
        /\ tasks[t].retry_count \in Nat /\ max_retries(t) \in Nat
    BY LimitIsNatural
       DEF AttemptAccounting, RecoveryInv, WithinLimit, TypeOK, TablesTypeOK, TaskRow
  <2> QED BY <2>1
<1> QED BY <1>1, TypeCorrect, AttemptsCounted, RecoveryIsSafe, PTL

(* DeadLettersTell: what is in the dead-letter stream failed for good and  *)
(* is there once.                                                          *)
THEOREM DeadLettersTell == ASSUME Trusting PROVE Spec => []DeadLettersAreTrue
<1>1. RecoveryInv => DeadLettersAreTrue
  BY DEF RecoveryInv, BuriedOnce, DeadLettersAreTrue
<1> QED BY <1>1, RecoveryIsSafe, PTL

-----------------------------------------------------------------------------
(* What holds when, moreover, no call raises between a stored result and   *)
(* its XACK, which would turn a COMPLETED task without retries into a      *)
(* FAILED one.                                                             *)
Truthful == Trusting /\ "persist_call" \notin FaultKinds

(* Nobody handles the failure of a task whose result is stored.            *)
NoSpoilers ==
    \A w \in Workers : wpc[w] \in Handling => tasks[TaskOf(w)].status = "RUNNING"

(* A row of the ready-task query still has its dependencies COMPLETED.     *)
Fulfilled(t) == \A d \in depends_on(t) : tasks[d].status = "COMPLETED"

BatchIsFulfilled ==
    \A s \in Schedulers : \A r \in batch[s] : Fulfilled(r.task)

(* A verdict that is still to be written is true, and a written one is.    *)
Confirms(j, verdict) ==
    /\ verdict = "COMPLETED" => \A t \in TasksOf(j) : tasks[t].status = "COMPLETED"
    /\ verdict = "FAILED" =>
          /\ \A t \in TasksOf(j) : tasks[t].status \in TerminalTask
          /\ \E t \in TasksOf(j) : tasks[t].status = "FAILED"

IsTrue(r) == jobs[r.job] \notin {"ABSENT", "PENDING"} /\ Confirms(r.job, r.verdict)

VerdictsAreTrue == \A s \in Schedulers : \A r \in completable[s] : IsTrue(r)

TruthInv == NoSpoilers /\ BatchIsFulfilled /\ VerdictsAreTrue /\ VerdictsAreHonest

(* Whoever handles a failure came from an execution.                       *)
LEMMA NoSpoilersKept ==
    ASSUME Truthful, TypeOK, TypeOK', KnownTasks, RecoveryInv, NoSpoilers, [Next]_vars
    PROVE  NoSpoilers'
<1> SUFFICES ASSUME NEW w \in Workers, wpc'[w] \in Handling
             PROVE  (tasks[TaskOf(w)].status = "RUNNING")'
  BY DEF NoSpoilers
<1>0. wpc \in [Workers -> WorkerPC] /\ Trusting
  BY DEF TypeOK, WorkerTypeOK, Truthful
<1> PICK t : TaskOf(w)' = t
  OBVIOUS
<1>1. Has(w, t)'
  BY DEF Has, Engaged
<1>2. t \in Tasks /\ TaskOf(w) = t
  BY <1>0, <1>1, HadBefore
<1>3. CASE Has(w, t) /\ wpc'[w] = wpc[w]
  <2>1. KeepsRow(t) /\ tasks[t].status = "RUNNING"
    BY <1>2, <1>3, EngagedKeepsRow DEF NoSpoilers
  <2> QED BY <2>1 DEF KeepsRow
<1>4. CASE ExecuteFails(w) \/ ReadRetries(w)
  <2>1. UNCHANGED tasks /\ wpc[w] \in {"exec", "fail"}
    BY <1>4 DEF ExecuteFails, ReadRetries, At
  <2> QED BY <1>2, <2>1 DEF NoSpoilers, Handling, Executing, Engaged, RecoveryInv,
                            Engagement, FitsRow, Owns
<1>5. CASE MarkBusy(w) \/ Complete(w) \/ MarkIdle(w) \/ MarkFailed(w) \/ MarkIdleAfterFailure(w)
  BY <1>0, <1>5 DEF MarkBusy, Complete, MarkIdle, MarkFailed, MarkIdleAfterFailure,
                    Jump, NextAfterIdle, Handling
<1>6. ~FailsLate(w)
  BY DEF FailsLate, Truthful
<1>7. CASE ClaimWon(w)
  BY <1>0, <1>7 DEF ClaimWon, Jump, Handling
<1> QED BY <1>0, <1>1, <1>2, <1>3, <1>4, <1>5, <1>6, <1>7, HadBefore DEF GoesOn

(* Then a terminal status is final.                                        *)
LEMMA TerminalIsFinal ==
    ASSUME TypeOK, KnownTasks, RecoveryInv, NoSpoilers, [Next]_vars,
           NEW t \in Tasks, tasks[t].status \in TerminalTask
    PROVE  tasks'[t].status = tasks[t].status
<1>0. ~Spoiling(t)
  BY DEF Spoiling, Goes, At, NoSpoilers, Handling
<1>1. CASE NoMove
  BY <1>1 DEF NoMove, KeepsRow
<1>2. ASSUME NEW u \in Tasks, OneMove(u) PROVE tasks'[t].status = tasks[t].status
  BY <1>0, <1>2 DEF OneMove, Dispatching, Claiming, Ending, Completing, GivingBack,
                    GivingUp, Goes, KeepsRow, TerminalTask
<1>3. ASSUME NEW j \in Jobs, SubmitJob(j) PROVE tasks'[t].status = tasks[t].status
  <2>1. JobOf(t) # j
    BY <1>3 DEF SubmitJob, KnownTasks, Submitted, TerminalTask
  <2> QED BY <1>3, <2>1 DEF SubmitJob
<1>4. ASSUME NEW j \in Jobs, CancelCommit(j) PROVE tasks'[t].status = tasks[t].status
  BY <1>4 DEF CancelCommit, TerminalTask
<1> QED BY <1>1, <1>2, <1>3, <1>4, Writes

(* A dependency that was COMPLETED when a row was read still is.           *)
LEMMA BatchIsFulfilledKept ==
    ASSUME TypeOK, TypeOK', KnownTasks, RecoveryInv, TruthInv, [Next]_vars
    PROVE  BatchIsFulfilled'
<1> SUFFICES ASSUME NEW s \in Schedulers, NEW r \in batch'[s]
             PROVE  Fulfilled(r.task)'
  BY DEF BatchIsFulfilled
<1>1. r.task \in Tasks
  BY DEF TypeOK, SchedulerTypeOK, ReadyRow
<1>2. Fulfilled(r.task)
  BY BatchWriter DEF TruthInv, BatchIsFulfilled, Fulfilled, Ready
<1>3. ASSUME NEW d \in depends_on(r.task) PROVE tasks'[d].status = "COMPLETED"
  BY <1>1, <1>2, DependenciesAreTasks, TerminalIsFinal DEF Fulfilled, TerminalTask, TruthInv
<1> QED BY <1>3 DEF Fulfilled, depends_on

(* A job that was marked RUNNING is not PENDING again.                     *)
LEMMA StartedForGood ==
    ASSUME TypeOK, [Next]_vars, NEW j \in Jobs, jobs[j] \notin {"ABSENT", "PENDING"}
    PROVE  jobs'[j] \notin {"ABSENT", "PENDING"}
<1>1. \A s \in Schedulers : \A r \in completable[s] : r.verdict \in {"COMPLETED", "FAILED"}
  BY DEF TypeOK, SchedulerTypeOK, SettleRow
<1> QED BY <1>1, JobMoves DEF JobMove

(* What confirms a verdict stays.                                          *)
LEMMA ConfirmedForGood ==
    ASSUME TypeOK, KnownTasks, RecoveryInv, TruthInv, [Next]_vars,
           NEW j \in Jobs, NEW verdict, Confirms(j, verdict)
    PROVE  Confirms(j, verdict)'
<1>1. \A t \in TasksOf(j) : t \in Tasks
  BY DEF TasksOf, Tasks
<1>2. \A t \in TasksOf(j) : tasks[t].status \in TerminalTask
                              => tasks'[t].status = tasks[t].status
  BY <1>1, TerminalIsFinal DEF TruthInv
<1> QED BY <1>2 DEF Confirms, TasksOf, TerminalTask

(* A verdict is true until it is written.                                  *)
LEMMA VerdictsAreTrueKept ==
    ASSUME TypeOK, TypeOK', KnownTasks, SkippedIsDecided, RecoveryInv, TruthInv, [Next]_vars
    PROVE  VerdictsAreTrue'
<1> SUFFICES ASSUME NEW s \in Schedulers, NEW r \in completable'[s]
             PROVE  IsTrue(r)'
  BY DEF VerdictsAreTrue
<1>0. r.job \in Jobs /\ \A t \in TasksOf(r.job) : t \in Tasks /\ JobOf(t) = r.job
  BY DEF TypeOK, SchedulerTypeOK, SettleRow, TasksOf, Tasks, JobOf
<1>1. IsTrue(r)
  <2>1. CASE r \in completable[s]
    BY <2>1 DEF TruthInv, VerdictsAreTrue
  <2>2. CASE r.job \in Completable /\ r.verdict = Verdict(r.job)
    <3>1. jobs[r.job] = "RUNNING" /\ \A t \in TasksOf(r.job) : tasks[t].status \in TerminalTask
      BY <2>2 DEF Completable
    <3>2. \A t \in TasksOf(r.job) : tasks[t].status # "SKIPPED"
      BY <1>0, <3>1 DEF SkippedIsDecided, TerminalJob
    <3> QED BY <2>2, <3>1, <3>2 DEF IsTrue, Confirms, Verdict, TerminalTask
  <2> QED BY <2>1, <2>2, CompletableWriter
<1>2. jobs'[r.job] \notin {"ABSENT", "PENDING"}
  BY <1>0, <1>1, StartedForGood DEF IsTrue
<1>3. Confirms(r.job, r.verdict)'
  BY <1>0, <1>1, ConfirmedForGood DEF IsTrue
<1> QED BY <1>2, <1>3 DEF IsTrue

(* And it is still true after it was written.                              *)
LEMMA VerdictsAreHonestKept ==
    ASSUME TypeOK, TypeOK', KnownTasks, RecoveryInv, TruthInv, [Next]_vars
    PROVE  VerdictsAreHonest'
<1>1. VerdictsAreHonest <=> \A j \in Jobs : Confirms(j, jobs[j])
  BY DEF VerdictsAreHonest, Confirms
<1>2. VerdictsAreHonest' <=> \A j \in Jobs : Confirms(j, jobs[j])'
  BY DEF VerdictsAreHonest, Confirms, TasksOf
<1> SUFFICES ASSUME NEW j \in Jobs PROVE Confirms(j, jobs[j])'
  BY <1>2
<1> PICK verdict : jobs'[j] = verdict
  OBVIOUS
<1> SUFFICES verdict \in {"COMPLETED", "FAILED"} => Confirms(j, verdict)'
  BY DEF Confirms, TasksOf
<1>3. CASE verdict = jobs[j]
  BY <1>1, <1>3, ConfirmedForGood DEF TruthInv
<1>4. ASSUME NEW s \in Schedulers, NEW r \in completable[s], r.job = j, verdict = r.verdict
      PROVE  Confirms(j, verdict)'
  <2>1. Confirms(j, verdict)
    BY <1>4 DEF TruthInv, VerdictsAreTrue, IsTrue
  <2> QED BY <2>1, ConfirmedForGood
<1> QED BY <1>3, <1>4, JobMoves DEF JobMove

(* The invariant is inductive.                                             *)
LEMMA TruthInvKept ==
    ASSUME Truthful, TypeOK, TypeOK', KnownTasks, SkippedIsDecided, RecoveryInv, TruthInv,
           [Next]_vars
    PROVE  TruthInv'
BY NoSpoilersKept, BatchIsFulfilledKept, VerdictsAreTrueKept, VerdictsAreHonestKept DEF TruthInv

(* It holds while no late failure spoils a result.                         *)
THEOREM TruthIsKept == ASSUME Truthful PROVE Spec => []TruthInv
<1>1. Init => TruthInv
  BY DEF Init, TablesInit, SchedulerInit, WorkerInit, TruthInv, NoSpoilers, Handling,
         BatchIsFulfilled, VerdictsAreTrue, VerdictsAreHonest
<1>2. TypeOK /\ TypeOK' /\ KnownTasks /\ ReportInv /\ RecoveryInv /\ TruthInv /\ [Next]_vars
         => TruthInv'
  BY TruthInvKept DEF ReportInv
<1>3. Spec => []RecoveryInv
  BY RecoveryIsSafe DEF Truthful
<1> QED BY <1>1, <1>2, <1>3, TypeCorrect, TasksKnown, ReportsKept, PTL DEF Spec

(* HonestVerdicts: what a job reads is true of its tasks, for ever.        *)
THEOREM HonestVerdicts == ASSUME Truthful PROVE Spec => []VerdictsAreHonest
<1>1. TruthInv => VerdictsAreHonest
  BY DEF TruthInv
<1> QED BY <1>1, TruthIsKept, PTL

-----------------------------------------------------------------------------
(* What TaskLifecycle sees of the tables.                                  *)
Status == [t \in Tasks |-> tasks[t].status]
Retries == [t \in Tasks |-> tasks[t].retry_count]

(* Its operators, under the refinement mapping.                            *)
LEMMA MappedSets ==
    /\ Lifecycle!Task = Tasks
    /\ \A j : Lifecycle!Of(j) = TasksOf(j)
    /\ \A t : Lifecycle!Prerequisites(t) = depends_on(t)
    /\ Lifecycle!Done = TerminalTask
BY DEF Lifecycle!Task, Tasks, Lifecycle!Of, TasksOf, Lifecycle!Prerequisites, depends_on,
       JobOf, StageOf, Lifecycle!Done, TerminalTask

(* A step that keeps all rows is not seen; one that moves the row of one   *)
(* task is seen as that move.                                              *)
LEMMA Unseen ==
    ASSUME NoMove
    PROVE  Status' = Status /\ Retries' = Retries
BY DEF NoMove, KeepsRow, Status, Retries

LEMMA SeenStatus ==
    ASSUME NEW t \in Tasks, \A u \in Tasks : u # t => KeepsRow(u),
           NEW from, NEW to, Goes(t, from, to)
    PROVE  Status[t] = from /\ Status' = [Status EXCEPT ![t] = to]
BY DEF KeepsRow, Goes, Status

LEMMA SeenRetries ==
    ASSUME NEW t \in Tasks, \A u \in Tasks : u # t => KeepsRow(u)
    PROVE  /\ SameRetries(t) => Retries' = Retries
           /\ tasks'[t].retry_count = tasks[t].retry_count + 1
                 => Retries' = [Retries EXCEPT ![t] = @ + 1]
BY DEF KeepsRow, SameRetries, Retries

(* Every move of a task is a move of TaskLifecycle.                        *)
LEMMA TaskRefines ==
    ASSUME TruthInv, NEW t \in Tasks, OneMove(t)
    PROVE  Lifecycle!Next
<1>0. UNCHANGED jobs /\ \A u \in Tasks : u # t => KeepsRow(u)
  BY DEF OneMove
<1>1. CASE Dispatching(t)
  <2>1. \A d \in depends_on(t) : Status[d] = "COMPLETED"
    BY <1>1, DependenciesAreTasks
       DEF Dispatching, TruthInv, BatchIsFulfilled, Fulfilled, Status
  <2>2. /\ Status[t] = "PENDING" /\ Status' = [Status EXCEPT ![t] = "ENQUEUED"]
        /\ Retries' = Retries
    BY <1>0, <1>1, SeenStatus, SeenRetries DEF Dispatching
  <2>3. Lifecycle!Queue(t)
    BY <1>0, <2>1, <2>2, MappedSets DEF Lifecycle!Queue, Lifecycle!Move, Status, Retries
  <2> QED BY <2>3, MappedSets DEF Lifecycle!Next
<1>2. CASE Claiming(t)
  <2>1. /\ Status[t] = "ENQUEUED" /\ Status' = [Status EXCEPT ![t] = "RUNNING"]
        /\ Retries' = Retries
    BY <1>0, <1>2, SeenStatus, SeenRetries DEF Claiming
  <2>2. Lifecycle!Start(t)
    BY <1>0, <2>1 DEF Lifecycle!Start, Lifecycle!Move, Status, Retries
  <2> QED BY <2>2, MappedSets DEF Lifecycle!Next
<1>3. CASE Completing(t)
  <2>1. /\ Status[t] = "RUNNING" /\ Status' = [Status EXCEPT ![t] = "COMPLETED"]
        /\ Retries' = Retries
    BY <1>0, <1>3, SeenStatus, SeenRetries DEF Completing
  <2>2. Lifecycle!Finish(t)
    BY <1>0, <2>1 DEF Lifecycle!Finish, Lifecycle!Move, Status, Retries
  <2> QED BY <2>2, MappedSets DEF Lifecycle!Next
<1>4. CASE GivingBack(t)
  <2>1. Lifecycle!Retry(t)
    BY <1>0, <1>4, SeenStatus, SeenRetries
       DEF GivingBack, Lifecycle!Retry, Lifecycle!Move, Status, Retries, max_retries, StageOf
  <2> QED BY <2>1, MappedSets DEF Lifecycle!Next
<1>5. CASE GivingUp(t)
  <2>1. /\ Status[t] = "RUNNING" /\ Status' = [Status EXCEPT ![t] = "FAILED"]
        /\ Retries' = Retries
    BY <1>0, <1>5, SeenStatus, SeenRetries DEF GivingUp
  <2>2. Retries[t] = MAX_RETRIES_BY_STAGE[t[2]]
    BY <1>5 DEF GivingUp, Retries, max_retries, StageOf
  <2>3. Lifecycle!Fail(t)
    BY <1>0, <2>1, <2>2 DEF Lifecycle!Fail, Lifecycle!Move, Status, Retries
  <2> QED BY <2>3, MappedSets DEF Lifecycle!Next
<1>6. ~Spoiling(t)
  BY DEF Spoiling, Goes, At, TruthInv, NoSpoilers, Handling
<1> QED BY <1>1, <1>2, <1>3, <1>4, <1>5, <1>6 DEF OneMove, Ending

(* So are the submission and the cancellation of a job.                    *)
LEMMA RequestRefines ==
    ASSUME TypeOK, MeaningInv, NEW j \in Jobs, SubmitJob(j) \/ CancelCommit(j)
    PROVE  Lifecycle!Next
<1>0. /\ tasks \in [Tasks -> TaskRow]
      /\ \A t \in Tasks : t \in TasksOf(j) <=> JobOf(t) = j
  BY DEF TypeOK, TablesTypeOK, Tasks, TasksOf, JobOf
<1>1. CASE SubmitJob(j)
  <2>1. Status' = [t \in Tasks |-> IF t \in TasksOf(j) THEN "PENDING" ELSE Status[t]]
    BY <1>0, <1>1 DEF SubmitJob, Status, TaskRow
  <2>2. Retries' = Retries
    BY <1>0, <1>1 DEF SubmitJob, Retries, TaskRow
  <2>3. Lifecycle!Submit(j)
    BY <1>1, <2>1, <2>2, MappedSets DEF SubmitJob, Lifecycle!Submit, Status, Retries
  <2> QED BY <2>3 DEF Lifecycle!Next
<1>2. CASE CancelCommit(j)
  <2>1. Status' = [t \in Tasks |->
           IF t \in TasksOf(j) /\ Status[t] \in {"PENDING", "ENQUEUED"}
           THEN "SKIPPED" ELSE Status[t]]
    BY <1>0, <1>2 DEF CancelCommit, Status, TaskRow
  <2>2. Retries' = Retries
    BY <1>0, <1>2 DEF CancelCommit, Retries, TaskRow
  <2>3. jobs[j] # "ABSENT"
    BY <1>2 DEF CancelCommit, MeaningInv, CancelsKnown
  <2>4. Lifecycle!Cancel(j)
    BY <1>2, <2>1, <2>2, <2>3, MappedSets DEF CancelCommit, Lifecycle!Cancel, Status, Retries
  <2> QED BY <2>4 DEF Lifecycle!Next
<1> QED BY <1>1, <1>2

(* And what the scheduler writes of a job.                                 *)
LEMMA JobRefines ==
    ASSUME TypeOK, MeaningInv, TruthInv,
           NEW s \in Schedulers, MarkJobRunning(s) \/ SettleJob(s)
    PROVE  Lifecycle!Next \/ UNCHANGED <<jobs, Status, Retries>>
<1>0. UNCHANGED <<Status, Retries>>
  BY DEF MarkJobRunning, SettleJob, Status, Retries
<1>1. CASE MarkJobRunning(s)
  <2>1. PICK t \in Tasks : t = current[s]
    BY <1>1 DEF MarkJobRunning, TypeOK, SchedulerTypeOK
  <2> DEFINE j == JobOf(t)
  <2>2. j \in Jobs /\ t \in TasksOf(j) /\ Dispatched(t)
    BY <2>1, NoTaskAssumption
       DEF Tasks, JobOf, TasksOf, MeaningInv, HeldWasDispatched
  <2>3. jobs' = [jobs EXCEPT ![j] = Started(@)]
    BY <1>1, <2>1 DEF MarkJobRunning
  <2>4. CASE jobs[j] # "PENDING"
    BY <1>0, <2>3, <2>4 DEF Started, TypeOK, TablesTypeOK
  <2>5. CASE jobs[j] = "PENDING"
    <3>1. jobs' = [jobs EXCEPT ![j] = "RUNNING"]
      BY <2>3, <2>5 DEF Started
    <3>2. Status[t] # "PENDING" \/ Retries[t] > 0
      BY <2>2 DEF Dispatched, Status, Retries
    <3>3. Lifecycle!JobStarts(j)
      BY <1>0, <2>2, <2>5, <3>1, <3>2, MappedSets DEF Lifecycle!JobStarts, Status, Retries
    <3> QED BY <2>2, <3>3 DEF Lifecycle!Next
  <2> QED BY <2>4, <2>5
<1>2. CASE SettleJob(s)
  <2>1. PICK r \in completable[s] : jobs' = [jobs EXCEPT ![r.job] = r.verdict]
    BY <1>2 DEF SettleJob
  <2>2. r.job \in Jobs /\ r.verdict \in {"COMPLETED", "FAILED"} /\ IsTrue(r)
    BY DEF TypeOK, SchedulerTypeOK, SettleRow, TruthInv, VerdictsAreTrue
  <2>3. \A t \in TasksOf(r.job) : t \in Tasks /\ Status[t] = tasks[t].status
    BY <2>2 DEF TasksOf, Tasks, Status
  <2>4. Lifecycle!Settle(r.job)
    BY <1>0, <2>1, <2>2, <2>3, MappedSets DEF Lifecycle!Settle, IsTrue, Confirms, Status, Retries
  <2> QED BY <2>2, <2>4 DEF Lifecycle!Next
<1> QED BY <1>1, <1>2

(* Who writes a job.                                                       *)
LEMMA JobWriter ==
    ASSUME [Next]_vars
    PROVE  \/ UNCHANGED jobs
           \/ \E s \in Schedulers : MarkJobRunning(s) \/ SettleJob(s)
           \/ \E j \in Jobs : SubmitJob(j) \/ CancelCommit(j)
<1>1. CASE UNCHANGED vars
  BY <1>1 DEF vars
<1>2. ASSUME NEW s \in Schedulers, SchedulerSteps(s)
      PROVE  UNCHANGED jobs \/ MarkJobRunning(s) \/ SettleJob(s)
  BY <1>2 DEF SchedulerSteps, StartScheduler, SchedulerStart, RunCycle, CycleStep,
         FindReadyTasks, SkipIneligible, EnqueueLost, EnqueueWon, PushMessage,
         StoreMessageId, CheckJobCompletions, EndCycle, RunMonitor, MonitorStep,
         MarkStaleDead, FindStuckTasks, ReapExhausted, ReapReset, AckReaped, MonitorDone,
         TimePasses, WindowElapses, SchedulerFault, CycleError, ReapAckError,
         MonitorError, SchedulerCrash, ProcessEnds
<1>3. ASSUME NEW w \in Workers, WorkerSteps(w) PROVE UNCHANGED jobs
  BY <1>3 DEF WorkerSteps, StartWorker, Register, RunWorker, WorkerStep, Poll, ClaimWon,
         ClaimLost, MarkBusy, Complete, ExecuteFails, MarkIdle, Ack, ReadRetries,
         ResetToPending, MarkFailed, MarkIdleAfterFailure, Bury, BeatHeart, Heartbeat,
         GoStale, HeartbeatLapse, WorkerFault, WorkerCrash, LoopError, PersistError,
         Deregistration, DeregisterWorker
<1>4. ASSUME NEW j \in Jobs, Request(j)
      PROVE  UNCHANGED jobs \/ SubmitJob(j) \/ CancelCommit(j)
  BY <1>4 DEF Request, CancelCheck
<1> QED BY <1>1, <1>2, <1>3, <1>4 DEF Next, SchedulerSteps, WorkerSteps

(* Every step is a step of TaskLifecycle, or not seen.                     *)
LEMMA StepRefines ==
    ASSUME TypeOK, MeaningInv, RecoveryInv, TruthInv, [Next]_vars
    PROVE  Lifecycle!Next \/ UNCHANGED <<jobs, Status, Retries>>
<1>1. ASSUME NEW t \in Tasks, OneMove(t) PROVE Lifecycle!Next
  BY <1>1, TaskRefines
<1>2. ASSUME NEW j \in Jobs, SubmitJob(j) \/ CancelCommit(j) PROVE Lifecycle!Next
  BY <1>2, RequestRefines
<1>3. ASSUME NEW s \in Schedulers, MarkJobRunning(s) \/ SettleJob(s)
      PROVE  Lifecycle!Next \/ UNCHANGED <<jobs, Status, Retries>>
  BY <1>3, JobRefines
<1>4. CASE NoMove /\ UNCHANGED jobs
  BY <1>4, Unseen
<1> QED BY <1>1, <1>2, <1>3, <1>4, Writes, JobWriter

(* As long as the system judges right who is alive, every behaviour of it, *)
(* with any crashes and failing calls, is a behaviour of TaskLifecycle.    *)
THEOREM TheLifecycleIsKept == ASSUME Truthful PROVE Spec => ImplementsLifecycle
<1>1. Init => Lifecycle!Init
  BY MappedSets DEF Init, TablesInit, AbsentTask, Lifecycle!Init
<1>2. TypeOK /\ MeaningInv /\ RecoveryInv /\ TruthInv /\ [Next]_vars
         => [Lifecycle!Next]_(Lifecycle!lifecycle)
  BY StepRefines DEF Lifecycle!lifecycle, Status, Retries
<1>3. Spec => []RecoveryInv
  BY RecoveryIsSafe DEF Truthful
<1> QED BY <1>1, <1>2, <1>3, TypeCorrect, StatusesMean, TruthIsKept, PTL
        DEF Spec, ImplementsLifecycle, Lifecycle!Spec

-----------------------------------------------------------------------------
(* The verdicts of one scheduler.  A job whose verdict it holds is still   *)
(* RUNNING, or cancelled since; no other writer touches it.                *)
OneVerdictEach ==
    \A s \in Schedulers : \A r \in completable[s] :
       /\ jobs[r.job] \in {"RUNNING", "CANCELLED"}
       /\ \A x \in completable[s] : x.job = r.job => x = r

(* What a step writes of a job, when its status was no longer PENDING.     *)
LEMMA StartedJobs ==
    ASSUME OneScheduler, TypeOK, MeaningInv, [Next]_vars,
           NEW j \in Jobs, jobs[j] \notin {"ABSENT", "PENDING"}
    PROVE  \/ jobs'[j] = jobs[j]
           \/ jobs'[j] = "CANCELLED"
           \/ \E s \in Schedulers : \E r \in completable[s] :
                 r.job = j /\ SettleJob(s) /\ r \notin completable'[s]
<1> DEFINE Goal == \/ jobs'[j] = jobs[j]
                   \/ jobs'[j] = "CANCELLED"
                   \/ \E s \in Schedulers : \E r \in completable[s] :
                         r.job = j /\ SettleJob(s) /\ r \notin completable'[s]
<1>0. jobs \in [Jobs -> JobStatus] /\ completable \in [Schedulers -> SUBSET SettleRow]
  BY DEF TypeOK, TablesTypeOK, SchedulerTypeOK
<1>1. CASE UNCHANGED jobs
  BY <1>1
<1>2. ASSUME NEW s \in Schedulers, MarkJobRunning(s) PROVE Goal
  BY <1>0, <1>2 DEF MarkJobRunning, Started
<1>3. ASSUME NEW s \in Schedulers, SettleJob(s) PROVE Goal
  <2>1. PICK r \in completable[s] : /\ jobs' = [jobs EXCEPT ![r.job] = r.verdict]
                                   /\ completable' = [completable EXCEPT ![s] = @ \ {r}]
    BY <1>3 DEF SettleJob
  <2>2. r.job # j => jobs'[j] = jobs[j]
    BY <1>0, <2>1
  <2> QED BY <1>0, <1>3, <2>1, <2>2
<1>4. ASSUME NEW i \in Jobs, SubmitJob(i) \/ CancelCommit(i) PROVE Goal
  BY <1>0, <1>4 DEF SubmitJob, CancelCommit
<1> QED BY <1>1, <1>2, <1>3, <1>4, JobWriter

(* The invariant is inductive.                                             *)
LEMMA OneVerdictEachKept ==
    ASSUME OneScheduler, TypeOK, TypeOK', MeaningInv, OneVerdictEach, [Next]_vars
    PROVE  OneVerdictEach'
<1> SUFFICES ASSUME NEW s \in Schedulers, NEW r \in completable'[s]
             PROVE  /\ jobs'[r.job] \in {"RUNNING", "CANCELLED"}
                    /\ \A x \in completable'[s] : x.job = r.job => x = r
  BY DEF OneVerdictEach
<1>0. r.job \in Jobs /\ completable'[s] \subseteq SettleRow
  BY DEF TypeOK, SchedulerTypeOK, SettleRow
<1>1. \/ completable'[s] \subseteq completable[s]
      \/ completable'[s] = Verdicts /\ UNCHANGED <<tasks, jobs>>
  BY CompletableReader
<1>2. CASE completable'[s] \subseteq completable[s]
  <2>1. /\ jobs[r.job] \in {"RUNNING", "CANCELLED"}
        /\ \A x \in completable[s] : x.job = r.job => x = r
    BY <1>2 DEF OneVerdictEach
  <2>2. ASSUME NEW u \in Schedulers, NEW x \in completable[u],
               x.job = r.job, x \notin completable'[u]
        PROVE  FALSE
    BY <2>1, <2>2 DEF OneScheduler
  <2> QED BY <1>0, <1>2, <2>1, <2>2, StartedJobs
<1>3. CASE completable'[s] = Verdicts /\ UNCHANGED <<tasks, jobs>>
  BY <1>3 DEF Verdicts, Completable
<1> QED BY <1>1, <1>2, <1>3

(* VerdictsAreKept: the scheduler never replaces a verdict by another,     *)
(* whatever workers, monitor and faults do to the tasks afterwards.        *)
THEOREM VerdictsAreKept == ASSUME OneScheduler PROVE Spec => VerdictsStand
<1>1. Init => OneVerdictEach
  BY DEF Init, SchedulerInit, OneVerdictEach
<1>2. TypeOK /\ TypeOK' /\ MeaningInv /\ OneVerdictEach /\ [Next]_vars => OneVerdictEach'
  BY OneVerdictEachKept
<1>3. TypeOK /\ MeaningInv /\ OneVerdictEach /\ [Next]_vars
         => [\A j \in Jobs : jobs[j] \in {"COMPLETED", "FAILED"}
                               => jobs'[j] \in {jobs[j], "CANCELLED"}]_vars
  <2> SUFFICES ASSUME TypeOK, MeaningInv, OneVerdictEach, [Next]_vars,
                      NEW j \in Jobs, jobs[j] \in {"COMPLETED", "FAILED"}
               PROVE  jobs'[j] \in {jobs[j], "CANCELLED"}
    OBVIOUS
  <2> QED BY StartedJobs DEF OneVerdictEach
<1> QED BY <1>1, <1>2, <1>3, TypeCorrect, StatusesMean, PTL DEF Spec, VerdictsStand

(* OnlyCancellationsRace: without a cancellation, the terminal status of a *)
(* job is final: the race that MCCancelRace shows is the only one.         *)
THEOREM OnlyCancellationsRace ==
    ASSUME OneScheduler, MaxCancels = 0
    PROVE  Spec => FinalJobIsFinal
<1> DEFINE Uncancelled == \A j \in Jobs : cancels[j] = 0 /\ jobs[j] # "CANCELLED"
<1>0. ASSUME TypeOK, NEW s \in Schedulers, NEW r \in completable[s]
      PROVE  r.verdict # "CANCELLED"
  BY <1>0 DEF TypeOK, SchedulerTypeOK, SettleRow
<1>1. Init => Uncancelled
  BY DEF Init, TablesInit, ApiInit
<1>2. TypeOK /\ TypeOK' /\ Uncancelled /\ [Next]_vars => Uncancelled'
  <2> SUFFICES ASSUME TypeOK, TypeOK', Uncancelled, [Next]_vars, NEW j \in Jobs
               PROVE  cancels'[j] = 0 /\ jobs'[j] # "CANCELLED"
    OBVIOUS
  <2>1. cancels'[j] = 0
    BY CancelWriter DEF TypeOK, ApiTypeOK
  <2>2. jobs'[j] # "CANCELLED"
    BY <1>0, JobMoves DEF JobMove
  <2> QED BY <2>1, <2>2
<1>3. Uncancelled /\ Uncancelled'
         /\ [\A j \in Jobs : jobs[j] \in {"COMPLETED", "FAILED"}
                               => jobs'[j] \in {jobs[j], "CANCELLED"}]_vars
         => [\A j \in Jobs : jobs[j] \in TerminalJob => jobs'[j] = jobs[j]]_vars
  BY DEF TerminalJob
<1> QED BY <1>1, <1>2, <1>3, TypeCorrect, VerdictsAreKept, PTL
        DEF Spec, VerdictsStand, FinalJobIsFinal
=============================================================================
