----------------------------- MODULE ReadProofs -----------------------------
(***************************************************************************)
(* Proofs about what the API reports, for any constants and faults.  An    *)
(* answer about a job is read in two steps; the proof names what a status  *)
(* says of the tasks and shows that it stays true, whatever happens before *)
(* the tasks are read.                                                     *)
(***************************************************************************)
EXTENDS JobReads, QueueDepths, SystemProofs, FiniteSetTheorems

USE DEF tableVars, redisVars, schedulerVars, monitorVars, workerVars

-----------------------------------------------------------------------------
(* Facts about tasks that no step undoes.                                  *)
Settled(t) == tasks[t].status \in TerminalTask

Dispatched(t) ==
    /\ Submitted(t)
    /\ tasks[t].status # "PENDING" \/ tasks[t].retry_count > 0

NotFirst(t) ==
    /\ Submitted(t)
    /\ tasks[t].status \in {"PENDING", "ENQUEUED"} => tasks[t].retry_count > 0

(* What the status st of job j says of its tasks.                          *)
Means(j, st) ==
    /\ st \in {"COMPLETED", "FAILED"} => \A t \in TasksOf(j) : Settled(t)
    /\ st = "RUNNING" => \E t \in TasksOf(j) : Dispatched(t)
    /\ st = "CANCELLED" => \A t \in TasksOf(j) : NotFirst(t)

(* No step undoes them.                                                    *)
LEMMA FactsStay ==
    ASSUME TypeOK, TypeOK', KnownTasks, [Next]_vars, NEW t \in Tasks
    PROVE  /\ Settled(t) => Settled(t)'
           /\ Dispatched(t) => Dispatched(t)'
           /\ NotFirst(t) => NotFirst(t)'
<1>1. TaskMove(t) /\ tasks[t].retry_count \in Nat
  BY TaskMoves, RetriesGrow
<1>2. Settled(t) => Settled(t)'
  BY TerminalForGood DEF Settled
<1>3. Submitted(t) => Submitted(t)'
  BY SubmittedForGood
<1>4. Dispatched(t) => Dispatched(t)'
  BY <1>1, <1>3 DEF Dispatched, Submitted, TaskMove, Stays, IsSubmitted, IsQueued,
         IsClaimed, IsReset, IsCompleted, IsFailed, IsSkipped, Moves, KeepsAttempts
<1>5. NotFirst(t) => NotFirst(t)'
  BY <1>1, <1>3 DEF NotFirst, Submitted, TaskMove, Stays, IsSubmitted, IsQueued,
         IsClaimed, IsReset, IsCompleted, IsFailed, IsSkipped, Moves, KeepsAttempts
<1> QED BY <1>2, <1>4, <1>5

(* So what a status says stays true, also when the status changes.         *)
LEMMA MeaningStays ==
    ASSUME TypeOK, TypeOK', KnownTasks, [Next]_vars, NEW j \in Jobs, NEW st, Means(j, st)
    PROVE  Means(j, st)'
<1>1. \A t \in TasksOf(j) : t \in Tasks
  BY DEF TasksOf, Tasks
<1> QED BY <1>1, FactsStay DEF Means, TasksOf

-----------------------------------------------------------------------------
(* What makes the status of a job mean this when it is written.            *)
JobsMean == \A j \in Jobs : Means(j, jobs[j])

WholeJobs == \A j \in Jobs : jobs[j] # "ABSENT" => \A t \in TasksOf(j) : Submitted(t)

CancelsKnown == \A j \in Jobs : cancels[j] > 0 => jobs[j] # "ABSENT"

HeldWasDispatched ==
    /\ \A s \in Schedulers : current[s] # NoTask => Dispatched(current[s])
    /\ \A s \in Schedulers : \A r \in stuck[s] : Dispatched(r.task)

VerdictIsSettled ==
    \A s \in Schedulers : \A r \in completable[s] :
       jobs[r.job] # "ABSENT" /\ \A t \in TasksOf(r.job) : Settled(t)

MeaningInv ==
    JobsMean /\ WholeJobs /\ CancelsKnown /\ HeldWasDispatched /\ VerdictIsSettled

(* A job that exists is not forgotten.                                     *)
LEMMA JobsStay ==
    ASSUME TypeOK, [Next]_vars, NEW j \in Jobs, jobs[j] # "ABSENT"
    PROVE  jobs'[j] # "ABSENT"
<1>1. \A s \in Schedulers : \A r \in completable[s] : r.verdict # "ABSENT"
  BY DEF TypeOK, SchedulerTypeOK, SettleRow
<1> QED BY <1>1, JobMoves DEF JobMove

(* A cancellation passes the check of jobs.py:243 on a job that exists.    *)
LEMMA CancelWriter ==
    ASSUME TypeOK, [Next]_vars, NEW j \in Jobs, cancels'[j] > 0
    PROVE  cancels[j] > 0 \/ (jobs[j] # "ABSENT" /\ 0 < MaxCancels)
<1>0. cancels \in [Jobs -> Nat] /\ MaxCancels \in Nat
  BY MaxCancelsAssumption DEF TypeOK, ApiTypeOK
<1>1. CASE UNCHANGED cancels
  BY <1>1
<1>2. ASSUME NEW i \in Jobs, Request(i) PROVE cancels[j] > 0 \/ (jobs[j] # "ABSENT" /\ 0 < MaxCancels)
  <2>1. CASE SubmitJob(i)
    BY <1>1, <2>1 DEF SubmitJob
  <2>2. CASE CancelCheck(i)
    BY <1>0, <2>2 DEF CancelCheck
  <2>3. CASE CancelCommit(i)
    BY <1>0, <2>3 DEF CancelCommit
  <2> QED BY <1>2, <2>1, <2>2, <2>3 DEF Request
<1>3. ASSUME NEW s \in Schedulers, SchedulerSteps(s) PROVE UNCHANGED cancels
  BY <1>3 DEF SchedulerSteps, StartScheduler, RunCycle, RunMonitor, TimePasses,
              SchedulerFault, SchedulerAlone
<1>4. ASSUME NEW w \in Workers,
             \/ StartWorker(w) \/ RunWorker(w) \/ BeatHeart(w)
             \/ GoStale(w) \/ WorkerFault(w) \/ Deregistration(w)
      PROVE  UNCHANGED cancels
  BY <1>4 DEF StartWorker, RunWorker, BeatHeart, GoStale, WorkerFault, WorkerAlone,
              Deregistration, DeregisterWorker
<1>5. CASE UNCHANGED vars
  BY <1>1, <1>5 DEF vars
<1> QED BY <1>1, <1>2, <1>3, <1>4, <1>5 DEF Next, SchedulerSteps

(* The invariant on the meaning of statuses is inductive.                  *)
LEMMA MeaningInvKept ==
    ASSUME TypeOK, TypeOK', KnownTasks, MeaningInv, [Next]_vars
    PROVE  MeaningInv'
<1>0. \A j \in Jobs : \A t \in TasksOf(j) : t \in Tasks
  BY DEF TasksOf, Tasks
<1>1. HeldWasDispatched'
  <2>1. ASSUME NEW s \in Schedulers, current'[s] # NoTask PROVE Dispatched(current[s])'
    <3>0. current'[s] \in Tasks /\ current[s] \in Tasks \cup {NoTask}
      BY <2>1 DEF TypeOK, SchedulerTypeOK
    <3>1. CASE current'[s] = current[s]
      BY <2>1, <3>0, <3>1, FactsStay DEF MeaningInv, HeldWasDispatched, Dispatched, Submitted
    <3>2. CASE tasks'[current'[s]].status = "ENQUEUED"
      BY <3>2 DEF Dispatched, Submitted
    <3>3. CASE \E r \in stuck[s] : current'[s] = r.task
      <4>1. Dispatched(current'[s])
        BY <3>3 DEF MeaningInv, HeldWasDispatched
      <4> QED BY <3>0, <4>1, FactsStay DEF Dispatched, Submitted
    <3> QED BY <2>1, <3>1, <3>2, <3>3, CurrentWriter
  <2>2. ASSUME NEW s \in Schedulers, NEW r \in stuck'[s] PROVE Dispatched(r.task)'
    <3>1. r.task \in Tasks
      BY DEF TypeOK, MonitorTypeOK, StuckRow
    <3>2. Dispatched(r.task)
      BY StuckWriter DEF MeaningInv, HeldWasDispatched, Dispatched, Submitted
    <3> QED BY <3>1, <3>2, FactsStay
  <2> QED BY <2>1, <2>2 DEF HeldWasDispatched
<1>2. VerdictIsSettled'
  <2> SUFFICES ASSUME NEW s \in Schedulers, NEW r \in completable'[s]
               PROVE  jobs'[r.job] # "ABSENT" /\ \A t \in TasksOf(r.job) : Settled(t)'
    BY DEF VerdictIsSettled, TasksOf
  <2>1. r.job \in Jobs
    BY DEF TypeOK, SchedulerTypeOK, SettleRow
  <2>2. jobs[r.job] # "ABSENT" /\ \A t \in TasksOf(r.job) : Settled(t)
    BY <2>1, CompletableWriter DEF MeaningInv, VerdictIsSettled, Completable, Settled
  <2> QED BY <1>0, <2>1, <2>2, JobsStay, FactsStay
<1>3. WholeJobs'
  <2> SUFFICES ASSUME NEW j \in Jobs, jobs'[j] # "ABSENT", NEW t \in TasksOf(j)
               PROVE  Submitted(t)'
    BY DEF WholeJobs, TasksOf
  <2>1. CASE jobs[j] # "ABSENT"
    BY <1>0, <2>1, SubmittedForGood DEF MeaningInv, WholeJobs
  <2>2. CASE jobs[j] = "ABSENT"
    BY <2>2, JobMoves DEF JobMove, MeaningInv, CancelsKnown, VerdictIsSettled
  <2> QED BY <2>1, <2>2
<1>4. CancelsKnown'
  BY CancelWriter, JobsStay DEF MeaningInv, CancelsKnown
<1>5. JobsMean'
  <2> SUFFICES ASSUME NEW j \in Jobs PROVE Means(j, jobs[j])'
    BY DEF JobsMean
  <2>a. \A t \in TasksOf(j) : t \in Tasks /\ t # NoTask
    BY <1>0, NoTaskAssumption
  <2>1. CASE jobs'[j] = jobs[j]
    BY <2>1, MeaningStays DEF MeaningInv, JobsMean, Means, TasksOf, Settled, Dispatched, NotFirst,
       Submitted
  <2>2. CASE jobs'[j] = "PENDING"
    BY <2>2 DEF Means
  <2>3. CASE jobs'[j] = "RUNNING" /\ \E s \in Schedulers : current[s] \in TasksOf(j)
    <3>1. PICK s \in Schedulers : current[s] \in TasksOf(j)
      BY <2>3
    <3>2. \E t \in TasksOf(j) : Dispatched(t)'
      BY <2>a, <3>1, FactsStay DEF MeaningInv, HeldWasDispatched
    <3> QED BY <2>3, <3>2 DEF Means, TasksOf
  <2>4. ASSUME NEW s \in Schedulers, NEW r \in completable[s],
               r.job = j, jobs'[j] = r.verdict
        PROVE  Means(j, jobs[j])'
    <3>1. r.verdict \in {"COMPLETED", "FAILED"}
      BY DEF TypeOK, SchedulerTypeOK, SettleRow
    <3>2. \A t \in TasksOf(j) : Settled(t)'
      BY <2>a, <2>4, FactsStay DEF MeaningInv, VerdictIsSettled
    <3> QED BY <2>4, <3>1, <3>2 DEF Means, TasksOf
  <2>5. CASE /\ jobs'[j] = "CANCELLED" /\ cancels[j] > 0
             /\ \A t \in TasksOf(j) : tasks'[t].status \notin {"PENDING", "ENQUEUED"}
    <3>1. \A t \in TasksOf(j) : Submitted(t)'
      BY <2>a, <2>5, SubmittedForGood DEF MeaningInv, CancelsKnown, WholeJobs
    <3> QED BY <2>5, <3>1 DEF Means, NotFirst, TasksOf
  <2> QED BY <2>1, <2>2, <2>3, <2>4, <2>5, JobMoves DEF JobMove
<1> QED BY <1>1, <1>2, <1>3, <1>4, <1>5 DEF MeaningInv

(* The status of a job says at any time what it said when it was written.  *)
THEOREM StatusesMean == Spec => []MeaningInv
<1>1. Init => MeaningInv
  BY DEF Init, TablesInit, SchedulerInit, MonitorInit, ApiInit, MeaningInv, JobsMean,
         Means, WholeJobs, CancelsKnown, HeldWasDispatched, VerdictIsSettled
<1>2. TypeOK /\ TypeOK' /\ KnownTasks /\ MeaningInv /\ [Next]_vars => MeaningInv'
  BY MeaningInvKept
<1> QED BY <1>1, <1>2, TypeCorrect, TasksKnown, PTL DEF Spec
-----------------------------------------------------------------------------
(* The requests that read jobs leave the system as it is.                  *)
LEMMA ReadersOnlyRead == ReadSpec => Spec
<1>1. ReadInit => Init
  BY DEF ReadInit
<1>2. [ReadNext]_readVars => [Next]_vars
  BY DEF ReadNext, ReadJobs, ReadTasks, readVars
<1> QED BY <1>1, <1>2, PTL DEF ReadSpec, Spec

(* What was read of a job's row still holds of its tasks.                  *)
PageInv ==
    \A j \in DOMAIN page :
       j \in Jobs /\ \E st \in JobStatus :
          page[j] = [status |-> st, rows |-> NoRows] /\ Means(j, st)

(* The invariant on pages is inductive.                                    *)
LEMMA PageInvKept ==
    ASSUME TypeOK, TypeOK', KnownTasks, MeaningInv, PageInv, [ReadNext]_readVars
    PROVE  PageInv'
<1>0. [Next]_vars
  BY DEF ReadNext, ReadJobs, ReadTasks, readVars
<1> SUFFICES ASSUME NEW j \in DOMAIN page'
             PROVE  j \in Jobs /\ \E st \in JobStatus :
                       page'[j] = [status |-> st, rows |-> NoRows] /\ Means(j, st)'
  BY DEF PageInv
<1>1. CASE j \in DOMAIN page /\ page'[j] = page[j]
  <2>1. PICK st \in JobStatus : page[j] = [status |-> st, rows |-> NoRows] /\ Means(j, st)
    BY <1>1 DEF PageInv
  <2>2. j \in Jobs
    BY <1>1 DEF PageInv
  <2>3. Means(j, st)'
    BY <1>0, <2>1, <2>2, MeaningStays
  <2> QED BY <1>1, <2>1, <2>2, <2>3
<1>2. ASSUME NEW S \in SUBSET Existing, ReadJobs(S)
      PROVE  j \in Jobs /\ \E st \in JobStatus :
                page'[j] = [status |-> st, rows |-> NoRows] /\ Means(j, st)'
  <2>1. j \in S /\ j \in Jobs /\ jobs[j] \in JobStatus
    BY <1>2 DEF ReadJobs, Existing, TypeOK, TablesTypeOK
  <2>2. page'[j] = [status |-> jobs[j], rows |-> NoRows]
    BY <1>2, <2>1 DEF ReadJobs, Fetch, NoEntry
  <2>3. Means(j, jobs[j])
    BY <2>1 DEF MeaningInv, JobsMean
  <2>4. UNCHANGED vars
    BY <1>2 DEF ReadJobs
  <2>5. PICK st \in JobStatus : st = jobs[j]
    BY <2>1
  <2>6. Means(j, st)'
    BY <1>0, <2>1, <2>3, <2>5, MeaningStays
  <2> QED BY <2>1, <2>2, <2>5, <2>6
<1>3. ASSUME NEW i \in Jobs, ReadTasks(i) PROVE j \in DOMAIN page /\ page'[j] = page[j]
  BY <1>3 DEF ReadTasks
<1>4. CASE UNCHANGED page
  BY <1>1, <1>4
<1> QED BY <1>1, <1>2, <1>3, <1>4 DEF ReadNext, readVars

(* An entry whose status means what it says fits the rows of the moment.   *)
LEMMA MeaningFits ==
    ASSUME NEW j \in Jobs, NEW st \in JobStatus, Means(j, st),
           page[j] = [status |-> st, rows |-> NoRows]
    PROVE  Fits(JobResponse(j))
<1> DEFINE e == JobResponse(j)
<1>1. e = [status |-> st, rows |-> TaskRows(j)]
  BY DEF JobResponse, Fetch
<1>2. DOMAIN TaskRows(j) = TasksOf(j)
  BY DEF TaskRows
<1>3. \A t \in TasksOf(j) : /\ TaskRows(j)[t].status = tasks[t].status
                            /\ TaskRows(j)[t].retry_count = tasks[t].retry_count
  BY DEF TaskRows
<1> QED BY <1>1, <1>2, <1>3 DEF Fits, Means, Settled, Dispatched, NotFirst

(* No answer of GET /api/jobs or /api/jobs/{id} contradicts itself.        *)
THEOREM JobAnswersAreWhole == ReadSpec => AnswersAreWhole
<1> DEFINE A == \A j \in DOMAIN page : j \notin DOMAIN page' => Fits(JobResponse(j))
<1>1. ReadInit => PageInv
  BY DEF ReadInit, PageInv, NoRows
<1>2. TypeOK /\ TypeOK' /\ KnownTasks /\ MeaningInv /\ PageInv /\ [ReadNext]_readVars
         => PageInv'
  BY PageInvKept
<1>3. PageInv => A
  BY MeaningFits DEF PageInv
<1>4. PageInv => [A]_readVars
  BY <1>3
<1> QED BY <1>1, <1>2, <1>4, ReadersOnlyRead, TypeCorrect, TasksKnown, StatusesMean, PTL
        DEF ReadSpec, AnswersAreWhole

-----------------------------------------------------------------------------
(* What is pending was delivered, and what was delivered is in the stream. *)
PendingWasDelivered == \A e \in pel : e[2] \in 1 .. cursor[e[1]]

(* Who writes the PEL and the cursor of the group.                         *)
LEMMA GroupWriter ==
    ASSUME [Next]_vars
    PROVE  \/ pel' \subseteq pel /\ UNCHANGED cursor
           \/ \E w \in Workers : Poll(w)
<1>1. CASE UNCHANGED vars
  BY <1>1 DEF vars
<1>2. ASSUME NEW s \in Schedulers, SchedulerSteps(s)
      PROVE  pel' \subseteq pel /\ UNCHANGED cursor
  BY <1>2 DEF SchedulerSteps, StartScheduler, SchedulerStart, RunCycle, CycleStep,
         FindReadyTasks, SkipIneligible, EnqueueLost, EnqueueWon, PushMessage,
         StoreMessageId, MarkJobRunning, CheckJobCompletions, SettleJob, EndCycle,
         RunMonitor, MonitorStep, MarkStaleDead, FindStuckTasks, ReapExhausted, ReapReset,
         AckReaped, XAck, MonitorDone, TimePasses, WindowElapses, SchedulerFault,
         CycleError, ReapAckError, MonitorError, SchedulerCrash, ProcessEnds
<1>3. ASSUME NEW w \in Workers,
             \/ StartWorker(w) \/ RunWorker(w) \/ BeatHeart(w)
             \/ GoStale(w) \/ WorkerFault(w) \/ Deregistration(w)
      PROVE  (pel' \subseteq pel /\ UNCHANGED cursor) \/ Poll(w)
  BY <1>3 DEF StartWorker, Register, RunWorker, WorkerStep, ClaimWon, ClaimLost,
         MarkBusy, Complete, ExecuteFails, MarkIdle, Ack, XAck, ReadRetries,
         ResetToPending, MarkFailed, MarkIdleAfterFailure, Bury, BeatHeart, Heartbeat,
         GoStale, HeartbeatLapse, WorkerFault, WorkerCrash, LoopError, PersistError,
         Deregistration, DeregisterWorker
<1>4. ASSUME NEW j \in Jobs, Request(j) PROVE pel' \subseteq pel /\ UNCHANGED cursor
  BY <1>4 DEF Request, SubmitJob, CancelCheck, CancelCommit
<1> QED BY <1>1, <1>2, <1>3, <1>4 DEF Next, SchedulerSteps

(* The PEL never holds more messages of a stream than were delivered.      *)
LEMMA PelInvKept ==
    ASSUME TypeOK, PendingWasDelivered, [Next]_vars
    PROVE  PendingWasDelivered'
<1>0. cursor \in [Streams -> Nat] /\ pel \subseteq Streams \X Nat
  BY DEF TypeOK, RedisTypeOK
<1>1. CASE pel' \subseteq pel /\ UNCHANGED cursor
  BY <1>1 DEF PendingWasDelivered
<1>2. ASSUME NEW w \in Workers, Poll(w) PROVE PendingWasDelivered'
  <2> DEFINE q == Serves[w]
  <2>1. /\ q \in Streams
        /\ cursor' = [cursor EXCEPT ![q] = @ + 1]
        /\ pel' = pel \cup {<<q, cursor[q] + 1>>}
    BY <1>2, ServesAssumption DEF Poll, XReadGroup
  <2> SUFFICES ASSUME NEW e \in pel' PROVE e[2] \in 1 .. cursor'[e[1]]
    BY DEF PendingWasDelivered
  <2>2. CASE e \in pel
    <3>1. e[1] \in Streams /\ e[2] \in Nat /\ e[2] \in 1 .. cursor[e[1]]
      BY <1>0, <2>2 DEF PendingWasDelivered
    <3>2. cursor'[e[1]] \in Nat /\ cursor'[e[1]] >= cursor[e[1]]
      BY <1>0, <2>1, <3>1
    <3>3. cursor[e[1]] \in Nat
      BY <1>0, <3>1
    <3> QED BY <3>1, <3>2, <3>3
  <2>3. CASE e = <<q, cursor[q] + 1>>
    BY <1>0, <2>1, <2>3
  <2> QED BY <2>1, <2>2, <2>3
<1> QED BY <1>1, <1>2, GroupWriter

(* What the group has pending of a stream was delivered from it, in every  *)
(* behaviour of the system.                                                *)
THEOREM PelInv == Spec => []PendingWasDelivered
<1>1. Init => PendingWasDelivered
  BY DEF Init, RedisInit, PendingWasDelivered
<1>2. TypeOK /\ PendingWasDelivered /\ [Next]_vars => PendingWasDelivered'
  BY PelInvKept
<1> QED BY <1>1, <1>2, TypeCorrect, PTL DEF Spec

(* So XPENDING never counts more messages than XLEN.                       *)
LEMMA PendingFits ==
    ASSUME TypeOK, PendingWasDelivered, NEW q \in Streams
    PROVE  Pending(q) \in Nat /\ Len(log[q]) \in Nat /\ Pending(q) <= Len(log[q])
<1> DEFINE n == cursor[q]
           P == {e \in pel : e[1] = q}
<1>1. n \in Nat /\ Len(log[q]) \in Nat /\ n <= Len(log[q]) /\ pel \subseteq Streams \X Nat
  BY DEF TypeOK, RedisTypeOK
<1>2. P \subseteq {q} \X (1 .. n)
  BY <1>1 DEF PendingWasDelivered
<1>3. IsFiniteSet(1 .. n) /\ Cardinality(1 .. n) = n
  <2>1. \A m \in Nat : IsFiniteSet(1 .. m) /\ Cardinality(1 .. m) = m
    <3> TAKE m \in Nat
    <3>1. Cardinality(1 .. m) = IF 1 > m THEN 0 ELSE m - 1 + 1
      BY FS_Interval
    <3> QED BY <3>1, FS_Interval
  <2> QED BY <1>1, <2>1
<1>4. IsFiniteSet({q}) /\ Cardinality({q}) = 1
  BY FS_Singleton
<1>5. IsFiniteSet({q} \X (1 .. n)) /\ Cardinality({q} \X (1 .. n)) = 1 * n
  BY <1>3, <1>4, FS_Product
<1>6. IsFiniteSet(P) /\ Cardinality(P) <= Cardinality({q} \X (1 .. n))
  BY <1>2, <1>5, FS_Subset
<1>7. Cardinality(P) \in Nat
  BY <1>6, FS_CardinalityType
<1> QED BY <1>1, <1>5, <1>6, <1>7 DEF Pending

(* Streams only grow.                                                      *)
LEMMA LogGrows ==
    ASSUME TypeOK, [Next]_vars, NEW q \in Streams
    PROVE  Len(log[q]) \in Nat /\ Len(log'[q]) \in Nat /\ Len(log[q]) <= Len(log'[q])
<1>1. log \in [Streams -> Seq(Tasks)]
  BY DEF TypeOK, RedisTypeOK
<1>2. CASE log' = log
  BY <1>1, <1>2
<1>3. ASSUME NEW s \in Schedulers, PushMessage(s)
      PROVE  Len(log'[q]) \in Nat /\ Len(log[q]) <= Len(log'[q])
  <2>1. log' = [log EXCEPT ![StreamOf(current[s])] = Append(@, current[s])]
        /\ current[s] \in Tasks
    BY <1>3 DEF PushMessage, XAdd, TypeOK, SchedulerTypeOK
  <2>2. Append(log[q], current[s]) \in Seq(Tasks)
        /\ Len(Append(log[q], current[s])) = Len(log[q]) + 1
    BY <1>1, <2>1
  <2>3. log'[q] = log[q] \/ log'[q] = Append(log[q], current[s])
    BY <1>1, <2>1
  <2> QED BY <1>1, <2>2, <2>3
<1> QED BY <1>1, <1>2, <1>3, LogWriter

-----------------------------------------------------------------------------
(* Reporting on the queues changes nothing in the system.                  *)
LEMMA ReportsOnlyRead == DepthSpec => Spec
<1>1. DepthInit => Init
  BY DEF DepthInit
<1>2. [DepthNext]_depthVars => [Next]_vars
  BY DEF DepthNext, SystemStep, StartSnapshot, SnapshotStep, SampleLength, RecordSample,
         GetQueueDepths, Next, depthVars
<1> QED BY <1>1, <1>2, PTL DEF DepthSpec, Spec

(* An entry in hand counts no more messages than its stream has.           *)
IsCounted(q) ==
    \E n \in Nat : /\ depths = [r \in {q} |-> [total_messages |-> 0, pending_ack |-> n]]
                   /\ n <= Len(log[q])

EntryInv == depths = None \/ \E q \in Streams : IsCounted(q)

(* The invariant on a report of the queues is inductive.                   *)
LEMMA EntryInvKept ==
    ASSUME TypeOK, PendingWasDelivered, EntryInv, [DepthNext]_depthVars
    PROVE  EntryInv'
<1>0. [Next]_vars
  BY DEF DepthNext, SystemStep, StartSnapshot, SnapshotStep, SampleLength, RecordSample,
         GetQueueDepths, Next, depthVars
<1>1. CASE UNCHANGED depths
  <2>1. ASSUME NEW q \in Streams, IsCounted(q) PROVE IsCounted(q)'
    <3>1. PICK n \in Nat : /\ depths = [r \in {q} |-> [total_messages |-> 0, pending_ack |-> n]]
                           /\ n <= Len(log[q])
      BY <2>1 DEF IsCounted
    <3>2. n <= Len(log'[q])
      BY <1>0, <3>1, LogGrows
    <3> QED BY <1>1, <3>1, <3>2 DEF IsCounted
  <2> QED BY <1>1, <2>1 DEF EntryInv
<1>2. ASSUME NEW q \in Streams, GetQueueDepths(q) PROVE EntryInv'
  <2>1. CASE depths' = None
    BY <2>1 DEF EntryInv
  <2>2. CASE depths' = [r \in {q} |-> Measure(1, r, Unread)]
    <3>1. Measure(1, q, Unread) = [total_messages |-> 0, pending_ack |-> Pending(q)]
      BY DEF Measure, ReadPending, Unread
    <3>2. depths' = [r \in {q} |-> [total_messages |-> 0, pending_ack |-> Pending(q)]]
      BY <2>2, <3>1
    <3>3. Pending(q) \in Nat /\ Pending(q) <= Len(log[q]) /\ log' = log
      BY <1>2, PendingFits DEF GetQueueDepths, vars
    <3>4. PICK n \in Nat : n = Pending(q)
      BY <3>3
    <3> QED BY <3>2, <3>3, <3>4 DEF EntryInv, IsCounted
  <2> QED BY <1>2, <2>1, <2>2 DEF GetQueueDepths
<1>3. UNCHANGED depths \/ \E q \in Streams : GetQueueDepths(q)
  BY DEF DepthNext, SystemStep, StartSnapshot, SnapshotStep, SampleLength, RecordSample,
         depthVars
<1> QED BY <1>1, <1>2, <1>3

(* GET /api/queues never reports more messages waiting for their XACK than *)
(* there are.                                                              *)
THEOREM DepthReportsAreConsistent == DepthSpec => DepthsAreConsistent
<1> DEFINE A == \A q \in DOMAIN depths : q \notin DOMAIN depths'
                   => DepthEntry(q).pending_ack <= DepthEntry(q).total_messages
<1>1. DepthInit => EntryInv
  BY DEF DepthInit, EntryInv
<1>2. TypeOK /\ PendingWasDelivered /\ EntryInv /\ [DepthNext]_depthVars => EntryInv'
  BY EntryInvKept
<1>3. EntryInv => A
  <2> SUFFICES ASSUME EntryInv, NEW q \in DOMAIN depths
               PROVE  DepthEntry(q).pending_ack <= DepthEntry(q).total_messages
    OBVIOUS
  <2>a. depths # None
    BY DEF None
  <2>b. PICK p \in Streams : IsCounted(p)
    BY <2>a DEF EntryInv
  <2>c. q = p
    BY <2>b DEF IsCounted
  <2>1. IsCounted(q)
    BY <2>b, <2>c
  <2>2. PICK n \in Nat : /\ depths[q] = [total_messages |-> 0, pending_ack |-> n]
                         /\ n <= Len(log[q])
    BY <2>1 DEF IsCounted
  <2>3. DepthEntry(q) = [total_messages |-> Len(log[q]), pending_ack |-> n]
    BY <2>2 DEF DepthEntry, Measure, ReadLength
  <2> QED BY <2>2, <2>3
<1>4. EntryInv => [A]_depthVars
  BY <1>3
<1> QED BY <1>1, <1>2, <1>4, ReportsOnlyRead, TypeCorrect, PelInv, PTL
        DEF DepthSpec, DepthsAreConsistent

-----------------------------------------------------------------------------
(* A single scheduler, as docker-compose.yml starts it.                    *)
OneScheduler == \A r, s \in Schedulers : r = s

(* While a snapshot is taken, the scheduler is between two cycles, and the *)
(* length that was read of a stream is still its length.                   *)
SampleIsCurrent(s, q) ==
    /\ q \in todo[s]
    /\ sample[s] = [r \in {q} |-> [total_messages |-> Len(log[q]), pending_ack |-> 0]]

SampleInv ==
    /\ todo \in [Schedulers -> SUBSET Streams]
    /\ sample = [s \in Schedulers |-> sample[s]]
    /\ \A s \in Schedulers :
          /\ todo[s] # {} => spc[s] = "idle"
          /\ sample[s] = None \/ \E q \in Streams : SampleIsCurrent(s, q)

(* The invariant on snapshots is inductive under a single scheduler.       *)
LEMMA SampleInvKept ==
    ASSUME OneScheduler, TypeOK, SampleInv, [DepthNext]_depthVars
    PROVE  SampleInv'
<1>0. DOMAIN sample = Schedulers
  BY DEF SampleInv
<1>1. CASE UNCHANGED depthVars
  BY <1>1 DEF SampleInv, SampleIsCurrent, depthVars, vars
<1>2. CASE SystemStep
  <2>1. /\ todo' \in [Schedulers -> SUBSET Streams]
        /\ sample' = [s \in Schedulers |-> sample'[s]]
    BY <1>2 DEF SystemStep, SampleInv
  <2>2. ASSUME NEW s \in Schedulers
        PROVE  /\ todo'[s] # {} => spc'[s] = "idle"
               /\ sample'[s] = None \/ \E q \in Streams : SampleIsCurrent(s, q)'
    <3>1. CASE spc'[s] = "off"
      BY <1>2, <3>1 DEF SystemStep
    <3>2. CASE spc'[s] # "off" /\ todo[s] = {}
      BY <1>2, <3>2 DEF SystemStep, SampleInv, SampleIsCurrent
    <3>3. CASE spc'[s] # "off" /\ todo[s] # {}
      <4>1. spc[s] = "idle" /\ spc'[s] = "idle" /\ todo'[s] = todo[s] /\ sample'[s] = sample[s]
        BY <1>2, <3>3 DEF SystemStep, Awaits, SampleInv
      <4>2. \A u \in Schedulers : ~PushMessage(u)
        BY <4>1 DEF OneScheduler, PushMessage
      <4>3. log' = log
        BY <1>2, <4>2, LogWriter DEF SystemStep
      <4>4. ASSUME NEW q \in Streams, SampleIsCurrent(s, q) PROVE SampleIsCurrent(s, q)'
        BY <4>1, <4>3, <4>4 DEF SampleIsCurrent
      <4>5. sample[s] = None \/ \E q \in Streams : SampleIsCurrent(s, q)
        BY DEF SampleInv
      <4> QED BY <4>1, <4>4, <4>5
    <3> QED BY <3>1, <3>2, <3>3
  <2> QED BY <2>1, <2>2 DEF SampleInv
<1>3. ASSUME NEW u \in Schedulers, StartSnapshot(u) PROVE SampleInv'
  <2>1. spc[u] = "settle" /\ spc' = [spc EXCEPT ![u] = "idle"] /\ UNCHANGED sample
        /\ todo' = [todo EXCEPT ![u] = Streams]
    BY <1>3 DEF StartSnapshot, EndCycle, Goto
  <2>2. sample[u] = None
    BY <2>1 DEF SampleInv, SampleIsCurrent
  <2>3. \A s \in Schedulers : s = u
    BY DEF OneScheduler
  <2>4. spc'[u] = "idle"
    BY <2>1 DEF TypeOK, SchedulerTypeOK
  <2> QED BY <2>1, <2>2, <2>3, <2>4 DEF SampleInv
<1>4. ASSUME NEW u \in Schedulers, NEW q \in Streams, SampleLength(u, q) PROVE SampleInv'
  <2>1. /\ q \in todo[u] /\ UNCHANGED <<spc, log, todo>>
        /\ sample' = [sample EXCEPT ![u] = [r \in {q} |-> ReadLength(r, Unread)]]
    BY <1>4 DEF SampleLength, vars
  <2>2. ReadLength(q, Unread) = [total_messages |-> Len(log[q]), pending_ack |-> 0]
    BY DEF ReadLength, Unread
  <2>3. sample'[u] = [r \in {q} |-> [total_messages |-> Len(log'[q]), pending_ack |-> 0]]
    BY <1>0, <2>1, <2>2
  <2>4. SampleIsCurrent(u, q)'
    BY <2>1, <2>3 DEF SampleIsCurrent
  <2>5. \A s \in Schedulers : s = u
    BY DEF OneScheduler
  <2>6. sample' = [s \in Schedulers |-> sample'[s]]
    BY <1>0, <2>1
  <2> QED BY <2>1, <2>4, <2>5, <2>6 DEF SampleInv
<1>5. ASSUME NEW u \in Schedulers, NEW q \in Streams, RecordSample(u, q) PROVE SampleInv'
  <2>1. /\ UNCHANGED <<spc, log>> /\ sample' = [sample EXCEPT ![u] = None]
        /\ todo' = [todo EXCEPT ![u] = @ \ {q}]
    BY <1>5 DEF RecordSample, vars
  <2>2. \A s \in Schedulers : s = u
    BY DEF OneScheduler
  <2>3. sample'[u] = None /\ sample' = [s \in Schedulers |-> sample'[s]]
    BY <1>0, <2>1
  <2>4. todo' \in [Schedulers -> SUBSET Streams]
    BY <2>1 DEF SampleInv
  <2> QED BY <2>1, <2>2, <2>3, <2>4 DEF SampleInv
<1>6. ASSUME NEW q \in Streams, GetQueueDepths(q) PROVE SampleInv'
  BY <1>6 DEF GetQueueDepths, SampleInv, SampleIsCurrent, vars
<1> QED BY <1>1, <1>2, <1>3, <1>4, <1>5, <1>6 DEF DepthNext, SnapshotStep

(* With one scheduler, a snapshot never records more messages pending than *)
(* the length it shows.                                                    *)
THEOREM SnapshotsAreConsistent ==
    ASSUME OneScheduler PROVE DepthSpec => SnapshotIsConsistent
<1> DEFINE A == \A s \in Schedulers : \A q \in DOMAIN sample[s] : sample'[s] = None
                   => Recorded(s, q).pending_ack <= Recorded(s, q).total_messages
<1>1. DepthInit => SampleInv
  BY DEF DepthInit, SampleInv
<1>2. TypeOK /\ SampleInv /\ [DepthNext]_depthVars => SampleInv'
  BY SampleInvKept
<1>3. TypeOK /\ PendingWasDelivered /\ SampleInv => A
  <2> SUFFICES ASSUME TypeOK, PendingWasDelivered, SampleInv,
                      NEW s \in Schedulers, NEW q \in DOMAIN sample[s]
               PROVE  Recorded(s, q).pending_ack <= Recorded(s, q).total_messages
    OBVIOUS
  <2>1. sample[s] # None
    BY DEF None
  <2>2. PICK p \in Streams : SampleIsCurrent(s, p)
    BY <2>1 DEF SampleInv
  <2>3. q = p /\ sample[s][q] = [total_messages |-> Len(log[q]), pending_ack |-> 0]
    BY <2>2 DEF SampleIsCurrent
  <2>4. Recorded(s, q) = [total_messages |-> Len(log[q]), pending_ack |-> Pending(q)]
    BY <2>3 DEF Recorded, ReadPending
  <2> QED BY <2>3, <2>4, PendingFits
<1>4. TypeOK /\ PendingWasDelivered /\ SampleInv => [A]_depthVars
  BY <1>3
<1> QED BY <1>1, <1>2, <1>4, ReportsOnlyRead, TypeCorrect, PelInv, PTL
        DEF DepthSpec, SnapshotIsConsistent
=============================================================================
