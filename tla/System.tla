------------------------------- MODULE System -------------------------------
(***************************************************************************)
(* The whole system: schedulers with their heartbeat monitors, workers and *)
(* the API, over one PostgreSQL and one Redis.  Every interleaving of      *)
(* their statements is a behaviour.                                        *)
(*                                                                         *)
(* What goes wrong is counted: at most MaxFaults faults happen, each of a  *)
(* kind in FaultKinds:                                                     *)
(*   worker_crash     a worker process dies                                *)
(*   worker_call      a call raises outside the try block of a worker      *)
(*   persist_call     a call raises after a result was stored              *)
(*   scheduler_crash  a scheduler process dies                             *)
(*   scheduler_call   a call raises in a scheduler cycle or in the monitor *)
(*   lapse            no heartbeat of a living worker arrives in time      *)
(*   deregister       a client calls DELETE /api/workers                   *)
(* Failures of execute() are ordinary behaviour and not counted.           *)
(***************************************************************************)
EXTENDS HeartbeatMonitor, Worker, JobsApi

CONSTANTS
    FaultKinds,     \* the kinds of fault that may happen
    MaxFaults       \* bound: how many happen in a behaviour

AllFaults == {"worker_crash", "worker_call", "persist_call", "scheduler_crash",
              "scheduler_call", "lapse", "deregister"}

ASSUME FaultAssumption == FaultKinds \subseteq AllFaults /\ MaxFaults \in Nat

VARIABLE faults     \* number of faults so far

vars == <<tableVars, redisVars, monitorVars, workerVars, cancels, faults>>

Init ==
    /\ TablesInit
    /\ RedisInit
    /\ SchedulerInit
    /\ MonitorInit
    /\ WorkerInit
    /\ ApiInit
    /\ faults = 0

Fault(kind) ==
    /\ kind \in FaultKinds
    /\ faults < MaxFaults
    /\ faults' = faults + 1

-----------------------------------------------------------------------------
(* Steps of one process leave the local variables of the others alone.     *)
SchedulerAlone == UNCHANGED workerVars /\ UNCHANGED cancels
WorkerAlone == UNCHANGED monitorVars /\ UNCHANGED cancels
ApiAlone == UNCHANGED monitorVars /\ UNCHANGED workerVars

RunCycle(s) ==
    CycleStep(s) /\ UNCHANGED stuck /\ SchedulerAlone /\ UNCHANGED faults

RunMonitor(s) == MonitorStep(s) /\ SchedulerAlone /\ UNCHANGED faults

StartScheduler(s) ==
    SchedulerStart(s) /\ UNCHANGED stuck /\ SchedulerAlone /\ UNCHANGED faults

TimePasses(s) ==
    /\ \E t \in Tasks : WindowElapses(s, t)
    /\ UNCHANGED stuck /\ SchedulerAlone /\ UNCHANGED faults

SchedulerFault(s) ==
    /\ SchedulerAlone
    /\ \/ CycleError(s) /\ UNCHANGED stuck /\ Fault("scheduler_call")
       \/ ReapAckError(s) /\ Fault("scheduler_call")
       \/ MonitorError(s) /\ Fault("scheduler_call")
       \/ SchedulerCrash(s) /\ Fault("scheduler_crash")

RunWorker(w) == WorkerStep(w) /\ WorkerAlone /\ UNCHANGED faults

StartWorker(w) == Register(w) /\ WorkerAlone /\ UNCHANGED faults

BeatHeart(w) == Heartbeat(w) /\ WorkerAlone /\ UNCHANGED faults

(* Without a process there is no heartbeat: no fault is needed for that.   *)
GoStale(w) == HeartbeatLapse(w) /\ At(w, "off") /\ WorkerAlone /\ UNCHANGED faults

WorkerFault(w) ==
    /\ WorkerAlone
    /\ \/ WorkerCrash(w) /\ Fault("worker_crash")
       \/ LoopError(w) /\ Fault("worker_call")
       \/ PersistError(w) /\ Fault("persist_call")
       \/ HeartbeatLapse(w) /\ ~At(w, "off") /\ Fault("lapse")

Request(j) ==
    /\ SubmitJob(j) \/ CancelCheck(j) \/ CancelCommit(j)
    /\ ApiAlone /\ UNCHANGED faults

Deregistration(w) ==
    DeregisterWorker(w) /\ ApiAlone /\ Fault("deregister")

Next ==
    \/ \E s \in Schedulers :
          \/ StartScheduler(s) \/ RunCycle(s) \/ RunMonitor(s)
          \/ TimePasses(s) \/ SchedulerFault(s)
    \/ \E w \in Workers :
          \/ StartWorker(w) \/ RunWorker(w) \/ BeatHeart(w)
          \/ GoStale(w) \/ WorkerFault(w) \/ Deregistration(w)
    \/ \E j \in Jobs : Request(j)

Spec == Init /\ [][Next]_vars

-----------------------------------------------------------------------------
(* Fairness.  Processes run, and are started again when they ended (the    *)
(* operator's part: compose gives them no restart policy).  main() runs a  *)
(* cycle and, every now and then, the monitor: both again and again, hence *)
(* strong fairness for each.  Time passes in every sleep.  Heartbeats of   *)
(* living workers arrive; those of dead workers end.  RunWorker includes   *)
(* execute(): it ends some time, with a result or an exception, and        *)
(* nothing is assumed of which.  Nothing is assumed of the API and of      *)
(* faults either.                                                          *)
SchedulerFairness(s) ==
    /\ WF_vars(StartScheduler(s))
    /\ WF_vars(RunCycle(s) \/ RunMonitor(s))
    /\ SF_vars(RunCycle(s) /\ spc[s] = "idle")
    /\ SF_vars(RunMonitor(s) /\ spc[s] = "idle")
    /\ \A t \in Tasks :
          SF_vars(WindowElapses(s, t) /\ UNCHANGED stuck
                  /\ SchedulerAlone /\ UNCHANGED faults)

WorkerFairness(w) ==
    /\ WF_vars(StartWorker(w))
    /\ WF_vars(RunWorker(w))
    /\ WF_vars(BeatHeart(w))
    /\ WF_vars(GoStale(w))

Fairness ==
    /\ \A s \in Schedulers : SchedulerFairness(s)
    /\ \A w \in Workers : WorkerFairness(w)

FairSpec == Spec /\ Fairness

-----------------------------------------------------------------------------
(* TypeOK: every table, stream and local variable holds values of its      *)
(* type; a worker that processes a message holds one it was given.         *)
TypeOK ==
    /\ TablesTypeOK
    /\ RedisTypeOK
    /\ SchedulerTypeOK
    /\ MonitorTypeOK
    /\ WorkerTypeOK
    /\ ApiTypeOK
    /\ faults \in Nat

(* AttemptAccounting: retry_count counts exactly the claims that have been *)
(* given up.  Whatever crashes, expires or races, no reset is counted      *)
(* twice for one claim (base_worker.py:344, heartbeat_monitor.py:88) and   *)
(* none is forgotten, because both resets apply to RUNNING only and only   *)
(* an ENQUEUED task is claimed (base_worker.py:185).                       *)
AttemptAccounting ==
    \A t \in Tasks :
       LET row == tasks[t] IN
       /\ row.status \in {"ABSENT", "PENDING", "ENQUEUED"} => claims[t] = row.retry_count
       /\ row.status = "RUNNING" => claims[t] = row.retry_count + 1
       /\ claims[t] \in {row.retry_count, row.retry_count + 1}

(* What may still lead to a claim of task t: a message that nobody has     *)
(* read, a message in the hands of a worker before its claim, and a        *)
(* dispatch on its way to the stream.                                      *)
Tickets(t) ==
    {<<"message", i>> : i \in {k \in Undelivered(StreamOf(t)) : log[StreamOf(t)][k] = t}}
    \cup {<<"reader", w>> : w \in {v \in Workers : At(v, "claim") /\ TaskOf(v) = t}}
    \cup {<<"dispatch", s>> : s \in {r \in Schedulers : spc[r] = "xadd" /\ current[r] = t}}

(* SingleDispatch: a task is dispatched once per attempt, with any number  *)
(* of schedulers (scheduler.py:40-43): there is never more than one ticket *)
(* for it, and none while it is PENDING or RUNNING, so that a message of   *)
(* an earlier attempt can never start a task again.                        *)
SingleDispatch ==
    \A t \in Tasks :
       /\ \A x, y \in Tickets(t) : x = y
       /\ tasks[t].status \in {"ABSENT", "PENDING", "RUNNING"} => Tickets(t) = {}

(* What comes between a claim and the end of the attempt in the table.     *)
AtWork == {"busy", "exec", "fail", "retry", "exhaust"}

(* A task that is queued, but nothing leads to its claim any more, or that *)
(* is RUNNING, but nobody is at work on it.                                *)
Stranded(t) ==
    \/ tasks[t].status = "ENQUEUED" /\ Tickets(t) = {}
    \/ /\ tasks[t].status = "RUNNING"
       /\ ~\E w \in Workers : wpc[w] \in AtWork /\ TaskOf(w) = t

(* The step leaves task t behind.                                          *)
Strands(t) == ~Stranded(t) /\ Stranded(t)'

(* OnlyFaultsStrand: status, stream and PEL are written by separate calls  *)
(* (scheduler.py:132-162, base_worker.py:147-199), so a crash or an error  *)
(* between two of them leaves a task behind that says ENQUEUED or RUNNING  *)
(* and that nobody has.  But only such a fault does that, and each to one  *)
(* task at most: no lost race, cancellation, retry, late worker or reset,  *)
(* in whatever order, makes the system lose a task.                        *)
OnlyFaultsStrand ==
    [][\A t \in Tasks : Strands(t) =>
          faults' > faults /\ \A u \in Tasks \ {t} : ~Strands(u)]_vars

(* A task that was dispatched at least once, and one whose dispatch has    *)
(* not come to its last write yet.                                         *)
WasDispatched(t) ==
    tasks[t].status \notin {"ABSENT", "PENDING"} \/ tasks[t].retry_count > 0
InDispatch(t) ==
    \E s \in Schedulers : spc[s] \in {"xadd", "setmsg", "setjob"} /\ current[s] = t

(* StartsAreNoticed: the job is marked RUNNING last (scheduler.py:164-169) *)
(* and a fault before that skips it.  So a job that reads PENDING may have *)
(* tasks that were queued, are running or done, even all of them; but each *)
(* that is not being dispatched at the moment has cost a fault: the next   *)
(* dispatch of any task of the job repairs what the fault left out.        *)
StartsAreNoticed ==
    \A j \in Jobs : jobs[j] = "PENDING" =>
       Cardinality({t \in TasksOf(j) : WasDispatched(t) /\ ~InDispatch(t)}) <= faults

(* The worker holds the message of the present attempt of its task.        *)
HoldsAttempt(w) ==
    LET row == tasks[TaskOf(w)] IN
    \/ At(w, "claim") /\ row.status = "ENQUEUED"
    \/ wpc[w] \in AtWork /\ row.status = "RUNNING" /\ row.worker_id = w

(* OpenAttemptsArePending: the message of an attempt that is not over is   *)
(* in the PEL.  The monitor acknowledges by an id that it read from the    *)
(* row long before (heartbeat_monitor.py:112-121) and that a slow dispatch *)
(* may have stored late (scheduler.py:159-162), yet it never takes out the *)
(* message of another attempt than the one it gave up.                     *)
OpenAttemptsArePending ==
    \A w \in Workers :
       wpc[w] \in {"claim"} \cup AtWork /\ HoldsAttempt(w)
          => <<Serves[w], held[w]>> \in pel

(* InputsAvailable: a task that is queued, or was ever given to a worker,  *)
(* has the results of all tasks it depends on in the database, so          *)
(* _fetch_inputs (base_worker.py:291) finds every direct input.            *)
InputsAvailable ==
    \A t \in Tasks :
       tasks[t].status = "ENQUEUED" \/ claims[t] > 0
          => \A d \in depends_on(t) : tasks[d].result_json

(* CompletedJobHasReport: a job that reads COMPLETED has the result of     *)
(* every one of its tasks, although _check_job_completions counts a        *)
(* SKIPPED task as done (scheduler.py:206-216) and writes its verdict      *)
(* later, over whatever a cancellation wrote in between.                   *)
CompletedJobHasReport ==
    \A j \in Jobs :
       jobs[j] = "COMPLETED" => \A t \in TasksOf(j) : tasks[t].result_json

(* FailedOnlyExhausted: a task is FAILED only when it has no retry left,   *)
(* even though worker and monitor decide that from a row they read before. *)
FailedOnlyExhausted ==
    \A t \in Tasks :
       tasks[t].status = "FAILED" => tasks[t].retry_count >= max_retries(t)

(* SettledStaysSettled: a terminal task never becomes PENDING, ENQUEUED or *)
(* RUNNING again, and a terminal job never PENDING or RUNNING: late        *)
(* messages, late resets and late dispatches leave them alone.             *)
SettledStaysSettled ==
    [][/\ \A t \in Tasks : tasks[t].status \in TerminalTask
                              => tasks'[t].status \in TerminalTask
       /\ \A j \in Jobs : jobs[j] \in TerminalJob => jobs'[j] \in TerminalJob]_vars

(* FinalJobIsFinal: more than that, a terminal status of a job is never    *)
(* overwritten by another, as the 409 answer of cancel_job says            *)
(* (jobs.py:245-249).  The code does not keep it: see MCCancelRace.        *)
FinalJobIsFinal ==
    [][\A j \in Jobs : jobs[j] \in TerminalJob => jobs'[j] = jobs[j]]_vars

(* VerdictsStand: a verdict of the scheduler is not replaced by another:   *)
(* when a worker that was taken for dead completes a FAILED task, or fails *)
(* a COMPLETED one, the job keeps what _check_job_completions wrote of it  *)
(* (scheduler.py:206).  Only a cancellation can still overwrite it.  This  *)
(* needs a single scheduler: two may have queried at different moments.    *)
VerdictsStand ==
    [][\A j \in Jobs :
          jobs[j] \in {"COMPLETED", "FAILED"} => jobs'[j] \in {jobs[j], "CANCELLED"}]_vars

-----------------------------------------------------------------------------
(* The promises that hold as long as the system judges right who is alive: *)
(* one scheduler, every living worker's heartbeat in time, no worker       *)
(* deregistered.                                                           *)

(* Workers that believe they own the current attempt of task t.            *)
Executors(t) == {w \in Workers : wpc[w] \in {"busy", "exec"} /\ TaskOf(w) = t}

(* SingleExecutor: no task is executed by two workers at once, as          *)
(* base_worker.py:182 says of the claim, although messages are handed out  *)
(* again after a reset by the worker or by the monitor.  A late heartbeat  *)
(* breaks it: see MCTwoExecutors.                                          *)
SingleExecutor ==
    \A t \in Tasks : \A v, w \in Executors(t) : v = w

(* AttemptsBounded: a task is given to a worker at most max_retries + 1    *)
(* times (constants.py:80), although worker and monitor compare a          *)
(* retry_count that they read before the UPDATE that increments it         *)
(* (base_worker.py:342, heartbeat_monitor.py:72).                          *)
AttemptsBounded == \A t \in Tasks : claims[t] <= max_retries(t) + 1

(* DeadLettersAreTrue: what is in the dead-letter stream has failed for    *)
(* good, and is there once (base_worker.py:392): no attempt that was reset *)
(* meanwhile, and no task that somebody else completed, is buried.         *)
DeadLettersAreTrue ==
    \A t \in Tasks :
       /\ deadLetters[t] <= 1
       /\ deadLetters[t] > 0 => tasks[t].status = "FAILED"

(* VerdictsAreHonest: a job that reads COMPLETED has completed tasks only, *)
(* one that reads FAILED has a FAILED task and none that may still run,    *)
(* although the verdict is written some steps after it was found           *)
(* (scheduler.py:201-222) and SKIPPED tasks count as done for it.          *)
VerdictsAreHonest ==
    \A j \in Jobs :
       /\ jobs[j] = "COMPLETED" => \A t \in TasksOf(j) : tasks[t].status = "COMPLETED"
       /\ jobs[j] = "FAILED" => /\ \A t \in TasksOf(j) : tasks[t].status \in TerminalTask
                               /\ \E t \in TasksOf(j) : tasks[t].status = "FAILED"

(* ImplementsLifecycle: seen from the tables, every step is a step of the  *)
(* life cycle of a task or a job, or changes neither: stages run in the    *)
(* order of the DAG, a task gets at most max_retries + 1 attempts, a       *)
(* verdict on a job is true when it is written (scheduler.py:213-222).     *)
Lifecycle == INSTANCE TaskLifecycle WITH
    job <- jobs,
    status <- [t \in Tasks |-> tasks[t].status],
    retries <- [t \in Tasks |-> tasks[t].retry_count],
    Needs <- STAGE_DAG,
    MaxRetries <- MAX_RETRIES_BY_STAGE

ImplementsLifecycle == Lifecycle!Spec

-----------------------------------------------------------------------------
(* Liveness, under FairSpec.                                               *)

(* QueuedIsClaimed: a task that was queued does not stay queued for ever:  *)
(* a worker claims it, or it is skipped or finished (README.md:114, PEL    *)
(* for crash recovery).  A reader that dies before its claim breaks it,    *)
(* since nobody reads the PEL: see MCCrashedReader.                        *)
QueuedIsClaimed ==
    \A t \in Tasks : tasks[t].status = "ENQUEUED" ~> tasks[t].status # "ENQUEUED"

(* EveryAttemptEnds: nor does a task stay RUNNING for ever after it was    *)
(* given to a worker: it is completed, given up, or failed.                *)
EveryAttemptEnds ==
    /\ QueuedIsClaimed
    /\ \A t \in Tasks : tasks[t].status = "RUNNING" ~> tasks[t].status # "RUNNING"

(* JobsAreDecided: a submitted job ends in a terminal state, unless one of *)
(* its stages failed for good: what depends on a FAILED stage stays        *)
(* PENDING (scheduler.py:111-116) and keeps the job RUNNING.               *)
JobsAreDecided ==
    \A j \in Jobs :
       jobs[j] = "PENDING" ~> \/ jobs[j] \in TerminalJob
                              \/ \E t \in TasksOf(j) : tasks[t].status = "FAILED"

(* ExhaustedIsBuried: a task that failed for good is written to the        *)
(* dead-letter stream (base_worker.py:12).  It holds while no worker dies  *)
(* and no call of a worker fails; a failed call can skip the XADD, and the *)
(* monitor writes no dead letter at all: see MCUnburied.                   *)
ExhaustedIsBuried ==
    \A t \in Tasks : tasks[t].status = "FAILED" ~> deadLetters[t] > 0
=============================================================================
