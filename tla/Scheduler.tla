------------------------------ MODULE Scheduler ------------------------------
(***************************************************************************)
(* scheduler/scheduler.py and scheduler/backoff.py: one poll cycle after   *)
(* another.  A cycle reads the ready tasks, dispatches them one by one,    *)
(* each by four separate writes to PostgreSQL and Redis, and then settles  *)
(* the jobs whose tasks are all terminal.  Several instances may run (the  *)
(* class docstring promises that this is safe).                            *)
(*                                                                         *)
(* The program counter names the next statement:                           *)
(*   off      the process is down                                          *)
(*   idle     between two cycles (asyncio.sleep)                           *)
(*   loop     in the for loop over ready_tasks                             *)
(*   xadd, setmsg, setjob   in _enqueue_task, after the optimistic lock    *)
(*   settle   in the for loop over completable_jobs                        *)
(* select, reap and reapack belong to HeartbeatMonitor, which runs in the  *)
(* same process.                                                           *)
(***************************************************************************)
EXTENDS RedisStreams, FiniteSets

CONSTANTS
    Schedulers,     \* scheduler instances
    NoTask,         \* a local variable that holds no task
    ReadyLimit      \* the LIMIT of the ready-task query, 100 in the code

ASSUME NoTaskAssumption == NoTask \notin Tasks
ASSUME ReadyLimitAssumption == ReadyLimit \in Nat \ {0}

VARIABLES
    spc,            \* program counter
    batch,          \* rows of ready_tasks not looked at yet
    current,        \* the task being dispatched, or reclaimed by the monitor
    message,        \* the message id that goes with current, 0 for none
    completable,    \* rows of completable_jobs not written yet
    windows         \* BackoffTracker: task -> "none", "open", "due"

schedulerVars == <<spc, batch, current, message, completable, windows>>

SchedulerPC == {"off", "idle", "loop", "xadd", "setmsg", "setjob", "settle",
                "select", "reap", "reapack"}

ReadyRow == [task: Tasks, retry_count: Nat]
SettleRow == [job: Jobs, verdict: {"COMPLETED", "FAILED"}]

NoWindows == [t \in Tasks |-> "none"]

SchedulerInit ==
    /\ spc = [s \in Schedulers |-> "off"]
    /\ batch = [s \in Schedulers |-> {}]
    /\ current = [s \in Schedulers |-> NoTask]
    /\ message = [s \in Schedulers |-> 0]
    /\ completable = [s \in Schedulers |-> {}]
    /\ windows = [s \in Schedulers |-> NoWindows]

SchedulerTypeOK ==
    /\ spc \in [Schedulers -> SchedulerPC]
    /\ batch \in [Schedulers -> SUBSET ReadyRow]
    /\ current \in [Schedulers -> Tasks \cup {NoTask}]
    /\ \A s \in Schedulers :
          spc[s] \in {"xadd", "setmsg", "setjob", "reapack"} => current[s] # NoTask
    /\ message \in [Schedulers -> Nat]
    /\ completable \in [Schedulers -> SUBSET SettleRow]
    /\ windows \in [Schedulers -> [Tasks -> {"none", "open", "due"}]]

Goto(s, label) == spc' = [spc EXCEPT ![s] = label]

-----------------------------------------------------------------------------
(* The process starts: a Scheduler object with an empty BackoffTracker.    *)
SchedulerStart(s) ==
    /\ spc[s] = "off"
    /\ Goto(s, "idle")
    /\ UNCHANGED <<batch, current, message, completable, windows>>
    /\ UNCHANGED tableVars /\ UNCHANGED redisVars

(* Mutant of Ready: a dependency only has to be finished.                  *)
ReadyAfterFailure(t) ==
    /\ tasks[t].status = "PENDING"
    /\ \A d \in depends_on(t) : tasks[d].status \in TerminalTask

(* _find_ready_tasks: PENDING, every dependency COMPLETED, whatever the    *)
(* state of the job.                                                       *)
Ready(t) ==
    /\ tasks[t].status = "PENDING"
    /\ \A d \in depends_on(t) : tasks[d].status = "COMPLETED"

ReadyTasks == {t \in Tasks : Ready(t)}

(* R is a possible answer of ORDER BY priority LIMIT ReadyLimit.           *)
FirstByPriority(R) ==
    /\ Cardinality(R) <= ReadyLimit
    /\ R # ReadyTasks => Cardinality(R) = ReadyLimit
    /\ \A t \in R, u \in ReadyTasks \ R : Priority[JobOf(t)] <= Priority[JobOf(u)]

FindReadyTasks(s) ==
    /\ spc[s] = "idle"
    /\ \E R \in SUBSET ReadyTasks :
          /\ FirstByPriority(R)
          /\ batch' = [batch EXCEPT ![s] =
                {[task |-> t, retry_count |-> tasks[t].retry_count] : t \in R}]
    /\ Goto(s, "loop")
    /\ UNCHANGED <<current, message, completable, windows>>
    /\ UNCHANGED tableVars /\ UNCHANGED redisVars

-----------------------------------------------------------------------------
(* The for loop takes the rows in the order of the query.                  *)
NextRow(s, r) ==
    /\ spc[s] = "loop"
    /\ r \in batch[s]
    /\ \A q \in batch[s] : Priority[JobOf(r.task)] <= Priority[JobOf(q.task)]

(* Mutant of Eligible: the delay is never over.                            *)
EligibleAtOnceOrNever(s, r) == r.retry_count = 0

(* is_eligible, from the retry_count the query returned.                   *)
Eligible(s, r) == r.retry_count = 0 \/ windows[s][r.task] = "due"

TakeRow(s, r) == batch' = [batch EXCEPT ![s] = @ \ {r}]

(* A retry seen for the first time opens its window and is left for later. *)
SkipIneligible(s) ==
    /\ \E r \in batch[s] :
          /\ NextRow(s, r) /\ ~Eligible(s, r)
          /\ TakeRow(s, r)
          /\ windows' = [windows EXCEPT ![s][r.task] = "open"]
    /\ UNCHANGED <<spc, current, message, completable>>
    /\ UNCHANGED tableVars /\ UNCHANGED redisVars

(* Mutant of StillPending: UPDATE without AND status = 'PENDING'.          *)
Unconditionally(t) == TRUE

(* The optimistic lock: UPDATE ... WHERE id = t AND status = 'PENDING'.    *)
StillPending(t) == tasks[t].status = "PENDING"

(* The UPDATE matched no row: somebody was faster.                         *)
EnqueueLost(s) ==
    /\ \E r \in batch[s] :
          /\ NextRow(s, r) /\ Eligible(s, r)
          /\ ~StillPending(r.task)
          /\ TakeRow(s, r)
    /\ UNCHANGED <<spc, current, message, completable, windows>>
    /\ UNCHANGED tableVars /\ UNCHANGED redisVars

EnqueueWon(s) ==
    /\ \E r \in batch[s] :
          /\ NextRow(s, r) /\ Eligible(s, r)
          /\ StillPending(r.task)
          /\ SetStatus(r.task, "ENQUEUED")
          /\ TakeRow(s, r)
          /\ current' = [current EXCEPT ![s] = r.task]
    /\ Goto(s, "xadd")
    /\ UNCHANGED <<jobs, workers, message, completable, windows>>
    /\ UNCHANGED redisVars

(* Mutant of PushMessage: a task that has a message is not pushed again.   *)
PushOnce(s) ==
    /\ spc[s] = "xadd"
    /\ LET id == tasks[current[s]].stream_message_id IN
       IF id = 0
       THEN /\ XAdd(StreamOf(current[s]), current[s])
            /\ message' = [message EXCEPT ![s] = Len(log[StreamOf(current[s])]) + 1]
       ELSE UNCHANGED log /\ message' = [message EXCEPT ![s] = id]
    /\ Goto(s, "setmsg")
    /\ UNCHANGED <<cursor, pel, deadLetters, batch, current, completable, windows>>
    /\ UNCHANGED tableVars

PushMessage(s) ==
    /\ spc[s] = "xadd"
    /\ XAdd(StreamOf(current[s]), current[s])
    /\ message' = [message EXCEPT ![s] = Len(log[StreamOf(current[s])]) + 1]
    /\ Goto(s, "setmsg")
    /\ UNCHANGED <<cursor, pel, deadLetters, batch, current, completable, windows>>
    /\ UNCHANGED tableVars

StoreMessageId(s) ==
    /\ spc[s] = "setmsg"
    /\ tasks' = [tasks EXCEPT ![current[s]].stream_message_id = message[s]]
    /\ message' = [message EXCEPT ![s] = 0]
    /\ Goto(s, "setjob")
    /\ UNCHANGED <<jobs, workers, batch, current, completable, windows>>
    /\ UNCHANGED redisVars

(* Mutant of Started: without WHERE status='PENDING'.                      *)
StartedAgain(status) == "RUNNING"

(* UPDATE jobs SET status='RUNNING' ... WHERE status='PENDING'             *)
Started(status) == IF status = "PENDING" THEN "RUNNING" ELSE status

(* Mutant of MarkJobRunning: only the first stages start a job.            *)
MarkByFirstStage(s) ==
    /\ spc[s] = "setjob"
    /\ jobs' = [jobs EXCEPT ![JobOf(current[s])] =
                   IF depends_on(current[s]) = {} THEN Started(@) ELSE @]
    /\ windows' = [windows EXCEPT ![s][current[s]] = "none"]
    /\ current' = [current EXCEPT ![s] = NoTask]
    /\ Goto(s, "loop")
    /\ UNCHANGED <<tasks, workers, batch, message, completable>>
    /\ UNCHANGED redisVars

(* The job is marked, then BackoffTracker.mark_completed runs.             *)
MarkJobRunning(s) ==
    /\ spc[s] = "setjob"
    /\ jobs' = [jobs EXCEPT ![JobOf(current[s])] = Started(@)]
    /\ windows' = [windows EXCEPT ![s][current[s]] = "none"]
    /\ current' = [current EXCEPT ![s] = NoTask]
    /\ Goto(s, "loop")
    /\ UNCHANGED <<tasks, workers, batch, message, completable>>
    /\ UNCHANGED redisVars

-----------------------------------------------------------------------------
(* The rows of _check_job_completions: one snapshot of jobs and tasks.     *)
TasksOf(j) == {j} \X Stages

(* Mutant of Verdict: the column "failed" is not looked at.                *)
VerdictCompleted(j) == "COMPLETED"

Verdict(j) == IF \E t \in TasksOf(j) : tasks[t].status = "FAILED"
              THEN "FAILED" ELSE "COMPLETED"

(* Mutant of Completable: jobs that were never marked RUNNING.             *)
CompletableIfPending ==
    {j \in Jobs : /\ jobs[j] = "PENDING"
                  /\ \A t \in TasksOf(j) : tasks[t].status \in TerminalTask}

(* Mutant of Completable: jobs whose verdict is already written.           *)
CompletableAgain ==
    {j \in Jobs : /\ jobs[j] # "ABSENT"
                  /\ \A t \in TasksOf(j) : tasks[t].status \in TerminalTask}

(* Mutant of Completable: RUNNING is taken for finished.                   *)
CompletableWhileRunning ==
    {j \in Jobs : /\ jobs[j] = "RUNNING"
                  /\ \A t \in TasksOf(j) : tasks[t].status \notin {"PENDING", "ENQUEUED"}}

Completable ==
    {j \in Jobs : /\ jobs[j] = "RUNNING"
                  /\ \A t \in TasksOf(j) : tasks[t].status \in TerminalTask}

CheckJobCompletions(s) ==
    /\ spc[s] = "loop" /\ batch[s] = {}
    /\ completable' = [completable EXCEPT ![s] =
          {[job |-> j, verdict |-> Verdict(j)] : j \in Completable}]
    /\ Goto(s, "settle")
    /\ UNCHANGED <<batch, current, message, windows>>
    /\ UNCHANGED tableVars /\ UNCHANGED redisVars

(* UPDATE jobs SET status=$1 WHERE id=$2: the status is not checked again. *)
SettleJob(s) ==
    /\ spc[s] = "settle"
    /\ \E r \in completable[s] :
          /\ jobs' = [jobs EXCEPT ![r.job] = r.verdict]
          /\ completable' = [completable EXCEPT ![s] = @ \ {r}]
    /\ UNCHANGED <<tasks, workers, spc, batch, current, message, windows>>
    /\ UNCHANGED redisVars

(* End of the cycle.  Now and then BackoffTracker.cleanup drops entries    *)
(* that have been due for long; which ones is left open.                   *)
EndCycle(s) ==
    /\ spc[s] = "settle" /\ completable[s] = {}
    /\ \E E \in SUBSET {t \in Tasks : windows[s][t] = "due"} :
          windows' = [windows EXCEPT ![s] =
                        [t \in Tasks |-> IF t \in E THEN "none" ELSE @[t]]]
    /\ Goto(s, "idle")
    /\ UNCHANGED <<batch, current, message, completable>>
    /\ UNCHANGED tableVars /\ UNCHANGED redisVars

(* The delay min(2^retry_count, 60) of a window has passed.  A window is   *)
(* looked at once per cycle, so nothing is lost by letting time pass       *)
(* between cycles only.                                                    *)
WindowElapses(s, t) ==
    /\ spc[s] = "idle"
    /\ windows[s][t] = "open"
    /\ windows' = [windows EXCEPT ![s][t] = "due"]
    /\ UNCHANGED <<spc, batch, current, message, completable>>
    /\ UNCHANGED tableVars /\ UNCHANGED redisVars

-----------------------------------------------------------------------------
(* Leaving a function drops its local variables; windows is an attribute.  *)
ForgetLocals(s) ==
    /\ batch' = [batch EXCEPT ![s] = {}]
    /\ current' = [current EXCEPT ![s] = NoTask]
    /\ message' = [message EXCEPT ![s] = 0]
    /\ completable' = [completable EXCEPT ![s] = {}]

(* A call to PostgreSQL or Redis raises inside run_once, which logs it and *)
(* gives up the rest of the cycle.                                         *)
CycleError(s) ==
    /\ spc[s] \in {"loop", "xadd", "setmsg", "setjob", "settle"}
    /\ Goto(s, "idle")
    /\ ForgetLocals(s)
    /\ UNCHANGED windows
    /\ UNCHANGED tableVars /\ UNCHANGED redisVars

CycleStep(s) ==
    \/ FindReadyTasks(s)
    \/ SkipIneligible(s)
    \/ EnqueueLost(s)
    \/ EnqueueWon(s)
    \/ PushMessage(s)
    \/ StoreMessageId(s)
    \/ MarkJobRunning(s)
    \/ CheckJobCompletions(s)
    \/ SettleJob(s)
    \/ EndCycle(s)
=============================================================================
