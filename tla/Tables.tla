------------------------------- MODULE Tables -------------------------------
(***************************************************************************)
(* The three PostgreSQL tables that all processes share: jobs, tasks and   *)
(* workers (migrations/versions/001_initial_schema.py), with the columns   *)
(* that decide what the processes do.  There is no lock above one SQL      *)
(* statement, so each action of the other modules is one statement, or one *)
(* transaction where the code opens one.                                   *)
(***************************************************************************)
EXTENDS Naturals

CONSTANTS
    Jobs,                   \* the jobs that may be submitted
    Stages,                 \* ALL_STAGES
    STAGE_DAG,              \* stage -> the stages it depends on
    MAX_RETRIES_BY_STAGE,   \* stage -> tasks.max_retries
    Priority,               \* job -> jobs.priority, 1 is the most urgent
    Workers,                \* worker hostnames
    NoWorker                \* the NULL of tasks.worker_id

ASSUME DagAssumption      == STAGE_DAG \in [Stages -> SUBSET Stages]
ASSUME RetriesAssumption  == MAX_RETRIES_BY_STAGE \in [Stages -> Nat]
ASSUME PriorityAssumption == Priority \in [Jobs -> Nat]
ASSUME NoWorkerAssumption == NoWorker \notin Workers

VARIABLES
    jobs,       \* job -> jobs.status, "ABSENT" before the row is inserted
    tasks,      \* task -> row of tasks
    workers     \* worker -> row of workers

tableVars == <<jobs, tasks, workers>>

-----------------------------------------------------------------------------
(* A task is one stage of one job. *)
Tasks == Jobs \X Stages
JobOf(t) == t[1]
StageOf(t) == t[2]
depends_on(t) == {JobOf(t)} \X STAGE_DAG[StageOf(t)]
max_retries(t) == MAX_RETRIES_BY_STAGE[StageOf(t)]

TerminalTask == {"COMPLETED", "FAILED", "SKIPPED"}
TerminalJob == {"COMPLETED", "FAILED", "CANCELLED"}

TaskStatus == {"ABSENT", "PENDING", "ENQUEUED", "RUNNING"} \cup TerminalTask
JobStatus == {"ABSENT", "PENDING", "RUNNING"} \cup TerminalJob
WorkerStatus == {"ABSENT", "IDLE", "BUSY", "DEAD"}

(* result_json is a flag: whether the column has been written.             *)
(* stream_message_id is the position of the message in its stream, 0 for   *)
(* NULL.                                                                   *)
TaskRow == [status: TaskStatus, retry_count: Nat,
            worker_id: Workers \cup {NoWorker},
            result_json: BOOLEAN, stream_message_id: Nat]

(* stale: last_heartbeat is older than HEARTBEAT_TIMEOUT_SECONDS.          *)
WorkerRow == [status: WorkerStatus, stale: BOOLEAN]

-----------------------------------------------------------------------------
AbsentTask == [status |-> "ABSENT", retry_count |-> 0, worker_id |-> NoWorker,
               result_json |-> FALSE, stream_message_id |-> 0]

TablesInit ==
    /\ jobs = [j \in Jobs |-> "ABSENT"]
    /\ tasks = [t \in Tasks |-> AbsentTask]
    /\ workers = [w \in Workers |-> [status |-> "ABSENT", stale |-> FALSE]]

TablesTypeOK ==
    /\ jobs \in [Jobs -> JobStatus]
    /\ tasks \in [Tasks -> TaskRow]
    /\ workers \in [Workers -> WorkerRow]

(* UPDATE tasks SET status = s WHERE id = t *)
SetStatus(t, s) == tasks' = [tasks EXCEPT ![t].status = s]

(* Mutant of ResetIfRunning: without WHERE status='RUNNING'.               *)
ResetAlways(t) ==
    tasks' = [tasks EXCEPT ![t].status = "PENDING",
                           ![t].retry_count = @ + 1,
                           ![t].worker_id = NoWorker]

(* Mutant of ResetIfRunning: the retry is not counted.                     *)
ResetUncounted(t) ==
    IF tasks[t].status = "RUNNING"
    THEN tasks' = [tasks EXCEPT ![t].status = "PENDING", ![t].worker_id = NoWorker]
    ELSE UNCHANGED tasks

(* Mutant of ResetIfRunning: the task is put back as ENQUEUED.             *)
ResetToEnqueued(t) ==
    IF tasks[t].status = "RUNNING"
    THEN tasks' = [tasks EXCEPT ![t].status = "ENQUEUED",
                                ![t].retry_count = @ + 1,
                                ![t].worker_id = NoWorker]
    ELSE UNCHANGED tasks

(* UPDATE tasks SET status='PENDING', retry_count=retry_count+1,           *)
(* worker_id=NULL WHERE id = t AND status='RUNNING': the statement that    *)
(* the worker and the heartbeat monitor share.                             *)
ResetIfRunning(t) ==
    IF tasks[t].status = "RUNNING"
    THEN tasks' = [tasks EXCEPT ![t].status = "PENDING",
                                ![t].retry_count = @ + 1,
                                ![t].worker_id = NoWorker]
    ELSE UNCHANGED tasks

(* UPDATE workers SET status = s WHERE id = w *)
SetWorkerStatus(w, s) == workers' = [workers EXCEPT ![w].status = s]
=============================================================================
