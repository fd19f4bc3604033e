------------------------------- MODULE Worker -------------------------------
(***************************************************************************)
(* workers/base_worker.py: a consumer that reads one message, claims its   *)
(* task in PostgreSQL, executes the stage, stores the result and           *)
(* acknowledges; or, when that raises, resets the task for another attempt *)
(* or fails it.  Every statement is a step of its own:                     *)
(*   off     the process is down                                           *)
(*   poll    in XREADGROUP                                                 *)
(*   claim   holds a message, claim UPDATE next                            *)
(*   busy    claimed, UPDATE workers BUSY next                             *)
(*   exec    fetching inputs, executing, storing the result                *)
(*   idle, ack            after the result is stored                       *)
(*   fail, retry, retried, exhaust, exhausted, bury   in _handle_failure   *)
(*   drop    the XACK that ends a lost claim or a failure                  *)
(***************************************************************************)
EXTENDS RedisStreams

CONSTANT Serves     \* worker -> the stream of its stage

(* Routing: a worker handles every stage whose tasks go to its stream      *)
(* (BaseWorker._handles_stage and its override in NLPWorker).              *)
ASSUME ServesAssumption == Serves \in [Workers -> Streams]

VARIABLES
    wpc,        \* program counter
    held,       \* id of the message being processed, 0 for none
    claims      \* history: task -> number of claims that succeeded

workerVars == <<wpc, held, claims>>

AfterClaim == {"busy", "exec", "idle", "ack"}
Failing == {"fail", "retry", "retried", "exhaust", "exhausted", "bury"}
WorkerPC == {"off", "poll", "claim", "drop"} \cup AfterClaim \cup Failing

WorkerInit ==
    /\ wpc = [w \in Workers |-> "off"]
    /\ held = [w \in Workers |-> 0]
    /\ claims = [t \in Tasks |-> 0]

WorkerTypeOK ==
    /\ wpc \in [Workers -> WorkerPC]
    /\ held \in [Workers -> Nat]
    /\ \A w \in Workers :
          wpc[w] \notin {"off", "poll"} => held[w] \in 1 .. cursor[Serves[w]]
    /\ claims \in [Tasks -> Nat]

(* The task of the message that the worker holds.                          *)
TaskOf(w) == log[Serves[w]][held[w]]

At(w, label) == wpc[w] = label
Jump(w, label) == wpc' = [wpc EXCEPT ![w] = label]
LetGo(w) == Jump(w, "poll") /\ held' = [held EXCEPT ![w] = 0]

-----------------------------------------------------------------------------
(* start(): the row of this hostname is inserted, or reset to IDLE with a  *)
(* fresh heartbeat; tasks still RUNNING under its id are not looked at.    *)
Register(w) ==
    /\ At(w, "off")
    /\ workers' = [workers EXCEPT ![w] = [status |-> "IDLE", stale |-> FALSE]]
    /\ Jump(w, "poll")
    /\ UNCHANGED <<jobs, tasks, held, claims>>
    /\ UNCHANGED redisVars

Poll(w) ==
    /\ At(w, "poll")
    /\ XReadGroup(Serves[w])
    /\ held' = [held EXCEPT ![w] = cursor[Serves[w]] + 1]
    /\ Jump(w, "claim")
    /\ UNCHANGED <<log, deadLetters, claims>>
    /\ UNCHANGED tableVars

(* Mutant of Claimable: UPDATE without AND status='ENQUEUED'.              *)
ClaimableAlways(t) == TRUE

(* UPDATE tasks SET status='RUNNING' ... WHERE status='ENQUEUED'           *)
Claimable(t) == tasks[t].status = "ENQUEUED"

ClaimWon(w) ==
    /\ At(w, "claim")
    /\ Claimable(TaskOf(w))
    /\ tasks' = [tasks EXCEPT ![TaskOf(w)].status = "RUNNING",
                              ![TaskOf(w)].worker_id = w]
    /\ claims' = [claims EXCEPT ![TaskOf(w)] = @ + 1]
    /\ Jump(w, "busy")
    /\ UNCHANGED <<jobs, workers, held>>
    /\ UNCHANGED redisVars

ClaimLost(w) ==
    /\ At(w, "claim")
    /\ ~Claimable(TaskOf(w))
    /\ Jump(w, "drop")
    /\ UNCHANGED <<held, claims>>
    /\ UNCHANGED tableVars /\ UNCHANGED redisVars

MarkBusy(w) ==
    /\ At(w, "busy")
    /\ SetWorkerStatus(w, "BUSY")
    /\ Jump(w, "exec")
    /\ UNCHANGED <<jobs, tasks, held, claims>>
    /\ UNCHANGED redisVars

(* UPDATE tasks SET status='COMPLETED', result_json=$1 WHERE id=$2: the    *)
(* status is not checked again.                                            *)
Complete(w) ==
    /\ At(w, "exec")
    /\ tasks' = [tasks EXCEPT ![TaskOf(w)].status = "COMPLETED",
                              ![TaskOf(w)].result_json = TRUE]
    /\ Jump(w, "idle")
    /\ UNCHANGED <<jobs, workers, held, claims>>
    /\ UNCHANGED redisVars

(* _fetch_inputs, execute or the UPDATE raises.                            *)
ExecuteFails(w) ==
    /\ At(w, "exec")
    /\ Jump(w, "fail")
    /\ UNCHANGED <<held, claims>>
    /\ UNCHANGED tableVars /\ UNCHANGED redisVars

MarkIdle(w) ==
    /\ At(w, "idle")
    /\ SetWorkerStatus(w, "IDLE")
    /\ Jump(w, "ack")
    /\ UNCHANGED <<jobs, tasks, held, claims>>
    /\ UNCHANGED redisVars

(* XACK, at the end of a success ("ack") and of a lost claim or a failure  *)
(* ("drop").                                                               *)
Ack(w) ==
    /\ wpc[w] \in {"ack", "drop"}
    /\ XAck(Serves[w], held[w])
    /\ LetGo(w)
    /\ UNCHANGED <<log, cursor, deadLetters, claims>>
    /\ UNCHANGED tableVars

-----------------------------------------------------------------------------
(* _handle_failure                                                         *)

(* Mutant of HasRetryLeft: off by one.                                     *)
HasTwoRetriesLeft(t) == tasks[t].retry_count + 1 < max_retries(t)

(* Mutant of HasRetryLeft: off by one, the other way.                      *)
HasOneRetryMore(t) == tasks[t].retry_count <= max_retries(t)

HasRetryLeft(t) == tasks[t].retry_count < max_retries(t)

ReadRetries(w) ==
    /\ At(w, "fail")
    /\ Jump(w, IF HasRetryLeft(TaskOf(w)) THEN "retry" ELSE "exhaust")
    /\ UNCHANGED <<held, claims>>
    /\ UNCHANGED tableVars /\ UNCHANGED redisVars

ResetToPending(w) ==
    /\ At(w, "retry")
    /\ ResetIfRunning(TaskOf(w))
    /\ Jump(w, "retried")
    /\ UNCHANGED <<jobs, workers, held, claims>>
    /\ UNCHANGED redisVars

(* UPDATE tasks SET status='FAILED' WHERE id=$2: the status is not checked. *)
MarkFailed(w) ==
    /\ At(w, "exhaust")
    /\ SetStatus(TaskOf(w), "FAILED")
    /\ Jump(w, "exhausted")
    /\ UNCHANGED <<jobs, workers, held, claims>>
    /\ UNCHANGED redisVars

(* Mutant of NextAfterIdle: no dead letter.                                *)
NextIsDrop(label) == "drop"

(* What follows the UPDATE of the worker's row: the XACK, or first the     *)
(* XADD to the dead-letter stream.                                         *)
NextAfterIdle(label) == IF label = "exhausted" THEN "bury" ELSE "drop"

MarkIdleAfterFailure(w) ==
    /\ wpc[w] \in {"retried", "exhausted"}
    /\ SetWorkerStatus(w, "IDLE")
    /\ Jump(w, NextAfterIdle(wpc[w]))
    /\ UNCHANGED <<jobs, tasks, held, claims>>
    /\ UNCHANGED redisVars

Bury(w) ==
    /\ At(w, "bury")
    /\ deadLetters' = [deadLetters EXCEPT ![TaskOf(w)] = @ + 1]
    /\ Jump(w, "drop")
    /\ UNCHANGED <<log, cursor, pel, held, claims>>
    /\ UNCHANGED tableVars

-----------------------------------------------------------------------------
(* A call raises after the result is stored, inside the try block: the     *)
(* failure handler runs on a COMPLETED task.                               *)
PersistError(w) ==
    /\ wpc[w] \in {"idle", "ack"}
    /\ Jump(w, "fail")
    /\ UNCHANGED <<held, claims>>
    /\ UNCHANGED tableVars /\ UNCHANGED redisVars

(* A call raises outside the try block: _run_loop logs it and reads the    *)
(* next new message; the one it held stays in the PEL.                     *)
LoopError(w) ==
    /\ wpc[w] \in {"claim", "busy", "drop"} \cup Failing
    /\ LetGo(w)
    /\ UNCHANGED claims
    /\ UNCHANGED tableVars /\ UNCHANGED redisVars

WorkerCrash(w) ==
    /\ ~At(w, "off")
    /\ Jump(w, "off")
    /\ held' = [held EXCEPT ![w] = 0]
    /\ UNCHANGED claims
    /\ UNCHANGED tableVars /\ UNCHANGED redisVars

(* The heartbeat thread, and HEARTBEAT_TIMEOUT_SECONDS without one.        *)
Heartbeat(w) ==
    /\ ~At(w, "off") /\ workers[w].stale
    /\ workers' = [workers EXCEPT ![w].stale = FALSE]
    /\ UNCHANGED <<jobs, tasks>> /\ UNCHANGED workerVars /\ UNCHANGED redisVars

HeartbeatLapse(w) ==
    /\ workers[w].status # "ABSENT" /\ ~workers[w].stale
    /\ workers' = [workers EXCEPT ![w].stale = TRUE]
    /\ UNCHANGED <<jobs, tasks>> /\ UNCHANGED workerVars /\ UNCHANGED redisVars

WorkerStep(w) ==
    \/ Poll(w)
    \/ ClaimWon(w)
    \/ ClaimLost(w)
    \/ MarkBusy(w)
    \/ Complete(w)
    \/ ExecuteFails(w)
    \/ MarkIdle(w)
    \/ Ack(w)
    \/ ReadRetries(w)
    \/ ResetToPending(w)
    \/ MarkFailed(w)
    \/ MarkIdleAfterFailure(w)
    \/ Bury(w)
=============================================================================
