------------------------------- MODULE JobsApi -------------------------------
(***************************************************************************)
(* The requests that write: POST and DELETE /api/jobs (api/routes/jobs.py) *)
(* and DELETE /api/workers (api/routes/workers.py).  A cancellation reads  *)
(* the job's status and writes it later in the same transaction, at        *)
(* PostgreSQL's default isolation (READ COMMITTED), so others may write in *)
(* between.                                                                *)
(***************************************************************************)
EXTENDS RedisStreams

CONSTANT MaxCancels     \* bound: cancellations of one job in flight at once

ASSUME MaxCancelsAssumption == MaxCancels \in Nat

VARIABLE cancels    \* job -> cancellations that passed the status check

ApiInit == cancels = [j \in Jobs |-> 0]

ApiTypeOK == cancels \in [Jobs -> Nat]

-----------------------------------------------------------------------------
(* create_job: the job row and its task rows appear in one transaction.    *)
SubmitJob(j) ==
    /\ jobs[j] = "ABSENT"
    /\ jobs' = [jobs EXCEPT ![j] = "PENDING"]
    /\ tasks' = [t \in Tasks |->
          IF JobOf(t) = j THEN [tasks[t] EXCEPT !.status = "PENDING"] ELSE tasks[t]]
    /\ UNCHANGED <<workers, cancels>>
    /\ UNCHANGED redisVars

(* cancel_job: 409 when the job is terminal; otherwise it goes on.         *)
CancelCheck(j) ==
    /\ jobs[j] \notin {"ABSENT"} \cup TerminalJob
    /\ cancels[j] < MaxCancels
    /\ cancels' = [cancels EXCEPT ![j] = @ + 1]
    /\ UNCHANGED tableVars /\ UNCHANGED redisVars

(* The two UPDATEs become visible together at the commit.                  *)
CancelCommit(j) ==
    /\ cancels[j] > 0
    /\ cancels' = [cancels EXCEPT ![j] = @ - 1]
    /\ jobs' = [jobs EXCEPT ![j] = "CANCELLED"]
    /\ tasks' = [t \in Tasks |->
          IF JobOf(t) = j /\ tasks[t].status \in {"PENDING", "ENQUEUED"}
          THEN [tasks[t] EXCEPT !.status = "SKIPPED"] ELSE tasks[t]]
    /\ UNCHANGED workers
    /\ UNCHANGED redisVars

(* deregister_worker: the row turns DEAD, the process knows nothing of it. *)
DeregisterWorker(w) ==
    /\ workers[w].status # "ABSENT"
    /\ SetWorkerStatus(w, "DEAD")
    /\ UNCHANGED <<jobs, tasks, cancels>>
    /\ UNCHANGED redisVars
=============================================================================
