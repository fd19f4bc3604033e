--------------------------- MODULE TaskLifecycle ---------------------------
(***************************************************************************)
(* What the system promises about a job and its tasks, without workers,    *)
(* schedulers or messages: the states a task goes through, in which order  *)
(* the stages run, how many attempts a task gets, and what the verdict on  *)
(* a job means.  System implements it as long as no living worker is taken *)
(* for dead and no second scheduler runs (see MCRecovery).                 *)
(***************************************************************************)
EXTENDS Naturals

CONSTANTS
    Jobs, Stages,
    Needs,          \* stage -> the stages it depends on
    MaxRetries      \* stage -> retries it gets

VARIABLES
    job,        \* job -> status
    status,     \* task -> status
    retries     \* task -> attempts given up

lifecycle == <<job, status, retries>>

Task == Jobs \X Stages
Of(j) == {j} \X Stages
Prerequisites(t) == {t[1]} \X Needs[t[2]]
Done == {"COMPLETED", "FAILED", "SKIPPED"}

Init ==
    /\ job = [j \in Jobs |-> "ABSENT"]
    /\ status = [t \in Task |-> "ABSENT"]
    /\ retries = [t \in Task |-> 0]

Move(t, from, to) ==
    /\ status[t] = from
    /\ status' = [status EXCEPT ![t] = to]

Submit(j) ==
    /\ job[j] = "ABSENT"
    /\ job' = [job EXCEPT ![j] = "PENDING"]
    /\ status' = [t \in Task |-> IF t \in Of(j) THEN "PENDING" ELSE status[t]]
    /\ UNCHANGED retries

(* A task is queued only after everything it depends on is COMPLETED.      *)
Queue(t) ==
    /\ \A d \in Prerequisites(t) : status[d] = "COMPLETED"
    /\ Move(t, "PENDING", "ENQUEUED")
    /\ UNCHANGED <<job, retries>>

Start(t) == Move(t, "ENQUEUED", "RUNNING") /\ UNCHANGED <<job, retries>>

Finish(t) == Move(t, "RUNNING", "COMPLETED") /\ UNCHANGED <<job, retries>>

(* An attempt is given up and counted, as long as retries are left.        *)
Retry(t) ==
    /\ retries[t] < MaxRetries[t[2]]
    /\ Move(t, "RUNNING", "PENDING")
    /\ retries' = [retries EXCEPT ![t] = @ + 1]
    /\ UNCHANGED job

Fail(t) ==
    /\ retries[t] = MaxRetries[t[2]]
    /\ Move(t, "RUNNING", "FAILED")
    /\ UNCHANGED <<job, retries>>

JobStarts(j) ==
    /\ job[j] = "PENDING"
    /\ \E t \in Of(j) : status[t] # "PENDING" \/ retries[t] > 0
    /\ job' = [job EXCEPT ![j] = "RUNNING"]
    /\ UNCHANGED <<status, retries>>

(* The verdict holds at the moment it is written, also when it overtakes a *)
(* cancellation.                                                           *)
Settle(j) ==
    /\ job[j] \notin {"ABSENT", "PENDING"}
    /\ \/ /\ \A t \in Of(j) : status[t] = "COMPLETED"
          /\ job' = [job EXCEPT ![j] = "COMPLETED"]
       \/ /\ \A t \in Of(j) : status[t] \in Done
          /\ \E t \in Of(j) : status[t] = "FAILED"
          /\ job' = [job EXCEPT ![j] = "FAILED"]
    /\ UNCHANGED <<status, retries>>

(* Tasks that wait are skipped; a running one is left to its worker.       *)
Cancel(j) ==
    /\ job[j] # "ABSENT"
    /\ job' = [job EXCEPT ![j] = "CANCELLED"]
    /\ status' = [t \in Task |->
          IF t \in Of(j) /\ status[t] \in {"PENDING", "ENQUEUED"}
          THEN "SKIPPED" ELSE status[t]]
    /\ UNCHANGED retries

Next ==
    \/ \E j \in Jobs : Submit(j) \/ JobStarts(j) \/ Settle(j) \/ Cancel(j)
    \/ \E t \in Task : Queue(t) \/ Start(t) \/ Finish(t) \/ Retry(t) \/ Fail(t)

Spec == Init /\ [][Next]_lifecycle
=============================================================================
