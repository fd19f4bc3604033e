------------------------------ MODULE JobReads ------------------------------
(***************************************************************************)
(* The requests that read jobs: GET /api/jobs and GET /api/jobs/{id}       *)
(* (api/routes/jobs.py), next to everything that System does.  An answer   *)
(* is put together from several SELECTs without a transaction, so the      *)
(* system moves on between them.  Requests write nothing and do not see    *)
(* each other: one in flight at a time stands for any number.              *)
(***************************************************************************)
EXTENDS System

VARIABLE page   \* job -> what is read of it, for the jobs still to be completed

readVars == <<vars, page>>

-----------------------------------------------------------------------------
NoRows == <<>>
NoEntry == [status |-> "ABSENT", rows |-> NoRows]

TaskRows(j) == [t \in TasksOf(j) |->
                  [status |-> tasks[t].status, retry_count |-> tasks[t].retry_count]]

(* Mutant of Fetch: the tasks are read first.                              *)
FetchSwapped(n, j, e) == IF n = 2 THEN [e EXCEPT !.status = jobs[j]]
                                  ELSE [e EXCEPT !.rows = TaskRows(j)]

(* The entry e of job j after the n-th SELECT about it.                    *)
Fetch(n, j, e) == IF n = 1 THEN [e EXCEPT !.status = jobs[j]]
                           ELSE [e EXCEPT !.rows = TaskRows(j)]

(* The rows of jobs: one for get_job; for list_jobs those of a page, by    *)
(* status, limit and offset.                                               *)
ReadJobs(S) ==
    /\ page = NoRows
    /\ page' = [j \in S |-> Fetch(1, j, NoEntry)]
    /\ UNCHANGED vars

Existing == {j \in Jobs : jobs[j] # "ABSENT"}

(* The entry of job j as it is sent.                                       *)
JobResponse(j) == Fetch(2, j, page[j])

(* The rows of tasks, job by job; what is complete is not touched again.   *)
ReadTasks(j) ==
    /\ j \in DOMAIN page
    /\ page' = [i \in DOMAIN page \ {j} |-> page[i]]
    /\ UNCHANGED vars

ReadInit == Init /\ page = NoRows

ReadNext ==
    \/ Next /\ UNCHANGED page
    \/ \E S \in SUBSET Existing : ReadJobs(S)
    \/ \E j \in Jobs : ReadTasks(j)

ReadSpec == ReadInit /\ [][ReadNext]_readVars

-----------------------------------------------------------------------------
(* Whether the status and the task rows of one answer fit together.        *)
Fits(e) ==
    LET Rows == {e.rows[t] : t \in DOMAIN e.rows}
        Waiting == {r \in Rows : r.status \in {"PENDING", "ENQUEUED"}}
    IN  /\ e.status \in {"COMPLETED", "FAILED"}
              => \A r \in Rows : r.status \in TerminalTask
        /\ e.status = "RUNNING"
              => \E r \in Rows : r.status # "PENDING" \/ r.retry_count > 0
        /\ e.status = "CANCELLED"
              => \A r \in Waiting : r.retry_count > 0

(* AnswersAreWhole: although jobs.py:184-190 and 153-173 read the job and  *)
(* its tasks at different times, no answer shows a decided job with a task *)
(* still to run, a RUNNING job none of whose tasks was ever dispatched, or *)
(* a CANCELLED job with a task waiting for its first attempt: what the     *)
(* status tells stays true until the rows are read.  With the tasks read   *)
(* first it would not.                                                     *)
AnswersAreWhole ==
    [][\A j \in DOMAIN page : j \notin DOMAIN page' => Fits(JobResponse(j))]_readVars
=============================================================================
