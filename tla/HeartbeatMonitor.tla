-------------------------- MODULE HeartbeatMonitor --------------------------
(***************************************************************************)
(* scheduler/heartbeat_monitor.py, run by scheduler/main.py in the process *)
(* of the scheduler, between two of its cycles:                            *)
(*   select    the stale workers are marked, the stuck tasks not yet read  *)
(*   reap      in the for loop over stuck_tasks                            *)
(*   reapack   a task was reset, its old message not yet acknowledged      *)
(* Also the ways the process ends: nothing catches an exception of the     *)
(* monitor, so it takes the scheduler down.                                *)
(***************************************************************************)
EXTENDS Scheduler

VARIABLE stuck      \* rows of stuck_tasks not handled yet

monitorVars == <<schedulerVars, stuck>>

StuckRow == [task: Tasks, retry_count: Nat, stream_message_id: Nat]

MonitorInit == stuck = [s \in Schedulers |-> {}]

MonitorTypeOK == stuck \in [Schedulers -> SUBSET StuckRow]

-----------------------------------------------------------------------------
(* UPDATE workers SET status='DEAD' for every worker without a recent      *)
(* heartbeat.                                                              *)
MarkStaleDead(s) ==
    /\ spc[s] = "idle"
    /\ workers' = [w \in Workers |->
          IF workers[w].stale /\ workers[w].status \notin {"ABSENT", "DEAD"}
          THEN [workers[w] EXCEPT !.status = "DEAD"] ELSE workers[w]]
    /\ Goto(s, "select")
    /\ UNCHANGED <<jobs, tasks, batch, current, message, completable, windows, stuck>>
    /\ UNCHANGED redisVars

(* Mutant of StuckTasks: without w.status = 'DEAD'.                        *)
RunningTasks == {t \in Tasks : /\ tasks[t].status = "RUNNING"
                               /\ tasks[t].worker_id \in Workers}

(* RUNNING tasks joined with DEAD workers.                                 *)
StuckTasks == {t \in Tasks : /\ tasks[t].status = "RUNNING"
                             /\ tasks[t].worker_id \in Workers
                             /\ workers[tasks[t].worker_id].status = "DEAD"}

FindStuckTasks(s) ==
    /\ spc[s] = "select"
    /\ stuck' = [stuck EXCEPT ![s] =
          {[task |-> t, retry_count |-> tasks[t].retry_count,
            stream_message_id |-> tasks[t].stream_message_id] : t \in StuckTasks}]
    /\ Goto(s, "reap")
    /\ UNCHANGED <<batch, current, message, completable, windows>>
    /\ UNCHANGED tableVars /\ UNCHANGED redisVars

TakeStuck(s, r) ==
    /\ spc[s] = "reap"
    /\ r \in stuck[s]
    /\ stuck' = [stuck EXCEPT ![s] = @ \ {r}]

(* Retries exhausted: FAILED, without a look at the present status, and    *)
(* without a dead letter.                                                  *)
ReapExhausted(s) ==
    /\ \E r \in stuck[s] :
          /\ TakeStuck(s, r)
          /\ r.retry_count >= max_retries(r.task)
          /\ SetStatus(r.task, "FAILED")
    /\ UNCHANGED <<jobs, workers, spc, batch, current, message, completable, windows>>
    /\ UNCHANGED redisVars

(* Otherwise one more attempt; the old message is acknowledged if the row  *)
(* of the query had one, also when the UPDATE matched nothing.             *)
ReapReset(s) ==
    /\ \E r \in stuck[s] :
          /\ TakeStuck(s, r)
          /\ r.retry_count < max_retries(r.task)
          /\ ResetIfRunning(r.task)
          /\ IF r.stream_message_id = 0
             THEN UNCHANGED <<spc, current, message>>
             ELSE /\ Goto(s, "reapack")
                  /\ current' = [current EXCEPT ![s] = r.task]
                  /\ message' = [message EXCEPT ![s] = r.stream_message_id]
    /\ UNCHANGED <<jobs, workers, batch, completable, windows>>
    /\ UNCHANGED redisVars

BackToReap(s) ==
    /\ spc[s] = "reapack"
    /\ Goto(s, "reap")
    /\ current' = [current EXCEPT ![s] = NoTask]
    /\ message' = [message EXCEPT ![s] = 0]
    /\ UNCHANGED <<batch, completable, windows, stuck>>

(* Mutant of AckReaped: the id is read from the row again.                 *)
AckIdOfRow(s) ==
    /\ BackToReap(s)
    /\ XAck(StreamOf(current[s]), tasks[current[s]].stream_message_id)
    /\ UNCHANGED <<log, cursor, deadLetters>>
    /\ UNCHANGED tableVars

(* XCLAIM gives the entry to "heartbeat-monitor", XACK removes it.         *)
AckReaped(s) ==
    /\ BackToReap(s)
    /\ XAck(StreamOf(current[s]), message[s])
    /\ UNCHANGED <<log, cursor, deadLetters>>
    /\ UNCHANGED tableVars

(* XCLAIM or XACK raises: logged, and the loop goes on.                    *)
ReapAckError(s) ==
    /\ BackToReap(s)
    /\ UNCHANGED tableVars /\ UNCHANGED redisVars

MonitorDone(s) ==
    /\ spc[s] = "reap" /\ stuck[s] = {}
    /\ Goto(s, "idle")
    /\ UNCHANGED <<batch, current, message, completable, windows, stuck>>
    /\ UNCHANGED tableVars /\ UNCHANGED redisVars

MonitorStep(s) ==
    \/ MarkStaleDead(s)
    \/ FindStuckTasks(s)
    \/ ReapExhausted(s)
    \/ ReapReset(s)
    \/ AckReaped(s)
    \/ MonitorDone(s)

-----------------------------------------------------------------------------
ProcessEnds(s) ==
    /\ Goto(s, "off")
    /\ ForgetLocals(s)
    /\ stuck' = [stuck EXCEPT ![s] = {}]
    /\ windows' = [windows EXCEPT ![s] = NoWindows]
    /\ UNCHANGED tableVars /\ UNCHANGED redisVars

SchedulerCrash(s) == spc[s] # "off" /\ ProcessEnds(s)

(* A call to PostgreSQL raises in the monitor: main() does not catch it.   *)
MonitorError(s) == spc[s] \in {"select", "reap"} /\ ProcessEnds(s)
=============================================================================
