# A verification of the distributed AI job scheduler in TLA+

This directory models the job scheduler of this repository in three parts: the
scheduling (the scheduler process, its heartbeat monitor, the workers, the requests
that write, and the PostgreSQL tables and Redis streams between them), the data
that the stages of a job hand on to each other, and the dashboard channel from the
API process to the browsers. TLC checks the models on small instances; the TLA+
proof system proves every safety property that a passing run checks for any number of jobs,
stages, workers and faults, and that the scheduling implements an abstract life cycle.
Some of these theorems assume one scheduler or truthful heartbeats; section 4 says which.

## 1. The system

A job runs through a DAG of seven stages, one row of `tasks` per stage. Nothing
is locked for longer than one SQL statement (or one transaction of the API), so
every process acts on what it read some statements ago.

| component | state it keeps | operations |
|---|---|---|
| PostgreSQL tables (`migrations/versions/001_initial_schema.py`) | `jobs.status`, `tasks.status`, `retry_count`, `worker_id`, `result_json`, `stream_message_id`, `workers.status`, `last_heartbeat` | single UPDATEs, some with a condition on the status, some by id alone |
| Redis streams (`shared/redis_client.py`) | six append-only streams, one consumer group with its position and its list of pending entries (PEL), a dead-letter stream | XADD, XREADGROUP `>`, XACK, XCLAIM |
| Scheduler (`scheduler/scheduler.py`, `backoff.py`) | the batch of ready tasks, the backoff windows | `run_once`: find ready tasks, dispatch each (UPDATE tasks, XADD, UPDATE tasks, UPDATE jobs), settle finished jobs, now and then a snapshot of the queues (XLEN, XPENDING) |
| Heartbeat monitor (`scheduler/heartbeat_monitor.py`) | the list of stuck tasks | mark stale workers DEAD, find their RUNNING tasks, fail or reset each, acknowledge the old message |
| Scheduler process (`scheduler/main.py`) | none | cycle, now and then the monitor, sleep; an exception of the monitor ends it |
| Worker (`workers/base_worker.py`, `worker_*.py`) | the message it processes | register, heartbeat, read, claim, execute, store the result, acknowledge; on failure reset or fail the task and write a dead letter |
| Jobs and workers API (`api/routes/jobs.py`, `workers.py`) | an open transaction, an answer half read | create a job, cancel a job, read jobs with their tasks, deregister a worker |
| Queue routes (`api/routes/queues.py`) | an answer half read | length and pending messages of each stream |
| Passing of results (`_fetch_inputs` in `workers/base_worker.py`) | `result_json` of a task, the inputs of an execution | merge the results of the direct dependencies over the job's input, store the result |
| Stage logic (`workers/stages/`) | none | functions from inputs to a result, with random draws and, for two stages, a language model |
| Dashboard channel (`api/websocket/manager.py`, `api/main.py`, `/ws/dashboard`) | the list of sockets, the locals of a broadcast | connect, disconnect, broadcast every three seconds |
| `useDashboard` (`frontend/src/hooks/`) | a socket, timers | open, receive, reconnect after a backoff, close |
| Metrics routes, Prometheus metrics, rest of the frontend, observability, deployment | none that the others read | display |

How they interact: the scheduler turns `PENDING` rows into `ENQUEUED` rows and
messages; a worker turns a message and an `ENQUEUED` row into `RUNNING` and then
`COMPLETED`, `FAILED` or `PENDING` again; the monitor takes `RUNNING` rows away
from workers it believes dead; the API inserts `PENDING` rows and skips them.
All meet in the rows of `tasks` and nowhere else. Stages talk to each other through
`result_json`. The API process and the browsers talk over WebSockets, and only read
the tables.

What is hard about it:

* Two writers of one row. Claim and dispatch are conditional (`WHERE status =`),
  completion, failure and verdict are not: they are written by id, minutes after
  the row was read.
* Work is taken away from workers that are alive: a late heartbeat, or
  `DELETE /api/workers`, starts a second execution while the first continues.
* A dispatch consists of four writes to two stores, a failure of up to four. A
  crash or a failing call may come between any two.
* Several schedulers may run, each with a monitor of its own.
* Retries wait in windows that only the memory of one scheduler knows.
* An execution reads its inputs minutes before it writes its result; the rows it
  read may be written again meanwhile.
* A broadcast awaits every send, and sockets come and go during each of them.
* An answer of the API is put together from several reads while everything moves on.

What makes each part correct: the scheduler dispatches a task once per attempt
and only when its inputs exist; a worker executes what nobody else executes; every
attempt is counted once and ends; the monitor returns the tasks of dead workers
and only these; a verdict on a job is true; what is settled stays settled; what
failed for good is in the dead-letter stream; every job is decided; a result follows
from the results it was computed from; a dashboard that is open is fed; no answer
contradicts itself.

`PROJECT.json` lists each of these dangers under `hazards`, at the line where it
bites, with the properties that would catch it.

## 2. The modules

```
Tables  <-  RedisStreams  <-  Scheduler  <-  HeartbeatMonitor  --+
                          <-  Worker     -----------------------+--  System  <-  MCSystem
                          <-  JobsApi    -----------------------+      |    <-  SystemTypes  <-  SystemProofs  <-  DispatchProofs
                                                                       |
                                                                       +-- implements TaskLifecycle

System  <-  JobReads     <-  MCReads         JobReads, QueueDepths, SystemProofs  <-  ReadProofs
        <-  QueueDepths  <-  MCDepths        ReadProofs  <-  RecoveryProofs

Diagnostics  <-  StageLogic  <-  DataFlow  <-  MCDataFlow
     |                               +------<-  DataFlowProofs
     +---<-  DiagnosticsProofs

Subscriptions  <-  LiveDashboard  <-  DashboardProofs
```

* **Tables**: the three tables. A task is a pair of job and stage. `ABSENT` is the
  status of a row not yet inserted. `result_json` is the flag "the column has been
  written"; `stale` of a worker is the flag "`last_heartbeat` is older than the
  timeout". `ResetIfRunning` is the statement that worker and monitor share.
* **RedisStreams**: each stream is a sequence of tasks, a message id is a position
  in it, the group's position is `cursor`, the PEL a set of pairs. Only the
  operations that the code uses exist; nothing reads the PEL back.
* **Scheduler**: `run_once`, one action per statement (`FindReadyTasks`,
  `SkipIneligible`, `EnqueueLost`, `EnqueueWon`, `PushMessage`, `StoreMessageId`,
  `MarkJobRunning`, `CheckJobCompletions`, `SettleJob`, `EndCycle`), and
  `CycleError` for a call that raises. A batch holds the `retry_count` that was
  read, as the code does. A backoff window is `none`, `open` or `due`.
* **HeartbeatMonitor**: `MarkStaleDead`, `FindStuckTasks`, `ReapExhausted`,
  `ReapReset`, `AckReaped`, `ReapAckError`, `MonitorDone`, and the ends of the
  process.
* **Worker**: `_process_message` and `_handle_failure`, one action per statement,
  with a program counter per worker. `claims` is a history variable: the number
  of successful claims of each task.
* **JobsApi**: `SubmitJob`, `CancelCheck`, `CancelCommit`, `DeregisterWorker`. The
  cancellation's check and its commit are separate steps, because the SELECT takes
  no lock; its two UPDATEs are one step, because they become visible together and
  hold their row locks until the commit.
* **System**: the composition, the faults (seven kinds, at most `MaxFaults` in a
  behaviour), fairness and all properties.
* **TaskLifecycle**: the abstract specification, without workers, schedulers and
  messages: the life of a job and its tasks as a reader of the API sees it.
* **JobReads**: `get_job` and `list_jobs` next to all of `System`. A page of jobs is
  read in one step, the tasks of each of its jobs in another, because there is no
  transaction around them. The answer is judged when its last row is read, and kept
  nowhere. Requests see nothing of each other, so one stands for any number.
* **QueueDepths**: `get_queue_depths` (XPENDING, then XLEN, per stream) and
  `_snapshot_queue_metrics` (XLEN, then XPENDING). `run_once` waits for the snapshot:
  until it is over, this scheduler takes no other step (`Awaits`), the rest of the
  system does. The code takes it every fifteenth cycle, the model in any.
* **MCSystem**, **MCReads**, **MCDepths**: instances for TLC.
* **SystemTypes**, **SystemProofs**, **DispatchProofs**: theorems about `System`.
  **ReadProofs**: about what the API reports. **RecoveryProofs**: one executor, the
  bound on attempts, dead letters, verdicts, and the refinement.
* **Diagnostics**: the rules of `rules.py` and `diagnostics_stage.run` as operators.
  Rates are counted in ten-thousandths and decibels in hundredths, the digits to
  which the stages round.
* **StageLogic**: the DAG of `shared/constants.py` and the seven `run` functions. A
  stage yields the set of its possible results, because it draws at random or asks
  a model; an empty set means that it raises. Texts are opaque, and of the keys of
  a dict those are kept that a later stage or the report reads.
* **DataFlow**: rows and executions of one job. `FetchInputs` reads the rows of the
  dependencies in one step, as the single query does, and merges them in any order;
  `Complete` writes by id alone in a later step. `Reap` takes the task from a worker
  that goes on. What `System` does in several statements (dispatch, claim, the
  failure handler) is one step here: only the moments of reading inputs and writing
  results matter. `Updated` is `dict.update`, `Merge` the loop over the rows. `writes` is
  a history variable.
* **Subscriptions**: `ConnectionManager`'s dashboard list, `ws_dashboard` and the
  broadcast, one action per stretch between two awaits. `Purge` removes the dead
  sockets up to the first one that its handler has removed before: there
  `list.remove` raises `ValueError` and the loop starts over.
* **LiveDashboard**: the hook `useDashboard`, connections and faults around it;
  **DashboardProofs**: its theorems.

Reductions. `WindowElapses` happens only between two cycles: a window is looked at
once per cycle, so a later moment inside the cycle makes no difference. `cleanup`
may drop any set of due windows (the code drops those due for five minutes, every
fifteenth cycle). `execute` is success or failure, nondeterministically, any time.
Restarting a worker keeps its hostname and so its row in `workers` (a restarted
container); a container with a new hostname is another member of `Workers`. A
worker handles all stages of its stream (`Serves`), as all six workers of the
repository do. The operators `ReadyAfterFailure`, `ResetAlways` and so on, each
commented "Mutant of", are wrong variants of the definition that follows them. No
specification uses them; they are there to see that each property fails when the
code is wrong in that way.

## 3. What TLC checks

Every run explores all reachable states of its instance.

| run | instance | properties |
|---|---|---|
| `faults` | job of two dependent stages (1 and 0 retries), 2 workers, 1 scheduler, 1 cancellation, 1 fault of any of the seven kinds; 430 thousand states | `TypeOK`, `AttemptAccounting`, `SingleDispatch`, `InputsAvailable`, `CompletedJobHasReport`, `FailedOnlyExhausted`, `SettledStaysSettled`, `VerdictsStand`, `OnlyFaultsStrand`, `StartsAreNoticed` |
| `two_schedulers` | 2 schedulers, 1 worker, 1 stage, 1 retry, 1 cancellation, 1 fault (crash of either, late heartbeat, deregistration); 650 thousand states | `AttemptAccounting`, `SingleDispatch`, `OpenAttemptsArePending` |
| `recovery` | as `faults`, but only crashes and failing calls, and 1 reading request at a time (`MCReads`); 260 thousand states | `SingleExecutor`, `AttemptsBounded`, `DeadLettersAreTrue`, `VerdictsAreHonest`, `ImplementsLifecycle`, `AnswersAreWhole` |
| `backlog` | 2 jobs of different priority, LIMIT 1, 1 worker, 1 retry, no faults, queue depths read and snapshots taken (`MCDepths`); 33 thousand states | `DepthsAreConsistent`, `SnapshotIsConsistent`, and under fairness `JobsAreDecided`, `ExhaustedIsBuried` |
| `late_heartbeat` | 2 workers, 1 retry, 1 late heartbeat; 76 thousand states | `EveryAttemptEnds`, `JobsAreDecided`, under fairness |
| `data_flow` | the seven stages, 3 workers, 1 retry, 2 attempts given up, 2 texts, draws on both sides of a threshold; 360 thousand states | `TypeOK`, `ResultsFollow`, `MergeOrderIrrelevant`, `DiagnosisSeesErrorRate` |
| `live_dashboard` | 1 hook mounted up to twice, 3 sockets, 1 fault (lost connection, handler error, restart of the API); 47 thousand states | `TypeOK`, `SubscribersAreListed`, `ReconnectsDoNotMultiply`, and under fairness `GhostsLeave`, `DashboardsStayLive`, `NothingLeftBehind` |
| `data_report` | as `data_flow`, without give-ups | one property, violated: see section 5 |
| `cancel_race`, `crashed_reader`, `unburied`, `two_executors` | one job of one stage | one property each, violated: see section 5 |

What the properties say:

* `AttemptAccounting`: `retry_count` is the number of claims that were given up;
  no crash, late worker or second monitor counts a retry twice or loses one.
* `SingleDispatch`: between unread messages, readers before their claim and
  dispatches before their XADD there is never more than one chance to claim a
  task, and none while it is PENDING or RUNNING. Messages of earlier attempts can
  therefore not start a task again.
* `OnlyFaultsStrand`: a task that says ENQUEUED or RUNNING and that nobody has, neither
  as a message nor in a worker, was left behind by a crash or a raised call, and each of
  these leaves at most one behind. No order of lost races, cancellations, retries, late
  workers and resets loses a task by itself.
* `StartsAreNoticed`: a job is marked RUNNING by the last write of a dispatch. One that
  reads PENDING may have tasks that ran long ago, but no more of them than faults.
* `OpenAttemptsArePending`: the message of an attempt that is not over is in the PEL.
  The monitor's XACK uses an id that it read from the row earlier, and that a slow
  dispatch may have stored after the task was claimed; it never hits a later attempt.
* `InputsAvailable`, `CompletedJobHasReport`: the results a stage reads, and the
  results a COMPLETED job displays, are in the database, although failures and
  verdicts overwrite rows without looking at them.
* `FailedOnlyExhausted`: no task is failed with retries left.
* `SettledStaysSettled`: no step reopens a terminal task or job.
* `VerdictsStand`: a verdict of the scheduler is never replaced by the other verdict,
  although tasks of a decided job may still turn from FAILED to COMPLETED or back. One
  scheduler is needed: two may query before and after such a turn, and the verdicts
  they found, written one after the other, differ.
* `SingleExecutor`, `ImplementsLifecycle`: as long as heartbeats tell the truth and
  one scheduler runs, a task has one executor, and the tables move as
  `TaskLifecycle` says.
* `AttemptsBounded`: under the same conditions a task is handed out at most
  `max_retries` + 1 times, although worker and monitor compare counts that they read
  before the UPDATE.
* `DeadLettersAreTrue`: a task in the dead-letter stream is there once, and is FAILED.
* `VerdictsAreHonest`: what a job reads is true of its tasks, when it is written and
  ever after. It needs, as the refinement does, that no call raises after a result was
  stored: that may turn a COMPLETED task of a decided job into a FAILED one.
* `AnswersAreWhole`: although job and tasks are read at different moments, no answer
  shows a decided job with a task still to run, a RUNNING job none of whose tasks was
  ever dispatched, or a CANCELLED job with a task waiting for its first attempt. It
  holds because the code reads the job first.
* `DepthsAreConsistent`, `SnapshotIsConsistent`: neither `GET /api/queues` nor the
  snapshot reports more messages waiting for their XACK than messages. The route asks
  in the right order; the snapshot does not, and is saved by being awaited. With a
  second scheduler the argument fails: `SnapshotsAreConsistent` assumes a single one.
* `EveryAttemptEnds`, `JobsAreDecided`, `ExhaustedIsBuried`: liveness. A job one of
  whose stages failed is excepted from `JobsAreDecided`: its dependent stages stay
  PENDING and it stays RUNNING.
* `ResultsFollow`: a stored result was computed from results of all dependencies, and
  recomputing it from what is stored now could give it again, unless a dependency
  was stored twice. The exception is real: a worker that lost speech_to_text and
  writes late leaves nlp_processing and grammar_correction with two transcripts.
* `MergeOrderIrrelevant`: nlp_processing and natural_phrasing both write
  `original_text`, and the query has no ORDER BY; no stage's result depends on it.
* `DiagnosisSeesErrorRate`: diagnostics does not depend on speech_to_text; the error
  rate reaches it because nlp_stage copies it.
* `SubscribersAreListed`, `GhostsLeave`: a connected client is in the list exactly
  once; a socket without a client leaves it, although a handler that ends by any
  exception but `WebSocketDisconnect` does not take it out and a clean-up may be cut
  short by `ValueError`.
* `DashboardsStayLive`: an open dashboard gets new data again and again.
* `ReconnectsDoNotMultiply`, `NothingLeftBehind`: one chain of connections per mount;
  a hook mounted once leaves nothing behind, also when it is unmounted while it
  reconnects. A hook mounted twice with the same refs (React's strict mode, which
  `next.config.ts` switches on for development) may keep two chains, because the
  first socket's `onclose` finds `mountedRef` true again, and its cleanup closes only
  one of them.

Why the bounds are enough. The interactions involve a task and the task it depends
on, so two stages show them; fan-out and fan-in are in `data_flow`, and the theorems hold
for every DAG.
A task has one retry: enough for a second dispatch, a message and a claim of an
earlier attempt, and exhaustion. A second worker or scheduler is enough for every
race, since none of them involves three processes at distinct places of the code.
One fault is enough to put a process into any inconsistent place once; that recovery
from one fault is itself interrupted by another is covered by the proofs, which hold for
any number of them.
Requests are let in where faults are few (`recovery`): they write nothing, so only
`AnswersAreWhole` depends on them, and late heartbeats, which multiply the states, are
left out of that run and allowed in the proof. `MaxCancels` is 1: cancellations in flight at once do the same thing.
The proofs of section 4 have no bounds at all. In `data_flow` three workers are both
branches and one worker that lost its task; two give-ups take a task away twice or
two tasks once. In `live_dashboard` three sockets are two in the list when a
broadcast begins and one that comes during it; a closed WebSocket that nothing
refers to is used again as a new one, so that reconnecting has no bound. One fault
suffices for each of the three kinds of ghosts, since unmounting closes connections
as often as mounting allows. In `faults` a second task is rarely under way, since one
stage waits for the other: that a fault strands one task at most is checked there for
what little overlap there is, and general by its proof.

Symmetry of workers and of schedulers is used in the runs without liveness
properties.

Fairness (`FairSpec`). Processes that are down are started again, which is an
operator's task: `docker-compose.yml` has no restart policy. A process that can
take a step takes one, because all of them are loops (weak fairness). `main()`
comes back to `run_once` and to the monitor again and again while other steps
disable both, hence strong fairness of their first steps; the same for the passing
of time in `asyncio.sleep`. A living worker's heartbeat arrives and a dead worker's
ends. `execute` is assumed to end, with a result or an exception; nothing is assumed of
which. Nothing is assumed of clients and of faults.

How weak the premise on heartbeats is. A living worker's beat reaches the table only if
`_send_heartbeat` succeeds, and it runs on an event loop of its own thread
(`base_worker.py:122-138`), over an asyncpg pool that was created on the main loop
(`base_worker.py:84`) and whose connections belong to that loop. What it raises is logged
and forgotten (`base_worker.py:129-130`). Beats may thus seldom arrive in practice. In
the model a living worker that looks dead is a fault and counted. What is claimed
without such faults (run `recovery`, and the theorems under `Trusting` and `Truthful`)
is a statement about the design with working heartbeats; the runs `faults`,
`two_schedulers`, `late_heartbeat` and `two_executors`, and the theorems without that
condition, are about the code as it may run.

In `live_dashboard`, weak fairness: events of the browser and steps of the event loop
happen, a send returns or raises, and not every read of the loop fails. A client
whose connection hangs without an error would hold up `send_text` and with it every
other dashboard; that is assumed away. Nothing is assumed of mounts and faults.

The scheduler never stops, workers poll for ever and the broadcast loop runs on, so
deadlock is checked in these runs. In `data_flow` the one job ends, and there it is not.

## 4. What is proved

For all values of the constants, from the assumptions named in the modules
(`DagAssumption`: dependencies are stages; `RetriesAssumption`, `PriorityAssumption`,
`ReadyLimitAssumption`: numbers; `StreamAssumption`, `ServesAssumption`: functions;
`NoWorkerAssumption`, `NoTaskAssumption`, `NoHookAssumption`: NULL is not a value):

* `TypeCorrect`: `Spec => []TypeOK`. Beyond types it contains that a worker past its
  read holds a message that was delivered, without which `TaskOf` has no value.
* `TasksKnown`: messages, dispatches and stuck rows refer to submitted tasks, and a
  submitted task's job exists.
* `AttemptsCounted`, `InputsAlwaysAvailable`, `CompletedJobsHaveReports`,
  `SettledIsFinal`: the properties of the same content above.
* `FailuresAreExhausted`: `FailedOnlyExhausted`.
* `DispatchedOnce`, `OnlyFaultsLose`, `StartsNoticed`, `AttemptsStayPending`:
  `SingleDispatch`, `OnlyFaultsStrand`, `StartsAreNoticed`, `OpenAttemptsArePending`, for
  any number of schedulers and any faults.
* `DataFlowTypes`, `StoredResultsFollow`: `TypeOK` and `ResultsFollow` of `DataFlow`,
  whatever the stages compute: the proof never looks into `Execute` or `Merges`.
* `StatusesMean`: what COMPLETED, FAILED, RUNNING and CANCELLED say of a job's tasks
  (PENDING is the subject of `StartsNoticed`). `JobAnswersAreWhole`,
  `DepthReportsAreConsistent`: what the API reports (`AnswersAreWhole`,
  `DepthsAreConsistent`); `SnapshotsAreConsistent`:
  `SnapshotIsConsistent`, for a single scheduler.
* `OrderNeverMatters`, `DiagnosisIsFed`: `MergeOrderIrrelevant` and
  `DiagnosisSeesErrorRate`, for any draws and texts.
* `EveryReportIsEmpty`: what run `data_report` shows for one job holds of every report
  that is ever stored. No transcript, no corrected text, no measurement, and the score
  that the defaults make.
* `OneExecutor`, `AttemptsAreBounded`, `DeadLettersTell`: `SingleExecutor`,
  `AttemptsBounded` and `DeadLettersAreTrue`, under the condition `Trusting`: one
  scheduler, and neither late heartbeats nor deregistrations among the faults. Any
  number of crashes of workers and scheduler, and any call that raises, is allowed.
  `two_executors` shows that the first needs truthful heartbeats.
* `HonestVerdicts`, `TheLifecycleIsKept`: `VerdictsAreHonest`, and that `System`
  implements `TaskLifecycle`, under `Truthful`: `Trusting`, and no call that raises
  between a stored result and its XACK.
* `VerdictsAreKept`: `VerdictsStand`, for one scheduler and any faults.
* `OnlyCancellationsRace`: with one scheduler and no cancellation a terminal status is
  final (`FinalJobIsFinal`), whatever fails. The race of `cancel_race` is the only one.
* `OneChainPerMount`: `ReconnectsDoNotMultiply`, for any number of hooks, mounts,
  sockets and faults (`SocketsAssumption`: they are finite); `DashboardTypes` and
  `SubscribersStayListed`: `TypeOK` and `SubscribersAreListed`, likewise.
* `AlertsShowInHealth`, `MostSevereFirst`, `NamedCausesNeedMetrics`: the diagnosis, for
  any measurements. The same limits stand in `rules.py` and in
  `diagnostics_stage.py`; they agree. The first triggered rule is the most severe.
  Without `snr_db` and `correction_count`, which no direct dependency of diagnostics
  hands on, neither named cause is ever found.

The argument. `TypeOK` is inductive by itself, one step per action. For the rest, a
lemma `TaskMoves` classifies what any step can do to the row of one task: it stays,
is submitted, queued, claimed, reset, completed, failed or skipped, each with what
happens to `retry_count`, `claims` and `result_json`; `JobMoves` does the same for
jobs. It needs `KnownTasks` (otherwise a write could hit a row that does not exist
yet). Each property is then an induction over a handful of moves instead of forty
actions. `InputsAvailable` needs that a COMPLETED task has its result and that no
result is ever removed. `CompletedJobHasReport` is not inductive: the verdict is
written later than it is computed. Its invariant adds that a verdict COMPLETED in
the scheduler's memory is backed by results of all tasks; that in turn needs to
know that SKIPPED tasks exist only in jobs that are not RUNNING any more, since the
query asks for RUNNING jobs and counts SKIPPED as done. `FailedOnlyExhausted` needs
that whoever is about to fail a task (a worker past its SELECT, a monitor with the
task in its list) read an exhausted count, and that counts never fall.

`SingleDispatch` counts tickets: unread messages, readers before their claim,
dispatches before their XADD. Most steps are calm: they move no message and start no
dispatch, and add no ticket. `EnqueueWon` creates one, from PENDING, where there is
none; `PushMessage` and `Poll` turn one into the next, which needs that each message
lies in its task's own stream; a claim, won or lost, uses it up, and a task returns
to PENDING only from RUNNING, where there is none either.

`OnlyFaultsStrand`. A step moves one scheduler, one worker or neither (`OneProcess`). A
task gets stranded when its last ticket, or the last worker at work on it, goes and its
status stays (`StrandedLoses`). In a step of a scheduler that is the task it dispatches,
in a step of a worker the one it holds, so there is one at most; and each statement but
the fault of that process either passes the ticket on or writes the status.

`OpenAttemptsArePending` follows the id of a message from the XADD through the task's
row and a stuck row to the XACK (`PendingInv`): everywhere it names a message of the
right task, two workers never hold the same message, and a stuck row, which was RUNNING,
names a message whose claim is over (`Past`). A message once past its claim stays so, and
after the monitor's UPDATE no attempt on it is open. A worker that reaches its own XACK
has stored a result, so its task is terminal (`StoredIsSettled`).

`StartsAreNoticed` is an induction over the number of tasks a PENDING job has to answer
for. A task is added only when its dispatch ends without `UPDATE jobs`, which is a fault
and counted (`FewUnnoticed`); nothing else starts a task, since messages, stuck rows and
dispatches are of tasks that were dispatched before (`DispatchedBefore`), and a row that
is inserted has no retries (`FreshRows`).

`ResultsFollow` needs that queued and executed tasks have stored results of all
dependencies, and that the inputs a worker holds are those it would fetch now as long
as none of these results was stored again. Storing one again makes a count exceed 1,
which ends the claim for all that depend on it.

`AnswersAreWhole` rests on what a status says of the tasks when it is displayed
(`StatusesMean`): COMPLETED and FAILED that all tasks are terminal, RUNNING that one
was dispatched, CANCELLED that none waits for its first attempt. No step undoes these
facts (`FactsStay`), so they hold when the tasks are read later, whatever the status
is by then. CANCELLED needs that `cancel_job` writes job and tasks in one transaction.

`DepthsAreConsistent` needs that the PEL never holds more messages of a stream than
were delivered from it, and the cursor is at most the length (`PelInv`); and streams
never shrink, so a length read later is no smaller.

`RecoveryInv` says who is engaged with a task, and how its row looks to him
(`Engagement`): who executes it owns its RUNNING row, who handles a failure owns it or
has stored the result before, who comes after finds COMPLETED or FAILED. At most one
worker is engaged with a task (`OneEngaged`); a row in the monitor's list is RUNNING,
unchanged since it was read, held once, and nobody is engaged with its task
(`StuckAreLost`); a living worker never looks dead, so the monitor's query cannot find
the row of one. None of these is inductive alone: that the row does not change needs
that nobody works on it, and that nobody starts to needs that it is RUNNING. That a
count stays within the limit needs both, because worker and monitor compare before they
write; with `AttemptAccounting` it bounds the claims. A dead letter is written by the
one worker that is engaged with a FAILED task, who then lets go of it, and nobody can
engage with a FAILED task again (`BuriedOnce`).

`TruthInv` adds what a verdict needs until it is written. No failure is handled of a
task whose result is stored (here the condition on late calls enters), so no terminal
task ever changes, and a batch keeps its dependencies COMPLETED. A verdict in the
scheduler's memory then stays true, unless the job was cancelled meanwhile, and so does
a verdict in the table. For the refinement each step is one of the abstract moves or is
not seen: every write of a row hits the row it was meant for.

`VerdictsStand` uses none of this, because it holds even when workers lie. With one
scheduler a job whose verdict is in memory is RUNNING, or cancelled since, and has one
verdict (`OneVerdictEach`), since the query asks for RUNNING jobs, the list is used up
before the next query, and no one else writes verdicts.

`MergeOrderIrrelevant` and what follows. A stage has at most two dependencies, so the
fold that merges their results is unrolled (`MergeOne`, `MergeTwo`), from
the recursive function by which the community modules define it. The invariant
`ResultKeys` says which keys each stored result has; the two that diagnostics merges
share `original_text` only, at which no rule looks. `RateInv` follows one number: the
rate that nlp_processing stored, and that an execution of diagnostics holds, is the
rate in the row of speech_to_text as long as neither was stored twice. `ReportInv`
follows the keys: aggregation gets those of the diagnosis and of the input, and finds
among them the pipeline's status and the alerts, but nothing else that it looks for.

`ReconnectsDoNotMultiply` needs that a socket has an owner exactly from `connect()` to
`onclose`: then a new connection is one more and each `onclose` one less, and the
timer that takes its place is at most one.

`SubscribersAreListed` is not inductive: it needs that the list has no repetitions, that
a handler in `accept()` is not in it yet, and that a socket in the broadcast's list of
dead ones has no working link, so that removing it takes no subscriber away (`ListInv`).
`Purge` removes a list of any length, one socket after the other. The library's
induction theorems have an operator as a parameter; `SetInduction` is the same principle
with a set in its place, derived from the well-foundedness of the naturals, and is
instantiated with the set of the lengths at which removing keeps what it should.

Model-checked only: liveness (`JobsAreDecided`, `ExhaustedIsBuried`, `EveryAttemptEnds`,
`GhostsLeave`, `DashboardsStayLive`, `NothingLeftBehind`) and everything about ENABLED,
which are beyond the prover.

## 5. Where documentation and code differ

* `cancel_race`: a job "already in terminal state" is refused by `cancel_job`
  (`jobs.py:245-249`), but check and write are apart, and so are the scheduler's
  query and verdict: each can overwrite the terminal status the other wrote.
* `crashed_reader`: the README names the PEL as the means of crash recovery
  (`README.md:114`); nobody reads it. A worker that dies between read and claim
  leaves its task ENQUEUED for ever.
* `unburied`: exhausted retries are promised a dead letter (`README.md:47`); the
  monitor's branch writes none.
* `data_report`: `aggregation_stage.py:21-22` and `base_worker.py:273` promise aggregation
  the results of all stages. It gets those of diagnostics alone, so every report has an
  empty transcript, no corrected text and the score 9.2 of the defaults. For the same
  reason diagnostics never sees `snr_db` and `correction_count`, which
  `diagnostics_stage.py:25-30` lists.
* `two_executors`: "only one worker wins per task" (`base_worker.py:182`) is true per
  dispatch. A late heartbeat makes a second dispatch while the first executes.

Behaviours the model contains and no document rules out: a RUNNING task whose worker
restarted under the same hostname before the monitor looked is never reclaimed; a
task of a cancelled job that fails is dispatched again; a job with a failed stage
stays RUNNING; `retry_count` may exceed `max_retries` when a worker and the monitor
give up the same task after one another; a COMPLETED task turns FAILED when a call
raises after its result was stored and no retry is left; a job submitted with
`duration_ms: null` fails in its first stage, because `float(None)` raises; a low
fluency score makes a stage CRITICAL and the pipeline only DEGRADED;
`broadcast_job_update` has no caller, so the sockets of `/ws/jobs/{job_id}` never get
a message although `jobs.py:274` says updates are pushed; `queue_depth_pending` is the
length of a stream, which XACK does not shorten and nobody trims, although
`shared/metrics.py:67` and the chart ("Pending tasks", `QueueDepthChart.tsx:57`) take
it for the number of messages that wait.

## 6. Not modelled, and the plan

Not modelled: Prometheus counters, which nothing reads back; the routes that
aggregate timestamps; `get_job_dag` (one SELECT, no state) and the total of
`list_jobs`; rendering in the frontend, with the late answers that `TaskDAGViewer` may
get while it polls; validation of requests; the length of a backoff delay; the per-job
socket lists, which work as the dashboard's but have no broadcaster; `useJobStream`,
which no page uses. A call to Redis that raises while depths are read yields zeros or
nothing, and is left out of `QueueDepths`.

Order of the work:

1. Done: tables, streams, scheduler, monitor, worker, writing requests, composition,
   abstract life cycle; types, accounting, dispatch, inputs, failures, verdicts and
   finality proved.
2. Done: `Diagnostics`, `StageLogic`, `DataFlow` with their theorems;
   `Subscriptions` and `LiveDashboard`.
3. Done: the reading requests and the snapshot, with their theorems; `SingleExecutor`
   and the refinement proved; `ReconnectsDoNotMultiply` proved.
4. Done: attempts, dead letters and verdicts (`AttemptsBounded`, `DeadLettersAreTrue`,
   `VerdictsAreHonest`, `VerdictsStand`) checked and proved; `MergeOrderIrrelevant`,
   `DiagnosisSeesErrorRate` and `SubscribersAreListed` proved.
5. Done: tasks that nobody has, jobs that read PENDING and the ids in the PEL
   (`OnlyFaultsStrand`, `StartsAreNoticed`, `OpenAttemptsArePending`) checked and proved.
6. Left: `Backoff` with numbers (the delay, its cap and the age of eviction), shown to
   implement the windows `none`, `open` and `due` of `Scheduler`.
7. Left: the per-job socket lists and `disconnect_job`, with ghosts that nobody removes,
   and an abstract dashboard channel that `LiveDashboard` implements.

Not to be proved, because TLC refutes it: `SingleExecutor`, `AttemptsBounded`,
`DeadLettersAreTrue` and `VerdictsStand` for two schedulers, even with truthful
heartbeats and a single crash of a worker. Two monitors may hold the row of the same dead
worker; the second resets or fails the attempt that was dispatched after the first reset,
while its worker executes it. `AttemptAccounting` and
`SingleDispatch` survive that, and are proved for any number of schedulers.
