--------------------------- MODULE DispatchProofs ---------------------------
(***************************************************************************)
(* What becomes of a task between the optimistic lock and the end of its   *)
(* attempt, for any number of schedulers, workers, jobs and faults.        *)
(*                                                                         *)
(* SingleDispatch: a ticket is a chance to claim a task; the proof follows *)
(* it from the scheduler that won the lock, through the stream, to the     *)
(* worker that reads it, and shows that no step adds a second one.         *)
(* OnlyFaultsStrand: nor does any step but a fault take the last one away. *)
(* OpenAttemptsArePending: the id of the message, followed the same way,   *)
(* acknowledges nothing but the attempt it belongs to.                     *)
(* StartsAreNoticed: every dispatch that is not cut off marks its job.     *)
(***************************************************************************)
EXTENDS SystemProofs, FiniteSetTheorems

USE DEF tableVars, redisVars, schedulerVars, monitorVars, workerVars

-----------------------------------------------------------------------------
(* Every message lies in the stream of its task.                           *)
RightStream ==
    \A q \in Streams : \A i \in 1 .. Len(log[q]) : StreamOf(log[q][i]) = q

DispatchInv == RightStream /\ SingleDispatch

IsMessage(t, i) == i \in Undelivered(StreamOf(t)) /\ log[StreamOf(t)][i] = t
IsReader(t, w) == w \in Workers /\ At(w, "claim") /\ TaskOf(w) = t
IsDispatch(t, s) == s \in Schedulers /\ spc[s] = "xadd" /\ current[s] = t

(* The three kinds of ticket.                                              *)
LEMMA TicketKinds ==
    ASSUME NEW t \in Tasks, NEW x
    PROVE  x \in Tickets(t) <=> \/ \E i : IsMessage(t, i) /\ x = <<"message", i>>
                                \/ \E w : IsReader(t, w) /\ x = <<"reader", w>>
                                \/ \E s : IsDispatch(t, s) /\ x = <<"dispatch", s>>
BY DEF Tickets, IsMessage, IsReader, IsDispatch

(* The same, of the next state.                                            *)
LEMMA NextTicketKinds ==
    ASSUME NEW t \in Tasks, NEW x
    PROVE  x \in Tickets(t)' <=> \/ \E i : IsMessage(t, i)' /\ x = <<"message", i>>
                                 \/ \E w : IsReader(t, w)' /\ x = <<"reader", w>>
                                 \/ \E s : IsDispatch(t, s)' /\ x = <<"dispatch", s>>
BY DEF Tickets, IsMessage, IsReader, IsDispatch

-----------------------------------------------------------------------------
(* Steps that put no message into a stream, take none out, and start no    *)
(* dispatch.                                                               *)
CalmSchedulers ==
    \A s \in Schedulers : spc'[s] = "xadd" => spc[s] = "xadd" /\ current'[s] = current[s]

CalmWorkers ==
    \A w \in Workers : wpc'[w] = "claim" => wpc[w] = "claim" /\ held'[w] = held[w]

Calm == log' = log /\ cursor' = cursor /\ CalmSchedulers /\ CalmWorkers

(* Such a step creates no ticket.                                          *)
LEMMA CalmAddsNoTicket ==
    ASSUME Calm, NEW t \in Tasks
    PROVE  Tickets(t)' \subseteq Tickets(t)
<1> SUFFICES ASSUME NEW x \in Tickets(t)' PROVE x \in Tickets(t)
  OBVIOUS
<1>1. \A i : IsMessage(t, i)' => IsMessage(t, i)
  BY DEF Calm, IsMessage, Undelivered, StreamOf
<1>2. \A w : IsReader(t, w)' => IsReader(t, w)
  BY DEF Calm, CalmWorkers, IsReader, At, TaskOf
<1>3. \A s : IsDispatch(t, s)' => IsDispatch(t, s)
  BY DEF Calm, CalmSchedulers, IsDispatch
<1> QED BY <1>1, <1>2, <1>3, TicketKinds, NextTicketKinds

(* In the process of a scheduler only EnqueueWon and PushMessage are not   *)
(* calm.                                                                   *)
LEMMA SchedulerIsCalm ==
    ASSUME TypeOK, NEW s \in Schedulers, SchedulerSteps(s)
    PROVE  Calm \/ (RunCycle(s) /\ (EnqueueWon(s) \/ PushMessage(s)))
<1>0. spc \in [Schedulers -> SchedulerPC] /\ current \in [Schedulers -> Tasks \cup {NoTask}]
  BY DEF TypeOK, SchedulerTypeOK
<1>1. UNCHANGED workerVars
  BY DEF SchedulerSteps, StartScheduler, RunCycle, RunMonitor, TimePasses,
         SchedulerFault, SchedulerAlone
<1>2. CalmWorkers
  BY <1>1 DEF CalmWorkers
<1>3. ASSUME UNCHANGED <<spc, current>> PROVE CalmSchedulers
  BY <1>3 DEF CalmSchedulers
<1>4. ASSUME NEW label, label # "xadd", Goto(s, label),
             UNCHANGED current \/ \E v : current' = [current EXCEPT ![s] = v]
      PROVE  CalmSchedulers
  BY <1>0, <1>4 DEF CalmSchedulers, Goto
<1>5. CASE StartScheduler(s) \/ TimePasses(s)
  BY <1>2, <1>3, <1>4, <1>5
     DEF StartScheduler, SchedulerStart, TimePasses, WindowElapses, Calm
<1>6. CASE SchedulerFault(s)
  BY <1>2, <1>4, <1>6
     DEF SchedulerFault, CycleError, ReapAckError, BackToReap, MonitorError,
         SchedulerCrash, ProcessEnds, ForgetLocals, Calm
<1>7. CASE RunMonitor(s)
  <2>1. CASE MarkStaleDead(s) \/ FindStuckTasks(s) \/ MonitorDone(s)
    BY <1>2, <1>4, <2>1 DEF MarkStaleDead, FindStuckTasks, MonitorDone, Calm
  <2>2. CASE ReapExhausted(s) \/ ReapReset(s) \/ AckReaped(s)
    BY <1>2, <1>3, <1>4, <2>2 DEF ReapExhausted, ReapReset, AckReaped, BackToReap, Calm
  <2> QED BY <1>7, <2>1, <2>2 DEF RunMonitor, MonitorStep
<1>8. CASE RunCycle(s)
  <2>1. CASE FindReadyTasks(s) \/ StoreMessageId(s) \/ MarkJobRunning(s)
             \/ CheckJobCompletions(s) \/ EndCycle(s)
    BY <1>2, <1>4, <2>1 DEF FindReadyTasks, StoreMessageId, MarkJobRunning,
                            CheckJobCompletions, EndCycle, Calm
  <2>2. CASE SkipIneligible(s) \/ EnqueueLost(s) \/ SettleJob(s)
    BY <1>2, <1>3, <2>2 DEF SkipIneligible, EnqueueLost, SettleJob, Calm
  <2> QED BY <1>8, <2>1, <2>2 DEF RunCycle, CycleStep
<1> QED BY <1>5, <1>6, <1>7, <1>8 DEF SchedulerSteps

(* In the process of a worker only Poll is not calm.                       *)
LEMMA WorkerIsCalm ==
    ASSUME TypeOK, NEW w \in Workers,
           \/ StartWorker(w) \/ RunWorker(w) \/ BeatHeart(w)
           \/ GoStale(w) \/ WorkerFault(w) \/ Deregistration(w)
    PROVE  Calm \/ (RunWorker(w) /\ Poll(w))
<1>0. wpc \in [Workers -> WorkerPC] /\ held \in [Workers -> Nat]
  BY DEF TypeOK, WorkerTypeOK
<1>1. CalmSchedulers
  BY DEF StartWorker, RunWorker, BeatHeart, GoStale, WorkerFault, Deregistration,
         WorkerAlone, ApiAlone, CalmSchedulers
<1>2. ASSUME UNCHANGED <<wpc, held>> PROVE CalmWorkers
  BY <1>2 DEF CalmWorkers
<1>3. ASSUME NEW label, label # "claim", Jump(w, label),
             UNCHANGED held \/ \E i : held' = [held EXCEPT ![w] = i]
      PROVE  CalmWorkers
  BY <1>0, <1>3 DEF CalmWorkers, Jump
<1>4. CASE StartWorker(w)
  BY <1>1, <1>3, <1>4 DEF StartWorker, Register, Calm
<1>5. CASE BeatHeart(w) \/ GoStale(w) \/ Deregistration(w)
  BY <1>1, <1>2, <1>5 DEF BeatHeart, Heartbeat, GoStale, HeartbeatLapse, Deregistration,
                          DeregisterWorker, ApiAlone, Calm
<1>6. CASE WorkerFault(w)
  BY <1>1, <1>2, <1>3, <1>6
     DEF WorkerFault, WorkerCrash, LoopError, LetGo, PersistError, HeartbeatLapse, Calm
<1>7. CASE RunWorker(w)
  <2>1. CASE ClaimWon(w) \/ ClaimLost(w) \/ MarkBusy(w) \/ Complete(w) \/ ExecuteFails(w)
    BY <1>1, <1>3, <2>1 DEF ClaimWon, ClaimLost, MarkBusy, Complete, ExecuteFails, Calm
  <2>2. CASE MarkIdle(w) \/ ResetToPending(w) \/ MarkFailed(w) \/ Bury(w)
    BY <1>1, <1>3, <2>2 DEF MarkIdle, ResetToPending, MarkFailed, Bury, Calm
  <2>3. CASE Ack(w)
    BY <1>1, <1>3, <2>3 DEF Ack, LetGo, Calm
  <2>4. CASE ReadRetries(w)
    BY <1>1, <1>3, <2>4 DEF ReadRetries, Calm
  <2>5. CASE MarkIdleAfterFailure(w)
    BY <1>1, <1>3, <2>5 DEF MarkIdleAfterFailure, NextAfterIdle, Calm
  <2> QED BY <1>7, <2>1, <2>2, <2>3, <2>4, <2>5 DEF RunWorker, WorkerStep
<1> QED BY <1>4, <1>5, <1>6, <1>7

(* All steps of the system.                                                *)
LEMMA CalmOrNot ==
    ASSUME TypeOK, [Next]_vars
    PROVE  \/ Calm
           \/ \E s \in Schedulers : RunCycle(s) /\ (EnqueueWon(s) \/ PushMessage(s))
           \/ \E w \in Workers : RunWorker(w) /\ Poll(w)
<1>1. CASE UNCHANGED vars
  BY <1>1 DEF vars, Calm, CalmSchedulers, CalmWorkers
<1>2. ASSUME NEW j \in Jobs, Request(j) PROVE Calm
  BY <1>2 DEF Request, SubmitJob, CancelCheck, CancelCommit, ApiAlone, Calm,
              CalmSchedulers, CalmWorkers
<1>3. CASE Next
  BY <1>2, <1>3, SchedulerIsCalm, WorkerIsCalm DEF Next, SchedulerSteps
<1> QED BY <1>1, <1>3

-----------------------------------------------------------------------------
(* Only a claim that is won counts as a claim.                             *)
LEMMA ClaimWriter ==
    ASSUME [Next]_vars
    PROVE  UNCHANGED claims \/ \E w \in Workers : ClaimWon(w)
<1>1. CASE UNCHANGED vars
  BY <1>1 DEF vars
<1>2. ASSUME NEW s \in Schedulers, SchedulerSteps(s) PROVE UNCHANGED claims
  BY <1>2 DEF SchedulerSteps, StartScheduler, RunCycle, RunMonitor, TimePasses,
              SchedulerFault, SchedulerAlone
<1>3. ASSUME NEW w \in Workers,
             \/ StartWorker(w) \/ RunWorker(w) \/ BeatHeart(w)
             \/ GoStale(w) \/ WorkerFault(w) \/ Deregistration(w)
      PROVE  UNCHANGED claims \/ ClaimWon(w)
  BY <1>3 DEF StartWorker, Register, RunWorker, WorkerStep, Poll, ClaimLost, MarkBusy,
         Complete, ExecuteFails, MarkIdle, Ack, ReadRetries, ResetToPending,
         MarkFailed, MarkIdleAfterFailure, Bury, BeatHeart, Heartbeat, GoStale,
         HeartbeatLapse, WorkerFault, WorkerCrash, LoopError, PersistError,
         Deregistration, ApiAlone
<1>4. ASSUME NEW j \in Jobs, Request(j) PROVE UNCHANGED claims
  BY <1>4 DEF Request, ApiAlone
<1> QED BY <1>1, <1>2, <1>3, <1>4 DEF Next, SchedulerSteps

(* Every message stays in the stream of its task.                          *)
LEMMA RightStreamKept ==
    ASSUME TypeOK, RightStream, [Next]_vars
    PROVE  RightStream'
<1>1. CASE log' = log
  BY <1>1 DEF RightStream, StreamOf
<1>2. ASSUME NEW s \in Schedulers, PushMessage(s) PROVE RightStream'
  <2> SUFFICES ASSUME NEW q \in Streams, NEW i \in 1 .. Len(log'[q])
               PROVE  StreamOf(log'[q][i]) = q
    BY DEF RightStream, StreamOf
  <2>1. log \in [Streams -> Seq(Tasks)] /\ current[s] \in Tasks
    BY <1>2 DEF TypeOK, RedisTypeOK, PushMessage, SchedulerTypeOK
  <2>2. log' = [log EXCEPT ![StreamOf(current[s])] = Append(@, current[s])]
    BY <1>2 DEF PushMessage, XAdd
  <2>3. CASE q = StreamOf(current[s])
    <3>1. log'[q] = Append(log[q], current[s]) /\ log[q] \in Seq(Tasks)
      BY <2>1, <2>2, <2>3
    <3>2. CASE i = Len(log[q]) + 1
      BY <2>1, <2>3, <3>1, <3>2
    <3>3. CASE i \in 1 .. Len(log[q])
      BY <2>1, <3>1, <3>3 DEF RightStream
    <3> QED BY <2>1, <3>1, <3>2, <3>3
  <2>4. CASE q # StreamOf(current[s])
    BY <2>1, <2>2, <2>4 DEF RightStream
  <2> QED BY <2>3, <2>4
<1> QED BY <1>1, <1>2, LogWriter

-----------------------------------------------------------------------------
(* SingleDispatch of one task.                                             *)
OneTicket(t) ==
    /\ \A x, y \in Tickets(t) : x = y
    /\ tasks[t].status \in {"ABSENT", "PENDING", "RUNNING"} => Tickets(t) = {}

(* Calm steps keep it: a task becomes claimable in no such step, and the   *)
(* claim uses the only ticket up.                                          *)
LEMMA CalmKeepsOneTicket ==
    ASSUME TypeOK, KnownTasks, [Next]_vars, Calm, NEW t \in Tasks, OneTicket(t)
    PROVE  OneTicket(t)'
<1>1. Tickets(t)' \subseteq Tickets(t)
  BY CalmAddsNoTicket
<1>2. CASE Tickets(t) = {} \/ Tickets(t)' = {}
  BY <1>1, <1>2 DEF OneTicket
<1>3. CASE Tickets(t) # {} /\ ~IsClaimed(t)
  <2>1. tasks'[t].status \notin {"ABSENT", "PENDING", "RUNNING"}
    BY <1>3, TaskMoves DEF TaskMove, Stays, IsSubmitted, IsQueued, IsReset, IsCompleted,
                           IsFailed, IsSkipped, Moves, OneTicket
  <2> QED BY <1>1, <2>1 DEF OneTicket
<1>4. CASE IsClaimed(t)
  <2>1. claims' # claims
    BY <1>4 DEF IsClaimed, TypeOK, WorkerTypeOK
  <2>2. PICK w \in Workers : ClaimWon(w)
    BY <2>1, ClaimWriter
  <2>3. TaskOf(w) = t
    BY <1>4, <2>2 DEF IsClaimed, ClaimWon, TypeOK, WorkerTypeOK
  <2>4. IsReader(t, w) /\ ~IsReader(t, w)'
    BY <2>2, <2>3 DEF IsReader, ClaimWon, At, Jump, TypeOK, WorkerTypeOK
  <2>5. <<"reader", w>> \in Tickets(t) /\ <<"reader", w>> \notin Tickets(t)'
    BY <2>4, TicketKinds, NextTicketKinds
  <2>6. Tickets(t)' = {}
    BY <1>1, <2>5 DEF OneTicket
  <2> QED BY <1>2, <2>6
<1> QED BY <1>2, <1>3, <1>4

(* Winning the optimistic lock gives a ticket to a PENDING task, which had *)
(* none.                                                                   *)
LEMMA EnqueueKeepsOneTicket ==
    ASSUME TypeOK, NEW s \in Schedulers, RunCycle(s), EnqueueWon(s),
           NEW t \in Tasks, OneTicket(t)
    PROVE  OneTicket(t)'
<1>0. /\ spc \in [Schedulers -> SchedulerPC]
      /\ current \in [Schedulers -> Tasks \cup {NoTask}]
      /\ tasks \in [Tasks -> TaskRow]
  BY DEF TypeOK, SchedulerTypeOK, TablesTypeOK
<1>1. PICK r \in batch[s] : /\ StillPending(r.task)
                            /\ SetStatus(r.task, "ENQUEUED")
                            /\ current' = [current EXCEPT ![s] = r.task]
  BY DEF EnqueueWon
<1>2. r.task \in Tasks
  BY DEF TypeOK, SchedulerTypeOK, ReadyRow
<1>3. \A i : IsMessage(t, i)' => IsMessage(t, i)
  BY DEF EnqueueWon, IsMessage, Undelivered, StreamOf
<1>4. \A w : IsReader(t, w)' => IsReader(t, w)
  BY DEF RunCycle, SchedulerAlone, EnqueueWon, IsReader, At, TaskOf
<1>5. \A u : IsDispatch(t, u)' => IsDispatch(t, u) \/ (u = s /\ t = r.task)
  BY <1>0, <1>1 DEF EnqueueWon, IsDispatch, Goto
<1>6. CASE t = r.task
  <2>1. Tickets(t) = {}
    BY <1>1, <1>6 DEF StillPending, OneTicket
  <2>2. \A x \in Tickets(t)' : x = <<"dispatch", s>>
    BY <1>3, <1>4, <1>5, <2>1, TicketKinds, NextTicketKinds
  <2>3. tasks'[t].status = "ENQUEUED"
    BY <1>0, <1>1, <1>6 DEF SetStatus, TaskRow
  <2> QED BY <2>2, <2>3 DEF OneTicket
<1>7. CASE t # r.task
  <2>1. Tickets(t)' \subseteq Tickets(t)
    BY <1>3, <1>4, <1>5, <1>7, TicketKinds, NextTicketKinds
  <2>2. tasks'[t] = tasks[t]
    BY <1>0, <1>1, <1>2, <1>7 DEF SetStatus
  <2> QED BY <2>1, <2>2 DEF OneTicket
<1> QED BY <1>6, <1>7

(* XADD turns a dispatch into a message.                                   *)
LEMMA PushKeepsOneTicket ==
    ASSUME TypeOK, [Next]_vars, NEW s \in Schedulers, RunCycle(s), PushMessage(s),
           NEW t \in Tasks, OneTicket(t)
    PROVE  OneTicket(t)'
<1> DEFINE u == current[s]
           q == StreamOf(u)
           n == Len(log[q]) + 1
<1>1. u \in Tasks /\ q \in Streams /\ log[q] \in Seq(Tasks) /\ StreamOf(t) \in Streams
  BY StreamAssumption
     DEF PushMessage, TypeOK, SchedulerTypeOK, RedisTypeOK, StreamOf, StageOf, Tasks
<1>2. /\ log' = [log EXCEPT ![q] = Append(@, u)]
      /\ cursor' = cursor /\ current' = current /\ tasks' = tasks
      /\ spc' = [spc EXCEPT ![s] = "setmsg"] /\ spc[s] = "xadd"
      /\ wpc' = wpc /\ held' = held
  BY DEF PushMessage, XAdd, Goto, RunCycle, SchedulerAlone
<1>a. log \in [Streams -> Seq(Tasks)] /\ spc \in [Schedulers -> SchedulerPC]
  BY DEF TypeOK, RedisTypeOK, SchedulerTypeOK
<1>b. cursor[StreamOf(t)] \in Nat
  BY <1>1 DEF TypeOK, RedisTypeOK
<1> HIDE DEF u, q, n
<1>3. \A i : IsMessage(t, i)' => IsMessage(t, i) \/ (i = n /\ t = u)
  <2> SUFFICES ASSUME NEW i, IsMessage(t, i)'
               PROVE  IsMessage(t, i) \/ (i = n /\ t = u)
    OBVIOUS
  <2>1. /\ i \in (cursor[StreamOf(t)] + 1) .. Len(log'[StreamOf(t)])
        /\ log'[StreamOf(t)][i] = t
    BY <1>2 DEF IsMessage, Undelivered, StreamOf
  <2>2. CASE StreamOf(t) = q
    <3>1. log'[q] = Append(log[q], u)
      BY <1>1, <1>2, <1>a
    <3>2. CASE i = n
      BY <1>1, <2>1, <2>2, <3>1, <3>2 DEF n
    <3>3. CASE i # n
      BY <1>1, <1>b, <2>1, <2>2, <3>1, <3>3 DEF n, IsMessage, Undelivered
    <3> QED BY <3>2, <3>3
  <2>3. CASE StreamOf(t) # q
    BY <1>1, <1>2, <1>a, <2>1, <2>3 DEF IsMessage, Undelivered
  <2> QED BY <2>2, <2>3
<1>4. \A w : IsReader(t, w)' => IsReader(t, w)
  BY <1>2, MessageStays DEF IsReader, At, TaskOf
<1>5. \A v : IsDispatch(t, v)' => IsDispatch(t, v) /\ v # s
  BY <1>2, <1>a DEF IsDispatch
<1>6. CASE t = u
  <2>1. <<"dispatch", s>> \in Tickets(t)
    BY <1>2, <1>6, TicketKinds DEF IsDispatch, u
  <2>2. \A x \in Tickets(t) : x = <<"dispatch", s>>
    BY <2>1 DEF OneTicket
  <2>3. ASSUME NEW x \in Tickets(t)' PROVE x = <<"message", n>>
    <3>1. \A i : IsMessage(t, i) => <<"message", i>> = <<"dispatch", s>>
      BY <2>2, TicketKinds
    <3>2. \A w : IsReader(t, w) => <<"reader", w>> = <<"dispatch", s>>
      BY <2>2, TicketKinds
    <3>3. \A v : IsDispatch(t, v) => <<"dispatch", v>> = <<"dispatch", s>>
      BY <2>2, TicketKinds
    <3> QED BY <1>3, <1>4, <1>5, <3>1, <3>2, <3>3, NextTicketKinds
  <2>4. tasks'[t].status \notin {"ABSENT", "PENDING", "RUNNING"}
    BY <1>2, <2>1 DEF OneTicket
  <2> QED BY <2>3, <2>4 DEF OneTicket
<1>7. CASE t # u
  <2>1. Tickets(t)' \subseteq Tickets(t)
    BY <1>3, <1>4, <1>5, <1>7, TicketKinds, NextTicketKinds
  <2> QED BY <1>2, <2>1 DEF OneTicket
<1> QED BY <1>6, <1>7

(* XREADGROUP turns a message into a reader.                               *)
LEMMA PollKeepsOneTicket ==
    ASSUME TypeOK, RightStream, NEW w \in Workers, RunWorker(w), Poll(w),
           NEW t \in Tasks, OneTicket(t)
    PROVE  OneTicket(t)'
<1> DEFINE q == Serves[w]
           n == cursor[q] + 1
           u == log[q][n]
<1>1. /\ q \in Streams /\ cursor \in [Streams -> Nat] /\ log[q] \in Seq(Tasks)
      /\ wpc \in [Workers -> WorkerPC] /\ held \in [Workers -> Nat]
  BY ServesAssumption DEF TypeOK, RedisTypeOK, WorkerTypeOK
<1>2. /\ n \in Undelivered(q) /\ cursor' = [cursor EXCEPT ![q] = n]
      /\ log' = log /\ tasks' = tasks
      /\ held' = [held EXCEPT ![w] = n] /\ wpc' = [wpc EXCEPT ![w] = "claim"]
      /\ spc' = spc /\ current' = current
  BY <1>1 DEF Poll, XReadGroup, Jump, RunWorker, WorkerAlone, Undelivered
<1>3. StreamOf(u) = q
  <2>1. n \in 1 .. Len(log[q])
    BY <1>1, <1>2 DEF Undelivered
  <2> QED BY <1>1, <2>1 DEF RightStream
<1> HIDE DEF q, n, u
<1>4. \A i : IsMessage(t, i)' => IsMessage(t, i) /\ ~(StreamOf(t) = q /\ i = n)
  BY <1>1, <1>2 DEF IsMessage, Undelivered, StreamOf, n
<1>5. \A v : IsReader(t, v)' => IsReader(t, v) \/ (v = w /\ t = u)
  BY <1>1, <1>2 DEF IsReader, At, TaskOf, u, q
<1>6. \A v : IsDispatch(t, v)' => IsDispatch(t, v)
  BY <1>2 DEF IsDispatch
<1>7. CASE t = u
  <2>1. <<"message", n>> \in Tickets(t)
    BY <1>2, <1>3, <1>7, TicketKinds DEF IsMessage, u
  <2>2. \A x \in Tickets(t) : x = <<"message", n>>
    BY <2>1 DEF OneTicket
  <2>3. ASSUME NEW x \in Tickets(t)' PROVE x = <<"reader", w>>
    <3>1. \A i : IsMessage(t, i) => <<"message", i>> = <<"message", n>>
      BY <2>2, TicketKinds
    <3>2. \A v : IsReader(t, v) => <<"reader", v>> = <<"message", n>>
      BY <2>2, TicketKinds
    <3>3. \A v : IsDispatch(t, v) => <<"dispatch", v>> = <<"message", n>>
      BY <2>2, TicketKinds
    <3> QED BY <1>3, <1>4, <1>5, <1>6, <1>7, <3>1, <3>2, <3>3, NextTicketKinds
  <2>4. tasks'[t].status \notin {"ABSENT", "PENDING", "RUNNING"}
    BY <1>2, <2>1 DEF OneTicket
  <2> QED BY <2>3, <2>4 DEF OneTicket
<1>8. CASE t # u
  <2>1. Tickets(t)' \subseteq Tickets(t)
    BY <1>4, <1>5, <1>6, <1>8, TicketKinds, NextTicketKinds
  <2> QED BY <1>2, <2>1 DEF OneTicket
<1> QED BY <1>7, <1>8

-----------------------------------------------------------------------------
(* A task is dispatched once per attempt, by any number of schedulers, and *)
(* no message of an earlier attempt starts it again.                       *)
THEOREM DispatchedOnce == Spec => []SingleDispatch
<1>1. Init => DispatchInv
  <2> SUFFICES ASSUME Init PROVE DispatchInv
    OBVIOUS
  <2>1. RightStream
    BY DEF Init, RedisInit, RightStream
  <2>2. ASSUME NEW t \in Tasks PROVE Tickets(t) = {}
    <3>1. \A i : ~IsMessage(t, i)
      BY StreamAssumption
         DEF Init, RedisInit, IsMessage, Undelivered, StreamOf, StageOf, Tasks
    <3>2. \A w : ~IsReader(t, w)
      BY DEF Init, WorkerInit, IsReader, At
    <3>3. \A s : ~IsDispatch(t, s)
      BY DEF Init, SchedulerInit, IsDispatch
    <3> QED BY <3>1, <3>2, <3>3, TicketKinds
  <2> QED BY <2>1, <2>2 DEF DispatchInv, SingleDispatch
<1>2. TypeOK /\ KnownTasks /\ DispatchInv /\ [Next]_vars => DispatchInv'
  <2> SUFFICES ASSUME TypeOK, KnownTasks, DispatchInv, [Next]_vars
               PROVE  DispatchInv'
    OBVIOUS
  <2>1. ASSUME NEW t \in Tasks PROVE OneTicket(t)'
    <3>1. OneTicket(t)
      BY DEF DispatchInv, SingleDispatch, OneTicket
    <3> QED BY <3>1, CalmOrNot, CalmKeepsOneTicket, EnqueueKeepsOneTicket,
               PushKeepsOneTicket, PollKeepsOneTicket DEF DispatchInv
  <2> QED BY <2>1, RightStreamKept DEF DispatchInv, SingleDispatch, OneTicket
<1>3. DispatchInv => SingleDispatch
  BY DEF DispatchInv
<1> QED BY <1>1, <1>2, <1>3, TypeCorrect, TasksKnown, PTL DEF Spec

-----------------------------------------------------------------------------
(* Every step is one of a scheduler process, of a worker process, or of    *)
(* neither, and leaves the local variables of all other processes alone.   *)
WorkerSteps(w) ==
    \/ StartWorker(w) \/ RunWorker(w) \/ BeatHeart(w)
    \/ GoStale(w) \/ WorkerFault(w) \/ Deregistration(w)

OnlyScheduler(s) ==
    /\ SchedulerSteps(s)
    /\ UNCHANGED <<wpc, held, cursor>>
    /\ \A u \in Schedulers \ {s} : /\ spc'[u] = spc[u] /\ current'[u] = current[u]
                                   /\ message'[u] = message[u] /\ stuck'[u] = stuck[u]

OnlyWorker(w) ==
    /\ WorkerSteps(w)
    /\ UNCHANGED <<spc, current, message, stuck, log>>
    /\ \A v \in Workers \ {w} : wpc'[v] = wpc[v] /\ held'[v] = held[v]

NoProcess == UNCHANGED <<spc, current, message, stuck, wpc, held, log, cursor, pel, claims, faults>>

(* A scheduler process writes no local variable but its own.               *)
LEMMA OneSchedulerMoves ==
    ASSUME TypeOK, NEW s \in Schedulers, SchedulerSteps(s)
    PROVE  OnlyScheduler(s)
<1>0. /\ spc \in [Schedulers -> SchedulerPC]
      /\ current \in [Schedulers -> Tasks \cup {NoTask}]
      /\ message \in [Schedulers -> Nat]
      /\ stuck \in [Schedulers -> SUBSET StuckRow]
  BY DEF TypeOK, SchedulerTypeOK, MonitorTypeOK
<1>1. UNCHANGED <<wpc, held>>
  BY DEF SchedulerSteps, StartScheduler, RunCycle, RunMonitor, TimePasses,
         SchedulerFault, SchedulerAlone
<1>2. UNCHANGED cursor
  BY DEF SchedulerSteps, StartScheduler, SchedulerStart, TimePasses, WindowElapses,
         SchedulerFault, CycleError, ReapAckError, BackToReap, MonitorError,
         SchedulerCrash, ProcessEnds, RunCycle, CycleStep, FindReadyTasks,
         SkipIneligible, EnqueueLost, EnqueueWon, PushMessage, StoreMessageId,
         MarkJobRunning, CheckJobCompletions, SettleJob, EndCycle, RunMonitor, MonitorStep,
         MarkStaleDead, FindStuckTasks, ReapExhausted, ReapReset, AckReaped, MonitorDone
<1>3. spc' = spc \/ \E label : spc' = [spc EXCEPT ![s] = label]
  BY DEF SchedulerSteps, StartScheduler, SchedulerStart, TimePasses, WindowElapses,
         SchedulerFault, CycleError, ReapAckError, BackToReap, MonitorError,
         SchedulerCrash, ProcessEnds, RunCycle, CycleStep, FindReadyTasks,
         SkipIneligible, EnqueueLost, EnqueueWon, PushMessage, StoreMessageId,
         MarkJobRunning, CheckJobCompletions, SettleJob, EndCycle, RunMonitor, MonitorStep,
         MarkStaleDead, FindStuckTasks, ReapExhausted, ReapReset, AckReaped, MonitorDone, Goto
<1>4. current' = current \/ \E v : current' = [current EXCEPT ![s] = v]
  BY DEF SchedulerSteps, StartScheduler, SchedulerStart, TimePasses, WindowElapses,
         SchedulerFault, CycleError, ReapAckError, BackToReap, MonitorError,
         SchedulerCrash, ProcessEnds, ForgetLocals, RunCycle, CycleStep, FindReadyTasks,
         SkipIneligible, EnqueueLost, EnqueueWon, PushMessage, StoreMessageId,
         MarkJobRunning, CheckJobCompletions, SettleJob, EndCycle, RunMonitor, MonitorStep,
         MarkStaleDead, FindStuckTasks, ReapExhausted, ReapReset, AckReaped, MonitorDone
<1>5. message' = message \/ \E v : message' = [message EXCEPT ![s] = v]
  BY DEF SchedulerSteps, StartScheduler, SchedulerStart, TimePasses, WindowElapses,
         SchedulerFault, CycleError, ReapAckError, BackToReap, MonitorError,
         SchedulerCrash, ProcessEnds, ForgetLocals, RunCycle, CycleStep, FindReadyTasks,
         SkipIneligible, EnqueueLost, EnqueueWon, PushMessage, StoreMessageId,
         MarkJobRunning, CheckJobCompletions, SettleJob, EndCycle, RunMonitor, MonitorStep,
         MarkStaleDead, FindStuckTasks, ReapExhausted, ReapReset, AckReaped, MonitorDone
<1>6. stuck' = stuck \/ \E v : stuck' = [stuck EXCEPT ![s] = v]
  BY DEF SchedulerSteps, StartScheduler, TimePasses, SchedulerFault,
         ReapAckError, BackToReap, MonitorError, SchedulerCrash, ProcessEnds, RunCycle,
         RunMonitor, MonitorStep, MarkStaleDead, FindStuckTasks, TakeStuck, ReapExhausted,
         ReapReset, AckReaped, MonitorDone
<1>7. \A u \in Schedulers \ {s} : spc'[u] = spc[u] /\ current'[u] = current[u]
  BY <1>0, <1>3, <1>4
<1>8. \A u \in Schedulers \ {s} : message'[u] = message[u] /\ stuck'[u] = stuck[u]
  BY <1>0, <1>5, <1>6
<1> QED BY <1>1, <1>2, <1>7, <1>8 DEF OnlyScheduler

(* Nor does a worker process, and no worker writes to the streams.         *)
LEMMA OneWorkerMoves ==
    ASSUME TypeOK, NEW w \in Workers, WorkerSteps(w)
    PROVE  OnlyWorker(w)
<1>0. wpc \in [Workers -> WorkerPC] /\ held \in [Workers -> Nat]
  BY DEF TypeOK, WorkerTypeOK
<1>1. UNCHANGED <<spc, current, message, stuck>>
  BY DEF WorkerSteps, StartWorker, RunWorker, BeatHeart, GoStale, WorkerFault,
         Deregistration, WorkerAlone, ApiAlone
<1>2. UNCHANGED log
  BY DEF WorkerSteps, StartWorker, Register, RunWorker, WorkerStep, Poll, ClaimWon,
         ClaimLost, MarkBusy, Complete, ExecuteFails, MarkIdle, Ack, ReadRetries,
         ResetToPending, MarkFailed, MarkIdleAfterFailure, Bury, BeatHeart,
         Heartbeat, GoStale, HeartbeatLapse, WorkerFault, WorkerCrash, LoopError,
         PersistError, Deregistration, DeregisterWorker
<1>3. wpc' = wpc \/ \E label : wpc' = [wpc EXCEPT ![w] = label]
  BY DEF WorkerSteps, StartWorker, Register, RunWorker, WorkerStep, Poll, ClaimWon,
         ClaimLost, MarkBusy, Complete, ExecuteFails, MarkIdle, Ack, ReadRetries,
         ResetToPending, MarkFailed, MarkIdleAfterFailure, Bury, BeatHeart,
         Heartbeat, GoStale, HeartbeatLapse, WorkerFault, WorkerCrash, LoopError,
         PersistError, Deregistration, ApiAlone, Jump, LetGo
<1>4. held' = held \/ \E i : held' = [held EXCEPT ![w] = i]
  BY DEF WorkerSteps, StartWorker, Register, RunWorker, WorkerStep, Poll, ClaimWon,
         ClaimLost, MarkBusy, Complete, ExecuteFails, MarkIdle, Ack, ReadRetries,
         ResetToPending, MarkFailed, MarkIdleAfterFailure, Bury, BeatHeart,
         Heartbeat, GoStale, HeartbeatLapse, WorkerFault, WorkerCrash, LoopError,
         PersistError, Deregistration, ApiAlone, LetGo
<1>5. \A v \in Workers \ {w} : wpc'[v] = wpc[v] /\ held'[v] = held[v]
  BY <1>0, <1>3, <1>4
<1> QED BY <1>1, <1>2, <1>5 DEF OnlyWorker

(* All steps of the system.                                                *)
LEMMA OneProcess ==
    ASSUME TypeOK, [Next]_vars
    PROVE  \/ \E s \in Schedulers : OnlyScheduler(s)
           \/ \E w \in Workers : OnlyWorker(w)
           \/ NoProcess
<1>1. CASE UNCHANGED vars
  BY <1>1 DEF vars, NoProcess
<1>2. ASSUME NEW j \in Jobs, Request(j) PROVE NoProcess
  BY <1>2 DEF Request, ApiAlone, SubmitJob, CancelCheck, CancelCommit, NoProcess
<1>3. CASE Next
  BY <1>2, <1>3, OneSchedulerMoves, OneWorkerMoves DEF Next, SchedulerSteps, WorkerSteps
<1> QED BY <1>1, <1>3

-----------------------------------------------------------------------------
(* What a fault is counted for.                                            *)
LEMMA FaultsCount ==
    ASSUME TypeOK, [Next]_vars
    PROVE  /\ faults' \in {faults, faults + 1}
           /\ faults \in Nat
           /\ \A s \in Schedulers : SchedulerFault(s) => faults' = faults + 1
           /\ \A w \in Workers : WorkerFault(w) => faults' = faults + 1
<1>1. faults \in Nat
  BY DEF TypeOK
<1>2. UNCHANGED vars => faults' = faults
  BY DEF vars
<1>3. ASSUME NEW s \in Schedulers, SchedulerSteps(s) PROVE faults' \in {faults, faults + 1}
  BY <1>3 DEF SchedulerSteps, StartScheduler, RunCycle, RunMonitor, TimePasses,
              SchedulerFault, Fault
<1>4. ASSUME NEW w \in Workers, WorkerSteps(w) PROVE faults' \in {faults, faults + 1}
  BY <1>4 DEF WorkerSteps, StartWorker, RunWorker, BeatHeart, GoStale, WorkerFault,
              Deregistration, Fault
<1>5. ASSUME NEW j \in Jobs, Request(j) PROVE faults' = faults
  BY <1>5 DEF Request
<1>6. /\ \A s \in Schedulers : SchedulerFault(s) => faults' = faults + 1
      /\ \A w \in Workers : WorkerFault(w) => faults' = faults + 1
  BY DEF SchedulerFault, WorkerFault, Fault
<1>7. faults' \in {faults, faults + 1}
  BY <1>2, <1>3, <1>4, <1>5 DEF Next, SchedulerSteps, WorkerSteps
<1> QED BY <1>1, <1>6, <1>7

-----------------------------------------------------------------------------
(* Who writes the table of tasks.                                          *)
SchedulerWrites(s) ==
    EnqueueWon(s) \/ StoreMessageId(s) \/ ReapExhausted(s) \/ ReapReset(s)

WorkerWrites(w) ==
    ClaimWon(w) \/ Complete(w) \/ ResetToPending(w) \/ MarkFailed(w)

(* No other statement writes the table of tasks.                           *)
LEMMA TasksWriter ==
    ASSUME [Next]_vars
    PROVE  \/ tasks' = tasks
           \/ \E s \in Schedulers : SchedulerWrites(s)
           \/ \E w \in Workers : WorkerWrites(w)
           \/ \E j \in Jobs : SubmitJob(j) \/ CancelCommit(j)
<1>1. CASE UNCHANGED vars
  BY <1>1 DEF vars
<1>2. ASSUME NEW s \in Schedulers, SchedulerSteps(s)
      PROVE  tasks' = tasks \/ SchedulerWrites(s)
  BY <1>2 DEF SchedulerWrites, SchedulerSteps, StartScheduler, SchedulerStart, TimePasses,
         WindowElapses, SchedulerFault, CycleError, ReapAckError, MonitorError,
         SchedulerCrash, ProcessEnds, RunCycle, CycleStep, FindReadyTasks,
         SkipIneligible, EnqueueLost, PushMessage, MarkJobRunning,
         CheckJobCompletions, SettleJob, EndCycle, RunMonitor, MonitorStep, MarkStaleDead,
         FindStuckTasks, AckReaped, MonitorDone
<1>3. ASSUME NEW w \in Workers, WorkerSteps(w)
      PROVE  tasks' = tasks \/ WorkerWrites(w)
  BY <1>3 DEF WorkerWrites, WorkerSteps, StartWorker, Register, RunWorker, WorkerStep, Poll,
         ClaimLost, MarkBusy, ExecuteFails, MarkIdle, Ack, ReadRetries,
         MarkIdleAfterFailure, Bury, BeatHeart, Heartbeat, GoStale, HeartbeatLapse,
         WorkerFault, WorkerCrash, LoopError, PersistError, Deregistration, DeregisterWorker
<1>4. ASSUME NEW j \in Jobs, Request(j)
      PROVE  tasks' = tasks \/ SubmitJob(j) \/ CancelCommit(j)
  BY <1>4 DEF Request, CancelCheck
<1> QED BY <1>1, <1>2, <1>3, <1>4 DEF Next, SchedulerSteps, WorkerSteps

(* A task is queued by the scheduler that is about to push it.             *)
LEMMA QueuedByScheduler ==
    ASSUME TypeOK, [Next]_vars, NEW t \in Tasks,
           tasks[t].status = "PENDING", tasks'[t].status = "ENQUEUED"
    PROVE  \E s \in Schedulers : spc'[s] = "xadd" /\ current'[s] = t
<1>0. /\ tasks \in [Tasks -> TaskRow]
      /\ spc \in [Schedulers -> SchedulerPC]
      /\ current \in [Schedulers -> Tasks \cup {NoTask}]
  BY DEF TypeOK, TablesTypeOK, SchedulerTypeOK
<1>1. ASSUME NEW s \in Schedulers, EnqueueWon(s)
      PROVE  spc'[s] = "xadd" /\ current'[s] = t
  <2>1. PICK r \in batch[s] : /\ SetStatus(r.task, "ENQUEUED")
                              /\ current' = [current EXCEPT ![s] = r.task]
    BY <1>1 DEF EnqueueWon
  <2>2. r.task = t
    BY <1>0, <2>1 DEF SetStatus
  <2> QED BY <1>0, <1>1, <2>1, <2>2 DEF EnqueueWon, Goto
<1>2. ASSUME NEW s \in Schedulers, SchedulerWrites(s), ~EnqueueWon(s) PROVE FALSE
  <2>1. CASE StoreMessageId(s)
    BY <1>0, <2>1 DEF StoreMessageId
  <2>2. CASE ReapExhausted(s)
    BY <1>0, <2>2 DEF ReapExhausted, SetStatus
  <2>3. CASE ReapReset(s)
    BY <1>0, <2>3 DEF ReapReset, ResetIfRunning
  <2> QED BY <1>2, <2>1, <2>2, <2>3 DEF SchedulerWrites
<1>3. ASSUME NEW w \in Workers, WorkerWrites(w) PROVE FALSE
  <2>1. CASE ClaimWon(w)
    BY <1>0, <2>1 DEF ClaimWon, Claimable
  <2>2. CASE Complete(w)
    BY <1>0, <2>2 DEF Complete
  <2>3. CASE ResetToPending(w)
    BY <1>0, <2>3 DEF ResetToPending, ResetIfRunning
  <2>4. CASE MarkFailed(w)
    BY <1>0, <2>4 DEF MarkFailed, SetStatus
  <2> QED BY <1>3, <2>1, <2>2, <2>3, <2>4 DEF WorkerWrites
<1>4. ASSUME NEW j \in Jobs, SubmitJob(j) \/ CancelCommit(j) PROVE FALSE
  BY <1>0, <1>4 DEF SubmitJob, CancelCommit, TaskRow
<1> QED BY <1>1, <1>2, <1>3, <1>4, TasksWriter

(* A dispatch goes on, or a fault ends it.                                 *)
LEMMA DispatchGoesOn ==
    ASSUME TypeOK, NEW s \in Schedulers, SchedulerSteps(s)
    PROVE  /\ spc[s] = "xadd" => PushMessage(s) \/ SchedulerFault(s)
           /\ spc[s] = "setmsg" => StoreMessageId(s) \/ SchedulerFault(s)
           /\ spc[s] = "setjob" => MarkJobRunning(s) \/ SchedulerFault(s)
<1>1. ASSUME spc[s] \in {"xadd", "setmsg", "setjob"}, ~SchedulerFault(s)
      PROVE  RunCycle(s)
  BY <1>1 DEF SchedulerSteps, StartScheduler, SchedulerStart, TimePasses, WindowElapses,
         RunMonitor, MonitorStep, MarkStaleDead, FindStuckTasks, ReapExhausted, ReapReset,
         TakeStuck, AckReaped, BackToReap, MonitorDone
<1>2. ASSUME RunCycle(s), spc[s] \in {"xadd", "setmsg", "setjob"}
      PROVE  \/ spc[s] = "xadd" /\ PushMessage(s)
             \/ spc[s] = "setmsg" /\ StoreMessageId(s)
             \/ spc[s] = "setjob" /\ MarkJobRunning(s)
  BY <1>2 DEF RunCycle, CycleStep, FindReadyTasks, SkipIneligible, EnqueueLost, EnqueueWon,
         NextRow, PushMessage, StoreMessageId, MarkJobRunning, CheckJobCompletions,
         SettleJob, EndCycle
<1> QED BY <1>1, <1>2

-----------------------------------------------------------------------------
(* What a worker that holds a message does next.                           *)
LEMMA ReaderGoesOn ==
    ASSUME NEW w \in Workers, WorkerSteps(w), wpc[w] = "claim"
    PROVE  UNCHANGED <<wpc, held>> \/ ClaimWon(w) \/ ClaimLost(w) \/ WorkerFault(w)
BY DEF WorkerSteps, StartWorker, Register, RunWorker, WorkerStep, Poll, MarkBusy,
       Complete, ExecuteFails, MarkIdle, Ack, ReadRetries, ResetToPending,
       MarkFailed, MarkIdleAfterFailure, Bury, BeatHeart, Heartbeat, GoStale,
       HeartbeatLapse, Deregistration, ApiAlone, At

(* Work on a task goes on until its row says otherwise, or a fault ends it.*)
LEMMA WorkGoesOn ==
    ASSUME TypeOK, NEW w \in Workers, WorkerSteps(w), wpc[w] \in AtWork
    PROVE  \/ wpc'[w] \in AtWork /\ held' = held
           \/ Complete(w) \/ ResetToPending(w) \/ MarkFailed(w)
           \/ WorkerFault(w)
<1>0. wpc \in [Workers -> WorkerPC]
  BY DEF TypeOK, WorkerTypeOK
<1>1. CASE RunWorker(w)
  <2>1. CASE MarkBusy(w) \/ ExecuteFails(w) \/ ReadRetries(w)
    BY <1>0, <2>1 DEF MarkBusy, ExecuteFails, ReadRetries, Jump, AtWork
  <2>2. ~(Poll(w) \/ ClaimWon(w) \/ ClaimLost(w) \/ MarkIdle(w) \/ Ack(w)
          \/ MarkIdleAfterFailure(w) \/ Bury(w))
    BY DEF Poll, ClaimWon, ClaimLost, MarkIdle, Ack, MarkIdleAfterFailure, Bury, At, AtWork
  <2> QED BY <1>1, <2>1, <2>2 DEF RunWorker, WorkerStep
<1>2. CASE StartWorker(w) \/ BeatHeart(w) \/ GoStale(w) \/ Deregistration(w)
  BY <1>2 DEF StartWorker, Register, BeatHeart, Heartbeat, GoStale, HeartbeatLapse,
              Deregistration, ApiAlone, At, AtWork
<1> QED BY <1>1, <1>2 DEF WorkerSteps

(* XREADGROUP takes the next message of its stream, and nobody else takes  *)
(* one.                                                                    *)
LEMMA CursorWriter ==
    ASSUME NEW w \in Workers, WorkerSteps(w)
    PROVE  cursor' = cursor \/ Poll(w)
BY DEF WorkerSteps, StartWorker, Register, RunWorker, WorkerStep, ClaimWon,
       ClaimLost, MarkBusy, Complete, ExecuteFails, MarkIdle, Ack, ReadRetries,
       ResetToPending, MarkFailed, MarkIdleAfterFailure, Bury, BeatHeart,
       Heartbeat, GoStale, HeartbeatLapse, WorkerFault, WorkerCrash, LoopError,
       PersistError, Deregistration, DeregisterWorker

(* Streams only grow.                                                      *)
LEMMA LogGrows ==
    ASSUME TypeOK, [Next]_vars, NEW q \in Streams, NEW i \in 1 .. Len(log[q])
    PROVE  i \in 1 .. Len(log'[q]) /\ log'[q][i] = log[q][i] /\ log[q][i] \in Tasks
<1>1. log \in [Streams -> Seq(Tasks)] /\ log[q] \in Seq(Tasks)
  BY DEF TypeOK, RedisTypeOK
<1>2. CASE log' = log
  BY <1>1, <1>2
<1>3. ASSUME NEW s \in Schedulers, PushMessage(s)
      PROVE  i \in 1 .. Len(log'[q]) /\ log'[q][i] = log[q][i]
  <2>1. current[s] \in Tasks
    BY <1>3 DEF PushMessage, TypeOK, SchedulerTypeOK
  <2>2. log' = [log EXCEPT ![StreamOf(current[s])] = Append(@, current[s])]
    BY <1>3 DEF PushMessage, XAdd
  <2>3. CASE q = StreamOf(current[s])
    <3>1. log'[q] = Append(log[q], current[s])
      BY <1>1, <2>2, <2>3
    <3> QED BY <1>1, <2>1, <3>1
  <2>4. CASE q # StreamOf(current[s])
    BY <1>1, <2>2, <2>4
  <2> QED BY <2>3, <2>4
<1> QED BY <1>1, <1>2, <1>3, LogWriter

(* Every task has a stream.                                                *)
LEMMA StreamsOfTasks ==
    ASSUME NEW t \in Tasks
    PROVE  StreamOf(t) \in Streams
BY StreamAssumption DEF StreamOf, StageOf, Tasks

-----------------------------------------------------------------------------
(* OnlyFaultsStrand: what becomes of the ticket, or of the worker, that a  *)
(* task has, in a step of a scheduler, of a worker and of neither.         *)
Owners(t) == {w \in Workers : wpc[w] \in AtWork /\ TaskOf(w) = t}

(* The step takes the last ticket of a queued task, or the last worker of  *)
(* a running one.                                                          *)
Loses(t) ==
    \/ /\ tasks[t].status = "ENQUEUED" /\ tasks'[t].status = "ENQUEUED"
       /\ Tickets(t) # {} /\ Tickets(t)' = {}
    \/ /\ tasks[t].status = "RUNNING" /\ tasks'[t].status = "RUNNING"
       /\ Owners(t) # {} /\ Owners(t)' = {}

(* The claim makes the worker the owner of the task.                       *)
LEMMA ClaimOwns ==
    ASSUME TypeOK, [Next]_vars, NEW t \in Tasks, IsClaimed(t)
    PROVE  Owners(t)' # {}
<1>0. wpc \in [Workers -> WorkerPC] /\ claims \in [Tasks -> Nat]
  BY DEF TypeOK, WorkerTypeOK
<1>1. claims' # claims
  BY <1>0 DEF IsClaimed
<1>2. PICK w \in Workers : ClaimWon(w)
  BY <1>1, ClaimWriter
<1>3. TaskOf(w) = t
  BY <1>0, <1>2 DEF IsClaimed, ClaimWon
<1>4. wpc'[w] \in AtWork /\ held' = held /\ log' = log
  BY <1>0, <1>2 DEF ClaimWon, Jump, AtWork
<1>5. w \in Owners(t)'
  BY <1>3, <1>4 DEF Owners, TaskOf
<1> QED BY <1>5

(* A task is stranded only by losing what it had.                          *)
LEMMA StrandedLoses ==
    ASSUME TypeOK, KnownTasks, [Next]_vars, NEW t \in Tasks,
           Stranded(t)', ~Stranded(t)
    PROVE  Loses(t)
<1>1. CASE Stays(t)
  BY <1>1 DEF Stays, Stranded, Loses, Owners
<1>2. CASE IsQueued(t)
  <2>1. PICK s \in Schedulers : IsDispatch(t, s)'
    BY <1>2, QueuedByScheduler DEF IsQueued, Moves, IsDispatch
  <2>2. <<"dispatch", s>> \in Tickets(t)'
    BY <2>1, NextTicketKinds
  <2> QED BY <1>2, <2>2 DEF Stranded, IsQueued, Moves
<1>3. CASE IsClaimed(t)
  BY <1>3, ClaimOwns DEF Stranded, IsClaimed, Moves, Owners
<1>4. CASE IsSubmitted(t) \/ IsReset(t) \/ IsCompleted(t) \/ IsFailed(t) \/ IsSkipped(t)
  BY <1>4 DEF IsSubmitted, IsReset, IsCompleted, IsFailed, IsSkipped, Moves, Stranded
<1> QED BY <1>1, <1>2, <1>3, <1>4, TaskMoves DEF TaskMove

(* A message stays where it is while nobody reads.                         *)
LEMMA MessageWaits ==
    ASSUME TypeOK, [Next]_vars, cursor' = cursor, NEW t \in Tasks, NEW i, IsMessage(t, i)
    PROVE  IsMessage(t, i)'
<1>1. StreamOf(t) \in Streams
  BY StreamsOfTasks
<1>2. cursor[StreamOf(t)] \in Nat /\ i \in 1 .. Len(log[StreamOf(t)])
  BY <1>1 DEF TypeOK, RedisTypeOK, IsMessage, Undelivered
<1>3. i \in 1 .. Len(log'[StreamOf(t)]) /\ log'[StreamOf(t)][i] = t
  BY <1>1, <1>2, LogGrows DEF IsMessage
<1> QED BY <1>2, <1>3 DEF IsMessage, Undelivered, StreamOf

(* A worker that did nothing still has its task.                           *)
LEMMA WorkerWaits ==
    ASSUME TypeOK, [Next]_vars, NEW w \in Workers, wpc'[w] = wpc[w], held'[w] = held[w],
           NEW t \in Tasks
    PROVE  /\ IsReader(t, w) => IsReader(t, w)'
           /\ w \in Owners(t) => w \in Owners(t)'
BY MessageStays DEF IsReader, At, Owners, AtWork, TaskOf

(* In the step of a scheduler, the task it dispatches, by a fault.         *)
LEMMA SchedulerLoses ==
    ASSUME TypeOK, [Next]_vars, NEW s \in Schedulers, OnlyScheduler(s),
           NEW t \in Tasks, Loses(t)
    PROVE  current[s] = t /\ SchedulerFault(s)
<1>1. Owners(t) # {} => Owners(t)' # {}
  BY WorkerWaits DEF OnlyScheduler, Owners
<1>2. PICK x \in Tickets(t) : Tickets(t)' = {}
  BY <1>1 DEF Loses
<1>3. ASSUME NEW i, IsMessage(t, i) PROVE FALSE
  <2>1. <<"message", i>> \in Tickets(t)'
    BY <1>3, MessageWaits, NextTicketKinds DEF OnlyScheduler
  <2> QED BY <1>2, <2>1
<1>4. ASSUME NEW w, IsReader(t, w) PROVE FALSE
  <2>1. IsReader(t, w)'
    BY <1>4, WorkerWaits DEF OnlyScheduler, IsReader
  <2>2. <<"reader", w>> \in Tickets(t)'
    BY <2>1, NextTicketKinds
  <2> QED BY <1>2, <2>2
<1>5. PICK u : IsDispatch(t, u)
  BY <1>2, <1>3, <1>4, TicketKinds
<1>6. u = s
  <2>1. CASE u # s
    <3>1. IsDispatch(t, u)'
      BY <1>5, <2>1 DEF OnlyScheduler, IsDispatch
    <3>2. <<"dispatch", u>> \in Tickets(t)'
      BY <3>1, NextTicketKinds
    <3> QED BY <1>2, <3>2
  <2> QED BY <2>1
<1>7. ~PushMessage(s)
  <2>1. CASE PushMessage(s)
    <3>0. PICK n : n = Len(log[StreamOf(t)]) + 1
      OBVIOUS
    <3>1. /\ StreamOf(t) \in Streams
          /\ log \in [Streams -> Seq(Tasks)]
          /\ cursor[StreamOf(t)] \in Nat /\ cursor[StreamOf(t)] <= Len(log[StreamOf(t)])
      BY StreamsOfTasks DEF TypeOK, RedisTypeOK
    <3>2. /\ log' = [log EXCEPT ![StreamOf(t)] = Append(@, t)]
          /\ cursor' = cursor
      BY <1>5, <1>6, <2>1 DEF PushMessage, XAdd, IsDispatch
    <3>3. log'[StreamOf(t)] = Append(log[StreamOf(t)], t) /\ log[StreamOf(t)] \in Seq(Tasks)
      BY <3>1, <3>2
    <3>4. n \in Undelivered(StreamOf(t))' /\ log'[StreamOf(t)][n] = t
      BY <3>0, <3>1, <3>2, <3>3 DEF Undelivered, StreamOf
    <3>5. IsMessage(t, n)'
      BY <3>4 DEF IsMessage, StreamOf
    <3>6. <<"message", n>> \in Tickets(t)'
      BY <3>5, NextTicketKinds
    <3> QED BY <1>2, <3>6
  <2> QED BY <2>1
<1> QED BY <1>5, <1>6, <1>7, DispatchGoesOn DEF OnlyScheduler, IsDispatch

(* In the step of a worker, the task it holds, by a fault.                 *)
LEMMA WorkerLoses ==
    ASSUME TypeOK, [Next]_vars, NEW w \in Workers, OnlyWorker(w),
           NEW t \in Tasks, Loses(t)
    PROVE  TaskOf(w) = t /\ WorkerFault(w)
<1>0. /\ wpc \in [Workers -> WorkerPC] /\ tasks \in [Tasks -> TaskRow]
      /\ held \in [Workers -> Nat]
  BY DEF TypeOK, WorkerTypeOK, TablesTypeOK
<1>1. CASE Tickets(t) # {} /\ Tickets(t)' = {} /\ tasks[t].status = "ENQUEUED"
             /\ tasks'[t].status = "ENQUEUED"
  <2>1. ASSUME NEW i, IsMessage(t, i) PROVE FALSE
    <3>1. CASE cursor' = cursor
      <4>1. <<"message", i>> \in Tickets(t)'
        BY <2>1, <3>1, MessageWaits, NextTicketKinds
      <4> QED BY <1>1, <4>1
    <3>2. CASE Poll(w)
      <4> DEFINE q == Serves[w]
      <4>0. q \in Streams /\ cursor \in [Streams -> Nat] /\ log' = log
        BY <3>2, ServesAssumption DEF TypeOK, RedisTypeOK, Poll
      <4>1. /\ cursor' = [cursor EXCEPT ![q] = @ + 1]
            /\ held'[w] = cursor[q] + 1 /\ wpc'[w] = "claim"
        BY <1>0, <3>2 DEF Poll, XReadGroup, Jump
      <4>2. CASE StreamOf(t) = q /\ i = cursor[q] + 1
        <5>1. IsReader(t, w)'
          BY <2>1, <4>0, <4>1, <4>2 DEF IsReader, IsMessage, At, TaskOf
        <5>2. <<"reader", w>> \in Tickets(t)'
          BY <5>1, NextTicketKinds
        <5> QED BY <1>1, <5>2
      <4>3. CASE ~(StreamOf(t) = q /\ i = cursor[q] + 1)
        <5>0. StreamOf(t) \in Streams /\ log[StreamOf(t)] \in Seq(Tasks)
          BY StreamsOfTasks DEF TypeOK, RedisTypeOK
        <5>1. IsMessage(t, i)'
          BY <2>1, <4>0, <4>1, <4>3, <5>0 DEF IsMessage, Undelivered, StreamOf
        <5>2. <<"message", i>> \in Tickets(t)'
          BY <5>1, NextTicketKinds
        <5> QED BY <1>1, <5>2
      <4> QED BY <4>2, <4>3
    <3> QED BY <3>1, <3>2, CursorWriter DEF OnlyWorker
  <2>2. ASSUME NEW s, IsDispatch(t, s) PROVE FALSE
    <3>1. IsDispatch(t, s)'
      BY <2>2 DEF IsDispatch, OnlyWorker
    <3>2. <<"dispatch", s>> \in Tickets(t)'
      BY <3>1, NextTicketKinds
    <3> QED BY <1>1, <3>2
  <2>3. PICK v : IsReader(t, v)
    BY <1>1, <2>1, <2>2, TicketKinds
  <2>4. ~IsReader(t, v)'
    BY <1>1, NextTicketKinds
  <2>5. v = w
    BY <2>3, <2>4, WorkerWaits DEF OnlyWorker, IsReader
  <2>6. wpc[w] = "claim" /\ TaskOf(w) = t
    BY <2>3, <2>5 DEF IsReader, At
  <2>7. ~UNCHANGED <<wpc, held>>
    BY <2>3, <2>4, <2>5, WorkerWaits DEF IsReader
  <2>8. ~ClaimWon(w)
    BY <1>0, <1>1, <2>6 DEF ClaimWon, TaskRow
  <2>9. ~ClaimLost(w)
    BY <1>1, <2>6 DEF ClaimLost, Claimable
  <2> QED BY <2>6, <2>7, <2>8, <2>9, ReaderGoesOn DEF OnlyWorker
<1>2. CASE Owners(t) # {} /\ Owners(t)' = {} /\ tasks[t].status = "RUNNING"
             /\ tasks'[t].status = "RUNNING"
  <2>1. PICK v \in Owners(t) : v \notin Owners(t)'
    BY <1>2
  <2>2. v = w
    BY <2>1, WorkerWaits DEF OnlyWorker, Owners
  <2>3. wpc[w] \in AtWork /\ TaskOf(w) = t
    BY <2>1, <2>2 DEF Owners
  <2>4. ~(wpc'[w] \in AtWork /\ held' = held)
    BY <2>1, <2>2, <2>3 DEF Owners, TaskOf, OnlyWorker
  <2>5. ~Complete(w)
    BY <1>0, <1>2, <2>3 DEF Complete, TaskRow
  <2>6. ~ResetToPending(w)
    BY <1>0, <1>2, <2>3 DEF ResetToPending, ResetIfRunning, TaskRow
  <2>7. ~MarkFailed(w)
    BY <1>0, <1>2, <2>3 DEF MarkFailed, SetStatus, TaskRow
  <2> QED BY <2>3, <2>4, <2>5, <2>6, <2>7, WorkGoesOn DEF OnlyWorker
<1> QED BY <1>1, <1>2 DEF Loses

(* A step of no process takes nothing away.                                *)
LEMMA NobodyLoses ==
    ASSUME NoProcess, NEW t \in Tasks
    PROVE  ~Loses(t)
<1>1. Tickets(t)' = Tickets(t) /\ Owners(t)' = Owners(t)
  BY DEF NoProcess, Tickets, Owners, Undelivered, At, TaskOf, StreamOf
<1> QED BY <1>1 DEF Loses

(* A queued or running task that nobody has is the work of a fault, one    *)
(* task of one fault: no other step loses a task, whatever races it wins   *)
(* or loses, with any number of schedulers, workers and jobs.              *)
THEOREM OnlyFaultsLose == Spec => OnlyFaultsStrand
<1> DEFINE A == \A t \in Tasks : Strands(t) =>
                   faults' > faults /\ \A u \in Tasks \ {t} : ~Strands(u)
<1>1. ASSUME TypeOK, KnownTasks, [Next]_vars PROVE A
  <2>0. \A t \in Tasks : Strands(t) => Loses(t)
    BY <1>1, StrandedLoses DEF Strands
  <2>1. ASSUME NEW s \in Schedulers, OnlyScheduler(s) PROVE A
    <3>1. \A t \in Tasks : Strands(t) => current[s] = t /\ SchedulerFault(s)
      BY <1>1, <2>0, <2>1, SchedulerLoses
    <3> QED BY <1>1, <3>1, FaultsCount
  <2>2. ASSUME NEW w \in Workers, OnlyWorker(w) PROVE A
    <3>1. \A t \in Tasks : Strands(t) => TaskOf(w) = t /\ WorkerFault(w)
      BY <1>1, <2>0, <2>2, WorkerLoses
    <3> QED BY <1>1, <3>1, FaultsCount
  <2>3. CASE NoProcess
    <3>1. \A t \in Tasks : ~Strands(t)
      BY <2>0, <2>3, NobodyLoses
    <3> QED BY <3>1
  <2> HIDE DEF A
  <2> QED BY <1>1, <2>1, <2>2, <2>3, OneProcess
<1>2. TypeOK /\ KnownTasks /\ [Next]_vars => [A]_vars
  BY <1>1
<1> QED BY <1>2, TypeCorrect, TasksKnown, PTL DEF Spec, OnlyFaultsStrand

-----------------------------------------------------------------------------
(* OpenAttemptsArePending.  The id of a message goes from the XADD through *)
(* the row of its task into a stuck row and from there to the XACK; the    *)
(* proof shows that all of them name a message of the right task, and that *)
(* the ones from RUNNING rows name a message whose claim is over.          *)
IsMessageOf(t, i) == i \in 1 .. Len(log[StreamOf(t)]) /\ log[StreamOf(t)][i] = t

(* The message was read, and the worker that read it has done its claim.   *)
Past(t, i) ==
    /\ i <= cursor[StreamOf(t)]
    /\ \A w \in Workers : ~(At(w, "claim") /\ Serves[w] = StreamOf(t) /\ held[w] = i)

Holds(w) == wpc[w] \notin {"off", "poll"}
Attempting(w) == wpc[w] \in {"claim"} \cup AtWork /\ HoldsAttempt(w)

OneHolder ==
    \A v, w \in Workers :
       Holds(v) /\ Holds(w) /\ Serves[v] = Serves[w] /\ held[v] = held[w] => v = w

StoredIsSettled ==
    \A w \in Workers : wpc[w] \in {"idle", "ack"} => tasks[TaskOf(w)].status \in TerminalTask

PushedIds ==
    \A s \in Schedulers : spc[s] = "setmsg" => IsMessageOf(current[s], message[s])

RowIds ==
    \A t \in Tasks :
       tasks[t].stream_message_id # 0 => IsMessageOf(t, tasks[t].stream_message_id)

StuckIds ==
    \A s \in Schedulers : \A r \in stuck[s] :
       r.stream_message_id # 0 => /\ IsMessageOf(r.task, r.stream_message_id)
                                  /\ Past(r.task, r.stream_message_id)

(* The attempt whose message the monitor acknowledges is over.             *)
ReapIds ==
    \A s \in Schedulers : spc[s] = "reapack" =>
       /\ IsMessageOf(current[s], message[s])
       /\ Past(current[s], message[s])
       /\ \A w \in Workers :
             Serves[w] = StreamOf(current[s]) /\ held[w] = message[s] => ~Attempting(w)

PendingInv ==
    /\ OneHolder /\ StoredIsSettled /\ PushedIds /\ RowIds /\ StuckIds /\ ReapIds
    /\ OpenAttemptsArePending

(* A message stays a message of its task.                                  *)
LEMMA MessageOfGood ==
    ASSUME TypeOK, [Next]_vars, NEW t \in Tasks, NEW i, IsMessageOf(t, i)
    PROVE  IsMessageOf(t, i)'
BY StreamsOfTasks, LogGrows DEF IsMessageOf, StreamOf

-----------------------------------------------------------------------------
(* How a worker comes to hold a message.                                   *)
LEMMA HeldWriter ==
    ASSUME TypeOK, NEW w \in Workers, WorkerSteps(w), Holds(w)'
    PROVE  \/ Poll(w)
           \/ /\ Holds(w) /\ held'[w] = held[w] /\ cursor' = cursor
              /\ wpc'[w] = "claim" => wpc[w] = "claim"
              /\ wpc'[w] \in AtWork =>
                    wpc[w] \in AtWork \cup {"idle", "ack"} \/ ClaimWon(w)
              /\ wpc'[w] \in {"idle", "ack"} => wpc[w] \in {"idle", "ack"} \/ Complete(w)
<1>0. wpc \in [Workers -> WorkerPC]
  BY DEF TypeOK, WorkerTypeOK
<1>1. CASE UNCHANGED <<wpc, held, cursor>>
  BY <1>1 DEF Holds
<1>2. CASE RunWorker(w)
  <2>1. CASE Ack(w)
    BY <1>0, <2>1 DEF Ack, LetGo, Jump, Holds
  <2>2. CASE ClaimWon(w) \/ ClaimLost(w) \/ MarkBusy(w) \/ Complete(w) \/ ExecuteFails(w)
    BY <1>0, <2>2 DEF ClaimWon, ClaimLost, MarkBusy, Complete, ExecuteFails, At, Jump,
                      Holds, AtWork
  <2>3. CASE MarkIdle(w) \/ ReadRetries(w) \/ ResetToPending(w) \/ MarkFailed(w) \/ Bury(w)
    BY <1>0, <2>3 DEF MarkIdle, ReadRetries, ResetToPending, MarkFailed, Bury, At, Jump,
                      Holds, AtWork
  <2>4. CASE MarkIdleAfterFailure(w)
    BY <1>0, <2>4 DEF MarkIdleAfterFailure, NextAfterIdle, Jump, Holds, AtWork
  <2> QED BY <1>2, <2>1, <2>2, <2>3, <2>4 DEF RunWorker, WorkerStep
<1>3. CASE WorkerFault(w)
  <2>1. CASE WorkerCrash(w) \/ LoopError(w)
    BY <1>0, <2>1 DEF WorkerCrash, LoopError, LetGo, Jump, Holds
  <2>2. CASE PersistError(w)
    BY <1>0, <2>2 DEF PersistError, Jump, Holds, AtWork
  <2>3. CASE HeartbeatLapse(w)
    BY <1>1, <2>3 DEF HeartbeatLapse
  <2> QED BY <1>3, <2>1, <2>2, <2>3 DEF WorkerFault
<1>4. CASE StartWorker(w)
  BY <1>0, <1>4 DEF StartWorker, Register, Jump, Holds
<1>5. CASE BeatHeart(w) \/ GoStale(w) \/ Deregistration(w)
  BY <1>1, <1>5 DEF BeatHeart, Heartbeat, GoStale, HeartbeatLapse, Deregistration,
                    DeregisterWorker, ApiAlone
<1> QED BY <1>2, <1>3, <1>4, <1>5 DEF WorkerSteps

(* XREADGROUP gives out a new id.                                          *)
LEMMA PollIsNew ==
    ASSUME TypeOK, NEW w \in Workers, Poll(w)
    PROVE  /\ held'[w] = cursor[Serves[w]] + 1
           /\ wpc'[w] = "claim" /\ log' = log /\ tasks' = tasks
           /\ <<Serves[w], held'[w]>> \in pel'
           /\ \A q \in Streams : /\ cursor[q] \in Nat
                                 /\ cursor'[q] \in {cursor[q], cursor[q] + 1}
           /\ Serves[w] \in Streams
<1>1. /\ cursor \in [Streams -> Nat] /\ Serves[w] \in Streams
      /\ wpc \in [Workers -> WorkerPC] /\ held \in [Workers -> Nat]
  BY ServesAssumption DEF TypeOK, RedisTypeOK, WorkerTypeOK
<1>2. /\ cursor' = [cursor EXCEPT ![Serves[w]] = cursor[Serves[w]] + 1]
      /\ pel' = pel \cup {<<Serves[w], cursor[Serves[w]] + 1>>}
  BY DEF Poll, XReadGroup
<1>3. \A q \in Streams : cursor'[q] \in {cursor[q], cursor[q] + 1}
  BY <1>1, <1>2
<1> QED BY <1>1, <1>2, <1>3 DEF Poll, Jump

(* No process but one moves, and readers only move on.                     *)
LEMMA HoldersMove ==
    ASSUME TypeOK, [Next]_vars, NEW w \in Workers, Holds(w)'
    PROVE  \/ Poll(w) /\ OnlyWorker(w)
           \/ /\ Holds(w) /\ held'[w] = held[w]
              /\ wpc'[w] = "claim" => wpc[w] = "claim"
              /\ wpc'[w] \in AtWork =>
                    wpc[w] \in AtWork \cup {"idle", "ack"} \/ ClaimWon(w)
              /\ wpc'[w] \in {"idle", "ack"} => wpc[w] \in {"idle", "ack"} \/ Complete(w)
<1>1. CASE wpc'[w] = wpc[w] /\ held'[w] = held[w]
  BY <1>1 DEF Holds
<1>2. CASE OnlyWorker(w)
  BY <1>2, HeldWriter DEF OnlyWorker
<1>3. ASSUME NEW v \in Workers, OnlyWorker(v), v # w
      PROVE  wpc'[w] = wpc[w] /\ held'[w] = held[w]
  BY <1>3 DEF OnlyWorker
<1> QED BY <1>1, <1>2, <1>3, OneProcess DEF OnlyScheduler, NoProcess

(* No message is delivered again.                                          *)
LEMMA CursorsAdvance ==
    ASSUME TypeOK, [Next]_vars, NEW q \in Streams
    PROVE  cursor[q] \in Nat /\ cursor'[q] \in Nat /\ cursor[q] <= cursor'[q]
<1>1. cursor \in [Streams -> Nat]
  BY DEF TypeOK, RedisTypeOK
<1>2. CASE cursor' = cursor
  BY <1>1, <1>2
<1>3. ASSUME NEW w \in Workers, Poll(w) PROVE cursor'[q] \in Nat /\ cursor[q] <= cursor'[q]
  <2>1. cursor[q] \in Nat /\ cursor'[q] \in {cursor[q], cursor[q] + 1}
    BY <1>3, PollIsNew
  <2> QED BY <2>1
<1> QED BY <1>1, <1>2, <1>3, OneProcess, CursorWriter DEF OnlyScheduler, OnlyWorker, NoProcess

(* What is past stays past.                                                *)
LEMMA PastForGood ==
    ASSUME TypeOK, [Next]_vars, NEW t \in Tasks, NEW i \in Nat, Past(t, i)
    PROVE  Past(t, i)'
<1>1. StreamOf(t) \in Streams /\ StreamOf(t)' = StreamOf(t)
  BY StreamsOfTasks DEF StreamOf
<1>2. i <= cursor'[StreamOf(t)]
  BY <1>1, CursorsAdvance DEF Past
<1>3. ASSUME NEW w \in Workers, wpc'[w] = "claim", Serves[w] = StreamOf(t), held'[w] = i
      PROVE  FALSE
  <2>1. CASE Poll(w)
    <3>1. held'[w] = cursor[StreamOf(t)] + 1 /\ cursor[StreamOf(t)] \in Nat
      BY <1>1, <1>3, <2>1, PollIsNew
    <3> QED BY <1>3, <3>1 DEF Past
  <2>2. CASE held'[w] = held[w] /\ wpc[w] = "claim"
    BY <1>3, <2>2 DEF Past, At
  <2> QED BY <1>3, <2>1, <2>2, HoldersMove DEF Holds
<1> QED BY <1>1, <1>2, <1>3 DEF Past, At

(* No message is ever in the hands of two workers.                         *)
LEMMA OneHolderKept ==
    ASSUME TypeOK, OneHolder, [Next]_vars
    PROVE  OneHolder'
<1> SUFFICES ASSUME NEW v \in Workers, NEW w \in Workers, Holds(v)', Holds(w)',
                    Serves[v] = Serves[w], held'[v] = held'[w]
             PROVE  v = w
  BY DEF OneHolder
<1>0. \A u \in Workers : Holds(u) => /\ held[u] \in Nat /\ cursor[Serves[u]] \in Nat
                                     /\ held[u] <= cursor[Serves[u]]
  BY ServesAssumption DEF TypeOK, WorkerTypeOK, RedisTypeOK, Holds
<1>1. ASSUME NEW x \in Workers, NEW y \in Workers, Poll(x), Holds(y), held'[y] = held[y],
             Serves[x] = Serves[y], held'[x] = held'[y]
      PROVE  FALSE
  <2>1. held'[x] = cursor[Serves[x]] + 1
    BY <1>1, PollIsNew
  <2>2. /\ held[y] \in Nat /\ cursor[Serves[y]] \in Nat
        /\ held[y] <= cursor[Serves[y]]
    BY <1>0, <1>1
  <2>3. held[y] = cursor[Serves[y]] + 1
    BY <1>1, <2>1
  <2> QED BY <2>2, <2>3
<1>2. CASE Holds(v) /\ held'[v] = held[v] /\ Holds(w) /\ held'[w] = held[w]
  BY <1>2 DEF OneHolder
<1>3. CASE Poll(v) /\ OnlyWorker(v) /\ Poll(w) /\ OnlyWorker(w)
  <2>1. wpc[w] = "poll" /\ wpc'[w] = "claim"
    BY <1>3, PollIsNew DEF Poll, At
  <2> QED BY <1>3, <2>1 DEF OnlyWorker
<1> QED BY <1>1, <1>2, <1>3, HoldersMove

-----------------------------------------------------------------------------
(* What stays of a task whose result a worker has stored.                  *)
LEMMA StoredIsSettledKept ==
    ASSUME TypeOK, KnownTasks, StoredIsSettled, [Next]_vars
    PROVE  StoredIsSettled'
<1> SUFFICES ASSUME NEW w \in Workers, wpc'[w] \in {"idle", "ack"}
             PROVE  tasks'[TaskOf(w)'].status \in TerminalTask
  BY DEF StoredIsSettled
<1>0. tasks \in [Tasks -> TaskRow]
  BY DEF TypeOK, TablesTypeOK
<1>1. Holds(w) /\ held'[w] = held[w] /\ (wpc[w] \in {"idle", "ack"} \/ Complete(w))
  BY HoldersMove, PollIsNew DEF Holds
<1>2. TaskOf(w) \in Tasks /\ TaskOf(w)' = TaskOf(w)
  BY <1>1, MessageStays DEF Holds, TaskOf
<1>3. CASE wpc[w] \in {"idle", "ack"}
  BY <1>2, <1>3, TerminalForGood DEF StoredIsSettled
<1>4. CASE Complete(w)
  BY <1>0, <1>2, <1>4 DEF Complete, TaskRow, TerminalTask
<1> QED BY <1>1, <1>3, <1>4

(* Only the claim gives a task to a worker.                                *)
LEMMA OwnerWriter ==
    ASSUME TypeOK, [Next]_vars, NEW t \in Tasks, NEW w \in Workers,
           tasks'[t].status = "RUNNING", tasks'[t].worker_id = w
    PROVE  \/ tasks[t].status = "RUNNING" /\ tasks[t].worker_id = w
           \/ ClaimWon(w) /\ TaskOf(w) = t
<1> DEFINE Goal == \/ tasks[t].status = "RUNNING" /\ tasks[t].worker_id = w
                   \/ ClaimWon(w) /\ TaskOf(w) = t
<1>0. tasks \in [Tasks -> TaskRow]
  BY DEF TypeOK, TablesTypeOK
<1>1. ASSUME NEW s \in Schedulers, SchedulerWrites(s) PROVE Goal
  <2>1. CASE EnqueueWon(s)
    BY <1>0, <2>1 DEF EnqueueWon, SetStatus, TaskRow
  <2>2. CASE StoreMessageId(s)
    BY <1>0, <2>2 DEF StoreMessageId, TaskRow
  <2>3. CASE ReapExhausted(s)
    BY <1>0, <2>3 DEF ReapExhausted, SetStatus, TaskRow
  <2>4. CASE ReapReset(s)
    BY <1>0, <2>4 DEF ReapReset, ResetIfRunning, TaskRow
  <2> QED BY <1>1, <2>1, <2>2, <2>3, <2>4 DEF SchedulerWrites
<1>2. ASSUME NEW v \in Workers, WorkerWrites(v) PROVE Goal
  <2>1. CASE ClaimWon(v)
    <3>1. CASE TaskOf(v) = t
      BY <1>0, <2>1, <3>1 DEF ClaimWon, TaskRow
    <3>2. CASE TaskOf(v) # t
      BY <1>0, <2>1, <3>2 DEF ClaimWon
    <3> QED BY <3>1, <3>2
  <2>2. CASE Complete(v)
    BY <1>0, <2>2 DEF Complete, TaskRow
  <2>3. CASE ResetToPending(v)
    BY <1>0, <2>3 DEF ResetToPending, ResetIfRunning, TaskRow
  <2>4. CASE MarkFailed(v)
    BY <1>0, <2>4 DEF MarkFailed, SetStatus, TaskRow
  <2> QED BY <1>2, <2>1, <2>2, <2>3, <2>4 DEF WorkerWrites
<1>3. ASSUME NEW j \in Jobs, SubmitJob(j) \/ CancelCommit(j) PROVE Goal
  BY <1>0, <1>3 DEF SubmitJob, CancelCommit, TaskRow
<1> QED BY <1>1, <1>2, <1>3, TasksWriter

(* A worker holds an attempt that it has just read, or already held.       *)
LEMMA AttemptWriter ==
    ASSUME TypeOK, KnownTasks, DispatchInv, StoredIsSettled, [Next]_vars,
           NEW w \in Workers, Attempting(w)'
    PROVE  Poll(w) \/ (Attempting(w) /\ held'[w] = held[w])
<1> SUFFICES ASSUME ~Poll(w) PROVE Attempting(w) /\ held'[w] = held[w]
  OBVIOUS
<1>0. tasks \in [Tasks -> TaskRow] /\ wpc \in [Workers -> WorkerPC]
  BY DEF TypeOK, TablesTypeOK, WorkerTypeOK
<1>1. /\ Holds(w) /\ held'[w] = held[w]
      /\ wpc'[w] = "claim" => wpc[w] = "claim"
      /\ wpc'[w] \in AtWork => wpc[w] \in AtWork \cup {"idle", "ack"} \/ ClaimWon(w)
  BY HoldersMove DEF Attempting, Holds, AtWork
<1>2. TaskOf(w) \in Tasks /\ TaskOf(w)' = TaskOf(w)
  BY <1>1, MessageStays DEF Holds, TaskOf
<1>3. CASE wpc'[w] = "claim" /\ tasks'[TaskOf(w)].status = "ENQUEUED"
  <2>1. IsReader(TaskOf(w), w)
    BY <1>1, <1>3 DEF IsReader, At
  <2>2. Tickets(TaskOf(w)) # {}
    BY <1>2, <2>1, TicketKinds
  <2>3. tasks[TaskOf(w)].status # "PENDING"
    BY <1>2, <2>2 DEF DispatchInv, SingleDispatch
  <2>4. tasks[TaskOf(w)].status = "ENQUEUED"
    BY <1>2, <1>3, <2>3, TaskMoves
       DEF TaskMove, Stays, IsSubmitted, IsQueued, IsClaimed, IsReset, IsCompleted,
           IsFailed, IsSkipped, Moves
  <2> QED BY <1>1, <1>3, <2>4 DEF Attempting, HoldsAttempt, At
<1>4. CASE /\ wpc'[w] \in AtWork /\ tasks'[TaskOf(w)].status = "RUNNING"
           /\ tasks'[TaskOf(w)].worker_id = w
  <2>1. CASE ClaimWon(w)
    BY <1>1, <2>1 DEF ClaimWon, Claimable, Attempting, HoldsAttempt, At
  <2>2. CASE ~ClaimWon(w)
    <3>1. tasks[TaskOf(w)].status = "RUNNING" /\ tasks[TaskOf(w)].worker_id = w
      BY <1>2, <1>4, <2>2, OwnerWriter
    <3>2. wpc[w] \notin {"idle", "ack"}
      BY <3>1 DEF StoredIsSettled, TerminalTask
    <3> QED BY <1>1, <1>4, <2>2, <3>1, <3>2 DEF Attempting, HoldsAttempt
  <2> QED BY <2>1, <2>2
<1> QED BY <1>2, <1>3, <1>4 DEF Attempting, HoldsAttempt, At

-----------------------------------------------------------------------------
(* The ids that the schedulers keep.                                       *)
LEMMA PushedIdsKept ==
    ASSUME TypeOK, PushedIds, [Next]_vars
    PROVE  PushedIds'
<1> SUFFICES ASSUME NEW s \in Schedulers, spc'[s] = "setmsg"
             PROVE  IsMessageOf(current[s], message[s])'
  BY DEF PushedIds
<1>0. /\ spc \in [Schedulers -> SchedulerPC]
      /\ current \in [Schedulers -> Tasks \cup {NoTask}]
      /\ message \in [Schedulers -> Nat]
      /\ log \in [Streams -> Seq(Tasks)]
      /\ spc[s] \in {"xadd", "setmsg"} => current[s] \in Tasks
  BY DEF TypeOK, SchedulerTypeOK, RedisTypeOK
<1>1. CASE UNCHANGED <<spc, current, message>> \/ (\A u \in Schedulers : u = s =>
              spc'[u] = spc[u] /\ current'[u] = current[u] /\ message'[u] = message[u])
  <2>1. current'[s] = current[s] /\ message'[s] = message[s] /\ spc[s] = "setmsg"
    BY <1>1
  <2>2. IsMessageOf(current[s], message[s])
    BY <2>1 DEF PushedIds
  <2> QED BY <1>0, <2>1, <2>2, MessageOfGood DEF IsMessageOf, StreamOf
<1>2. CASE PushMessage(s)
  <2> DEFINE u == current[s]
  <2>1. u \in Tasks /\ StreamOf(u) \in Streams
    BY <1>0, <1>2, StreamsOfTasks DEF PushMessage
  <2>2. /\ log' = [log EXCEPT ![StreamOf(u)] = Append(@, u)]
        /\ current' = current
        /\ message'[s] = Len(log[StreamOf(u)]) + 1
    BY <1>0, <1>2 DEF PushMessage, XAdd
  <2>3. log'[StreamOf(u)] = Append(log[StreamOf(u)], u) /\ log[StreamOf(u)] \in Seq(Tasks)
    BY <1>0, <2>1, <2>2
  <2> QED BY <2>1, <2>2, <2>3 DEF IsMessageOf, StreamOf
<1>3. CASE OnlyScheduler(s) /\ ~PushMessage(s)
  <2>1. SchedulerSteps(s)
    BY <1>3 DEF OnlyScheduler
  <2>2. UNCHANGED <<spc, current, message>>
    BY <1>0, <1>3, <2>1
       DEF SchedulerSteps, StartScheduler, SchedulerStart, TimePasses, WindowElapses,
         SchedulerFault, CycleError, ReapAckError, BackToReap, MonitorError,
         SchedulerCrash, ProcessEnds, RunCycle, CycleStep, FindReadyTasks,
         SkipIneligible, EnqueueLost, EnqueueWon, StoreMessageId,
         MarkJobRunning, CheckJobCompletions, SettleJob, EndCycle, RunMonitor, MonitorStep,
         MarkStaleDead, FindStuckTasks, ReapExhausted, ReapReset, AckReaped, MonitorDone, Goto
  <2> QED BY <1>1, <2>2
<1>4. ASSUME NEW u \in Schedulers, OnlyScheduler(u), u # s
      PROVE  spc'[s] = spc[s] /\ current'[s] = current[s] /\ message'[s] = message[s]
  BY <1>4 DEF OnlyScheduler
<1> QED BY <1>1, <1>2, <1>3, <1>4, OneProcess DEF OnlyWorker, NoProcess

(* The id in a row is that of a message of its task.                       *)
LEMMA RowIdsKept ==
    ASSUME TypeOK, PushedIds, RowIds, [Next]_vars
    PROVE  RowIds'
<1> SUFFICES ASSUME NEW t \in Tasks, tasks'[t].stream_message_id # 0
             PROVE  IsMessageOf(t, tasks[t].stream_message_id)'
  BY DEF RowIds
<1>0. tasks \in [Tasks -> TaskRow]
  BY DEF TypeOK, TablesTypeOK
<1>1. CASE tasks'[t].stream_message_id = tasks[t].stream_message_id
  <2>1. IsMessageOf(t, tasks[t].stream_message_id)
    BY <1>1 DEF RowIds
  <2> QED BY <1>1, <2>1, MessageOfGood DEF IsMessageOf
<1>2. ASSUME NEW s \in Schedulers, StoreMessageId(s), current[s] = t
      PROVE  IsMessageOf(t, tasks[t].stream_message_id)'
  <2>1. tasks'[t].stream_message_id = message[s]
    BY <1>0, <1>2 DEF StoreMessageId, TaskRow
  <2>2. IsMessageOf(t, message[s])
    BY <1>2 DEF PushedIds, StoreMessageId
  <2> QED BY <2>1, <2>2, MessageOfGood DEF IsMessageOf
<1> DEFINE Kept == tasks'[t].stream_message_id = tasks[t].stream_message_id
<1>3. ASSUME NEW s \in Schedulers, SchedulerWrites(s)
      PROVE  Kept \/ (StoreMessageId(s) /\ current[s] = t)
  <2>1. CASE EnqueueWon(s)
    BY <1>0, <2>1 DEF EnqueueWon, SetStatus, TaskRow
  <2>2. CASE StoreMessageId(s)
    BY <1>0, <2>2 DEF StoreMessageId, TaskRow
  <2>3. CASE ReapExhausted(s)
    BY <1>0, <2>3 DEF ReapExhausted, SetStatus, TaskRow
  <2>4. CASE ReapReset(s)
    BY <1>0, <2>4 DEF ReapReset, ResetIfRunning, TaskRow
  <2> QED BY <1>3, <2>1, <2>2, <2>3, <2>4 DEF SchedulerWrites
<1>4. ASSUME NEW v \in Workers, WorkerWrites(v) PROVE Kept
  <2>1. CASE ClaimWon(v)
    BY <1>0, <2>1 DEF ClaimWon, TaskRow
  <2>2. CASE Complete(v)
    BY <1>0, <2>2 DEF Complete, TaskRow
  <2>3. CASE ResetToPending(v)
    BY <1>0, <2>3 DEF ResetToPending, ResetIfRunning, TaskRow
  <2>4. CASE MarkFailed(v)
    BY <1>0, <2>4 DEF MarkFailed, SetStatus, TaskRow
  <2> QED BY <1>4, <2>1, <2>2, <2>3, <2>4 DEF WorkerWrites
<1>5. ASSUME NEW j \in Jobs, SubmitJob(j) \/ CancelCommit(j) PROVE Kept
  BY <1>0, <1>5 DEF SubmitJob, CancelCommit, TaskRow
<1> QED BY <1>1, <1>2, <1>3, <1>4, <1>5, TasksWriter

(* The message of a RUNNING task is past.                                  *)
LEMMA RunningIsPast ==
    ASSUME TypeOK, DispatchInv, NEW t \in Tasks, tasks[t].status = "RUNNING",
           NEW i, IsMessageOf(t, i)
    PROVE  Past(t, i)
<1>0. StreamOf(t) \in Streams /\ cursor \in [Streams -> Nat]
  BY StreamsOfTasks DEF TypeOK, RedisTypeOK
<1>1. Tickets(t) = {}
  BY DEF DispatchInv, SingleDispatch
<1>2. i <= cursor[StreamOf(t)]
  <2>1. ~IsMessage(t, i)
    BY <1>1, TicketKinds
  <2> QED BY <1>0, <2>1 DEF IsMessage, IsMessageOf, Undelivered
<1>3. ASSUME NEW w \in Workers, At(w, "claim"), Serves[w] = StreamOf(t), held[w] = i
      PROVE  FALSE
  <2>1. IsReader(t, w)
    BY <1>3 DEF IsReader, IsMessageOf, TaskOf
  <2> QED BY <1>1, <2>1, TicketKinds
<1> QED BY <1>2, <1>3 DEF Past

(* The id in a stuck row is that of a message whose claim is over.         *)
LEMMA StuckIdsKept ==
    ASSUME TypeOK, DispatchInv, RowIds, StuckIds, [Next]_vars
    PROVE  StuckIds'
<1> SUFFICES ASSUME NEW s \in Schedulers, NEW r \in stuck'[s], r.stream_message_id # 0
             PROVE  /\ IsMessageOf(r.task, r.stream_message_id)'
                    /\ Past(r.task, r.stream_message_id)'
  BY DEF StuckIds, IsMessageOf, Past, StreamOf, At
<1> DEFINE Goal == /\ IsMessageOf(r.task, r.stream_message_id)'
                   /\ Past(r.task, r.stream_message_id)'
<1>0. stuck \in [Schedulers -> SUBSET StuckRow]
  BY DEF TypeOK, MonitorTypeOK
<1>1. ASSUME r.task \in Tasks, r.stream_message_id \in Nat,
             IsMessageOf(r.task, r.stream_message_id), Past(r.task, r.stream_message_id)
      PROVE  Goal
  BY <1>1, MessageOfGood, PastForGood DEF IsMessageOf, Past, StreamOf, At
<1>2. CASE r \in stuck[s]
  <2>1. r.task \in Tasks /\ r.stream_message_id \in Nat
    BY <1>0, <1>2 DEF StuckRow
  <2> QED BY <1>1, <1>2, <2>1 DEF StuckIds
<1>3. CASE FindStuckTasks(s)
  <2>1. PICK t \in StuckTasks : /\ r.task = t
                                /\ r.stream_message_id = tasks[t].stream_message_id
    BY <1>0, <1>3 DEF FindStuckTasks
  <2>2. t \in Tasks /\ tasks[t].status = "RUNNING"
    BY DEF StuckTasks
  <2>3. IsMessageOf(t, r.stream_message_id) /\ r.stream_message_id \in Nat
    BY <2>1, <2>2 DEF RowIds, TypeOK, TablesTypeOK, TaskRow
  <2> QED BY <1>1, <2>1, <2>2, <2>3, RunningIsPast
<1>4. ASSUME NEW u \in Schedulers, SchedulerSteps(u)
      PROVE  r \in stuck[s] \/ (u = s /\ FindStuckTasks(s))
  <2>1. CASE UNCHANGED stuck
    BY <2>1
  <2>2. CASE stuck' = [stuck EXCEPT ![u] = {}]
    BY <1>0, <2>2
  <2>3. CASE \E x \in stuck[u] : TakeStuck(u, x)
    BY <1>0, <2>3 DEF TakeStuck
  <2>4. CASE FindStuckTasks(u)
    BY <1>0, <2>4 DEF FindStuckTasks
  <2>5. \/ UNCHANGED stuck \/ stuck' = [stuck EXCEPT ![u] = {}]
        \/ (\E x \in stuck[u] : TakeStuck(u, x)) \/ FindStuckTasks(u)
    BY <1>4 DEF SchedulerSteps, StartScheduler, TimePasses, SchedulerFault,
         ReapAckError, BackToReap, MonitorError, SchedulerCrash, ProcessEnds, RunCycle,
         RunMonitor, MonitorStep, MarkStaleDead, ReapExhausted, ReapReset, AckReaped,
         MonitorDone
  <2> QED BY <2>1, <2>2, <2>3, <2>4, <2>5
<1> QED BY <1>2, <1>3, <1>4, OthersKeepSchedulers

(* The monitor is about to acknowledge what it took from a stuck row, and  *)
(* the task of that row is not RUNNING any more.                           *)
LEMMA ReapWriter ==
    ASSUME TypeOK, NEW s \in Schedulers, SchedulerSteps(s), spc'[s] = "reapack"
    PROVE  \/ spc[s] = "reapack" /\ current'[s] = current[s] /\ message'[s] = message[s]
           \/ \E r \in stuck[s] :
                 /\ r.stream_message_id # 0
                 /\ current'[s] = r.task /\ message'[s] = r.stream_message_id
                 /\ tasks'[r.task].status # "RUNNING"
<1>0. /\ spc \in [Schedulers -> SchedulerPC]
      /\ current \in [Schedulers -> Tasks \cup {NoTask}]
      /\ message \in [Schedulers -> Nat]
      /\ tasks \in [Tasks -> TaskRow]
      /\ \A r \in stuck[s] : r.task \in Tasks
  BY DEF TypeOK, SchedulerTypeOK, TablesTypeOK, MonitorTypeOK, StuckRow
<1>1. CASE ReapReset(s)
  <2>1. PICK r \in stuck[s] :
           /\ TakeStuck(s, r)
           /\ ResetIfRunning(r.task)
           /\ IF r.stream_message_id = 0
              THEN UNCHANGED <<spc, current, message>>
              ELSE /\ current' = [current EXCEPT ![s] = r.task]
                   /\ message' = [message EXCEPT ![s] = r.stream_message_id]
    BY <1>1 DEF ReapReset
  <2>2. r.stream_message_id # 0
    BY <2>1 DEF TakeStuck
  <2>3. tasks'[r.task].status # "RUNNING"
    BY <1>0, <2>1, ResetRow DEF TypeOK
  <2> QED BY <1>0, <2>1, <2>2, <2>3
<1>2. CASE ~ReapReset(s)
  <2>1. UNCHANGED <<spc, current, message>>
    BY <1>0, <1>2
       DEF SchedulerSteps, StartScheduler, SchedulerStart, TimePasses, WindowElapses,
         SchedulerFault, CycleError, ReapAckError, BackToReap, MonitorError,
         SchedulerCrash, ProcessEnds, RunCycle, CycleStep, FindReadyTasks,
         SkipIneligible, EnqueueLost, EnqueueWon, PushMessage, StoreMessageId,
         MarkJobRunning, CheckJobCompletions, SettleJob, EndCycle, RunMonitor, MonitorStep,
         MarkStaleDead, FindStuckTasks, ReapExhausted, AckReaped, MonitorDone, Goto
  <2> QED BY <2>1
<1> QED BY <1>1, <1>2

(* What the monitor is about to acknowledge is the message of no attempt   *)
(* that goes on.                                                           *)
LEMMA ReapIdsKept ==
    ASSUME TypeOK, KnownTasks, DispatchInv, StoredIsSettled, StuckIds, ReapIds, [Next]_vars
    PROVE  ReapIds'
<1> SUFFICES ASSUME NEW s \in Schedulers, spc'[s] = "reapack",
                    NEW t, t = current'[s], NEW i, i = message'[s]
             PROVE  /\ IsMessageOf(t, i)' /\ Past(t, i)'
                    /\ \A w \in Workers :
                          Serves[w] = StreamOf(t) /\ held'[w] = i => ~Attempting(w)'
  BY DEF ReapIds, IsMessageOf, Past, StreamOf, At
<1>1. CASE spc[s] = "reapack" /\ current'[s] = current[s] /\ message'[s] = message[s]
  <2>1. t \in Tasks /\ i \in Nat
    BY <1>1 DEF TypeOK, SchedulerTypeOK
  <2>2. /\ IsMessageOf(t, i) /\ Past(t, i)
        /\ \A w \in Workers : Serves[w] = StreamOf(t) /\ held[w] = i => ~Attempting(w)
    BY <1>1 DEF ReapIds
  <2>3. ASSUME NEW w \in Workers, Serves[w] = StreamOf(t), held'[w] = i, Attempting(w)'
        PROVE  FALSE
    <3>1. CASE Poll(w)
      <4>1. held'[w] = cursor[StreamOf(t)] + 1 /\ cursor[StreamOf(t)] \in Nat
        BY <2>3, <3>1, PollIsNew
      <4> QED BY <2>1, <2>2, <2>3, <4>1 DEF Past
    <3>2. CASE Attempting(w) /\ held'[w] = held[w]
      BY <2>2, <2>3, <3>2
    <3> QED BY <2>3, <3>1, <3>2, AttemptWriter
  <2> QED BY <2>1, <2>2, <2>3, MessageOfGood, PastForGood
<1>2. ASSUME OnlyScheduler(s), NEW r \in stuck[s], r.stream_message_id # 0,
             t = r.task, i = r.stream_message_id, tasks'[t].status # "RUNNING"
      PROVE  /\ IsMessageOf(t, i)' /\ Past(t, i)'
             /\ \A w \in Workers :
                   Serves[w] = StreamOf(t) /\ held'[w] = i => ~Attempting(w)'
  <2>1. t \in Tasks /\ i \in Nat
    BY <1>2 DEF TypeOK, MonitorTypeOK, StuckRow
  <2>2. IsMessageOf(t, i)' /\ Past(t, i)'
    BY <1>2, <2>1, MessageOfGood, PastForGood DEF StuckIds
  <2>3. ASSUME NEW w \in Workers, Serves[w] = StreamOf(t), held'[w] = i, Attempting(w)'
        PROVE  FALSE
    <3>1. TaskOf(w)' = t
      BY <2>2, <2>3 DEF IsMessageOf, TaskOf, StreamOf
    <3>2. wpc'[w] # "claim"
      BY <2>2, <2>3 DEF Past, StreamOf, At
    <3> QED BY <1>2, <2>3, <3>1, <3>2 DEF Attempting, HoldsAttempt, At
  <2> QED BY <2>2, <2>3
<1>3. ASSUME NEW u \in Schedulers, OnlyScheduler(u), u # s
      PROVE  spc'[s] = spc[s] /\ current'[s] = current[s] /\ message'[s] = message[s]
  BY <1>3 DEF OnlyScheduler
<1>4. CASE OnlyScheduler(s)
  BY <1>1, <1>2, <1>4, ReapWriter DEF OnlyScheduler
<1> QED BY <1>1, <1>3, <1>4, OneProcess DEF OnlyWorker, NoProcess

-----------------------------------------------------------------------------
(* Only an XACK takes an entry out of the PEL.                             *)
LEMMA PelWriter ==
    ASSUME [Next]_vars
    PROVE  \/ pel \subseteq pel'
           \/ \E s \in Schedulers : AckReaped(s)
           \/ \E w \in Workers : Ack(w)
<1>1. CASE UNCHANGED vars
  BY <1>1 DEF vars
<1>2. ASSUME NEW s \in Schedulers, SchedulerSteps(s) PROVE pel' = pel \/ AckReaped(s)
  BY <1>2 DEF SchedulerSteps, StartScheduler, SchedulerStart, TimePasses, WindowElapses,
         SchedulerFault, CycleError, ReapAckError, BackToReap, MonitorError,
         SchedulerCrash, ProcessEnds, RunCycle, CycleStep, FindReadyTasks,
         SkipIneligible, EnqueueLost, EnqueueWon, PushMessage, StoreMessageId,
         MarkJobRunning, CheckJobCompletions, SettleJob, EndCycle, RunMonitor, MonitorStep,
         MarkStaleDead, FindStuckTasks, ReapExhausted, ReapReset, MonitorDone
<1>3. ASSUME NEW w \in Workers, WorkerSteps(w) PROVE pel \subseteq pel' \/ Ack(w)
  BY <1>3 DEF WorkerSteps, StartWorker, Register, RunWorker, WorkerStep, Poll, XReadGroup,
       ClaimWon, ClaimLost, MarkBusy, Complete, ExecuteFails, MarkIdle, ReadRetries,
       ResetToPending, MarkFailed, MarkIdleAfterFailure, Bury, BeatHeart,
       Heartbeat, GoStale, HeartbeatLapse, WorkerFault, WorkerCrash, LoopError,
       PersistError, Deregistration, DeregisterWorker
<1>4. ASSUME NEW j \in Jobs, Request(j) PROVE pel' = pel
  BY <1>4 DEF Request, SubmitJob, CancelCheck, CancelCommit
<1> QED BY <1>1, <1>2, <1>3, <1>4 DEF Next, SchedulerSteps, WorkerSteps

(* So no XACK takes out the message of one.                                *)
LEMMA PendingKept ==
    ASSUME TypeOK, KnownTasks, DispatchInv, PendingInv, [Next]_vars
    PROVE  OpenAttemptsArePending'
<1> USE DEF PendingInv
<1> SUFFICES ASSUME NEW w \in Workers, Attempting(w)'
             PROVE  <<Serves[w], held'[w]>> \in pel'
  BY DEF OpenAttemptsArePending, Attempting
<1>1. CASE Poll(w)
  BY <1>1, PollIsNew
<1>2. CASE Attempting(w) /\ held'[w] = held[w]
  <2>1. <<Serves[w], held[w]>> \in pel
    BY <1>2 DEF OpenAttemptsArePending, Attempting
  <2>2. ASSUME NEW s \in Schedulers, AckReaped(s)
        PROVE  <<Serves[w], held[w]>> \in pel'
    <3>1. spc[s] = "reapack" /\ pel' = pel \ {<<StreamOf(current[s]), message[s]>>}
      BY <2>2 DEF AckReaped, BackToReap, XAck
    <3>2. ~(Serves[w] = StreamOf(current[s]) /\ held[w] = message[s])
      BY <1>2, <3>1 DEF ReapIds
    <3> QED BY <2>1, <3>1, <3>2
  <2>3. ASSUME NEW v \in Workers, Ack(v)
        PROVE  <<Serves[w], held[w]>> \in pel'
    <3>1. wpc[v] \in {"ack", "drop"} /\ pel' = pel \ {<<Serves[v], held[v]>>}
      BY <2>3 DEF Ack, XAck
    <3>2. v # w
      BY <1>2, <3>1 DEF Attempting, AtWork
    <3>3. Holds(v) /\ Holds(w)
      BY <1>2, <3>1 DEF Attempting, AtWork, Holds
    <3>4. ~(Serves[v] = Serves[w] /\ held[v] = held[w])
      BY <3>2, <3>3 DEF OneHolder
    <3> QED BY <2>1, <3>1, <3>4
  <2> QED BY <1>2, <2>1, <2>2, <2>3, PelWriter
<1> QED BY <1>1, <1>2, AttemptWriter

(* The message of an attempt that is not over is in the PEL, with any      *)
(* number of schedulers, monitors and faults: no XACK by an id that was    *)
(* read long before takes it out.                                          *)
THEOREM AttemptsStayPending == Spec => []OpenAttemptsArePending
<1>1. Init => PendingInv
  BY DEF Init, TablesInit, RedisInit, SchedulerInit, MonitorInit, WorkerInit, AbsentTask,
         PendingInv, OneHolder, StoredIsSettled, PushedIds, RowIds, StuckIds, ReapIds,
         OpenAttemptsArePending, Holds, AtWork
<1>2. TypeOK /\ KnownTasks /\ SingleDispatch /\ RightStream /\ PendingInv /\ [Next]_vars
         => PendingInv'
  BY OneHolderKept, StoredIsSettledKept, PushedIdsKept, RowIdsKept, StuckIdsKept,
     ReapIdsKept, PendingKept DEF PendingInv, DispatchInv
<1>3. PendingInv => OpenAttemptsArePending
  BY DEF PendingInv
<1>4. Spec => []RightStream
  <2>1. Init => RightStream
    BY DEF Init, RedisInit, RightStream
  <2> QED BY <2>1, RightStreamKept, TypeCorrect, PTL DEF Spec
<1> QED BY <1>1, <1>2, <1>3, <1>4, DispatchedOnce, TypeCorrect, TasksKnown, PTL DEF Spec

-----------------------------------------------------------------------------
(* StartsAreNoticed.  The tasks of job j that a PENDING job has to answer  *)
(* for; a step adds one to them only by a fault in its dispatch.           *)
Unnoticed(j) == {t \in TasksOf(j) : WasDispatched(t) /\ ~InDispatch(t)}

FreshRows == \A t \in Tasks : ~Submitted(t) => tasks[t].retry_count = 0

(* Whatever refers to a task was made by a dispatch of it.                 *)
DispatchedBefore ==
    /\ \A q \in Streams : \A i \in 1 .. Len(log[q]) : WasDispatched(log[q][i])
    /\ \A s \in Schedulers : current[s] # NoTask => WasDispatched(current[s])
    /\ \A s \in Schedulers : \A r \in stuck[s] : WasDispatched(r.task)

FewUnnoticed ==
    \A j \in Jobs : jobs[j] = "PENDING" =>
       IsFiniteSet(Unnoticed(j)) /\ Cardinality(Unnoticed(j)) <= faults

NoticeInv == FreshRows /\ DispatchedBefore /\ FewUnnoticed

(* A dispatch is not forgotten.                                            *)
LEMMA DispatchedForGood ==
    ASSUME TypeOK, TypeOK', KnownTasks, [Next]_vars, NEW t \in Tasks, WasDispatched(t)
    PROVE  WasDispatched(t)'
<1>1. /\ tasks[t].retry_count \in Nat /\ tasks'[t].retry_count \in Nat
      /\ tasks[t].retry_count <= tasks'[t].retry_count
  BY RetriesGrow
<1>2. CASE IsReset(t)
  BY <1>1, <1>2 DEF IsReset, WasDispatched
<1>3. CASE tasks[t].retry_count > 0
  BY <1>1, <1>3 DEF WasDispatched
<1>4. CASE tasks[t].status \notin {"ABSENT", "PENDING"} /\ ~IsReset(t)
  BY <1>4, TaskMoves
     DEF TaskMove, Stays, IsSubmitted, IsQueued, IsClaimed, IsCompleted,
         IsFailed, IsSkipped, Moves, WasDispatched
<1> QED BY <1>2, <1>3, <1>4 DEF WasDispatched

(* A row that was not submitted has no retries.                            *)
LEMMA FreshRowsKept ==
    ASSUME TypeOK, KnownTasks, FreshRows, [Next]_vars
    PROVE  FreshRows'
<1> SUFFICES ASSUME NEW t \in Tasks, ~Submitted(t)' PROVE tasks'[t].retry_count = 0
  BY DEF FreshRows, Submitted
<1>1. ~Submitted(t)
  BY SubmittedForGood
<1>2. Stays(t)
  BY <1>1, TaskMoves
     DEF TaskMove, IsSubmitted, IsQueued, IsClaimed, IsReset, IsCompleted,
         IsFailed, IsSkipped, Moves, Submitted
<1> QED BY <1>1, <1>2 DEF Stays, KeepsAttempts, FreshRows

(* Messages, dispatches and stuck rows come from dispatches.               *)
LEMMA DispatchedBeforeKept ==
    ASSUME TypeOK, TypeOK', KnownTasks, DispatchedBefore, [Next]_vars
    PROVE  DispatchedBefore'
<1>1. ASSUME NEW q \in Streams, NEW i \in 1 .. Len(log'[q])
      PROVE  WasDispatched(log[q][i])'
  <2>0. log \in [Streams -> Seq(Tasks)] /\ log[q] \in Seq(Tasks)
    BY DEF TypeOK, RedisTypeOK
  <2>1. CASE i \in 1 .. Len(log[q])
    <3>1. log'[q][i] = log[q][i] /\ log[q][i] \in Tasks
      BY <2>1, LogGrows
    <3>2. WasDispatched(log[q][i])
      BY <2>1 DEF DispatchedBefore
    <3> QED BY <3>1, <3>2, DispatchedForGood DEF WasDispatched
  <2>2. ASSUME NEW s \in Schedulers, PushMessage(s), i \notin 1 .. Len(log[q])
        PROVE  WasDispatched(log[q][i])'
    <3>1. current[s] \in Tasks /\ current[s] # NoTask
      BY <2>2 DEF PushMessage, TypeOK, SchedulerTypeOK
    <3>2. log' = [log EXCEPT ![StreamOf(current[s])] = Append(@, current[s])]
      BY <2>2 DEF PushMessage, XAdd
    <3>3. q = StreamOf(current[s])
      BY <2>0, <2>2, <3>2
    <3>4. log'[q][i] = current[s]
      BY <2>0, <2>2, <3>1, <3>2, <3>3
    <3>5. WasDispatched(current[s])
      BY <3>1 DEF DispatchedBefore
    <3> QED BY <3>1, <3>4, <3>5, DispatchedForGood DEF WasDispatched
  <2>3. log' # log => \E s \in Schedulers : PushMessage(s)
    BY LogWriter
  <2> QED BY <2>1, <2>2, <2>3
<1>2. ASSUME NEW s \in Schedulers, current'[s] # NoTask
      PROVE  WasDispatched(current[s])'
  <2>1. current'[s] \in Tasks
    BY <1>2 DEF TypeOK, SchedulerTypeOK
  <2>2. CASE current'[s] = current[s]
    BY <1>2, <2>1, <2>2, DispatchedForGood DEF DispatchedBefore, WasDispatched
  <2>3. CASE tasks'[current'[s]].status = "ENQUEUED"
    BY <2>3 DEF WasDispatched
  <2>4. ASSUME NEW r \in stuck[s], current'[s] = r.task PROVE WasDispatched(current[s])'
    BY <2>1, <2>4, DispatchedForGood DEF DispatchedBefore, WasDispatched
  <2> QED BY <1>2, <2>2, <2>3, <2>4, CurrentWriter
<1>3. ASSUME NEW s \in Schedulers, NEW r \in stuck'[s] PROVE WasDispatched(r.task)'
  <2>1. r.task \in Tasks
    BY <1>3 DEF TypeOK, MonitorTypeOK, StuckRow
  <2>2. CASE r \in stuck[s]
    BY <2>1, <2>2, DispatchedForGood DEF DispatchedBefore, WasDispatched
  <2>3. CASE tasks[r.task].status = "RUNNING" /\ UNCHANGED tasks
    BY <2>3 DEF WasDispatched
  <2> QED BY <1>3, <2>2, <2>3, StuckWriter
<1> QED BY <1>1, <1>2, <1>3 DEF DispatchedBefore

(* A task is completed by a worker that was given it.                      *)
LEMMA CompletedByWorker ==
    ASSUME TypeOK, [Next]_vars, NEW t \in Tasks,
           tasks[t].status # "COMPLETED", tasks'[t].status = "COMPLETED"
    PROVE  \E w \in Workers : wpc[w] = "exec" /\ TaskOf(w) = t
<1> DEFINE Goal == \E w \in Workers : wpc[w] = "exec" /\ TaskOf(w) = t
<1>0. tasks \in [Tasks -> TaskRow]
  BY DEF TypeOK, TablesTypeOK
<1>1. ASSUME NEW s \in Schedulers, SchedulerWrites(s) PROVE FALSE
  <2>1. CASE EnqueueWon(s)
    BY <1>0, <2>1 DEF EnqueueWon, SetStatus, TaskRow
  <2>2. CASE StoreMessageId(s)
    BY <1>0, <2>2 DEF StoreMessageId, TaskRow
  <2>3. CASE ReapExhausted(s)
    BY <1>0, <2>3 DEF ReapExhausted, SetStatus, TaskRow
  <2>4. CASE ReapReset(s)
    BY <1>0, <2>4 DEF ReapReset, ResetIfRunning, TaskRow
  <2> QED BY <1>1, <2>1, <2>2, <2>3, <2>4 DEF SchedulerWrites
<1>2. ASSUME NEW w \in Workers, WorkerWrites(w)
      PROVE  wpc[w] = "exec" /\ TaskOf(w) = t
  <2>1. CASE ClaimWon(w)
    BY <1>0, <2>1 DEF ClaimWon, TaskRow
  <2>2. CASE Complete(w)
    BY <1>0, <2>2 DEF Complete, At, TaskRow
  <2>3. CASE ResetToPending(w)
    BY <1>0, <2>3 DEF ResetToPending, ResetIfRunning, TaskRow
  <2>4. CASE MarkFailed(w)
    BY <1>0, <2>4 DEF MarkFailed, SetStatus, TaskRow
  <2> QED BY <1>2, <2>1, <2>2, <2>3, <2>4 DEF WorkerWrites
<1>3. ASSUME NEW j \in Jobs, SubmitJob(j) \/ CancelCommit(j) PROVE FALSE
  BY <1>0, <1>3 DEF SubmitJob, CancelCommit, TaskRow
<1> QED BY <1>1, <1>2, <1>3, TasksWriter

(* The task of a worker was dispatched.                                    *)
LEMMA HeldWasDispatched ==
    ASSUME TypeOK, DispatchedBefore, NEW w \in Workers, wpc[w] \notin {"off", "poll"}
    PROVE  WasDispatched(TaskOf(w))
<1>1. Serves[w] \in Streams /\ held[w] \in 1 .. Len(log[Serves[w]])
  BY ServesAssumption DEF TypeOK, WorkerTypeOK, RedisTypeOK
<1> QED BY <1>1 DEF DispatchedBefore, TaskOf

(* The first dispatch of a task of a PENDING job is in progress.           *)
LEMMA FirstDispatch ==
    ASSUME TypeOK, TypeOK', KnownTasks, DispatchedBefore, [Next]_vars, NEW t \in Tasks,
           jobs'[JobOf(t)] = "PENDING", WasDispatched(t)', ~WasDispatched(t)
    PROVE  InDispatch(t)'
<1>1. tasks[t].status \in {"ABSENT", "PENDING"} /\ tasks[t].retry_count = 0
  BY DEF WasDispatched, TypeOK, TablesTypeOK, TaskRow
<1>2. ~GivenUp(t)
  BY HeldWasDispatched DEF GivenUp, DispatchedBefore
<1>3. CASE IsQueued(t)
  BY <1>3, QueuedByScheduler DEF IsQueued, Moves, InDispatch
<1>4. ~IsCompleted(t)
  BY <1>1, CompletedByWorker, HeldWasDispatched DEF IsCompleted
<1>5. CASE Stays(t) \/ IsSubmitted(t)
  BY <1>1, <1>5 DEF Stays, IsSubmitted, Moves, KeepsAttempts, WasDispatched
<1> QED BY <1>1, <1>2, <1>3, <1>4, <1>5, TaskMoves
        DEF TaskMove, IsClaimed, IsReset, IsFailed, IsSkipped, Moves

(* A dispatch ends with the job marked, or by a fault.                     *)
LEMMA DispatchEnds ==
    ASSUME TypeOK, [Next]_vars, NEW s \in Schedulers, OnlyScheduler(s),
           NEW t \in Tasks, InDispatch(t), ~InDispatch(t)'
    PROVE  current[s] = t /\ (SchedulerFault(s) \/ jobs'[JobOf(t)] # "PENDING")
<1>0. /\ spc \in [Schedulers -> SchedulerPC] /\ jobs \in [Jobs -> JobStatus]
      /\ JobOf(t) \in Jobs
  BY DEF TypeOK, SchedulerTypeOK, TablesTypeOK, Tasks, JobOf
<1>1. PICK u \in Schedulers : spc[u] \in {"xadd", "setmsg", "setjob"} /\ current[u] = t
  BY DEF InDispatch
<1>2. u = s
  BY <1>1 DEF OnlyScheduler, InDispatch
<1>3. ~PushMessage(s) /\ ~StoreMessageId(s)
  BY <1>0, <1>1, <1>2 DEF PushMessage, StoreMessageId, Goto, InDispatch
<1>4. MarkJobRunning(s) => jobs'[JobOf(t)] # "PENDING"
  BY <1>0, <1>1, <1>2 DEF MarkJobRunning, Started
<1> QED BY <1>1, <1>2, <1>3, <1>4, DispatchGoesOn DEF OnlyScheduler

(* No other step ends one.                                                 *)
LEMMA DispatchWaits ==
    ASSUME UNCHANGED <<spc, current>>, NEW t, InDispatch(t)
    PROVE  InDispatch(t)'
BY DEF InDispatch

(* A step adds an unnoticed task only by a fault, and then one.            *)
LEMMA FewUnnoticedKept ==
    ASSUME TypeOK, TypeOK', KnownTasks, NoticeInv, [Next]_vars
    PROVE  FewUnnoticed'
<1> USE DEF NoticeInv
<1> SUFFICES ASSUME NEW j \in Jobs, jobs'[j] = "PENDING"
             PROVE  IsFiniteSet(Unnoticed(j)') /\ Cardinality(Unnoticed(j)') <= faults'
  BY DEF FewUnnoticed
<1>0. \A t \in TasksOf(j) : t \in Tasks /\ JobOf(t) = j
  BY DEF TasksOf, Tasks, JobOf
<1>1. IsFiniteSet(Unnoticed(j)) /\ Cardinality(Unnoticed(j)) <= faults
  <2>1. CASE jobs[j] = "PENDING"
    BY <2>1 DEF FewUnnoticed
  <2>2. CASE jobs[j] = "ABSENT"
    <3>1. \A t \in TasksOf(j) : ~WasDispatched(t)
      BY <1>0, <2>2 DEF KnownTasks, FreshRows, Submitted, WasDispatched
    <3>2. Unnoticed(j) = {}
      BY <3>1 DEF Unnoticed
    <3> QED BY <3>2, FS_EmptySet, FaultsCount
  <2>3. jobs[j] \in {"PENDING", "ABSENT"}
    <3>1. \A s \in Schedulers : \A r \in completable[s] : r.verdict # "PENDING"
      BY DEF TypeOK, SchedulerTypeOK, SettleRow
    <3> QED BY <3>1, JobMoves DEF JobMove
  <2> QED BY <2>1, <2>2, <2>3
<1>2. Cardinality(Unnoticed(j)) \in Nat /\ faults \in Nat /\ faults' \in {faults, faults + 1}
  BY <1>1, FS_CardinalityType, FaultsCount
<1>3. ASSUME NEW t \in Unnoticed(j)', t \notin Unnoticed(j)
      PROVE  t \in Tasks /\ JobOf(t) = j /\ InDispatch(t) /\ ~InDispatch(t)'
  <2>1. t \in TasksOf(j) /\ WasDispatched(t)' /\ ~InDispatch(t)'
    BY <1>3 DEF Unnoticed, TasksOf
  <2>2. t \in Tasks /\ JobOf(t) = j
    BY <1>0, <2>1
  <2>3. WasDispatched(t)
    BY <2>1, <2>2, FirstDispatch
  <2> QED BY <1>3, <2>1, <2>2, <2>3 DEF Unnoticed
<1>4. CASE Unnoticed(j)' \subseteq Unnoticed(j)
  BY <1>1, <1>2, <1>4, FS_Subset, FS_CardinalityType
<1>5. ASSUME NEW s \in Schedulers, OnlyScheduler(s), ~(Unnoticed(j)' \subseteq Unnoticed(j))
      PROVE  IsFiniteSet(Unnoticed(j)') /\ Cardinality(Unnoticed(j)') <= faults'
  <2>1. \A t \in Unnoticed(j)' : t \in Unnoticed(j) \/ (t = current[s] /\ SchedulerFault(s))
    BY <1>3, <1>5, DispatchEnds
  <2>2. faults' = faults + 1
    BY <1>5, <2>1, FaultsCount
  <2>3. Unnoticed(j)' \subseteq Unnoticed(j) \cup {current[s]}
    BY <2>1
  <2>4. /\ IsFiniteSet(Unnoticed(j) \cup {current[s]})
        /\ Cardinality(Unnoticed(j) \cup {current[s]}) <= Cardinality(Unnoticed(j)) + 1
        /\ Cardinality(Unnoticed(j) \cup {current[s]}) \in Nat
    <3>1. IsFiniteSet(Unnoticed(j))
      BY <1>1
    <3>2. /\ IsFiniteSet(Unnoticed(j) \cup {current[s]})
          /\ Cardinality(Unnoticed(j) \cup {current[s]}) =
                IF current[s] \in Unnoticed(j) THEN Cardinality(Unnoticed(j))
                                             ELSE Cardinality(Unnoticed(j)) + 1
      BY <3>1, FS_AddElement, Zenon
    <3> QED BY <1>2, <3>2
  <2>5. /\ IsFiniteSet(Unnoticed(j)')
        /\ Cardinality(Unnoticed(j)') <= Cardinality(Unnoticed(j) \cup {current[s]})
        /\ Cardinality(Unnoticed(j)') \in Nat
    BY <2>3, <2>4, FS_Subset, FS_CardinalityType
  <2> QED BY <1>1, <1>2, <2>2, <2>4, <2>5
<1>6. CASE UNCHANGED <<spc, current>>
  <2>1. Unnoticed(j)' \subseteq Unnoticed(j)
    BY <1>3, <1>6, DispatchWaits
  <2> QED BY <1>4, <2>1
<1> QED BY <1>4, <1>5, <1>6, OneProcess DEF OnlyWorker, NoProcess

(* A job that reads PENDING has no more started tasks than there were      *)
(* faults, beyond those whose dispatch is in progress.                     *)
THEOREM StartsNoticed == Spec => []StartsAreNoticed
<1>1. Init => NoticeInv
  BY DEF Init, TablesInit, RedisInit, SchedulerInit, MonitorInit, AbsentTask,
         NoticeInv, FreshRows, DispatchedBefore, FewUnnoticed
<1>2. TypeOK /\ TypeOK' /\ KnownTasks /\ NoticeInv /\ [Next]_vars => NoticeInv'
  BY FreshRowsKept, DispatchedBeforeKept, FewUnnoticedKept DEF NoticeInv
<1>3. NoticeInv => StartsAreNoticed
  BY DEF NoticeInv, FewUnnoticed, Unnoticed, StartsAreNoticed
<1> QED BY <1>1, <1>2, <1>3, TypeCorrect, TasksKnown, PTL DEF Spec
=============================================================================
