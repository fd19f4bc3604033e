----------------------------- MODULE QueueDepths -----------------------------
(***************************************************************************)
(* How deep the queues are, as the system reports it: GET /api/queues      *)
(* (api/routes/queues.py), and the snapshot that the scheduler takes now   *)
(* and then at the end of a cycle (scheduler/scheduler.py).  Both ask      *)
(* Redis twice per stream, in opposite orders, while messages come and go. *)
(* What they publish is judged when it is published and kept nowhere.      *)
(***************************************************************************)
EXTENDS System

VARIABLES
    depths,     \* stream -> what GET /api/queues has read, for the one in hand
    todo,       \* scheduler -> streams that its snapshot has yet to take
    sample      \* scheduler -> what it has read, for the stream in hand

depthVars == <<vars, depths, todo, sample>>

None == <<>>
Unread == [total_messages |-> 0, pending_ack |-> 0]

(* The count that XPENDING returns.                                        *)
Pending(q) == Cardinality({e \in pel : e[1] = q})

ReadPending(q, e) == [e EXCEPT !.pending_ack = Pending(q)]
ReadLength(q, e) == [e EXCEPT !.total_messages = Len(log[q])]

-----------------------------------------------------------------------------
(* get_queue_depths goes through the streams.  Requests do not see each    *)
(* other, so one entry at a time stands for any number of requests.  A     *)
(* call that raises makes the entry zeros, which is left out here.         *)

(* Mutant of Measure: XLEN before XPENDING.                                *)
MeasureSwapped(n, q, e) == IF n = 1 THEN ReadLength(q, e) ELSE ReadPending(q, e)

(* The entry e of stream q after the n-th call about it.                   *)
Measure(n, q, e) == IF n = 1 THEN ReadPending(q, e) ELSE ReadLength(q, e)

DepthEntry(q) == Measure(2, q, depths[q])

GetQueueDepths(q) ==
    /\ \/ depths = None /\ depths' = [r \in {q} |-> Measure(1, r, Unread)]
       \/ q \in DOMAIN depths /\ depths' = None
    /\ UNCHANGED <<vars, todo, sample>>

-----------------------------------------------------------------------------
(* _snapshot_queue_metrics, inside run_once after the cleanup; every 15th  *)
(* cycle in the code, any cycle here.                                      *)
StartSnapshot(s) ==
    /\ RunCycle(s) /\ EndCycle(s)
    /\ todo' = [todo EXCEPT ![s] = Streams]
    /\ UNCHANGED <<depths, sample>>

SampleLength(s, q) ==
    /\ q \in todo[s] /\ sample[s] = None
    /\ sample' = [sample EXCEPT ![s] = [r \in {q} |-> ReadLength(r, Unread)]]
    /\ UNCHANGED <<vars, depths, todo>>

(* XPENDING, and the sample goes to the gauge queue_depth_pending (its     *)
(* length) and to a row of queue_metrics (its count).                      *)
Recorded(s, q) == ReadPending(q, sample[s][q])

(* A call that raises skips the stream, or loses the row, or puts 0 for    *)
(* the count: less is recorded, and the loop goes on.                      *)
RecordSample(s, q) ==
    /\ q \in DOMAIN sample[s]
    /\ todo' = [todo EXCEPT ![s] = @ \ {q}]
    /\ sample' = [sample EXCEPT ![s] = None]
    /\ UNCHANGED <<vars, depths>>

(* Mutant of Awaits: the snapshot runs in a task of its own.               *)
AwaitsNothing(s) == TRUE

(* run_once waits for the snapshot: until it is over, the scheduler does   *)
(* nothing else, or dies.                                                  *)
Awaits(s) ==
    \/ todo[s] = {} \/ spc'[s] = "off"
    \/ UNCHANGED <<spc[s], windows[s]>>

SystemStep ==
    /\ Next
    /\ \A s \in Schedulers : Awaits(s)
    /\ todo' = [s \in Schedulers |-> IF spc'[s] = "off" THEN {} ELSE todo[s]]
    /\ sample' = [s \in Schedulers |-> IF spc'[s] = "off" THEN None ELSE sample[s]]
    /\ UNCHANGED depths

-----------------------------------------------------------------------------
DepthInit ==
    /\ Init
    /\ depths = None
    /\ todo = [s \in Schedulers |-> {}]
    /\ sample = [s \in Schedulers |-> None]

SnapshotStep(s) == \E q \in Streams : SampleLength(s, q) \/ RecordSample(s, q)

DepthNext ==
    \/ SystemStep
    \/ \E s \in Schedulers : StartSnapshot(s) \/ SnapshotStep(s)
    \/ \E q \in Streams : GetQueueDepths(q)

DepthSpec == DepthInit /\ [][DepthNext]_depthVars

(* A snapshot that is begun goes on; nothing is assumed of the requests.   *)
FairDepthSpec ==
    DepthSpec /\ Fairness /\ \A s \in Schedulers : WF_depthVars(SnapshotStep(s))

-----------------------------------------------------------------------------
(* DepthsAreConsistent: no answer of GET /api/queues has more messages     *)
(* waiting for their XACK than the stream has messages, although messages  *)
(* come, are delivered and acknowledged between queues.py:27 and 29.       *)
DepthsAreConsistent ==
    [][\A q \in DOMAIN depths : q \notin DOMAIN depths'
          => DepthEntry(q).pending_ack <= DepthEntry(q).total_messages]_depthVars

(* SnapshotIsConsistent: nor does a snapshot record more messages pending  *)
(* than it shows in the gauge, although scheduler.py:244-246 reads the     *)
(* length first: the only process that lengthens a stream is the one that  *)
(* waits for the snapshot (scheduler.py:81).                               *)
SnapshotIsConsistent ==
    [][\A s \in Schedulers : \A q \in DOMAIN sample[s] : sample'[s] = None
          => Recorded(s, q).pending_ack <= Recorded(s, q).total_messages]_depthVars
=============================================================================
