---------------------------- MODULE RedisStreams ----------------------------
(***************************************************************************)
(* The Redis streams as the code uses them: every task stream is an        *)
(* append-only log read through one consumer group ("workers").  A message *)
(* id is its position in the log.  XREADGROUP with ">" hands out the next  *)
(* message that no consumer has been given, whoever asks, and enters it in *)
(* the pending entries list (PEL); XACK takes it out.  Nobody in the code  *)
(* reads the PEL back with an explicit id.                                 *)
(***************************************************************************)
EXTENDS Tables, Sequences

CONSTANTS
    Streams,            \* ALL_STREAMS
    STAGE_TO_STREAM     \* stage -> the stream of its tasks

ASSUME StreamAssumption == STAGE_TO_STREAM \in [Stages -> Streams]

VARIABLES
    log,            \* stream -> sequence of tasks, one per XADD
    cursor,         \* stream -> last-delivered-id of the group
    pel,            \* set of <<stream, id>> delivered and not acknowledged
    deadLetters     \* task -> number of its entries in stream:tasks:dead

redisVars == <<log, cursor, pel, deadLetters>>

StreamOf(t) == STAGE_TO_STREAM[StageOf(t)]

(* init_consumer_groups: empty streams (MKSTREAM), group at "$".           *)
RedisInit ==
    /\ log = [q \in Streams |-> <<>>]
    /\ cursor = [q \in Streams |-> 0]
    /\ pel = {}
    /\ deadLetters = [t \in Tasks |-> 0]

RedisTypeOK ==
    /\ log \in [Streams -> Seq(Tasks)]
    /\ cursor \in [Streams -> Nat]
    /\ \A q \in Streams : cursor[q] <= Len(log[q])
    /\ pel \subseteq Streams \X Nat
    /\ deadLetters \in [Tasks -> Nat]

(* Ids of the messages of stream q that wait for a consumer.               *)
Undelivered(q) == (cursor[q] + 1) .. Len(log[q])

XAdd(q, t) == log' = [log EXCEPT ![q] = Append(@, t)]

(* Mutant of XReadGroup: the group does not advance.                       *)
XReadGroupAgain(q) ==
    /\ Undelivered(q) # {}
    /\ pel' = pel \cup {<<q, cursor[q] + 1>>}
    /\ UNCHANGED cursor

XReadGroup(q) ==
    /\ Undelivered(q) # {}
    /\ cursor' = [cursor EXCEPT ![q] = @ + 1]
    /\ pel' = pel \cup {<<q, cursor[q] + 1>>}

XAck(q, id) == pel' = pel \ {<<q, id>>}
=============================================================================
