---------------------------- MODULE MysqlQueue -----------------------------
(***************************************************************************)
(* The query queue of src/src/plugin_db/plugin_mysql.c: a ring of          *)
(* DB_MYSQL_MAX_QUEUE_SIZE requests.  Producers and the worker thread      *)
(* change it under g_queue_control->mutex only, so push and pop are single *)
(* steps; they are the operations of the modules that extend this one.     *)
(***************************************************************************)
EXTENDS Integers, Sequences

CONSTANTS
  Requests,   \* the requests that may be pushed
  Capacity,   \* DB_MYSQL_MAX_QUEUE_SIZE
  NoRequest   \* the zeroed QueryRequest

ASSUME QueueAssumption ==
  /\ Capacity \in Nat \ {0}
  /\ NoRequest \notin Requests

VARIABLES queue, queue_head, queue_size

queueVars == <<queue, queue_head, queue_size>>

Slots == 0 .. Capacity - 1

QueueTypeOK ==
  /\ queue \in [Slots -> Requests \cup {NoRequest}]
  /\ queue_head \in Slots
  /\ queue_size \in 0 .. Capacity

QueueInit ==
  /\ queue = [s \in Slots |-> NoRequest]
  /\ queue_head = 0
  /\ queue_size = 0

\* The slot of the i-th request in the ring, counted from 0.
SlotAt(i) == (queue_head + i) % Capacity

\* An emptiness test that is off by one.
AlmostEmpty == queue_size <= 1

QueueIsEmpty == queue_size = 0

QueuePush(r) ==
  /\ queue_size < Capacity
  /\ queue' = [queue EXCEPT ![SlotAt(queue_size)] = r]
  /\ queue_size' = queue_size + 1
  /\ UNCHANGED queue_head

\* A pop that takes from the wrong end.
PopNewest ==
  /\ ~QueueIsEmpty
  /\ queue_size' = queue_size - 1
  /\ UNCHANGED <<queue, queue_head>>

\* The popped request is the one at queue_head; its slot keeps its content.
QueuePop ==
  /\ ~QueueIsEmpty
  /\ queue_head' = SlotAt(1)
  /\ queue_size' = queue_size - 1
  /\ UNCHANGED queue

QueueNext == QueuePop \/ \E r \in Requests : QueuePush(r)

QueueSpec == QueueInit /\ [][QueueNext]_queueVars

\* The requests in the ring, oldest first.
Contents == [i \in 1 .. queue_size |-> queue[SlotAt(i - 1)]]

Fifo == INSTANCE RequestFifo WITH fifo <- Contents

\* However the ring wraps around, it serves its requests first come, first
\* served, and never more than Capacity of them.
QueueIsFifo == Fifo!Spec
=============================================================================
