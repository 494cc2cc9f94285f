---------------------------- MODULE SqlRequest -----------------------------
(***************************************************************************)
(* A query of a plugin to the database: data_sql_execute of                *)
(* src/src/data_sql.c, run by any connection thread, over the queue and    *)
(* the worker thread of src/src/plugin_db/plugin_mysql.c.                  *)
(*                                                                         *)
(* All callers share ONE request slot: its mutex, its condition and its    *)
(* flag `ready`.  A caller clears the flag before it takes the mutex,      *)
(* pushes its query to the ring and waits at most a second on the          *)
(* condition; the worker runs the query, writes the rows into the caller's *)
(* DbQuery (which lives on the caller's stack) and, if all went well, sets *)
(* the flag and signals the condition.  A failed query is answered to      *)
(* nobody.                                                                 *)
(*                                                                         *)
(* A caller here is one call of data_sql_execute.  The plugin stays loaded *)
(* (its load and unload are in PluginHost): only the first start creates   *)
(* the worker.  Every query of the model has rows.                         *)
(***************************************************************************)
EXTENDS MysqlQueue

Callers == Requests

ASSUME CallerAssumption == "free" \notin Requests

VARIABLES
  pc,         \* place of each caller
  ready,      \* request.ready
  lock,       \* request.lock: a caller or "free" (the callback is one step)
  woken,      \* waiting callers that request.cond was signalled to
  rows,       \* result_count of each caller's DbQuery: 0 or 1
  result,     \* what data_sql_execute returned: -2, -1, 0 (no rows) or 1
  worker,     \* place of the worker thread
  hand,       \* the request the worker has popped
  control,    \* g_queue_control is set and keep_running
  \* history: the requests the ring took and those whose rows were written,
  \* the callers that left the wait because of `ready`, and those that have
  \* had the slot, the ring and the worker for themselves
  accepted, answered, byReady, alone

callVars == <<pc, ready, lock, woken, rows, result>>
workVars == <<worker, hand, control>>
histVars == <<accepted, answered, byReady, alone>>
vars == <<queueVars, callVars, workVars, histVars>>

CallerPCs == {"call", "prepare", "lock", "push", "check", "wait", "stop", "done"}
WorkerPCs == {"none", "boot", "loop", "process", "callback", "gone"}

TypeOK ==
  /\ QueueTypeOK
  /\ pc \in [Callers -> CallerPCs]
  /\ ready \in BOOLEAN
  /\ lock \in Callers \cup {"free"}
  /\ woken \subseteq {c \in Callers : pc[c] = "wait"}
  /\ rows \in [Callers -> {0, 1}]
  /\ result \in [Callers -> {-2, -1, 0, 1}]
  /\ worker \in WorkerPCs
  /\ hand \in Requests \cup {NoRequest}
  /\ hand # NoRequest <=> worker \in {"process", "callback"}
  /\ control \in BOOLEAN
  /\ accepted \subseteq Requests /\ answered \subseteq accepted
  /\ byReady \subseteq Callers /\ alone \subseteq Callers

Init ==
  /\ QueueInit
  /\ pc = [c \in Callers |-> "call"]
  /\ ready = FALSE /\ lock = "free" /\ woken = {}
  /\ rows = [c \in Callers |-> 0]
  /\ result = [c \in Callers |-> 0]
  /\ worker = "none" /\ hand = NoRequest /\ control = FALSE
  /\ accepted = {} /\ answered = {} /\ byReady = {} /\ alone = {}

-----------------------------------------------------------------------------
(* data_sql_execute *)

Goto(c, at) == pc' = [pc EXCEPT ![c] = at]
Returns(c, value) == Goto(c, "done") /\ result' = [result EXCEPT ![c] = value]

\* plugin_start refused: nothing was taken, nothing is given back.
StartRefused(c) ==
  /\ pc[c] = "call"
  /\ Returns(c, -1)
  /\ UNCHANGED <<queueVars, ready, lock, woken, rows, workVars, histVars>>

\* plugin_start; the first one loads the plugin, whose plugin_init creates
\* the worker thread and does not wait for it.
Start(c) ==
  /\ pc[c] = "call"
  /\ Goto(c, "prepare")
  /\ worker' = IF worker = "none" THEN "boot" ELSE worker
  /\ UNCHANGED <<queueVars, ready, lock, woken, rows, result, hand, control,
                 histVars>>

\* Nobody else is inside data_sql_execute, and no request is left over.
Undisturbed(c) ==
  /\ \A d \in Callers \ {c} : pc[d] \in {"call", "prepare", "done"}
  /\ QueueIsEmpty
  /\ hand = NoRequest

\* data_sql_prepare_instance, without the lock: the flag and the row count.
PrepareKeepsReady(c) ==
  /\ pc[c] = "prepare"
  /\ Goto(c, "lock")
  /\ rows' = [rows EXCEPT ![c] = 0]
  /\ alone' = IF Undisturbed(c) THEN {c} ELSE {}
  /\ UNCHANGED <<queueVars, ready, lock, woken, result, workVars, accepted,
                 answered, byReady>>

Prepare(c) ==
  /\ pc[c] = "prepare"
  /\ Goto(c, "lock")
  /\ ready' = FALSE
  /\ rows' = [rows EXCEPT ![c] = 0]
  /\ alone' = IF Undisturbed(c) THEN {c} ELSE {}
  /\ UNCHANGED <<queueVars, lock, woken, result, workVars, accepted,
                 answered, byReady>>

Lock(c) ==
  /\ pc[c] = "lock" /\ lock = "free"
  /\ lock' = c
  /\ Goto(c, "push")
  /\ UNCHANGED <<queueVars, ready, woken, rows, result, workVars, histVars>>

\* The lock is not had in a second: return -2, without plugin_stop.
LockTimeout(c) ==
  /\ pc[c] = "lock" /\ lock # "free"
  /\ Returns(c, -2)
  /\ UNCHANGED <<queueVars, ready, lock, woken, rows, workVars, histVars>>

\* db.request: the query goes into the ring, ...
PushAccepted(c) ==
  /\ pc[c] = "push" /\ control
  /\ QueuePush(c)
  /\ accepted' = accepted \cup {c}
  /\ Goto(c, "check")
  /\ UNCHANGED <<ready, lock, woken, rows, result, workVars, answered,
                 byReady, alone>>

\* ... or is dropped without a word: the worker has not come up yet, the
\* queue's mutex is not had in 20 ms (while the host stops the worker or a
\* holder does not run), or the ring is full.
PushDropped(c) ==
  /\ pc[c] = "push"
  /\ Goto(c, "check")
  /\ UNCHANGED <<queueVars, ready, lock, woken, rows, result, workVars,
                 histVars>>

\* The head of the wait loop, with the lock: leave it when ready ...
CheckReady(c) ==
  /\ pc[c] = "check" /\ ready
  /\ Goto(c, "stop")
  /\ lock' = "free"
  /\ byReady' = byReady \cup {c}
  /\ UNCHANGED <<queueVars, ready, woken, rows, result, workVars, accepted,
                 answered, alone>>

\* ... and otherwise wait, which gives the lock away.
CheckWait(c) ==
  /\ pc[c] = "check" /\ ~ready
  /\ Goto(c, "wait")
  /\ lock' = "free"
  /\ UNCHANGED <<queueVars, ready, woken, rows, result, workVars, histVars>>

\* sync_cond_wait returns 0 with the lock; the flag is tested again.
Wake(c) ==
  /\ pc[c] = "wait" /\ c \in woken /\ lock = "free"
  /\ lock' = c
  /\ woken' = woken \ {c}
  /\ Goto(c, "check")
  /\ UNCHANGED <<queueVars, ready, rows, result, workVars, histVars>>

\* A time-out that goes round the loop again.
WaitTimeoutRetries(c) ==
  /\ pc[c] = "wait" /\ c \notin woken /\ lock = "free"
  /\ lock' = c
  /\ Goto(c, "check")
  /\ UNCHANGED <<queueVars, ready, woken, rows, result, workVars, histVars>>

\* sync_cond_wait times out (with the lock): the loop is left, and unlocked.
WaitTimeout(c) ==
  /\ pc[c] = "wait" /\ c \notin woken /\ lock = "free"
  /\ Goto(c, "stop")
  /\ UNCHANGED <<queueVars, ready, lock, woken, rows, result, workVars,
                 histVars>>

\* plugin_stop, and the number of rows is the result.
Stop(c) ==
  /\ pc[c] = "stop"
  /\ Returns(c, rows[c])
  /\ UNCHANGED <<queueVars, ready, lock, woken, rows, workVars, histVars>>

CallerStep(c) ==
  \/ StartRefused(c) \/ Start(c) \/ Prepare(c) \/ Lock(c) \/ LockTimeout(c)
  \/ PushAccepted(c) \/ PushDropped(c) \/ CheckReady(c) \/ CheckWait(c)
  \/ Wake(c) \/ WaitTimeout(c) \/ Stop(c)

-----------------------------------------------------------------------------
(* mysql_thread_main.  The wait for an empty queue polls: it ends after    *)
(* 100 ms, so that "loop" with an empty ring stands for it.                *)

\* The worker announces its control block; the queue takes requests from
\* here on, whether the connection can be opened or not.
WorkerBoot ==
  /\ worker = "boot"
  /\ control' = TRUE
  /\ worker' \in {"loop", "gone"}
  /\ UNCHANGED <<queueVars, callVars, hand, histVars>>

\* A pop that leaves the request in the ring.
WorkerPeek ==
  /\ worker = "loop" /\ ~QueueIsEmpty
  /\ hand' = queue[queue_head]
  /\ worker' = "process"
  /\ UNCHANGED <<queueVars, callVars, control, histVars>>

WorkerTake ==
  /\ worker = "loop"
  /\ QueuePop
  /\ hand' = queue[queue_head]
  /\ worker' = "process"
  /\ UNCHANGED <<callVars, control, histVars>>

\* process_request fails (connection, query, result): no callback.
ProcessFails ==
  /\ worker = "process"
  /\ worker' = "loop" /\ hand' = NoRequest
  /\ UNCHANGED <<queueVars, callVars, control, histVars>>

\* The rows and their number are written to the DbQuery, which is gone if
\* the caller has given up meanwhile.
ProcessStores ==
  /\ worker = "process"
  /\ rows' = [rows EXCEPT ![hand] = 1]
  /\ answered' = answered \cup {hand}
  /\ worker' = "callback"
  /\ UNCHANGED <<queueVars, pc, ready, lock, woken, result, hand, control,
                 accepted, byReady, alone>>

\* A signal wakes one of those that wait, if there are any.
Signal ==
  LET waiting == {c \in Callers : pc[c] = "wait"} \ woken
  IN  IF waiting = {} THEN UNCHANGED woken
      ELSE \E c \in waiting : woken' = woken \cup {c}

\* data_sql_queue_callback.
Callback ==
  /\ worker = "callback" /\ lock = "free"
  /\ ready' = TRUE
  /\ Signal
  /\ worker' = "loop" /\ hand' = NoRequest
  /\ UNCHANGED <<queueVars, pc, lock, rows, result, control, histVars>>

\* The callback does not get the lock in a second: nobody is told.
CallbackTimeout ==
  /\ worker = "callback" /\ lock # "free"
  /\ worker' = "loop" /\ hand' = NoRequest
  /\ UNCHANGED <<queueVars, callVars, control, histVars>>

WorkerStep ==
  \/ WorkerBoot \/ WorkerTake \/ ProcessFails \/ ProcessStores
  \/ Callback \/ CallbackTimeout

Done == /\ \A c \in Callers : pc[c] = "done"
        /\ worker \in {"none", "loop", "gone"}
        /\ worker = "loop" => QueueIsEmpty
        /\ UNCHANGED vars

Next == WorkerStep \/ (\E c \in Callers : CallerStep(c)) \/ Done

Spec == Init /\ [][Next]_vars

\* Threads run; queries and waits end.  Failing, or not having the lock, is
\* never required.
Fairness ==
  /\ \A c \in Callers : WF_vars(CallerStep(c))
  /\ WF_vars(WorkerStep)

FairSpec == Spec /\ Fairness

-----------------------------------------------------------------------------
(* Properties *)

InRing == {Contents[i] : i \in 1 .. queue_size}

\* The request lock is held exactly by a caller between taking it and the
\* wait or the end of the loop: no path of data_sql_execute keeps it.
RequestLockHeld ==
  \A c \in Callers : lock = c <=> pc[c] \in {"push", "check"}

\* A request the ring has accepted is in one place: once in the ring, in the
\* hand of the worker, or finished; none is queued twice, handed out twice
\* or answered while it still waits in the ring.
OnePlace ==
  /\ InRing \cup ({hand} \ {NoRequest}) \subseteq accepted
  /\ \A i, j \in 1 .. queue_size : Contents[i] = Contents[j] => i = j
  /\ hand \notin InRing
  /\ InRing \cap answered = {}
  /\ hand \in answered <=> worker = "callback"

\* A call that has the slot, the ring and the worker for itself and is told
\* that the result is ready has its own result.  (With others around, or
\* requests left over from calls that timed out, it is not so: see
\* ReadyMeansAnswered.)
AloneIsAnswered ==
  \A c \in alone \cap byReady :
    /\ c \in answered
    /\ pc[c] = "done" => result[c] = 1

\* A caller that is told that its result is ready has one.  "The system shall
\* return the query result row number >0 or 0 if the query was empty"
\* (src/test/unit/test_data_sql.c:100); no query of the model is empty.
ReadyMeansAnswered ==
  \A c \in byReady : pc[c] = "done" => result[c] = 1

\* Every call returns, also when the request is dropped, the query fails or
\* the worker is gone.
CallsReturn ==
  \A c \in Callers : (pc[c] = "prepare") ~> (pc[c] = "done")

\* An accepted request leaves the ring, unless the worker could not open its
\* connection and is gone.
AcceptedServed ==
  \A c \in Callers : (c \in InRing) ~> (c \notin InRing \/ worker = "gone")
=============================================================================
