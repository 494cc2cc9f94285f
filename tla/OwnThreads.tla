---------------------------- MODULE OwnThreads -----------------------------
(***************************************************************************)
(* The thread of a plugin, from its creation to the unload of the plugin:  *)
(* plugin_create_ownthread, plugin_ownthread_enter, plugin_ownthread_exit  *)
(* and plugin_wait_for_ownthreads of src/src/pluginhst.c, with the worker  *)
(* of src/src/plugin_db/plugin_mysql.c, the plugin that creates one.       *)
(*                                                                         *)
(* The host's part runs in the thread that loads the plugin, then in the   *)
(* housekeeper; the two never overlap.  Both sides of control.mutex are    *)
(* here: sync_mutex_lock returns 0 when it HAS the lock, but               *)
(* plugin_wait_for_ownthreads reads its result the other way round.        *)
(***************************************************************************)
EXTENDS Integers

CONSTANT MaxRetry     \* PLUGIN_SHUTDOWN_MAX_RETRY, 5 in the code

\* Fewer tries would not be enough: see NeverCancelled.
ASSUME RetryAssumption == MaxRetry \in Nat /\ MaxRetry >= 4

VARIABLES
  host,     \* place of the host
  worker,   \* place of the worker thread
  inTable,  \* own_threads_count = 1: registered, with its mutex and condition
  running,  \* own_threads[0].running
  keep,     \* own_threads[0].control.keep_running
  mutex,    \* control.mutex: "free", "host" or "worker"
  stale,    \* own_threads[0] still points to the mutex of an earlier load
  retry, errors,
  mapped    \* the plugin's library is in memory

hostVars == <<host, retry, errors, mapped>>
vars == <<hostVars, worker, inTable, running, keep, mutex, stale>>

HostPCs == {"unloaded", "register", "loaded", "request", "lock", "again",
            "cancel", "join", "finish"}
WorkerPCs == {"none", "enter", "boot", "open", "loop", "try", "locked", "wait",
              "awake", "leave", "tail", "dead"}

TypeOK ==
  /\ host \in HostPCs /\ worker \in WorkerPCs
  /\ inTable \in BOOLEAN /\ running \in BOOLEAN /\ keep \in BOOLEAN
  /\ mapped \in BOOLEAN /\ stale \in BOOLEAN
  /\ mutex \in {"free", "host", "worker"}
  /\ retry \in 0 .. MaxRetry /\ errors \in {0, 1}
  /\ inTable <=> host \notin {"unloaded", "register", "finish"}

Init ==
  /\ host = "unloaded" /\ worker = "none"
  /\ inTable = FALSE /\ running = FALSE /\ keep = FALSE
  /\ mutex = "free" /\ retry = MaxRetry /\ errors = 0
  /\ mapped = FALSE /\ stale = FALSE

-----------------------------------------------------------------------------
(* The host *)

\* dlopen and plugin_init: pthread_create comes first, so that the worker
\* may run before it is in the table.
Create ==
  /\ host = "unloaded" /\ worker \in {"none", "dead"}
  /\ host' = "register" /\ mapped' = TRUE
  /\ worker' = "enter"
  /\ UNCHANGED <<retry, errors, inTable, running, keep, mutex, stale>>

Register ==
  /\ host = "register"
  /\ host' = "loaded"
  /\ inTable' = TRUE /\ running' = TRUE /\ keep' = TRUE
  /\ mutex' = "free"
  /\ UNCHANGED <<retry, errors, mapped, worker, stale>>

\* The housekeeper comes to plugin_unload: idle for long, or SIGUSR2 at any
\* time after the load.
Unload ==
  /\ host = "loaded"
  /\ host' = "request"
  /\ retry' = MaxRetry /\ errors' = 0
  /\ UNCHANGED <<mapped, worker, inTable, running, keep, mutex, stale>>

AskToStop ==
  /\ host = "request"
  /\ keep' = FALSE
  /\ host' = "lock" /\ errors' = 0
  /\ UNCHANGED <<retry, mapped, worker, inTable, running, mutex, stale>>

\* The lock is had, the code takes this for the failure: nothing is
\* signalled, nothing is unlocked, one more try.
LockHad ==
  /\ host = "lock" /\ mutex = "free"
  /\ mutex' = "host"
  /\ errors' = 1
  /\ host' = "again"
  /\ UNCHANGED <<retry, mapped, worker, inTable, running, keep, stale>>

LockRefusedError ==
  /\ host = "lock" /\ mutex # "free"
  /\ mutex' = "free"
  /\ errors' = 1
  /\ host' = "again"
  /\ UNCHANGED <<retry, mapped, worker, inTable, running, keep, stale>>

\* 100 ms pass without the lock, which the host itself may hold from the try
\* before: the code broadcasts and unlocks, whoever the holder is.
LockRefused ==
  /\ host = "lock" /\ mutex # "free"
  /\ mutex' = "free"
  /\ host' = "again"
  /\ UNCHANGED <<retry, errors, mapped, worker, inTable, running, keep, stale>>

\* The end of a try; when the tries are used up the thread is cancelled.
Again ==
  /\ host = "again"
  /\ retry' = retry - 1
  /\ host' = IF retry' <= 0 THEN "cancel"
             ELSE IF errors > 0 THEN "request" ELSE "join"
  /\ UNCHANGED <<errors, mapped, worker, inTable, running, keep, mutex, stale>>

JoinNoWait ==
  /\ host = "join"
  /\ running' = FALSE
  /\ inTable' = FALSE /\ stale' = TRUE
  /\ host' = "finish"
  /\ UNCHANGED <<retry, errors, mapped, worker, keep, mutex>>

\* pthread_join if the worker has not signed off; then the mutex and the
\* condition are destroyed and the table is empty.
Join ==
  /\ host = "join"
  /\ running => worker = "dead"
  /\ running' = FALSE
  /\ inTable' = FALSE /\ stale' = TRUE
  /\ host' = "finish"
  /\ UNCHANGED <<retry, errors, mapped, worker, keep, mutex>>

\* plugin_finish and dlclose.
Close ==
  /\ host = "finish"
  /\ host' = "unloaded" /\ mapped' = FALSE
  /\ UNCHANGED <<retry, errors, worker, inTable, running, keep, mutex, stale>>

HostStep == Register \/ AskToStop \/ LockHad \/ LockRefused \/ Again \/ Join \/ Close

-----------------------------------------------------------------------------
(* The worker: mysql_thread_main *)

Goto(at) == worker' = at /\ UNCHANGED <<hostVars, stale>>

Enter ==
  /\ worker = "enter"
  /\ running' = (running \/ inTable)
  /\ Goto("boot")
  /\ UNCHANGED <<inTable, keep, mutex>>

\* The worker sets keep_running, whether it was told to stop or not.
Boot ==
  /\ worker = "boot"
  /\ keep' = TRUE
  /\ Goto("open")
  /\ UNCHANGED <<inTable, running, mutex>>

Open ==
  /\ worker = "open"
  /\ \/ Goto("loop")
     \/ Goto("leave")
  /\ UNCHANGED <<inTable, running, keep, mutex>>

LoopForEver ==
  /\ worker = "loop"
  /\ Goto("try")
  /\ UNCHANGED <<inTable, running, keep, mutex>>

Loop ==
  /\ worker = "loop"
  /\ Goto(IF keep THEN "try" ELSE "leave")
  /\ UNCHANGED <<inTable, running, keep, mutex>>

\* Before it is registered the worker may find the mutex that the unload
\* before has destroyed: to lock freed memory may succeed or fail.
TryHad ==
  /\ worker = "try" /\ (inTable \/ stale) /\ mutex = "free"
  /\ mutex' = "worker"
  /\ Goto("locked")
  /\ UNCHANGED <<inTable, running, keep>>

\* 20 ms without the lock, or no mutex yet: sleep(1) and retry.
TryRefused ==
  /\ worker = "try" /\ (~inTable \/ mutex # "free")
  /\ Goto("loop")
  /\ UNCHANGED <<inTable, running, keep, mutex>>

\* The queue is empty and the worker waits, giving the mutex away; or it
\* pops a request, unlocks and processes it.
Locked ==
  /\ worker = "locked"
  /\ mutex' = "free"
  /\ \/ Goto("wait")
     \/ Goto("loop")
  /\ UNCHANGED <<inTable, running, keep>>

\* A signal, or 100 ms; the mutex is taken back before the wait returns.
Wake ==
  /\ worker = "wait" /\ mutex = "free"
  /\ mutex' = "worker"
  /\ Goto("awake")
  /\ UNCHANGED <<inTable, running, keep>>

Awake ==
  /\ worker = "awake"
  /\ mutex' = "free"
  /\ \/ keep /\ Goto("wait")
     \/ Goto("loop")
  /\ UNCHANGED <<inTable, running, keep>>

\* plugin_ownthread_exit: from here on the host does not join the thread,
\* which still has to return from the plugin's code.
Leave ==
  /\ worker = "leave"
  /\ running' = (running /\ ~inTable)
  /\ Goto("tail")
  /\ UNCHANGED <<inTable, keep, mutex>>

Return ==
  /\ worker = "tail"
  /\ Goto("dead")
  /\ UNCHANGED <<inTable, running, keep, mutex>>

WorkerStep ==
  \/ Enter \/ Boot \/ Open \/ Loop \/ TryHad \/ TryRefused \/ Locked \/ Wake
  \/ Awake \/ Leave \/ Return

Next == Create \/ Unload \/ HostStep \/ WorkerStep

Spec == Init /\ [][Next]_vars

\* Both threads run.  Loading and unloading are never required.
FairSpec == Spec /\ WF_vars(HostStep) /\ WF_vars(WorkerStep)

-----------------------------------------------------------------------------
(* Properties *)

\* When the mutex and the condition are destroyed the worker is past its
\* last use of them, whether it was joined or had signed off.
SyncOutlivesWorker ==
  host \in {"finish", "unloaded"} => worker \in {"none", "tail", "dead"}

\* The inverted test of the lock's result does no harm here: the try that
\* keeps the mutex is followed by one that gives it back, so that the host
\* never joins a worker that waits for the host's mutex, ...
JoinsUnlocked == host \in {"join", "finish"} => mutex # "host"

\* ... and the thread is never cancelled ("exceeded max retry, attempting
\* pthread_cancel").
NeverCancelled == host # "cancel"

\* An unload that begins when the worker has come up goes through.  (The
\* worker that has not sets keep_running after the host has cleared it, and
\* is joined for ever.)
UnloadEnds ==
  host = "request" /\ worker \notin {"enter", "boot"} ~> host = "unloaded"
=============================================================================
