--------------------------- MODULE LifeCycleProofs ---------------------------
(***************************************************************************)
(* Proofs about the two life cycles of the daemon: OwnThreads (the thread  *)
(* of a plugin) and PidFile (the processes and their pid file).  The two   *)
(* have no state in common; each part names its own.                       *)
(***************************************************************************)
EXTENDS OwnThreads, PidFile, TLAPS

(***************************************************************************)
(* OwnThreads, for every number of tries (at least four).                  *)
(*                                                                         *)
(* OInv says how many tries can have been used up: the one that takes the  *)
(* mutex counts as an error, a second one may take it again only if a      *)
(* worker that believed to hold a mutex of an earlier load has unlocked    *)
(* the host's meanwhile, the next one is refused and ends the loop.        *)
(***************************************************************************)
\* The worker believes to hold the mutex, and does not.
Phantom == worker \in {"locked", "awake"} /\ mutex # "worker"

Tries ==
  /\ host \in {"request", "lock"} =>
       \/ retry = MaxRetry /\ mutex # "host"
       \/ retry = MaxRetry - 1 /\ (mutex = "host" \/ ~Phantom)
       \/ retry = MaxRetry - 2 /\ mutex = "host" /\ ~Phantom
  /\ host = "lock" => errors = 0
  /\ host = "again" =>
       \/ errors = 0 /\ retry >= MaxRetry - 2 /\ mutex # "host"
       \/ errors = 1 /\ retry = MaxRetry /\ (mutex = "host" \/ ~Phantom)
       \/ errors = 1 /\ retry = MaxRetry - 1 /\ mutex = "host" /\ ~Phantom
  /\ host \in {"unloaded", "register", "loaded", "join", "finish"} => mutex # "host"
  /\ host # "cancel"

WorkerHolds == mutex = "worker" => worker \in {"locked", "awake"}

SignedOff ==
  /\ host \in {"loaded", "request", "lock", "again", "join"} /\ ~running
       => worker \in {"tail", "dead"}
  /\ host \in {"finish", "unloaded"} => worker \in {"none", "tail", "dead"}

OInv == TypeOK /\ Tries /\ WorkerHolds /\ SignedOff

LEMMA OInit == Init => OInv
<1> SUFFICES ASSUME Init PROVE OInv
  OBVIOUS
<1> USE RetryAssumption DEF RetryAssumption, Init
<1>1. TypeOK
  <2>1. host \in HostPCs /\ worker \in WorkerPCs /\ mutex \in {"free", "host", "worker"}
    BY DEF HostPCs, WorkerPCs
  <2>2. inTable \in BOOLEAN /\ running \in BOOLEAN /\ keep \in BOOLEAN
        /\ mapped \in BOOLEAN /\ stale \in BOOLEAN
    BY Zenon
  <2>3. retry \in 0 .. MaxRetry /\ errors \in {0, 1}
    OBVIOUS
  <2>4. inTable <=> host \notin {"unloaded", "register", "finish"}
    OBVIOUS
  <2> QED
    BY <2>1, <2>2, <2>3, <2>4 DEF TypeOK
<1>2. Tries
  BY DEF Tries
<1>3. WorkerHolds
  BY DEF WorkerHolds
<1>4. SignedOff
  BY DEF SignedOff
<1> QED
  BY <1>1, <1>2, <1>3, <1>4 DEF OInv

\* A step of the host.
LEMMA OHost == OInv /\ (Create \/ Unload \/ HostStep) => OInv'
<1> SUFFICES ASSUME OInv, Create \/ Unload \/ HostStep PROVE OInv'
  OBVIOUS
<1> USE RetryAssumption DEF RetryAssumption, OInv
<1>1. CASE Create
  BY <1>1 DEF Create, TypeOK, Tries, WorkerHolds, SignedOff, HostPCs, WorkerPCs
<1>2. CASE Unload
  BY <1>2 DEF Unload, TypeOK, Tries, WorkerHolds, SignedOff, HostPCs
<1>3. CASE Register
  BY <1>3 DEF Register, TypeOK, Tries, WorkerHolds, SignedOff, HostPCs
<1>4. CASE AskToStop
  BY <1>4 DEF AskToStop, TypeOK, Tries, WorkerHolds, SignedOff, HostPCs, Phantom
<1>5. CASE LockHad
  BY <1>5 DEF LockHad, TypeOK, Tries, WorkerHolds, SignedOff, HostPCs, Phantom
<1>6. CASE LockRefused
  BY <1>6 DEF LockRefused, TypeOK, Tries, WorkerHolds, SignedOff, HostPCs
<1>7. CASE Again
  BY <1>7 DEF Again, TypeOK, Tries, WorkerHolds, SignedOff, HostPCs, Phantom
<1>8. CASE Join
  BY <1>8 DEF Join, TypeOK, Tries, WorkerHolds, SignedOff, HostPCs
<1>9. CASE Close
  BY <1>9 DEF Close, TypeOK, Tries, WorkerHolds, SignedOff, HostPCs
<1> QED
  BY <1>1, <1>2, <1>3, <1>4, <1>5, <1>6, <1>7, <1>8, <1>9 DEF HostStep

\* A step of the worker.
LEMMA OWorker == OInv /\ WorkerStep => OInv'
<1> SUFFICES ASSUME OInv, WorkerStep PROVE OInv'
  OBVIOUS
<1> USE DEF OInv, TypeOK, Tries, WorkerHolds, SignedOff, WorkerPCs, Phantom,
            Goto, hostVars
<1>1. CASE Enter
  BY <1>1 DEF Enter
<1>2. CASE Boot
  BY <1>2 DEF Boot
<1>3. CASE Open
  BY <1>3 DEF Open
<1>4. CASE Loop
  BY <1>4 DEF Loop
<1>5. CASE TryHad
  BY <1>5 DEF TryHad
<1>6. CASE TryRefused
  BY <1>6 DEF TryRefused
<1>7. CASE Locked
  BY <1>7 DEF Locked
<1>8. CASE Wake
  BY <1>8 DEF Wake
<1>9. CASE Awake
  BY <1>9 DEF Awake
<1>10. CASE Leave
  BY <1>10 DEF Leave
<1>11. CASE Return
  BY <1>11 DEF Return
<1> QED
  BY <1>1, <1>2, <1>3, <1>4, <1>5, <1>6, <1>7, <1>8, <1>9, <1>10, <1>11
     DEF WorkerStep

LEMMA OInvariance == Spec => []OInv
<1>1. OInv /\ UNCHANGED vars => OInv'
  BY DEF OInv, TypeOK, Tries, WorkerHolds, SignedOff, Phantom, vars, hostVars
<1>2. OInv /\ [Next]_vars => OInv'
  BY <1>1, OHost, OWorker DEF Next
<1> QED  BY OInit, <1>2, PTL DEF Spec

\* Type correctness; the retries never run below zero.
THEOREM ThreadsTypeCorrect == Spec => []TypeOK
BY OInvariance, PTL DEF OInv

\* The mutex and the condition of a thread outlive their last use, whether
\* the thread is joined or has signed off.
THEOREM SyncOutlives == Spec => []SyncOutlivesWorker
<1>1. OInv => SyncOutlivesWorker
  BY DEF OInv, SignedOff, SyncOutlivesWorker
<1> QED  BY <1>1, OInvariance, PTL

\* In spite of the inverted test of the lock's result, the host never joins
\* with the mutex in its hand ...
THEOREM HostJoinsUnlocked == Spec => []JoinsUnlocked
<1>1. OInv => JoinsUnlocked
  BY DEF OInv, Tries, JoinsUnlocked
<1> QED  BY <1>1, OInvariance, PTL

\* ... and never runs out of tries, if it has at least four.
THEOREM ThreadNeverCancelled == Spec => []NeverCancelled
<1>1. OInv => NeverCancelled
  BY DEF OInv, Tries, NeverCancelled
<1> QED  BY <1>1, OInvariance, PTL

(***************************************************************************)
(* PidFile, for any set of process numbers and any number of faults.       *)
(*                                                                         *)
(* PInv adds to the properties who is waited for (so that a kill hits a    *)
(* process), who writes under the name, and that without a second start    *)
(* there is one daemon, whose file nobody else has opened.                 *)
(***************************************************************************)
Waiting ==
  /\ \A p \in Pids : proc[p] = "terming" => oldPid[p] \in Pids
  /\ \A s \in Scripts : pc[s] = "wait" => target[s] \in Pids

WritersNamed == \A p \in named : proc[p] = "writing"

Alone == ~second => \A p, q \in Pids : Daemon(p) /\ Daemon(q) => p = q

Gone == file = "none" /\ taken

OwnFile ==
  ~second => \A p \in Pids :
    /\ proc[p] = "writing" => p \in named \/ Gone
    /\ proc[p] \in Written => file = p \/ Gone

Places == {"idle", "remove", "stop", "wait", "start", "launch"}

PInv ==
  ProcTypeOK /\ Waiting /\ WritersNamed /\ Alone /\ OwnFile /\ NoStaleAfterExit

LEMMA PInit == ProcInit => PInv
<1> SUFFICES ASSUME ProcInit PROVE PInv
  OBVIOUS
<1> USE PidAssumption DEF PidAssumption, ProcInit
<1>1. ProcTypeOK
  <2>1. second \in BOOLEAN /\ taken \in BOOLEAN
    BY Zenon
  <2>2. proc \in [Pids -> States] /\ pc \in [Scripts ->
          {"idle", "remove", "stop", "wait", "start", "launch"}]
    BY DEF States
  <2>3. oldPid \in [Pids -> Pids \cup {"none"}] /\ target \in [Scripts -> Pids \cup {"none"}]
    OBVIOUS
  <2> QED
    BY <2>1, <2>2, <2>3 DEF ProcTypeOK
<1> QED
  BY <1>1 DEF PInv, Waiting, WritersNamed, Alone, OwnFile, NoStaleAfterExit, Gone, Daemon,
     Starting, Written, Scripts

\* A process that ends by itself takes the file along.
LEMMA ExitKeeps ==
  ASSUME PInv, NEW p \in Pids, ExitProcess(p), faults' \in 0 .. MaxFaults,
         taken' = TRUE \/ (Daemon(p) /\ taken' = taken)
  PROVE  PInv'
<1>1. /\ proc' = [proc EXCEPT ![p] = "none"] /\ file' = "none" /\ named' = {}
      /\ killed' = killed \ {p} /\ oldPid' = [oldPid EXCEPT ![p] = "none"]
      /\ UNCHANGED <<force, term, pc, target, second>>
  BY DEF ExitProcess, Become, Remove, scriptVars
<1>2. ProcTypeOK' /\ Waiting'
  BY <1>1 DEF PInv, ProcTypeOK, States, Waiting
<1>3. WritersNamed' /\ NoStaleAfterExit'
  BY <1>1, PidAssumption DEF PidAssumption, WritersNamed, NoStaleAfterExit
<1>4. Alone'
  BY <1>1 DEF PInv, ProcTypeOK, Alone, Daemon, Starting, Written
<1>5. OwnFile'
  BY <1>1 DEF PInv, ProcTypeOK, Alone, OwnFile, Gone, Daemon, Starting, Written
<1> QED
  BY <1>2, <1>3, <1>4, <1>5 DEF PInv

\* A process that is killed leaves the file as it is.
LEMMA KillKeeps ==
  ASSUME PInv, NEW q \in Pids, proc' = [proc EXCEPT ![q] = "none"],
         killed' = killed \cup {q}, named' = named \ {q},
         oldPid' = [oldPid EXCEPT ![q] = "none"],
         UNCHANGED <<force, term, file, second, taken>>, faults' \in 0 .. MaxFaults,
         pc' \in [Scripts -> Places],
         target' \in [Scripts -> Pids \cup {"none"}],
         \A s \in Scripts : pc'[s] = "wait" => target'[s] \in Pids
  PROVE  PInv'
BY PidAssumption DEF PidAssumption, PInv, ProcTypeOK, Places, States, Waiting, WritersNamed,
   Alone, OwnFile, Gone, NoStaleAfterExit, Daemon, Starting, Written

LEMMA LaunchKeeps ==
  ASSUME PInv, NEW p \in Pids, NEW k \in BOOLEAN, Launch(p, k), faults' \in 0 .. MaxFaults,
         pc' \in [Scripts -> Places],
         target' = target,
         \A s \in Scripts : pc'[s] = "wait" => pc[s] = "wait"
  PROVE  PInv'
<1> USE PidAssumption DEF PidAssumption, Launch, Become, fileVars, PInv, ProcTypeOK, Places
<1>1. proc' \in [Pids -> States] /\ force' \subseteq Pids /\ term' \subseteq Pids
      /\ second' \in BOOLEAN
  BY DEF States, Starting
<1>2. Waiting' /\ WritersNamed' /\ NoStaleAfterExit'
  BY DEF Waiting, WritersNamed, NoStaleAfterExit, Written
<1>3. Alone'
  BY DEF Alone, Daemon
<1>4. OwnFile'
  BY DEF OwnFile, Gone, Written, Daemon
<1> QED
  BY <1>1, <1>2, <1>3, <1>4

\* A step of a daemon.
LEMMA DaemonKeeps == ASSUME PInv, NEW p \in Pids, Step(p) PROVE PInv'
<1>0. faults \in 0 .. MaxFaults
  BY DEF PInv, ProcTypeOK
<1>1. CASE Refused(p) \/ GiveUp(p) \/ BindFails(p) \/ Shutdown(p)
  <2>1. ExitProcess(p) /\ UNCHANGED <<faults, taken>> /\ Daemon(p)
    BY <1>1 DEF Refused, GiveUp, BindFails, Shutdown, Exit, Daemon, Starting, Written
  <2> QED
    BY <1>0, <2>1, ExitKeeps
<1>2. CASE KillOld(p)
  <2>1. oldPid[p] \in Pids
    BY <1>2 DEF KillOld, PInv, Waiting
  <2>2. UNCHANGED <<force, term, file, pc, target, faults, second, taken>>
    BY <1>2 DEF KillOld, scriptVars
  <2>3. proc' \in [Pids -> States] /\ killed' \subseteq Pids /\ named' \subseteq Pids
        /\ oldPid' \in [Pids -> Pids \cup {"none"}]
    BY <1>2, <2>1 DEF KillOld, PInv, ProcTypeOK, States, Starting
  <2>4. ProcTypeOK'
    BY <2>2, <2>3 DEF PInv, ProcTypeOK
  <2>5. Waiting' /\ WritersNamed'
    BY <1>2, <2>1, <2>2 DEF KillOld, PInv, ProcTypeOK, Waiting, WritersNamed
  <2>6. Alone' /\ OwnFile'
    BY <1>2, <2>1, <2>2 DEF KillOld, PInv, ProcTypeOK, Alone, OwnFile, Gone, Daemon, Starting,
       Written
  <2>7. NoStaleAfterExit'
    BY <1>2, <2>1, <2>2 DEF KillOld, PInv, ProcTypeOK, NoStaleAfterExit, Written
  <2> QED
    BY <2>4, <2>5, <2>6, <2>7 DEF PInv
<1> USE PidAssumption DEF PidAssumption, Become, fileVars, scriptVars, historyVars,
        PInv, ProcTypeOK, States, Starting, Written
<1>3. CASE Unoccupied(p)
  BY <1>3 DEF Unoccupied, Waiting, WritersNamed, Alone, OwnFile, Gone, NoStaleAfterExit, Daemon
<1>4. CASE TermOld(p)
  BY <1>4 DEF TermOld, Occupied, Waiting, WritersNamed, Alone, OwnFile, Gone, NoStaleAfterExit, Daemon
<1>5. CASE OldIsGone(p)
  BY <1>5 DEF OldIsGone, Waiting, WritersNamed, Alone, OwnFile, Gone, NoStaleAfterExit, Daemon
<1>6. CASE OpenPidFile(p)
  BY <1>6 DEF OpenPidFile, Waiting, WritersNamed, Alone, OwnFile, Gone, NoStaleAfterExit, Daemon
<1>7. CASE WritePid(p)
  BY <1>7 DEF WritePid, Waiting, WritersNamed, Alone, OwnFile, Gone, NoStaleAfterExit, Daemon
<1>8. CASE Bind(p)
  BY <1>8 DEF Bind, Waiting, WritersNamed, Alone, OwnFile, Gone, NoStaleAfterExit, Daemon
<1>9. CASE LeaveLoop(p)
  BY <1>9 DEF LeaveLoop, Listens, Waiting, WritersNamed, Alone, OwnFile, Gone,
     NoStaleAfterExit, Daemon
<1> QED
  BY <1>1, <1>2, <1>3, <1>4, <1>5, <1>6, <1>7, <1>8, <1>9 DEF Step

\* A step of a CGI child: the one that cannot execute its script takes the file.
LEMMA ChildKeeps == ASSUME PInv, NEW p \in Pids, ChildStep(p) PROVE PInv'
<1>1. CASE CannotExecute(p)
  <2>1. faults' \in 0 .. MaxFaults
    BY <1>1 DEF CannotExecute, PInv, ProcTypeOK
  <2> QED
    BY <1>1, <2>1, ExitKeeps DEF CannotExecute
<1>2. CASE Executes(p) \/ Sticks(p) \/ ScriptEnds(p)
  <2>1. \E state \in Children \cup {"none"} : proc' = [proc EXCEPT ![p] = state]
    BY <1>2 DEF Executes, Sticks, ScriptEnds, Become, Children
  <2>2. /\ proc[p] \in Children
        /\ UNCHANGED <<force, oldPid, term, named, file, pc, target, faults, killed, second, taken>>
    BY <1>2 DEF Executes, Sticks, ScriptEnds, fileVars, scriptVars, historyVars, Children
  <2> QED
    BY <2>1, <2>2 DEF PInv, ProcTypeOK, States, Starting, Written, Children, Waiting,
       WritersNamed, Alone, OwnFile, Gone, NoStaleAfterExit, Daemon
<1> QED
  BY <1>1, <1>2 DEF ChildStep

\* A step of a script that leaves the processes and the file alone.
LEMMA ScriptKeeps ==
  ASSUME PInv, UNCHANGED <<proc, force, oldPid, named, file, killed, second, taken>>,
         faults' \in 0 .. MaxFaults, term' \subseteq Pids,
         pc' \in [Scripts -> Places],
         target' \in [Scripts -> Pids \cup {"none"}],
         \A s \in Scripts : pc'[s] = "wait" => target'[s] \in Pids
  PROVE  PInv'
BY DEF PInv, ProcTypeOK, Places, Waiting, WritersNamed, Alone, OwnFile, Gone, NoStaleAfterExit, Daemon

LEMMA ScriptStepKeeps == ASSUME PInv, NEW s \in Scripts, ScriptStep(s) PROVE PInv'
<1>0. /\ faults \in 0 .. MaxFaults /\ term \subseteq Pids /\ file \in Pids \cup {"none", "empty"}
      /\ pc \in [Scripts -> Places] /\ target \in [Scripts -> Pids \cup {"none"}]
      /\ \A t \in Scripts : pc[t] = "wait" => target[t] \in Pids
  BY DEF PInv, ProcTypeOK, Waiting, Places
<1>1. AfterStop(s) \subseteq {"start", "idle"}
  BY DEF AfterStop
<1> USE DEF ScriptAt, OnlyScript, fileVars, historyVars, Places
<1>2. CASE StopNobody(s)
  BY <1>0, <1>1, <1>2, ScriptKeeps DEF StopNobody
<1>3. CASE StopByPid(s)
  <2>1. file \in Pids
    BY <1>3 DEF StopByPid, Occupied
  <2> QED
    BY <1>0, <1>3, <2>1, ScriptKeeps DEF StopByPid
<1>4. CASE Stopped(s)
  BY <1>0, <1>1, <1>4, ScriptKeeps DEF Stopped
<1>5. CASE StopKills(s)
  <2>1. target[s] \in Pids
    BY <1>0, <1>5 DEF StopKills
  <2>2. pc' \in [Scripts -> Places] /\ target' \in [Scripts -> Pids \cup {"none"}]
        /\ \A t \in Scripts : pc'[t] = "wait" => target'[t] \in Pids
    BY <1>0, <1>1, <1>5 DEF StopKills
  <2> QED
    BY <1>0, <1>5, <2>1, <2>2, KillKeeps DEF StopKills, Become
<1>6. CASE StartLooks(s)
  BY <1>0, <1>6, ScriptKeeps DEF StartLooks
<1>7. CASE StartFinds(s)
  BY <1>0, <1>7, ScriptKeeps DEF StartFinds
<1>8. CASE StartLaunches(s)
  <2>1. PICK p \in Pids : Launch(p, FALSE)
    BY <1>8 DEF StartLaunches
  <2>2. pc' \in [Scripts -> Places] /\ \A t \in Scripts : pc'[t] = "wait" => pc[t] = "wait"
    BY <1>0, <1>8 DEF StartLaunches
  <2>3. UNCHANGED <<target, faults>>
    BY <1>8 DEF StartLaunches
  <2> QED
    BY <1>0, <2>1, <2>2, <2>3, LaunchKeeps
<1> QED
  BY <1>2, <1>3, <1>4, <1>5, <1>6, <1>7, <1>8 DEF ScriptStep

\* The watchdog's two steps.
LEMMA WatchdogKeeps == ASSUME PInv, Unhealthy \/ RemoveFile PROVE PInv'
<1>1. CASE Unhealthy
  BY <1>1, ScriptKeeps DEF Unhealthy, OnlyScript, ScriptAt, fileVars, historyVars,
     PInv, ProcTypeOK, Waiting, Places
<1>2. CASE RemoveFile
  <2>1. /\ file' = "none" /\ named' = {} /\ pc' = [pc EXCEPT !["watchdog"] = "stop"]
        /\ UNCHANGED <<proc, force, oldPid, term, target, faults, killed, second>> /\ taken' = TRUE
    BY <1>2 DEF RemoveFile, Remove, ScriptAt, historyVars
  <2>2. ProcTypeOK' /\ Waiting'
    BY <2>1 DEF PInv, ProcTypeOK, Waiting
  <2>3. WritersNamed' /\ NoStaleAfterExit'
    BY <2>1, PidAssumption DEF PidAssumption, WritersNamed, NoStaleAfterExit
  <2>4. Alone' /\ OwnFile'
    BY <2>1 DEF PInv, Alone, OwnFile, Gone, Daemon
  <2> QED
    BY <2>2, <2>3, <2>4 DEF PInv
<1> QED
  BY <1>1, <1>2

\* What comes from outside.
LEMMA OutsideKeeps == ASSUME PInv, Outside PROVE PInv'
<1>0. /\ faults \in 0 .. MaxFaults /\ pc \in [Scripts -> Places]
      /\ target \in [Scripts -> Pids \cup {"none"}]
      /\ \A t \in Scripts : pc[t] = "wait" => target[t] \in Pids
  BY DEF PInv, ProcTypeOK, Waiting, Places
<1>1. Fault => faults' \in 0 .. MaxFaults
  BY <1>0, PidAssumption DEF Fault, PidAssumption
<1>2. CASE Manual
  <2>1. PICK p \in Pids, k \in BOOLEAN : Fault /\ Launch(p, k) /\ UNCHANGED scriptVars
    BY <1>2 DEF Manual
  <2> QED
    BY <1>0, <1>1, <2>1, LaunchKeeps DEF scriptVars, Places
<1>3. CASE SlowAnswer \/ AdminCommand
  <2>1. /\ Fault /\ UNCHANGED <<proc, force, oldPid, term, named, file, target, killed, second, taken>>
        /\ pc' \in [Scripts -> Places] /\ \A t \in Scripts : pc'[t] = "wait" => pc[t] = "wait"
    BY <1>0, <1>3 DEF SlowAnswer, AdminCommand, ScriptAt, fileVars, historyVars, Places
  <2>2. term \subseteq Pids
    BY DEF PInv, ProcTypeOK
  <2> QED
    BY <1>0, <1>1, <2>1, <2>2, ScriptKeeps DEF Places
<1>4. ASSUME NEW p \in Pids, Dies(p) PROVE PInv'
  BY <1>0, <1>1, <1>4, KillKeeps DEF Dies, Become, scriptVars, Places
<1>5. ASSUME NEW p \in Pids, CannotWrite(p) PROVE PInv'
  BY <1>1, <1>5, ExitKeeps DEF CannotWrite, Daemon, Starting
<1>6. ASSUME NEW p \in Pids, Hangs(p) \/ ForeignStarts(p) \/ ForeignEnds(p) PROVE PInv'
  <2>1. faults' \in 0 .. MaxFaults
    BY <1>0, <1>1, <1>6 DEF Hangs, ForeignStarts, ForeignEnds
  <2>2. UNCHANGED <<force, oldPid, term, named, file, pc, target, killed, second, taken>>
    BY <1>6 DEF Hangs, ForeignStarts, ForeignEnds, fileVars, scriptVars, historyVars
  <2> QED
    BY <1>6, <2>1, <2>2 DEF Hangs, ForeignStarts, ForeignEnds, Become, PInv, ProcTypeOK,
       States, Starting, Written, Waiting, WritersNamed, Alone, OwnFile, Gone, NoStaleAfterExit, Daemon
<1>7. ASSUME NEW p \in Pids, Fault, Forks(p) PROVE PInv'
  <2>1. faults' \in 0 .. MaxFaults
    BY <1>1, <1>7
  <2> QED
    BY <1>7, <2>1 DEF Forks, Become, fileVars, scriptVars, historyVars, PInv, ProcTypeOK,
       States, Starting, Written, Children, Waiting, WritersNamed, Alone, OwnFile, Gone,
       NoStaleAfterExit, Daemon
<1> QED
  BY <1>2, <1>3, <1>4, <1>5, <1>6, <1>7 DEF Outside

LEMMA PInvariance == ProcSpec => []PInv
<1>1. PInv /\ UNCHANGED procVars => PInv'
  BY DEF PInv, ProcTypeOK, Waiting, WritersNamed, Alone, OwnFile, Gone, NoStaleAfterExit, Daemon,
     procVars, fileVars, scriptVars, historyVars
<1>2. PInv /\ [ProcNext]_procVars => PInv'
  BY <1>1, DaemonKeeps, ChildKeeps, ScriptStepKeeps, WatchdogKeeps, OutsideKeeps DEF ProcNext
<1> QED
  BY PInit, <1>2, PTL DEF ProcSpec

\* Type correctness; whoever is waited for or killed is a process.
THEOREM ProcessTypeCorrect == ProcSpec => []ProcTypeOK
<1>1. PInv => ProcTypeOK
  BY DEF PInv
<1> QED  BY <1>1, PInvariance, PTL

\* For any number of processes, starts, kills, crashes and numbers used again:
\* the pid file never names a process that has ended by itself.
THEOREM NoStaleFile == ProcSpec => []NoStaleAfterExit
<1>1. PInv => NoStaleAfterExit
  BY DEF PInv
<1> QED  BY <1>1, PInvariance, PTL

\* The file of the daemon that serves is right, or gone, as long as no daemon has
\* been started beside another, whatever has been killed before.
THEOREM FileIsRight == ProcSpec => []ListedUnlessSecond
<1>1. PInv => ListedUnlessSecond
  BY DEF PInv, OwnFile, Gone, ListedUnlessSecond, Listens, Written
<1> QED  BY <1>1, PInvariance, PTL
=============================================================================
