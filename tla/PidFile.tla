------------------------------ MODULE PidFile ------------------------------
(***************************************************************************)
(* The life of the daemon's processes and their pid file: a start with and *)
(* without -k, the ports, SIGTERM and SIGKILL, crashes, and the scripts    *)
(* that read and remove the file: script/watchdog.sh every minute and      *)
(* etc/init.d/geod.  The numbers of processes are used again, by the       *)
(* daemon or by a foreign program.  The CGI plugin's children are copies   *)
(* of the daemon until execve: they inherit its ports and its atexit       *)
(* function.                                                               *)
(*                                                                         *)
(* The ports are one resource, as they are bound in one order.  A cron     *)
(* job's minute is taken to be longer than a start.  A foreign program     *)
(* runs as the daemon's user: kill(pid, 0) fails for any other, and the    *)
(* daemon takes its number for free.                                       *)
(***************************************************************************)
EXTENDS Naturals, FiniteSets

CONSTANTS
  Pids,
  MaxFaults   \* bound: how often something comes from outside

ASSUME PidAssumption ==
  /\ IsFiniteSet(Pids) /\ {"none", "empty"} \cap Pids = {}
  /\ MaxFaults \in Nat

Scripts == {"watchdog", "admin"}

VARIABLES
  proc,      \* what the process of each number is doing
  force,     \* those started with -k
  oldPid,    \* whom a start with -k waits for
  term,      \* SIGTERM has come: keep_running is 0
  file,      \* the pid file: a number, "empty" or "none"
  named,     \* whose open pid file still has the name
  pc,        \* of the scripts
  target,    \* whom a script waits for
  faults,
  killed,    \* history: the last of that number has died without an exit
  second,    \* history: one has been started beside another
  taken      \* history: the watchdog or a child has taken the file away

fileVars == <<file, named>>
scriptVars == <<pc, target>>
historyVars == <<killed, second, taken>>
procVars == <<proc, force, oldPid, term, fileVars, scriptVars, faults, historyVars>>

Starting == {"begun", "terming", "write", "writing", "binding"}
Written == {"binding", "serving", "hung", "ending"}
\* A child of the CGI plugin: before execve, as the script, or a copy that waits
\* for a mutex that was taken when it was made.
Children == {"forked", "script", "stuck"}
States == Starting \cup Written \cup Children \cup {"none", "foreign"}

ProcTypeOK ==
  /\ proc \in [Pids -> States] /\ force \subseteq Pids
  /\ oldPid \in [Pids -> Pids \cup {"none"}] /\ term \subseteq Pids
  /\ file \in Pids \cup {"none", "empty"} /\ named \subseteq Pids
  /\ pc \in [Scripts -> {"idle", "remove", "stop", "wait", "start", "launch"}]
  /\ target \in [Scripts -> Pids \cup {"none"}]
  /\ faults \in 0 .. MaxFaults /\ killed \subseteq Pids
  /\ second \in BOOLEAN /\ taken \in BOOLEAN

ProcInit ==
  /\ proc = [p \in Pids |-> "none"] /\ force = {} /\ term = {}
  /\ oldPid = [p \in Pids |-> "none"]
  /\ file = "none" /\ named = {}
  /\ pc = [s \in Scripts |-> "idle"] /\ target = [s \in Scripts |-> "none"]
  /\ faults = 0 /\ killed = {} /\ second = FALSE /\ taken = FALSE

Alive(p) == proc[p] # "none"
Daemon(p) == proc[p] \in Starting \cup Written
Listens(p) == proc[p] \in {"serving", "hung"}
HoldsPorts(p) == Listens(p) \/ proc[p] \in Children
\* Its program is geod, also that of a child before execve.
Geod(p) == Daemon(p) \/ proc[p] \in {"forked", "stuck"}
Serving == \E p \in Pids : proc[p] = "serving"

Become(p, state) == proc' = [proc EXCEPT ![p] = state]
Remove == file' = "none" /\ named' = {}

(***************************************************************************)
(* The daemon                                                              *)
(***************************************************************************)
\* main up to atexit(remove_pidfile).
Launch(p, k) ==
  /\ proc[p] = "none" /\ Become(p, "begun")
  /\ force' = IF k THEN force \cup {p} ELSE force \ {p}
  /\ term' = term \ {p}
  /\ second' = (second \/ \E q \in Pids : Daemon(q))
  /\ UNCHANGED <<oldPid, fileVars, killed, taken>>

\* Mutant: there is no atexit function.
ExitKeepsFile(p) ==
  /\ Become(p, "none") /\ UNCHANGED fileVars /\ killed' = killed \ {p}
  /\ oldPid' = [oldPid EXCEPT ![p] = "none"]
  /\ UNCHANGED <<force, term, scriptVars, second>>

\* exit, or the end of main: the atexit function removes the file, whoever it names.
ExitProcess(p) ==
  /\ Become(p, "none") /\ Remove /\ killed' = killed \ {p}
  /\ oldPid' = [oldPid EXCEPT ![p] = "none"]
  /\ UNCHANGED <<force, term, scriptVars, second>>
Exit(p) == ExitProcess(p) /\ UNCHANGED <<faults, taken>>

\* Mutant: nobody asks whether there is a number, and whether it runs.
OccupiedUnread == file \in Pids \cup {"empty"}

\* Any process of the number that is named counts as a running daemon, this one, too.
Occupied == file \in Pids /\ Alive(file)

Refused(p) == proc[p] = "begun" /\ Occupied /\ p \notin force /\ Exit(p)

Unoccupied(p) ==
  /\ proc[p] = "begun" /\ ~Occupied /\ Become(p, "write")
  /\ UNCHANGED <<force, oldPid, term, fileVars, scriptVars, faults, historyVars>>

TermOld(p) ==
  /\ proc[p] = "begun" /\ Occupied /\ p \in force /\ Become(p, "terming")
  /\ term' = term \cup {file} /\ oldPid' = [oldPid EXCEPT ![p] = file]
  /\ UNCHANGED <<force, fileVars, scriptVars, faults, historyVars>>

OldIsGone(p) ==
  /\ proc[p] = "terming" /\ ~Alive(oldPid[p]) /\ Become(p, "write")
  /\ oldPid' = [oldPid EXCEPT ![p] = "none"]
  /\ UNCHANGED <<force, term, fileVars, scriptVars, faults, historyVars>>

\* After six seconds SIGKILL, to itself if the number is its own.
KillOld(p) ==
  LET q == oldPid[p] IN
    /\ proc[p] = "terming" /\ Alive(q)
    /\ proc' = IF q = p THEN [proc EXCEPT ![p] = "none"]
               ELSE [proc EXCEPT ![p] = "write", ![q] = "none"]
    /\ killed' = killed \cup {q}
    /\ named' = named \ {q}
    /\ oldPid' = [oldPid EXCEPT ![p] = "none", ![q] = "none"]
    /\ UNCHANGED <<force, term, file, scriptVars, faults, second, taken>>

\* SIGKILL does not end it within six seconds, either.
GiveUp(p) == proc[p] = "terming" /\ Alive(oldPid[p]) /\ oldPid[p] # p /\ Exit(p)

\* Mutant: opened for appending, the number behind the old one.
OpenForAppend(p) ==
  /\ proc[p] = "write" /\ Become(p, "writing")
  /\ IF file = "none" THEN file' = "empty" /\ named' = named \cup {p}
     ELSE UNCHANGED fileVars
  /\ UNCHANGED <<force, oldPid, term, scriptVars, faults, historyVars>>

OpenPidFile(p) ==
  /\ proc[p] = "write" /\ Become(p, "writing")
  /\ file' = "empty" /\ named' = named \cup {p}
  /\ UNCHANGED <<force, oldPid, term, scriptVars, faults, historyVars>>

\* The number is written by fclose, into a file that may have lost its name.
WritePid(p) ==
  /\ proc[p] = "writing" /\ Become(p, "binding")
  /\ file' = IF p \in named THEN p ELSE file
  /\ taken' = (taken /\ p \notin named)
  /\ named' = named \ {p} /\ killed' = killed \ {p}
  /\ UNCHANGED <<force, oldPid, term, scriptVars, faults, second>>

\* With keep_running 0 by then the loop is not entered.
Bind(p) ==
  /\ proc[p] = "binding" /\ \A q \in Pids : ~HoldsPorts(q)
  /\ Become(p, IF p \in term THEN "ending" ELSE "serving")
  /\ UNCHANGED <<force, oldPid, term, fileVars, scriptVars, faults, historyVars>>

BindFails(p) == proc[p] = "binding" /\ (\E q \in Pids : HoldsPorts(q)) /\ Exit(p)

LeaveLoop(p) ==
  /\ Listens(p) /\ p \in term /\ Become(p, "ending")
  /\ UNCHANGED <<force, oldPid, term, fileVars, scriptVars, faults, historyVars>>

Shutdown(p) == proc[p] = "ending" /\ Exit(p)

Step(p) ==
  \/ Refused(p) \/ Unoccupied(p) \/ TermOld(p) \/ OldIsGone(p) \/ KillOld(p)
  \/ GiveUp(p) \/ OpenPidFile(p) \/ WritePid(p) \/ Bind(p) \/ BindFails(p)
  \/ LeaveLoop(p) \/ Shutdown(p)

(***************************************************************************)
(* The CGI children                                                        *)
(***************************************************************************)
\* The child of a daemon that has left its loop has no ports: it does nothing
\* that one forked before does not.
Forks(p) ==
  /\ Serving /\ proc[p] = "none" /\ Become(p, "forked")
  /\ UNCHANGED <<force, oldPid, term, fileVars, scriptVars, historyVars>>

Executes(p) ==
  /\ proc[p] = "forked" /\ Become(p, "script")
  /\ UNCHANGED <<force, oldPid, term, fileVars, scriptVars, faults, historyVars>>

\* execve fails: exit(1), with the daemon's atexit function.
CannotExecute(p) ==
  proc[p] = "forked" /\ ExitProcess(p) /\ taken' = TRUE /\ UNCHANGED faults

\* The same, but the child does not get past the mutex to its exit.
Sticks(p) ==
  /\ proc[p] = "forked" /\ Become(p, "stuck")
  /\ UNCHANGED <<force, oldPid, term, fileVars, scriptVars, faults, historyVars>>

ScriptEnds(p) ==
  /\ proc[p] = "script" /\ Become(p, "none")
  /\ UNCHANGED <<force, oldPid, term, fileVars, scriptVars, faults, historyVars>>

ChildStep(p) == Executes(p) \/ CannotExecute(p) \/ Sticks(p) \/ ScriptEnds(p)

(***************************************************************************)
(* The scripts                                                             *)
(***************************************************************************)
ScriptAt(s, place) == pc' = [pc EXCEPT ![s] = place]
OnlyScript == UNCHANGED <<proc, force, oldPid, term, fileVars, faults, historyVars>>

Settled == \A p \in Pids : proc[p] \notin Starting

Unhealthy ==
  /\ pc["watchdog"] = "idle" /\ Settled /\ ~Serving /\ ScriptAt("watchdog", "remove")
  /\ UNCHANGED target /\ OnlyScript

\* Mutant: the watchdog leaves the file.
RemoveNothing ==
  /\ pc["watchdog"] = "remove" /\ ScriptAt("watchdog", "stop")
  /\ UNCHANGED <<proc, force, oldPid, term, fileVars, target, faults, historyVars>>

RemoveFile ==
  /\ pc["watchdog"] = "remove" /\ ScriptAt("watchdog", "stop") /\ Remove
  /\ taken' = TRUE
  /\ UNCHANGED <<proc, force, oldPid, term, target, faults, killed, second>>

\* restart, or the administrator's stop.
AfterStop(s) == {"start"} \cup IF s = "admin" THEN {"idle"} ELSE {}

StopNobody(s) ==
  /\ pc[s] = "stop" /\ ~Occupied
  /\ \E place \in AfterStop(s) : ScriptAt(s, place)
  /\ UNCHANGED target /\ OnlyScript

StopByPid(s) ==
  /\ pc[s] = "stop" /\ Occupied /\ ScriptAt(s, "wait")
  /\ target' = [target EXCEPT ![s] = file] /\ term' = term \cup {file}
  /\ UNCHANGED <<proc, force, oldPid, fileVars, faults, historyVars>>

Stopped(s) ==
  /\ pc[s] = "wait" /\ ~Alive(target[s])
  /\ \E place \in AfterStop(s) : ScriptAt(s, place)
  /\ target' = [target EXCEPT ![s] = "none"] /\ OnlyScript

\* --retry=TERM/10/KILL/5
StopKills(s) ==
  LET q == target[s] IN
    /\ pc[s] = "wait" /\ Alive(q) /\ Become(q, "none")
    /\ \E place \in AfterStop(s) : ScriptAt(s, place)
    /\ target' = [target EXCEPT ![s] = "none"]
    /\ killed' = killed \cup {q} /\ named' = named \ {q}
    /\ oldPid' = [oldPid EXCEPT ![q] = "none"]
    /\ UNCHANGED <<force, term, file, faults, second, taken>>

StartLooks(s) ==
  /\ pc[s] = "start" /\ ScriptAt(s, IF file # "none" THEN "idle" ELSE "launch")
  /\ UNCHANGED target /\ OnlyScript

\* start-stop-daemon --exec does nothing when a process of the program is there.
StartFinds(s) ==
  /\ pc[s] = "launch" /\ (\E q \in Pids : Geod(q)) /\ ScriptAt(s, "idle")
  /\ UNCHANGED target /\ OnlyScript

StartLaunches(s) ==
  /\ pc[s] = "launch" /\ (\A q \in Pids : ~Geod(q)) /\ ScriptAt(s, "idle")
  /\ \E p \in Pids : Launch(p, FALSE)
  /\ UNCHANGED <<target, faults>>

ScriptStep(s) ==
  \/ StopNobody(s) \/ StopByPid(s) \/ Stopped(s) \/ StopKills(s)
  \/ StartLooks(s) \/ StartFinds(s) \/ StartLaunches(s)

(***************************************************************************)
(* What comes from outside                                                 *)
(***************************************************************************)
Fault == faults < MaxFaults /\ faults' = faults + 1

\* By hand or by systemd, which looks at nothing.
Manual == \E p \in Pids, k \in BOOLEAN :
  Fault /\ Launch(p, k) /\ UNCHANGED scriptVars

\* A crash, the kernel's or somebody's SIGKILL.
Dies(p) ==
  /\ Fault /\ Geod(p) /\ Become(p, "none")
  /\ killed' = killed \cup {p} /\ named' = named \ {p}
  /\ oldPid' = [oldPid EXCEPT ![p] = "none"]
  /\ UNCHANGED <<force, term, file, scriptVars, second, taken>>

\* The disk is full, or the directory is not there.
CannotWrite(p) == Fault /\ proc[p] = "write" /\ ExitProcess(p) /\ UNCHANGED taken

Hangs(p) ==
  /\ Fault /\ proc[p] = "serving" /\ Become(p, "hung")
  /\ UNCHANGED <<force, oldPid, term, fileVars, scriptVars, historyVars>>

\* There is always a number left for the daemon.
ForeignStarts(p) ==
  /\ Fault /\ proc[p] = "none" /\ Become(p, "foreign")
  /\ \E q \in Pids \ {p} : proc[q] # "foreign"
  /\ UNCHANGED <<force, oldPid, term, fileVars, scriptVars, historyVars>>

ForeignEnds(p) ==
  /\ proc[p] = "foreign" /\ Become(p, "none")
  /\ UNCHANGED <<force, oldPid, term, fileVars, scriptVars, faults, historyVars>>

\* The healthy daemon takes more than three seconds for its status.
SlowAnswer ==
  /\ Fault /\ pc["watchdog"] = "idle" /\ Serving /\ ScriptAt("watchdog", "remove")
  /\ UNCHANGED <<proc, force, oldPid, term, fileVars, target, historyVars>>

AdminCommand ==
  /\ Fault /\ pc["admin"] = "idle" /\ \E place \in {"stop", "start"} : ScriptAt("admin", place)
  /\ UNCHANGED <<proc, force, oldPid, term, fileVars, target, historyVars>>

Outside ==
  \/ Manual \/ SlowAnswer \/ AdminCommand
  \/ \E p \in Pids :
       \/ Dies(p) \/ CannotWrite(p) \/ Hangs(p) \/ ForeignStarts(p) \/ ForeignEnds(p)
       \/ Fault /\ Forks(p)

ProcNext ==
  \/ \E p \in Pids : Step(p) \/ ChildStep(p)
  \/ \E s \in Scripts : ScriptStep(s)
  \/ Unhealthy \/ RemoveFile \/ Outside

\* A daemon that does not hang goes on, the scripts go on, a PHP script does not
\* sleep for ever, cron comes every minute.
ProcSpec ==
  /\ ProcInit /\ [][ProcNext]_procVars
  /\ \A p \in Pids : WF_procVars(Step(p) /\ proc[p] # "hung") /\ WF_procVars(ChildStep(p))
  /\ \A s \in Scripts : WF_procVars(ScriptStep(s))
  /\ WF_procVars(Unhealthy) /\ WF_procVars(RemoveFile)
----------------------------------------------------------------------------
(***************************************************************************)
(* Properties                                                              *)
(***************************************************************************)
\* The file names a process that has written it and still runs, or one that has
\* been killed: whoever ends by itself, refused, unable to bind or after a
\* SIGTERM, leaves no file with its number.
NoStaleAfterExit == \A p \in Pids :
  file = p => proc[p] \in Written \/ p \in killed

\* As long as no daemon has been started beside another, the one that serves
\* finds its number in the file, whatever has been killed, hung or numbered anew
\* before, or the file is gone, by the watchdog or by a CGI child that could not
\* execute its script.
ListedUnlessSecond == \A p \in Pids :
  Listens(p) /\ ~second => file = p \/ (file = "none" /\ taken)

\* Processes that have the ports and do not go on by themselves.
Blocked == \E p \in Pids : proc[p] \in {"hung", "stuck"}

\* When no daemon serves, and none hangs and no child is stuck, one will serve:
\* the watchdog gets over every pid file that is stale, empty, missing or names a
\* foreign process, and over a script that has kept the ports of its daemon.
Recovers == ~Serving /\ ~Blocked ~> Serving \/ Blocked
============================================================================
