----------------------------- MODULE CgiRequest -----------------------------
(***************************************************************************)
(* The CGI plugin (src/src/plugin_cgi/plugin_cgi.c): the pool of contexts, *)
(* the child process and the two pipes of a request, and the cached page   *)
(* (src/src/cache.c).                                                      *)
(*                                                                         *)
(* All requests ask for one page, so there is one cache file.  A child has *)
(* the name of its request.  fork() gives the child a copy of every        *)
(* descriptor the daemon has open at that moment, also the pipe ends of    *)
(* other requests, and exec keeps them.                                    *)
(*                                                                         *)
(* External: the PHP script, which writes to both pipes in any order and   *)
(* ends; the kernel's pipes.                                               *)
(***************************************************************************)
EXTENDS Integers, FiniteSets

CONSTANTS
  Requests,
  PoolSize,    \* MAX_CGI_PIDS
  PipeCap,     \* what a pipe takes before its writer has to wait
  MaxResult,   \* what the result buffer can grow to (limit, or memory)
  Outputs,     \* bounds of the model: how much a script
  Errors,      \*   writes to its stdout and its stderr,
  Leakable,    \*   the contexts that earlier requests may have leaked,
  Leavable     \*   and those that they may be about to free

ASSUME CgiAssumption ==
  /\ "host" \notin Requests
  /\ PoolSize \in Nat \ {0} /\ PipeCap \in Nat \ {0}
  /\ MaxResult \in Nat /\ Outputs \subseteq Nat /\ Errors \subseteq Nat
  /\ Leakable \cup Leavable \subseteq 1 .. PoolSize

Slots == 1 .. PoolSize
Ends == Requests \X {"outR", "outW", "errR", "errW"}

VARIABLES
  before,            \* contexts that earlier requests have leaked
  leaving,           \* contexts given back by earlier requests, not yet freed
  pc, slot,          \* of a request: its place and its context
  taken,             \* contexts with active_pid # 0
  owner,             \* whose strings and result buffer a context points to
  lost,              \* requests whose strings and buffer another one has freed
  crashed,           \* the daemon has used memory it had freed
  fds,               \* pipe ends that the daemon and each child have open
  child,
  toOut, toErr,      \* what the script has still to write
  out, err,          \* what is in the pipes
  wrote, got,        \* what has gone into stdout, and offset: into the result
  length,            \* cgi->result_length
  truncated,         \* requests whose result did not fit
  opened,            \* requests with cache_file.fp
  file, recent       \* the cache file, and its age below CACHE_TIME

poolVars == <<before, leaving, slot, taken, owner, lost, crashed>>
pipeVars == <<toOut, toErr, out, err, wrote>>
readVars == <<got, length, truncated>>
fileVars == <<opened, file, recent>>
vars == <<pc, poolVars, fds, child, pipeVars, readVars, fileVars>>

Ended == {"done", "leaked"}
\* The thread is before the lock of the pool, or inside it.
Locking == {"allocate", "release"}
Reading == {"stdout", "stderr"}
InHandler == {"init", "lookup", "pipes", "fork", "create", "reply", "store", "wait"} \cup Reading
Holding == InHandler \cup {"release"}
Places == Holding \cup {"allocate", "free"} \cup Ended
\* A child that is "forked_locked" was copied while another thread had the
\* pool's mutex.
Alive == {"forked", "forked_locked", "script", "hung"}

TypeOK ==
  /\ before \subseteq Slots /\ leaving \subseteq Slots
  /\ pc \in [Requests -> Places]
  /\ slot \in [Requests -> Slots \cup {0}]
  /\ taken \subseteq Slots
  /\ owner \in [Slots -> Requests \cup {"none"}]
  /\ lost \subseteq Requests /\ crashed \in BOOLEAN
  /\ fds \in [Requests \cup {"host"} -> SUBSET Ends]
  /\ child \in [Requests -> Alive \cup {"none", "dead", "reaped"}]
  /\ toOut \in [Requests -> Nat] /\ toErr \in [Requests -> Nat]
  /\ out \in [Requests -> 0 .. PipeCap] /\ err \in [Requests -> 0 .. PipeCap]
  /\ wrote \in [Requests -> Nat] /\ got \in [Requests -> 0 .. MaxResult]
  /\ length \in [Requests -> 0 .. MaxResult]
  /\ truncated \subseteq Requests /\ opened \subseteq Requests
  /\ file \in {"absent", "empty", "filled"} /\ recent \in BOOLEAN

Init ==
  /\ pc = [r \in Requests |-> "allocate"] /\ slot = [r \in Requests |-> 0]
  /\ before \in SUBSET Leakable /\ taken = before
  /\ leaving \in SUBSET Leavable
  /\ owner = [s \in Slots |-> "none"]
  /\ lost = {} /\ crashed = FALSE
  /\ fds = [p \in Requests \cup {"host"} |-> {}]
  /\ child = [r \in Requests |-> "none"]
  /\ toOut = [r \in Requests |-> 0] /\ toErr = toOut
  /\ out = toOut /\ err = toOut /\ wrote = toOut /\ got = toOut /\ length = toOut
  /\ truncated = {} /\ opened = {}
  /\ file = "absent" /\ recent = FALSE

Held(e) == \E p \in DOMAIN fds : e \in fds[p]
At(r, place) == ~crashed /\ pc[r] = place
Goto(r, place) == pc' = [pc EXCEPT ![r] = place]

(***************************************************************************)
(* The context.                                                            *)
(***************************************************************************)
\* Mutant: asks for a running script, not for the reservation.
FreeOfScript(s) == \A r \in Requests : slot[r] = s => child[r] # "script"

Free(s) == s \notin taken

\* cgi_data_allocate: the first free context, under the pool's mutex.
Allocate(r) ==
  /\ At(r, "allocate")
  /\ \E s \in Slots :
       /\ Free(s) /\ \A t \in 1 .. s - 1 : ~Free(t)
       /\ taken' = taken \cup {s} /\ slot' = [slot EXCEPT ![r] = s]
  /\ Goto(r, "init")
  /\ UNCHANGED <<before, leaving, owner, lost, crashed, fds, child, pipeVars, readVars, fileVars>>

AllocateRefused(r) ==
  /\ At(r, "allocate") /\ \A s \in Slots : ~Free(s)
  /\ Goto(r, "done")
  /\ UNCHANGED <<poolVars, fds, child, pipeVars, readVars, fileVars>>

\* cgi_data_init: what the context points to is freed and replaced.
InitContext(r) ==
  /\ At(r, "init")
  /\ owner' = [owner EXCEPT ![slot[r]] = r]
  /\ Goto(r, "lookup")
  /\ UNCHANGED <<before, leaving, slot, taken, lost, crashed, fds, child, pipeVars, readVars, fileVars>>

\* Out of memory in cgi_data_init: 503, and the context is not given back.
InitFails(r) ==
  /\ At(r, "init")
  /\ owner' = [owner EXCEPT ![slot[r]] = r]
  /\ Goto(r, "leaked")
  /\ UNCHANGED <<before, leaving, slot, taken, lost, crashed, fds, child, pipeVars, readVars, fileVars>>

\* Mutant: forgets the pipe of the errors.
OpenEndsOut(r) == {e \in fds["host"] : e[1] = r /\ e[2] \in {"outR", "outW"}}

OpenEnds(r) == {e \in fds["host"] : e[1] = r}

\* cgi_data_close_pipes, and the context is free: it can be allocated again
\* before this thread comes to cgi_data_free.
Release(r) ==
  /\ At(r, "release")
  /\ fds' = [fds EXCEPT !["host"] = @ \ OpenEnds(r)]
  /\ taken' = taken \ {slot[r]}
  /\ Goto(r, "free")
  /\ UNCHANGED <<before, leaving, slot, owner, lost, crashed, child, pipeVars, readVars, fileVars>>

Robbed(s) == {o \in Requests : owner[s] = o /\ pc[o] \in InHandler}

\* cgi_data_free: what the context points to now, whoever put it there.
FreeData(s) ==
  /\ lost' = lost \cup Robbed(s)
  /\ length' = [o \in Requests |-> IF o \in Robbed(s) THEN 0 ELSE length[o]]
  /\ owner' = [owner EXCEPT ![s] = "none"]
  /\ UNCHANGED <<before, slot, taken, crashed, fds, child, pipeVars, got, truncated, fileVars>>

FreeContext(r) ==
  /\ At(r, "free")
  /\ FreeData(slot[r])
  /\ Goto(r, "done")
  /\ UNCHANGED leaving

\* An earlier request comes to the end of its release.
FreeEarlier(s) ==
  /\ ~crashed /\ s \in leaving
  /\ FreeData(s)
  /\ leaving' = leaving \ {s}
  /\ UNCHANGED pc

\* A request that goes on without its strings and its buffer may use one of
\* them (or may be lucky).
Crash(r) ==
  /\ ~crashed /\ r \in lost /\ pc[r] \in InHandler
  /\ crashed' = TRUE
  /\ UNCHANGED <<before, leaving, pc, slot, taken, owner, lost, fds, child, pipeVars, readVars, fileVars>>

(***************************************************************************)
(* The request.                                                            *)
(***************************************************************************)
Serve(r) ==
  /\ At(r, "lookup") /\ file # "absent" /\ recent
  /\ Goto(r, "release")
  /\ UNCHANGED <<poolVars, fds, child, pipeVars, readVars, fileVars>>

Miss(r) ==
  /\ At(r, "lookup") /\ ~(file # "absent" /\ recent)
  /\ Goto(r, "pipes")
  /\ UNCHANGED <<poolVars, fds, child, pipeVars, readVars, fileVars>>

MakePipes(r) ==
  /\ At(r, "pipes")
  /\ fds' = [fds EXCEPT !["host"] = @ \cup {e \in Ends : e[1] = r}]
  /\ Goto(r, "fork")
  /\ UNCHANGED <<poolVars, child, pipeVars, readVars, fileVars>>

\* The first pipe may have been made when the second one fails.
PipeFails(r) ==
  /\ At(r, "pipes")
  /\ \E made \in {{}, {<<r, "outR">>, <<r, "outW">>}} :
       fds' = [fds EXCEPT !["host"] = @ \cup made]
  /\ Goto(r, "release")
  /\ UNCHANGED <<poolVars, child, pipeVars, readVars, fileVars>>

\* Another thread may be inside the pool's mutex at this moment.
Fork(r) ==
  /\ At(r, "fork")
  /\ \E c \in {"forked"} \cup
       {"forked_locked" : o \in {o \in Requests \ {r} : pc[o] \in Locking}} :
       child' = [child EXCEPT ![r] = c]
  /\ fds' = [fds EXCEPT ![r] = fds["host"]]
  /\ Goto(r, "create")
  /\ UNCHANGED <<poolVars, pipeVars, readVars, fileVars>>

\* No response is sent.
ForkFails(r) ==
  /\ At(r, "fork")
  /\ Goto(r, "release")
  /\ UNCHANGED <<poolVars, fds, child, pipeVars, readVars, fileVars>>

\* Mutant: one end is forgotten.
WriteEndsOut(r) == {<<r, "outW">>}

WriteEnds(r) == {<<r, "outW">>, <<r, "errW">>}

\* cache_file_create empties the file; the parent's write ends are closed.
Create(r) ==
  /\ At(r, "create")
  /\ \/ file' = "empty" /\ recent' = TRUE /\ opened' = opened \cup {r}
     \/ UNCHANGED fileVars        \* fopen fails
  /\ fds' = [fds EXCEPT !["host"] = @ \ WriteEnds(r)]
  /\ Goto(r, "stdout")
  /\ UNCHANGED <<poolVars, child, pipeVars, readVars>>

\* The buffer holds the result and a zero, or can be made to: also one that was
\* freed, of which realloc makes a new one.
Fits(n) == n <= MaxResult

ReadOut(r) ==
  /\ At(r, "stdout")
  /\ \E n \in 1 .. out[r] :
       /\ Fits(got[r] + n)
       /\ got' = [got EXCEPT ![r] = @ + n]
       /\ length' = [length EXCEPT ![r] = got[r] + n]
       /\ out' = [out EXCEPT ![r] = @ - n]
  /\ owner' = [owner EXCEPT ![slot[r]] = r]
  /\ UNCHANGED <<pc, before, leaving, slot, taken, lost, crashed, fds, child, toOut, toErr, err,
                 wrote, truncated, fileVars>>

CloseOut(r) ==
  /\ fds' = [fds EXCEPT !["host"] = @ \ {<<r, "outR">>}]
  /\ Goto(r, "stderr")

\* What has been read does not fit: it is dropped and reading ends.
ReadTooMuch(r) ==
  /\ At(r, "stdout")
  /\ \E n \in 1 .. out[r] :
       /\ ~Fits(got[r] + n)
       /\ out' = [out EXCEPT ![r] = @ - n]
  /\ truncated' = truncated \cup {r}
  /\ CloseOut(r)
  /\ UNCHANGED <<poolVars, child, toOut, toErr, err, wrote, got, length, fileVars>>

\* Mutant: nothing to read now is taken for the end.
AtEndWhenEmpty(n, end) == n = 0

\* read returns 0: the pipe is empty and no process has its write end.
AtEnd(n, end) == n = 0 /\ ~Held(end)

ReadOutEnd(r) ==
  /\ At(r, "stdout") /\ AtEnd(out[r], <<r, "outW">>)
  /\ CloseOut(r)
  /\ UNCHANGED <<poolVars, child, pipeVars, readVars, fileVars>>

ReadErr(r) ==
  /\ At(r, "stderr")
  /\ \E n \in 1 .. err[r] : err' = [err EXCEPT ![r] = @ - n]
  /\ UNCHANGED <<pc, poolVars, fds, child, toOut, toErr, out, wrote, readVars, fileVars>>

ReadErrEnd(r) ==
  /\ At(r, "stderr") /\ AtEnd(err[r], <<r, "errW">>)
  /\ fds' = [fds EXCEPT !["host"] = @ \ {<<r, "errR">>}]
  /\ Goto(r, "reply")
  /\ UNCHANGED <<poolVars, child, pipeVars, readVars, fileVars>>

\* The response, from what is in the buffer.  The truncated result is sent and
\* kept as well.
Respond(r) ==
  /\ At(r, "reply") /\ owner[slot[r]] = r
  /\ Goto(r, "store")
  /\ UNCHANGED <<poolVars, fds, child, pipeVars, readVars, fileVars>>

\* The headers are looked for in the buffer, which is gone.
RespondNothing(r) ==
  /\ At(r, "reply") /\ owner[slot[r]] # r
  /\ crashed' = TRUE
  /\ UNCHANGED <<pc, before, leaving, slot, taken, owner, lost, fds, child, pipeVars, readVars, fileVars>>

\* Mutant: the size is taken for a position.
KeptFromSecond(r) == r \in opened /\ length[r] > 1

Kept(r) == r \in opened /\ length[r] > 0

\* cache_file_write (nothing, if there is nothing) and cache_file_close.
Store(r) ==
  /\ At(r, "store")
  /\ IF Kept(r)
       THEN file' = "filled" /\ recent' = TRUE
       ELSE UNCHANGED <<file, recent>>
  /\ opened' = opened \ {r}
  /\ Goto(r, "wait")
  /\ UNCHANGED <<poolVars, fds, child, pipeVars, readVars>>

\* waitpid returns when the child has ended, also if there is nothing left to
\* wait for because the signal handler was faster.
Reap(r) ==
  /\ At(r, "wait") /\ child[r] \in {"dead", "reaped"}
  /\ child' = [child EXCEPT ![r] = "reaped"]
  /\ Goto(r, "release")
  /\ UNCHANGED <<poolVars, fds, pipeVars, readVars, fileVars>>

(***************************************************************************)
(* The child.                                                              *)
(***************************************************************************)
Child(c, states) == ~crashed /\ child[c] \in states

ReadEnds(c) == {<<c, "outR">>, <<c, "errR">>}

\* The child closes its copies of the read ends, and execve succeeds.
Exec(c) ==
  /\ Child(c, {"forked", "forked_locked"})
  /\ child' = [child EXCEPT ![c] = "script"]
  /\ fds' = [fds EXCEPT ![c] = @ \ ReadEnds(c)]
  /\ \E n \in Outputs : toOut' = [toOut EXCEPT ![c] = n]
  /\ \E n \in Errors : toErr' = [toErr EXCEPT ![c] = n]
  /\ UNCHANGED <<pc, poolVars, out, err, wrote, readVars, fileVars>>

\* execve fails: perror, cgi_data_release in the child's copy of the daemon,
\* and exit(1).  If the mutex was taken when the copy was made, nobody will
\* ever give it back there.
ExecFails(c) ==
  /\ Child(c, {"forked", "forked_locked"})
  /\ err' = [err EXCEPT ![c] = 1]
  /\ IF child[c] = "forked"
       THEN child' = [child EXCEPT ![c] = "dead"] /\ fds' = [fds EXCEPT ![c] = {}]
       ELSE child' = [child EXCEPT ![c] = "hung"]
            /\ fds' = [fds EXCEPT ![c] = @ \ ReadEnds(c)]
  /\ UNCHANGED <<pc, poolVars, toOut, toErr, out, wrote, readVars, fileVars>>

WriteOut(c) ==
  /\ Child(c, {"script"}) /\ toOut[c] > 0
  /\ out[c] < PipeCap /\ Held(<<c, "outR">>)
  /\ toOut' = [toOut EXCEPT ![c] = @ - 1]
  /\ out' = [out EXCEPT ![c] = @ + 1]
  /\ wrote' = [wrote EXCEPT ![c] = @ + 1]
  /\ UNCHANGED <<pc, poolVars, fds, child, toErr, err, readVars, fileVars>>

WriteErr(c) ==
  /\ Child(c, {"script"}) /\ toErr[c] > 0
  /\ err[c] < PipeCap
  /\ toErr' = [toErr EXCEPT ![c] = @ - 1]
  /\ err' = [err EXCEPT ![c] = @ + 1]
  /\ UNCHANGED <<pc, poolVars, fds, child, toOut, out, wrote, readVars, fileVars>>

\* The script ends, by itself or because nobody can read its output.
Exit(c) ==
  /\ Child(c, {"script"})
  /\ \/ toOut[c] = 0 /\ toErr[c] = 0
     \/ toOut[c] > 0 /\ ~Held(<<c, "outR">>)
  /\ child' = [child EXCEPT ![c] = "dead"]
  /\ fds' = [fds EXCEPT ![c] = {}]
  /\ UNCHANGED <<pc, poolVars, pipeVars, readVars, fileVars>>

\* The daemon's handler of SIGCHLD waits for any child that has ended.
SigChild(c) ==
  /\ Child(c, {"dead"})
  /\ child' = [child EXCEPT ![c] = "reaped"]
  /\ UNCHANGED <<pc, poolVars, fds, pipeVars, readVars, fileVars>>

\* CACHE_TIME has passed.
Expire ==
  /\ ~crashed /\ recent /\ recent' = FALSE
  /\ UNCHANGED <<pc, poolVars, fds, child, pipeVars, readVars, opened, file>>

RequestStep(r) ==
  \/ Allocate(r) \/ AllocateRefused(r) \/ InitContext(r) \/ InitFails(r)
  \/ Release(r) \/ FreeContext(r)
  \/ Serve(r) \/ Miss(r) \/ MakePipes(r) \/ PipeFails(r) \/ Fork(r) \/ ForkFails(r)
  \/ Create(r) \/ ReadOut(r) \/ ReadTooMuch(r) \/ ReadOutEnd(r)
  \/ ReadErr(r) \/ ReadErrEnd(r) \/ Respond(r) \/ RespondNothing(r)
  \/ Store(r) \/ Reap(r)

ChildStep(c) ==
  Exec(c) \/ ExecFails(c) \/ WriteOut(c) \/ WriteErr(c) \/ Exit(c) \/ SigChild(c)

Next ==
  \/ \E r \in Requests : RequestStep(r) \/ ChildStep(r) \/ Crash(r)
  \/ \E s \in Slots : FreeEarlier(s)
  \/ Expire

Spec == Init /\ [][Next]_vars

\* Threads and processes run; a script does not sleep for ever.
FairSpec ==
  Spec /\ \A r \in Requests : WF_vars(RequestStep(r)) /\ WF_vars(ChildStep(r))

(***************************************************************************)
(* Properties.                                                             *)
(***************************************************************************)

\* A taken context has one request, which is in the handler, or is one of those
\* whose initialisation failed; it has not been given to two.
SlotsAccounted ==
  /\ taken = before \cup {slot[r] : r \in {r \in Requests : pc[r] \in Holding \cup {"leaked"}}}
  /\ \A r, o \in Requests :
       r # o /\ {pc[r], pc[o]} \subseteq Holding \cup {"leaked"} => slot[r] # slot[o]
  /\ \A r \in Requests : pc[r] \in Holding => slot[r] \notin before

\* A request that has ended leaves no pipe end open in the daemon and no child
\* that nobody waits for, on every path through the handler.
NothingLeft ==
  \A r \in Requests : pc[r] \in Ended =>
    /\ \A e \in fds["host"] : e[1] # r
    /\ child[r] \in {"none", "reaped"}

\* A result that was not truncated is all that the script wrote: the end of the
\* pipe is seen only when the script has ended, although other children may
\* have the pipe open too.
AnswerWhole ==
  \A r \in Requests :
    pc[r] \in {"stderr", "reply", "store", "wait"} /\ r \notin truncated \cup lost =>
      /\ child[r] \in {"dead", "reaped"}
      /\ got[r] = wrote[r]

\* A page is served empty from the cache only while another request generates
\* it, after the script of one had nothing to say, or after the result of one
\* was freed by an earlier holder of its context.
EmptyOnlyWhileGenerating ==
  [][\A r \in Requests : Serve(r) /\ file = "empty" =>
       \E o \in Requests \ {r} :
         \/ pc[o] \in Reading \cup {"reply", "store"}
         \/ child[o] # "none" /\ got[o] = 0
         \/ o \in lost /\ length[o] = 0]_vars

\* A script that waits for room in the pipe of a result that is read no more.
Stuffed(c) ==
  child[c] = "script" /\ toOut[c] > 0 /\ out[c] = PipeCap /\ c \in truncated

\* A child that waits for ever: on a mutex, on a pipe that its parent does not
\* read now, or on one whose end only another such script has inherited.
Jammed(c) ==
  \/ child[c] = "hung"
  \/ /\ child[c] = "script" /\ toErr[c] > 0
     /\ err[c] = PipeCap /\ pc[c] = "stdout"
  \/ /\ Stuffed(c)
     /\ \E d \in Requests \ {c} : Stuffed(d) /\ <<c, "outR">> \in fds[d]

\* All requests end, unless some child is jammed: waits on pipes that other
\* children have inherited are over when these children are.
RequestsReturn ==
  <>(\/ \A r \in Requests : pc[r] \in Ended
     \/ crashed
     \/ \E c \in Requests : Jammed(c))

\* plugin_cgi.c:205 calls a context with active_pid # 0 reserved: until it
\* is given back, what it points to is its request's.
FieldsOwned == lost = {}
=============================================================================
