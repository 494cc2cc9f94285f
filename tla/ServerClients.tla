--------------------------- MODULE ServerClients ---------------------------
(***************************************************************************)
(* The clients of one server socket of the daemon (src/src/geod.c): the    *)
(* main thread accepts a client, appends its context to the list of the    *)
(* socket and starts its thread; the thread serves and closes it; the      *)
(* housekeeper takes closed contexts out of the list and frees them.       *)
(*                                                                         *)
(* No lock protects the list, so each read and write of a link is a step.  *)
(* A link is named by where it is stored: "first" is that of the socket,   *)
(* a client's name stands for the `next` of its context.                   *)
(*                                                                         *)
(* Using a context that has been freed is undefined: the behaviour ends    *)
(* there (`corrupt`).  A freed context is not allocated again: a client    *)
(* that comes back is another client.                                      *)
(***************************************************************************)
EXTENDS Integers, FiniteSets

CONSTANTS
  Clients,
  Protocols,   \* subset of {"http", "ws", "control"}
  Limit        \* the contexts a pass of the housekeeper looks at

ASSUME ClientsAssumption ==
  /\ IsFiniteSet(Clients)
  /\ "first" \notin Clients /\ "null" \notin Clients
  /\ Protocols \subseteq {"http", "ws", "control"} /\ Protocols # {}
  /\ Limit \in Nat

Links == Clients \cup {"first"}
Targets == Clients \cup {"null"}

VARIABLES
  protocol,          \* that of the socket
  keep_running,
  down,              \* the process has ended
  corrupt,
  memory,            \* of a context: "none", "live", "freed"
  link,              \* first_ctx_data and the `next` of each context
  open,              \* contexts with socket_fd >= 0
  thread,            \* of a client
  main, csd, prev,   \* the main thread, the context it appends, its cursor
  hk, hkCsd, hkPrev, hkNext, hkLimit,
  late,              \* history: appended since the housekeeper read hkNext
  accepted, born     \* history: how many clients there were, and which was when

listVars == <<memory, link>>
mainVars == <<main, csd, prev>>
hkVars == <<hk, hkCsd, hkPrev, hkNext, hkLimit>>
bornVars == <<accepted, born>>
daemonVars == <<protocol, keep_running, down>>
vars == <<daemonVars, corrupt, listVars, open, thread, mainVars, hkVars, late, bornVars>>

MainPlaces == {"select", "walk", "append", "spawn", "detach", "join"}
HkPlaces == {"sleep", "read", "look", "unlink", "free", "gone"}
\* "stuck": the thread has ended and its context is open for ever; "unborn":
\* pthread_create has failed and thread_id was never written.
ThreadPlaces == {"none", "request", "handler", "closed", "ended", "stuck", "unborn"}

TypeOK ==
  /\ protocol \in Protocols
  /\ keep_running \in BOOLEAN /\ down \in BOOLEAN /\ corrupt \in BOOLEAN
  /\ memory \in [Clients -> {"none", "live", "freed"}]
  /\ link \in [Links -> Targets]
  /\ open \subseteq Clients
  /\ thread \in [Clients -> ThreadPlaces]
  /\ main \in MainPlaces /\ csd \in Targets /\ prev \in Links
  /\ hk \in HkPlaces /\ hkCsd \in Targets /\ hkPrev \in Links
  /\ hkNext \in Targets /\ hkLimit \in -1 .. Limit /\ late \subseteq Clients
  /\ accepted \in Nat /\ born \in [Clients -> 0 .. accepted]

Init ==
  /\ protocol \in Protocols
  /\ keep_running = TRUE /\ down = FALSE /\ corrupt = FALSE
  /\ memory = [c \in Clients |-> "none"]
  /\ link = [l \in Links |-> "null"]
  /\ open = {} /\ thread = [c \in Clients |-> "none"]
  /\ main = "select" /\ csd = "null" /\ prev = "first"
  /\ hk = "sleep" /\ hkCsd = "null" /\ hkPrev = "first"
  /\ hkNext = "null" /\ hkLimit = Limit /\ late = {}
  /\ accepted = 0 /\ born = [c \in Clients |-> 0]

Up == ~corrupt /\ ~down
Freed(l) == l \in Clients /\ memory[l] = "freed"

\* The step touches the context (or the link in it) `l`.
Touches(l) == corrupt' = Freed(l)

(***************************************************************************)
(* The main thread.                                                        *)
(***************************************************************************)

\* accept, malloc and the fields of the new context.
Accept(c) ==
  /\ Up /\ main = "select" /\ keep_running
  /\ memory[c] = "none" /\ thread[c] = "none"
  /\ memory' = [memory EXCEPT ![c] = "live"]
  /\ link' = [link EXCEPT ![c] = "null"]
  /\ open' = open \cup {c}
  /\ csd' = c /\ prev' = "first" /\ main' = "walk"
  /\ accepted' = accepted + 1 /\ born' = [born EXCEPT ![c] = accepted']
  /\ UNCHANGED <<daemonVars, corrupt, thread, hkVars, late>>

\* malloc fails: the connection is closed.
Reject(c) ==
  /\ Up /\ main = "select" /\ keep_running
  /\ memory[c] = "none" /\ thread[c] = "none"
  /\ thread' = [thread EXCEPT ![c] = "ended"]
  /\ UNCHANGED <<daemonVars, corrupt, listVars, open, mainVars, hkVars, late, bornVars>>

\* while (*prev) prev = &(*prev)->next;
Walk ==
  /\ Up /\ main = "walk"
  /\ Touches(prev)
  /\ IF link[prev] = "null"
       THEN main' = "append" /\ UNCHANGED prev
       ELSE prev' = link[prev] /\ UNCHANGED main
  /\ UNCHANGED <<daemonVars, listVars, open, thread, csd, hkVars, late, bornVars>>

\* *prev = csd
Append ==
  /\ Up /\ main = "append"
  /\ Touches(prev)
  /\ link' = [link EXCEPT ![prev] = csd]
  /\ late' = IF hk = "unlink" THEN late \cup {csd} ELSE {}
  /\ main' = "spawn"
  /\ UNCHANGED <<daemonVars, memory, open, thread, csd, prev, hkVars, bornVars>>

\* pthread_create; if it fails nobody closes the context.
Spawn ==
  /\ Up /\ main = "spawn"
  /\ Touches(csd)
  /\ \E t \in {"request", "unborn"} : thread' = [thread EXCEPT ![csd] = t]
  /\ main' = "detach"
  /\ UNCHANGED <<daemonVars, listVars, open, csd, prev, hkVars, late, bornVars>>

\* pthread_setname_np and pthread_detach read thread_id from the context: what
\* they do to a thread that was not created is undefined.
Detach ==
  /\ Up /\ main = "detach"
  /\ corrupt' \in {Freed(csd), Freed(csd) \/ thread[csd] = "unborn"}
  /\ main' = "select" /\ csd' = "null" /\ prev' = "first"
  /\ UNCHANGED <<daemonVars, listVars, open, thread, hkVars, late, bornVars>>

\* A signal, or the command "stop".
Stop ==
  /\ Up /\ keep_running /\ keep_running' = FALSE
  /\ UNCHANGED <<protocol, down, corrupt, listVars, open, thread, mainVars, hkVars, late, bornVars>>

LeaveLoop ==
  /\ Up /\ main = "select" /\ ~keep_running
  /\ main' = "join"
  /\ UNCHANGED <<daemonVars, corrupt, listVars, open, thread, csd, prev, hkVars, late, bornVars>>

\* stop_housekeeper has joined; the end of main is that of every thread.
Shutdown ==
  /\ Up /\ main = "join" /\ hk = "gone"
  /\ down' = TRUE
  /\ UNCHANGED <<protocol, keep_running, corrupt, listVars, open, thread, mainVars, hkVars, late, bornVars>>

MainStep == Walk \/ Append \/ Spawn \/ Detach \/ LeaveLoop \/ Shutdown

(***************************************************************************)
(* The thread of a client.                                                 *)
(***************************************************************************)
ThreadAt(c, place) == Up /\ thread[c] = place

\* close_ClientContext: the socket is closed and socket_fd is -1.
CloseSocket(c) ==
  /\ open' = open \ {c}
  /\ thread' = [thread EXCEPT ![c] = "closed"]

\* The request is complete, or (control) the plugin runs.
Request(c) ==
  /\ ThreadAt(c, "request")
  /\ Touches(c)
  /\ thread' = [thread EXCEPT ![c] = "handler"]
  /\ UNCHANGED <<daemonVars, listVars, open, mainVars, hkVars, late, bornVars>>

\* read failed, the peer has gone, or no request was there yet: the socket
\* does not block.
RequestFails(c) ==
  /\ ThreadAt(c, "request") /\ protocol \in {"http", "ws"}
  /\ Touches(c)
  /\ CloseSocket(c)
  /\ UNCHANGED <<daemonVars, listVars, mainVars, hkVars, late, bornVars>>

\* plugin_start has refused: http answers 503, control serves the client
\* itself, ws leaves the context as it is.
PluginRefused(c) ==
  /\ ThreadAt(c, "request") /\ protocol = "ws"
  /\ thread' = [thread EXCEPT ![c] = "stuck"]
  /\ UNCHANGED <<daemonVars, corrupt, listVars, open, mainVars, hkVars, late, bornVars>>

Finish(c) ==
  /\ ThreadAt(c, "handler")
  /\ Touches(c)
  /\ CloseSocket(c)
  /\ UNCHANGED <<daemonVars, listVars, mainVars, hkVars, late, bornVars>>

\* The rest of close_ClientContext: end_time and elapsed_time.
Account(c) ==
  /\ ThreadAt(c, "closed")
  /\ Touches(c)
  /\ thread' = [thread EXCEPT ![c] = "ended"]
  /\ UNCHANGED <<daemonVars, listVars, open, mainVars, hkVars, late, bornVars>>

ServerStep(c) == Request(c) \/ RequestFails(c) \/ PluginRefused(c) \/ Account(c)
ThreadStep(c) == ServerStep(c) \/ Finish(c)

(***************************************************************************)
(* housekeeper_server_clients, called every five seconds.                  *)
(***************************************************************************)
HkSleep ==
  /\ Up /\ hk = "sleep"
  /\ hk' = IF main = "join" THEN "gone" ELSE "read"
  /\ hkPrev' = "first" /\ hkLimit' = Limit
  /\ UNCHANGED <<daemonVars, corrupt, listVars, open, thread, mainVars, hkCsd, hkNext, late, bornVars>>

\* while (*csd_prev)
HkRead ==
  /\ Up /\ hk = "read"
  /\ hkCsd' = link[hkPrev]
  /\ hk' = IF link[hkPrev] = "null" THEN "sleep" ELSE "look"
  /\ UNCHANGED <<daemonVars, corrupt, listVars, open, thread, mainVars, hkPrev, hkNext, hkLimit, late, bornVars>>

\* Mutant: the limit is tested too early.
ExhaustedEarly(n) == n <= 0

Exhausted(n) == n < 0

\* The context is open: on to the next one, if the limit allows it.
HkAlive ==
  /\ Up /\ hk = "look" /\ hkCsd \in open
  /\ hkLimit' = hkLimit - 1
  /\ IF Exhausted(hkLimit')
       THEN hk' = "sleep" /\ UNCHANGED hkPrev
       ELSE hk' = "read" /\ hkPrev' = hkCsd
  /\ hkCsd' = "null"
  /\ UNCHANGED <<daemonVars, corrupt, listVars, open, thread, mainVars, hkNext, late, bornVars>>

\* Mutant: the context behind it is forgotten.
NextOfNone(c) == "null"

NextOf(c) == link[c]

\* The context is closed: csd->next is read, then written to *csd_prev.
HkClosed ==
  /\ Up /\ hk = "look" /\ hkCsd \notin open
  /\ hkNext' = NextOf(hkCsd) /\ late' = {}
  /\ hk' = "unlink"
  /\ UNCHANGED <<daemonVars, corrupt, listVars, open, thread, mainVars, hkCsd, hkPrev, hkLimit, bornVars>>

\* Mutant: the context is freed where it stands in the list.
DecoupledNot == link

Decoupled == [link EXCEPT ![hkPrev] = hkNext]

HkUnlink ==
  /\ Up /\ hk = "unlink"
  /\ link' = Decoupled
  /\ hkNext' = "null" /\ late' = {} /\ hk' = "free"
  /\ UNCHANGED <<daemonVars, corrupt, memory, open, thread, mainVars, hkCsd, hkPrev, hkLimit, bornVars>>

HkFree ==
  /\ Up /\ hk = "free"
  /\ memory' = [memory EXCEPT ![hkCsd] = "freed"]
  /\ hkCsd' = "null" /\ hk' = "read"
  /\ UNCHANGED <<daemonVars, corrupt, link, open, thread, mainVars, hkPrev, hkNext, hkLimit, late, bornVars>>

HkStep == HkSleep \/ HkRead \/ HkAlive \/ HkClosed \/ HkUnlink \/ HkFree

Next ==
  \/ \E c \in Clients : Accept(c) \/ Reject(c) \/ ThreadStep(c)
  \/ MainStep \/ Stop
  \/ HkStep

Spec == Init /\ [][Next]_vars

\* Threads run and the housekeeper wakes up; a client may stay for ever.
FairSpec ==
  /\ Spec /\ WF_vars(MainStep) /\ WF_vars(HkStep)
  /\ \A c \in Clients : WF_vars(ServerStep(c))

(***************************************************************************)
(* Properties.                                                             *)
(***************************************************************************)

\* Contexts (and the socket) whose links count: not the one that is already
\* out of the list and about to be freed.
Linking == {"first"} \cup {c \in Clients : memory[c] = "live" /\ ~(hk = "free" /\ c = hkCsd)}

\* Whatever the main thread and the housekeeper do to the list at the same
\* time, a link leads to a context that has not been freed and to a client that
\* came later (so the list ends), a context is linked once, and a client that is
\* being served has its context.
MemorySound ==
  /\ \A l \in Linking : link[l] # "null" => memory[link[l]] = "live"
  /\ \A c \in Linking \ {"first"} : link[c] # "null" => born[c] < born[link[c]]
  /\ \A l, m \in Linking : link[l] = link[m] /\ l # m => link[l] = "null"
  /\ \A c \in Clients : thread[c] \in {"request", "handler"} => memory[c] = "live"

\* One step further from L along the links of `next`.
Further(next, L) == {"first"} \cup {next[l] : l \in L \ {"null"}}

\* What can be reached from the socket: a list has at most as many steps as there
\* are contexts.
Reachable(next) ==
  LET reach[n \in 0 .. Cardinality(Clients)] ==
        IF n = 0 THEN {"first"} ELSE Further(next, reach[n - 1])
  IN  reach[Cardinality(Clients)] \ {"first", "null"}

Listed == Reachable(link)

\* A context leaves the list when the housekeeper takes it out, or behind one
\* that it takes out if it was appended since the housekeeper looked.  It gets
\* there by its own Append only: none that has left comes back.
OthersStayListed ==
  [][/\ \A c \in Listed \ Listed' : HkUnlink /\ c \in {hkCsd} \cup late
     /\ \A c \in Listed' \ Listed : Append /\ c = csd]_vars

\* The context of a closed client is taken out of the list, as long as no more
\* than Limit others are open.
ClosedIsUnlisted ==
  \A c \in Clients :
    (thread[c] \in {"closed", "ended"} /\ c \in Listed)
      ~> (c \notin Listed \/ Cardinality(open) > Limit \/ corrupt \/ ~keep_running)

=============================================================================
