# geo1game: TLA+ models, checks and proofs

This directory models geo1game: the daemon `geod` (`src/src`, in C) and its plugins, the
scripts that start and watch it, and the page's connection to it (`src/www`). Paths below are relative to the repository; line
numbers are those of the modelled commit.

## 1. The system

`geod` is one process of many detached threads. The main thread accepts
connections on three ports (HTTP, control, WebSocket) and starts a thread per
connection; each connection thread uses one or more plugins (shared objects
loaded on demand); a housekeeper thread unloads idle plugins, rescans the plugin
directory and frees finished clients; some plugins run threads of their own (the
MySQL worker). Browsers talk to it by HTTP (maps, textures, CGI pages) and by
WebSocket (users, chat, ships).

| component | state | operations | interacts with |
|---|---|---|---|
| plugin host (`pluginhst.c`) | `g_Plugins[]`: state, handle, used_count, last_used, own threads; the housekeeper lock; `release_plugins`, `reload_plugins` | `plugin_start`, `plugin_stop`, `plugin_load`, `plugin_unload`, scan, housekeeper pass | every connection thread, signals, CLI |
| plugin threads (`pluginhst.c`) | `own_threads[]`, a condition and a mutex each | create, enter, exit, wait for own threads, cancel | the unload of the plugin, the MySQL worker |
| daemon (`geod.c`) | sockets, client list, pid file, `keep_running` | accept, serve a client, close a context, housekeep the clients, write and remove the pid file | plugin host, HTTP, init script |
| SQL request (`data_sql.c`) | one shared request slot: ready, query, result | `data_sql_execute`: prepare, push, wait, time out; the callback | MySQL plugin |
| MySQL worker (`plugin_mysql.c`) | ring queue of 16, running flags | push, pop, process, reconnect, stop | SQL request, plugin threads |
| geo data (`data_geo.c`, `data.c`, `data_table.c`, `hashmap.c`, `json_indexlist.c`) | users, two indexes | load, store, add, find, set user | WebSocket application, SQL request |
| WebSocket protocol (`plugin_ws/ws.c`) | buffer, offset, parser state, frame header | handshake, step, grow, shrink, send | client sockets |
| WebSocket application (`plugin_ws/plugin_ws.c`) | sessions, users, chat | HELLO, CHAT, POS, broadcast | geo data |
| HTTP (`http.c`, `handlers.c`) | the route table | register, search, parse | plugin host |
| commands (`cmd.c`, `plugin_control.c`) | the command table, the terminal line | register, search, execute, edit | plugin host |
| CGI (`plugin_cgi.c`) | a pool of 32 request contexts, the page cache | allocate, fork, pipe, cache, reply | files, processes |
| images (`plugin_texture`, `plugin_localmap`, `plugin_region`, `plugin_map`, `plugin_image`, `cache.c`) | cached files, the mapgen library, a PNG lock | look up, generate, rename, send | image and map plugin brackets |
| locks (`sync.c`) | mutex, condition | lock with time-out, wait, signal | all of the above |
| browser communication (`www/j/CommunicationController.js`, `ChatClient.js`) | connection state, back-off, two timers | connect, ping, reconnect, close | WebSocket |
| positions on the page (`www/globe2.php`) | the list of users | fetch, merge messages | browser communication, HTTP |
| pid file and scripts (`geod.c`, `etc/init.d/geod`, `script/watchdog.sh`) | the pid file, processes, ports | start, kill, restart, remove | daemon |

### What is hard

* **Interleaving.** The housekeeper reads and writes plugin slots without the
  lock that `plugin_start` takes; the scan loads slots while requests find them.
  The one SQL request slot is shared by every thread. The client list is appended
  by the main thread and unlinked by the housekeeper.
* **Time-outs.** Both sides of the plugin bracket give up on the lock after 20 ms;
  an SQL request gives up after a second while the worker may still answer.
* **Partial failure.** A plugin load has four failing steps, all under the lock; a
  CGI request can fail after it took its context.
* **Protocols of several calls.** Start/use/stop brackets with call sites that drop
  or invert the result; the life of a WebSocket frame buffer; reconnecting clients.
* **Shared files.** Two requests generate the same picture; two daemons own one
  pid file.

### What makes each part correct

* Plugin host: a plugin in use stays loaded; the count is exact; nobody waits for
  ever; unused plugins go away.
* SQL: an answer belongs to its question; a queue never loses or duplicates what it
  accepted; a request always returns.
* Daemon: one daemon per pid file; a client is freed once and not used after.
* WebSocket: the buffer offsets stay in the buffer; every frame is answered or the
  connection ends; sessions and users agree.
* Caches: a file that is served is complete; a slot that is taken is given back.
* Page: one connection, a back-off that follows the failures, in the end the true
  positions.

## 2. Plan

The modules, in the order in which they were written (sections 3 to 11):

| | modules | proofs |
|---|---|---|
| 1 | `PluginHost`: the bracket, the housekeeper, the scan | `PluginHostProofs` |
| 2 | `SqlRequest` over `MysqlQueue`, which implements the abstract `RequestFifo` | `SqlRequestProofs` |
| 3 | `OwnThreads`: create, register, sign on and off, the shutdown loop | `LifeCycleProofs` |
| 4 | `WsSession`: the frame parser and its buffer | `WsSessionProofs` |
| 5 | `CgiRequest`: the pool, the child, the pipes, the cached page | `CgiRequestProofs` |
| 6 | `ServerClients`: accept, serve, close, housekeep | `ServerClientsProofs` |
| 7 | `UserMarkers` over `Communication`: the page's connection and what it carries | `CommunicationProofs` |
| 8 | `FileCache`: the pictures and their temporary files | `FileCacheProofs` |
| 9 | `PidFile`: start, `atexit`, kill, watchdog, init script | `LifeCycleProofs` |

Composition: `SqlRequest` EXTENDS `MysqlQueue` (the ring's operations are parts of the
callers' and the worker's steps), and `MysqlQueue` instantiates `RequestFifo` with the
ring's contents as the refinement mapping. `UserMarkers` EXTENDS `Communication`: its
steps are those of the connection with the messages and fetches beside them
(`PageStepsConnect` proves that they are). `PluginHost` stands for the bracket every
other part of the daemon runs in, so the others assume a loaded plugin.

What is left to do, in this order: abstract specifications of further parts, and proofs that
the modules implement them; the route table (`http.c`) with the reload of plugins and the shutdown, if the code gets
a lock and a limit that a property could be about.

**Runs and properties.** Each module has one passing run. Its properties are those that
a wrong order of steps would break; the type invariants and a few discipline
invariants (`LockDiscipline`, `UnloadHasCode`, `RequestLockHeld`, `JoinsUnlocked`,
`GrowsOnce`) are in no run, because they are proved for every size. Three runs show
where the code does something else than its comments and tests say.

## 3. The plugin host

### Module `PluginHost`

State: `g_Plugins[i]` is spread over functions of the slot (`state`, `handle`,
`named`, `used_count`, `idle` for "last_used is older than
`PLUGIN_IDLE_TIMEOUT`", `tried_to_shutdown`); `lock` is the housekeeper lock
("none" until the housekeeper thread has created it); `hk`, `hki` the
housekeeper's place and slot; `pc`, `plug`, `kind` the place, plugin and call site
of each user. A user is one start/use/stop bracket; a thread that comes back is
another user.

Call sites differ in what they do with the result of `plugin_start`, and the code
has four kinds: *guarded* (HTTP, control, SQL, broadcast), *ws* (guarded, but an
early return without `plugin_stop`), *image* (result dropped), *cli* (test
inverted). `Kinds` says which of them a configuration has.

Each unlocked read and each locked region that the housekeeper can observe in
between is an action: the load is three (open, resolve, init), since the scan runs
it without the lock and the housekeeper looks at the slots meanwhile; the unload
is three (mark, close, mark unloaded). Own threads are joined inside `HkClose`.
A refused lock is enabled whenever the lock is taken or not created yet.

History variables: `holders` (users between a counted start and its stop),
`leaked` (counts no stop takes back), `unearned` (stops no start paid for),
`torn` (a start was counted on a slot without code or being closed).

### Properties

* `LockDiscipline` (proved): the lock is held exactly inside the two calls, by its caller.
* `RefCountExact`: `used_count = holders + leaked - unearned`.
* `LoadedWhileUsed`: a used plugin is loaded and RUNNING, unless torn or unearned.
* `OneLoaderPerSlot`: no two loads of one slot together.
* `UnloadHasCode` (proved): the branch the code asks about ("un-reachable code?") is
  unreachable unless a stop was unearned.
* `CallsReturn`, `IdlePluginUnloaded`: liveness.

### Runs

| run | configuration | shows |
|---|---|---|
| `plugin_host` | 2 users of every kind, 1 slot that the scan may also add | `RefCountExact`, `LoadedWhileUsed`, `OneLoaderPerSlot` and both liveness properties |
| `host_unload` | guarded users only | `UnloadOnlyUnused` fails: a start is counted between the housekeeper's look and its close (documented otherwise at `pluginhst.c:388`) |

The inverted test (`plugin_control.c:576`) and the dropped result (`geod.c:331`) make
users run the functions of a plugin they have not started, although `plugin.h:338` says
that these are "only available, when a plugin is already started"; the model has these
users, and `RefCountExact` says exactly what they do to the count.

Bounds: two users are enough for every conflict of the lock, since one holds it and
one waits, races or is refused, and the housekeeper is a third actor; one slot,
because the slots share only the lock and the housekeeper's index. The
invariants were also explored with three users and with two slots (8 to 10
million states each), and the theorems need no bound. `StandbyLimit` is 0 where
the code has 3: only the order "STANDBY before TERMINATE" depends on it.

Fairness: weak fairness per user and for the housekeeper (the scheduler runs every
thread; handlers of a plugin return) and for time. None on signals, on new calls,
or on a failure happening or not. Users who got the plugin may always come to
`plugin_stop`; the early return of `ws` is not fair.

### Proofs (`PluginHostProofs`)

For all `Users` (finite), `MaxPlugin`, `Kinds`, `StandbyLimit` under
`HostAssumption`: `TypeCorrect`, `LockDisciplined`, `CountsExactly`,
`LoadsExclude`, `UseKeepsLoaded`, `UnloadNeverEmpty`. They follow from one
inductive invariant, `IInv`:

* `Locking` (the lock follows `pc`; before the housekeeper has booted there is none),
* `HoldersUse` (holders are users at their plugin), which makes the count
  arithmetic of `RefCountExact` inductive,
* `NamesFirst` (a caller found its plugin by name; the slot the scan opens has none
  yet), hence the scan's slot has no users,
* `LoaderState` and `HkApart` (a loading user sees the state it has set; the
  housekeeper neither scans nor closes a slot being loaded),
* `SoundSlots`: for slots that are neither torn nor hit by an unearned stop, users
  keep RUNNING, so do the user about to be counted and the one that just stopped, and
  a slot being closed or scanned has none of them,
* `UnloadFinds`: between the look and the unload the library can only go away
  together with the plugin being DISABLED.

`LoadedWhileUsed` is not inductive alone: `StartCount` needs that RUNNING, set in
the step before, still stands, and `HkUnload` needs that INITIALIZED excludes a user
who has just decremented the count. Each lemma `Step...` has a step per action.

Only model-checked: the two liveness properties.

## 4. SQL requests

### Modules `MysqlQueue`, `RequestFifo`, `SqlRequest`

`MysqlQueue` is the ring of `plugin_mysql.c`: `queue`, `queue_head`, `queue_size`,
with `QueuePush` and `QueuePop` as single steps, because both sides change it under
`g_queue_control->mutex` only. `RequestFifo` is what it promises, a bounded sequence;
`Contents`, the ring read from its head, is the refinement mapping.

`SqlRequest` adds `data_sql_execute` and the worker. A caller is one call, with its place
`pc`, the row count `rows` of the `DbQuery` on its stack and its `result`. All callers
share `ready`, `lock` and the condition, of which `woken` holds the waiters that were
signalled. The worker has a place, the request in its `hand`, and `control` for
"`g_queue_control` is set". The order of the code is kept: the flag is cleared
*before* the lock is taken; the push is inside the lock; the wait gives the lock away;
a time-out leaves the loop with the lock and gives it back. `PushDropped` is enabled
whenever a push happens: a busy queue mutex, a full ring and a worker that is not up yet
all drop the request without a word.

History variables: `accepted`, `answered`, `byReady` (callers that left the wait
because of the flag) and `alone` (the last caller that found slot, ring and worker
unused when it prepared; it is cleared as soon as another one prepares).

The plugin stays loaded; every query has a row. Not in the model: what
`mysql_query` does, and the registration of the instance.

### Properties and runs

| run | configuration | shows |
|---|---|---|
| `sql_request` | 3 callers, ring of 2 | `OnePlace`, `AloneIsAnswered`, the refinement `QueueIsFifo`, liveness `CallsReturn` and `AcceptedServed` |
| `sql_answer` | the same | `ReadyMeansAnswered` fails: two calls together, or one after a call that timed out, and a caller is told of the other one's answer and returns 0 rows |

Three callers and a ring of two are the least with which the ring is full while one
more push comes, wraps around, and holds a request of a caller that has gone. The
theorems need no bound.

Fairness: every caller and the worker run. Time-outs are steps like any other, so
`CallsReturn` holds also when a query fails and nobody is told. `AcceptedServed` leaves out
the worker that could not open its connection: it ends, the queue stays open.

### Proofs (`SqlRequestProofs`)

For every finite or infinite set of requests and every capacity: `RingIsFifo` (the
arithmetic of the wrapping index in `SlotAtWraps` and `SlotAtInjective`, then
`PushAppends` and `PopTails`), `SqlQueueIsFifo` (every step of the whole system is a
step of the FIFO or a stutter), and from the invariant `SInv` the type, `SqlLockHeld`,
`SqlOnePlace` and `SqlAloneIsAnswered`. `SInv` adds to the properties: requests that
have been accepted belong to callers past their push (`Past`), hence a push is
never a second one; and for the caller that is alone, that nobody else can be at a place
from which the flag is set (`AloneInv`). Only model-checked: the two liveness
properties.

## 5. Threads of a plugin

### Module `OwnThreads`

The host's side (`plugin_create_ownthread`, `plugin_wait_for_ownthreads`, the close) and
the worker's (`mysql_thread_main` with enter and exit) around one `control.mutex`. The host
part runs in the loading thread, later in the housekeeper, never in both.

Two oddities of the code are in the model as they are. `plugin_wait_for_ownthreads`
reads the result of `sync_mutex_lock` the wrong way round: `LockHad` keeps the mutex
and counts an error, `LockRefused` unlocks a mutex that may be another thread's. And
the thread is created before it is registered: until then the worker finds no mutex,
or (`stale`) the freed one of the load before, which it may or may not get.

### Properties and runs

| run | configuration | shows |
|---|---|---|
| `own_threads` | `MaxRetry` = 5, any number of loads | `SyncOutlivesWorker`, `NeverCancelled`, `UnloadEnds` |

Not a property, because nothing in the repository denies it: a worker that has signed
off (`Leave`) is not joined, so `Close` may unmap the library while the worker is still
in its last lines; the model has these states (`~mapped` with the worker at "tail").

So the inverted test costs a try and does no harm: the lock kept in one try is
refused and given back in the next, before the join. `RetryAssumption` asks for four
tries, which is exactly what `NeverCancelled` needs; the code has five. `HostPCs` has
the place "cancel" only to say that it is not reached.

`UnloadEnds` speaks of workers that have come up: one that has not sets
`keep_running` after the host has cleared it, and is joined for ever. Fairness: both
threads run; loads and unloads are never required.

### Proofs (`LifeCycleProofs`, first part)

For every `MaxRetry` from four on: `ThreadsTypeCorrect`, `SyncOutlives`,
`HostJoinsUnlocked`, `ThreadNeverCancelled`, from `OInv`: which tries can have been used
up with the mutex in whose hand (`Tries`), and that a thread that is not running is
past its last use of the mutex (`SignedOff`). Only model-checked: `UnloadEnds`.

## 6. WebSocket sessions

### Module `WsSession`

`ws_state_step` with the buffer helpers it calls, one action per state and outcome. The
peer's stream is `wire`, the frames not handled yet, of which `frame_offset` bytes are
in the buffer and `avail` more will come out of the socket, in pieces of any size. A
frame is its opcode, FIN bit and sizes; payload bytes, the mask's bits and the text of
the echo are left out. `hdr` holds what `ws_parse_header` leaves in the session, in
its order: the first two bytes set the opcode, the lengths follow when the extended
length has come.

* The `read` asks for `BUF_SIZE - frame_offset` bytes, also of a grown buffer (`Room`),
  and a read of nothing is the end of the stream (`ReadEnd`). A frame longer than `BUF_SIZE`
  fills the quantum: the session then ends as if the peer had closed it, although
  `ws.c:98` speaks of a limit of 32 Mbyte. `FramesHandled` is therefore stated for frames that fit.
* The 16-bit length is put together from signed chars (`ws.c:513`, `frame` is a `char *`, and the
  build is for x86): a low byte of 128 or more is extended by its sign over the high byte, and a
  payload of 200 bytes is read as 65480. `LengthRead` is that conversion and `FrameLen` the
  length the parser waits for; the frame that the peer sent stays in `wire` with its own. Such a frame is
  never complete, although it fits: the session waits until the quantum is full and ends like one
  with a frame that is too long. The 64-bit length is read byte by byte as unsigned. `FramesHandled`
  is stated for frames whose length is read as it was sent (`Fits`), and fails without that condition.
* The close branch of the code waits for opcode 3, which `ws_parse_header` refuses as reserved;
  the protocol's 8 falls to the branch of unsupported frames (`InspectControl`), so a
  close frame does not end the session (`test_ws.c:142` expects it to).
* After ten empty frames in a grown buffer `realloc` gets the size 0. The session goes on
  with a buffer that is freed: the state `FREED` ends the model's session there.
* `WS_STATE_IDLE` has no action, since `NeverIdle` shows that it is not entered. In the
  code this state alone answers pings and shrinks the buffer of a quiet session.

### Properties and runs

| run | configuration | shows |
|---|---|---|
| `ws_session` | 13 frames, up to 2 under way, `BUF_SIZE` 6, margin 2, threshold 3, limit 12, `BYTE` 4, extended lengths of 1 and 2 bytes | `BufferHolds`, `PayloadReceived`, `NoByteLost`, `NeverIdle`, liveness `FramesHandled` |

Sizes are scaled: what matters is which of them exceed which. The frames are of every
opcode, with and without mask and extended length; one just fits the quantum, one is
longer than it, one is beyond the absolute limit; of two with the shorter extended length one is
read as it is and one misread. The assumption `BYTE^2 - BYTE >= BUF_SIZE` (65280 and 8192 in the
code) says that a misread length never fits. Two frames under way are enough for
a read that ends inside the second one, and any number of frames follow each other.

Fairness: the session's thread runs, and the network delivers what was sent (`Progress`). It does
not make the peer send or close, nor a read fail.

### Proofs (`WsSessionProofs`)

For every buffer size, margin, threshold and set of frames: `SessionTypeCorrect`,
`BufferNeverOverrun`, `BufferGrowsOnce`, `PayloadComplete`, `IdleUnreachable`, from
`WsInv`. The conjuncts need each other: a read fills at most one quantum, so the buffer has
one quantum or two (`Capacity`); a whole frame is then at most one quantum long, so is the longest payload
seen (`Recent`) and the size to shrink to is one quantum or none (`TargetIs`); the
parser runs on a buffer with at least one byte (`Inspected`), which is why it never goes
idle. A misread length is beyond every buffer (`ReadOrTooLong`), so a frame that is decoded is one
whose length was read as it is.

`StreamComplete` states `NoByteLost`. `Bytes` is a recursive function over the frames under
way, so the sum is proved in lemmas of its own: every frame that is sent adds its size at the
end (`BytesAppend`), the first one takes its size with it (`BytesTail`). A handled frame
takes away what `hdr` says, hence `HeaderIsFirst`: from `MASK_AND_DECODE` on `hdr` holds the sizes
of the first frame on the wire. Only model-checked: `FramesHandled`.

## 7. CGI requests

### Module `CgiRequest`

`handle_cgi_testphp` from the allocation of a context to its release, and its child. All
requests ask for one page, hence for one cache file, which is "absent", "empty" or
"filled"; its age is `recent`. Pipes are counters of bytes; `fds` says which pipe ends
the daemon and each child have open, since a fork copies them all, also those of the
other requests, and exec keeps them: a pipe is at its end when *nobody* holds its write
end. `owner` says whose strings and buffer a context points to; a request whose memory
was freed by another one is in `lost`, and from then on the daemon may crash at any
moment. `geod.c`'s SIGCHLD handler waits for any child in whichever thread it interrupts
(`SigChild`), so a child can be reaped before its request waits for it. `before` are contexts
that earlier requests have leaked; `leaving` those that earlier requests have given back and are about
to free (`FreeEarlier`), which rob the next holder just as a modelled request does.

`cgi_data_free` sets `result_length` to 0 along with the pointer, so `length` is a variable beside
`got`, the handler's local offset: a robbed request that has nothing to read any more has no buffer
when it looks for the headers (`RespondNothing`: `strstr` gets NULL, and the daemon is gone); one that reads
on gets a new buffer from `realloc`, whose content before the offset is whatever it is; and one that is
robbed between its response and its `file_write` stores nothing (`Kept`), so the page stays
empty and recent although its script has spoken.

Not split: `cgi_data_allocate` and `cgi_data_release` are single steps under the pool's
mutex. A fork while another thread is in one of them copies the mutex locked
(`forked_locked`); it matters when execve fails, because the child then calls
`cgi_data_release`. `file_write` and `file_close` are one step (`Store`):
a result beyond one stdio buffer reaches the file in pieces. `InitContext` is one step, too; in
the code it frees the strings one by one, and with an earlier holder at its `cgi_data_free` a
string may be freed twice. The failing child's
`exit(1)` also runs the daemon's `atexit` function; what it does to the pid file is in `PidFile`
(`CannotExecute`).

### Properties and runs

| run | configuration | shows |
|---|---|---|
| `cgi` | 2 requests, pool of 2, pipes of one byte, scripts of 0, 1 or 4 bytes of output and 0 or 2 of errors, a result of one; one context may be leaked, one still to be freed | `SlotsAccounted`, `NothingLeft`, `AnswerWhole`, `EmptyOnlyWhileGenerating`, liveness `RequestsReturn` |
| `cgi_owned` | the same | `FieldsOwned` fails: the pool is unlocked before the context's memory is freed, and the next request is robbed of it |

The sizes are scaled: a script can be silent, fit, write more than a pipe takes, and so much more than the
result may grow to that it waits with its pipe full after the reading has ended. Two requests are
the least that inherit each other's pipes; full pools come from `before`. With `leaving` one request
can be robbed while the other one is served the page, for which a third would be needed otherwise:
`EmptyOnlyWhileGenerating` fails without its third reason, the result that was freed.

`RequestsReturn` says that the requests return unless some child is jammed, in one of three
ways: it fills stderr while the parent still reads stdout; two scripts whose output was too long
hold the read ends of each other's pipes, so that none gets its SIGPIPE; or it waits for the copied
mutex. It fails without any of the three. Fairness: threads and processes run; a script does not sleep
for ever. The clock need not run, and nothing makes a robbed request crash (`Crash` has no fairness).

### Proofs (`CgiRequestProofs`)

For every set of requests, pool, pipe and result size: `CgiTypeCorrect`,
`PoolAccounted`, `HandlerCleansUp`, `ResultIsWhole`, `EmptyPageHasReason`, from `CInv`: a
request's place says which pipe ends the daemon has (`HostEnds`) and what its child is
(`ChildPlaces`); a living child can write (`WriterHolds`), so the end of the pipe means that
it is dead and its bytes are in the result (`Flow`, `Drained`); and whoever emptied the
page is still filling it, had nothing to write, or has lost its result (`EmptyBecause`), since only the free
of an earlier holder parts `length` from `got` (`Lengths`). Only model-checked:
`RequestsReturn`.

## 8. The clients of the daemon

### Module `ServerClients`

The list of contexts of one server socket (`geod.c`), and its three kinds of actors: the
main thread appends (`Accept`, `Walk`, `Append`) and starts a thread (`Spawn`, `Detach`);
the client's thread serves and closes (`Request` to `Account`); the housekeeper takes
closed contexts out and frees them (`HkRead` to `HkFree`). There is no lock, so a read or
write of a link is a step; `close_ClientContext` is two, since the housekeeper acts on
`socket_fd` and the end time is written after it. `link` is keyed by where a link is
stored ("first" or a client), `memory` says whether a context is allocated.

The sockets do not block, so a request that has not arrived when the thread first reads
is a failed read, closed at once (`RequestFails`). The three protocols differ in two
guards: control never fails that way, and ws, refused by `plugin_start`, leaves its
context open (`PluginRefused`). Using freed memory or a thread that was never created
ends the behaviour (`corrupt`).

Abstracted: one socket (the sockets share nothing but the two threads that walk them),
the statistics, what a handler does. A freed context does not come back at the same address. The
ws plugin is taken to be installed; without it the first ws client is a null pointer. SIGPIPE
(a `send` to a client that has gone, without MSG_NOSIGNAL) would end the whole daemon, and is left out.
History variables: `late` (appended since the housekeeper read the link it is about to
write), `accepted` and `born` (the order in which clients came).

### Properties and runs

| run | configuration | shows |
|---|---|---|
| `server_clients` | 3 clients, http and ws, `Limit` 1 | `MemorySound`: no link to freed memory, none twice, the list ends, nothing freed in use; `OthersStayListed`: an unlink loses nobody who was there before, and nobody comes back; liveness `ClosedIsUnlisted` |

Three clients give a list with a first, a middle and a last context, and a limit of
one (300 in the code) is passed by two that are open. When the main thread's cursor stands on
a context that is just being taken out, the new client is appended to nothing: it is
served, but is in no statistics and is never freed (`geod.c:881` says "this is the last
one now"). `OthersStayListed` leaves out this one client (`late`) and says that no other is lost. Two ways to `corrupt` are in the
model and denied by no property, since nothing in the repository speaks of them: the
end time written to a context the housekeeper has freed (`Account`), and the cursor of
`Walk` or `Append` on one.

Fairness: the main thread, the housekeeper and each client's thread run; a handler may
take for ever (`Finish` is not fair), and nobody has to connect. Deadlock is not checked:
a daemon that has stopped has no step.

### Proofs (`ServerClientsProofs`)

For any number of clients and any limit: `ClientsTypeCorrect` and `MemoryIsSound`, from
`ListInv`. The main thread's context is linked nowhere before `Append`, and the link it
overwrites is empty (`MainHolds`): only the main thread writes to empty links. The
housekeeper's cursor is a link that counts, and what it is about to write is the next
context or nothing (`HkHolds`). Links lead to later clients (`ContextsHold`, `BornOnce`),
which is why the context being unlinked does not lead back to itself, and each context is
linked once (`LinkedOnce`), which is why nothing leads to it when it is freed.

`UnlinkKeepsOthers` states `OthersStayListed` and speaks of what can be reached from the socket.
`Reachable` is what as many steps along the links as there are clients can reach, so the clients
must be finite (`ClientsAssumption`; each is one connection of a run). It is proved to be the least
set (`ReachableLeast`) that goes on along the links (`ReachableClosed`: each step that is not the
last adds a context, so there are enough steps). What an unlink loses then follows from what the
housekeeper holds (`LateHold`): the successor it has read, or nothing while all behind the
context is `late`. Only model-checked: `ClosedIsUnlisted`.

## 9. The page and its connection

### Modules `Communication`, `UserMarkers`

`Communication` is `CommunicationController.js`. The page runs one callback at a time, so a
callback is a step: the four events of a socket, the transition timer, the ping timer of
each socket, a call of `send` and of `close()`. `transitionTo` is split into its targets,
each of which stops the pending transition first (`Settle`). `readyState` is the browser's
view of each socket; a socket that has had its close event is as good as one not yet
created, so a few `Sockets` stand for any number of reconnects. `reconnectDelay` counts how
often it has grown: the multiplication by 1.5 is left out, the cap is `DelayCap`.
`pingTimers` are the timers that run, `pingTimeout` is the field, which keeps naming a timer
that has fired. The status 'reconnecting' beyond the last attempt goes on to 'error_pause' in the same
call.

`UserMarkers` adds the list of users of `globe2.php`: an interval fetches it as a whole and
replaces what is there, messages change single entries. Fetches may overlap and be answered out
of order or not at all; messages of a connection come in order and are lost with it. One user
stands for all, his position is the number of his moves.

Known behaviour that is in the model and no property denies: `close()` during a wait only sets
a flag, and the controller connects once more (nothing in the repository calls `close()`);
when the attempts are used up, the count starts again after the pause.

### Properties and run

| run | configuration | shows |
|---|---|---|
| `user_markers` | 2 sockets, 2 attempts, cap at the third step, 2 fetches, 2 moves, 2 messages under way | `OneConnection`, `DelayFollowsAttempts`, `IdleMeansSilent`, `StatusMatchesSocket`, `HelloFirst`, liveness `Reconnects` and `MarkersConverge` |

Two sockets are the least for which a timer, or an event, of an earlier connection could
meet a later one; by `OneConnection` a third would never be alive. Two fetches are the
least that can be answered in the wrong order. The code's numbers are 5 attempts and a
delay that starts at 2 s: after five steps it is 15 s, below its cap of 30 s, which is what
`CommunicationAssumption` asks (`DelayCap` above the attempts) and `DelayFollowsAttempts`
concludes.

Fairness: the browser runs timers that are due and reports the end of each attempt to connect and
of each close; it hands out messages that have arrived. The server need not come up, send or
stay: `Reconnects` and `MarkersConverge` are about a server that stays up from some moment on,
and `MarkersConverge` also needs that a fetch that is repeated for ever is answered at last (strong
fairness of the answer). Deadlock is not checked: a page that has been closed has nothing to do.

### Proofs (`CommunicationProofs`)

For every set of sockets, limit of attempts and cap above it, for the connection alone and under
`UserMarkers`: the five invariants of the run. `CommInv` adds to them that a living socket
is the controller's own (`OwnConnection`), how the count and the delay move together, also through
the pause (`Backoff`), and that a socket that is not open yet, or has its timer, has seen no ping
(`UnpingedTimers`), without which `IdleMeansSilent` is not inductive. Only model-checked: the two
liveness properties.

## 10. Pictures and other cached answers

### Module `FileCache`

One cached answer and the requests for it. A picture is written to a temporary file and renamed
(`plugin_image.c`), the json of a map in place (`plugin_region.c`). Files are inodes: a name
can move or go while somebody has the inode open. A picture is `Size` blocks; a writer puts
each at its place, wherever others have put theirs, and emptying the file is what `fopen` does.

The image plugin has a mutex around libpng, which keeps nobody apart: the file is opened before
it is taken, a generation that waits longer than 20 s goes on without it, it is never given
back after a failed `png_create_write_struct`, and whoever finishes frees it. The model has
it because of what it delays and lets through.

Failures: no map plugin, no image plugin or no temporary file (whatever has the name is sent, or
404), no memory for libpng; crashes at any moment; a restart, which cleans the cache
directory or not (`cleanup_on_start`); and a second start of the daemon, which is going to be refused
because of the pid file but cleans first (`geod.c:947` before `:950`). Left out: a full disk (libpng
ends the process, which is a crash), an `fopen` of the json that fails (`plugin_region.c:85` does
not look), the 404 that `plugin_localmap.c` sends behind its file.

### Properties and run

| run | configuration | shows |
|---|---|---|
| `file_cache` | 3 requests, 2 blocks, picture and json, with and without cleaning | `PartialHasWriter`, `SoloIsWhole`, `SomethingToSend` |

`cache.c:103` knows of the collision ("TODO"): the invariants say what it can do and what not. A
request can be sent a file that is not whole, since the temporary file one request renames is the
file another has just emptied. But it is being written at that moment (`PartialHasWriter`), a picture that
was never generated twice at once is always whole (`SoloIsWhole`), and losing the race for the rename
never means 404 (`SomethingToSend`). The history variables say which cases are left out: `spoiled`
(the last writer never came to its end), `overlapped`, `robbed` (a second start cleaned the names away).

Three requests give two writers and a reader, or a third writer who reuses the temporary file
of a rename that another writer still writes to. Two blocks make "half written" a state. No liveness
property: every request ends by itself, waiting 20 s at most.

### Proofs (`FileCacheProofs`)

For every number of requests and blocks: `CacheTypeCorrect`, `PartialOnlyWhileWritten`,
`LonePictureWhole`, `AnswerRemains`. A free inode always exists because each request has one file
at most (`FreeInode`, by cardinality). `FInv` says of each inode that has a name or is open that it is
whole, or spoiled, or has a writer whose blocks so far are all there (`WrittenOrUnder`): the last to
empty a file writes all of it, and others only add blocks. Alone (`Solo`), a writer has the
temporary file, nobody can read it, and it is written exactly as far as its writer is.

## 11. The pid file and the scripts

### Module `PidFile`

The processes of `geod` from `main` to `exit`, by their numbers, which may be used again, also by a
foreign program; the pid file as a name and who has it open; the init script and the watchdog
with their tests in between; starts by hand or by systemd (`Manual`), crashes, hangs and slow
answers at any moment, `MaxFaults` of them together. The CGI plugin's children are processes, too
(`Forks`, counted with the faults): copies of the daemon with its ports and its `atexit` function until
`execve` (`Executes`), then a foreign program that keeps the ports, as no socket is opened with
CLOEXEC. One whose `execve` fails calls `exit(1)` (`plugin_cgi.c:451`) and with it `remove_pidfile`
(`CannotExecute`): the daemon that runs loses its file. If the pool's mutex was taken when the copy was made, the child
never gets there (`Sticks`). The order of the code is kept: `atexit` is registered before the pid
file is read, so a refused start removes the file of the daemon that runs; the file is
empty between `fopen` and `fclose`; the ports are bound after it is written.

What the model shows of the scripts, and no property denies:

* the watchdog removes the pid file *before* it calls `restart`. `stop` then finds nobody to
  stop, and `start-stop-daemon --exec` finds the hung process and starts nothing. A daemon that hangs is
  therefore never replaced, although `watchdog.sh:15` says "restarting", and a start with `-k` has no file
  to find it by. `Recovers` is stated for daemons that do not hang;
* a child that is stuck keeps the ports of its daemon and runs geod's program: after the daemon's end
  no other can bind, and `start-stop-daemon --exec` starts none. `Recovers` excludes it, too
  (`Blocked`). A script keeps the ports only until it ends;
* a start beside a daemon (`second`) without `-k` ends with that daemon's file gone, whether it is refused or cannot bind;
* `-k` and the init script send SIGTERM and SIGKILL to whatever process has the number;
* a file that names the starting process itself makes it refuse to start.

### Properties and run

| run | configuration | shows |
|---|---|---|
| `pid_file` | 3 numbers, 3 faults | `ProcTypeOK`, `NoStaleAfterExit`, `ListedUnlessSecond`, liveness `Recovers` |

`ListedUnlessSecond` says that without a second start the daemon that serves finds its number in the
file, or the file is gone by one of two hands, remembered in `taken`: the watchdog or a child that
could not execute its script. It fails if `CannotExecute` does not count. Three numbers are two daemons and a foreign process, or a third daemon beside them. Three faults are
enough for a kill, a reuse of the number and a second start. Fairness: daemons that do not hang
go on, scripts and CGI children go on (a PHP script does not sleep for ever), cron runs the watchdog every minute; a minute is taken to be
longer than a start (`Settled`). Deadlock is not checked: with the faults used up and a daemon that serves,
nothing has to happen.

### Proofs (`LifeCycleProofs`, second part)

For every set of process numbers and any number of faults: `ProcessTypeCorrect`, `NoStaleFile`,
`FileIsRight`, from `PInv`. It adds to the properties that whoever waits waits for a number
(`Waiting`), so a SIGKILL hits a process; that whoever has the file under its name open for
writing is still writing (`WritersNamed`), so that a number gets into it only from its process;
and that without a second start there is one daemon (`Alone`), whose file nobody
else has opened and nobody but the watchdog or a child has removed (`OwnFile`). Only model-checked: `Recovers`. The module's definitions have names of
their own (`ProcSpec`, `ProcTypeOK`), so that one proof module EXTENDS it and `OwnThreads`.

## 12. What is proved and what is checked only

Eight modules hold proofs, for every value of the constants under each module's named
assumption. Every safety invariant and every action property of the passing runs is stated by a theorem,
listed with it in `PROJECT.json`. Model-checked only: the liveness properties, since fairness and
ENABLED are beyond the prover, and the violations.

Two of the proofs need induction: over the frames under way (`Bytes`) and over the steps along the links
(`Reachable`). Both functions are recursive over an interval of numbers. That they exist
(`SumsExist`, `StepsExist`) and what they return is proved by the least number for which it
would fail (`SetInduction`, from the well-foundedness of the natural numbers); the library's
induction rule takes an operator, which the provers cannot instantiate.

## 13. What is not modelled

* **Geo data and the WebSocket application** (`data_geo.c`, `data.c`, `data_table.c`, `hashmap.c`,
  `json_indexlist.c`, `plugin_ws.c`). The registration of the geo instance is compiled out
  (`#if 0`, `data_geo.c:402`). Without it HELLO is answered by nothing (`plugin_ws.c:487`), no session gets a
  user, chat is refused, and positions are not stored: none of the operations on users has a
  caller in the program as it is built. What remains is a table of 100 sessions whose count only
  grows; the session after the last gets no slot (`plugin_ws.c:414`).
* **HTTP** (`http.c`, `handlers.c`): parsing is string work; the route table is filled while
  plugins are loaded and read without a lock. `send_file` is in `FileCache`.
* **Views of the page** (`GlobeView.js`, `TerrainView.js`, `SatelliteSystem.js`, `ViewController.js`): camera
  and display state over three.js, read by nothing else; their handlers run one at a time.
* **The upgrade handshake, sending and statistics** of `ws.c`; the shutdown's destruction of locks that
  detached threads may still use (`geod.c:1017`).
* Terrain and picture arithmetic (`mapgen`, `perlin3d`, `shape.c`): floating point. Page layout, PHP pages,
  offline Python scripts, the old PHP WebSocket server. Third-party code (`three.js`, `OrbitControls`).

Of the repository's JavaScript, 52,800 of 54,700 lines are the vendored three.js and OrbitControls,
which no model of this program stands for; of the rest, `CommunicationController.js` is the part with
state that other parts depend on, and `globe2.php` has the page's own script. The daemon, where the
program's concurrency is, is C.
