----------------------------- MODULE PluginHost -----------------------------
(***************************************************************************)
(* The plugin host of geod (src/src/pluginhst.c): loading, reference       *)
(* counting and unloading of the .so plugins.                              *)
(*                                                                         *)
(* Three kinds of actors share g_Plugins:                                  *)
(*   - user threads bracket the use of a plugin with plugin_start and      *)
(*     plugin_stop, both of which take the housekeeper lock with a 20 ms   *)
(*     timeout;                                                            *)
(*   - the housekeeper thread looks for unused plugins and unloads them,   *)
(*     and rescans the plugin directory, all of it WITHOUT the lock;       *)
(*   - signals and the command line raise release_plugins, reload_plugins. *)
(*                                                                         *)
(* A user here is one start/use/stop bracket (a thread that comes again,   *)
(* or nests brackets, is several).  It has the kind of its call site:      *)
(*   guarded  if (!plugin_start(id)) { use; plugin_stop(id); }             *)
(*   ws       the same, but a failed read returns without plugin_stop      *)
(*   image    the result of plugin_start is dropped: use, plugin_stop      *)
(*   cli      the test is inverted: used and stopped when the start FAILED *)
(***************************************************************************)
EXTENDS Integers, FiniteSets

CONSTANTS
  Users,        \* the brackets: bound on the uses of the host in a behaviour
  MaxPlugin,    \* MAX_PLUGIN: number of slots of g_Plugins
  Kinds,        \* the kinds of call sites in this configuration
  StandbyLimit  \* refused STANDBYs before TERMINATE is sent (3 in the code)

AllKinds == {"guarded", "ws", "image", "cli"}

ASSUME HostAssumption ==
  /\ IsFiniteSet(Users)
  /\ MaxPlugin \in Nat \ {0}
  /\ Kinds \subseteq AllKinds
  /\ StandbyLimit \in Nat
  /\ "free" \notin Users /\ "none" \notin Users

VARIABLES
  \* g_Plugins[i]
  pluginCount, state, handle, named, used_count, idle, tried_to_shutdown,
  \* the housekeeper lock and the two request flags
  lock, release_plugins, reload_plugins,
  \* threads
  hk, hki, pc, plug, kind,
  \* history: who is between a counted start and its stop, counts that no
  \* stop will take back, stops that no start paid for, and whether a start
  \* was ever counted on a plugin without code or in its unload window
  holders, leaked, unearned, torn

pluginVars == <<pluginCount, state, handle, named, used_count, idle,
                tried_to_shutdown>>
flagVars   == <<release_plugins, reload_plugins>>
userVars   == <<pc, plug, kind>>
histVars   == <<holders, leaked, unearned, torn>>
vars == <<pluginVars, lock, flagVars, hk, hki, userVars, histVars>>

Plugins == 1..MaxPlugin

\* PluginState_t; its order matters, plugin_start compares with <.
PluginStates == {"NONE", "UNLOADED", "LOADING", "LOADED", "INITIALIZED",
                 "RUNNING", "SHUTTING_DOWN", "DISABLED"}
BelowInitialized == {"NONE", "UNLOADED", "LOADING", "LOADED"}

UserPCs == {"idle", "lockStart", "entered", "opening", "resolving",
            "initializing", "check", "ready", "running", "using",
            "lockStop", "counted", "done"}
LoadPCs == {"opening", "resolving", "initializing"}
Locked  == LoadPCs \cup {"entered", "check", "ready", "running", "counted"}

HkPCs   == {"boot", "look", "unload", "closing", "marking", "scan",
            "scanOpen", "scanResolve", "scanInit"}
HkScans == {"scanOpen", "scanResolve", "scanInit"}

-----------------------------------------------------------------------------
(* State after the scan of main: each plugin found is loaded or disabled,  *)
(* without a name when already dlopen failed.                              *)
Init ==
  /\ pluginCount \in 0..MaxPlugin
  /\ state \in {s \in [Plugins -> {"NONE", "INITIALIZED", "DISABLED"}] :
                  \A p \in Plugins : (s[p] = "NONE") <=> (p > pluginCount)}
  /\ handle = [p \in Plugins |-> state[p] = "INITIALIZED"]
  /\ named \in {n \in [Plugins -> BOOLEAN] :
                  \A p \in Plugins : /\ n[p] => p <= pluginCount
                                     /\ state[p] = "INITIALIZED" => n[p]}
  /\ used_count = [p \in Plugins |-> 0]
  /\ idle = [p \in Plugins |-> FALSE]
  /\ tried_to_shutdown = [p \in Plugins |-> 0]
  /\ lock = "none"
  /\ release_plugins = FALSE
  /\ reload_plugins = FALSE
  /\ hk = "boot" /\ hki = 1
  /\ pc = [u \in Users |-> "idle"]
  /\ plug \in [Users -> {1}]
  /\ kind \in [Users -> {"guarded"}]
  /\ holders = [p \in Plugins |-> {}]
  /\ leaked = [p \in Plugins |-> 0]
  /\ unearned = [p \in Plugins |-> 0]
  /\ torn = [p \in Plugins |-> FALSE]

-----------------------------------------------------------------------------
(* plugin_start.  A refused start sends the guarded call sites back and    *)
(* lets the other two kinds run on as if the plugin were there.            *)

AfterRefusal(k) == IF k \in {"image", "cli"} THEN "using" ELSE "done"

Refuse(u) == pc' = [pc EXCEPT ![u] = AfterRefusal(kind[u])]

\* The DISABLED test before the lock; a name is looked up only once the
\* slot carries it.
StartCheck(u, p, k) ==
  /\ pc[u] = "idle"
  /\ p <= pluginCount /\ named[p]
  /\ plug' = [plug EXCEPT ![u] = p]
  /\ kind' = [kind EXCEPT ![u] = k]
  /\ pc' = [pc EXCEPT ![u] = IF state[p] = "DISABLED" THEN AfterRefusal(k)
                                                      ELSE "lockStart"]
  /\ UNCHANGED <<pluginVars, lock, flagVars, hk, hki, histVars>>

StartLock(u) ==
  /\ pc[u] = "lockStart" /\ lock = "free"
  /\ lock' = u
  /\ idle' = [idle EXCEPT ![plug[u]] = FALSE]
  /\ pc' = [pc EXCEPT ![u] = "entered"]
  /\ UNCHANGED <<pluginCount, state, handle, named, used_count,
                 tried_to_shutdown, flagVars, hk, hki, plug, kind,
                 histVars>>

\* 20 ms without the lock, or no lock yet.
StartTimeout(u) ==
  /\ pc[u] = "lockStart" /\ lock # "free"
  /\ Refuse(u)
  /\ UNCHANGED <<pluginVars, lock, flagVars, hk, hki, plug, kind,
                 histVars>>

\* The branch on the state: a RUNNING plugin is only counted (StartReuse).
StartDecide(u) ==
  LET p == plug[u] IN
  /\ pc[u] = "entered" /\ state[p] # "RUNNING"
  /\ pc' = [pc EXCEPT ![u] = IF state[p] \notin BelowInitialized THEN "ready"
                             ELSE IF handle[p] THEN "check" ELSE "opening"]
  /\ UNCHANGED <<pluginVars, lock, flagVars, hk, hki, plug, kind,
                 histVars>>

\* After plugin_load: whatever happened meanwhile, the state must be right.
StartRecheck(u) ==
  /\ pc[u] = "check"
  /\ IF state[plug[u]] = "INITIALIZED"
     THEN /\ pc' = [pc EXCEPT ![u] = "ready"]
          /\ UNCHANGED lock
     ELSE Refuse(u) /\ lock' = "free"
  /\ UNCHANGED <<pluginVars, flagVars, hk, hki, plug, kind, histVars>>

\* Mutant: the user is counted before thread_init, which may fail.
StartRunCountsFirst(u) ==
  /\ pc[u] = "ready"
  /\ \/ /\ state' = [state EXCEPT ![plug[u]] = "RUNNING"]
        /\ pc' = [pc EXCEPT ![u] = "running"]
        /\ UNCHANGED <<lock, used_count>>
     \/ /\ Refuse(u)
        /\ lock' = "free"
        /\ used_count' = [used_count EXCEPT ![plug[u]] = @ + 1]
        /\ UNCHANGED state
  /\ UNCHANGED <<pluginCount, handle, named, idle, tried_to_shutdown,
                 flagVars, hk, hki, plug, kind, histVars>>

\* Mutant: a failed thread_init is tried again, under the lock.
StartRunRetries(u) ==
  /\ pc[u] = "ready"
  /\ \/ /\ state' = [state EXCEPT ![plug[u]] = "RUNNING"]
        /\ pc' = [pc EXCEPT ![u] = "running"]
     \/ /\ pc' = [pc EXCEPT ![u] = "entered"]
        /\ UNCHANGED state
  /\ UNCHANGED <<pluginCount, handle, named, used_count, idle, lock,
                 tried_to_shutdown, flagVars, hk, hki, plug, kind,
                 histVars>>

\* thread_init of the first user; it may fail.
StartRun(u) ==
  /\ pc[u] = "ready"
  /\ \/ /\ state' = [state EXCEPT ![plug[u]] = "RUNNING"]
        /\ pc' = [pc EXCEPT ![u] = "running"]
        /\ UNCHANGED lock
     \/ /\ Refuse(u)
        /\ lock' = "free"
        /\ UNCHANGED state
  /\ UNCHANGED <<pluginCount, handle, named, used_count, idle,
                 tried_to_shutdown, flagVars, hk, hki, plug, kind,
                 histVars>>

\* used_count++, unlock, return 0: the inverted call site now leaves.
CountUser(u) ==
  LET p == plug[u] IN
  /\ used_count' = [used_count EXCEPT ![p] = @ + 1]
  /\ lock' = "free"
  /\ torn' = [torn EXCEPT ![p] = @ \/ ~handle[p] \/
                                 (hk \in {"closing", "marking"} /\ hki = p)]
  /\ IF kind[u] = "cli"
     THEN /\ leaked' = [leaked EXCEPT ![p] = @ + 1]
          /\ pc' = [pc EXCEPT ![u] = "done"]
          /\ UNCHANGED holders
     ELSE /\ holders' = [holders EXCEPT ![p] = @ \cup {u}]
          /\ pc' = [pc EXCEPT ![u] = "using"]
          /\ UNCHANGED leaked
  /\ UNCHANGED <<pluginCount, state, handle, named, idle, tried_to_shutdown,
                 flagVars, hk, hki, plug, kind, unearned>>

StartReuse(u) == pc[u] = "entered" /\ state[plug[u]] = "RUNNING" /\ CountUser(u)
StartCount(u) == pc[u] = "running" /\ CountUser(u)

-----------------------------------------------------------------------------
(* plugin_load, step by step, because the housekeeper sees the state in    *)
(* between.  plugin_start runs it under the lock, the scan without it.     *)

\* stat and dlopen; the name is filled in once the library is open.
OpenLibrary(p, ok) ==
  /\ handle' = [handle EXCEPT ![p] = ok]
  /\ state' = [state EXCEPT ![p] = IF ok THEN "LOADING" ELSE "DISABLED"]
  /\ named' = [named EXCEPT ![p] = @ \/ ok]
  /\ idle' = [idle EXCEPT ![p] = FALSE]
  /\ UNCHANGED <<pluginCount, used_count, tried_to_shutdown>>

\* dlsym of the mandatory entry points, or plugin_init: next state, or
\* plugin_disable.
AdvanceLoad(p, ok, next) ==
  /\ handle' = [handle EXCEPT ![p] = @ /\ ok]
  /\ state' = [state EXCEPT ![p] = IF ok THEN next ELSE "DISABLED"]
  /\ UNCHANGED <<pluginCount, named, used_count, idle>>

\* The ws plugin clears tried_to_shutdown in its plugin_init, others do not.
ResetByInit(p) ==
  tried_to_shutdown' \in {tried_to_shutdown, [tried_to_shutdown EXCEPT ![p] = 0]}

\* A failed load leaves plugin_start through the unlock.
LoadGoesOn(u, ok, next) ==
  /\ IF ok THEN /\ pc' = [pc EXCEPT ![u] = next]
                /\ UNCHANGED lock
           ELSE Refuse(u) /\ lock' = "free"
  /\ UNCHANGED <<flagVars, hk, hki, plug, kind, histVars>>

LoadOpen(u, ok) ==
  /\ pc[u] = "opening"
  /\ OpenLibrary(plug[u], ok)
  /\ LoadGoesOn(u, ok, "resolving")

LoadResolve(u, ok) ==
  /\ pc[u] = "resolving"
  /\ AdvanceLoad(plug[u], ok, "LOADED")
  /\ UNCHANGED tried_to_shutdown
  /\ LoadGoesOn(u, ok, "initializing")

LoadInit(u, ok) ==
  /\ pc[u] = "initializing"
  /\ AdvanceLoad(plug[u], ok, "INITIALIZED")
  /\ ResetByInit(plug[u])
  /\ LoadGoesOn(u, ok, "check")

-----------------------------------------------------------------------------
(* The use of the plugin and plugin_stop. *)

\* A count that no stop will take back.
Leak(u, p) ==
  /\ leaked' = [leaked EXCEPT ![p] = @ + (IF u \in holders[p] THEN 1 ELSE 0)]
  /\ holders' = [holders EXCEPT ![p] = @ \ {u}]
  /\ UNCHANGED <<unearned, torn>>

\* onProcessWs: the request could not be read, return without plugin_stop.
AbandonWs(u) ==
  /\ pc[u] = "using" /\ kind[u] = "ws"
  /\ pc' = [pc EXCEPT ![u] = "done"]
  /\ Leak(u, plug[u])
  /\ UNCHANGED <<pluginVars, lock, flagVars, hk, hki, plug, kind>>

\* plugin_stop reads handle without the lock; no handle, no decrement.
\* Otherwise thread_finish runs, still without the lock.
StopCheck(u) ==
  /\ pc[u] = "using"
  /\ IF handle[plug[u]]
     THEN pc' = [pc EXCEPT ![u] = "lockStop"] /\ UNCHANGED histVars
     ELSE pc' = [pc EXCEPT ![u] = "done"] /\ Leak(u, plug[u])
  /\ UNCHANGED <<pluginVars, lock, flagVars, hk, hki, plug, kind>>

StopTimeout(u) ==
  /\ pc[u] = "lockStop" /\ lock # "free"
  /\ pc' = [pc EXCEPT ![u] = "done"]
  /\ Leak(u, plug[u])
  /\ UNCHANGED <<pluginVars, lock, flagVars, hk, hki, plug, kind>>

StopLock(u) ==
  LET p == plug[u] IN
  /\ pc[u] = "lockStop" /\ lock = "free"
  /\ lock' = u
  /\ idle' = [idle EXCEPT ![p] = FALSE]
  /\ used_count' = [used_count EXCEPT ![p] = @ - 1]
  /\ unearned' = [unearned EXCEPT ![p] = @ + (IF u \in holders[p] THEN 0 ELSE 1)]
  /\ holders' = [holders EXCEPT ![p] = @ \ {u}]
  /\ pc' = [pc EXCEPT ![u] = "counted"]
  /\ UNCHANGED <<pluginCount, state, handle, named, tried_to_shutdown,
                 flagVars, hk, hki, plug, kind, leaked, torn>>

\* Mutant: off by one, the plugin stays RUNNING after its last user.
StopUnlockBelowZero(u) ==
  LET p == plug[u] IN
  /\ pc[u] = "counted"
  /\ state' = [state EXCEPT ![p] = IF used_count[p] < 0 THEN "INITIALIZED" ELSE @]
  /\ lock' = "free"
  /\ pc' = [pc EXCEPT ![u] = "done"]
  /\ UNCHANGED <<pluginCount, handle, named, used_count, idle,
                 tried_to_shutdown, flagVars, hk, hki, plug, kind,
                 histVars>>

\* The last user takes the plugin back from RUNNING to INITIALIZED.
StopUnlock(u) ==
  LET p == plug[u] IN
  /\ pc[u] = "counted"
  /\ state' = [state EXCEPT ![p] = IF used_count[p] < 1 THEN "INITIALIZED" ELSE @]
  /\ lock' = "free"
  /\ pc' = [pc EXCEPT ![u] = "done"]
  /\ UNCHANGED <<pluginCount, handle, named, used_count, idle,
                 tried_to_shutdown, flagVars, hk, hki, plug, kind,
                 histVars>>

-----------------------------------------------------------------------------
(* The housekeeper thread; none of its steps takes the lock it created. *)

HkBoot ==
  /\ hk = "boot"
  /\ hk' = "look" /\ lock' = "free"
  /\ UNCHANGED <<pluginVars, flagVars, hki, userVars, histVars>>

\* housekeeper_plugins, one slot: handle, used_count and last_used decide.
HkLook ==
  /\ hk = "look" /\ hki <= pluginCount
  /\ IF handle[hki] /\ used_count[hki] <= 0 /\ (release_plugins \/ idle[hki])
     THEN hk' = "unload" /\ UNCHANGED hki
     ELSE hki' = hki + 1 /\ UNCHANGED hk
  /\ UNCHANGED <<pluginVars, lock, flagVars, userVars, histVars>>

\* Mutant: a RUNNING plugin that accepts STANDBY is unloaded at once.
HkUnloadRunning ==
  /\ hk = "unload"
  /\ IF state[hki] \in {"RUNNING", "INITIALIZED"}
     THEN /\ state' = [state EXCEPT ![hki] = "SHUTTING_DOWN"]
          /\ hk' = "closing"
          /\ UNCHANGED hki
     ELSE /\ hk' = "look" /\ hki' = hki + 1
          /\ UNCHANGED state
  /\ UNCHANGED <<pluginCount, handle, named, used_count, idle, lock, flagVars,
                 tried_to_shutdown, userVars, histVars>>

\* plugin_unload branches on the state it finds by then.  A RUNNING plugin
\* is asked to stand by (or, refused too often, to terminate).
HkUnload ==
  /\ hk = "unload"
  /\ \/ /\ state[hki] = "RUNNING"
        /\ \E refused \in BOOLEAN :
             tried_to_shutdown' = [tried_to_shutdown EXCEPT
               ![hki] = IF refused /\ @ <= StandbyLimit THEN @ + 1 ELSE @]
        /\ hk' = "look" /\ hki' = hki + 1
        /\ UNCHANGED state
     \/ /\ state[hki] = "INITIALIZED"
        /\ state' = [state EXCEPT ![hki] = "SHUTTING_DOWN"]
        /\ hk' = "closing"
        /\ UNCHANGED <<hki, tried_to_shutdown>>
     \/ /\ state[hki] \notin {"RUNNING", "INITIALIZED"}
        /\ hk' = "look" /\ hki' = hki + 1
        /\ UNCHANGED <<state, tried_to_shutdown>>
  /\ UNCHANGED <<pluginCount, handle, named, used_count, idle, lock, flagVars,
                 userVars, histVars>>

\* The branch the code itself asks about: "un-reachable code?".
HkCloseNothing ==
  /\ hk = "closing" /\ ~handle[hki]
  /\ state' = [state EXCEPT ![hki] = "NONE"]
  /\ hk' = "look" /\ hki' = hki + 1
  /\ UNCHANGED <<pluginCount, handle, named, used_count, idle,
                 tried_to_shutdown, lock, flagVars, userVars, histVars>>

\* Own threads joined, plugin_finish, dlclose.
HkClose ==
  /\ hk = "closing" /\ handle[hki]
  /\ handle' = [handle EXCEPT ![hki] = FALSE]
  /\ hk' = "marking"
  /\ UNCHANGED <<pluginCount, state, named, used_count, idle,
                 tried_to_shutdown, lock, flagVars, hki, userVars, histVars>>

HkMark ==
  /\ hk = "marking"
  /\ state' = [state EXCEPT ![hki] = "UNLOADED"]
  /\ hk' = "look" /\ hki' = hki + 1
  /\ UNCHANGED <<pluginCount, handle, named, used_count, idle,
                 tried_to_shutdown, lock, flagVars, userVars, histVars>>

\* End of the pass: the release request counts as served.
HkPassDone ==
  /\ hk = "look" /\ hki > pluginCount
  /\ release_plugins' = FALSE
  /\ hki' = 1
  /\ hk' = IF reload_plugins THEN "scan" ELSE "look"
  /\ UNCHANGED <<pluginVars, lock, reload_plugins, userVars, histVars>>

\* Mutant: the slot is named before its library is open.
HkScanNewNamed ==
  /\ hk = "scan" /\ pluginCount < MaxPlugin
  /\ pluginCount' = pluginCount + 1
  /\ state' = [state EXCEPT ![pluginCount + 1] = "NONE"]
  /\ named' = [named EXCEPT ![pluginCount + 1] = TRUE]
  /\ hki' = pluginCount + 1
  /\ hk' = "scanOpen"
  /\ UNCHANGED <<handle, used_count, idle, tried_to_shutdown, lock,
                 flagVars, userVars, histVars>>

\* plugin_scan_and_register: a file no slot is named after takes a new slot.
HkScanNew ==
  /\ hk = "scan" /\ pluginCount < MaxPlugin
  /\ pluginCount' = pluginCount + 1
  /\ state' = [state EXCEPT ![pluginCount + 1] = "NONE"]
  /\ hki' = pluginCount + 1
  /\ hk' = "scanOpen"
  /\ UNCHANGED <<handle, named, used_count, idle, tried_to_shutdown, lock,
                 flagVars, userVars, histVars>>

HkScanDone ==
  /\ hk = "scan"
  /\ reload_plugins' = FALSE
  /\ hk' = "look" /\ hki' = 1
  /\ UNCHANGED <<pluginVars, lock, release_plugins, userVars, histVars>>

HkScanGoesOn(ok, next) ==
  /\ hk' = IF ok THEN next ELSE "scan"
  /\ UNCHANGED <<lock, flagVars, hki, userVars, histVars>>

HkScanOpen(ok) ==
  hk = "scanOpen" /\ OpenLibrary(hki, ok) /\ HkScanGoesOn(ok, "scanResolve")

HkScanResolve(ok) ==
  /\ hk = "scanResolve"
  /\ AdvanceLoad(hki, ok, "LOADED")
  /\ UNCHANGED tried_to_shutdown
  /\ HkScanGoesOn(ok, "scanInit")

HkScanInit(ok) ==
  /\ hk = "scanInit"
  /\ AdvanceLoad(hki, ok, "INITIALIZED")
  /\ ResetByInit(hki)
  /\ HkScanGoesOn(ok, "scan")

-----------------------------------------------------------------------------
(* The environment. *)

\* SIGUSR2 or the CLI command release; SIGUSR1 or the CLI command reload.
RequestRelease ==
  /\ ~release_plugins /\ release_plugins' = TRUE
  /\ UNCHANGED <<pluginVars, lock, reload_plugins, hk, hki, userVars, histVars>>

RequestReload ==
  /\ ~reload_plugins /\ reload_plugins' = TRUE
  /\ UNCHANGED <<pluginVars, lock, release_plugins, hk, hki, userVars, histVars>>

\* PLUGIN_IDLE_TIMEOUT seconds without a start or stop.
IdleTimeoutPasses(p) ==
  /\ ~idle[p] /\ idle' = [idle EXCEPT ![p] = TRUE]
  /\ UNCHANGED <<pluginCount, state, handle, named, used_count,
                 tried_to_shutdown, lock, flagVars, hk, hki, userVars, histVars>>

-----------------------------------------------------------------------------
UserStep(u) ==
  \/ StartLock(u) \/ StartTimeout(u) \/ StartDecide(u) \/ StartRecheck(u)
  \/ StartRun(u) \/ StartReuse(u) \/ StartCount(u)
  \/ \E ok \in BOOLEAN : LoadOpen(u, ok) \/ LoadResolve(u, ok) \/ LoadInit(u, ok)
  \/ StopCheck(u) \/ StopTimeout(u) \/ StopLock(u) \/ StopUnlock(u)

HkStep ==
  \/ HkBoot \/ HkLook \/ HkUnload \/ HkCloseNothing \/ HkClose \/ HkMark \/ HkPassDone
  \/ HkScanNew \/ HkScanDone
  \/ \E ok \in BOOLEAN : HkScanOpen(ok) \/ HkScanResolve(ok) \/ HkScanInit(ok)

Next ==
  \/ \E u \in Users : UserStep(u) \/ AbandonWs(u)
  \/ \E u \in Users, p \in Plugins, k \in Kinds : StartCheck(u, p, k)
  \/ HkStep
  \/ RequestRelease \/ RequestReload
  \/ \E p \in Plugins : IdleTimeoutPasses(p)

Spec == Init /\ [][Next]_vars

(* The scheduler runs every thread, handlers return, time passes.  No      *)
(* fairness on signals, on new calls or on failures.                       *)
Fairness ==
  /\ \A u \in Users : WF_vars(UserStep(u))
  /\ WF_vars(HkStep)
  /\ \A p \in Plugins : WF_vars(IdleTimeoutPasses(p))

FairSpec == Spec /\ Fairness

-----------------------------------------------------------------------------
(* Properties. *)

PluginTypes ==
  /\ pluginCount \in 0..MaxPlugin
  /\ state \in [Plugins -> PluginStates]
  /\ handle \in [Plugins -> BOOLEAN]
  /\ named \in [Plugins -> BOOLEAN]
  /\ used_count \in [Plugins -> Int]
  /\ idle \in [Plugins -> BOOLEAN]
  /\ tried_to_shutdown \in [Plugins -> 0..StandbyLimit+1]

ThreadTypes ==
  /\ lock \in Users \cup {"free", "none"}
  /\ release_plugins \in BOOLEAN /\ reload_plugins \in BOOLEAN
  /\ hk \in HkPCs /\ hki \in 1..MaxPlugin+1
  /\ hk # "look" => hki \in Plugins
  /\ pc \in [Users -> UserPCs]
  /\ plug \in [Users -> Plugins]
  /\ kind \in [Users -> AllKinds]

HistTypes ==
  /\ holders \in [Plugins -> SUBSET Users]
  /\ leaked \in [Plugins -> Nat]
  /\ unearned \in [Plugins -> Nat]
  /\ torn \in [Plugins -> BOOLEAN]

\* Every variable has its type, and outside a pass over the slots the
\* housekeeper stands at an existing one.
TypeOK == PluginTypes /\ ThreadTypes /\ HistTypes

\* Whatever path plugin_start and plugin_stop leave by, the housekeeper lock
\* is held exactly while a user is inside one of the two, and by that user.
LockDiscipline == \A u \in Users : lock = u <=> pc[u] \in Locked

\* used_count is the number of brackets open on the plugin plus the counts
\* that leaked, minus the stops nobody started: no other path (a failed load,
\* a refused start, an unload in between) moves the reference count.
RefCountExact ==
  \A p \in Plugins :
    used_count[p] = Cardinality(holders[p]) + leaked[p] - unearned[p]

\* Unless a start was counted on a plugin without code or one the housekeeper
\* was already closing (torn), or a stop was not earned, a plugin in use is
\* RUNNING and its code is in memory: unload, reload and the failed loads of
\* other threads keep away from it.
LoadedWhileUsed ==
  \A p \in Plugins :
    holders[p] # {} /\ ~torn[p] /\ unearned[p] = 0
      => handle[p] /\ state[p] = "RUNNING"

\* plugin_load never runs twice at a time on one slot, although the scan of
\* the housekeeper loads without the lock that plugin_start loads under.
LoadsOn(p) == {u \in Users : pc[u] \in LoadPCs /\ plug[u] = p}
              \cup {t \in {"hk"} : hk \in HkScans /\ hki = p}
OneLoaderPerSlot == \A p \in Plugins : Cardinality(LoadsOn(p)) <= 1

\* plugin_unload asks "Plugin is not loaded, un-reachable code?": it is,
\* unless a stop that no start paid for took the plugin out of RUNNING.
UnloadHasCode == hk = "closing" /\ unearned[hki] = 0 => handle[hki]

\* plugin_unload, "when no more user access to the plugin": the library is
\* closed only while nobody is between plugin_start and plugin_stop.
UnloadOnlyUnused == hk \in {"closing", "marking"} => holders[hki] = {}

\* Every plugin_start and plugin_stop returns: the timeouts and the unlock on
\* each error path keep users from waiting on each other.
CallsReturn == \A u \in Users : pc[u] # "idle" ~> pc[u] = "done"

\* Once nobody calls any more, a plugin without leaked counts is unloaded.
Quiet(p) == (\A u \in Users : pc[u] = "done") /\ leaked[p] = 0
IdlePluginUnloaded == \A p \in Plugins : Quiet(p) ~> ~handle[p]
=============================================================================
