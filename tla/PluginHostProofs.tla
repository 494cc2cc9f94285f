-------------------------- MODULE PluginHostProofs --------------------------
(* The invariants of PluginHost hold for any number of users and slots, any *)
(* mix of call sites: inductive invariants and their TLAPS proofs.          *)
EXTENDS PluginHost, FiniteSetTheorems, TLAPS

-----------------------------------------------------------------------------
(* What strengthens the invariants of PluginHost to an inductive one. *)

\* The lock follows its holder; the housekeeper thread creates it.
Locking == LockDiscipline /\ (hk = "boot" => lock = "none")

\* A user of a plugin found it by its name; slots are named in order.
NamesFirst ==
  /\ \A u \in Users : pc[u] # "idle" => named[plug[u]]
  /\ \A p \in Plugins : named[p] => p <= pluginCount
  /\ hk \in HkScans => hki <= pluginCount
  /\ hk = "scanOpen" => ~named[hki]

\* holders is what it says: users between a counted start and its stop.
HoldersUse ==
  \A p \in Plugins : \A u \in holders[p] :
    plug[u] = p /\ pc[u] \in {"using", "lockStop"}

\* What a user in plugin_load knows of its slot.
LoaderState ==
  \A u \in Users :
    /\ pc[u] = "opening" => /\ state[plug[u]] \in BelowInitialized
                             /\ ~handle[plug[u]]
    /\ pc[u] = "resolving" => state[plug[u]] = "LOADING"
    /\ pc[u] = "initializing" => state[plug[u]] = "LOADED"

\* The housekeeper neither scans nor closes a slot that a user loads.
HkApart ==
  /\ hk \in HkScans \cup {"closing", "marking"} =>
       \A u \in Users : pc[u] \in LoadPCs => plug[u] # hki
  /\ hk \in {"scanResolve", "scanInit"} => handle[hki]
  /\ hk \in {"closing", "marking"} =>
       state[hki] \in {"SHUTTING_DOWN", "RUNNING", "INITIALIZED"}
  /\ hk = "marking" => ~handle[hki]

\* The slots whose history is in order: see LoadedWhileUsed.
Sound(p) == ~torn[p] /\ unearned[p] = 0

Closing(p) == hk \in {"closing", "marking"} /\ hki = p

\* Slots in order: their users keep them RUNNING, so does the one who is
\* about to count itself and the one who has just stopped; a slot being
\* closed has none of them, a slot being scanned is not started yet.
InOrder(p) ==
  /\ holders[p] # {} => handle[p] /\ state[p] = "RUNNING"
  /\ \A u \in Users : plug[u] = p =>
       /\ pc[u] = "counted" => handle[p] /\ state[p] = "RUNNING"
       /\ pc[u] = "running" /\ handle[p] /\ ~Closing(p)
            => state[p] = "RUNNING"
  /\ Closing(p) => /\ holders[p] = {}
                   /\ \A u \in Users : plug[u] = p => pc[u] # "counted"
  /\ hk \in HkScans /\ hki = p =>
       /\ state[p] \in {"NONE", "LOADING", "LOADED"}
       /\ \A u \in Users : plug[u] = p => pc[u] \notin {"ready", "running"}

SoundSlots == \A p \in Plugins : Sound(p) => InOrder(p)

\* From the look at a loaded, unused slot to its unload: the library goes
\* away only with the plugin DISABLED, and then no stop reaches the lock.
UnloadFinds ==
  hk = "unload" /\ unearned[hki] = 0 =>
    /\ ~handle[hki] =>
         /\ state[hki] \in {"DISABLED", "RUNNING"}
         /\ \A u \in Users : plug[u] = hki =>
              /\ pc[u] = "lockStop" => u \notin holders[hki]
              /\ pc[u] # "counted"
    /\ \A u \in Users : plug[u] = hki /\ pc[u] \in LoadPCs =>
         holders[hki] = {} /\ pc[u] # "opening"

IInv ==
  /\ TypeOK /\ Locking /\ HoldersUse /\ RefCountExact
  /\ NamesFirst /\ LoaderState /\ HkApart /\ SoundSlots /\ UnloadFinds
  /\ UnloadHasCode

-----------------------------------------------------------------------------
(* Types.  An action changes few of the variables: its step types those and *)
(* leaves the others to the frame. *)

LEMMA InitTyped == Init => TypeOK
<1> SUFFICES ASSUME Init PROVE TypeOK
  OBVIOUS
<1> USE HostAssumption DEF HostAssumption, Init, Plugins
<1>1. /\ state \in [Plugins -> PluginStates]
      /\ handle \in [Plugins -> BOOLEAN]
      /\ named \in [Plugins -> BOOLEAN]
  BY DEF PluginStates
<1>2. PluginTypes
  BY <1>1 DEF PluginTypes
<1>3. ThreadTypes
  <2>1. pc \in [Users -> UserPCs]
    BY DEF UserPCs
  <2>2. plug \in [Users -> Plugins] /\ kind \in [Users -> AllKinds]
    BY DEF AllKinds
  <2>3. hk \in HkPCs /\ hki \in 1..MaxPlugin+1 /\ hki \in Plugins
    BY DEF HkPCs
  <2> QED
    BY <2>1, <2>2, <2>3 DEF ThreadTypes
<1>4. HistTypes
  BY DEF HistTypes
<1> QED
  BY <1>2, <1>3, <1>4 DEF TypeOK

LEMMA SameSlots == PluginTypes /\ UNCHANGED pluginVars => PluginTypes'
BY DEF PluginTypes, pluginVars

LEMMA SameHistory == HistTypes /\ UNCHANGED histVars => HistTypes'
BY DEF HistTypes, histVars

\* plugin_start and plugin_stop move one user, and at most the lock.
LEMMA UserMoves ==
  ASSUME ThreadTypes, NEW u \in Users, NEW at \in UserPCs,
         pc' = [pc EXCEPT ![u] = at], lock' \in {lock, u, "free"},
         UNCHANGED <<flagVars, hk, hki, plug, kind>>
  PROVE  ThreadTypes'
BY DEF ThreadTypes, flagVars

\* The housekeeper moves alone, to a slot of g_Plugins or past the last.
LEMMA HkMoves ==
  ASSUME ThreadTypes, hk' \in HkPCs, hki' \in 1..MaxPlugin+1,
         hk' # "look" => hki' \in Plugins,
         release_plugins' \in BOOLEAN, reload_plugins' \in BOOLEAN,
         lock' \in {lock, "free"}, UNCHANGED userVars
  PROVE  ThreadTypes'
BY DEF ThreadTypes, userVars

LEMMA RefusalTyped == \A k : AfterRefusal(k) \in UserPCs
BY DEF AfterRefusal, UserPCs

LEMMA StepTyped ==
  ASSUME TypeOK, [Next]_vars
  PROVE  TypeOK'
<1> USE HostAssumption, RefusalTyped, SameSlots, SameHistory
        DEF HostAssumption, TypeOK
<1>1. ASSUME NEW u \in Users, NEW p \in Plugins, NEW k \in Kinds,
             StartCheck(u, p, k)
      PROVE  TypeOK'
  <2>1. ThreadTypes'
    <3>1. kind' = [kind EXCEPT ![u] = k] /\ k \in AllKinds
      BY <1>1 DEF StartCheck
    <3>2. PICK at \in UserPCs : pc' = [pc EXCEPT ![u] = at]
      BY <1>1 DEF StartCheck, UserPCs
    <3> QED
      BY <1>1, <3>1, <3>2 DEF StartCheck, ThreadTypes, flagVars
  <2> QED
    BY <1>1, <2>1 DEF StartCheck
<1>2. ASSUME NEW u \in Users, StartLock(u) PROVE TypeOK'
  <2>1. ThreadTypes'
    BY <1>2, UserMoves DEF StartLock, UserPCs
  <2>2. PluginTypes'
    BY <1>2 DEF StartLock, PluginTypes
  <2> QED
    BY <1>2, <2>1, <2>2 DEF StartLock
<1>3. ASSUME NEW u \in Users, StartTimeout(u) PROVE TypeOK'
  BY <1>3, UserMoves DEF StartTimeout, Refuse
<1>4. ASSUME NEW u \in Users, StartDecide(u) PROVE TypeOK'
  <2>1. PICK at \in UserPCs : pc' = [pc EXCEPT ![u] = at]
    BY <1>4 DEF StartDecide, UserPCs
  <2> QED
    BY <1>4, <2>1, UserMoves DEF StartDecide
<1>5. ASSUME NEW u \in Users, StartRecheck(u) PROVE TypeOK'
  <2>1. PICK at \in UserPCs : pc' = [pc EXCEPT ![u] = at]
    BY <1>5 DEF StartRecheck, Refuse, UserPCs
  <2> QED
    BY <1>5, <2>1, UserMoves DEF StartRecheck
<1>6. ASSUME NEW u \in Users, StartRun(u) PROVE TypeOK'
  <2>1. PICK at \in UserPCs : pc' = [pc EXCEPT ![u] = at]
    BY <1>6 DEF StartRun, Refuse, UserPCs
  <2>2. PluginTypes'
    BY <1>6 DEF StartRun, PluginTypes, PluginStates
  <2> QED
    BY <1>6, <2>1, <2>2, UserMoves DEF StartRun
<1>7. ASSUME NEW u \in Users, CountUser(u) PROVE TypeOK'
  <2>1. plug[u] \in Plugins
    BY DEF ThreadTypes
  <2>2. PICK at \in UserPCs : pc' = [pc EXCEPT ![u] = at]
    BY <1>7 DEF CountUser, UserPCs
  <2>3. ThreadTypes'
    BY <1>7, <2>2, UserMoves DEF CountUser
  <2>4. PluginTypes'
    BY <1>7, <2>1 DEF CountUser, PluginTypes
  <2>5. HistTypes'
    BY <1>7, <2>1 DEF CountUser, HistTypes, PluginTypes
  <2> QED
    BY <2>3, <2>4, <2>5
<1>8. ASSUME NEW p \in Plugins, NEW ok \in BOOLEAN, OpenLibrary(p, ok)
      PROVE  PluginTypes'
  BY <1>8 DEF OpenLibrary, PluginTypes, PluginStates
<1>9. ASSUME NEW p \in Plugins, NEW ok \in BOOLEAN,
             NEW next \in PluginStates, AdvanceLoad(p, ok, next),
             ResetByInit(p) \/ UNCHANGED tried_to_shutdown
      PROVE  PluginTypes'
  BY <1>9 DEF AdvanceLoad, ResetByInit, PluginTypes, PluginStates
<1>10. ASSUME NEW u \in Users, NEW ok \in BOOLEAN, NEW next \in UserPCs,
              LoadGoesOn(u, ok, next)
       PROVE  ThreadTypes' /\ HistTypes'
  <2>1. PICK at \in UserPCs : pc' = [pc EXCEPT ![u] = at]
    BY <1>10 DEF LoadGoesOn, Refuse
  <2> QED
    BY <1>10, <2>1, UserMoves DEF LoadGoesOn
<1>11. ASSUME NEW u \in Users, NEW ok \in BOOLEAN,
              LoadOpen(u, ok) \/ LoadResolve(u, ok) \/ LoadInit(u, ok)
       PROVE  TypeOK'
  <2>1. plug[u] \in Plugins
    BY DEF ThreadTypes
  <2>2. CASE LoadOpen(u, ok)
    BY <1>8, <1>10, <2>1, <2>2 DEF LoadOpen, UserPCs
  <2>3. CASE LoadResolve(u, ok)
    BY <1>9, <1>10, <2>1, <2>3 DEF LoadResolve, UserPCs, PluginStates
  <2>4. CASE LoadInit(u, ok)
    BY <1>9, <1>10, <2>1, <2>4 DEF LoadInit, UserPCs, PluginStates
  <2> QED
    BY <1>11, <2>2, <2>3, <2>4
<1>12. ASSUME NEW u \in Users, NEW p \in Plugins, Leak(u, p) PROVE HistTypes'
  BY <1>12 DEF Leak, HistTypes
<1>13. ASSUME NEW u \in Users,
              AbandonWs(u) \/ StopCheck(u) \/ StopTimeout(u)
       PROVE  TypeOK'
  <2>1. plug[u] \in Plugins
    BY DEF ThreadTypes
  <2>2. PICK at \in UserPCs : pc' = [pc EXCEPT ![u] = at]
    BY <1>13 DEF AbandonWs, StopCheck, StopTimeout, UserPCs
  <2>3. ThreadTypes'
    BY <1>13, <2>2, UserMoves DEF AbandonWs, StopCheck, StopTimeout
  <2>4. PluginTypes'
    BY <1>13 DEF AbandonWs, StopCheck, StopTimeout
  <2>5. HistTypes'
    BY <1>12, <1>13, <2>1 DEF AbandonWs, StopCheck, StopTimeout
  <2> QED
    BY <2>3, <2>4, <2>5
<1>14. ASSUME NEW u \in Users, StopLock(u) PROVE TypeOK'
  <2>1. plug[u] \in Plugins
    BY DEF ThreadTypes
  <2>2. ThreadTypes'
    BY <1>14, UserMoves DEF StopLock, UserPCs
  <2>3. PluginTypes'
    BY <1>14, <2>1 DEF StopLock, PluginTypes
  <2>4. HistTypes'
    BY <1>14, <2>1 DEF StopLock, HistTypes
  <2> QED
    BY <2>2, <2>3, <2>4
<1>15. ASSUME NEW u \in Users, StopUnlock(u) PROVE TypeOK'
  <2>1. ThreadTypes'
    BY <1>15, UserMoves DEF StopUnlock, UserPCs
  <2>2. PluginTypes'
    BY <1>15 DEF StopUnlock, PluginTypes, PluginStates
  <2> QED
    BY <1>15, <2>1, <2>2 DEF StopUnlock
<1>16. ASSUME HkStep PROVE ThreadTypes' /\ HistTypes'
  <2>1. /\ pluginCount \in 0..MaxPlugin /\ hki \in 1..MaxPlugin+1
        /\ hk # "look" => hki \in 1..MaxPlugin
        /\ release_plugins \in BOOLEAN /\ reload_plugins \in BOOLEAN
    BY DEF ThreadTypes, PluginTypes, Plugins
  <2>2. /\ hk' \in HkPCs /\ hki' \in 1..MaxPlugin+1
        /\ hk' # "look" => hki' \in 1..MaxPlugin
    <3>1. CASE HkBoot \/ HkLook \/ HkUnload
      BY <2>1, <3>1 DEF HkBoot, HkLook, HkUnload, HkPCs
    <3>2. CASE HkCloseNothing \/ HkClose \/ HkMark \/ HkPassDone
      BY <2>1, <3>2 DEF HkCloseNothing, HkClose, HkMark, HkPassDone, HkPCs
    <3>3. CASE HkScanNew \/ HkScanDone
      BY <2>1, <3>3 DEF HkScanNew, HkScanDone, HkPCs
    <3>4. ASSUME NEW ok \in BOOLEAN,
                 HkScanOpen(ok) \/ HkScanResolve(ok) \/ HkScanInit(ok)
          PROVE  hk' \in HkPCs /\ hki' = hki /\ hk # "look"
      BY <3>4 DEF HkScanOpen, HkScanResolve, HkScanInit, HkScanGoesOn, HkPCs
    <3> QED
      BY <1>16, <2>1, <3>1, <3>2, <3>3, <3>4 DEF HkStep
  <2>3. /\ release_plugins' \in BOOLEAN /\ reload_plugins' \in BOOLEAN
        /\ lock' \in {lock, "free"}
        /\ UNCHANGED userVars /\ UNCHANGED histVars
    BY <1>16, <2>1
       DEF HkStep, HkBoot, HkLook, HkUnload, HkCloseNothing, HkClose, HkMark,
           HkPassDone, HkScanNew, HkScanDone, HkScanOpen, HkScanResolve,
           HkScanInit, HkScanGoesOn, flagVars
  <2>4. ThreadTypes'
    BY <2>2, <2>3, HkMoves DEF Plugins
  <2> QED
    BY <2>3, <2>4
<1>17. ASSUME HkStep PROVE PluginTypes'
  <2>1. CASE HkBoot \/ HkLook \/ HkPassDone \/ HkScanDone
    BY <2>1 DEF HkBoot, HkLook, HkPassDone, HkScanDone
  <2>2. CASE HkUnload
    BY <2>2 DEF HkUnload, PluginTypes, PluginStates
  <2>3. CASE HkCloseNothing \/ HkClose \/ HkMark
    BY <2>3 DEF HkCloseNothing, HkClose, HkMark, PluginTypes, PluginStates
  <2>4. CASE HkScanNew
    <3>1. pluginCount' \in 0..MaxPlugin
      BY <2>4 DEF HkScanNew, PluginTypes
    <3>2. state' \in [Plugins -> PluginStates]
      BY <2>4 DEF HkScanNew, PluginTypes, PluginStates
    <3> QED
      BY <2>4, <3>1, <3>2 DEF HkScanNew, PluginTypes
  <2>5. ASSUME NEW ok \in BOOLEAN,
               HkScanOpen(ok) \/ HkScanResolve(ok) \/ HkScanInit(ok)
        PROVE  PluginTypes'
    <3>1. hki \in Plugins
      BY <2>5 DEF HkScanOpen, HkScanResolve, HkScanInit, ThreadTypes
    <3> QED
      BY <1>8, <1>9, <2>5, <3>1
         DEF HkScanOpen, HkScanResolve, HkScanInit, PluginStates
  <2> QED
    BY <1>17, <2>1, <2>2, <2>3, <2>4, <2>5 DEF HkStep
<1>18. CASE RequestRelease \/ RequestReload
  BY <1>18 DEF RequestRelease, RequestReload, ThreadTypes, userVars
<1>19. ASSUME NEW p \in Plugins, IdleTimeoutPasses(p) PROVE TypeOK'
  <2>1. PluginTypes'
    BY <1>19 DEF IdleTimeoutPasses, PluginTypes
  <2> QED
    BY <1>19, <2>1 DEF IdleTimeoutPasses, ThreadTypes, flagVars, userVars
<1>20. CASE UNCHANGED vars
  BY <1>20 DEF vars, ThreadTypes, flagVars, userVars
<1> QED
  BY <1>1, <1>2, <1>3, <1>4, <1>5, <1>6, <1>7, <1>11, <1>13, <1>14, <1>15,
     <1>16, <1>17, <1>18, <1>19, <1>20
  DEF Next, UserStep, StartReuse, StartCount

-----------------------------------------------------------------------------
(* The lock. *)

\* A step of one user that takes, keeps or gives back the lock.
LEMMA LockMoves ==
  ASSUME TypeOK, Locking, NEW u \in Users, NEW at \in UserPCs,
         pc' = [pc EXCEPT ![u] = at], UNCHANGED hk,
         \/ lock = "free" /\ lock' = u /\ at \in Locked
         \/ lock' = lock /\ (pc[u] \in Locked <=> at \in Locked)
         \/ pc[u] \in Locked /\ lock' = "free" /\ at \notin Locked
  PROVE  Locking'
<1> USE HostAssumption DEF HostAssumption, TypeOK, ThreadTypes, Locking,
                           LockDiscipline
<1>1. ASSUME NEW v \in Users PROVE lock' = v <=> pc'[v] \in Locked
  <2>1. CASE v = u
    BY <2>1
  <2>2. CASE v # u
    <3>1. pc'[v] = pc[v]
      BY <2>2
    <3> QED
      BY <2>2, <3>1
  <2> QED
    BY <2>1, <2>2
<1>2. hk' = "boot" => lock' = "none"
  OBVIOUS
<1> QED
  BY <1>1, <1>2

LEMMA StepLocking ==
  ASSUME TypeOK, Locking, [Next]_vars
  PROVE  Locking'
<1> USE DEF Locked, LoadPCs
<1>1. ASSUME NEW u \in Users, NEW p \in Plugins, NEW k \in Kinds,
             StartCheck(u, p, k)
      PROVE  Locking'
  <2>1. PICK at \in {"using", "done", "lockStart"} : pc' = [pc EXCEPT ![u] = at]
    BY <1>1 DEF StartCheck, AfterRefusal
  <2> QED
    BY <1>1, <2>1, LockMoves DEF StartCheck, UserPCs
<1>2. ASSUME NEW u \in Users, StartLock(u) PROVE Locking'
  BY <1>2, LockMoves DEF StartLock, UserPCs
<1>3. ASSUME NEW u \in Users, StartTimeout(u) PROVE Locking'
  BY <1>3, LockMoves DEF StartTimeout, Refuse, AfterRefusal, UserPCs
<1>4. ASSUME NEW u \in Users, StartDecide(u) PROVE Locking'
  <2>1. PICK at \in {"ready", "check", "opening"} : pc' = [pc EXCEPT ![u] = at]
    BY <1>4 DEF StartDecide
  <2> QED
    BY <1>4, <2>1, LockMoves DEF StartDecide, UserPCs
<1>5. ASSUME NEW u \in Users, StartRecheck(u) PROVE Locking'
  BY <1>5, LockMoves DEF StartRecheck, Refuse, AfterRefusal, UserPCs
<1>6. ASSUME NEW u \in Users, StartRun(u) PROVE Locking'
  BY <1>6, LockMoves DEF StartRun, Refuse, AfterRefusal, UserPCs
<1>7. ASSUME NEW u \in Users, StartReuse(u) \/ StartCount(u) PROVE Locking'
  BY <1>7, LockMoves DEF StartReuse, StartCount, CountUser, UserPCs
<1>8. ASSUME NEW u \in Users, NEW ok \in BOOLEAN,
             LoadOpen(u, ok) \/ LoadResolve(u, ok) \/ LoadInit(u, ok)
      PROVE  Locking'
  BY <1>8, LockMoves DEF LoadOpen, LoadResolve, LoadInit, LoadGoesOn, Refuse,
                         AfterRefusal, UserPCs
<1>9. ASSUME NEW u \in Users, AbandonWs(u) \/ StopCheck(u) \/ StopTimeout(u)
      PROVE  Locking'
  <2>1. PICK at \in {"lockStop", "done"} : pc' = [pc EXCEPT ![u] = at]
    BY <1>9 DEF AbandonWs, StopCheck, StopTimeout
  <2> QED
    BY <1>9, <2>1, LockMoves DEF AbandonWs, StopCheck, StopTimeout, UserPCs
<1>10. ASSUME NEW u \in Users, StopLock(u) PROVE Locking'
  BY <1>10, LockMoves DEF StopLock, UserPCs
<1>11. ASSUME NEW u \in Users, StopUnlock(u) PROVE Locking'
  BY <1>11, LockMoves DEF StopUnlock, UserPCs
<1>12. CASE HkBoot
  BY <1>12, HostAssumption
     DEF HkBoot, Locking, LockDiscipline, userVars, HostAssumption
<1>13. ASSUME HkStep, ~HkBoot PROVE Locking'
  <2>1. UNCHANGED <<lock, pc>> /\ hk' # "boot"
    BY <1>13 DEF HkStep, HkLook, HkUnload, HkCloseNothing, HkClose, HkMark,
                 HkPassDone, HkScanNew, HkScanDone, HkScanOpen,
                 HkScanResolve, HkScanInit, HkScanGoesOn, userVars
  <2> QED
    BY <2>1 DEF Locking, LockDiscipline
<1>14. ASSUME RequestRelease \/ RequestReload
               \/ (\E p \in Plugins : IdleTimeoutPasses(p))
               \/ UNCHANGED vars
       PROVE  Locking'
  BY <1>14 DEF RequestRelease, RequestReload, IdleTimeoutPasses, vars,
               userVars, Locking, LockDiscipline
<1> QED
  BY <1>1, <1>2, <1>3, <1>4, <1>5, <1>6, <1>7, <1>8, <1>9, <1>10, <1>11,
     <1>12, <1>13, <1>14
  DEF Next, UserStep, HkStep

-----------------------------------------------------------------------------
(* The reference count. *)

LEMMA HoldersFinite == TypeOK => \A p \in Plugins : IsFiniteSet(holders[p])
BY HostAssumption, FS_Subset DEF HostAssumption, TypeOK, HistTypes

\* A user that holds nothing may move without changing what is held.
LEMMA StrangerMoves ==
  ASSUME TypeOK, HoldersUse, NEW u \in Users, pc[u] \notin {"using", "lockStop"},
         \A v \in Users \ {u} : pc'[v] = pc[v] /\ plug'[v] = plug[v],
         UNCHANGED holders
  PROVE  HoldersUse'
BY DEF HoldersUse, TypeOK, HistTypes

\* A slot whose counts and holders change together, and none else.
OnlySlot(p) ==
  \A q \in Plugins \ {p} :
    /\ used_count'[q] = used_count[q] /\ leaked'[q] = leaked[q]
    /\ unearned'[q] = unearned[q] /\ holders'[q] = holders[q]

LEMMA CountsMove ==
  ASSUME TypeOK, TypeOK', RefCountExact, NEW p \in Plugins, OnlySlot(p),
         used_count'[p] - used_count[p]
           = (Cardinality(holders'[p]) - Cardinality(holders[p]))
             + (leaked'[p] - leaked[p]) - (unearned'[p] - unearned[p])
  PROVE  RefCountExact'
<1> SUFFICES ASSUME NEW q \in Plugins
             PROVE  used_count'[q]
                      = Cardinality(holders'[q]) + leaked'[q] - unearned'[q]
  BY DEF RefCountExact
<1>1. /\ used_count[q] = Cardinality(holders[q]) + leaked[q] - unearned[q]
      /\ used_count[q] \in Int /\ leaked[q] \in Int /\ unearned[q] \in Int
      /\ Cardinality(holders[q]) \in Int
  <2>1. Cardinality(holders[q]) \in Int
    BY HoldersFinite, FS_CardinalityType
  <2> QED
    BY <2>1 DEF RefCountExact, TypeOK, HistTypes, PluginTypes
<1>2. /\ used_count'[q] \in Int /\ leaked'[q] \in Int /\ unearned'[q] \in Int
      /\ holders'[q] \subseteq Users
  BY DEF TypeOK, HistTypes, PluginTypes
<1>3. Cardinality(holders'[q]) \in Int
  BY <1>2, HostAssumption, FS_Subset, FS_CardinalityType DEF HostAssumption
<1>4. CASE q = p
  BY <1>1, <1>2, <1>3, <1>4
<1>5. CASE q # p
  BY <1>1, <1>5 DEF OnlySlot
<1> QED
  BY <1>4, <1>5

\* The sizes of the set of holders.
LEMMA OneMoreOrLess ==
  ASSUME TypeOK, NEW p \in Plugins, NEW u \in Users
  PROVE  /\ Cardinality(holders[p]) \in Int
         /\ u \notin holders[p] =>
              Cardinality(holders[p] \cup {u}) = Cardinality(holders[p]) + 1
         /\ u \in holders[p] =>
              Cardinality(holders[p] \ {u}) = Cardinality(holders[p]) - 1
         /\ u \notin holders[p] => holders[p] \ {u} = holders[p]
<1>1. IsFiniteSet(holders[p])
  BY HoldersFinite
<1>2. Cardinality(holders[p]) \in Int
  BY <1>1, FS_CardinalityType
<1>3. u \notin holders[p] =>
        Cardinality(holders[p] \cup {u}) = Cardinality(holders[p]) + 1
  BY <1>1, FS_AddElement
<1>4. u \in holders[p] =>
        Cardinality(holders[p] \ {u}) = Cardinality(holders[p]) - 1
  BY <1>1, FS_RemoveElement
<1> QED
  BY <1>2, <1>3, <1>4

LEMMA StepCounted ==
  ASSUME TypeOK, TypeOK', HoldersUse, RefCountExact, [Next]_vars
  PROVE  HoldersUse' /\ RefCountExact'
<1> USE DEF TypeOK, ThreadTypes
<1>1. ASSUME UNCHANGED <<used_count, holders, leaked, unearned>>
      PROVE  RefCountExact'
  BY <1>1 DEF RefCountExact
<1>2. ASSUME NEW u \in Users, NEW p \in Plugins, NEW k \in Kinds,
             StartCheck(u, p, k)
      PROVE  HoldersUse' /\ RefCountExact'
  BY <1>1, <1>2, StrangerMoves DEF StartCheck, pluginVars, histVars
<1>3. ASSUME NEW u \in Users, StartLock(u)
      PROVE  HoldersUse' /\ RefCountExact'
  BY <1>1, <1>3, StrangerMoves DEF StartLock, histVars
<1>4. ASSUME NEW u \in Users,
             StartTimeout(u) \/ StartDecide(u) \/ StartRecheck(u) \/ StartRun(u)
      PROVE  HoldersUse' /\ RefCountExact'
  BY <1>1, <1>4, StrangerMoves
     DEF StartTimeout, StartDecide, StartRecheck, StartRun, Refuse, pluginVars,
         histVars
<1>5. ASSUME NEW u \in Users, NEW ok \in BOOLEAN,
             LoadOpen(u, ok) \/ LoadResolve(u, ok) \/ LoadInit(u, ok)
      PROVE  HoldersUse' /\ RefCountExact'
  BY <1>1, <1>5, StrangerMoves
     DEF LoadOpen, LoadResolve, LoadInit, OpenLibrary, AdvanceLoad,
         LoadGoesOn, Refuse, histVars
<1>6. ASSUME NEW u \in Users, StartReuse(u) \/ StartCount(u)
      PROVE  HoldersUse' /\ RefCountExact'
  <2> DEFINE p == plug[u]
  <2>1. p \in Plugins /\ CountUser(u) /\ pc[u] \in {"entered", "running"}
    BY <1>6 DEF StartReuse, StartCount
  <2>2. /\ used_count'[p] = used_count[p] + 1 /\ unearned'[p] = unearned[p]
        /\ OnlySlot(p)
    BY <2>1 DEF CountUser, OnlySlot, PluginTypes, HistTypes
  <2>3. used_count[p] \in Int /\ leaked[p] \in Int /\ unearned[p] \in Int
    BY <2>1 DEF PluginTypes, HistTypes
  <2>4. CASE kind[u] = "cli"
    <3>1. UNCHANGED holders /\ leaked'[p] = leaked[p] + 1
      BY <2>1, <2>4 DEF CountUser, HistTypes
    <3>2. HoldersUse'
      BY <2>1, <3>1, StrangerMoves DEF CountUser
    <3>3. RefCountExact'
      <4>1. Cardinality(holders[p]) \in Int /\ holders'[p] = holders[p]
        BY <2>1, <3>1, OneMoreOrLess
      <4> QED
        BY <2>1, <2>2, <2>3, <3>1, <4>1, CountsMove
    <3> QED
      BY <3>2, <3>3
  <2>5. CASE kind[u] # "cli"
    <3>1. u \notin holders[p]
      BY <2>1 DEF HoldersUse
    <3>2. /\ holders' = [holders EXCEPT ![p] = @ \cup {u}]
          /\ pc' = [pc EXCEPT ![u] = "using"]
          /\ UNCHANGED <<leaked, plug>>
      BY <2>1, <2>5 DEF CountUser
    <3>3. HoldersUse'
      BY <2>1, <3>2 DEF HoldersUse, HistTypes
    <3>4. holders'[p] = holders[p] \cup {u}
      BY <2>1, <3>2 DEF HistTypes
    <3>5. RefCountExact'
      BY <2>1, <2>2, <2>3, <3>1, <3>2, <3>4, OneMoreOrLess, CountsMove
    <3> QED
      BY <3>3, <3>5
  <2> QED
    BY <2>4, <2>5
<1>7. ASSUME NEW u \in Users, NEW p \in Plugins, Leak(u, p),
             UNCHANGED used_count
      PROVE  RefCountExact'
  <2>1. /\ holders'[p] = holders[p] \ {u} /\ unearned'[p] = unearned[p]
        /\ leaked'[p] = leaked[p] + (IF u \in holders[p] THEN 1 ELSE 0)
        /\ OnlySlot(p)
    BY <1>7 DEF Leak, OnlySlot, HistTypes
  <2>2. used_count[p] \in Int /\ leaked[p] \in Int /\ unearned[p] \in Int
    BY DEF PluginTypes, HistTypes
  <2>3. CASE u \in holders[p]
    BY <1>7, <2>1, <2>2, <2>3, OneMoreOrLess, CountsMove
  <2>4. CASE u \notin holders[p]
    <3>1. holders'[p] = holders[p] /\ leaked'[p] = leaked[p]
      BY <2>1, <2>2, <2>4
    <3>2. Cardinality(holders[p]) \in Int
      BY OneMoreOrLess
    <3> QED
      BY <1>7, <2>1, <2>2, <3>1, <3>2, CountsMove
  <2> QED
    BY <2>3, <2>4
<1>8. ASSUME NEW u \in Users, pc' = [pc EXCEPT ![u] = "done"],
             Leak(u, plug[u]), UNCHANGED plug
      PROVE  HoldersUse'
  BY <1>8 DEF HoldersUse, Leak, HistTypes
<1>9. ASSUME NEW u \in Users, AbandonWs(u) \/ StopTimeout(u)
      PROVE  HoldersUse' /\ RefCountExact'
  BY <1>7, <1>8, <1>9 DEF AbandonWs, StopTimeout, pluginVars
<1>10. ASSUME NEW u \in Users, StopCheck(u)
       PROVE  HoldersUse' /\ RefCountExact'
  <2>1. CASE handle[plug[u]]
    <3>1. /\ pc' = [pc EXCEPT ![u] = "lockStop"]
          /\ UNCHANGED <<plug, used_count, holders, leaked, unearned>>
      BY <1>10, <2>1 DEF StopCheck, pluginVars, histVars
    <3>2. pc[u] = "using"
      BY <1>10 DEF StopCheck
    <3>3. HoldersUse'
      BY <3>1, <3>2 DEF HoldersUse, HistTypes
    <3> QED
      BY <1>1, <3>1, <3>3
  <2>2. CASE ~handle[plug[u]]
    BY <1>7, <1>8, <1>10, <2>2 DEF StopCheck, pluginVars
  <2> QED
    BY <2>1, <2>2
<1>11. ASSUME NEW u \in Users, StopLock(u)
       PROVE  HoldersUse' /\ RefCountExact'
  <2> DEFINE p == plug[u]
  <2>1. p \in Plugins
    OBVIOUS
  <2>2. HoldersUse'
    BY <1>11 DEF StopLock, HoldersUse, HistTypes
  <2>3. /\ used_count'[p] = used_count[p] - 1 /\ leaked'[p] = leaked[p]
        /\ holders'[p] = holders[p] \ {u}
        /\ unearned'[p] = unearned[p] + (IF u \in holders[p] THEN 0 ELSE 1)
        /\ OnlySlot(p)
    BY <1>11, <2>1 DEF StopLock, OnlySlot, HistTypes, PluginTypes
  <2>4. used_count[p] \in Int /\ leaked[p] \in Int /\ unearned[p] \in Int
    BY <2>1 DEF PluginTypes, HistTypes
  <2>5. CASE u \in holders[p]
    BY <2>1, <2>2, <2>3, <2>4, <2>5, OneMoreOrLess, CountsMove
  <2>6. CASE u \notin holders[p]
    <3>1. holders'[p] = holders[p] /\ unearned'[p] = unearned[p] + 1
      BY <2>3, <2>6
    <3>2. Cardinality(holders[p]) \in Int
      BY <2>1, OneMoreOrLess
    <3> QED
      BY <2>1, <2>2, <2>3, <2>4, <3>1, <3>2, CountsMove
  <2> QED
    BY <2>5, <2>6
<1>12. ASSUME NEW u \in Users, StopUnlock(u)
       PROVE  HoldersUse' /\ RefCountExact'
  BY <1>1, <1>12, StrangerMoves DEF StopUnlock, histVars
<1>13. ASSUME HkStep PROVE HoldersUse' /\ RefCountExact'
  <2>1. UNCHANGED <<used_count, holders, leaked, unearned, pc, plug>>
    BY <1>13
       DEF HkStep, HkBoot, HkLook, HkUnload, HkCloseNothing, HkClose, HkMark,
           HkPassDone, HkScanNew, HkScanDone, HkScanOpen, HkScanResolve,
           HkScanInit, HkScanGoesOn, OpenLibrary, AdvanceLoad, pluginVars,
           userVars, histVars
  <2> QED
    BY <1>1, <2>1 DEF HoldersUse
<1>14. ASSUME RequestRelease \/ RequestReload
               \/ (\E p \in Plugins : IdleTimeoutPasses(p))
               \/ UNCHANGED vars
       PROVE  HoldersUse' /\ RefCountExact'
  <2>1. UNCHANGED <<used_count, holders, leaked, unearned, pc, plug>>
    BY <1>14 DEF RequestRelease, RequestReload, IdleTimeoutPasses, vars,
                 pluginVars, userVars, histVars
  <2> QED
    BY <1>1, <2>1 DEF HoldersUse
<1> QED
  BY <1>2, <1>3, <1>4, <1>5, <1>6, <1>9, <1>10, <1>11, <1>12, <1>13, <1>14
  DEF Next, UserStep

-----------------------------------------------------------------------------
(* Names and loaders. *)

LEMMA StepNames ==
  ASSUME TypeOK, NamesFirst, [Next]_vars
  PROVE  NamesFirst'
<1> USE DEF TypeOK, ThreadTypes, PluginTypes
\* Most steps leave the names alone and every caller at its plugin.
<1>1. ASSUME UNCHANGED <<named, pluginCount, hki, plug>>,
             hk' \in HkScans => hk \in HkScans,
             hk' = "scanOpen" => hk = "scanOpen",
             \A u \in Users : pc[u] = "idle" => pc'[u] = "idle"
      PROVE  NamesFirst'
  BY <1>1 DEF NamesFirst
<1>2. ASSUME NEW u \in Users, NEW p \in Plugins, NEW k \in Kinds,
             StartCheck(u, p, k)
      PROVE  NamesFirst'
  <2>1. /\ UNCHANGED <<named, pluginCount, hk, hki>> /\ named[p]
        /\ plug' = [plug EXCEPT ![u] = p]
        /\ \A v \in Users \ {u} : pc'[v] = pc[v]
    BY <1>2 DEF StartCheck, pluginVars
  <2> QED
    BY <2>1 DEF NamesFirst
<1>3. ASSUME NEW u \in Users, UserStep(u) \/ AbandonWs(u),
             \A ok \in BOOLEAN : ~LoadOpen(u, ok)
      PROVE  NamesFirst'
  <2>1. UNCHANGED <<named, pluginCount, hk, hki, plug>>
    BY <1>3
       DEF UserStep, StartLock, StartTimeout, StartDecide, StartRecheck,
           StartRun, StartReuse, StartCount, CountUser, LoadResolve, LoadInit,
           AdvanceLoad, LoadGoesOn, AbandonWs, StopCheck, StopTimeout,
           StopLock, StopUnlock, pluginVars
  <2>2. pc[u] # "idle" /\ \A v \in Users \ {u} : pc'[v] = pc[v]
    BY <1>3
       DEF UserStep, StartLock, StartTimeout, StartDecide, StartRecheck,
           StartRun, StartReuse, StartCount, CountUser, LoadResolve, LoadInit,
           LoadGoesOn, AbandonWs, StopCheck, StopTimeout, StopLock,
           StopUnlock, Refuse
  <2> QED
    BY <1>1, <2>1, <2>2
<1>4. ASSUME NEW u \in Users, NEW ok \in BOOLEAN, LoadOpen(u, ok)
      PROVE  NamesFirst'
  <2>1. pc[u] = "opening" /\ named[plug[u]]
    BY <1>4 DEF LoadOpen, NamesFirst
  <2>2. \A p \in Plugins : named'[p] = named[p]
    BY <1>4, <2>1 DEF LoadOpen, OpenLibrary
  <2>3. UNCHANGED <<pluginCount, hk, hki, plug>>
    BY <1>4 DEF LoadOpen, OpenLibrary, LoadGoesOn
  <2>4. \A v \in Users : pc[v] = "idle" => pc'[v] = "idle"
    BY <1>4, <2>1 DEF LoadOpen, LoadGoesOn, Refuse
  <2>5. hk = "scanOpen" => ~named'[hki]
    BY <2>2 DEF NamesFirst
  <2> QED
    BY <2>2, <2>3, <2>4, <2>5 DEF NamesFirst
<1>5. CASE HkScanNew
  <2>1. /\ pluginCount' = pluginCount + 1 /\ hki' = pluginCount + 1
        /\ UNCHANGED <<named, pc, plug>>
        /\ pluginCount + 1 \in Plugins
    BY <1>5, HostAssumption DEF HkScanNew, userVars, Plugins, HostAssumption
  <2>2. ~named[pluginCount + 1]
    BY <2>1 DEF NamesFirst
  <2> QED
    BY <2>1, <2>2 DEF NamesFirst, Plugins
<1>6. ASSUME NEW ok \in BOOLEAN, HkScanOpen(ok) PROVE NamesFirst'
  <2>1. hki \in Plugins /\ hki <= pluginCount
    BY <1>6 DEF HkScanOpen, NamesFirst, HkScans
  <2>2. /\ named' = [named EXCEPT ![hki] = @ \/ ok]
        /\ UNCHANGED <<pluginCount, hki, pc, plug>> /\ hk' # "scanOpen"
    BY <1>6 DEF HkScanOpen, OpenLibrary, HkScanGoesOn, userVars
  <2>3. \A p \in Plugins : named[p] => named'[p]
    BY <2>2
  <2>4. \A p \in Plugins : named'[p] => named[p] \/ p = hki
    BY <2>2
  <2> QED
    BY <2>1, <2>2, <2>3, <2>4 DEF NamesFirst
<1>7. ASSUME NEW ok \in BOOLEAN, HkScanResolve(ok) \/ HkScanInit(ok)
      PROVE  NamesFirst'
  BY <1>1, <1>7 DEF HkScanResolve, HkScanInit, AdvanceLoad, HkScanGoesOn,
                    HkScans, userVars
<1>8. ASSUME HkBoot \/ HkLook \/ HkUnload \/ HkCloseNothing \/ HkClose
             \/ HkMark \/ HkPassDone \/ HkScanDone
      PROVE  NamesFirst'
  <2>1. UNCHANGED <<named, pluginCount, pc, plug>> /\ hk' \notin HkScans
    BY <1>8 DEF HkBoot, HkLook, HkUnload, HkCloseNothing, HkClose, HkMark,
                HkPassDone, HkScanDone, pluginVars, userVars, HkScans
  <2> QED
    BY <2>1 DEF NamesFirst, HkScans
<1>9. ASSUME RequestRelease \/ RequestReload
               \/ (\E p \in Plugins : IdleTimeoutPasses(p))
               \/ UNCHANGED vars
      PROVE  NamesFirst'
  BY <1>1, <1>9 DEF RequestRelease, RequestReload, IdleTimeoutPasses, vars,
                    pluginVars, userVars
<1> QED
  BY <1>2, <1>3, <1>4, <1>5, <1>6, <1>7, <1>8, <1>9 DEF Next, HkStep, UserStep

\* The lock has one holder.
LEMMA OneLocked ==
  ASSUME Locking, NEW u \in Users, NEW v \in Users,
         pc[u] \in Locked, pc[v] \in Locked
  PROVE  u = v
BY DEF Locking, LockDiscipline

LEMMA StepApart ==
  ASSUME TypeOK, Locking, NamesFirst, LoaderState, HkApart, [Next]_vars
  PROVE  LoaderState' /\ HkApart'
<1> USE DEF TypeOK, ThreadTypes, PluginTypes
\* A user who neither loads nor is about to, and changes no slot.
<1>1. ASSUME UNCHANGED <<state, handle, hk, hki>>,
             \A u \in Users : pc'[u] \in LoadPCs =>
                                pc'[u] = pc[u] /\ plug'[u] = plug[u]
      PROVE  LoaderState' /\ HkApart'
  BY <1>1 DEF LoaderState, HkApart, LoadPCs
<1>2. ASSUME NEW u \in Users, NEW p \in Plugins, NEW k \in Kinds,
             StartCheck(u, p, k)
      PROVE  LoaderState' /\ HkApart'
  <2>1. PICK at \in {"using", "done", "lockStart"} : pc' = [pc EXCEPT ![u] = at]
    BY <1>2 DEF StartCheck, AfterRefusal
  <2> QED
    BY <1>1, <1>2, <2>1 DEF StartCheck, pluginVars, LoadPCs
<1>3. ASSUME NEW u \in Users, StartLock(u) \/ StartTimeout(u)
      PROVE  LoaderState' /\ HkApart'
  <2>1. PICK at \in {"using", "done", "entered"} : pc' = [pc EXCEPT ![u] = at]
    BY <1>3 DEF StartLock, StartTimeout, Refuse, AfterRefusal
  <2> QED
    BY <1>1, <1>3, <2>1 DEF StartLock, StartTimeout, pluginVars, LoadPCs
<1>4. ASSUME NEW u \in Users, StartDecide(u) PROVE LoaderState' /\ HkApart'
  <2>1. UNCHANGED <<state, handle, hk, hki, plug>> /\ pc[u] = "entered"
    BY <1>4 DEF StartDecide, pluginVars
  <2>2. CASE pc' = [pc EXCEPT ![u] = "opening"]
             /\ state[plug[u]] \in BelowInitialized /\ ~handle[plug[u]]
    <3>1. LoaderState'
      BY <2>1, <2>2 DEF LoaderState
    <3>2. named[plug[u]] /\ plug[u] \in Plugins
      BY <2>1 DEF NamesFirst
    <3>3. hk \in HkScans \cup {"closing", "marking"} => plug[u] # hki
      BY <2>2, <3>2 DEF NamesFirst, HkApart, HkScans, BelowInitialized
    <3>4. HkApart'
      BY <2>1, <2>2, <3>3 DEF HkApart
    <3> QED
      BY <3>1, <3>4
  <2>3. CASE \E at \in {"ready", "check"} : pc' = [pc EXCEPT ![u] = at]
    BY <1>1, <2>1, <2>3 DEF LoadPCs
  <2> QED
    BY <1>4, <2>2, <2>3 DEF StartDecide
<1>5. ASSUME NEW u \in Users, StartRecheck(u) PROVE LoaderState' /\ HkApart'
  <2>1. PICK at \in {"using", "done", "ready"} : pc' = [pc EXCEPT ![u] = at]
    BY <1>5 DEF StartRecheck, Refuse, AfterRefusal
  <2> QED
    BY <1>1, <1>5, <2>1 DEF StartRecheck, pluginVars, LoadPCs
<1>6. ASSUME NEW u \in Users, StartReuse(u) \/ StartCount(u)
      PROVE  LoaderState' /\ HkApart'
  <2>1. PICK at \in {"using", "done"} : pc' = [pc EXCEPT ![u] = at]
    BY <1>6 DEF StartReuse, StartCount, CountUser
  <2> QED
    BY <1>1, <1>6, <2>1 DEF StartReuse, StartCount, CountUser, LoadPCs
<1>7. ASSUME NEW u \in Users, AbandonWs(u) \/ StopCheck(u) \/ StopTimeout(u)
      PROVE  LoaderState' /\ HkApart'
  <2>1. PICK at \in {"lockStop", "done"} : pc' = [pc EXCEPT ![u] = at]
    BY <1>7 DEF AbandonWs, StopCheck, StopTimeout
  <2> QED
    BY <1>1, <1>7, <2>1 DEF AbandonWs, StopCheck, StopTimeout, pluginVars,
                            LoadPCs
<1>8. ASSUME NEW u \in Users, StopLock(u) PROVE LoaderState' /\ HkApart'
  BY <1>1, <1>8 DEF StopLock, LoadPCs
\* Under the lock, no other user loads: a state may change.
<1>9. ASSUME NEW u \in Users, pc[u] \in Locked \ LoadPCs, NEW s,
             state' = [state EXCEPT ![plug[u]] = s],
             s \in {"RUNNING", "INITIALIZED", state[plug[u]]},
             NEW at \in UserPCs \ LoadPCs, pc' = [pc EXCEPT ![u] = at],
             UNCHANGED <<handle, hk, hki, plug>>
      PROVE  LoaderState' /\ HkApart'
  <2>1. \A v \in Users : pc'[v] \notin LoadPCs
    BY <1>9, OneLocked DEF Locked
  <2>2. hk \in {"closing", "marking"} =>
          state'[hki] \in {"SHUTTING_DOWN", "RUNNING", "INITIALIZED"}
    BY <1>9 DEF HkApart
  <2> QED
    BY <1>9, <2>1, <2>2 DEF LoaderState, HkApart, LoadPCs
<1>10. ASSUME NEW u \in Users, StartRun(u) PROVE LoaderState' /\ HkApart'
  <2>1. CASE state' = [state EXCEPT ![plug[u]] = "RUNNING"]
             /\ pc' = [pc EXCEPT ![u] = "running"]
    BY <1>9, <1>10, <2>1 DEF StartRun, Locked, LoadPCs, UserPCs
  <2>2. CASE Refuse(u) /\ UNCHANGED state
    <3>1. PICK at \in {"using", "done"} : pc' = [pc EXCEPT ![u] = at]
      BY <2>2 DEF Refuse, AfterRefusal
    <3> QED
      BY <1>1, <1>10, <2>2, <3>1 DEF StartRun, LoadPCs
  <2> QED
    BY <1>10, <2>1, <2>2 DEF StartRun
<1>11. ASSUME NEW u \in Users, StopUnlock(u) PROVE LoaderState' /\ HkApart'
  BY <1>9, <1>11 DEF StopUnlock, Locked, LoadPCs, UserPCs
\* A user's own load: its slot is neither scanned nor closed.
<1>12. ASSUME NEW u \in Users, pc[u] \in LoadPCs, NEW ok \in BOOLEAN,
              NEW next \in UserPCs, NEW s \in PluginStates,
              LoadGoesOn(u, ok, next),
              state' = [state EXCEPT ![plug[u]] = s],
              \A p \in Plugins \ {plug[u]} : handle'[p] = handle[p],
              ok /\ next = "resolving" => s = "LOADING",
              ok /\ next = "initializing" => s = "LOADED",
              next # "opening"
       PROVE  LoaderState' /\ HkApart'
  <2>1. PICK at \in UserPCs : /\ pc' = [pc EXCEPT ![u] = at]
                              /\ (at = next /\ ok) \/ at \in {"using", "done"}
    BY <1>12 DEF LoadGoesOn, Refuse, AfterRefusal, UserPCs
  <2>2. \A v \in Users \ {u} : pc'[v] = pc[v] /\ pc[v] \notin LoadPCs
    BY <1>12, <2>1, OneLocked DEF Locked
  <2>3. UNCHANGED <<hk, hki, plug>>
    BY <1>12 DEF LoadGoesOn
  <2>4. LoaderState'
    BY <1>12, <2>1, <2>2, <2>3 DEF LoaderState, LoadPCs
  <2>5. hk \in HkScans \cup {"closing", "marking"} => plug[u] # hki
    BY <1>12 DEF HkApart
  <2>6. HkApart'
    BY <1>12, <2>2, <2>3, <2>5 DEF HkApart, HkScans
  <2> QED
    BY <2>4, <2>6
<1>13. ASSUME NEW u \in Users, NEW ok \in BOOLEAN, LoadOpen(u, ok)
       PROVE  LoaderState' /\ HkApart'
  BY <1>12, <1>13
     DEF LoadOpen, OpenLibrary, LoadPCs, UserPCs, PluginStates
<1>14. ASSUME NEW u \in Users, NEW ok \in BOOLEAN, LoadResolve(u, ok)
       PROVE  LoaderState' /\ HkApart'
  BY <1>12, <1>14
     DEF LoadResolve, AdvanceLoad, LoadPCs, UserPCs, PluginStates
<1>15. ASSUME NEW u \in Users, NEW ok \in BOOLEAN, LoadInit(u, ok)
       PROVE  LoaderState' /\ HkApart'
  BY <1>12, <1>15
     DEF LoadInit, AdvanceLoad, LoadPCs, UserPCs, PluginStates
<1>16. CASE HkBoot \/ HkLook \/ HkPassDone \/ HkScanDone
  BY <1>16 DEF HkBoot, HkLook, HkPassDone, HkScanDone, pluginVars, userVars,
               LoaderState, HkApart, HkScans
<1>17. CASE HkUnload
  <2>1. UNCHANGED <<handle, pc, plug>>
    BY <1>17 DEF HkUnload, userVars
  <2>2. CASE UNCHANGED state /\ hk' = "look"
    BY <2>1, <2>2 DEF LoaderState, HkApart, HkScans
  <2>3. CASE /\ state[hki] = "INITIALIZED" /\ hk' = "closing" /\ hki' = hki
             /\ state' = [state EXCEPT ![hki] = "SHUTTING_DOWN"]
    <3>1. hki \in Plugins
      BY <1>17 DEF HkUnload
    <3>2. \A u \in Users : pc[u] \in LoadPCs => plug[u] # hki
      BY <2>3 DEF LoaderState, LoadPCs, BelowInitialized
    <3>3. LoaderState'
      BY <2>1, <2>3, <3>2 DEF LoaderState, LoadPCs
    <3>4. HkApart'
      BY <2>1, <2>3, <3>1, <3>2 DEF HkApart, HkScans
    <3> QED
      BY <3>3, <3>4
  <2> QED
    BY <1>17, <2>2, <2>3 DEF HkUnload
<1>18. CASE HkCloseNothing \/ HkMark
  <2>1. /\ hk \in {"closing", "marking"} /\ hk' = "look"
        /\ UNCHANGED <<handle, pc, plug>>
        /\ \E s \in PluginStates : state' = [state EXCEPT ![hki] = s]
    BY <1>18 DEF HkCloseNothing, HkMark, userVars, PluginStates
  <2>2. \A u \in Users : pc[u] \in LoadPCs => plug[u] # hki
    BY <2>1 DEF HkApart
  <2> QED
    BY <2>1, <2>2 DEF LoaderState, HkApart, LoadPCs, HkScans
<1>19. CASE HkClose
  <2>1. /\ hk = "closing" /\ hk' = "marking" /\ hki \in Plugins
        /\ UNCHANGED <<state, hki, pc, plug>>
        /\ handle' = [handle EXCEPT ![hki] = FALSE]
    BY <1>19 DEF HkClose, userVars
  <2> QED
    BY <2>1 DEF LoaderState, HkApart, HkScans
<1>20. CASE HkScanNew
  <2>1. /\ pluginCount + 1 \in Plugins /\ hki' = pluginCount + 1
        /\ hk' = "scanOpen" /\ UNCHANGED <<handle, pc, plug>>
        /\ state' = [state EXCEPT ![pluginCount + 1] = "NONE"]
    BY <1>20, HostAssumption DEF HkScanNew, userVars, Plugins, HostAssumption
  <2>2. \A u \in Users : pc[u] \in LoadPCs => plug[u] # pluginCount + 1
    BY <2>1 DEF NamesFirst, LoadPCs
  <2> QED
    BY <2>1, <2>2 DEF LoaderState, HkApart, LoadPCs, HkScans
<1>21. ASSUME NEW ok \in BOOLEAN,
              HkScanOpen(ok) \/ HkScanResolve(ok) \/ HkScanInit(ok)
       PROVE  LoaderState' /\ HkApart'
  <2>1. /\ hk \in HkScans /\ hki \in Plugins /\ UNCHANGED <<hki, pc, plug>>
        /\ \E s \in PluginStates : state' = [state EXCEPT ![hki] = s]
    BY <1>21 DEF HkScanOpen, HkScanResolve, HkScanInit, OpenLibrary,
                 AdvanceLoad, HkScanGoesOn, userVars, HkScans, PluginStates
  <2>2. \A u \in Users : pc[u] \in LoadPCs => plug[u] # hki
    BY <2>1 DEF HkApart
  <2>3. hk' \in {"scan", "scanResolve", "scanInit"}
    BY <1>21 DEF HkScanOpen, HkScanResolve, HkScanInit, HkScanGoesOn
  <2>4. hk' # "scan" => handle'[hki]
    <3>1. CASE HkScanOpen(ok)
      BY <2>1, <3>1 DEF HkScanOpen, OpenLibrary, HkScanGoesOn
    <3>2. CASE HkScanResolve(ok)
      <4>1. handle[hki]
        BY <3>2 DEF HkScanResolve, HkApart
      <4> QED
        BY <2>1, <3>2, <4>1 DEF HkScanResolve, AdvanceLoad, HkScanGoesOn
    <3>3. CASE HkScanInit(ok)
      BY <3>3 DEF HkScanInit, HkScanGoesOn
    <3> QED
      BY <1>21, <3>1, <3>2, <3>3
  <2>5. LoaderState'
    <3>1. \A p \in Plugins \ {hki} : handle'[p] = handle[p]
      BY <1>21 DEF HkScanOpen, HkScanResolve, HkScanInit, OpenLibrary,
                   AdvanceLoad
    <3> QED
      BY <2>1, <2>2, <3>1 DEF LoaderState, LoadPCs
  <2>6. HkApart'
    BY <2>1, <2>2, <2>3, <2>4 DEF HkApart, HkScans
  <2> QED
    BY <2>5, <2>6
<1>22. ASSUME RequestRelease \/ RequestReload
               \/ (\E p \in Plugins : IdleTimeoutPasses(p))
               \/ UNCHANGED vars
       PROVE  LoaderState' /\ HkApart'
  BY <1>1, <1>22 DEF RequestRelease, RequestReload, IdleTimeoutPasses, vars,
                     pluginVars, userVars
<1> QED
  BY <1>2, <1>3, <1>4, <1>5, <1>6, <1>7, <1>8, <1>10, <1>11, <1>13, <1>14,
     <1>15, <1>16, <1>17, <1>18, <1>19, <1>20, <1>21, <1>22
  DEF Next, UserStep, HkStep

-----------------------------------------------------------------------------
(* Users keep their plugin loaded. *)

LEMMA NoHolders ==
  ASSUME TypeOK, RefCountExact, NEW p \in Plugins,
         used_count[p] < 1, unearned[p] = 0
  PROVE  holders[p] = {}
<1>1. IsFiniteSet(holders[p])
  BY HoldersFinite
<1>2. Cardinality(holders[p]) \in Nat
  BY <1>1, FS_CardinalityType
<1>3. leaked[p] \in Nat /\ used_count[p] \in Int
  BY DEF TypeOK, PluginTypes, HistTypes
<1>4. Cardinality(holders[p]) = 0
  BY <1>2, <1>3 DEF RefCountExact
<1> QED
  BY <1>1, <1>4, FS_EmptySet

\* A slot whose users only leave, or stay short of the lock.
LEMMA OrderKept ==
  ASSUME NEW p \in Plugins, InOrder(p), UNCHANGED <<hk, hki>>,
         handle'[p] = handle[p], state'[p] = state[p],
         holders'[p] \subseteq holders[p],
         \A u \in Users :
           plug'[u] = p /\ pc'[u] \in {"counted", "running", "ready"}
             => plug[u] = p /\ pc[u] = pc'[u]
  PROVE  InOrder(p)'
BY DEF InOrder, Closing

LEMMA StepSound ==
  ASSUME TypeOK, TypeOK', Locking, HoldersUse, RefCountExact, NamesFirst,
         LoaderState, HkApart, SoundSlots, [Next]_vars
  PROVE  SoundSlots'
<1> SUFFICES ASSUME NEW p \in Plugins, Sound(p)' PROVE InOrder(p)'
  BY DEF SoundSlots
<1> USE DEF TypeOK, ThreadTypes, PluginTypes, HistTypes
<1>1. Sound(p)
  <2>1. torn[p] => torn'[p]
    BY DEF Next, UserStep, HkStep, StartCheck, StartLock, StartTimeout,
           StartDecide, StartRecheck, StartRun, StartReuse, StartCount,
           CountUser, LoadOpen, LoadResolve, LoadInit, LoadGoesOn, AbandonWs,
           StopCheck, StopTimeout, Leak, StopLock, StopUnlock, HkBoot, HkLook,
           HkUnload, HkCloseNothing, HkClose, HkMark, HkPassDone, HkScanNew,
           HkScanDone, HkScanOpen, HkScanResolve, HkScanInit, HkScanGoesOn,
           RequestRelease, RequestReload, IdleTimeoutPasses, vars, histVars
  <2>2. unearned'[p] >= unearned[p]
    BY DEF Next, UserStep, HkStep, StartCheck, StartLock, StartTimeout,
           StartDecide, StartRecheck, StartRun, StartReuse, StartCount,
           CountUser, LoadOpen, LoadResolve, LoadInit, LoadGoesOn, AbandonWs,
           StopCheck, StopTimeout, Leak, StopLock, StopUnlock, HkBoot, HkLook,
           HkUnload, HkCloseNothing, HkClose, HkMark, HkPassDone, HkScanNew,
           HkScanDone, HkScanOpen, HkScanResolve, HkScanInit, HkScanGoesOn,
           RequestRelease, RequestReload, IdleTimeoutPasses, vars, histVars
  <2> QED
    BY <2>1, <2>2 DEF Sound
<1>2. InOrder(p)
  BY <1>1 DEF SoundSlots
<1>3. ASSUME NEW u \in Users, NEW q \in Plugins, NEW k \in Kinds,
             StartCheck(u, q, k)
      PROVE  InOrder(p)'
  <2>1. PICK at \in {"using", "done", "lockStart"} : pc' = [pc EXCEPT ![u] = at]
    BY <1>3 DEF StartCheck, AfterRefusal
  <2> QED
    BY <1>2, <1>3, <2>1, OrderKept DEF StartCheck, pluginVars, histVars
<1>4. ASSUME NEW u \in Users, StartLock(u) \/ StartTimeout(u)
      PROVE  InOrder(p)'
  <2>1. PICK at \in {"using", "done", "entered"} : pc' = [pc EXCEPT ![u] = at]
    BY <1>4 DEF StartLock, StartTimeout, Refuse, AfterRefusal
  <2> QED
    BY <1>2, <1>4, <2>1, OrderKept
       DEF StartLock, StartTimeout, pluginVars, histVars
\* plugin_start gets as far as ready: the slot is not being scanned.
<1>5. ASSUME NEW u \in Users, StartDecide(u) \/ StartRecheck(u)
      PROVE  InOrder(p)'
  <2>1. UNCHANGED <<state, handle, hk, hki, plug, holders>>
    BY <1>5 DEF StartDecide, StartRecheck, pluginVars, histVars
  <2>2. CASE pc' = [pc EXCEPT ![u] = "ready"]
             /\ state[plug[u]] \notin BelowInitialized
    BY <1>2, <2>1, <2>2 DEF InOrder, Closing, BelowInitialized
  <2>3. CASE \E at \in {"check", "opening", "using", "done"} :
               pc' = [pc EXCEPT ![u] = at]
    BY <1>2, <2>1, <2>3, OrderKept
  <2> QED
    BY <1>5, <2>2, <2>3
       DEF StartDecide, StartRecheck, Refuse, AfterRefusal, BelowInitialized
<1>6. ASSUME NEW u \in Users, StartRun(u) PROVE InOrder(p)'
  <2>1. UNCHANGED <<handle, hk, hki, plug, holders>> /\ pc[u] = "ready"
    BY <1>6 DEF StartRun, histVars
  <2>2. CASE state' = [state EXCEPT ![plug[u]] = "RUNNING"]
             /\ pc' = [pc EXCEPT ![u] = "running"]
    <3>1. CASE plug[u] = p
      <4>1. ~(hk \in HkScans /\ hki = p)
        BY <1>2, <2>1, <3>1 DEF InOrder
      <4>2. state'[p] = "RUNNING"
        BY <2>2, <3>1
      <4> QED
        BY <1>2, <2>1, <2>2, <4>1, <4>2 DEF InOrder, Closing
    <3>2. CASE plug[u] # p
      BY <1>2, <2>1, <2>2, <3>2, OrderKept
    <3> QED
      BY <3>1, <3>2
  <2>3. CASE Refuse(u) /\ UNCHANGED state
    BY <1>2, <2>1, <2>3, OrderKept DEF Refuse, AfterRefusal
  <2> QED
    BY <1>6, <2>2, <2>3 DEF StartRun
<1>7. ASSUME NEW u \in Users, StartReuse(u) \/ StartCount(u)
      PROVE  InOrder(p)'
  <2>1. PICK at \in {"using", "done"} : pc' = [pc EXCEPT ![u] = at]
    BY <1>7 DEF StartReuse, StartCount, CountUser
  <2>2. UNCHANGED <<handle, state, hk, hki, plug>>
    BY <1>7 DEF StartReuse, StartCount, CountUser
  <2>3. CASE plug[u] = p
    <3>1. handle[p] /\ ~Closing(p)
      BY <1>7, <2>3 DEF StartReuse, StartCount, CountUser, Sound, Closing
    <3>2. state[p] = "RUNNING"
      BY <1>2, <1>7, <2>3, <3>1 DEF StartReuse, StartCount, InOrder
    <3>3. ~(hk \in HkScans /\ hki = p)
      BY <1>2, <3>2 DEF InOrder
    <3> QED
      BY <2>2, <3>1, <3>2, <3>3 DEF InOrder, Closing
  <2>4. CASE plug[u] # p
    <3>1. holders'[p] = holders[p]
      BY <1>7, <2>4 DEF StartReuse, StartCount, CountUser
    <3> QED
      BY <1>2, <2>1, <2>2, <3>1, OrderKept
  <2> QED
    BY <2>3, <2>4
\* A user loads: nobody uses the plugin, nor is the housekeeper at it.
<1>8. ASSUME NEW u \in Users, NEW ok \in BOOLEAN,
             LoadOpen(u, ok) \/ LoadResolve(u, ok) \/ LoadInit(u, ok)
      PROVE  InOrder(p)'
  <2>1. UNCHANGED <<hk, hki, plug, holders>>
    BY <1>8 DEF LoadOpen, LoadResolve, LoadInit, LoadGoesOn, histVars
  <2>2. PICK at \in {"resolving", "initializing", "check", "using", "done"} :
          pc' = [pc EXCEPT ![u] = at]
    BY <1>8 DEF LoadOpen, LoadResolve, LoadInit, LoadGoesOn, Refuse,
                AfterRefusal
  <2>3. pc[u] \in LoadPCs
    BY <1>8 DEF LoadOpen, LoadResolve, LoadInit, LoadPCs
  <2>4. CASE plug[u] = p
    <3>1. state[p] # "RUNNING"
      BY <2>3, <2>4 DEF LoaderState, LoadPCs, BelowInitialized
    <3>2. holders[p] = {}
      BY <1>2, <3>1 DEF InOrder
    <3>3. \A v \in Users : pc'[v] \notin {"counted", "running", "ready"}
      BY <2>2, <2>3, OneLocked DEF Locked
    <3>4. ~Closing(p) /\ ~(hk \in HkScans /\ hki = p)
      BY <2>3, <2>4 DEF HkApart, Closing
    <3> QED
      BY <2>1, <3>2, <3>3, <3>4 DEF InOrder, Closing
  <2>5. CASE plug[u] # p
    <3>1. handle'[p] = handle[p] /\ state'[p] = state[p]
      BY <1>8, <2>5 DEF LoadOpen, LoadResolve, LoadInit, OpenLibrary,
                        AdvanceLoad
    <3> QED
      BY <1>2, <2>1, <2>2, <3>1, OrderKept
  <2> QED
    BY <2>4, <2>5
<1>9. ASSUME NEW u \in Users, AbandonWs(u) \/ StopCheck(u) \/ StopTimeout(u)
      PROVE  InOrder(p)'
  <2>1. PICK at \in {"lockStop", "done"} : pc' = [pc EXCEPT ![u] = at]
    BY <1>9 DEF AbandonWs, StopCheck, StopTimeout
  <2>2. UNCHANGED <<handle, state, hk, hki, plug>>
    BY <1>9 DEF AbandonWs, StopCheck, StopTimeout, pluginVars
  <2>3. holders'[p] \subseteq holders[p]
    BY <1>9 DEF AbandonWs, StopCheck, StopTimeout, Leak, histVars
  <2> QED
    BY <1>2, <2>1, <2>2, <2>3, OrderKept
<1>10. ASSUME NEW u \in Users, StopLock(u) PROVE InOrder(p)'
  <2>1. /\ pc' = [pc EXCEPT ![u] = "counted"]
        /\ holders' = [holders EXCEPT ![plug[u]] = @ \ {u}]
        /\ UNCHANGED <<handle, state, hk, hki, plug>>
    BY <1>10 DEF StopLock
  <2>2. CASE plug[u] = p
    <3>1. u \in holders[p]
      BY <1>1, <1>10, <2>2 DEF StopLock, Sound
    <3>2. handle[p] /\ state[p] = "RUNNING" /\ ~Closing(p)
      BY <1>2, <3>1 DEF InOrder
    <3> QED
      BY <1>2, <2>1, <3>2 DEF InOrder, Closing
  <2>3. CASE plug[u] # p
    BY <1>2, <2>1, <2>3, OrderKept
  <2> QED
    BY <2>2, <2>3
<1>11. ASSUME NEW u \in Users, StopUnlock(u) PROVE InOrder(p)'
  <2>1. /\ pc' = [pc EXCEPT ![u] = "done"] /\ pc[u] = "counted"
        /\ UNCHANGED <<handle, hk, hki, plug, holders>>
    BY <1>11 DEF StopUnlock, histVars
  <2>2. CASE plug[u] = p
    <3>1. handle[p] /\ state[p] = "RUNNING" /\ ~Closing(p)
      BY <1>2, <2>1, <2>2 DEF InOrder
    <3>2. \A v \in Users : pc'[v] \notin {"counted", "running", "ready"}
      BY <2>1, OneLocked DEF Locked
    <3>3. holders[p] # {} => state'[p] = "RUNNING"
      BY <1>1, <1>11, <2>2, <3>1, NoHolders DEF StopUnlock, Sound
    <3>4. ~(hk \in HkScans /\ hki = p)
      BY <1>2, <3>1 DEF InOrder
    <3> QED
      BY <2>1, <3>1, <3>2, <3>3, <3>4 DEF InOrder, Closing
  <2>3. CASE plug[u] # p
    <3>1. state'[p] = state[p]
      BY <1>11, <2>3 DEF StopUnlock
    <3> QED
      BY <1>2, <2>1, <3>1, OrderKept
  <2> QED
    BY <2>2, <2>3
<1>12. CASE HkBoot \/ HkLook \/ HkPassDone \/ HkScanDone
  BY <1>2, <1>12
     DEF HkBoot, HkLook, HkPassDone, HkScanDone, pluginVars, userVars,
         histVars, InOrder, Closing, HkScans
<1>13. CASE HkUnload
  <2>1. UNCHANGED <<handle, pc, plug, holders>> /\ hk = "unload"
    BY <1>13 DEF HkUnload, userVars, histVars
  <2>2. CASE UNCHANGED state /\ hk' = "look"
    BY <1>2, <2>1, <2>2 DEF InOrder, Closing, HkScans
  <2>3. CASE /\ state[hki] = "INITIALIZED" /\ hk' = "closing" /\ hki' = hki
             /\ state' = [state EXCEPT ![hki] = "SHUTTING_DOWN"]
    BY <1>2, <2>1, <2>3 DEF InOrder, Closing, HkScans
  <2> QED
    BY <1>13, <2>2, <2>3 DEF HkUnload
<1>14. CASE HkCloseNothing \/ HkMark
  <2>1. /\ hk \in {"closing", "marking"} /\ hk' = "look" /\ hki \in Plugins
        /\ ~handle[hki]
        /\ UNCHANGED <<handle, pc, plug, holders>>
        /\ \E s \in PluginStates : state' = [state EXCEPT ![hki] = s]
    BY <1>14 DEF HkCloseNothing, HkMark, HkApart, userVars, histVars,
                 PluginStates
  <2> QED
    BY <1>2, <2>1 DEF InOrder, Closing, HkScans
<1>15. CASE HkClose
  <2>1. /\ hk = "closing" /\ hk' = "marking" /\ hki \in Plugins
        /\ UNCHANGED <<state, hki, pc, plug, holders>>
        /\ handle' = [handle EXCEPT ![hki] = FALSE]
    BY <1>15 DEF HkClose, userVars, histVars
  <2> QED
    BY <1>2, <2>1 DEF InOrder, Closing, HkScans
<1>16. CASE HkScanNew
  <2>1. /\ pluginCount + 1 \in Plugins /\ hki' = pluginCount + 1
        /\ hk = "scan" /\ hk' = "scanOpen"
        /\ UNCHANGED <<handle, pc, plug, holders>>
        /\ state' = [state EXCEPT ![pluginCount + 1] = "NONE"]
    BY <1>16, HostAssumption
       DEF HkScanNew, userVars, histVars, Plugins, HostAssumption
  <2>2. \A u \in Users : plug[u] = pluginCount + 1 => pc[u] = "idle"
    BY <2>1 DEF NamesFirst
  <2>3. holders[pluginCount + 1] = {}
    BY <2>1, <2>2 DEF HoldersUse
  <2>4. CASE p = pluginCount + 1
    BY <2>1, <2>2, <2>3, <2>4 DEF InOrder, Closing
  <2>5. CASE p # pluginCount + 1
    BY <1>2, <2>1, <2>5 DEF InOrder, Closing
  <2> QED
    BY <2>4, <2>5
<1>17. ASSUME NEW ok \in BOOLEAN,
              HkScanOpen(ok) \/ HkScanResolve(ok) \/ HkScanInit(ok)
       PROVE  InOrder(p)'
  <2>1. /\ hk \in HkScans /\ hki \in Plugins
        /\ UNCHANGED <<hki, pc, plug, holders>>
        /\ hk' \in HkScans \cup {"scan"}
    BY <1>17 DEF HkScanOpen, HkScanResolve, HkScanInit, HkScanGoesOn,
                 userVars, histVars, HkScans
  <2>2. CASE p = hki
    <3>1. hk' \in HkScans => state'[p] \in {"LOADING", "LOADED"}
      BY <1>17, <2>2 DEF HkScanOpen, HkScanResolve, HkScanInit, OpenLibrary,
                         AdvanceLoad, HkScanGoesOn, HkScans
    <3>2. /\ holders[p] = {}
          /\ \A u \in Users : plug[u] = p =>
               pc[u] \notin {"counted", "ready", "running"}
      BY <1>2, <2>1, <2>2 DEF InOrder
    <3> QED
      BY <2>1, <3>1, <3>2 DEF InOrder, Closing, HkScans
  <2>3. CASE p # hki
    <3>1. handle'[p] = handle[p] /\ state'[p] = state[p]
      BY <1>17, <2>3 DEF HkScanOpen, HkScanResolve, HkScanInit, OpenLibrary,
                         AdvanceLoad
    <3> QED
      BY <1>2, <2>1, <2>3, <3>1 DEF InOrder, Closing
  <2> QED
    BY <2>2, <2>3
<1>18. ASSUME RequestRelease \/ RequestReload
               \/ (\E q \in Plugins : IdleTimeoutPasses(q))
               \/ UNCHANGED vars
       PROVE  InOrder(p)'
  BY <1>2, <1>18, OrderKept
     DEF RequestRelease, RequestReload, IdleTimeoutPasses, vars, pluginVars,
         userVars, histVars
<1> QED
  BY <1>3, <1>4, <1>5, <1>6, <1>7, <1>8, <1>9, <1>10, <1>11, <1>12, <1>13,
     <1>14, <1>15, <1>16, <1>17, <1>18
  DEF Next, UserStep, HkStep

-----------------------------------------------------------------------------
(* An unload finds its library. *)

\* Users of the slot to be unloaded that only leave, or stay short of the
\* lock of plugin_stop and of plugin_load.
LEMMA UnloadKept ==
  ASSUME UnloadFinds, UnloadHasCode, UNCHANGED <<hk, hki>>,
         hk \in {"unload", "closing"} =>
           /\ handle'[hki] = handle[hki]
           /\ unearned'[hki] = unearned[hki]
           /\ holders'[hki] \subseteq holders[hki],
         hk = "unload" =>
           /\ state'[hki] = state[hki]
           /\ \A u \in Users :
                plug'[u] = hki /\ pc'[u] \in LoadPCs \cup {"lockStop", "counted"}
                  => plug[u] = hki /\ pc[u] = pc'[u]
  PROVE  UnloadFinds' /\ UnloadHasCode'
BY DEF UnloadFinds, UnloadHasCode

LEMMA StepUnload ==
  ASSUME TypeOK, TypeOK', Locking, HoldersUse, RefCountExact, LoaderState,
         HkApart, UnloadFinds, UnloadHasCode, [Next]_vars
  PROVE  UnloadFinds' /\ UnloadHasCode'
<1> USE DEF TypeOK, ThreadTypes, PluginTypes, HistTypes
<1>1. hk \in {"unload", "closing"} => hki \in Plugins
  OBVIOUS
<1>2. ASSUME NEW u \in Users, NEW p \in Plugins, NEW k \in Kinds,
             StartCheck(u, p, k)
      PROVE  UnloadFinds' /\ UnloadHasCode'
  <2>1. PICK at \in {"using", "done", "lockStart"} : pc' = [pc EXCEPT ![u] = at]
    BY <1>2 DEF StartCheck, AfterRefusal
  <2> QED
    BY <1>2, <2>1, UnloadKept DEF StartCheck, pluginVars, histVars, LoadPCs
<1>3. ASSUME NEW u \in Users,
             StartLock(u) \/ StartTimeout(u) \/ StartRecheck(u)
      PROVE  UnloadFinds' /\ UnloadHasCode'
  <2>1. PICK at \in {"using", "done", "entered", "ready"} :
          pc' = [pc EXCEPT ![u] = at]
    BY <1>3 DEF StartLock, StartTimeout, StartRecheck, Refuse, AfterRefusal
  <2> QED
    BY <1>3, <2>1, UnloadKept
       DEF StartLock, StartTimeout, StartRecheck, pluginVars, histVars, LoadPCs
\* A loader that starts now would need a slot without library that is not
\* DISABLED.
<1>4. ASSUME NEW u \in Users, StartDecide(u)
      PROVE  UnloadFinds' /\ UnloadHasCode'
  <2>1. UNCHANGED <<state, handle, hk, hki, plug, holders, unearned>>
    BY <1>4 DEF StartDecide, pluginVars, histVars
  <2>2. CASE pc' = [pc EXCEPT ![u] = "opening"]
             /\ state[plug[u]] \in BelowInitialized /\ ~handle[plug[u]]
    <3>1. hk = "unload" /\ unearned[hki] = 0 => plug[u] # hki
      BY <2>2 DEF UnloadFinds, BelowInitialized
    <3> QED
      BY <1>1, <2>1, <2>2, <3>1 DEF UnloadFinds, UnloadHasCode
  <2>3. CASE \E at \in {"ready", "check"} : pc' = [pc EXCEPT ![u] = at]
    BY <2>1, <2>3, UnloadKept DEF LoadPCs
  <2> QED
    BY <1>4, <2>2, <2>3 DEF StartDecide
<1>5. ASSUME NEW u \in Users, StartRun(u)
      PROVE  UnloadFinds' /\ UnloadHasCode'
  <2>1. PICK at \in {"using", "done", "running"} : pc' = [pc EXCEPT ![u] = at]
    BY <1>5 DEF StartRun, Refuse, AfterRefusal
  <2>2. UNCHANGED <<handle, hk, hki, plug, holders, unearned>>
    BY <1>5 DEF StartRun, histVars
  <2>3. hk = "unload" => state'[hki] \in {"RUNNING", state[hki]}
    BY <1>1, <1>5 DEF StartRun
  <2> QED
    BY <1>1, <2>1, <2>2, <2>3 DEF UnloadFinds, UnloadHasCode, LoadPCs
\* The one who is counted holds the lock: nobody loads.
<1>6. ASSUME NEW u \in Users, StartReuse(u) \/ StartCount(u)
      PROVE  UnloadFinds' /\ UnloadHasCode'
  <2>1. PICK at \in {"using", "done"} : pc' = [pc EXCEPT ![u] = at]
    BY <1>6 DEF StartReuse, StartCount, CountUser
  <2>2. UNCHANGED <<handle, state, hk, hki, plug, unearned>>
    BY <1>6 DEF StartReuse, StartCount, CountUser
  <2>3. \A v \in Users : pc'[v] \notin LoadPCs
    BY <1>6, <2>1, OneLocked
       DEF StartReuse, StartCount, CountUser, Locked, LoadPCs
  <2>4. \A v \in Users \ {u}, p \in Plugins : v \in holders'[p] => v \in holders[p]
    BY <1>6 DEF StartReuse, StartCount, CountUser
  <2> QED
    BY <1>1, <2>1, <2>2, <2>3, <2>4 DEF UnloadFinds, UnloadHasCode
<1>7. ASSUME NEW u \in Users, NEW ok \in BOOLEAN,
             LoadOpen(u, ok) \/ LoadResolve(u, ok) \/ LoadInit(u, ok)
      PROVE  UnloadFinds' /\ UnloadHasCode'
  <2>1. UNCHANGED <<hk, hki, plug, holders, unearned>>
    BY <1>7 DEF LoadOpen, LoadResolve, LoadInit, LoadGoesOn, histVars
  <2>2. PICK at \in {"resolving", "initializing", "check", "using", "done"} :
          pc' = [pc EXCEPT ![u] = at]
    BY <1>7 DEF LoadOpen, LoadResolve, LoadInit, LoadGoesOn, Refuse,
                AfterRefusal
  <2>3. pc[u] \in LoadPCs
    BY <1>7 DEF LoadOpen, LoadResolve, LoadInit, LoadPCs
  <2>4. CASE plug[u] = hki /\ hk = "unload" /\ unearned[hki] = 0
    <3>1. holders[hki] = {} /\ pc[u] # "opening" /\ handle[hki]
      BY <2>3, <2>4 DEF UnloadFinds, LoaderState, LoadPCs
    <3>2. handle'[hki] \/ state'[hki] = "DISABLED"
      BY <1>1, <1>7, <2>4, <3>1
         DEF LoadOpen, LoadResolve, LoadInit, AdvanceLoad
    <3>3. \A v \in Users : pc'[v] # "counted" /\ pc'[v] # "opening"
      BY <2>2, <2>3, <3>1, OneLocked DEF Locked, LoadPCs
    <3> QED
      BY <2>1, <2>4, <3>1, <3>2, <3>3 DEF UnloadFinds, UnloadHasCode
  <2>5. CASE plug[u] # hki
    <3>1. hk \in {"unload", "closing"} =>
            handle'[hki] = handle[hki] /\ state'[hki] = state[hki]
      BY <1>1, <1>7, <2>5 DEF LoadOpen, LoadResolve, LoadInit, OpenLibrary,
                              AdvanceLoad
    <3> QED
      BY <2>1, <2>2, <2>5, <3>1, UnloadKept
  <2>6. CASE hk # "unload" /\ (hk = "closing" => plug[u] # hki)
    <3>1. hk = "closing" => handle'[hki] = handle[hki]
      BY <1>1, <1>7, <2>6 DEF LoadOpen, LoadResolve, LoadInit, OpenLibrary,
                              AdvanceLoad
    <3> QED
      BY <2>1, <2>6, <3>1 DEF UnloadFinds, UnloadHasCode
  <2>7. CASE hk = "unload" /\ unearned[hki] # 0
    BY <2>1, <2>7 DEF UnloadFinds, UnloadHasCode
  <2>8. hk = "closing" => plug[u] # hki
    BY <2>3 DEF HkApart
  <2> QED
    BY <2>4, <2>5, <2>6, <2>7, <2>8
<1>8. ASSUME NEW u \in Users, AbandonWs(u) \/ StopTimeout(u)
      PROVE  UnloadFinds' /\ UnloadHasCode'
  <2>1. \A p \in Plugins : holders'[p] \subseteq holders[p]
    BY <1>8 DEF AbandonWs, StopTimeout, Leak
  <2> QED
    BY <1>1, <1>8, <2>1, UnloadKept
       DEF AbandonWs, StopTimeout, Leak, pluginVars, LoadPCs
\* The lock of plugin_stop is asked for only while the library is there.
<1>9. ASSUME NEW u \in Users, StopCheck(u)
      PROVE  UnloadFinds' /\ UnloadHasCode'
  <2>1. UNCHANGED <<handle, state, hk, hki, plug, unearned>>
    BY <1>9 DEF StopCheck, Leak, pluginVars, histVars
  <2>2. \A p \in Plugins : holders'[p] \subseteq holders[p]
    BY <1>9 DEF StopCheck, Leak, histVars
  <2>3. CASE pc' = [pc EXCEPT ![u] = "lockStop"] /\ handle[plug[u]]
    BY <1>1, <2>1, <2>2, <2>3 DEF UnloadFinds, UnloadHasCode, LoadPCs
  <2>4. CASE pc' = [pc EXCEPT ![u] = "done"]
    BY <1>1, <2>1, <2>2, <2>4, UnloadKept DEF LoadPCs
  <2> QED
    BY <1>9, <2>3, <2>4 DEF StopCheck
<1>10. ASSUME NEW u \in Users, StopLock(u)
       PROVE  UnloadFinds' /\ UnloadHasCode'
  <2>1. /\ pc' = [pc EXCEPT ![u] = "counted"] /\ pc[u] = "lockStop"
        /\ UNCHANGED <<handle, state, hk, hki, plug>>
    BY <1>10 DEF StopLock
  <2>2. \A p \in Plugins : /\ holders'[p] \subseteq holders[p]
                           /\ unearned'[p] = 0 => unearned[p] = 0
    BY <1>10 DEF StopLock
  <2>3. ASSUME hk = "unload", unearned'[hki] = 0, plug[u] = hki
        PROVE  handle[hki]
    <3>1. u \in holders[hki]
      BY <1>10, <2>3 DEF StopLock
    <3> QED
      BY <1>1, <2>1, <2>2, <2>3, <3>1 DEF UnloadFinds
  <2> QED
    BY <1>1, <2>1, <2>2, <2>3 DEF UnloadFinds, UnloadHasCode, LoadPCs
<1>11. ASSUME NEW u \in Users, StopUnlock(u)
       PROVE  UnloadFinds' /\ UnloadHasCode'
  <2>1. /\ pc' = [pc EXCEPT ![u] = "done"] /\ pc[u] = "counted"
        /\ UNCHANGED <<handle, hk, hki, plug, holders, unearned>>
    BY <1>11 DEF StopUnlock, histVars
  <2>2. hk = "unload" => state'[hki] = state[hki] \/ plug[u] = hki
    BY <1>1, <1>11 DEF StopUnlock
  <2> QED
    BY <1>1, <2>1, <2>2 DEF UnloadFinds, UnloadHasCode, LoadPCs
\* The look: a library, no user, and a loader past its dlopen.
<1>12. CASE HkLook
  <2>1. UNCHANGED <<handle, state, pc, plug, holders, unearned, hki>>
        \/ hk' = "look"
    BY <1>12 DEF HkLook, pluginVars, userVars, histVars
  <2>2. CASE hk' = "unload"
    <3>1. handle[hki] /\ used_count[hki] <= 0 /\ hki' = hki /\ hki \in Plugins
      BY <1>12, <2>2, HostAssumption DEF HkLook, Plugins, HostAssumption
    <3>2. unearned[hki] = 0 => holders[hki] = {}
      BY <3>1, NoHolders
    <3>3. \A u \in Users : plug[u] = hki => pc[u] # "opening"
      BY <3>1 DEF LoaderState
    <3> QED
      BY <2>1, <2>2, <3>1, <3>2, <3>3 DEF UnloadFinds, UnloadHasCode
  <2>3. CASE hk' = "look"
    BY <2>3 DEF UnloadFinds, UnloadHasCode
  <2> QED
    BY <1>12, <2>2, <2>3 DEF HkLook
<1>13. CASE HkUnload
  <2>1. /\ UNCHANGED <<handle, unearned>> /\ hk = "unload"
        /\ hk' = "closing" => state[hki] = "INITIALIZED" /\ hki' = hki
        /\ hk' \in {"closing", "look"}
    BY <1>13 DEF HkUnload, histVars
  <2> QED
    BY <2>1 DEF UnloadFinds, UnloadHasCode
<1>14. ASSUME HkStep, ~HkLook, ~HkUnload PROVE UnloadFinds' /\ UnloadHasCode'
  <2>1. hk' \notin {"unload", "closing"}
    BY <1>14 DEF HkStep, HkBoot, HkCloseNothing, HkClose, HkMark, HkPassDone,
                 HkScanNew, HkScanDone, HkScanOpen, HkScanResolve, HkScanInit,
                 HkScanGoesOn
  <2> QED
    BY <2>1 DEF UnloadFinds, UnloadHasCode
<1>15. ASSUME RequestRelease \/ RequestReload
               \/ (\E p \in Plugins : IdleTimeoutPasses(p))
               \/ UNCHANGED vars
       PROVE  UnloadFinds' /\ UnloadHasCode'
  BY <1>15, UnloadKept DEF RequestRelease, RequestReload, IdleTimeoutPasses,
                           vars, pluginVars, userVars, histVars
<1> QED
  BY <1>2, <1>3, <1>4, <1>5, <1>6, <1>7, <1>8, <1>9, <1>10, <1>11, <1>12,
     <1>13, <1>14, <1>15
  DEF Next, UserStep

-----------------------------------------------------------------------------
(* The inductive invariant and what it gives. *)

LEMMA InitIInv == Init => IInv
<1> SUFFICES ASSUME Init PROVE IInv
  OBVIOUS
<1>1. TypeOK
  BY InitTyped
<1>2. Locking /\ HoldersUse
  BY HostAssumption DEF Init, Locking, LockDiscipline, HoldersUse, Locked,
                        LoadPCs, HostAssumption
<1>3. RefCountExact
  BY FS_EmptySet DEF Init, RefCountExact
<1>4. NamesFirst /\ LoaderState /\ HkApart
  BY DEF Init, NamesFirst, LoaderState, HkApart, HkScans, LoadPCs
<1>5. SoundSlots
  BY DEF Init, SoundSlots, InOrder, Closing, HkScans
<1>6. UnloadFinds /\ UnloadHasCode
  BY DEF Init, UnloadFinds, UnloadHasCode
<1> QED
  BY <1>1, <1>2, <1>3, <1>4, <1>5, <1>6 DEF IInv

LEMMA StepIInv == IInv /\ [Next]_vars => IInv'
<1> SUFFICES ASSUME IInv, [Next]_vars PROVE IInv'
  OBVIOUS
<1> USE DEF IInv
<1>1. TypeOK'
  BY StepTyped
<1>2. Locking'
  BY StepLocking
<1>3. HoldersUse' /\ RefCountExact'
  BY <1>1, StepCounted
<1>4. NamesFirst'
  BY StepNames
<1>5. LoaderState' /\ HkApart'
  BY StepApart
<1>6. SoundSlots'
  BY <1>1, StepSound
<1>7. UnloadFinds' /\ UnloadHasCode'
  BY <1>1, StepUnload
<1> QED
  BY <1>1, <1>2, <1>3, <1>4, <1>5, <1>6, <1>7

LEMMA OneLoader ==
  ASSUME IInv, NEW p \in Plugins
  PROVE  Cardinality(LoadsOn(p)) <= 1
<1>1. CASE \E u \in Users : pc[u] \in LoadPCs /\ plug[u] = p
  <2>1. PICK u \in Users : pc[u] \in LoadPCs /\ plug[u] = p
    BY <1>1
  <2>2. ~(hk \in HkScans /\ hki = p)
    BY <2>1 DEF IInv, HkApart
  <2>3. \A v \in Users : pc[v] \in LoadPCs => v = u
    BY <2>1, OneLocked DEF IInv, Locked
  <2>4. LoadsOn(p) = {u}
    BY <2>1, <2>2, <2>3 DEF LoadsOn
  <2> QED
    BY <2>4, FS_Singleton
<1>2. CASE ~\E u \in Users : pc[u] \in LoadPCs /\ plug[u] = p
  <2>1. LoadsOn(p) \subseteq {"hk"}
    BY <1>2 DEF LoadsOn
  <2>2. IsFiniteSet({"hk"}) /\ Cardinality({"hk"}) = 1
    BY FS_Singleton
  <2> QED
    BY <2>1, <2>2, FS_Subset, FS_CardinalityType
<1> QED
  BY <1>1, <1>2

LEMMA Inductive == Spec => []IInv
BY InitIInv, StepIInv, PTL DEF Spec

\* Every variable keeps its type; the housekeeper never leaves g_Plugins.
THEOREM TypeCorrect == Spec => []TypeOK
<1>1. IInv => TypeOK
  BY DEF IInv
<1> QED
  BY <1>1, Inductive, PTL

\* Inside plugin_start and plugin_stop means holding the lock, whatever path
\* a thread came by and however many threads there are.
THEOREM LockDisciplined == Spec => []LockDiscipline
<1>1. IInv => LockDiscipline
  BY DEF IInv, Locking
<1> QED
  BY <1>1, Inductive, PTL

\* The reference count is exact, leaks and unearned stops included.
THEOREM CountsExactly == Spec => []RefCountExact
<1>1. IInv => RefCountExact
  BY DEF IInv
<1> QED
  BY <1>1, Inductive, PTL

\* Loads of one slot exclude each other, although only those of plugin_start
\* are under the lock.
THEOREM LoadsExclude == Spec => []OneLoaderPerSlot
<1>1. IInv => OneLoaderPerSlot
  BY OneLoader DEF OneLoaderPerSlot
<1> QED
  BY <1>1, Inductive, PTL

\* A plugin in use is loaded and RUNNING, as long as no start was counted in
\* the unload window and no stop came unearned.
THEOREM UseKeepsLoaded == Spec => []LoadedWhileUsed
<1>1. IInv => LoadedWhileUsed
  BY DEF IInv, SoundSlots, InOrder, Sound, LoadedWhileUsed
<1> QED
  BY <1>1, Inductive, PTL

\* The branch of plugin_unload without a library is unreachable where every
\* stop was earned.
THEOREM UnloadNeverEmpty == Spec => []UnloadHasCode
<1>1. IInv => UnloadHasCode
  BY DEF IInv
<1> QED
  BY <1>1, Inductive, PTL
=============================================================================
