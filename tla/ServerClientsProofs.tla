------------------------ MODULE ServerClientsProofs ------------------------
(***************************************************************************)
(* Proofs about ServerClients: the types, that the housekeeper frees       *)
(* nothing that is linked or served, although nothing locks the list, and  *)
(* which contexts the list can lose.                                       *)
(***************************************************************************)
EXTENDS ServerClients, FiniteSetTheorems, TLAPS

\* The main thread's context is new: it is linked nowhere before Append, and
\* the link it is going to overwrite is empty.
MainHolds ==
  /\ main \in {"walk", "append", "spawn"} =>
       csd \in Clients /\ csd \in open /\ thread[csd] = "none" /\ born[csd] = accepted
  /\ main \in {"walk", "append"} =>
       (prev # "first" => born[prev] < accepted /\ memory[prev] # "none") /\ link[csd] = "null" /\ \A l \in Links : link[l] # csd
  /\ main = "append" => link[prev] = "null"
  /\ main = "detach" => csd \in Clients

\* The housekeeper's cursor is in the list, the context it looks at is behind
\* it, and one that it takes out is closed.
HkHolds ==
  /\ hk \in {"read", "look", "unlink", "free"} => hkLimit >= 0 /\ hkPrev \in Linking
  /\ hk \in {"look", "unlink", "free"} =>
       hkCsd \in Clients /\ memory[hkCsd] = "live" /\ hkCsd # hkPrev
  /\ hk \in {"look", "unlink"} => link[hkPrev] = hkCsd
  /\ hk \in {"unlink", "free"} => hkCsd \notin open
  /\ hk = "unlink" => hkNext \in {"null", link[hkCsd]}
  /\ hk = "free" => \A l \in Linking : link[l] # hkCsd

\* Contexts, sockets and threads come and go together.
ContextsHold ==
  \A c \in Clients :
    /\ c \in open => memory[c] = "live"
    /\ thread[c] \in {"request", "handler"} => c \in open
    /\ memory[c] = "none" => link[c] = "null" /\ \A l \in Links : link[l] # c
    /\ memory[c] # "none" => born[c] > 0
    /\ link[c] # "null" => born[c] < born[link[c]]

\* Every client that has come has a number of its own.
BornOnce ==
  \A c, d \in Clients : c # d /\ born[c] = born[d] => born[c] = 0

\* The list.
LinksLive == \A l \in Linking : link[l] # "null" => memory[link[l]] = "live"
LinkedOnce ==
  \A l, m \in Linking : link[l] = link[m] /\ l # m => link[l] = "null"

ListInv ==
  TypeOK /\ MainHolds /\ HkHolds /\ ContextsHold /\ BornOnce /\ LinksLive /\ LinkedOnce

\* No context is linked to itself: it would have come before it came.
LEMMA NoSelfLink ==
  ASSUME TypeOK, ContextsHold, NEW c \in Clients
  PROVE  link[c] # c
<1>1. c # "null"
  BY ClientsAssumption DEF ClientsAssumption
<1>2. born[c] \in Int
  BY DEF TypeOK
<1>3. link[c] # "null" => born[c] < born[link[c]]
  BY DEF ContextsHold
<1>. QED BY <1>1, <1>2, <1>3

\* What decoupling a closed context does to the list.
LEMMA Unlinking ==
  ASSUME ListInv, HkUnlink
  PROVE  /\ Linking' = Linking \ {hkCsd} /\ hkPrev \in Linking' /\ hkCsd \in Linking
         /\ \A l \in Links : l # hkPrev => link'[l] = link[l]
         /\ link'[hkPrev] = hkNext /\ hkNext \in {"null", link[hkCsd]} /\ link[hkPrev] = hkCsd
         /\ link[hkCsd] # hkCsd /\ hkCsd \in Clients /\ Linking \subseteq Links
<1> USE DEF HkUnlink, ListInv
<1>1. /\ hkCsd \in Clients /\ memory[hkCsd] = "live" /\ hkCsd # hkPrev /\ hkPrev \in Linking
      /\ link[hkPrev] = hkCsd /\ hkNext \in {"null", link[hkCsd]}
  BY DEF HkHolds
<1>2. Linking' = Linking \ {hkCsd} /\ hkCsd \in Linking
  BY <1>1, ClientsAssumption DEF Linking, ClientsAssumption
<1>3. Linking \subseteq Links
  BY DEF Linking, Links
<1>4. link \in [Links -> Targets] /\ link' = [link EXCEPT ![hkPrev] = hkNext]
  BY DEF TypeOK, Decoupled
<1>5. link[hkCsd] # hkCsd
  BY <1>1, NoSelfLink
<1>. QED BY <1>1, <1>2, <1>3, <1>4, <1>5

\* Every step keeps the types.
LEMMA TypeStep ==
  ASSUME TypeOK, ListInv, [Next]_vars
  PROVE  TypeOK'
<1> USE ClientsAssumption DEF ClientsAssumption, ListInv, TypeOK, daemonVars, listVars, mainVars, hkVars, bornVars, Links, Targets, MainPlaces, HkPlaces, ThreadPlaces, HkHolds, MainHolds, Freed
<1>1. ASSUME NEW c \in Clients, Accept(c) \/ Reject(c) \/ ThreadStep(c) PROVE TypeOK'
  <2>1. CASE Accept(c)
    BY <2>1 DEF Accept
  <2>2. CASE Reject(c)
    BY <2>2 DEF Reject
  <2>3. CASE Request(c)
    BY <2>3 DEF Request, Touches, ThreadAt
  <2>4. CASE RequestFails(c)
    BY <2>4 DEF RequestFails, Touches, ThreadAt, CloseSocket
  <2>5. CASE PluginRefused(c)
    BY <2>5 DEF PluginRefused, ThreadAt
  <2>6. CASE Finish(c)
    BY <2>6 DEF Finish, Touches, ThreadAt, CloseSocket
  <2>7. CASE Account(c)
    BY <2>7 DEF Account, Touches, ThreadAt
  <2>. QED BY <1>1, <2>1, <2>2, <2>3, <2>4, <2>5, <2>6, <2>7 DEF ThreadStep, ServerStep
<1>2. CASE Walk
  BY <1>2 DEF Walk, Touches
<1>3. CASE Append
  BY <1>3 DEF Append, Touches
<1>4. CASE Spawn
  BY <1>4 DEF Spawn, Touches
<1>5. CASE Detach
  BY <1>5 DEF Detach
<1>6. CASE LeaveLoop
  BY <1>6 DEF LeaveLoop
<1>7. CASE Shutdown
  BY <1>7 DEF Shutdown
<1>8. CASE Stop
  BY <1>8 DEF Stop
<1>9. CASE HkSleep
  BY <1>9 DEF HkSleep
<1>10. CASE HkRead
  BY <1>10 DEF HkRead
<1>11. CASE HkAlive
  BY <1>11 DEF HkAlive, Exhausted
<1>12. CASE HkClosed
  BY <1>12 DEF HkClosed, NextOf
<1>13. CASE HkUnlink
  BY <1>13 DEF HkUnlink, Decoupled
<1>14. CASE HkFree
  BY <1>14 DEF HkFree
<1>15. CASE UNCHANGED vars
  BY <1>15 DEF vars
<1>. QED BY <1>1, <1>2, <1>3, <1>4, <1>5, <1>6, <1>7, <1>8, <1>9, <1>10, <1>11, <1>12, <1>13, <1>14, <1>15 DEF Next, MainStep, HkStep

\* Every step keeps what the main thread holds.
LEMMA MainStepKeeps ==
  ASSUME ListInv, [Next]_vars
  PROVE  MainHolds'
<1> USE ClientsAssumption DEF ClientsAssumption, ListInv, MainHolds, HkHolds, ContextsHold, BornOnce, TypeOK, Links, Targets, Linking, daemonVars, listVars, mainVars, hkVars, bornVars
<1>1. ASSUME NEW c \in Clients, Accept(c) \/ Reject(c) \/ ThreadStep(c) PROVE MainHolds'
  <2>1. CASE Accept(c)
    BY <2>1 DEF Accept
  <2>2. CASE Reject(c)
    BY <2>2 DEF Reject
  <2>3. CASE Request(c)
    BY <2>3 DEF Request, Touches, ThreadAt
  <2>4. CASE RequestFails(c)
    BY <2>4 DEF RequestFails, Touches, ThreadAt, CloseSocket
  <2>5. CASE PluginRefused(c)
    BY <2>5 DEF PluginRefused, ThreadAt
  <2>6. CASE Finish(c)
    BY <2>6 DEF Finish, Touches, ThreadAt, CloseSocket
  <2>7. CASE Account(c)
    BY <2>7 DEF Account, Touches, ThreadAt
  <2>. QED BY <1>1, <2>1, <2>2, <2>3, <2>4, <2>5, <2>6, <2>7 DEF ThreadStep, ServerStep
<1>2. CASE Walk
  BY <1>2 DEF Walk, Touches
<1>3. CASE Append
  BY <1>3 DEF Append, Touches
<1>4. CASE Spawn
  BY <1>4 DEF Spawn, Touches
<1>5. CASE Detach
  BY <1>5 DEF Detach
<1>6. CASE LeaveLoop
  BY <1>6 DEF LeaveLoop
<1>7. CASE Shutdown
  BY <1>7 DEF Shutdown
<1>8. CASE Stop
  BY <1>8 DEF Stop
<1>9. CASE HkSleep
  BY <1>9 DEF HkSleep
<1>10. CASE HkRead
  BY <1>10 DEF HkRead
<1>11. CASE HkAlive
  BY <1>11 DEF HkAlive, Exhausted
<1>12. CASE HkClosed
  BY <1>12 DEF HkClosed, NextOf
<1>13. CASE HkUnlink
  BY <1>13 DEF HkUnlink, Decoupled
<1>14. CASE HkFree
  BY <1>14 DEF HkFree
<1>15. CASE UNCHANGED vars
  BY <1>15 DEF vars
<1>. QED BY <1>1, <1>2, <1>3, <1>4, <1>5, <1>6, <1>7, <1>8, <1>9, <1>10, <1>11, <1>12, <1>13, <1>14, <1>15 DEF Next, MainStep, HkStep

\* Every step keeps what the housekeeper holds.
LEMMA HkStepKeeps ==
  ASSUME ListInv, [Next]_vars
  PROVE  HkHolds'
<1> USE ClientsAssumption DEF ClientsAssumption, ListInv, MainHolds, HkHolds, ContextsHold, LinksLive, LinkedOnce, TypeOK, Links, Targets, Linking, daemonVars, listVars, mainVars, hkVars, bornVars
<1>1. ASSUME NEW c \in Clients, Accept(c) \/ Reject(c) \/ ThreadStep(c) PROVE HkHolds'
  <2>1. CASE Accept(c)
    BY <2>1 DEF Accept
  <2>2. CASE Reject(c)
    BY <2>2 DEF Reject
  <2>3. CASE Request(c)
    BY <2>3 DEF Request, Touches, ThreadAt
  <2>4. CASE RequestFails(c)
    BY <2>4 DEF RequestFails, Touches, ThreadAt, CloseSocket
  <2>5. CASE PluginRefused(c)
    BY <2>5 DEF PluginRefused, ThreadAt
  <2>6. CASE Finish(c)
    BY <2>6 DEF Finish, Touches, ThreadAt, CloseSocket
  <2>7. CASE Account(c)
    BY <2>7 DEF Account, Touches, ThreadAt
  <2>. QED BY <1>1, <2>1, <2>2, <2>3, <2>4, <2>5, <2>6, <2>7 DEF ThreadStep, ServerStep
<1>2. CASE Walk
  BY <1>2 DEF Walk, Touches
<1>3. CASE Append
  BY <1>3 DEF Append, Touches
<1>4. CASE Spawn
  BY <1>4 DEF Spawn, Touches
<1>5. CASE Detach
  BY <1>5 DEF Detach
<1>6. CASE LeaveLoop
  BY <1>6 DEF LeaveLoop
<1>7. CASE Shutdown
  BY <1>7 DEF Shutdown
<1>8. CASE Stop
  BY <1>8 DEF Stop
<1>9. CASE HkSleep
  BY <1>9 DEF HkSleep
<1>10. CASE HkRead
  <2>1. hkPrev \in Linking /\ hkLimit >= 0 /\ hkCsd' = link[hkPrev] /\ link[hkPrev] \in Targets
    BY <1>10 DEF HkRead
  <2>2. Linking' = Linking /\ hkPrev' = hkPrev /\ hkLimit' = hkLimit /\ link' = link /\ memory' = memory
    BY <1>10 DEF HkRead
  <2>3. CASE link[hkPrev] = "null"
    BY <2>1, <2>2, <2>3, <1>10 DEF HkRead
  <2>4. CASE link[hkPrev] # "null"
    <3>1. hk' = "look"
      BY <2>4, <1>10 DEF HkRead
    <3>2. link[hkPrev] \in Clients /\ memory[link[hkPrev]] = "live"
      BY <2>1, <2>4
    <3>3. link[hkPrev] # hkPrev
      BY <2>1, <3>2, NoSelfLink
    <3>. QED BY <2>1, <2>2, <3>1, <3>2, <3>3
  <2>. QED BY <2>3, <2>4
<1>11. CASE HkAlive
  BY <1>11 DEF HkAlive, Exhausted
<1>12. CASE HkClosed
  BY <1>12 DEF HkClosed, NextOf
<1>13. CASE HkUnlink
  <2> HIDE DEF ListInv, Linking, ContextsHold, TypeOK, MainHolds, LinksLive
  <2>1. /\ hk' = "free" /\ hkCsd' = hkCsd /\ hkPrev' = hkPrev /\ hkLimit' = hkLimit
        /\ memory' = memory /\ open' = open /\ hk = "unlink"
    BY <1>13 DEF HkUnlink
  <2>2. \A l \in Linking' : link'[l] # hkCsd
    BY <1>13, Unlinking DEF ListInv
  <2>3. hkPrev \in Linking'
    BY <1>13, Unlinking
  <2>. QED BY <2>1, <2>2, <2>3 DEF ListInv
<1>14. CASE HkFree
  BY <1>14 DEF HkFree
<1>15. CASE UNCHANGED vars
  BY <1>15 DEF vars
<1>. QED BY <1>1, <1>2, <1>3, <1>4, <1>5, <1>6, <1>7, <1>8, <1>9, <1>10, <1>11, <1>12, <1>13, <1>14, <1>15 DEF Next, MainStep, HkStep

\* Every step keeps contexts, sockets and threads together.
LEMMA ContextStepKeeps ==
  ASSUME ListInv, [Next]_vars
  PROVE  ContextsHold'
<1> USE ClientsAssumption DEF ClientsAssumption, ListInv, MainHolds, HkHolds, ContextsHold, TypeOK, Links, Targets, Linking, daemonVars, listVars, mainVars, hkVars, bornVars
<1>1. ASSUME NEW c \in Clients, Accept(c) \/ Reject(c) \/ ThreadStep(c) PROVE ContextsHold'
  <2>1. CASE Accept(c)
    BY <2>1 DEF Accept
  <2>2. CASE Reject(c)
    BY <2>2 DEF Reject
  <2>3. CASE Request(c)
    BY <2>3 DEF Request, Touches, ThreadAt
  <2>4. CASE RequestFails(c)
    BY <2>4 DEF RequestFails, Touches, ThreadAt, CloseSocket
  <2>5. CASE PluginRefused(c)
    BY <2>5 DEF PluginRefused, ThreadAt
  <2>6. CASE Finish(c)
    BY <2>6 DEF Finish, Touches, ThreadAt, CloseSocket
  <2>7. CASE Account(c)
    BY <2>7 DEF Account, Touches, ThreadAt
  <2>. QED BY <1>1, <2>1, <2>2, <2>3, <2>4, <2>5, <2>6, <2>7 DEF ThreadStep, ServerStep
<1>2. CASE Walk
  BY <1>2 DEF Walk, Touches
<1>3. CASE Append
  <2>1. csd \in Clients /\ csd \in open /\ born[csd] = accepted /\ memory[csd] = "live"
    BY <1>3 DEF Append
  <2>2. prev \in Clients => born[prev] < accepted
    BY <1>3 DEF Append
  <2>3. /\ link' = [link EXCEPT ![prev] = csd] /\ prev \in Links
        /\ UNCHANGED <<memory, open, thread, born>>
    BY <1>3 DEF Append
  <2>4. prev \in Clients => memory[prev] # "none"
    BY <1>3 DEF Append
  <2> SUFFICES ASSUME NEW c \in Clients
      PROVE /\ memory[c] = "none" => link'[c] = "null" /\ \A l \in Links : link'[l] # c
            /\ link'[c] # "null" => born[c] < born[link'[c]]
    BY <2>3
  <2>5. memory[c] = "none" => link'[c] = "null" /\ \A l \in Links : link'[l] # c
    BY <2>1, <2>3, <2>4
  <2>6. link'[c] # "null" => born[c] < born[link'[c]]
    BY <2>1, <2>2, <2>3
  <2>. QED BY <2>5, <2>6
<1>4. CASE Spawn
  BY <1>4 DEF Spawn, Touches
<1>5. CASE Detach
  BY <1>5 DEF Detach
<1>6. CASE LeaveLoop
  BY <1>6 DEF LeaveLoop
<1>7. CASE Shutdown
  BY <1>7 DEF Shutdown
<1>8. CASE Stop
  BY <1>8 DEF Stop
<1>9. CASE HkSleep
  BY <1>9 DEF HkSleep
<1>10. CASE HkRead
  BY <1>10 DEF HkRead
<1>11. CASE HkAlive
  BY <1>11 DEF HkAlive, Exhausted
<1>12. CASE HkClosed
  BY <1>12 DEF HkClosed, NextOf
<1>13. CASE HkUnlink
  BY <1>13 DEF HkUnlink, Decoupled
<1>14. CASE HkFree
  BY <1>14 DEF HkFree
<1>15. CASE UNCHANGED vars
  BY <1>15 DEF vars
<1>. QED BY <1>1, <1>2, <1>3, <1>4, <1>5, <1>6, <1>7, <1>8, <1>9, <1>10, <1>11, <1>12, <1>13, <1>14, <1>15 DEF Next, MainStep, HkStep

\* No two clients come at the same time.
LEMMA BornStepKeeps ==
  ASSUME ListInv, [Next]_vars
  PROVE  BornOnce'
<1> USE ClientsAssumption DEF ClientsAssumption, ListInv, BornOnce, ContextsHold, TypeOK, daemonVars, listVars, mainVars, hkVars, bornVars
<1>1. ASSUME NEW c \in Clients, Accept(c) \/ Reject(c) \/ ThreadStep(c) PROVE BornOnce'
  <2>1. CASE Accept(c)
    BY <2>1 DEF Accept
  <2>2. CASE Reject(c)
    BY <2>2 DEF Reject
  <2>3. CASE Request(c)
    BY <2>3 DEF Request, Touches, ThreadAt
  <2>4. CASE RequestFails(c)
    BY <2>4 DEF RequestFails, Touches, ThreadAt, CloseSocket
  <2>5. CASE PluginRefused(c)
    BY <2>5 DEF PluginRefused, ThreadAt
  <2>6. CASE Finish(c)
    BY <2>6 DEF Finish, Touches, ThreadAt, CloseSocket
  <2>7. CASE Account(c)
    BY <2>7 DEF Account, Touches, ThreadAt
  <2>. QED BY <1>1, <2>1, <2>2, <2>3, <2>4, <2>5, <2>6, <2>7 DEF ThreadStep, ServerStep
<1>2. CASE Walk
  BY <1>2 DEF Walk, Touches
<1>3. CASE Append
  BY <1>3 DEF Append, Touches
<1>4. CASE Spawn
  BY <1>4 DEF Spawn, Touches
<1>5. CASE Detach
  BY <1>5 DEF Detach
<1>6. CASE LeaveLoop
  BY <1>6 DEF LeaveLoop
<1>7. CASE Shutdown
  BY <1>7 DEF Shutdown
<1>8. CASE Stop
  BY <1>8 DEF Stop
<1>9. CASE HkSleep
  BY <1>9 DEF HkSleep
<1>10. CASE HkRead
  BY <1>10 DEF HkRead
<1>11. CASE HkAlive
  BY <1>11 DEF HkAlive, Exhausted
<1>12. CASE HkClosed
  BY <1>12 DEF HkClosed, NextOf
<1>13. CASE HkUnlink
  BY <1>13 DEF HkUnlink, Decoupled
<1>14. CASE HkFree
  BY <1>14 DEF HkFree
<1>15. CASE UNCHANGED vars
  BY <1>15 DEF vars
<1>. QED BY <1>1, <1>2, <1>3, <1>4, <1>5, <1>6, <1>7, <1>8, <1>9, <1>10, <1>11, <1>12, <1>13, <1>14, <1>15 DEF Next, MainStep, HkStep

\* Every step keeps the links live.
LEMMA LinkStepKeeps ==
  ASSUME ListInv, [Next]_vars
  PROVE  LinksLive'
<1> USE ClientsAssumption DEF ClientsAssumption, ListInv, MainHolds, HkHolds, ContextsHold, LinksLive, LinkedOnce, TypeOK, Links, Targets, Linking, daemonVars, listVars, mainVars, hkVars, bornVars
<1>1. ASSUME NEW c \in Clients, Accept(c) \/ Reject(c) \/ ThreadStep(c) PROVE LinksLive'
  <2>1. CASE Accept(c)
    BY <2>1 DEF Accept
  <2>2. CASE Reject(c)
    BY <2>2 DEF Reject
  <2>3. CASE Request(c)
    BY <2>3 DEF Request, Touches, ThreadAt
  <2>4. CASE RequestFails(c)
    BY <2>4 DEF RequestFails, Touches, ThreadAt, CloseSocket
  <2>5. CASE PluginRefused(c)
    BY <2>5 DEF PluginRefused, ThreadAt
  <2>6. CASE Finish(c)
    BY <2>6 DEF Finish, Touches, ThreadAt, CloseSocket
  <2>7. CASE Account(c)
    BY <2>7 DEF Account, Touches, ThreadAt
  <2>. QED BY <1>1, <2>1, <2>2, <2>3, <2>4, <2>5, <2>6, <2>7 DEF ThreadStep, ServerStep
<1>2. CASE Walk
  BY <1>2 DEF Walk, Touches
<1>3. CASE Append
  BY <1>3 DEF Append, Touches
<1>4. CASE Spawn
  BY <1>4 DEF Spawn, Touches
<1>5. CASE Detach
  BY <1>5 DEF Detach
<1>6. CASE LeaveLoop
  BY <1>6 DEF LeaveLoop
<1>7. CASE Shutdown
  BY <1>7 DEF Shutdown
<1>8. CASE Stop
  BY <1>8 DEF Stop
<1>9. CASE HkSleep
  BY <1>9 DEF HkSleep
<1>10. CASE HkRead
  BY <1>10 DEF HkRead
<1>11. CASE HkAlive
  BY <1>11 DEF HkAlive, Exhausted
<1>12. CASE HkClosed
  BY <1>12 DEF HkClosed, NextOf
<1>13. CASE HkUnlink
  <2> HIDE DEF ListInv, Linking, ContextsHold, TypeOK, MainHolds, HkHolds, LinkedOnce
  <2>1. memory' = memory
    BY <1>13 DEF HkUnlink
  <2>. QED BY <2>1, <1>13, Unlinking DEF ListInv
<1>14. CASE HkFree
  BY <1>14 DEF HkFree
<1>15. CASE UNCHANGED vars
  BY <1>15 DEF vars
<1>. QED BY <1>1, <1>2, <1>3, <1>4, <1>5, <1>6, <1>7, <1>8, <1>9, <1>10, <1>11, <1>12, <1>13, <1>14, <1>15 DEF Next, MainStep, HkStep

\* Every step keeps a context from being linked twice.
LEMMA OnceStepKeeps ==
  ASSUME ListInv, [Next]_vars
  PROVE  LinkedOnce'
<1> USE ClientsAssumption DEF ClientsAssumption, ListInv, MainHolds, HkHolds, ContextsHold, LinkedOnce, TypeOK, Links, Targets, Linking, daemonVars, listVars, mainVars, hkVars, bornVars
<1>1. ASSUME NEW c \in Clients, Accept(c) \/ Reject(c) \/ ThreadStep(c) PROVE LinkedOnce'
  <2>1. CASE Accept(c)
    BY <2>1 DEF Accept
  <2>2. CASE Reject(c)
    BY <2>2 DEF Reject
  <2>3. CASE Request(c)
    BY <2>3 DEF Request, Touches, ThreadAt
  <2>4. CASE RequestFails(c)
    BY <2>4 DEF RequestFails, Touches, ThreadAt, CloseSocket
  <2>5. CASE PluginRefused(c)
    BY <2>5 DEF PluginRefused, ThreadAt
  <2>6. CASE Finish(c)
    BY <2>6 DEF Finish, Touches, ThreadAt, CloseSocket
  <2>7. CASE Account(c)
    BY <2>7 DEF Account, Touches, ThreadAt
  <2>. QED BY <1>1, <2>1, <2>2, <2>3, <2>4, <2>5, <2>6, <2>7 DEF ThreadStep, ServerStep
<1>2. CASE Walk
  BY <1>2 DEF Walk, Touches
<1>3. CASE Append
  BY <1>3 DEF Append, Touches
<1>4. CASE Spawn
  BY <1>4 DEF Spawn, Touches
<1>5. CASE Detach
  BY <1>5 DEF Detach
<1>6. CASE LeaveLoop
  BY <1>6 DEF LeaveLoop
<1>7. CASE Shutdown
  BY <1>7 DEF Shutdown
<1>8. CASE Stop
  BY <1>8 DEF Stop
<1>9. CASE HkSleep
  BY <1>9 DEF HkSleep
<1>10. CASE HkRead
  BY <1>10 DEF HkRead
<1>11. CASE HkAlive
  BY <1>11 DEF HkAlive, Exhausted
<1>12. CASE HkClosed
  BY <1>12 DEF HkClosed, NextOf
<1>13. CASE HkUnlink
  <2> HIDE DEF ListInv, Linking, ContextsHold, TypeOK, MainHolds, HkHolds
  <2>. QED BY <1>13, Unlinking DEF ListInv
<1>14. CASE HkFree
  BY <1>14 DEF HkFree
<1>15. CASE UNCHANGED vars
  BY <1>15 DEF vars
<1>. QED BY <1>1, <1>2, <1>3, <1>4, <1>5, <1>6, <1>7, <1>8, <1>9, <1>10, <1>11, <1>12, <1>13, <1>14, <1>15 DEF Next, MainStep, HkStep

\* It holds before the first client.
LEMMA ListInvInit ==
  ASSUME Init
  PROVE  ListInv
<1> USE ClientsAssumption DEF ClientsAssumption, Init
<1>1. TypeOK
  <2>1. keep_running \in BOOLEAN /\ down \in BOOLEAN /\ corrupt \in BOOLEAN
    BY Zenon
  <2>2. protocol \in Protocols /\ open \subseteq Clients /\ late \subseteq Clients
    OBVIOUS
  <2>3. memory \in [Clients -> {"none", "live", "freed"}] /\ link \in [Links -> Targets]
    BY DEF Links, Targets
  <2>4. thread \in [Clients -> ThreadPlaces] /\ main \in MainPlaces /\ hk \in HkPlaces
    BY DEF ThreadPlaces, MainPlaces, HkPlaces
  <2>5. csd \in Targets /\ prev \in Links /\ hkCsd \in Targets /\ hkPrev \in Links /\ hkNext \in Targets
    BY DEF Links, Targets
  <2>6. hkLimit \in -1 .. Limit /\ accepted \in Nat /\ born \in [Clients -> 0 .. accepted]
    OBVIOUS
  <2>. QED BY <2>1, <2>2, <2>3, <2>4, <2>5, <2>6 DEF TypeOK
<1>2. MainHolds /\ HkHolds
  BY DEF MainHolds, HkHolds
<1>3. ContextsHold
  BY DEF ContextsHold, Links
<1>4. BornOnce
  BY DEF BornOnce
<1>5. LinksLive /\ LinkedOnce
  BY DEF LinksLive, LinkedOnce, Linking, Links
<1>. QED BY <1>1, <1>2, <1>3, <1>4, <1>5 DEF ListInv

\* The invariant is inductive.
LEMMA ListInvAlways == Spec => []ListInv
<1>1. Init => ListInv
  BY ListInvInit
<1>2. ListInv /\ [Next]_vars => ListInv'
  <2> SUFFICES ASSUME ListInv, [Next]_vars PROVE ListInv'
    OBVIOUS
  <2>1. TypeOK
    BY DEF ListInv
  <2>. QED BY <2>1, TypeStep, MainStepKeeps, HkStepKeeps, ContextStepKeeps, BornStepKeeps,
              LinkStepKeeps, OnceStepKeeps DEF ListInv
<1>. QED BY <1>1, <1>2, PTL DEF Spec

\* Contexts, links, threads and cursors stay within their sets, and the
\* housekeeper's limit never falls below -1.
THEOREM ClientsTypeCorrect == Spec => []TypeOK
<1>1. ListInv => TypeOK
  BY DEF ListInv
<1>. QED BY <1>1, ListInvAlways, PTL

\* For any number of clients, and although nothing locks the list: no link
\* leads to a context that has been freed or to an earlier client, no context is
\* linked twice, and none is freed that a thread still serves.
THEOREM MemoryIsSound == Spec => []MemorySound
<1>1. ListInv => MemorySound
  <2> SUFFICES ASSUME ListInv PROVE MemorySound
    OBVIOUS
  <2>1. Linking \ {"first"} \subseteq Clients
    BY DEF Linking
  <2>. QED BY <2>1 DEF ListInv, MemorySound, LinksLive, LinkedOnce, ContextsHold
<1>. QED BY <1>1, ListInvAlways, PTL

(***************************************************************************)
(* The list as a whole.                                                    *)
(*                                                                         *)
(* Reachable is defined by recursion on the number of steps.  Induction on *)
(* it is by the least number without the property (SetInduction), which    *)
(* the well-foundedness of < on Nat provides.                              *)
(***************************************************************************)
LEMMA SetInduction ==
  ASSUME NEW S, 0 \in S, \A n \in Nat : n \in S => n + 1 \in S
  PROVE  Nat \subseteq S
<1> DEFINE R == OpToRel(<, Nat)
           T == Nat \ S
<1>1. IsWellFoundedOn(R, Nat)
  BY NatLessThanWellFounded
<1>2. \A x, y \in Nat : <<x, y>> \in R <=> x < y
  BY DEF OpToRel
<1> HIDE DEF R
<1>3. SUFFICES ASSUME T # {} PROVE FALSE
  OBVIOUS
<1>4. PICK x \in T : \A y \in T : ~ (<<y, x>> \in R)
  BY <1>1, <1>3, WFMin
<1>5. x \in Nat /\ x # 0 /\ x - 1 \in Nat /\ x - 1 < x
  BY <1>4
<1>6. x - 1 \in S
  BY <1>2, <1>4, <1>5
<1>. QED BY <1>4, <1>5, <1>6

\* The recursion is well defined ...
LEMMA StepsExist ==
  ASSUME NEW next, NEW N \in Nat
  PROVE  \E r : r = [n \in 0 .. N |-> IF n = 0 THEN {"first"} ELSE Further(next, r[n - 1])]
<1> DEFINE Steps(m, r) ==
             r = [n \in 0 .. m |-> IF n = 0 THEN {"first"} ELSE Further(next, r[n - 1])]
           S == {m \in Nat : \E r : Steps(m, r)}
<1>1. 0 \in S
  <2>1. Steps(0, [n \in 0 .. 0 |-> {"first"}])
    OBVIOUS
  <2>. QED BY <2>1
<1>2. ASSUME NEW m \in Nat, m \in S PROVE m + 1 \in S
  <2>1. PICK r : Steps(m, r)
    BY <1>2
  <2> DEFINE q == [n \in 0 .. m + 1 |-> IF n <= m THEN r[n] ELSE Further(next, r[m])]
  <2>2. \A n \in 0 .. m + 1 : q[n] = IF n = 0 THEN {"first"} ELSE Further(next, q[n - 1])
    <3> SUFFICES ASSUME NEW n \in 0 .. m + 1
                 PROVE  q[n] = IF n = 0 THEN {"first"} ELSE Further(next, q[n - 1])
      OBVIOUS
    <3>1. CASE n = 0
      BY <2>1, <3>1
    <3>2. CASE n \in 1 .. m
      <4>1. q[n] = r[n] /\ q[n - 1] = r[n - 1]
        BY <3>2
      <4>2. r[n] = Further(next, r[n - 1])
        <5>1. \A k \in 0 .. m : r[k] = IF k = 0 THEN {"first"} ELSE Further(next, r[k - 1])
          BY <2>1, Zenon
        <5>. QED BY <3>2, <5>1
      <4>. QED BY <3>2, <4>1, <4>2
    <3>3. CASE n = m + 1
      <4>1. q[n] = Further(next, r[m]) /\ q[n - 1] = r[m]
        BY <3>3
      <4>. QED BY <3>3, <4>1
    <3>. QED BY <3>1, <3>2, <3>3
  <2>3. Steps(m + 1, q)
    <3> DEFINE q2 == [n \in 0 .. m + 1 |-> IF n = 0 THEN {"first"} ELSE Further(next, q[n - 1])]
    <3>1. \A n \in 0 .. m + 1 : q[n] = q2[n]
      BY <2>2
    <3>2. q = [n \in 0 .. m + 1 |-> q[n]] /\ q2 = [n \in 0 .. m + 1 |-> q2[n]]
      OBVIOUS
    <3> HIDE DEF q, q2
    <3>3. q = q2
      BY <3>1, <3>2
    <3>. QED BY <3>3 DEF q2
  <2> HIDE DEF Steps, q
  <2>. QED BY <2>3
<1> HIDE DEF S
<1>3. N \in S
  BY <1>1, <1>2, SetInduction
<1>. QED BY <1>3 DEF S

\* ... and Reachable is what it comes to after as many steps as there are contexts.
LEMMA ReachableBySteps ==
  ASSUME NEW next
  PROVE  LET N == Cardinality(Clients) IN
         /\ N \in Nat
         /\ \E r : /\ r[0] = {"first"}
                   /\ \A n \in 1 .. N : r[n] = Further(next, r[n - 1])
                   /\ Reachable(next) = r[N] \ {"first", "null"}
<1> DEFINE N == Cardinality(Clients)
           r == CHOOSE r : r = [n \in 0 .. N |->
                                  IF n = 0 THEN {"first"} ELSE Further(next, r[n - 1])]
<1>1. N \in Nat
  BY ClientsAssumption, FS_CardinalityType DEF ClientsAssumption
<1>2. Reachable(next) = r[N] \ {"first", "null"}
  BY DEF Reachable
<1>3. r = [n \in 0 .. N |-> IF n = 0 THEN {"first"} ELSE Further(next, r[n - 1])]
  <2>1. \E q : q = [n \in 0 .. N |-> IF n = 0 THEN {"first"} ELSE Further(next, q[n - 1])]
    BY <1>1, StepsExist
  <2>. QED BY <2>1
<1> HIDE DEF r, N
<1>4. r[0] = {"first"} /\ \A n \in 1 .. N : r[n] = Further(next, r[n - 1])
  <2>1. \A n \in 0 .. N : r[n] = IF n = 0 THEN {"first"} ELSE Further(next, r[n - 1])
    BY <1>3, Zenon
  <2>. QED BY <1>1, <2>1
<1>. QED BY <1>1, <1>2, <1>4 DEF N

\* Whatever contains the socket and goes on along the links has all that is
\* reachable.
LEMMA ReachableLeast ==
  ASSUME NEW next, NEW S, "first" \in S, \A l \in S \ {"null"} : next[l] \in S
  PROVE  Reachable(next) \subseteq S
<1> DEFINE N == Cardinality(Clients)
<1>1. PICK r : /\ r[0] = {"first"}
               /\ \A n \in 1 .. N : r[n] = Further(next, r[n - 1])
               /\ Reachable(next) = r[N] \ {"first", "null"}
  BY ReachableBySteps
<1>2. N \in Nat
  BY ReachableBySteps
<1> HIDE DEF N
<1> DEFINE T == {n \in Nat : n <= N => r[n] \subseteq S}
<1>3. 0 \in T
  BY <1>1
<1>4. ASSUME NEW n \in Nat, n \in T PROVE n + 1 \in T
  <2> SUFFICES ASSUME n + 1 <= N PROVE r[n + 1] \subseteq S
    OBVIOUS
  <2>1. r[n] \subseteq S
    BY <1>2, <1>4
  <2>2. r[n + 1] = Further(next, r[n])
    BY <1>1, <1>2
  <2>. QED BY <2>1, <2>2 DEF Further
<1> HIDE DEF T
<1>5. N \in T
  BY <1>2, <1>3, <1>4, SetInduction
<1>. QED BY <1>1, <1>2, <1>5 DEF T

\* What is reachable goes on along the links: there are enough steps.
LEMMA ReachableClosed ==
  ASSUME NEW next \in [Links -> Targets], NEW l \in {"first"} \cup Reachable(next)
  PROVE  next[l] \in Reachable(next) \cup {"null"}
<1> DEFINE N == Cardinality(Clients)
<1> USE ClientsAssumption DEF ClientsAssumption
<1>1. PICK r : /\ r[0] = {"first"}
               /\ \A n \in 1 .. N : r[n] = Further(next, r[n - 1])
               /\ Reachable(next) = r[N] \ {"first", "null"}
  BY ReachableBySteps
<1>2. N \in Nat
  BY ReachableBySteps
<1> DEFINE Y(n) == r[n] \ {"null"}
           Ahead(L) == {"first"} \cup ({next[m] : m \in L} \ {"null"})
           Known(n) == /\ "first" \in Y(n) /\ Y(n) \subseteq Links
                       /\ Y(n) \subseteq Ahead(Y(n))
                       /\ Y(n) = Ahead(Y(n)) \/ Cardinality(Y(n)) >= n + 1
           T == {n \in Nat : n <= N => Known(n)}
<1>3. IsFiniteSet(Links) /\ Cardinality(Links) = N + 1
  BY FS_AddElement DEF Links
<1> HIDE DEF N
<1>4. ASSUME NEW n \in 1 .. N PROVE Y(n) = Ahead(Y(n - 1))
  <2>1. r[n] = {"first"} \cup {next[m] : m \in Y(n - 1)}
    BY <1>1, <1>4 DEF Further
  <2>. QED BY <2>1
<1>5. 0 \in T
  <2>1. Y(0) = {"first"}
    BY <1>1
  <2>2. Cardinality(Y(0)) = 1
    BY <2>1, FS_Singleton
  <2>. QED BY <2>1, <2>2 DEF Links
<1>6. ASSUME NEW n \in Nat, n \in T PROVE n + 1 \in T
  <2> SUFFICES ASSUME n + 1 <= N PROVE Known(n + 1)
    OBVIOUS
  <2> DEFINE A == Y(n)
             B == Y(n + 1)
  <2>1. Known(n)
    BY <1>2, <1>6
  <2>2. B = Ahead(A)
    BY <1>2, <1>4
  <2> HIDE DEF A, B
  <2>3. A \subseteq B /\ "first" \in B
    BY <2>1, <2>2 DEF A
  <2>4. B \subseteq Links
    <3>1. \A m \in A : next[m] \in Targets
      BY <2>1 DEF A
    <3>. QED BY <2>2, <3>1 DEF Links, Targets
  <2>5. B \subseteq Ahead(B)
    BY <2>2, <2>3
  <2>6. B = Ahead(B) \/ Cardinality(B) >= n + 2
    <3>1. CASE A = B
      BY <2>2, <3>1
    <3>2. CASE A # B
      <4>1. Cardinality(A) >= n + 1
        BY <2>1, <2>2, <3>2 DEF A
      <4>2. IsFiniteSet(B) /\ Cardinality(B) \in Nat
        BY <1>3, <2>4, FS_Subset, FS_CardinalityType
      <4>3. Cardinality(A) <= Cardinality(B) /\ Cardinality(A) # Cardinality(B)
            /\ Cardinality(A) \in Nat
        BY <2>3, <3>2, <4>2, FS_Subset, FS_CardinalityType
      <4>. QED BY <4>1, <4>2, <4>3
    <3>. QED BY <3>1, <3>2
  <2>. QED BY <2>3, <2>4, <2>5, <2>6 DEF B
<1> HIDE DEF T
<1>7. Known(N)
  <2>1. N \in T
    BY <1>2, <1>5, <1>6, SetInduction
  <2>. QED BY <1>2, <2>1 DEF T
<1>8. Y(N) = Ahead(Y(N))
  <2>1. CASE Cardinality(Y(N)) >= N + 1
    <3>1. Cardinality(Y(N)) <= N + 1 /\ (Cardinality(Y(N)) = N + 1 => Y(N) = Links)
          /\ Cardinality(Y(N)) \in Nat
      BY <1>3, <1>7, FS_Subset, FS_CardinalityType
    <3>2. Y(N) = Links
      BY <1>2, <2>1, <3>1
    <3>3. Ahead(Links) \subseteq Links
      BY DEF Links, Targets
    <3>. QED BY <1>7, <3>2, <3>3
  <2>. QED BY <1>7, <2>1
<1>9. {"first"} \cup Reachable(next) = Y(N)
  BY <1>1, <1>7
<1>10. l \in Y(N)
  BY <1>9
<1>11. next[l] \in Ahead(Y(N)) \cup {"null"}
  BY <1>10
<1>12. next[l] # "first"
  <2>1. l \in Links
    BY <1>7, <1>10
  <2>. QED BY <2>1 DEF Targets
<1>. QED BY <1>8, <1>9, <1>11, <1>12

\* The socket, the contexts that can be reached and the end of the list.
Known(next) == {"first", "null"} \cup Reachable(next)

LEMMA KnownGoesOn ==
  ASSUME NEW next \in [Links -> Targets], NEW l \in Known(next) \ {"null"}
  PROVE  l \in Links /\ next[l] \in Known(next)
<1> USE ClientsAssumption DEF ClientsAssumption
<1>1. Reachable(next) \subseteq Links \cup {"null"}
  <2>1. \A m \in Links : next[m] \in Links \cup {"null"}
    BY DEF Links, Targets
  <2>. QED BY <2>1, ReachableLeast DEF Links
<1>. QED BY <1>1, ReachableClosed DEF Known, Links

\* While the housekeeper holds the successor it has read, what it would lose is
\* behind the context it takes out, and late.
LateHold ==
  hk = "unlink" =>
    /\ hkNext = link[hkCsd] \/ (hkNext = "null" /\ link[hkCsd] \in late)
    /\ \A c \in late : link[c] \in late \cup {"null"}

ListInvLate == ListInv /\ LateHold

LEMMA LateStepKeeps ==
  ASSUME ListInvLate, [Next]_vars
  PROVE  LateHold'
<1> USE DEF ListInvLate, LateHold, daemonVars, listVars, mainVars, hkVars, bornVars
<1>0. TypeOK /\ hk \in HkPlaces /\ late \subseteq Clients /\ link \in [Links -> Targets]
  BY DEF ListInv, TypeOK
<1>1. ASSUME NEW c \in Clients, Accept(c) \/ Reject(c) \/ ThreadStep(c) PROVE LateHold'
  <2>1. CASE Accept(c)
    <3>1. link[c] = "null"
      BY <2>1 DEF Accept, ListInv, ContextsHold
    <3>2. link' = link
      BY <1>0, <2>1, <3>1 DEF Accept, Links
    <3>. QED BY <2>1, <3>2 DEF Accept
  <2>2. CASE Reject(c)
    BY <2>2 DEF Reject
  <2>3. CASE ThreadStep(c)
    <3>1. UNCHANGED <<hk, hkNext, hkCsd, link, late>>
      BY <2>3 DEF ThreadStep, ServerStep, Request, RequestFails, PluginRefused, Finish, Account
    <3>. QED BY <3>1
  <2>. QED BY <1>1, <2>1, <2>2, <2>3
<1>2. CASE Append
  <2> SUFFICES ASSUME hk = "unlink"
               PROVE  /\ hkNext' = link'[hkCsd'] \/ (hkNext' = "null" /\ link'[hkCsd'] \in late')
                      /\ \A c \in late' : link'[c] \in late' \cup {"null"}
    BY <1>2 DEF Append
  <2>1. /\ link' = [link EXCEPT ![prev] = csd] /\ late' = late \cup {csd}
        /\ UNCHANGED <<hk, hkNext, hkCsd>> /\ link[prev] = "null" /\ prev \in Links
    BY <1>2 DEF Append, ListInv, MainHolds, TypeOK
  <2>2. prev # csd
    BY <1>2, ClientsAssumption DEF ClientsAssumption, Append, ListInv, MainHolds, TypeOK
  <2>3. hkCsd \in Links /\ csd \in Clients /\ link[csd] = "null"
    BY <1>2 DEF Append, ListInv, HkHolds, MainHolds, Links
  <2>4. "null" \notin late
    BY <1>0, ClientsAssumption DEF ClientsAssumption
  <2>5. hkNext' = link'[hkCsd] \/ (hkNext' = "null" /\ link'[hkCsd] \in late')
    <3>1. CASE prev = hkCsd
      BY <1>0, <2>1, <2>3, <2>4, <3>1
    <3>2. CASE prev # hkCsd
      BY <1>0, <2>1, <2>3, <3>2
    <3>. QED BY <3>1, <3>2
  <2>6. \A c \in late' : link'[c] \in late' \cup {"null"}
    <3> SUFFICES ASSUME NEW c \in late' PROVE link'[c] \in late' \cup {"null"}
      OBVIOUS
    <3>1. c \in Links
      BY <1>0, <2>1, <2>3 DEF Links
    <3>2. CASE c = prev
      BY <1>0, <2>1, <3>1, <3>2
    <3>3. CASE c # prev
      <4>1. link'[c] = link[c]
        BY <1>0, <2>1, <3>1, <3>3
      <4>. QED BY <2>1, <2>3, <4>1
    <3>. QED BY <3>2, <3>3
  <2>. QED BY <2>1, <2>5, <2>6, Zenon
<1>3. CASE HkClosed
  BY <1>3 DEF HkClosed, NextOf
<1>4. CASE Walk \/ Spawn \/ Detach \/ LeaveLoop \/ Shutdown \/ Stop
  <2>1. UNCHANGED <<hk, hkNext, hkCsd, link, late>>
    BY <1>4 DEF Walk, Spawn, Detach, LeaveLoop, Shutdown, Stop
  <2>. QED BY <2>1
<1>5. CASE HkSleep \/ HkRead \/ HkAlive \/ HkUnlink \/ HkFree
  <2>1. hk' # "unlink"
    BY <1>5 DEF HkSleep, HkRead, HkAlive, HkUnlink, HkFree
  <2>. QED BY <2>1
<1>6. CASE UNCHANGED vars
  BY <1>6 DEF vars
<1>. QED BY <1>1, <1>2, <1>3, <1>4, <1>5, <1>6 DEF Next, MainStep, HkStep

LEMMA ListInvLateAlways == Spec => []ListInvLate
<1>1. Init => LateHold
  BY DEF Init, LateHold
<1>2. ListInvLate /\ [Next]_vars => LateHold'
  BY LateStepKeeps
<1>. QED BY <1>1, <1>2, ListInvAlways, PTL DEF Spec, ListInvLate

\* What was reachable before is reachable behind the context, or is late, or is
\* the context itself.
LEMMA UnlinkLoses ==
  ASSUME ListInvLate, HkUnlink
  PROVE  Listed \ Listed' \subseteq {hkCsd} \cup late
<1> USE ClientsAssumption DEF ClientsAssumption
<1> DEFINE After == Known(link')
           S == After \cup {hkCsd} \cup late
<1>1. /\ \A l \in Links : l # hkPrev => link'[l] = link[l]
      /\ link'[hkPrev] = hkNext /\ link[hkPrev] = hkCsd
      /\ hkCsd \in Clients
  BY Unlinking DEF ListInvLate
<1>2. link' \in [Links -> Targets] /\ Listed' = Reachable(link') /\ Listed = Reachable(link)
  <2>1. link \in [Links -> Targets] /\ hkNext \in Targets
    BY DEF ListInvLate, ListInv, TypeOK
  <2>2. link' = [link EXCEPT ![hkPrev] = hkNext]
    BY DEF HkUnlink, Decoupled
  <2>. QED BY <2>1, <2>2 DEF Listed
<1>3. \A l \in After \ {"null"} : l \in Links /\ link'[l] \in After
  BY <1>2, KnownGoesOn
<1>4. "first" \in After /\ "null" \in After
  BY DEF Known
<1> HIDE DEF After
<1>5. CASE hkPrev \in After
  <2>1. hkNext \in After
    BY <1>1, <1>3, <1>5 DEF ListInvLate, ListInv, HkHolds, HkUnlink, Linking
  <2>2. link[hkCsd] \in After \cup late /\ \A c \in late : link[c] \in late \cup {"null"}
    BY <2>1 DEF ListInvLate, LateHold, HkUnlink
  <2>3. \A l \in S \ {"null"} : link[l] \in S
    BY <1>1, <1>3, <1>4, <2>2
  <2> HIDE DEF S
  <2>4. Reachable(link) \subseteq S
    BY <1>4, <2>3, ReachableLeast DEF S
  <2>. QED BY <1>2, <2>4 DEF S, After, Known, Reachable
<1>6. CASE hkPrev \notin After
  <2>1. \A l \in After \ {"null"} : link[l] \in After
    BY <1>1, <1>3, <1>6
  <2>2. Reachable(link) \subseteq After
    BY <1>4, <2>1, ReachableLeast
  <2>. QED BY <1>2, <2>2 DEF After, Known, Reachable
<1>. QED BY <1>5, <1>6

\* An appended context hides none that was reachable: the link it is written
\* to was the end of a list.
LEMMA AppendLoses ==
  ASSUME ListInvLate, Append
  PROVE  Listed \subseteq Listed'
<1> USE ClientsAssumption DEF ClientsAssumption
<1> DEFINE After == Known(link')
<1>1. /\ link \in [Links -> Targets] /\ link' \in [Links -> Targets]
      /\ \A l \in Links : link'[l] = link[l] \/ link[l] = "null"
  BY DEF ListInvLate, ListInv, MainHolds, TypeOK, Append, Links
<1>2. \A l \in After \ {"null"} : l \in Links /\ link'[l] \in After
  BY <1>1, KnownGoesOn
<1>3. "first" \in After /\ "null" \in After
  BY DEF Known
<1> HIDE DEF After
<1>4. \A l \in After \ {"null"} : link[l] \in After
  BY <1>1, <1>2, <1>3
<1>5. Reachable(link) \subseteq After
  BY <1>3, <1>4, ReachableLeast
<1>. QED BY <1>5 DEF After, Known, Listed, Reachable

\* Nor does it bring back another one.
LEMMA AppendBrings ==
  ASSUME ListInvLate, Append
  PROVE  Listed' \subseteq Listed \cup {csd}
<1> USE ClientsAssumption DEF ClientsAssumption
<1> DEFINE Before == Known(link)
           S == Before \cup {csd}
<1>1. /\ link \in [Links -> Targets] /\ csd \in Clients /\ link[csd] = "null"
      /\ prev # csd /\ link' = [link EXCEPT ![prev] = csd]
  BY DEF ListInvLate, ListInv, MainHolds, TypeOK, Append
<1>2. \A l \in Before \ {"null"} : l \in Links /\ link[l] \in Before
  BY <1>1, KnownGoesOn
<1>3. "first" \in Before /\ "null" \in Before
  BY DEF Known
<1> HIDE DEF Before
<1>4. \A l \in S \ {"null"} : link'[l] \in S
  BY <1>1, <1>2, <1>3 DEF Links
<1>5. Reachable(link') \subseteq S
  BY <1>3, <1>4, ReachableLeast
<1>. QED BY <1>5 DEF Before, Known, Listed, Reachable

LEMMA UnlinkBrings ==
  ASSUME ListInvLate, HkUnlink
  PROVE  Listed' \subseteq Listed
<1> USE ClientsAssumption DEF ClientsAssumption
<1> DEFINE Before == Known(link)
<1>1. /\ \A l \in Links : l # hkPrev => link'[l] = link[l]
      /\ link'[hkPrev] = hkNext /\ link[hkPrev] = hkCsd
      /\ hkCsd \in Clients
  BY Unlinking DEF ListInvLate
<1>2. \A l \in Before \ {"null"} : l \in Links /\ link[l] \in Before
  BY KnownGoesOn DEF ListInvLate, ListInv, TypeOK
<1>3. "first" \in Before /\ "null" \in Before
  BY DEF Known
<1> HIDE DEF Before
<1>4. hkPrev \in Before => hkNext \in Before
  <2>1. hkPrev \in Links /\ hkPrev # "null"
    BY DEF ListInvLate, ListInv, TypeOK, Links
  <2>2. hkPrev \in Before => hkCsd \in Before
    BY <1>1, <1>2, <2>1
  <2>3. hkCsd \in Before => link[hkCsd] \in Before
    BY <1>1, <1>2
  <2>4. hkNext = link[hkCsd] \/ hkNext = "null"
    BY DEF ListInvLate, LateHold, HkUnlink
  <2>. QED BY <1>3, <2>2, <2>3, <2>4
<1>5. \A l \in Before \ {"null"} : link'[l] \in Before
  BY <1>1, <1>2, <1>4
<1>6. Reachable(link') \subseteq Before
  BY <1>3, <1>5, ReachableLeast
<1>. QED BY <1>6 DEF Before, Known, Listed, Reachable

\* Every other step leaves the links alone.
LEMMA ListChanges ==
  ASSUME ListInvLate, [Next]_vars
  PROVE  /\ \A c \in Listed \ Listed' : HkUnlink /\ c \in {hkCsd} \cup late
         /\ \A c \in Listed' \ Listed : Append /\ c = csd
<1> USE DEF daemonVars, listVars, mainVars, hkVars, bornVars
<1>1. ASSUME UNCHANGED link PROVE Listed' = Listed
  BY <1>1 DEF Listed
<1>2. CASE HkUnlink
  BY <1>2, UnlinkLoses, UnlinkBrings
<1>3. CASE Append
  BY <1>3, AppendLoses, AppendBrings
<1>4. ASSUME NEW c \in Clients, Accept(c) PROVE UNCHANGED link
  BY <1>4 DEF Accept, ListInvLate, ListInv, TypeOK, ContextsHold, Links
<1>5. ASSUME NEW c \in Clients, Reject(c) \/ ThreadStep(c) PROVE UNCHANGED link
  BY <1>5 DEF Reject, ThreadStep, ServerStep, Request, RequestFails, PluginRefused, Finish, Account
<1>6. ASSUME Walk \/ Spawn \/ Detach \/ LeaveLoop \/ Shutdown \/ Stop PROVE UNCHANGED link
  BY <1>6 DEF Walk, Spawn, Detach, LeaveLoop, Shutdown, Stop
<1>7. ASSUME HkSleep \/ HkRead \/ HkAlive \/ HkClosed \/ HkFree PROVE UNCHANGED link
  BY <1>7 DEF HkSleep, HkRead, HkAlive, HkClosed, HkFree
<1>8. ASSUME UNCHANGED vars PROVE UNCHANGED link
  BY <1>8 DEF vars
<1>. QED
  BY <1>1, <1>2, <1>3, <1>4, <1>5, <1>6, <1>7, <1>8 DEF Next, MainStep, HkStep

\* For any number of clients: a context leaves the list, which nothing locks, by
\* being taken out, or behind one that is, when the main thread has appended it
\* after the housekeeper read what comes next; and it never comes back.
THEOREM UnlinkKeepsOthers == Spec => OthersStayListed
<1>1. ListInvLate /\ [Next]_vars
        => [/\ \A c \in Listed \ Listed' : HkUnlink /\ c \in {hkCsd} \cup late
            /\ \A c \in Listed' \ Listed : Append /\ c = csd]_vars
  BY ListChanges
<1>. QED BY <1>1, ListInvLateAlways, PTL DEF Spec, OthersStayListed

=============================================================================
