------------------------ MODULE CommunicationProofs ------------------------
(***************************************************************************)
(* Proofs about Communication, alone (CommSpec) and with the markers it    *)
(* carries (Spec of UserMarkers): the invariant CommInv and what follows   *)
(* from it.                                                                *)
(***************************************************************************)
EXTENDS UserMarkers, TLAPS

\* A connection is the controller's own, and none is left while a timer waits.
OwnConnection ==
  /\ \A s \in Sockets : Live(s) => s = socket
  /\ transitionTimeout # "null" => ~Live(socket)

\* The delay is the count of the failures, but for the failure that led to a pause.
Backoff ==
  /\ transitionTimeout = "pause" <=> status = "error_pause"
  /\ status = "reconnecting" => reconnectAttempts >= 1
  /\ status = "error_pause" =>
       reconnectAttempts = MAX_RECONNECT_ATTEMPTS + 1 /\ reconnectDelay = MAX_RECONNECT_ATTEMPTS
  /\ status # "error_pause" =>
       reconnectAttempts = reconnectDelay /\ reconnectDelay <= MAX_RECONNECT_ATTEMPTS

\* A timer that runs and a socket that is not open yet have seen no ping.
UnpingedTimers ==
  \A s \in Sockets : s \in pingTimers \/ readyState[s] = "CONNECTING" => s \notin pinged

CommInv ==
  /\ TypeOK /\ OwnConnection /\ Backoff /\ UnpingedTimers
  /\ IdleMeansSilent /\ StatusMatchesSocket /\ HelloFirst

LEMMA CommInitInv == CommInit => CommInv
<1> SUFFICES ASSUME CommInit PROVE CommInv
  OBVIOUS
<1> USE CommunicationAssumption DEF CommunicationAssumption
<1>1. TypeOK
  <2>1. serverUp \in BOOLEAN /\ manualClose \in BOOLEAN
    BY ONLY CommInit, Zenon DEF CommInit
  <2>2. readyState \in [Sockets -> ReadyStates] /\ firstSent \in [Sockets -> {"nothing", "hello", "other"}]
    BY DEF CommInit, ReadyStates
  <2> QED BY <2>1, <2>2 DEF CommInit, TypeOK, Statuses
<1>2. OwnConnection /\ UnpingedTimers
  BY DEF CommInit, OwnConnection, UnpingedTimers, Live
<1>3. Backoff
  BY DEF CommInit, Backoff
<1>4. IdleMeansSilent /\ StatusMatchesSocket /\ HelloFirst
  BY DEF CommInit, IdleMeansSilent, StatusMatchesSocket, HelloFirst
<1> QED BY <1>1, <1>2, <1>3, <1>4 DEF CommInv

LEMMA CommStep ==
  ASSUME CommInv, [CommNext]_commVars
  PROVE  CommInv'
<1> USE CommunicationAssumption
    DEF CommunicationAssumption, socketVars, timerVars, backoffVars, historyVars, commVars
<1>0. /\ TypeOK /\ OwnConnection /\ Backoff /\ UnpingedTimers
      /\ IdleMeansSilent /\ StatusMatchesSocket /\ HelloFirst
  BY DEF CommInv
<1>1. ASSUME NEW s \in Sockets, OnOpen(s) PROVE CommInv'
  <2>1. s = socket /\ transitionTimeout = "null" /\ s \notin pinged
    BY <1>0, <1>1 DEF OnOpen, OwnConnection, Live, UnpingedTimers, TypeOK
  <2>2. /\ readyState' = [readyState EXCEPT ![s] = "OPEN"] /\ status' = "open"
        /\ transitionTimeout' = "null" /\ reconnectAttempts' = 0 /\ reconnectDelay' = 0
        /\ pingTimers' = pingTimers \cup {s} /\ pingTimeout' = s
        /\ UNCHANGED <<serverUp, socket, manualClose, pinged, waited>>
    BY <1>1 DEF OnOpen, TransitionToOpen, Settle, ResetBackoff, StartPingTimer
  <2>3. firstSent' = [firstSent EXCEPT ![s] = "hello"]
    <3>1. firstSent[s] \in {"nothing", "hello"} /\ IsOpen(readyState')
      BY <1>0, <2>1, <2>2 DEF HelloFirst, TypeOK, IsOpen
    <3>2. firstSent[s] = "hello" => firstSent = [firstSent EXCEPT ![s] = "hello"]
      BY <1>0 DEF TypeOK
    <3> QED BY <1>1, <2>1, <3>1, <3>2 DEF OnOpen, Send
  <2>4. TypeOK'
    BY <1>0, <2>2, <2>3 DEF TypeOK, ReadyStates, Statuses
  <2>5. OwnConnection' /\ UnpingedTimers'
    BY <1>0, <2>1, <2>2 DEF OwnConnection, UnpingedTimers, Live, TypeOK
  <2>6. Backoff'
    BY <2>2 DEF Backoff
  <2>7. IdleMeansSilent' /\ StatusMatchesSocket'
    BY <1>0, <2>1, <2>2 DEF IdleMeansSilent, StatusMatchesSocket, OwnConnection, Live, TypeOK
  <2>8. HelloFirst'
    BY <1>0, <2>2, <2>3 DEF HelloFirst, TypeOK
  <2> QED BY <2>4, <2>5, <2>6, <2>7, <2>8 DEF CommInv
<1>2. ASSUME NEW s \in Sockets, OnPing(s) PROVE CommInv'
  <2>1. s = socket /\ readyState[s] = "OPEN" /\ transitionTimeout = "null"
        /\ status \in {"idle", "open", "alive"} /\ firstSent[s] = "hello"
    BY <1>0, <1>2 DEF OnPing, OwnConnection, Live, TypeOK, HelloFirst, StatusMatchesSocket
  <2>2. /\ pingTimers' = {} /\ pingTimeout' = "null" /\ pinged' = pinged \cup {s}
        /\ UNCHANGED <<serverUp, readyState, socket, manualClose, waited>>
    BY <1>0, <1>2 DEF OnPing, StopPingTimer, IdleMeansSilent, TypeOK
  <2>3. firstSent' = firstSent
    BY <1>2, <2>1 DEF OnPing, Send
  <2>4. /\ status' = "alive" /\ transitionTimeout' = "null"
        /\ \/ reconnectAttempts' = 0 /\ reconnectDelay' = 0
           \/ UNCHANGED <<reconnectAttempts, reconnectDelay>>
    BY <1>2, <2>1 DEF OnPing, IsOpen, TransitionToAlive, Settle, ResetBackoff
  <2>5. TypeOK'
    BY <1>0, <2>2, <2>3, <2>4 DEF TypeOK, ReadyStates, Statuses
  <2>6. OwnConnection' /\ UnpingedTimers'
    BY <1>0, <2>1, <2>2, <2>4 DEF OwnConnection, UnpingedTimers, Live
  <2>7. Backoff'
    BY <1>0, <2>1, <2>4 DEF Backoff, TypeOK
  <2>8. IdleMeansSilent' /\ StatusMatchesSocket'
    BY <1>0, <2>1, <2>2, <2>4 DEF IdleMeansSilent, StatusMatchesSocket
  <2>9. HelloFirst'
    BY <1>0, <2>2, <2>3 DEF HelloFirst
  <2> QED BY <2>5, <2>6, <2>7, <2>8, <2>9 DEF CommInv
<1>3. ASSUME NEW s \in Sockets, OnClose(s) PROVE CommInv'
  <2>1. s = socket /\ transitionTimeout = "null" /\ status # "error_pause"
    BY <1>0, <1>3 DEF OnClose, OwnConnection, Live, TypeOK, Backoff
  <2>2. /\ readyState' = [readyState EXCEPT ![s] = "NONE"]
        /\ pingTimers' = {} /\ pingTimeout' = "null"
        /\ UNCHANGED <<serverUp, socket, manualClose, pinged, waited, firstSent>>
    BY <1>0, <1>3 DEF OnClose, StopPingTimer, IdleMeansSilent, TypeOK
  <2>3. /\ reconnectAttempts \in Nat /\ reconnectDelay = reconnectAttempts
        /\ reconnectAttempts <= MAX_RECONNECT_ATTEMPTS
    BY <1>0, <2>1 DEF Backoff, TypeOK
  <2>4. \/ /\ status' = "reconnecting" /\ transitionTimeout' = "connecting"
           /\ reconnectAttempts' = reconnectAttempts + 1 /\ reconnectDelay' = reconnectDelay + 1
           /\ reconnectAttempts + 1 <= MAX_RECONNECT_ATTEMPTS
        \/ /\ status' = "error_pause" /\ transitionTimeout' = "pause"
           /\ reconnectAttempts' = reconnectAttempts + 1 /\ reconnectDelay' = reconnectDelay
           /\ reconnectAttempts = MAX_RECONNECT_ATTEMPTS
        \/ /\ status' = "closed" /\ transitionTimeout' = "null" /\ manualClose
           /\ UNCHANGED <<reconnectAttempts, reconnectDelay>>
    <3>1. CASE manualClose
      BY <1>3, <3>1 DEF OnClose, Settle
    <3>2. CASE ~manualClose
      <4>1. reconnectAttempts' = reconnectAttempts + 1
            /\ TransitionToReconnecting(reconnectAttempts + 1)
        BY <1>3, <3>2 DEF OnClose, CountFailure
      <4>2. CASE reconnectAttempts + 1 <= MAX_RECONNECT_ATTEMPTS
        BY <2>3, <4>1, <4>2 DEF TransitionToReconnecting, Grown
      <4>3. CASE ~(reconnectAttempts + 1 <= MAX_RECONNECT_ATTEMPTS)
        BY <2>3, <4>1, <4>3 DEF TransitionToReconnecting
      <4> QED BY <4>2, <4>3
    <3> QED BY <3>1, <3>2
  <2>5. TypeOK'
    <3>1. reconnectAttempts' \in 0 .. MAX_RECONNECT_ATTEMPTS + 1 /\ reconnectDelay' \in 0 .. DelayCap
      BY <2>3, <2>4
    <3>2. status' \in Statuses /\ transitionTimeout' \in {"null", "connecting", "pause"}
      BY <2>4 DEF Statuses
    <3> QED BY <1>0, <2>2, <3>1, <3>2 DEF TypeOK, ReadyStates
  <2>6. OwnConnection' /\ UnpingedTimers'
    BY <1>0, <2>1, <2>2 DEF OwnConnection, UnpingedTimers, Live, TypeOK
  <2>7. Backoff'
    BY <2>1, <2>3, <2>4 DEF Backoff
  <2>8. readyState'[socket'] = "NONE"
    BY <1>0, <2>1, <2>2 DEF TypeOK
  <2>9. IdleMeansSilent' /\ StatusMatchesSocket'
    BY <2>2, <2>4, <2>8 DEF IdleMeansSilent, StatusMatchesSocket
  <2>10. HelloFirst'
    BY <1>0, <2>2 DEF HelloFirst, TypeOK
  <2> QED BY <2>5, <2>6, <2>7, <2>9, <2>10 DEF CommInv
<1>4. ASSUME NEW s \in Sockets, PingTimer(s) PROVE CommInv'
  <2>1. Live(s) /\ s = socket /\ transitionTimeout = "null" /\ s \notin pinged
    BY <1>0, <1>4 DEF PingTimer, OwnConnection, IdleMeansSilent, UnpingedTimers
  <2>2. /\ pingTimers' = pingTimers \ {s} /\ waited' = waited \cup {s}
        /\ UNCHANGED <<serverUp, readyState, socket, reconnectAttempts, reconnectDelay,
                       pingTimeout, manualClose, pinged, firstSent>>
    BY <1>4 DEF PingTimer
  <2>3. transitionTimeout' = "null" /\ (status' = status \/ (status = "open" /\ status' = "idle"))
    BY <1>4, <2>1 DEF PingTimer, Settle
  <2>4. TypeOK'
    BY <1>0, <2>2, <2>3 DEF TypeOK, Statuses
  <2>5. OwnConnection' /\ UnpingedTimers' /\ Backoff'
    BY <1>0, <2>1, <2>2, <2>3 DEF OwnConnection, UnpingedTimers, Backoff, Live
  <2>6. IdleMeansSilent'
    BY <1>0, <2>1, <2>2, <2>3 DEF IdleMeansSilent, Live
  <2>7. StatusMatchesSocket'
    BY <1>0, <2>1, <2>2, <2>3 DEF StatusMatchesSocket
  <2>8. HelloFirst'
    BY <1>0, <2>2 DEF HelloFirst
  <2> QED BY <2>4, <2>5, <2>6, <2>7, <2>8 DEF CommInv
<1>5. ASSUME TransitionTimer PROVE CommInv'
  <2>1. \A s \in Sockets : ~Live(s)
    BY <1>0, <1>5 DEF TransitionTimer, OwnConnection
  <2>2. pingTimers = {}
    BY <1>0, <2>1 DEF IdleMeansSilent, TypeOK
  <2>3. PICK s \in Sockets :
          /\ socket' = s /\ readyState' = [readyState EXCEPT ![s] = "CONNECTING"]
          /\ pinged' = pinged \ {s} /\ waited' = waited \ {s}
          /\ firstSent' = [firstSent EXCEPT ![s] = "nothing"]
    BY <1>5 DEF TransitionTimer, TransitionToConnecting
  <2>4. /\ status' = "connecting" /\ transitionTimeout' = "null"
        /\ UNCHANGED <<serverUp, pingTimers, pingTimeout, manualClose>>
    BY <1>5 DEF TransitionTimer, TransitionToConnecting, Settle
  <2>5. \/ reconnectAttempts' = 0 /\ reconnectDelay' = 0
        \/ transitionTimeout # "pause" /\ UNCHANGED <<reconnectAttempts, reconnectDelay>>
    BY <1>5 DEF TransitionTimer, PauseEnds, ResetBackoff
  <2>6. TypeOK'
    BY <1>0, <2>3, <2>4, <2>5 DEF TypeOK, ReadyStates, Statuses
  <2>7. OwnConnection' /\ UnpingedTimers'
    BY <1>0, <2>1, <2>2, <2>3, <2>4 DEF OwnConnection, UnpingedTimers, Live, TypeOK
  <2>8. Backoff'
    BY <1>0, <2>4, <2>5 DEF Backoff, TypeOK
  <2>9. IdleMeansSilent' /\ StatusMatchesSocket'
    BY <1>0, <2>2, <2>3, <2>4 DEF IdleMeansSilent, StatusMatchesSocket, TypeOK
  <2>10. HelloFirst'
    BY <1>0, <2>1, <2>3 DEF HelloFirst, Live, TypeOK
  <2> QED BY <2>6, <2>7, <2>8, <2>9, <2>10 DEF CommInv
<1>6. ASSUME SendOther PROVE CommInv'
  <2>1. firstSent' = firstSent
    BY <1>0, <1>6 DEF SendOther, Send, IsOpen, HelloFirst, TypeOK
  <2>2. UNCHANGED commVars
    BY <1>6, <2>1 DEF SendOther
  <2> QED BY <1>0, <2>2 DEF CommInv, TypeOK, OwnConnection, Backoff, UnpingedTimers,
        IdleMeansSilent, StatusMatchesSocket, HelloFirst, Live
<1>7. ASSUME Close PROVE CommInv'
  <2>1. /\ manualClose' = TRUE
        /\ UNCHANGED <<serverUp, socket, status, reconnectAttempts, reconnectDelay,
             transitionTimeout, pingTimers, pingTimeout, pinged, waited, firstSent>>
    BY <1>7 DEF Close
  <2>2. /\ readyState' \in [Sockets -> ReadyStates]
        /\ \A s \in Sockets \ {socket} : readyState'[s] = readyState[s]
        /\ Live(socket) => readyState'[socket] = "CLOSING"
        /\ ~Live(socket) => readyState'[socket] = "NONE"
    BY <1>0, <1>7 DEF Close, TypeOK, ReadyStates
  <2>3. TypeOK'
    BY <1>0, <2>1, <2>2 DEF TypeOK
  <2>4. \A s \in Sockets : Live(s)' <=> Live(s)
    BY <1>0, <2>2 DEF Live, TypeOK
  <2>5. OwnConnection' /\ Backoff'
    BY <1>0, <2>1, <2>4 DEF OwnConnection, Backoff, TypeOK
  <2>6. UnpingedTimers' /\ HelloFirst'
    BY <1>0, <2>1, <2>2 DEF UnpingedTimers, HelloFirst, TypeOK
  <2>7. IdleMeansSilent'
    BY <1>0, <2>1, <2>4 DEF IdleMeansSilent, TypeOK
  <2>8. StatusMatchesSocket'
    BY <1>0, <2>1, <2>2 DEF StatusMatchesSocket, Live, TypeOK
  <2> QED BY <2>3, <2>5, <2>6, <2>7, <2>8 DEF CommInv
<1>8. ASSUME ServerGoesUpOrDown PROVE CommInv'
  <2>1. serverUp' \in BOOLEAN
    BY <1>8 DEF ServerGoesUpOrDown
  <2> QED BY <1>0, <1>8, <2>1 DEF ServerGoesUpOrDown, CommInv, TypeOK, OwnConnection, Backoff,
        UnpingedTimers, IdleMeansSilent, StatusMatchesSocket, HelloFirst, Live
<1>9. ASSUME UNCHANGED commVars PROVE CommInv'
  BY <1>0, <1>9 DEF CommInv, TypeOK, OwnConnection, Backoff, UnpingedTimers,
     IdleMeansSilent, StatusMatchesSocket, HelloFirst, Live
<1> QED BY <1>1, <1>2, <1>3, <1>4, <1>5, <1>6, <1>7, <1>8, <1>9 DEF CommNext, OnData

\* A step of the page is a step of the connection or leaves it alone.
LEMMA PageStepsConnect == [Next]_vars => [CommNext]_commVars
BY DEF Next, vars, ControllerStep, Receive, Disconnected, SendPing, Move, ReadPositions,
       FetchUserMarkers, FetchAnswered, FetchFails, CommNext

LEMMA CommInductive == CommSpec => []CommInv
<1>1. CommInv /\ [CommNext]_commVars => CommInv'
  BY CommStep
<1> QED BY CommInitInv, <1>1, PTL DEF CommSpec

LEMMA PageInductive == Spec => []CommInv
<1>1. Init => CommInv
  BY CommInitInv DEF Init
<1>2. CommInv /\ [Next]_vars => CommInv'
  BY CommStep, PageStepsConnect
<1> QED BY <1>1, <1>2, PTL DEF Spec

LEMMA CommInvImplies ==
  CommInv => OneConnection /\ DelayFollowsAttempts
<1> SUFFICES ASSUME CommInv PROVE OneConnection /\ DelayFollowsAttempts
  OBVIOUS
<1> USE CommunicationAssumption DEF CommunicationAssumption
<1>1. OneConnection
  BY DEF CommInv, OwnConnection, OneConnection
<1>2. DelayFollowsAttempts
  <2>1. reconnectDelay \in 0 .. DelayCap /\ reconnectAttempts \in 0 .. MAX_RECONNECT_ATTEMPTS + 1
    BY DEF CommInv, TypeOK
  <2> QED BY <2>1 DEF CommInv, Backoff, DelayFollowsAttempts
<1> QED BY <1>1, <1>2

\* The types of the connection, alone: the failures are counted to one more than
\* the waits that are tried.
THEOREM ConnectionTypeCorrect == CommSpec => []TypeOK
<1>1. CommInv => TypeOK
  BY DEF CommInv
<1> QED BY CommInductive, <1>1, PTL

\* For any number of sockets the page has one connection at most, and none while a
\* timer is about to make one.
THEOREM PageHasOneConnection == Spec => []OneConnection
BY PageInductive, CommInvImplies, PTL

\* For any limit of attempts and any cap above it: the delay grows with the failures
\* only, and the cap of MAX_RECONNECT_DELAY_MS never takes part.
THEOREM PageDelay == Spec => []DelayFollowsAttempts
BY PageInductive, CommInvImplies, PTL

\* For any number of sockets, only a connection that has been silent is idle.
THEOREM PageIdle == Spec => []IdleMeansSilent
<1>1. CommInv => IdleMeansSilent
  BY DEF CommInv
<1> QED BY PageInductive, <1>1, PTL

\* For any number of sockets, the status shown is the socket's.
THEOREM PageStatus == Spec => []StatusMatchesSocket
<1>1. CommInv => StatusMatchesSocket
  BY DEF CommInv
<1> QED BY PageInductive, <1>1, PTL

\* For any number of sockets, every connection that opens begins with a hello.
THEOREM PageHello == Spec => []HelloFirst
<1>1. CommInv => HelloFirst
  BY DEF CommInv
<1> QED BY PageInductive, <1>1, PTL
=============================================================================
