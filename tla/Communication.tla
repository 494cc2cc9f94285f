--------------------------- MODULE Communication ---------------------------
(***************************************************************************)
(* The connection of the page to the server                                *)
(* (src/www/j/CommunicationController.js): its states, the timer that      *)
(* connects again, the timer that waits for a ping, and the messages that  *)
(* are sent only while the socket is open.                                 *)
(*                                                                         *)
(* The page runs one callback at a time, so each callback is one step.     *)
(* A WebSocket is one of Sockets; "NONE" is a socket not yet created, or   *)
(* one whose close event has run: the browser calls nothing of it again.   *)
(* The error event changes nothing here and belongs to the task of the     *)
(* close event.                                                            *)
(***************************************************************************)
EXTENDS Integers, FiniteSets

CONSTANTS
  Sockets,
  MAX_RECONNECT_ATTEMPTS,
  DelayCap     \* the first step of the delay that is at MAX_RECONNECT_DELAY_MS

ASSUME CommunicationAssumption ==
  /\ "null" \notin Sockets /\ IsFiniteSet(Sockets)
  /\ MAX_RECONNECT_ATTEMPTS \in Nat /\ DelayCap \in Nat
  /\ DelayCap > MAX_RECONNECT_ATTEMPTS

ReadyStates == {"NONE", "CONNECTING", "OPEN", "CLOSING"}
Statuses == {"idle", "connecting", "open", "alive", "reconnecting", "error_pause", "closed"}

VARIABLES
  serverUp,            \* the server takes connections
  readyState, socket,  \* of each socket; the controller's own
  status, reconnectAttempts,
  reconnectDelay,      \* how often it has grown since INITIAL_RECONNECT_DELAY_MS
  transitionTimeout,   \* what the timer leads to: "null", "connecting", "pause"
  pingTimers,          \* the sockets whose onopen has started a timer that runs
  pingTimeout,         \* whose timer the field names; it may have fired
  manualClose,
  pinged, waited,      \* history: sockets with a ping, with 15 s since onopen
  firstSent            \* history: the first message on each socket

socketVars == <<readyState, socket>>
timerVars == <<transitionTimeout, pingTimers, pingTimeout>>
backoffVars == <<reconnectAttempts, reconnectDelay>>
historyVars == <<pinged, waited, firstSent>>
commVars == <<serverUp, socketVars, status, backoffVars, timerVars, manualClose, historyVars>>

TypeOK ==
  /\ serverUp \in BOOLEAN /\ manualClose \in BOOLEAN
  /\ readyState \in [Sockets -> ReadyStates] /\ socket \in Sockets
  /\ status \in Statuses
  /\ reconnectAttempts \in 0 .. MAX_RECONNECT_ATTEMPTS + 1
  /\ reconnectDelay \in 0 .. DelayCap
  /\ transitionTimeout \in {"null", "connecting", "pause"}
  /\ pingTimers \subseteq Sockets /\ pingTimeout \in Sockets \cup {"null"}
  /\ pinged \subseteq Sockets /\ waited \subseteq Sockets
  /\ firstSent \in [Sockets -> {"nothing", "hello", "other"}]

Live(s) == readyState[s] # "NONE"

\* The constructor: transitionTo('connecting') creates the first socket.
CommInit ==
  /\ serverUp \in BOOLEAN /\ manualClose = FALSE
  /\ socket \in Sockets
  /\ readyState = [s \in Sockets |-> IF s = socket THEN "CONNECTING" ELSE "NONE"]
  /\ status = "connecting" /\ reconnectAttempts = 0 /\ reconnectDelay = 0
  /\ transitionTimeout = "null" /\ pingTimers = {} /\ pingTimeout = "null"
  /\ pinged = {} /\ waited = {}
  /\ firstSent = [s \in Sockets |-> "nothing"]

(***************************************************************************)
(* transitionTo: every transition stops the pending one first.             *)
(***************************************************************************)
Settle(state) == status' = state /\ transitionTimeout' = "null"

\* Mutant: the delay stays where it is.
ResetAttemptsOnly == reconnectAttempts' = 0 /\ UNCHANGED reconnectDelay

ResetBackoff == reconnectAttempts' = 0 /\ reconnectDelay' = 0

TransitionToOpen == Settle("open") /\ ResetBackoff
TransitionToAlive == Settle("alive") /\ ResetBackoff

Grown == IF reconnectDelay < DelayCap THEN reconnectDelay + 1 ELSE reconnectDelay

\* Mutant: the pause has no timer.
PauseForEver(attempts) ==
  IF attempts <= MAX_RECONNECT_ATTEMPTS
  THEN status' = "reconnecting" /\ transitionTimeout' = "connecting" /\ reconnectDelay' = Grown
  ELSE Settle("error_pause") /\ UNCHANGED reconnectDelay

\* From the sixth failure on the controller goes on to error_pause at once.
TransitionToReconnecting(attempts) ==
  IF attempts <= MAX_RECONNECT_ATTEMPTS
  THEN /\ status' = "reconnecting" /\ transitionTimeout' = "connecting"
       /\ reconnectDelay' = Grown
  ELSE /\ status' = "error_pause" /\ transitionTimeout' = "pause"
       /\ UNCHANGED reconnectDelay

\* connect(): a new socket, with the histories of its own.
TransitionToConnecting ==
  /\ Settle("connecting")
  /\ \E s \in Sockets :
       /\ ~Live(s)
       /\ socket' = s /\ readyState' = [readyState EXCEPT ![s] = "CONNECTING"]
       /\ pinged' = pinged \ {s} /\ waited' = waited \ {s}
       /\ firstSent' = [firstSent EXCEPT ![s] = "nothing"]

(***************************************************************************)
(* Sending: nothing leaves unless the controller's socket is open.         *)
(***************************************************************************)
IsOpen(ready) == ready[socket] = "OPEN"

Send(ready, message) ==
  firstSent' = IF IsOpen(ready) /\ firstSent[socket] = "nothing"
               THEN [firstSent EXCEPT ![socket] = message]
               ELSE firstSent

\* ChatClient sends a message, or the page is left (disconnect) and yet stays.
SendOther ==
  /\ IsOpen(readyState) /\ Send(readyState, "other")
  /\ UNCHANGED <<serverUp, socketVars, status, backoffVars, timerVars, manualClose, pinged, waited>>

(***************************************************************************)
(* The socket's events                                                     *)
(***************************************************************************)
StartPingTimer(s) == pingTimers' = pingTimers \cup {s} /\ pingTimeout' = s
\* Mutant: onclose and ping leave the timer running.
StopNothing == UNCHANGED <<pingTimers, pingTimeout>>
StopPingTimer == pingTimers' = pingTimers \ {pingTimeout} /\ pingTimeout' = "null"

\* Mutant: no hello.
OnOpenSilent(s) ==
  /\ serverUp /\ readyState[s] = "CONNECTING"
  /\ readyState' = [readyState EXCEPT ![s] = "OPEN"]
  /\ TransitionToOpen /\ StartPingTimer(s)
  /\ UNCHANGED <<serverUp, socket, manualClose, historyVars>>

OnOpen(s) ==
  /\ serverUp /\ readyState[s] = "CONNECTING"
  /\ readyState' = [readyState EXCEPT ![s] = "OPEN"]
  /\ TransitionToOpen
  /\ StartPingTimer(s)
  /\ Send(readyState', "hello")
  /\ UNCHANGED <<serverUp, socket, manualClose, pinged, waited>>

\* A ping: the timer is stopped, and sendPong makes the connection alive if the
\* controller's own socket is open.
OnPing(s) ==
  /\ readyState[s] = "OPEN"
  /\ StopPingTimer
  /\ pinged' = pinged \cup {s}
  /\ Send(readyState, "other")
  /\ IF IsOpen(readyState) /\ status # "alive"
     THEN TransitionToAlive
     ELSE UNCHANGED <<status, backoffVars, transitionTimeout>>
  /\ UNCHANGED <<serverUp, socketVars, manualClose, waited>>

\* Any other message goes to the handlers and leaves the controller alone.
OnData(s) == readyState[s] = "OPEN" /\ UNCHANGED commVars

CountFailure == reconnectAttempts' = reconnectAttempts + 1

\* onclose. A CONNECTING socket closes when the server does not answer, a
\* CLOSING one when its handshake ends, an OPEN one at any time.
OnClose(s) ==
  /\ \/ readyState[s] \in {"OPEN", "CLOSING"}
     \/ readyState[s] = "CONNECTING" /\ ~serverUp
  /\ readyState' = [readyState EXCEPT ![s] = "NONE"]
  /\ StopPingTimer
  /\ IF ~manualClose
     THEN CountFailure /\ TransitionToReconnecting(reconnectAttempts + 1)
     ELSE Settle("closed") /\ UNCHANGED backoffVars
  /\ UNCHANGED <<serverUp, socket, manualClose, historyVars>>

(***************************************************************************)
(* The timers, and close()                                                 *)
(***************************************************************************)
PauseEnds == IF transitionTimeout = "pause" THEN ResetBackoff ELSE UNCHANGED backoffVars

TransitionTimer ==
  /\ transitionTimeout # "null"
  /\ PauseEnds
  /\ TransitionToConnecting
  /\ UNCHANGED <<serverUp, pingTimers, pingTimeout, manualClose>>

\* Mutant: a silent connection is given up without closing its socket.
PingTimerReconnects(s) ==
  /\ s \in pingTimers
  /\ pingTimers' = pingTimers \ {s} /\ waited' = waited \cup {s}
  /\ IF status = "open"
     THEN TransitionToReconnecting(reconnectAttempts)
     ELSE UNCHANGED <<status, reconnectDelay, transitionTimeout>>
  /\ UNCHANGED <<serverUp, socketVars, reconnectAttempts, pingTimeout, manualClose, pinged, firstSent>>

\* The field keeps naming a timer that has fired.
PingTimer(s) ==
  /\ s \in pingTimers
  /\ pingTimers' = pingTimers \ {s}
  /\ waited' = waited \cup {s}
  /\ IF status = "open" THEN Settle("idle") ELSE UNCHANGED <<status, transitionTimeout>>
  /\ UNCHANGED <<serverUp, socketVars, backoffVars, pingTimeout, manualClose, pinged, firstSent>>

\* Mutant: close() announces the end before the socket's handshake.
CloseAtOnce ==
  /\ manualClose' = TRUE /\ Settle("closed")
  /\ readyState' = [readyState EXCEPT ![socket] = IF Live(socket) THEN "CLOSING" ELSE "NONE"]
  /\ UNCHANGED <<serverUp, socket, backoffVars, pingTimers, pingTimeout, historyVars>>

\* close() leaves the timers alone: during a wait it only sets the flag, and the
\* controller connects once more.
Close ==
  /\ manualClose' = TRUE
  /\ readyState' = [readyState EXCEPT ![socket] = IF Live(socket) THEN "CLOSING" ELSE "NONE"]
  /\ UNCHANGED <<serverUp, socket, status, backoffVars, timerVars, historyVars>>

ServerGoesUpOrDown ==
  /\ serverUp' = ~serverUp
  /\ UNCHANGED <<socketVars, status, backoffVars, timerVars, manualClose, historyVars>>

CommNext ==
  \/ ServerGoesUpOrDown
  \/ \E s \in Sockets : OnOpen(s) \/ OnPing(s) \/ OnData(s) \/ OnClose(s) \/ PingTimer(s)
  \/ TransitionTimer
  \/ SendOther
  \/ Close

\* The browser runs the timers that are due and reports the end of every
\* connection attempt and of every close; the server need not send, close,
\* fail or come up.
CommFairness ==
  /\ WF_commVars(TransitionTimer)
  /\ WF_commVars(\E s \in Sockets : PingTimer(s))
  /\ WF_commVars(\E s \in Sockets : OnOpen(s))
  /\ WF_commVars(\E s \in Sockets : readyState[s] # "OPEN" /\ OnClose(s))

CommSpec == CommInit /\ [][CommNext]_commVars /\ CommFairness
----------------------------------------------------------------------------
(***************************************************************************)
(* Properties                                                              *)
(***************************************************************************)
\* There is never more than one connection, and while one is left no timer will
\* make another: the controller connects again only from onclose.
OneConnection ==
  /\ \A s, t \in Sockets : Live(s) /\ Live(t) => s = t
  /\ transitionTimeout # "null" => \A s \in Sockets : ~Live(s)

\* The wait before a new attempt depends on the failures since the last success
\* or pause and on nothing else, there are at most MAX_RECONNECT_ATTEMPTS waits
\* in a row, and so the delay never gets to its cap.
DelayFollowsAttempts ==
  /\ reconnectDelay < DelayCap
  /\ status = "reconnecting" =>
       /\ reconnectDelay = reconnectAttempts
       /\ reconnectAttempts \in 1 .. MAX_RECONNECT_ATTEMPTS
  /\ status = "error_pause" => reconnectAttempts = MAX_RECONNECT_ATTEMPTS + 1

\* "idle" is a connection that exists, has been open for the whole time of its
\* own timer, and has never had a ping: no timer of an earlier connection takes
\* part, and every timer that runs belongs to a socket that is not closed.
IdleMeansSilent ==
  /\ status = "idle" => Live(socket) /\ socket \in waited /\ socket \notin pinged
  /\ \A s \in pingTimers : Live(s) /\ pingTimeout = s

\* The status the page shows is what its socket is.
StatusMatchesSocket ==
  /\ readyState[socket] = "OPEN" => status \in {"idle", "open", "alive"}
  /\ status \in {"idle", "open", "alive"} => readyState[socket] \in {"OPEN", "CLOSING"}
  /\ status = "connecting" => readyState[socket] \in {"CONNECTING", "CLOSING"}
  /\ status = "alive" => socket \in pinged
  /\ status = "closed" => manualClose /\ transitionTimeout = "null" /\ pingTimers = {}

\* The server knows a user by his hello only: on every connection that is open
\* it comes before anything else.
HelloFirst == \A s \in Sockets :
  /\ firstSent[s] # "other"
  /\ readyState[s] = "OPEN" => firstSent[s] = "hello"

\* Once the server stays up the page gets its connection back, as often as it
\* loses it, from whatever wait or pause it is in, unless it has closed it.
Reconnects ==
  <>[](serverUp /\ ~manualClose) => []<>(readyState[socket] = "OPEN")
============================================================================
