---------------------------- MODULE UserMarkers ----------------------------
(***************************************************************************)
(* The positions of the users on the page (src/www/globe2.php): a list     *)
(* that is fetched as a whole every minute over HTTP and changed entry by  *)
(* entry by the messages of the connection (Communication).  The answers   *)
(* are not numbered: an old one may come after a newer message, or after a *)
(* newer answer.                                                           *)
(*                                                                         *)
(* One user stands for all: his position on the server is the number of    *)
(* his moves, `marker` the position the page has, 0 for none.              *)
(***************************************************************************)
EXTENDS Communication, Sequences

CONSTANTS
  Fetches,     \* the requests for the list that may be under way at once
  First,       \* one of them: the request of the page's start
  MaxMoves,    \* bound of the moves
  MaxInbox     \* bound of the messages of a connection under way

ASSUME MarkersAssumption == MaxMoves \in Nat /\ MaxInbox \in Nat /\ First \in Fetches

\* Of a request: not made, made, or the position the server has answered with.
Idle == -2
Sent == -1
Ping == 0

VARIABLES position, marker, fetches, inbox

markerVars == <<position, marker, fetches, inbox>>
vars == <<commVars, markerVars>>

MarkersTypeOK ==
  /\ position \in 0 .. MaxMoves /\ marker \in 0 .. MaxMoves
  /\ fetches \in [Fetches -> Idle .. MaxMoves]
  /\ inbox \in [Sockets -> Seq(0 .. MaxMoves)]
  /\ \A s \in Sockets : Len(inbox[s]) <= MaxInbox

\* startMainLoop: the first request is made when the controller has been made.
Init ==
  /\ CommInit
  /\ position \in 0 .. 1 /\ marker = 0
  /\ fetches = [f \in Fetches |-> IF f = First THEN Sent ELSE Idle]
  /\ inbox = [s \in Sockets |-> <<>>]

(***************************************************************************)
(* The server                                                              *)
(***************************************************************************)
Push(s, message) == inbox' = [inbox EXCEPT ![s] = Append(@, message)]
Listening(s) == readyState[s] = "OPEN" /\ Len(inbox[s]) < MaxInbox

\* A user moves.  The server tells the connection of it, or has it from
\* somewhere else and does not.
Move ==
  /\ serverUp /\ position < MaxMoves
  /\ position' = position + 1
  /\ \/ \E s \in Sockets : Listening(s) /\ Push(s, position')
     \/ UNCHANGED inbox
  /\ UNCHANGED <<commVars, marker, fetches>>

SendPing(s) ==
  /\ serverUp /\ Listening(s) /\ Push(s, Ping)
  /\ UNCHANGED <<commVars, position, marker, fetches>>

ReadPositions(f) ==
  /\ serverUp /\ fetches[f] = Sent
  /\ fetches' = [fetches EXCEPT ![f] = position]
  /\ UNCHANGED <<commVars, position, marker, inbox>>

(***************************************************************************)
(* The page                                                                *)
(***************************************************************************)
\* fetchUserMarkers, by the interval of 60 s: it does not look whether the
\* request before has been answered.
FetchUserMarkers(f) ==
  /\ fetches[f] = Idle
  /\ fetches' = [fetches EXCEPT ![f] = Sent]
  /\ UNCHANGED <<commVars, position, marker, inbox>>

\* Mutant: the answer only adds users.
FetchMerged(f) ==
  /\ fetches[f] >= 0
  /\ marker' = IF marker = 0 THEN fetches[f] ELSE marker
  /\ fetches' = [fetches EXCEPT ![f] = Idle]
  /\ UNCHANGED <<commVars, position, inbox>>

\* The answer replaces the whole list.
FetchAnswered(f) ==
  /\ fetches[f] >= 0
  /\ marker' = fetches[f]
  /\ fetches' = [fetches EXCEPT ![f] = Idle]
  /\ UNCHANGED <<commVars, position, inbox>>

FetchFails(f) ==
  /\ fetches[f] # Idle
  /\ fetches' = [fetches EXCEPT ![f] = Idle]
  /\ UNCHANGED <<commVars, position, marker, inbox>>

\* user_data: the entry is changed, or appended when there is none.
HandleUserData(message) == marker' = message

Receive(s) ==
  /\ inbox[s] # <<>>
  /\ inbox' = [inbox EXCEPT ![s] = Tail(@)]
  /\ \/ Head(inbox[s]) = Ping /\ OnPing(s) /\ UNCHANGED marker
     \/ Head(inbox[s]) # Ping /\ OnData(s) /\ HandleUserData(Head(inbox[s]))
  /\ UNCHANGED <<position, fetches>>

\* What a connection has not delivered when it ends is lost.
Disconnected(s) ==
  /\ OnClose(s)
  /\ inbox' = [inbox EXCEPT ![s] = <<>>]
  /\ UNCHANGED <<position, marker, fetches>>

ControllerStep ==
  /\ \/ ServerGoesUpOrDown \/ TransitionTimer \/ SendOther \/ Close
     \/ \E s \in Sockets : OnOpen(s) \/ PingTimer(s)
  /\ UNCHANGED markerVars

Next ==
  \/ ControllerStep
  \/ \E s \in Sockets : Receive(s) \/ Disconnected(s) \/ SendPing(s)
  \/ Move
  \/ \E f \in Fetches : ReadPositions(f) \/ FetchUserMarkers(f) \/ FetchAnswered(f) \/ FetchFails(f)

\* The interval fires, a message that has arrived is handled, and a request that
\* is made again and again is not refused for ever: the server reads it and its
\* answer comes through.
Fairness ==
  /\ CommFairness
  /\ WF_vars(\E f \in Fetches : FetchUserMarkers(f))
  /\ WF_vars(\E s \in Sockets : Receive(s))
  /\ \A f \in Fetches : SF_vars(ReadPositions(f)) /\ SF_vars(FetchAnswered(f))

Spec == Init /\ [][Next]_vars /\ Fairness
----------------------------------------------------------------------------
(***************************************************************************)
(* Properties                                                              *)
(***************************************************************************)
\* Type correctness of the page: the failures are counted to one more than the
\* waits that are tried, and a message comes only on a connection.
PageTypeOK == TypeOK /\ MarkersTypeOK

\* When the server stays up and the users have come to rest, every position on the page becomes the
\* true one and stays it: an old answer that overwrites a newer message, or a
\* message that a lost connection did not deliver, is put right by the fetches.
MarkersConverge == <>[]serverUp => <>[](marker = position)
============================================================================
