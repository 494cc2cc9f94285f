---------------------------- MODULE RequestFifo ----------------------------
(***************************************************************************)
(* What the query queue of the MySQL plugin promises: a bounded first-in   *)
(* first-out queue that drops a request it has no room for.                *)
(***************************************************************************)
EXTENDS Naturals, Sequences

CONSTANTS Requests, Capacity

VARIABLE fifo

Init == fifo = <<>>

Accept(r) ==
  /\ Len(fifo) < Capacity
  /\ fifo' = Append(fifo, r)

Serve ==
  /\ fifo # <<>>
  /\ fifo' = Tail(fifo)

Next == Serve \/ \E r \in Requests : Accept(r)

Spec == Init /\ [][Next]_fifo
=============================================================================
