-------------------------- MODULE SqlRequestProofs --------------------------
(***************************************************************************)
(* Proofs about MysqlQueue and SqlRequest, for every set of requests and   *)
(* every capacity of the ring.                                             *)
(*                                                                         *)
(* 1. The ring implements RequestFifo: the arithmetic of the wrapping      *)
(*    index (SlotAtWraps), what push and pop do to the contents (PushAppends,     *)
(*    PopTails), the refinement (RingIsFifo).                              *)
(* 2. SqlRequest: the inductive invariant SInv, one lemma per action that  *)
(*    changes the ring or the worker, and what follows from it.            *)
(***************************************************************************)
EXTENDS SqlRequest, SequenceTheorems, TLAPS

-----------------------------------------------------------------------------
(* The ring *)

\* SlotAt runs through the slots from queue_head on and wraps around once.
LEMMA SlotAtWraps ==
  ASSUME QueueTypeOK, NEW i \in 0 .. Capacity
  PROVE  /\ SlotAt(i) \in Slots
         /\ SlotAt(i) = IF queue_head + i < Capacity THEN queue_head + i
                        ELSE queue_head + i - Capacity
<1>1. /\ Capacity \in Nat \ {0} /\ queue_head \in 0 .. Capacity - 1
      /\ queue_head + i \in Nat /\ queue_head + i < 2 * Capacity
  BY QueueAssumption DEF QueueAssumption, QueueTypeOK, Slots
<1>2. SlotAt(i) = IF queue_head + i < Capacity THEN queue_head + i
                  ELSE queue_head + i - Capacity
  BY <1>1 DEF SlotAt
<1> QED  BY <1>1, <1>2 DEF Slots

\* Different places in the ring are different slots.
LEMMA SlotAtInjective ==
  ASSUME QueueTypeOK, NEW i \in 0 .. Capacity - 1, NEW j \in 0 .. Capacity - 1,
         SlotAt(i) = SlotAt(j)
  PROVE  i = j
<1>1. Capacity \in Nat \ {0} /\ queue_head \in 0 .. Capacity - 1
  BY QueueAssumption DEF QueueAssumption, QueueTypeOK, Slots
<1> QED  BY <1>1, SlotAtWraps

Entries == Requests \cup {NoRequest}

LEMMA ContentsSeq ==
  QueueTypeOK => /\ Contents \in Seq(Entries)
                 /\ Len(Contents) = queue_size
                 /\ DOMAIN Contents = 1 .. queue_size
                 /\ \A i \in 1 .. queue_size : Contents[i] = queue[SlotAt(i - 1)]
<1> SUFFICES ASSUME QueueTypeOK
             PROVE  /\ Contents \in Seq(Entries)
                    /\ Len(Contents) = queue_size
                    /\ DOMAIN Contents = 1 .. queue_size
                    /\ \A i \in 1 .. queue_size : Contents[i] = queue[SlotAt(i - 1)]
  OBVIOUS
<1>1. queue_size \in Nat /\ queue_size <= Capacity /\ Capacity \in Nat
  BY QueueAssumption DEF QueueAssumption, QueueTypeOK
<1>2. \A i \in 1 .. queue_size : queue[SlotAt(i - 1)] \in Entries
  BY <1>1, SlotAtWraps DEF QueueTypeOK, Entries
<1>3. Contents \in [1 .. queue_size -> Entries]
  BY <1>2 DEF Contents
<1>4. Contents \in Seq(Entries)
  BY <1>1, <1>3, SeqDef
<1> QED  BY <1>1, <1>3, <1>4, LenProperties DEF Contents

LEMMA QueueTypeInit == QueueInit => QueueTypeOK
BY QueueAssumption DEF QueueAssumption, QueueInit, QueueTypeOK, Slots

LEMMA QueueTypePush ==
  ASSUME QueueTypeOK, NEW r \in Requests, QueuePush(r)
  PROVE  QueueTypeOK'
<1>1. queue_size \in 0 .. Capacity - 1 /\ Capacity \in Nat \ {0}
  BY QueueAssumption DEF QueueAssumption, QueueTypeOK, QueuePush
<1>2. SlotAt(queue_size) \in Slots
  BY <1>1, SlotAtWraps
<1> QED  BY <1>1, <1>2 DEF QueueTypeOK, QueuePush

LEMMA QueueTypePop ==
  ASSUME QueueTypeOK, QueuePop
  PROVE  QueueTypeOK'
<1>1. queue_size \in 1 .. Capacity /\ Capacity \in Nat \ {0}
  BY QueueAssumption DEF QueueAssumption, QueueTypeOK, QueuePop, QueueIsEmpty
<1>2. SlotAt(1) \in Slots
  BY <1>1, SlotAtWraps
<1> QED  BY <1>1, <1>2 DEF QueueTypeOK, QueuePop

\* A push appends to the contents, wherever the ring has wrapped to.
LEMMA PushAppends ==
  ASSUME QueueTypeOK, NEW r \in Requests, QueuePush(r)
  PROVE  Contents' = Append(Contents, r)
<1>1. QueueTypeOK'
  BY QueueTypePush
<1>2. /\ queue_size \in 0 .. Capacity - 1 /\ Capacity \in Nat \ {0}
      /\ queue_size' = queue_size + 1 /\ queue_head' = queue_head
  BY QueueAssumption DEF QueueAssumption, QueueTypeOK, QueuePush
<1>3. ASSUME NEW i \in 1 .. queue_size'
      PROVE  Contents'[i] = IF i = queue_size + 1 THEN r ELSE Contents[i]
  <2>1. Contents'[i] = queue'[SlotAt(i - 1)]
    BY <1>2 DEF Contents, SlotAt
  <2>2. i - 1 \in 0 .. Capacity - 1
    BY <1>2
  <2>3. SlotAt(i - 1) \in Slots /\ SlotAt(queue_size) \in Slots
    BY <1>2, <2>2, SlotAtWraps
  <2>4. CASE i = queue_size + 1
    BY <1>2, <2>1, <2>3, <2>4 DEF QueuePush, QueueTypeOK
  <2>5. CASE i # queue_size + 1
    <3>1. SlotAt(i - 1) # SlotAt(queue_size)
      BY <1>2, <2>2, <2>5, SlotAtInjective
    <3>2. queue'[SlotAt(i - 1)] = queue[SlotAt(i - 1)]
      BY <2>3, <3>1 DEF QueuePush, QueueTypeOK
    <3>3. i \in 1 .. queue_size
      BY <1>2, <2>5
    <3> QED  BY <2>1, <2>5, <3>2, <3>3, ContentsSeq
  <2> QED  BY <2>4, <2>5
<1>4. Contents \in Seq(Entries) /\ Len(Contents) = queue_size /\ r \in Entries
  BY ContentsSeq DEF Entries
<1>5. (Contents \in Seq(Entries) /\ Len(Contents) = queue_size)'
  BY <1>1, ContentsSeq, PTL
<1>6. /\ Append(Contents, r) \in Seq(Entries)
      /\ Len(Append(Contents, r)) = queue_size + 1
      /\ \A i \in 1 .. queue_size + 1 :
           Append(Contents, r)[i] = IF i = queue_size + 1 THEN r ELSE Contents[i]
  BY <1>2, <1>4
<1> QED  BY <1>2, <1>3, <1>5, <1>6, SeqEqual

\* A pop takes the oldest request away, and it is the one at queue_head.
LEMMA PopTails ==
  ASSUME QueueTypeOK, QueuePop
  PROVE  /\ Contents # <<>>
         /\ Contents' = Tail(Contents)
         /\ Contents[1] = queue[queue_head]
<1>1. QueueTypeOK'
  BY QueueTypePop
<1>2. /\ queue_size \in 1 .. Capacity /\ Capacity \in Nat \ {0}
      /\ queue_size' = queue_size - 1 /\ queue_head \in 0 .. Capacity - 1
      /\ queue' = queue
  BY QueueAssumption
     DEF QueueAssumption, QueueTypeOK, QueuePop, QueueIsEmpty, Slots
<1>3. /\ Contents \in Seq(Entries) /\ Len(Contents) = queue_size
      /\ \A i \in 1 .. queue_size : Contents[i] = queue[SlotAt(i - 1)]
  BY ContentsSeq
<1>4. Contents # <<>>
  BY <1>2, <1>3, EmptySeq
<1>5. Contents[1] = queue[queue_head]
  <2>1. SlotAt(0) = queue_head
    BY <1>2, SlotAtWraps
  <2> QED  BY <1>2, <1>3, <2>1
<1>6. (Contents \in Seq(Entries) /\ Len(Contents) = queue_size)'
  BY <1>1, ContentsSeq, PTL
<1>7. ASSUME NEW i \in 1 .. queue_size - 1
      PROVE  Contents'[i] = Contents[i + 1]
  <2>1. /\ i - 1 \in 0 .. Capacity /\ i \in 0 .. Capacity /\ 1 \in 0 .. Capacity
        /\ i \in 1 .. queue_size' /\ i + 1 \in 1 .. queue_size /\ i + 1 - 1 = i
    BY <1>2
  <2>2. Contents'[i] = queue[(queue_head' + (i - 1)) % Capacity]
    BY <1>2, <2>1 DEF Contents, SlotAt
  <2>3. /\ queue_head' = SlotAt(1) /\ SlotAt(1) \in 0 .. Capacity - 1
        /\ SlotAt(1) = IF queue_head + 1 < Capacity THEN queue_head + 1
                       ELSE queue_head + 1 - Capacity
    BY <2>1, SlotAtWraps DEF QueuePop, Slots
  <2>4. \A h \in 0 .. Capacity - 1 :
          (h + (i - 1)) % Capacity =
            IF h + (i - 1) < Capacity THEN h + (i - 1) ELSE h + (i - 1) - Capacity
    BY <1>2, <2>1
  <2>5. SlotAt(i) = IF queue_head + i < Capacity THEN queue_head + i
                    ELSE queue_head + i - Capacity
    BY <2>1, SlotAtWraps
  <2>6. (queue_head' + (i - 1)) % Capacity = SlotAt(i)
    <3>1. queue_head' \in 0 .. Capacity - 1
      BY <2>3
    <3>2. (queue_head' + (i - 1)) % Capacity =
            IF queue_head' + (i - 1) < Capacity THEN queue_head' + (i - 1)
            ELSE queue_head' + (i - 1) - Capacity
      BY <2>4, <3>1, Zenon
    <3> QED  BY <1>2, <2>1, <2>3, <2>5, <3>2
  <2>7. Contents[i + 1] = queue[SlotAt(i)]
    BY <1>3, <2>1
  <2> QED  BY <2>2, <2>6, <2>7
<1>8. /\ Tail(Contents) \in Seq(Entries)
      /\ Len(Tail(Contents)) = queue_size - 1
      /\ \A i \in 1 .. queue_size - 1 : Tail(Contents)[i] = Contents[i + 1]
  BY <1>3, <1>4, HeadTailProperties
<1>9. Contents' = Tail(Contents)
  BY <1>2, <1>6, <1>7, <1>8, SeqEqual
<1> QED  BY <1>4, <1>5, <1>9

\* One step of the ring is one step of the fifo.
LEMMA RingStep ==
  ASSUME QueueTypeOK, [QueueNext]_queueVars
  PROVE  QueueTypeOK' /\ [Fifo!Next]_Contents
<1>1. CASE QueuePop
  BY <1>1, QueueTypePop, PopTails DEF Fifo!Next, Fifo!Serve
<1>2. ASSUME NEW r \in Requests, QueuePush(r)
      PROVE  QueueTypeOK' /\ [Fifo!Next]_Contents
  <2>1. Len(Contents) < Capacity
    BY <1>2, ContentsSeq DEF QueuePush
  <2>2. Fifo!Accept(r)
    BY <1>2, <2>1, PushAppends DEF Fifo!Accept
  <2> QED  BY <1>2, <2>2, QueueTypePush DEF Fifo!Next
<1>3. CASE UNCHANGED queueVars
  BY <1>3 DEF queueVars, QueueTypeOK, Contents, SlotAt
<1> QED  BY <1>1, <1>2, <1>3 DEF QueueNext

LEMMA RingInit == QueueInit => Fifo!Init
<1> SUFFICES ASSUME QueueInit PROVE Contents = <<>>
  BY DEF Fifo!Init
<1>1. Contents \in Seq(Entries) /\ Len(Contents) = 0
  BY ContentsSeq, QueueTypeInit DEF QueueInit
<1> QED  BY <1>1, EmptySeq

\* The ring is a bounded first-in first-out queue for every capacity: its
\* contents, read off the array, behave as RequestFifo.
THEOREM RingIsFifo == QueueSpec => QueueIsFifo
<1>1. QueueInit => QueueTypeOK /\ Fifo!Init
  BY QueueTypeInit, RingInit
<1>2. QueueTypeOK /\ [QueueNext]_queueVars => QueueTypeOK' /\ [Fifo!Next]_Contents
  BY RingStep
<1> QED  BY <1>1, <1>2, PTL DEF QueueSpec, QueueIsFifo, Fifo!Spec

-----------------------------------------------------------------------------
(* The callers and the worker *)

\* Where a caller has come to whose request was accepted, or that left the
\* wait because of `ready`.
Past ==
  /\ \A c \in accepted : pc[c] \in {"check", "wait", "stop", "done"}
  /\ \A c \in byReady : pc[c] \in {"stop", "done"}

\* Written rows stay: a DbQuery is reset before its request is pushed.
AnsweredHaveRows == \A c \in answered : rows[c] = 1

\* Why a caller that is alone is not told `ready` for somebody else.
AloneInv ==
  \A c \in alone :
    /\ pc[c] \notin {"call", "prepare"}
    /\ \A d \in Callers \ {c} : pc[d] \in {"call", "prepare", "done"}
    /\ InRing \subseteq {c} /\ hand \in {c, NoRequest}
    /\ ready => c \in answered
    /\ c \in byReady => c \in answered
    /\ c \in byReady /\ pc[c] = "done" => result[c] = 1

SInv ==
  /\ TypeOK
  /\ RequestLockHeld
  /\ OnePlace
  /\ Past
  /\ AnsweredHaveRows
  /\ AloneInv

LEMMA RingFrame ==
  ASSUME UNCHANGED queueVars
  PROVE  /\ Contents' = Contents /\ InRing' = InRing
         /\ queue_size' = queue_size
         /\ QueueTypeOK => QueueTypeOK'
BY DEF queueVars, Contents, InRing, SlotAt, QueueTypeOK

LEMMA StepStartRefused ==
  ASSUME SInv, NEW c \in Callers, StartRefused(c)
  PROVE  SInv'
<1> USE DEF SInv, StartRefused, Returns, Goto
<1>1. Contents' = Contents /\ InRing' = InRing /\ queue_size' = queue_size /\ QueueTypeOK'
  BY RingFrame DEF TypeOK
<1>2. TypeOK'
  BY <1>1 DEF TypeOK, callVars, workVars, histVars, Callers, CallerPCs, WorkerPCs
<1>3. RequestLockHeld'
  BY CallerAssumption DEF CallerAssumption, TypeOK, RequestLockHeld, callVars, Callers
<1>4. OnePlace'
  BY <1>1, QueueAssumption DEF QueueAssumption, TypeOK, OnePlace, callVars, workVars, histVars
<1>5. Past'
  BY DEF TypeOK, Past, callVars, histVars
<1>6. AnsweredHaveRows'
  BY DEF TypeOK, Past, AnsweredHaveRows, callVars, histVars
<1>7. AloneInv'
  BY <1>1 DEF TypeOK, Past, AnsweredHaveRows, AloneInv, callVars, workVars, histVars
<1> QED  BY <1>2, <1>3, <1>4, <1>5, <1>6, <1>7

LEMMA StepStart ==
  ASSUME SInv, NEW c \in Callers, Start(c)
  PROVE  SInv'
<1> USE DEF SInv, Start, Goto
<1>1. Contents' = Contents /\ InRing' = InRing /\ queue_size' = queue_size /\ QueueTypeOK'
  BY RingFrame DEF TypeOK
<1>2. TypeOK'
  BY <1>1 DEF TypeOK, callVars, workVars, histVars, Callers, CallerPCs, WorkerPCs
<1>3. RequestLockHeld'
  BY CallerAssumption DEF CallerAssumption, TypeOK, RequestLockHeld, callVars, Callers
<1>4. OnePlace'
  BY <1>1, QueueAssumption DEF QueueAssumption, TypeOK, OnePlace, callVars, workVars, histVars
<1>5. Past'
  BY DEF TypeOK, Past, callVars, histVars
<1>6. AnsweredHaveRows'
  BY DEF TypeOK, Past, AnsweredHaveRows, callVars, histVars
<1>7. AloneInv'
  BY <1>1 DEF TypeOK, Past, AnsweredHaveRows, AloneInv, callVars, workVars, histVars
<1> QED  BY <1>2, <1>3, <1>4, <1>5, <1>6, <1>7

LEMMA StepPrepare ==
  ASSUME SInv, NEW c \in Callers, Prepare(c)
  PROVE  SInv'
<1> USE DEF SInv, Prepare, Goto, Undisturbed, QueueIsEmpty
<1>1. Contents' = Contents /\ InRing' = InRing /\ queue_size' = queue_size /\ QueueTypeOK'
  BY RingFrame DEF TypeOK
<1>2. TypeOK'
  BY <1>1 DEF TypeOK, callVars, workVars, histVars, Callers, CallerPCs, WorkerPCs
<1>3. RequestLockHeld'
  BY CallerAssumption DEF CallerAssumption, TypeOK, RequestLockHeld, callVars, Callers
<1>4. OnePlace'
  BY <1>1, QueueAssumption DEF QueueAssumption, TypeOK, OnePlace, callVars, workVars, histVars
<1>5. Past'
  BY DEF TypeOK, Past, callVars, histVars
<1>6. AnsweredHaveRows'
  BY DEF TypeOK, Past, AnsweredHaveRows, callVars, histVars
<1>7. AloneInv'
  <2>1. CASE Undisturbed(c)
    <3>1. InRing = {} /\ hand = NoRequest /\ alone' = {c}
      BY <2>1 DEF InRing, Undisturbed, QueueIsEmpty
    <3>2. \A d \in Callers \ {c} : pc'[d] \in {"call", "prepare", "done"}
      BY <2>1 DEF TypeOK
    <3> QED  BY <1>1, <3>1, <3>2 DEF TypeOK, Past, AloneInv, workVars
  <2>2. CASE ~Undisturbed(c)
    BY <2>2 DEF AloneInv
  <2> QED  BY <2>1, <2>2
<1> QED  BY <1>2, <1>3, <1>4, <1>5, <1>6, <1>7

LEMMA StepLock ==
  ASSUME SInv, NEW c \in Callers, Lock(c)
  PROVE  SInv'
<1> USE DEF SInv, Lock, Goto
<1>1. Contents' = Contents /\ InRing' = InRing /\ queue_size' = queue_size /\ QueueTypeOK'
  BY RingFrame DEF TypeOK
<1>2. TypeOK'
  BY <1>1 DEF TypeOK, callVars, workVars, histVars, Callers, CallerPCs, WorkerPCs
<1>3. RequestLockHeld'
  BY CallerAssumption DEF CallerAssumption, TypeOK, RequestLockHeld, callVars, Callers
<1>4. OnePlace'
  BY <1>1, QueueAssumption DEF QueueAssumption, TypeOK, OnePlace, callVars, workVars, histVars
<1>5. Past'
  BY DEF TypeOK, Past, callVars, histVars
<1>6. AnsweredHaveRows'
  BY DEF TypeOK, Past, AnsweredHaveRows, callVars, histVars
<1>7. AloneInv'
  BY <1>1 DEF TypeOK, Past, AnsweredHaveRows, AloneInv, callVars, workVars, histVars
<1> QED  BY <1>2, <1>3, <1>4, <1>5, <1>6, <1>7

LEMMA StepLockTimeout ==
  ASSUME SInv, NEW c \in Callers, LockTimeout(c)
  PROVE  SInv'
<1> USE DEF SInv, LockTimeout, Returns, Goto
<1>1. Contents' = Contents /\ InRing' = InRing /\ queue_size' = queue_size /\ QueueTypeOK'
  BY RingFrame DEF TypeOK
<1>2. TypeOK'
  BY <1>1 DEF TypeOK, callVars, workVars, histVars, Callers, CallerPCs, WorkerPCs
<1>3. RequestLockHeld'
  BY CallerAssumption DEF CallerAssumption, TypeOK, RequestLockHeld, callVars, Callers
<1>4. OnePlace'
  BY <1>1, QueueAssumption DEF QueueAssumption, TypeOK, OnePlace, callVars, workVars, histVars
<1>5. Past'
  BY DEF TypeOK, Past, callVars, histVars
<1>6. AnsweredHaveRows'
  BY DEF TypeOK, Past, AnsweredHaveRows, callVars, histVars
<1>7. AloneInv'
  BY <1>1 DEF TypeOK, Past, AnsweredHaveRows, AloneInv, callVars, workVars, histVars
<1> QED  BY <1>2, <1>3, <1>4, <1>5, <1>6, <1>7

LEMMA StepPushDropped ==
  ASSUME SInv, NEW c \in Callers, PushDropped(c)
  PROVE  SInv'
<1> USE DEF SInv, PushDropped, Goto
<1>1. Contents' = Contents /\ InRing' = InRing /\ queue_size' = queue_size /\ QueueTypeOK'
  BY RingFrame DEF TypeOK
<1>2. TypeOK'
  BY <1>1 DEF TypeOK, callVars, workVars, histVars, Callers, CallerPCs, WorkerPCs
<1>3. RequestLockHeld'
  BY CallerAssumption DEF CallerAssumption, TypeOK, RequestLockHeld, callVars, Callers
<1>4. OnePlace'
  BY <1>1, QueueAssumption DEF QueueAssumption, TypeOK, OnePlace, callVars, workVars, histVars
<1>5. Past'
  BY DEF TypeOK, Past, callVars, histVars
<1>6. AnsweredHaveRows'
  BY DEF TypeOK, Past, AnsweredHaveRows, callVars, histVars
<1>7. AloneInv'
  BY <1>1 DEF TypeOK, Past, AnsweredHaveRows, AloneInv, callVars, workVars, histVars
<1> QED  BY <1>2, <1>3, <1>4, <1>5, <1>6, <1>7

LEMMA StepCheckReady ==
  ASSUME SInv, NEW c \in Callers, CheckReady(c)
  PROVE  SInv'
<1> USE DEF SInv, CheckReady, Goto
<1>1. Contents' = Contents /\ InRing' = InRing /\ queue_size' = queue_size /\ QueueTypeOK'
  BY RingFrame DEF TypeOK
<1>2. TypeOK'
  BY <1>1 DEF TypeOK, callVars, workVars, histVars, Callers, CallerPCs, WorkerPCs
<1>3. RequestLockHeld'
  BY CallerAssumption DEF CallerAssumption, TypeOK, RequestLockHeld, callVars, Callers
<1>4. OnePlace'
  BY <1>1, QueueAssumption DEF QueueAssumption, TypeOK, OnePlace, callVars, workVars, histVars
<1>5. Past'
  BY DEF TypeOK, Past, callVars, histVars
<1>6. AnsweredHaveRows'
  BY DEF TypeOK, Past, AnsweredHaveRows, callVars, histVars
<1>7. AloneInv'
  BY <1>1 DEF TypeOK, Past, AnsweredHaveRows, AloneInv, callVars, workVars, histVars
<1> QED  BY <1>2, <1>3, <1>4, <1>5, <1>6, <1>7

LEMMA StepCheckWait ==
  ASSUME SInv, NEW c \in Callers, CheckWait(c)
  PROVE  SInv'
<1> USE DEF SInv, CheckWait, Goto
<1>1. Contents' = Contents /\ InRing' = InRing /\ queue_size' = queue_size /\ QueueTypeOK'
  BY RingFrame DEF TypeOK
<1>2. TypeOK'
  BY <1>1 DEF TypeOK, callVars, workVars, histVars, Callers, CallerPCs, WorkerPCs
<1>3. RequestLockHeld'
  BY CallerAssumption DEF CallerAssumption, TypeOK, RequestLockHeld, callVars, Callers
<1>4. OnePlace'
  BY <1>1, QueueAssumption DEF QueueAssumption, TypeOK, OnePlace, callVars, workVars, histVars
<1>5. Past'
  BY DEF TypeOK, Past, callVars, histVars
<1>6. AnsweredHaveRows'
  BY DEF TypeOK, Past, AnsweredHaveRows, callVars, histVars
<1>7. AloneInv'
  BY <1>1 DEF TypeOK, Past, AnsweredHaveRows, AloneInv, callVars, workVars, histVars
<1> QED  BY <1>2, <1>3, <1>4, <1>5, <1>6, <1>7

LEMMA StepWake ==
  ASSUME SInv, NEW c \in Callers, Wake(c)
  PROVE  SInv'
<1> USE DEF SInv, Wake, Goto
<1>1. Contents' = Contents /\ InRing' = InRing /\ queue_size' = queue_size /\ QueueTypeOK'
  BY RingFrame DEF TypeOK
<1>2. TypeOK'
  BY <1>1 DEF TypeOK, callVars, workVars, histVars, Callers, CallerPCs, WorkerPCs
<1>3. RequestLockHeld'
  BY CallerAssumption DEF CallerAssumption, TypeOK, RequestLockHeld, callVars, Callers
<1>4. OnePlace'
  BY <1>1, QueueAssumption DEF QueueAssumption, TypeOK, OnePlace, callVars, workVars, histVars
<1>5. Past'
  BY DEF TypeOK, Past, callVars, histVars
<1>6. AnsweredHaveRows'
  BY DEF TypeOK, Past, AnsweredHaveRows, callVars, histVars
<1>7. AloneInv'
  BY <1>1 DEF TypeOK, Past, AnsweredHaveRows, AloneInv, callVars, workVars, histVars
<1> QED  BY <1>2, <1>3, <1>4, <1>5, <1>6, <1>7

LEMMA StepWaitTimeout ==
  ASSUME SInv, NEW c \in Callers, WaitTimeout(c)
  PROVE  SInv'
<1> USE DEF SInv, WaitTimeout, Goto
<1>1. Contents' = Contents /\ InRing' = InRing /\ queue_size' = queue_size /\ QueueTypeOK'
  BY RingFrame DEF TypeOK
<1>2. TypeOK'
  BY <1>1 DEF TypeOK, callVars, workVars, histVars, Callers, CallerPCs, WorkerPCs
<1>3. RequestLockHeld'
  BY CallerAssumption DEF CallerAssumption, TypeOK, RequestLockHeld, callVars, Callers
<1>4. OnePlace'
  BY <1>1, QueueAssumption DEF QueueAssumption, TypeOK, OnePlace, callVars, workVars, histVars
<1>5. Past'
  BY DEF TypeOK, Past, callVars, histVars
<1>6. AnsweredHaveRows'
  BY DEF TypeOK, Past, AnsweredHaveRows, callVars, histVars
<1>7. AloneInv'
  BY <1>1 DEF TypeOK, Past, AnsweredHaveRows, AloneInv, callVars, workVars, histVars
<1> QED  BY <1>2, <1>3, <1>4, <1>5, <1>6, <1>7

LEMMA StepStop ==
  ASSUME SInv, NEW c \in Callers, Stop(c)
  PROVE  SInv'
<1> USE DEF SInv, Stop, Returns, Goto
<1>1. Contents' = Contents /\ InRing' = InRing /\ queue_size' = queue_size /\ QueueTypeOK'
  BY RingFrame DEF TypeOK
<1>2. TypeOK'
  BY <1>1 DEF TypeOK, callVars, workVars, histVars, Callers, CallerPCs, WorkerPCs
<1>3. RequestLockHeld'
  BY CallerAssumption DEF CallerAssumption, TypeOK, RequestLockHeld, callVars, Callers
<1>4. OnePlace'
  BY <1>1, QueueAssumption DEF QueueAssumption, TypeOK, OnePlace, callVars, workVars, histVars
<1>5. Past'
  BY DEF TypeOK, Past, callVars, histVars
<1>6. AnsweredHaveRows'
  BY DEF TypeOK, Past, AnsweredHaveRows, callVars, histVars
<1>7. AloneInv'
  BY <1>1 DEF TypeOK, Past, AnsweredHaveRows, AloneInv, callVars, workVars, histVars
<1> QED  BY <1>2, <1>3, <1>4, <1>5, <1>6, <1>7

LEMMA StepWorkerBoot ==
  ASSUME SInv, WorkerBoot
  PROVE  SInv'
<1> USE DEF SInv, WorkerBoot
<1>1. Contents' = Contents /\ InRing' = InRing /\ queue_size' = queue_size /\ QueueTypeOK'
  BY RingFrame DEF TypeOK
<1>2. TypeOK'
  BY <1>1 DEF TypeOK, callVars, workVars, histVars, Callers, CallerPCs, WorkerPCs
<1>3. RequestLockHeld'
  BY CallerAssumption DEF CallerAssumption, TypeOK, RequestLockHeld, callVars, Callers
<1>4. OnePlace'
  BY <1>1, QueueAssumption DEF QueueAssumption, TypeOK, OnePlace, callVars, workVars, histVars
<1>5. Past'
  BY DEF TypeOK, Past, callVars, histVars
<1>6. AnsweredHaveRows'
  BY DEF TypeOK, Past, AnsweredHaveRows, callVars, histVars
<1>7. AloneInv'
  BY <1>1 DEF TypeOK, Past, AnsweredHaveRows, AloneInv, callVars, workVars, histVars
<1> QED  BY <1>2, <1>3, <1>4, <1>5, <1>6, <1>7

LEMMA StepProcessFails ==
  ASSUME SInv, ProcessFails
  PROVE  SInv'
<1> USE DEF SInv, ProcessFails
<1>1. Contents' = Contents /\ InRing' = InRing /\ queue_size' = queue_size /\ QueueTypeOK'
  BY RingFrame DEF TypeOK
<1>2. TypeOK'
  BY <1>1 DEF TypeOK, callVars, workVars, histVars, Callers, CallerPCs, WorkerPCs
<1>3. RequestLockHeld'
  BY CallerAssumption DEF CallerAssumption, TypeOK, RequestLockHeld, callVars, Callers
<1>4. OnePlace'
  BY <1>1, QueueAssumption DEF QueueAssumption, TypeOK, OnePlace, callVars, workVars, histVars
<1>5. Past'
  BY DEF TypeOK, Past, callVars, histVars
<1>6. AnsweredHaveRows'
  BY DEF TypeOK, Past, AnsweredHaveRows, callVars, histVars
<1>7. AloneInv'
  BY <1>1 DEF TypeOK, Past, AnsweredHaveRows, AloneInv, callVars, workVars, histVars
<1> QED  BY <1>2, <1>3, <1>4, <1>5, <1>6, <1>7

LEMMA StepProcessStores ==
  ASSUME SInv, ProcessStores
  PROVE  SInv'
<1> USE DEF SInv, ProcessStores
<1>1. Contents' = Contents /\ InRing' = InRing /\ queue_size' = queue_size /\ QueueTypeOK'
  BY RingFrame DEF TypeOK
<1>0. hand \in Requests /\ hand \in accepted
  BY QueueAssumption DEF QueueAssumption, TypeOK, OnePlace
<1>2. TypeOK'
  BY <1>0, <1>1 DEF TypeOK, callVars, workVars, histVars, Callers, CallerPCs, WorkerPCs
<1>3. RequestLockHeld'
  BY CallerAssumption DEF CallerAssumption, TypeOK, RequestLockHeld, callVars, Callers
<1>4. OnePlace'
  BY <1>1, QueueAssumption DEF QueueAssumption, TypeOK, OnePlace, callVars, workVars, histVars
<1>5. Past'
  BY DEF TypeOK, Past, callVars, histVars
<1>6. AnsweredHaveRows'
  BY <1>0 DEF TypeOK, Past, AnsweredHaveRows, Callers
<1>7. AloneInv'
  BY <1>1 DEF TypeOK, Past, AnsweredHaveRows, AloneInv, callVars, workVars, histVars
<1> QED  BY <1>2, <1>3, <1>4, <1>5, <1>6, <1>7

LEMMA StepCallback ==
  ASSUME SInv, Callback
  PROVE  SInv'
<1> USE DEF SInv, Callback, Signal
<1>1. Contents' = Contents /\ InRing' = InRing /\ queue_size' = queue_size /\ QueueTypeOK'
  BY RingFrame DEF TypeOK
<1>2. TypeOK'
  BY <1>1 DEF TypeOK, callVars, workVars, histVars, Callers, CallerPCs, WorkerPCs
<1>3. RequestLockHeld'
  BY CallerAssumption DEF CallerAssumption, TypeOK, RequestLockHeld, callVars, Callers
<1>4. OnePlace'
  BY <1>1, QueueAssumption DEF QueueAssumption, TypeOK, OnePlace, callVars, workVars, histVars
<1>5. Past'
  BY DEF TypeOK, Past, callVars, histVars
<1>6. AnsweredHaveRows'
  BY DEF TypeOK, Past, AnsweredHaveRows, callVars, histVars
<1>7. AloneInv'
  <2>1. hand \in Requests /\ hand \in answered
    BY QueueAssumption DEF QueueAssumption, TypeOK, OnePlace
  <2>2. \A c \in alone : c \in answered
    BY <2>1, QueueAssumption DEF QueueAssumption, AloneInv
  <2> QED  BY <1>1, <2>2 DEF TypeOK, AloneInv, histVars
<1> QED  BY <1>2, <1>3, <1>4, <1>5, <1>6, <1>7

LEMMA StepCallbackTimeout ==
  ASSUME SInv, CallbackTimeout
  PROVE  SInv'
<1> USE DEF SInv, CallbackTimeout
<1>1. Contents' = Contents /\ InRing' = InRing /\ queue_size' = queue_size /\ QueueTypeOK'
  BY RingFrame DEF TypeOK
<1>2. TypeOK'
  BY <1>1 DEF TypeOK, callVars, workVars, histVars, Callers, CallerPCs, WorkerPCs
<1>3. RequestLockHeld'
  BY CallerAssumption DEF CallerAssumption, TypeOK, RequestLockHeld, callVars, Callers
<1>4. OnePlace'
  BY <1>1, QueueAssumption DEF QueueAssumption, TypeOK, OnePlace, callVars, workVars, histVars
<1>5. Past'
  BY DEF TypeOK, Past, callVars, histVars
<1>6. AnsweredHaveRows'
  BY DEF TypeOK, Past, AnsweredHaveRows, callVars, histVars
<1>7. AloneInv'
  BY <1>1 DEF TypeOK, Past, AnsweredHaveRows, AloneInv, callVars, workVars, histVars
<1> QED  BY <1>2, <1>3, <1>4, <1>5, <1>6, <1>7

\* The ring takes the caller's request: it was in no place before.
LEMMA StepPushAccepted ==
  ASSUME SInv, NEW c \in Callers, PushAccepted(c)
  PROVE  SInv'
<1> USE DEF SInv, PushAccepted, Goto
<1>1. /\ QueueTypeOK' /\ queue_size' = queue_size + 1 /\ queue_size \in Nat
      /\ \A i \in 1 .. queue_size' :
           Contents'[i] = IF i = queue_size + 1 THEN c ELSE Contents[i]
  <2>1. /\ Contents \in Seq(Entries) /\ Len(Contents) = queue_size
        /\ Contents' = Append(Contents, c) /\ c \in Entries
    BY ContentsSeq, PushAppends DEF TypeOK, Callers, Entries
  <2>2. queue_size' = queue_size + 1 /\ queue_size \in Nat
    BY <2>1, LenProperties DEF QueuePush
  <2> QED  BY <2>1, <2>2, QueueTypePush DEF TypeOK, Callers
<1>2. c \notin accepted /\ c \in Requests
  BY DEF Past, Callers
<1>3. InRing' = InRing \cup {c}
  BY <1>1 DEF InRing
<1>4. TypeOK'
  BY <1>1, <1>2 DEF TypeOK, workVars, CallerPCs, WorkerPCs
<1>5. RequestLockHeld'
  BY DEF TypeOK, RequestLockHeld
<1>6. OnePlace'
  <2>1. c \notin InRing /\ c \notin answered /\ hand # c
    BY <1>2, QueueAssumption DEF QueueAssumption, OnePlace, TypeOK
  <2>2. \A i, j \in 1 .. queue_size' : Contents'[i] = Contents'[j] => i = j
    <3>1. \A i \in 1 .. queue_size : Contents[i] # c
      BY <2>1 DEF InRing
    <3> QED  BY <1>1, <3>1 DEF OnePlace
  <2> QED  BY <1>2, <1>3, <2>1, <2>2 DEF OnePlace, workVars
<1>7. Past'
  BY <1>2 DEF TypeOK, Past
<1>8. AnsweredHaveRows'
  BY DEF AnsweredHaveRows
<1>9. AloneInv'
  BY <1>3 DEF TypeOK, AloneInv, workVars
<1> QED  BY <1>4, <1>5, <1>6, <1>7, <1>8, <1>9

\* The worker takes the oldest request, which then is in its hand only.
LEMMA StepWorkerTake ==
  ASSUME SInv, WorkerTake
  PROVE  SInv'
<1> USE DEF SInv, WorkerTake
<1>1. /\ QueueTypeOK' /\ queue_size' = queue_size - 1 /\ queue_size \in Nat \ {0}
      /\ \A i \in 1 .. queue_size' : Contents'[i] = Contents[i + 1]
      /\ hand' = Contents[1]
  <2>1. /\ Contents \in Seq(Entries) /\ Len(Contents) = queue_size
        /\ Contents' = Tail(Contents) /\ Contents # <<>> /\ hand' = Contents[1]
    BY ContentsSeq, PopTails DEF TypeOK
  <2>2. queue_size' = queue_size - 1 /\ queue_size \in Nat \ {0}
    BY <2>1, EmptySeq DEF QueuePop
  <2>3. QueueTypeOK'
    BY QueueTypePop DEF TypeOK
  <2> QED  BY <2>1, <2>2, <2>3, HeadTailProperties
<1>2. InRing' \subseteq InRing /\ hand' \in InRing
  BY <1>1 DEF InRing
<1>3. hand' \notin InRing'
  <2>1. \A i \in 1 .. queue_size' : Contents[i + 1] # Contents[1]
    BY <1>1 DEF OnePlace
  <2> QED  BY <1>1, <2>1 DEF InRing
<1>4. hand' \in accepted /\ hand' \in Requests /\ hand' \notin answered
  BY <1>2 DEF OnePlace, TypeOK
<1>5. TypeOK'
  BY <1>1, <1>4, QueueAssumption
     DEF QueueAssumption, TypeOK, callVars, histVars, CallerPCs, WorkerPCs
<1>6. RequestLockHeld'
  BY DEF RequestLockHeld, callVars
<1>7. OnePlace'
  BY <1>1, <1>2, <1>3, <1>4 DEF OnePlace, histVars
<1>8. Past' /\ AnsweredHaveRows'
  BY DEF Past, AnsweredHaveRows, callVars, histVars
<1>9. AloneInv'
  BY <1>2 DEF AloneInv, callVars, histVars
<1> QED  BY <1>5, <1>6, <1>7, <1>8, <1>9

LEMMA StepStutter ==
  ASSUME SInv, UNCHANGED vars
  PROVE  SInv'
<1>1. Contents' = Contents /\ InRing' = InRing /\ queue_size' = queue_size /\ QueueTypeOK'
  BY RingFrame DEF vars, SInv, TypeOK
<1> QED  BY <1>1 DEF SInv, TypeOK, RequestLockHeld, OnePlace, Past,
     AnsweredHaveRows, AloneInv, vars, callVars, workVars, histVars

LEMMA InvInit == Init => SInv
<1> SUFFICES ASSUME Init PROVE SInv
  OBVIOUS
<1>1. QueueTypeOK /\ InRing = {} /\ queue_size = 0
  BY QueueTypeInit DEF Init, QueueInit, InRing
<1>2. TypeOK
  BY <1>1 DEF Init, TypeOK, CallerPCs, WorkerPCs
<1>3. RequestLockHeld
  BY CallerAssumption DEF CallerAssumption, Init, RequestLockHeld, Callers
<1>4. OnePlace
  BY <1>1 DEF Init, OnePlace
<1>5. Past /\ AnsweredHaveRows /\ AloneInv
  BY DEF Init, Past, AnsweredHaveRows, AloneInv
<1> QED  BY <1>2, <1>3, <1>4, <1>5 DEF SInv

LEMMA InvNext == SInv /\ [Next]_vars => SInv'
<1> SUFFICES ASSUME SInv, [Next]_vars PROVE SInv'
  OBVIOUS
<1>1. ASSUME NEW c \in Callers, CallerStep(c)
      PROVE  SInv'
  BY <1>1, StepStartRefused, StepStart, StepPrepare, StepLock, StepLockTimeout,
     StepPushAccepted, StepPushDropped, StepCheckReady, StepCheckWait, StepWake,
     StepWaitTimeout, StepStop DEF CallerStep
<1>2. CASE WorkerStep
  BY <1>2, StepWorkerBoot, StepWorkerTake, StepProcessFails, StepProcessStores,
     StepCallback, StepCallbackTimeout DEF WorkerStep
<1>3. CASE Done \/ UNCHANGED vars
  BY <1>3, StepStutter DEF Done
<1> QED  BY <1>1, <1>2, <1>3 DEF Next

LEMMA Invariance == Spec => []SInv
BY InvInit, InvNext, PTL DEF Spec

\* Type correctness for any number of callers and any capacity.
THEOREM SqlTypeCorrect == Spec => []TypeOK
BY Invariance, PTL DEF SInv

\* No path of data_sql_execute leaves with the request lock.
THEOREM SqlLockHeld == Spec => []RequestLockHeld
BY Invariance, PTL DEF SInv

\* An accepted request is never queued twice, handed out twice or answered
\* while it waits.
THEOREM SqlOnePlace == Spec => []OnePlace
BY Invariance, PTL DEF SInv

\* A call that overlaps no other and finds nothing left over gets its own
\* rows when it is told that they are ready.
THEOREM SqlAloneIsAnswered == Spec => []AloneIsAnswered
<1>1. SInv => AloneIsAnswered
  BY DEF SInv, AloneInv, AloneIsAnswered
<1> QED  BY <1>1, Invariance, PTL

\* The ring stays a first-in first-out queue under the callers and the
\* worker: every step of the system is a step of RequestFifo or none of it.
THEOREM SqlQueueIsFifo == Spec => QueueIsFifo
<1>1. Init => Fifo!Init
  BY RingInit DEF Init
<1>2. SInv /\ [Next]_vars => [Fifo!Next]_Contents
  <2> SUFFICES ASSUME SInv, [Next]_vars PROVE [Fifo!Next]_Contents
    OBVIOUS
  <2>1. [QueueNext]_queueVars
    <3>1. ASSUME NEW c \in Callers, CallerStep(c)
          PROVE  [QueueNext]_queueVars
      BY <3>1 DEF CallerStep, QueueNext, Callers, StartRefused, Start, Prepare,
         Lock, LockTimeout, PushAccepted, PushDropped, CheckReady, CheckWait,
         Wake, WaitTimeout, Stop
    <3>2. CASE WorkerStep
      BY <3>2 DEF WorkerStep, QueueNext, WorkerBoot, WorkerTake, ProcessFails,
         ProcessStores, Callback, CallbackTimeout
    <3>3. CASE Done \/ UNCHANGED vars
      BY <3>3 DEF Done, vars
    <3> QED  BY <3>1, <3>2, <3>3 DEF Next
  <2> QED  BY <2>1, RingStep DEF SInv, TypeOK
<1> QED  BY <1>1, <1>2, Invariance, PTL DEF Spec, QueueIsFifo, Fifo!Spec
=============================================================================
