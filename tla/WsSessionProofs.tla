-------------------------- MODULE WsSessionProofs --------------------------
(***************************************************************************)
(* Proofs about WsSession, for every size of the buffer, of the frames and *)
(* of the thresholds.                                                      *)
(*                                                                         *)
(* Everything hangs together in one invariant: the buffer has one or two   *)
(* quanta because a read fills at most one, the frames that get to the     *)
(* application are not longer than what was read, and so the size the      *)
(* buffer shrinks to is one quantum, or none.                              *)
(***************************************************************************)
EXTENDS WsSession, WellFoundedInduction, TLAPS

Capacity == frame_capacity \in {BUF_SIZE, 2 * BUF_SIZE}

InFrame ==
  state \in {"MASK_AND_DECODE", "PROCESS_FRAME", "SEND_RESPONSE"} => wire # <<>>

Inspected == state = "BUFFER_INSPECT" => frame_offset > 0

Recent == recent_max_payload_len <= BUF_SIZE

WsInv == /\ TypeOK /\ Capacity /\ PayloadReceived /\ NeverIdle
         /\ InFrame /\ Inspected /\ Recent

LEMMA WsInit == Init => WsInv
<1> SUFFICES ASSUME Init PROVE WsInv
  OBVIOUS
<1> USE SessionAssumption DEF SessionAssumption, Init
<1>1. TypeOK
  <2>1. hdr \in HeaderType
    BY DEF HeaderType, OpCodes
  <2>2. wire \in Seq(Frames) /\ Len(wire) <= MaxWire
    OBVIOUS
  <2>3. closed \in BOOLEAN /\ fragmented \in BOOLEAN
    BY Zenon
  <2>4. state \in States
    BY DEF States
  <2>5. avail \in Nat /\ frame_offset \in 0 .. BUF_SIZE /\ frame_capacity \in Nat
        /\ frame_shrink_count \in 0 .. SHRINK_THRESHOLD - 1
        /\ recent_max_payload_len \in Nat
    OBVIOUS
  <2> QED
    BY <2>1, <2>2, <2>3, <2>4, <2>5 DEF TypeOK
<1>2. Capacity /\ PayloadReceived /\ NeverIdle /\ InFrame /\ Inspected /\ Recent
  BY DEF Capacity, PayloadReceived, NeverIdle, InFrame, Inspected, Recent
<1> QED
  BY <1>1, <1>2 DEF WsInv

\* What the parser knows of a frame.
LEMMA FrameTyped ==
  TypeOK /\ BaseKnown =>
    /\ Frame \in Frames
    /\ Frame.op \in OpCodes /\ Frame.fin \in BOOLEAN
    /\ Frame.ext \in Nat /\ Frame.mask \in Nat /\ Frame.len \in Nat
BY SessionAssumption DEF SessionAssumption, TypeOK, BaseKnown, Frame, FrameType

\* A length that is misread is longer than the buffer is read into.
LEMMA ReadOrTooLong ==
  ASSUME NEW f \in Frames
  PROVE  LengthRead(f) \in Nat /\ (LengthRead(f) = f.len \/ LengthRead(f) >= BUF_SIZE)
<1> USE SessionAssumption DEF SessionAssumption
<1>1. f.len \in Nat /\ BYTE \in Nat \ {0}
  BY DEF FrameType
<1>2. f.len % BYTE \in Nat
  BY <1>1
<1> DEFINE high == BYTE * BYTE - BYTE
<1>3. high \in Int /\ high >= BUF_SIZE /\ BUF_SIZE \in Nat
  BY <1>1
<1>4. LengthRead(f) = f.len \/ LengthRead(f) = high + (f.len % BYTE)
  BY DEF LengthRead
<1> HIDE DEF high
<1>. QED BY <1>1, <1>2, <1>3, <1>4

LEMMA HeaderTyped == TypeOK /\ ParseHeader => hdr' \in HeaderType
<1> SUFFICES ASSUME TypeOK, ParseHeader PROVE hdr' \in HeaderType
  OBVIOUS
<1>1. CASE ~BaseKnown
  BY <1>1 DEF ParseHeader, TypeOK
<1>2. CASE BaseKnown
  <2> /\ Frame.op \in OpCodes /\ Frame.ext \in Nat /\ Frame.mask \in Nat
      /\ LengthRead(Frame) \in Nat
    BY <1>2, FrameTyped, ReadOrTooLong
  <2> hdr.mask_offset \in Nat /\ hdr.payload_len \in Nat
    BY DEF TypeOK, HeaderType
  <2> QED
    BY <1>2 DEF ParseHeader, HeaderType, BaseHeader
<1> QED
  BY <1>1, <1>2

\* A complete frame is in the buffer, and its header is parsed.
LEMMA CompleteParsed ==
  TypeOK /\ ParseHeader /\ Complete =>
    /\ wire # <<>>
    /\ hdr' \in HeaderType
    /\ hdr'.op = Frame.op
    /\ hdr'.mask_offset + hdr'.mask_size + hdr'.payload_len = Size(Frame)
    /\ Size(Frame) \in 2 .. frame_offset
<1> SUFFICES ASSUME TypeOK, ParseHeader, Complete
    PROVE /\ wire # <<>>
          /\ hdr' \in HeaderType
          /\ hdr'.op = Frame.op
          /\ hdr'.mask_offset + hdr'.mask_size + hdr'.payload_len = Size(Frame)
          /\ Size(Frame) \in 2 .. frame_offset
  OBVIOUS
<1>1. BaseKnown /\ LengthKnown
  BY DEF Complete, LengthKnown
<1>2. Frame.op \in OpCodes /\ Frame.ext \in Nat /\ Frame.mask \in Nat /\ Frame.len \in Nat
  BY <1>1, FrameTyped
<1>3. LengthRead(Frame) = Frame.len
  <2>1. /\ LengthRead(Frame) \in Nat
        /\ LengthRead(Frame) = Frame.len \/ LengthRead(Frame) >= BUF_SIZE
    BY <1>1, FrameTyped, ReadOrTooLong
  <2>2. frame_offset \in 0 .. BUF_SIZE /\ BUF_SIZE \in Nat
    BY SessionAssumption DEF SessionAssumption, TypeOK
  <2>. QED BY <1>2, <2>1, <2>2 DEF Complete, FrameLen, BaseHeader
<1>4. hdr' = [op |-> Frame.op, mask_size |-> Frame.mask,
              mask_offset |-> BaseHeader + Frame.ext, payload_len |-> Frame.len]
  BY <1>1, <1>3 DEF ParseHeader
<1> QED
  BY <1>1, <1>2, <1>3, <1>4, HeaderTyped
  DEF Complete, BaseKnown, FrameLen, Size, BaseHeader, TypeOK

\* ws_check_frame_unprocessed on a frame that is in the buffer.
LEMMA HandledKeeps ==
  ASSUME WsInv, NEW h \in HeaderType, wire # <<>>, Handled(h),
         h.mask_offset + h.mask_size + h.payload_len <= frame_offset
  PROVE  /\ wire' \in Seq(Frames) /\ Len(wire') <= MaxWire
         /\ avail' \in Nat /\ closed' \in BOOLEAN
         /\ frame_offset' \in 0 .. BUF_SIZE
         /\ state' \in {"BUFFER_INSPECT", "READ_HEADER"}
         /\ Inspected'
<1> USE SessionAssumption DEF SessionAssumption
<1>1. wire' \in Seq(Frames) /\ Len(wire') <= MaxWire
  BY DEF Handled, WsInv, TypeOK
<1>2. h.mask_offset \in Nat /\ h.mask_size \in Nat /\ h.payload_len \in Nat
  BY DEF HeaderType
<1>3. frame_offset' \in 0 .. BUF_SIZE
  BY <1>2 DEF Handled, WsInv, TypeOK
<1> QED
  BY <1>1, <1>3 DEF Handled, WsInv, TypeOK, Inspected

\* The size to shrink to.
LEMMA RoundUp ==
  \A b \in Nat \ {0} : \A r \in 0 .. b : ((r + b - 1) \div b) \in {0, 1}
OBVIOUS

LEMMA TargetIs == WsInv => Target \in {0, BUF_SIZE}
<1> SUFFICES ASSUME WsInv PROVE Target \in {0, BUF_SIZE}
  OBVIOUS
<1>1. BUF_SIZE \in Nat \ {0} /\ recent_max_payload_len \in 0 .. BUF_SIZE
  BY SessionAssumption DEF SessionAssumption, WsInv, TypeOK, Recent
<1>2. (recent_max_payload_len + BUF_SIZE - 1) \div BUF_SIZE \in {0, 1}
  BY <1>1, RoundUp
<1> QED
  BY <1>1, <1>2 DEF Target

-----------------------------------------------------------------------------
(* The steps.  Each leaves alone what the lemma above it does not name. *)

\* The steps of the peer, the end of the session, and a failure.
LEMMA PeerKeeps ==
  WsInv /\ ((\E f \in Frames : Send(f)) \/ PeerClose) => WsInv'
<1> USE SessionAssumption DEF SessionAssumption, WsInv
<1>1. ASSUME WsInv, NEW f \in Frames, Send(f) PROVE WsInv'
  <2>1. f \in FrameType
    BY <1>1
  <2>2. Size(f) \in Nat
    BY <2>1 DEF FrameType, Size, BaseHeader
  <2>3. wire' \in Seq(Frames) /\ Len(wire') <= MaxWire /\ wire' # <<>>
    BY <1>1 DEF Send, TypeOK
  <2>4. TypeOK'
    BY <1>1, <2>2, <2>3 DEF Send, TypeOK, sizeVars
  <2> QED
    BY <1>1, <2>3, <2>4 DEF Send, sizeVars, Capacity, PayloadReceived, NeverIdle,
       InFrame, Inspected, Recent
<1>2. ASSUME WsInv, PeerClose PROVE WsInv'
  BY <1>2 DEF PeerClose, sizeVars, TypeOK, Capacity, PayloadReceived, NeverIdle,
     InFrame, Inspected, Recent
<1> QED
  BY <1>1, <1>2

\* A step that ends the session and touches nothing the invariant is about.
LEMMA EndKeeps ==
  ASSUME WsInv, state' \in EndStates, UNCHANGED <<wire, closed, sizeVars, frame_offset>>,
         avail' \in Nat, hdr' \in HeaderType, fragmented' \in BOOLEAN
  PROVE  WsInv'
BY DEF WsInv, TypeOK, States, EndStates, sizeVars, Capacity, PayloadReceived,
   NeverIdle, InFrame, Inspected, Recent

\* What a read does to the sizes of the buffer.
LEMMA ReadingKeeps ==
  ASSUME WsInv, Reading
  PROVE  /\ wire' = wire /\ closed' = closed /\ hdr' = hdr /\ fragmented' = fragmented
         /\ frame_capacity' \in Nat /\ Capacity'
         /\ frame_shrink_count' \in 0 .. SHRINK_THRESHOLD - 1
         /\ recent_max_payload_len' \in Nat /\ Recent'
<1> USE SessionAssumption DEF SessionAssumption, WsInv, TypeOK, Capacity, Recent
<1>1. CASE NeedToGrow
  BY <1>1 DEF Reading, Grow, NeedToGrow
<1>2. CASE ~NeedToGrow
  BY <1>2 DEF Reading, Grow, sizeVars
<1> QED
  BY <1>1, <1>2

LEMMA ReadKeeps ==
  WsInv /\ (GrowFails \/ ReadSome \/ ReadNothing \/ ReadEnd \/ ReadFails) => WsInv'
<1> SUFFICES ASSUME WsInv, GrowFails \/ ReadSome \/ ReadNothing \/ ReadEnd \/ ReadFails
             PROVE  WsInv'
  OBVIOUS
<1>1. CASE GrowFails
  BY <1>1, EndKeeps DEF GrowFails, peerVars, WsInv, TypeOK, EndStates
<1>2. CASE ReadSome
  <2>1. Reading
    BY <1>2 DEF ReadSome
  <2>2. PICK n \in 1 .. avail : /\ n <= Room
                               /\ frame_offset' = frame_offset + n
                               /\ avail' = avail - n
    BY <1>2 DEF ReadSome
  <2>3. frame_offset' \in 1 .. BUF_SIZE /\ avail' \in Nat
    BY <2>2, SessionAssumption DEF SessionAssumption, WsInv, TypeOK, Room
  <2> QED
    BY <1>2, <2>1, <2>3, ReadingKeeps
       DEF ReadSome, WsInv, TypeOK, States, PayloadReceived, NeverIdle, InFrame, Inspected
<1>3. CASE ReadNothing
  BY <1>3, ReadingKeeps
     DEF ReadNothing, Reading, WsInv, TypeOK, PayloadReceived, NeverIdle, InFrame, Inspected
<1>4. CASE ReadEnd \/ ReadFails
  BY <1>4, ReadingKeeps DEF ReadEnd, ReadFails, WsInv, TypeOK, States, EndStates,
     PayloadReceived, NeverIdle, InFrame, Inspected
<1> QED
  BY <1>1, <1>2, <1>3, <1>4

LEMMA InspectKeeps ==
  WsInv /\ (InspectFails \/ InspectMore \/ InspectData \/ InspectControl)
    => WsInv'
<1> SUFFICES ASSUME WsInv, InspectFails \/ InspectMore \/ InspectData \/ InspectControl
             PROVE  WsInv'
  OBVIOUS
<1>0. TypeOK
  BY DEF WsInv
<1>1. CASE InspectFails
  BY <1>1, EndKeeps DEF InspectFails, peerVars, WsInv, TypeOK, EndStates
<1>2. CASE InspectMore
  <2>1. hdr' \in HeaderType
    BY <1>0, <1>2, HeaderTyped DEF InspectMore
  <2>2. state' = "READ_HEADER"
    BY <1>2, SessionAssumption DEF SessionAssumption, InspectMore, WsInv, TypeOK, Inspected
  <2> QED
    BY <1>2, <2>1, <2>2 DEF InspectMore, WsInv, TypeOK, States, peerVars, sizeVars,
       Capacity, PayloadReceived, NeverIdle, InFrame, Inspected, Recent
<1>3. CASE InspectData
  <2>1. hdr' \in HeaderType /\ wire # <<>>
        /\ hdr'.mask_offset + hdr'.mask_size + hdr'.payload_len <= frame_offset
    BY <1>0, <1>3, CompleteParsed DEF InspectData, TypeOK
  <2>2. fragmented' \in BOOLEAN
    <3>1. Frame.fin \in BOOLEAN
      BY <1>0, <1>3, FrameTyped DEF InspectData, Complete, LengthKnown
    <3> QED
      BY <1>0, <1>3, <3>1 DEF InspectData, TypeOK
  <2> QED
    BY <1>3, <2>1, <2>2 DEF InspectData, WsInv, TypeOK, States, peerVars, sizeVars,
       Capacity, PayloadReceived, NeverIdle, InFrame, Inspected, Recent
<1>4. CASE InspectControl
  <2>1. hdr' \in HeaderType /\ wire # <<>>
        /\ hdr'.mask_offset + hdr'.mask_size + hdr'.payload_len <= frame_offset
    BY <1>0, <1>4, CompleteParsed DEF InspectControl, TypeOK
  <2> QED
    BY <1>4, <2>1, HandledKeeps DEF InspectControl, WsInv, TypeOK, States, sizeVars,
       Capacity, PayloadReceived, NeverIdle, InFrame, Recent
<1> QED
  BY <1>1, <1>2, <1>3, <1>4

LEMMA ProcessKeeps ==
  WsInv /\ (MaskAndDecode \/ ProcessUnknown \/ ProcessQuit \/ ProcessDone) => WsInv'
<1> SUFFICES ASSUME WsInv, MaskAndDecode \/ ProcessUnknown \/ ProcessQuit \/ ProcessDone
             PROVE  WsInv'
  OBVIOUS
<1>0. hdr.mask_offset \in Nat /\ hdr.mask_size \in Nat /\ hdr.payload_len \in Nat
  BY DEF WsInv, TypeOK, HeaderType
<1>1. CASE MaskAndDecode
  <2>1. hdr.payload_len <= BUF_SIZE
    BY <1>0, <1>1, SessionAssumption
       DEF SessionAssumption, MaskAndDecode, WsInv, TypeOK, PayloadReceived
  <2> QED
    BY <1>0, <1>1, <2>1 DEF MaskAndDecode, WsInv, TypeOK, States, peerVars,
       Capacity, PayloadReceived, NeverIdle, InFrame, Inspected, Recent
<1>2. CASE ProcessUnknown
  <2>1. hdr \in HeaderType /\ wire # <<>>
        /\ hdr.mask_offset + hdr.mask_size + hdr.payload_len <= frame_offset
    BY <1>2 DEF ProcessUnknown, WsInv, TypeOK, PayloadReceived, InFrame
  <2> QED
    BY <1>2, <2>1, HandledKeeps DEF ProcessUnknown, WsInv, TypeOK, States, sizeVars,
       Capacity, PayloadReceived, NeverIdle, InFrame, Recent
<1>3. CASE ProcessQuit
  BY <1>3, EndKeeps DEF ProcessQuit, peerVars, WsInv, TypeOK, EndStates
<1>4. CASE ProcessDone
  BY <1>4 DEF ProcessDone, WsInv, TypeOK, States, peerVars, sizeVars,
     Capacity, PayloadReceived, NeverIdle, InFrame, Inspected, Recent
<1> QED
  BY <1>1, <1>2, <1>3, <1>4

\* The answer: the buffer keeps its size or shrinks to one quantum.
LEMMA RespondKeeps == WsInv /\ (Respond \/ RespondFrees) => WsInv'
<1> SUFFICES ASSUME WsInv, Respond \/ RespondFrees PROVE WsInv'
  OBVIOUS
<1>1. CASE Respond
  <2>1. hdr \in HeaderType /\ wire # <<>>
        /\ hdr.mask_offset + hdr.mask_size + hdr.payload_len <= frame_offset
    BY <1>1 DEF Respond, WsInv, TypeOK, PayloadReceived, InFrame
  <2>2. frame_capacity' \in {BUF_SIZE, 2 * BUF_SIZE}
    BY <1>1, TargetIs DEF Respond, WsInv, Capacity
  <2>3. frame_shrink_count' \in 0 .. SHRINK_THRESHOLD - 1
    BY <1>1, SessionAssumption DEF SessionAssumption, Respond, WsInv, TypeOK
  <2> QED
    BY <1>1, <2>1, <2>2, <2>3, HandledKeeps, SessionAssumption
       DEF SessionAssumption, Respond, WsInv, TypeOK, States,
       Capacity, PayloadReceived, NeverIdle, InFrame, Recent
<1>2. CASE RespondFrees
  BY <1>2, EndKeeps DEF RespondFrees, peerVars, WsInv, TypeOK, EndStates
<1> QED
  BY <1>1, <1>2

LEMMA WsInvariance == Spec => []WsInv
<1>1. WsInv /\ UNCHANGED vars => WsInv'
  BY DEF WsInv, TypeOK, Capacity, PayloadReceived, NeverIdle, InFrame, Inspected,
     Recent, vars, peerVars, sizeVars
<1>2. WsInv /\ HostStops => WsInv'
  BY EndKeeps DEF HostStops, peerVars, WsInv, TypeOK, EndStates
<1>3. WsInv /\ [Next]_vars => WsInv'
  BY <1>1, <1>2, PeerKeeps, ReadKeeps, InspectKeeps, ProcessKeeps, RespondKeeps
     DEF Next, SessionStep, Progress, Ended
<1> QED
  BY WsInit, <1>3, PTL DEF Spec

-----------------------------------------------------------------------------

\* Type correctness; the count of unread bytes never runs below zero.
THEOREM SessionTypeCorrect == Spec => []TypeOK
BY WsInvariance, PTL DEF WsInv

\* A read always fits into the buffer, grown or shrunk.
THEOREM BufferNeverOverrun == Spec => []BufferHolds
<1>1. WsInv => BufferHolds
  BY SessionAssumption DEF SessionAssumption, WsInv, TypeOK, Capacity, BufferHolds
<1> QED  BY <1>1, WsInvariance, PTL

\* The buffer never has more than two quanta: the absolute limit is never met.
THEOREM BufferGrowsOnce == Spec => []GrowsOnce
<1>1. WsInv => GrowsOnce
  BY SessionAssumption DEF SessionAssumption, WsInv, Capacity, GrowsOnce
<1> QED  BY <1>1, WsInvariance, PTL

\* The application sees payloads that have been received to their last byte.
THEOREM PayloadComplete == Spec => []PayloadReceived
BY WsInvariance, PTL DEF WsInv

\* No session gets to WS_STATE_IDLE.
THEOREM IdleUnreachable == Spec => []NeverIdle
BY WsInvariance, PTL DEF WsInv
(***************************************************************************)
(* The bytes of a stream.                                                  *)
(*                                                                         *)
(* Bytes is defined by recursion on the number of frames.  Induction on it *)
(* is by the least number without the property (SetInduction), which the   *)
(* well-foundedness of < on Nat provides.                                  *)
(***************************************************************************)
LEMMA SetInduction ==
  ASSUME NEW S, 0 \in S, \A n \in Nat : n \in S => n + 1 \in S
  PROVE  Nat \subseteq S
<1> DEFINE R == OpToRel(<, Nat)
           T == Nat \ S
<1>1. IsWellFoundedOn(R, Nat)
  BY NatLessThanWellFounded
<1>2. \A x, y \in Nat : <<x, y>> \in R <=> x < y
  BY DEF OpToRel
<1> HIDE DEF R
<1>3. SUFFICES ASSUME T # {} PROVE FALSE
  OBVIOUS
<1>4. PICK x \in T : \A y \in T : ~ (<<y, x>> \in R)
  BY <1>1, <1>3, WFMin
<1>5. x \in Nat /\ x # 0 /\ x - 1 \in Nat /\ x - 1 < x
  BY <1>4
<1>6. x - 1 \in S
  BY <1>2, <1>4, <1>5
<1> QED
  BY <1>4, <1>5, <1>6

\* The sums exist ...
LEMMA SumsExist ==
  ASSUME NEW s, NEW N \in Nat
  PROVE  \E r : r = [n \in 0 .. N |-> IF n = 0 THEN 0 ELSE r[n - 1] + Size(s[n])]
<1> DEFINE Sums(m, r) ==
             r = [n \in 0 .. m |-> IF n = 0 THEN 0 ELSE r[n - 1] + Size(s[n])]
           S == {m \in Nat : \E r : Sums(m, r)}
<1>1. 0 \in S
  <2>1. Sums(0, [n \in 0 .. 0 |-> 0])
    OBVIOUS
  <2> QED
    BY <2>1
<1>2. ASSUME NEW m \in Nat, m \in S PROVE m + 1 \in S
  <2>1. PICK r : Sums(m, r)
    BY <1>2
  <2>2. \A n \in 0 .. m : r[n] = IF n = 0 THEN 0 ELSE r[n - 1] + Size(s[n])
    BY <2>1, Zenon
  <2> DEFINE q == [n \in 0 .. m + 1 |-> IF n <= m THEN r[n] ELSE r[m] + Size(s[n])]
             p == [n \in 0 .. m + 1 |-> IF n = 0 THEN 0 ELSE q[n - 1] + Size(s[n])]
  <2>3. ASSUME NEW n \in 0 .. m + 1 PROVE q[n] = p[n]
    <3>1. CASE n = 0
      BY <2>2, <3>1
    <3>2. CASE n \in 1 .. m
      <4>1. q[n] = r[n] /\ q[n - 1] = r[n - 1] /\ p[n] = q[n - 1] + Size(s[n])
        BY <3>2
      <4> QED
        BY <2>2, <3>2, <4>1
    <3>3. CASE n = m + 1
      <4>1. q[n] = r[m] + Size(s[n]) /\ q[n - 1] = r[m] /\ p[n] = q[n - 1] + Size(s[n])
        BY <3>3
      <4> QED
        BY <4>1
    <3> QED
      BY <3>1, <3>2, <3>3
  <2>4. q = [n \in 0 .. m + 1 |-> q[n]] /\ p = [n \in 0 .. m + 1 |-> p[n]]
    OBVIOUS
  <2> HIDE DEF q, p
  <2>5. q = p
    BY <2>3, <2>4
  <2>6. Sums(m + 1, q)
    BY <2>5 DEF p
  <2> HIDE DEF Sums
  <2> QED
    BY <2>6
<1> HIDE DEF S
<1>3. N \in S
  BY <1>1, <1>2, SetInduction
<1> QED
  BY <1>3 DEF S

\* ... and Bytes is the last of them.
Adds(s, N, r) == \A n \in 1 .. N : r[n] = r[n - 1] + Size(s[n])

LEMMA BytesBySums ==
  ASSUME NEW s, Len(s) \in Nat
  PROVE  \E r : r[0] = 0 /\ Adds(s, Len(s), r) /\ Bytes(s) = r[Len(s)]
<1> DEFINE N == Len(s)
           r == CHOOSE r : r = [n \in 0 .. N |-> IF n = 0 THEN 0 ELSE r[n - 1] + Size(s[n])]
<1>1. Bytes(s) = r[N]
  BY DEF Bytes
<1>2. r = [n \in 0 .. N |-> IF n = 0 THEN 0 ELSE r[n - 1] + Size(s[n])]
  <2>1. \E q : q = [n \in 0 .. N |-> IF n = 0 THEN 0 ELSE q[n - 1] + Size(s[n])]
    BY SumsExist
  <2> QED
    BY <2>1
<1> HIDE DEF r
<1>3. \A n \in 0 .. N : r[n] = IF n = 0 THEN 0 ELSE r[n - 1] + Size(s[n])
  BY <1>2, Zenon
<1>4. r[0] = 0 /\ Adds(s, N, r)
  BY <1>3 DEF Adds
<1> QED
  BY <1>1, <1>4

LEMMA SizeIsNat == \A f \in Frames : Size(f) \in Nat /\ Size(f) >= BaseHeader
BY SessionAssumption DEF SessionAssumption, FrameType, Size, BaseHeader

\* Two functions that add the same sizes differ by what they start with.
LEMMA SumsAgree ==
  ASSUME NEW s \in Seq(Frames), NEW N \in 0 .. Len(s), NEW r, NEW q,
         r[0] \in Nat, q[0] \in Nat, Adds(s, N, r), Adds(s, N, q)
  PROVE  \A n \in 0 .. N : r[n] \in Nat /\ q[n] \in Nat /\ q[n] + r[0] = r[n] + q[0]
<1> DEFINE Holds(n) == r[n] \in Nat /\ q[n] \in Nat /\ q[n] + r[0] = r[n] + q[0]
           S == {n \in Nat : n <= N => Holds(n)}
<1>1. 0 \in S
  OBVIOUS
<1>2. ASSUME NEW m \in Nat, m \in S PROVE m + 1 \in S
  <2> SUFFICES ASSUME m + 1 <= N PROVE Holds(m + 1)
    OBVIOUS
  <2>1. Holds(m)
    BY <1>2
  <2>2. s[m + 1] \in Frames
    OBVIOUS
  <2>3. Size(s[m + 1]) \in Nat
    BY <2>2, SizeIsNat
  <2>4. r[m + 1] = r[m] + Size(s[m + 1]) /\ q[m + 1] = q[m] + Size(s[m + 1])
    <3>1. m + 1 \in 1 .. N /\ (m + 1) - 1 = m
      OBVIOUS
    <3> QED
      BY <3>1 DEF Adds
  <2>5. \A a, b, c, d, e \in Nat : b + c = a + d => (b + e) + c = (a + e) + d
    OBVIOUS
  <2>6. (q[m] + Size(s[m + 1])) + r[0] = (r[m] + Size(s[m + 1])) + q[0]
    BY <2>1, <2>3, <2>5
  <2> QED
    BY <2>1, <2>3, <2>4, <2>6
<1> HIDE DEF S
<1>3. \A n \in Nat : n \in S
  BY <1>1, <1>2, SetInduction
<1> QED
  BY <1>3 DEF S

LEMMA BytesEmpty == Bytes(<<>>) = 0
<1>1. Len(<<>>) = 0
  OBVIOUS
<1> QED
  BY <1>1, BytesBySums

LEMMA BytesNat == ASSUME NEW s \in Seq(Frames) PROVE Bytes(s) \in Nat
<1>1. PICK r : r[0] = 0 /\ Adds(s, Len(s), r) /\ Bytes(s) = r[Len(s)]
  BY BytesBySums
<1>2. \A n \in 0 .. Len(s) : r[n] \in Nat
  BY <1>1, SumsAgree
<1> QED
  BY <1>1, <1>2

\* A frame more is its size more.
LEMMA BytesAppend ==
  ASSUME NEW s \in Seq(Frames), NEW f \in Frames
  PROVE  Bytes(Append(s, f)) = Bytes(s) + Size(f)
<1> DEFINE t == Append(s, f)
<1>1. t \in Seq(Frames) /\ Len(t) = Len(s) + 1 /\ t[Len(t)] = f
      /\ \A n \in 1 .. Len(s) : t[n] = s[n]
  OBVIOUS
<1> HIDE DEF t
<1>2. PICK r : r[0] = 0 /\ Adds(s, Len(s), r) /\ Bytes(s) = r[Len(s)]
  BY BytesBySums
<1>3. PICK q : q[0] = 0 /\ Adds(t, Len(t), q) /\ Bytes(t) = q[Len(t)]
  BY <1>1, BytesBySums
<1>4. Adds(s, Len(s), q)
  BY <1>1, <1>3 DEF Adds
<1>5. q[Len(s)] = r[Len(s)]
  <2>1. \A n \in 0 .. Len(s) : r[n] \in Nat /\ q[n] \in Nat /\ q[n] + r[0] = r[n] + q[0]
    BY <1>2, <1>3, <1>4, SumsAgree
  <2>2. Len(s) \in 0 .. Len(s)
    OBVIOUS
  <2>3. r[Len(s)] \in Nat /\ q[Len(s)] \in Nat /\ q[Len(s)] + 0 = r[Len(s)] + 0
    BY <1>2, <1>3, <2>1, <2>2
  <2> QED
    BY <2>3
<1>6. q[Len(t)] = q[Len(s)] + Size(f)
  BY <1>1, <1>3 DEF Adds
<1> QED
  BY <1>2, <1>3, <1>5, <1>6 DEF t

\* The first frame gone is its size less.
LEMMA BytesTail ==
  ASSUME NEW s \in Seq(Frames), s # <<>>
  PROVE  Bytes(s) = Size(Head(s)) + Bytes(Tail(s))
<1> DEFINE t == Tail(s)
<1>1. t \in Seq(Frames) /\ Len(s) = Len(t) + 1 /\ Len(t) \in Nat /\ Head(s) \in Frames
      /\ Head(s) = s[1] /\ \A n \in 1 .. Len(t) : t[n] = s[n + 1]
  OBVIOUS
<1> HIDE DEF t
<1>2. PICK r : r[0] = 0 /\ Adds(t, Len(t), r) /\ Bytes(t) = r[Len(t)]
  BY <1>1, BytesBySums
<1>3. PICK q : q[0] = 0 /\ Adds(s, Len(s), q) /\ Bytes(s) = q[Len(s)]
  BY BytesBySums
<1> DEFINE p == [n \in 0 .. Len(t) |-> q[n + 1]]
<1>4. Size(Head(s)) \in Nat /\ q[1] = Size(Head(s))
  BY <1>1, <1>3, SizeIsNat DEF Adds
<1>5. Adds(t, Len(t), p)
  <2> SUFFICES ASSUME NEW n \in 1 .. Len(t) PROVE p[n] = p[n - 1] + Size(t[n])
    BY DEF Adds
  <2>1. p[n] = q[n + 1] /\ p[n - 1] = q[n]
    BY <1>1
  <2>2. n + 1 \in 1 .. Len(s) /\ (n + 1) - 1 = n
    BY <1>1
  <2>3. q[n + 1] = q[n] + Size(s[n + 1])
    BY <1>3, <2>2 DEF Adds
  <2> QED
    BY <1>1, <2>1, <2>3
<1>6. p[0] = q[1] /\ p[Len(t)] = q[Len(s)]
  BY <1>1
<1> HIDE DEF p
<1>7. p[Len(t)] = r[Len(t)] + Size(Head(s))
  <2>1. \A n \in 0 .. Len(t) : r[n] \in Nat /\ p[n] \in Nat /\ p[n] + r[0] = r[n] + p[0]
    BY <1>1, <1>2, <1>4, <1>5, <1>6, SumsAgree
  <2> QED
    BY <1>1, <1>2, <1>4, <1>6, <2>1
<1>8. Bytes(t) \in Nat
  BY <1>1, BytesNat
<1> QED
  BY <1>2, <1>3, <1>4, <1>6, <1>7, <1>8 DEF t

(***************************************************************************)
(* No byte is lost.                                                        *)
(***************************************************************************)
\* The frame that the application is given is still the first one.
HeaderIsFirst ==
  state \in {"MASK_AND_DECODE", "PROCESS_FRAME", "SEND_RESPONSE"} =>
    hdr.mask_offset + hdr.mask_size + hdr.payload_len = Size(Head(wire))

BytesInv == WsInv /\ HeaderIsFirst /\ NoByteLost

\* What the invariant says of numbers.
LEMMA BytesTyped ==
  WsInv => /\ frame_offset \in Nat /\ avail \in Nat /\ wire \in Seq(Frames)
           /\ Bytes(wire) \in Nat /\ closed \in BOOLEAN
           /\ \A f \in Frames : Size(f) \in Nat
<1> SUFFICES ASSUME WsInv
             PROVE  /\ frame_offset \in Nat /\ avail \in Nat /\ wire \in Seq(Frames)
                    /\ Bytes(wire) \in Nat /\ closed \in BOOLEAN
                    /\ \A f \in Frames : Size(f) \in Nat
  OBVIOUS
<1>1. frame_offset \in Nat /\ avail \in Nat /\ wire \in Seq(Frames) /\ closed \in BOOLEAN
  BY SessionAssumption DEF SessionAssumption, WsInv, TypeOK
<1> QED
  BY <1>1, BytesNat, SizeIsNat

LEMMA SendCounts ==
  ASSUME BytesInv, NEW f \in Frames, Send(f)
  PROVE  HeaderIsFirst' /\ NoByteLost'
<1>1. wire' = Append(wire, f) /\ avail' = avail + Size(f) /\ ~closed
      /\ UNCHANGED <<closed, state, frame_offset, hdr>>
  BY DEF Send
<1>2. NoByteLost'
  <2>1. Bytes(wire') = Bytes(wire) + Size(f)
    BY <1>1, BytesTyped, BytesAppend DEF BytesInv
  <2> QED
    BY <1>1, <2>1, BytesTyped DEF BytesInv, NoByteLost, Unhandled
<1>3. HeaderIsFirst'
  <2>1. wire # <<>> => Head(wire') = Head(wire)
    BY <1>1, BytesTyped DEF BytesInv
  <2> QED
    BY <1>1, <2>1 DEF BytesInv, WsInv, InFrame, HeaderIsFirst
<1> QED
  BY <1>2, <1>3

LEMMA CloseCounts ==
  ASSUME BytesInv, PeerClose
  PROVE  HeaderIsFirst' /\ NoByteLost'
<1>1. avail' \in 0 .. avail /\ ~closed /\ closed' /\ UNCHANGED <<wire, state, frame_offset, hdr>>
  BY DEF PeerClose
<1>2. NoByteLost'
  BY <1>1, BytesTyped DEF BytesInv, NoByteLost, Unhandled
<1> QED
  BY <1>1, <1>2 DEF BytesInv, HeaderIsFirst

\* A step that moves bytes from the socket into the buffer, or none.
LEMMA MovedCounts ==
  ASSUME NoByteLost, UNCHANGED <<wire, closed>>,
         frame_offset' + avail' = frame_offset + avail
  PROVE  NoByteLost'
BY DEF NoByteLost, Unhandled

\* A step that takes the first frame out of the buffer.
LEMMA HandledCounts ==
  ASSUME BytesInv, NEW h \in HeaderType, Handled(h), wire # <<>>,
         h.mask_offset + h.mask_size + h.payload_len = Size(Head(wire))
  PROVE  HeaderIsFirst' /\ NoByteLost'
<1>1. h.mask_offset \in Nat /\ h.mask_size \in Nat /\ h.payload_len \in Nat
  BY DEF HeaderType
<1>2. frame_offset' = frame_offset - Size(Head(wire)) /\ wire' = Tail(wire)
      /\ UNCHANGED <<avail, closed>> /\ state' \in {"BUFFER_INSPECT", "READ_HEADER"}
  <2>1. h.mask_offset + h.payload_len + h.mask_size = Size(Head(wire))
    BY <1>1
  <2> QED
    BY <2>1 DEF Handled
<1>3. Bytes(wire) = Size(Head(wire)) + Bytes(wire')
  BY <1>2, BytesTyped, BytesTail DEF BytesInv
<1>4. Head(wire) \in Frames /\ wire' \in Seq(Frames)
  BY <1>2, BytesTyped DEF BytesInv
<1>5. Size(Head(wire)) \in Nat /\ Bytes(wire') \in Nat
  BY <1>4, BytesTyped, BytesNat DEF BytesInv
<1>6. NoByteLost'
  <2>1. frame_offset \in Nat /\ avail \in Nat /\ closed \in BOOLEAN
    BY BytesTyped DEF BytesInv
  <2>2. \A o, a, z, b \in Nat : /\ o + a = z + b => (o - z) + a = b
                              /\ o + a <= z + b => (o - z) + a <= b
    OBVIOUS
  <2>3. CASE closed
    BY <1>2, <1>3, <1>5, <2>1, <2>2, <2>3 DEF BytesInv, NoByteLost, Unhandled
  <2>4. CASE ~closed
    BY <1>2, <1>3, <1>5, <2>1, <2>2, <2>4 DEF BytesInv, NoByteLost, Unhandled
  <2> QED
    BY <2>3, <2>4
<1> QED
  BY <1>2, <1>6 DEF HeaderIsFirst

LEMMA SessionCounts ==
  ASSUME BytesInv, SessionStep
  PROVE  HeaderIsFirst' /\ NoByteLost'
<1> USE DEF BytesInv
<1>0. TypeOK /\ hdr \in HeaderType
  BY DEF WsInv, TypeOK
<1>1. CASE GrowFails \/ InspectFails \/ ReadFails \/ ReadEnd
  <2>1. UNCHANGED <<wire, closed, frame_offset, avail>> /\ state' \in EndStates
    BY <1>1 DEF GrowFails, InspectFails, ReadFails, ReadEnd, Reading, peerVars, EndStates
  <2> QED
    BY <2>1, MovedCounts DEF HeaderIsFirst, EndStates
<1>2. CASE ReadSome
  <2>1. PICK n \in 1 .. avail : frame_offset' = frame_offset + n /\ avail' = avail - n
    BY <1>2 DEF ReadSome
  <2>2. frame_offset' + avail' = frame_offset + avail
    BY <2>1, BytesTyped
  <2>3. UNCHANGED <<wire, closed>> /\ state' = "BUFFER_INSPECT"
    BY <1>2 DEF ReadSome, Reading
  <2> QED
    BY <2>2, <2>3, MovedCounts DEF HeaderIsFirst
<1>3. CASE ReadNothing
  <2>1. UNCHANGED <<wire, closed, frame_offset, avail>> /\ state' = "READ_HEADER"
    BY <1>3 DEF ReadNothing, Reading
  <2> QED
    BY <2>1, MovedCounts DEF HeaderIsFirst
<1>4. CASE InspectMore
  <2>1. UNCHANGED <<wire, closed, frame_offset, avail>> /\ state' \in {"IDLE", "READ_HEADER"}
    BY <1>4 DEF InspectMore, peerVars
  <2> QED
    BY <2>1, MovedCounts DEF HeaderIsFirst
<1>5. CASE InspectData
  <2>1. UNCHANGED <<wire, closed, frame_offset, avail>>
    BY <1>5 DEF InspectData, peerVars
  <2>2. hdr'.mask_offset + hdr'.mask_size + hdr'.payload_len = Size(Head(wire))
    BY <1>0, <1>5, CompleteParsed DEF InspectData, Frame
  <2> QED
    BY <2>1, <2>2, MovedCounts DEF HeaderIsFirst
<1>6. CASE InspectControl
  <2>1. /\ wire # <<>> /\ hdr' \in HeaderType /\ Handled(hdr')
        /\ hdr'.mask_offset + hdr'.mask_size + hdr'.payload_len = Size(Head(wire))
    BY <1>0, <1>6, CompleteParsed DEF InspectControl, Frame
  <2> QED
    BY <2>1, HandledCounts
<1>7. CASE MaskAndDecode \/ ProcessDone
  <2>1. /\ UNCHANGED <<wire, closed, frame_offset, avail, hdr>>
        /\ state \in {"MASK_AND_DECODE", "PROCESS_FRAME"}
    BY <1>7 DEF MaskAndDecode, ProcessDone, peerVars
  <2> QED
    BY <2>1, MovedCounts DEF HeaderIsFirst
<1>8. CASE ProcessQuit \/ RespondFrees
  <2>1. UNCHANGED <<wire, closed, frame_offset, avail>> /\ state' \in {"DONE", "FREED"}
    BY <1>8 DEF ProcessQuit, RespondFrees, peerVars
  <2> QED
    BY <2>1, MovedCounts DEF HeaderIsFirst
<1>9. CASE ProcessUnknown \/ Respond
  <2>1. state \in {"PROCESS_FRAME", "SEND_RESPONSE"} /\ Handled(hdr)
    BY <1>9 DEF ProcessUnknown, Respond
  <2>2. wire # <<>> /\ hdr.mask_offset + hdr.mask_size + hdr.payload_len = Size(Head(wire))
    BY <2>1 DEF WsInv, InFrame, HeaderIsFirst
  <2> QED
    BY <1>0, <2>1, <2>2, HandledCounts
<1> QED
  BY <1>1, <1>2, <1>3, <1>4, <1>5, <1>6, <1>7, <1>8, <1>9 DEF SessionStep, Progress

LEMMA BytesInvariance == Spec => []BytesInv
<1>1. Init => HeaderIsFirst /\ NoByteLost
  BY BytesEmpty DEF Init, HeaderIsFirst, NoByteLost, Unhandled
<1>2. BytesInv /\ [Next]_vars => HeaderIsFirst' /\ NoByteLost'
  <2> SUFFICES ASSUME BytesInv, [Next]_vars PROVE HeaderIsFirst' /\ NoByteLost'
    OBVIOUS
  <2>1. CASE (\E f \in Frames : Send(f)) \/ PeerClose \/ SessionStep
    BY <2>1, SendCounts, CloseCounts, SessionCounts
  <2>2. CASE HostStops
    <3>1. UNCHANGED <<wire, closed, frame_offset, avail>> /\ state' = "STOPPED"
      BY <2>2 DEF HostStops, peerVars
    <3> QED
      BY <3>1, MovedCounts DEF BytesInv, HeaderIsFirst
  <2>3. CASE UNCHANGED vars
    <3>1. UNCHANGED <<wire, closed, frame_offset, avail, state, hdr>>
      BY <2>3 DEF vars, peerVars
    <3> QED
      BY <3>1, MovedCounts DEF BytesInv, HeaderIsFirst
  <2> QED
    BY <2>1, <2>2, <2>3 DEF Next, Ended
<1> QED
  BY <1>1, <1>2, WsInvariance, PTL DEF Spec, BytesInv

\* The buffer begins with the first frame that has not been handled, for frames
\* of all sizes and however the stream is cut into reads: what is in the buffer
\* and what is still in the socket are together the frames that were sent and not
\* handled, or, when the peer has gone, not more.
THEOREM StreamComplete == Spec => []NoByteLost
<1>1. BytesInv => NoByteLost
  BY DEF BytesInv
<1> QED
  BY <1>1, BytesInvariance, PTL

=============================================================================
