----------------------------- MODULE WsSession -----------------------------
(***************************************************************************)
(* One WebSocket session of the server: the state machine ws_state_step of *)
(* src/src/plugin_ws/ws.c and the buffer it reads the peer's frames into.  *)
(*                                                                         *)
(* The peer's stream is the sequence `wire` of frames that the session has *)
(* not handled yet.  frame_offset bytes of it are in the buffer, from the  *)
(* first byte of the first frame on; avail more will come out of the       *)
(* socket, in pieces of any size.  What is in a frame matters by its sizes *)
(* and its opcode; unmasking and the echo of the payload are left out.     *)
(*                                                                         *)
(* The state WS_STATE_IDLE has no action: NeverIdle shows that no session  *)
(* gets there.                                                             *)
(***************************************************************************)
EXTENDS Integers, Sequences

CONSTANTS
  BUF_SIZE,          \* the quantum of the buffer and the limit of a read
  GROW_MARGIN,       \* WS_FRAME_GROW_MARGIN
  SHRINK_THRESHOLD,  \* WS_FRAME_SHRINK_THRESHOLD
  ABSOLUTE_MAX,      \* WS_FRAME_ABSOLUTE_MAX_BUF_LENGTH
  EXT16, EXT64,      \* bytes of the two extended lengths: 2 and 8
  BYTE,              \* values of a byte: 256
  Frames,            \* the frames a peer may send
  MaxWire            \* bound of the model: frames under way

\* A frame: opcode ("close" is 8; 3 is among the reserved ones), FIN bit, length
\* of the extended payload length, of the mask (0 or 4) and of the payload.
OpCodes == {"text", "binary", "cont", "close", "ping", "pong", "reserved"}
FrameType == [op : OpCodes, fin : BOOLEAN, ext : {0, EXT16, EXT64}, mask : Nat, len : Nat]

ASSUME SessionAssumption ==
  /\ BUF_SIZE \in Nat \ {0} /\ GROW_MARGIN \in 0 .. BUF_SIZE
  /\ SHRINK_THRESHOLD \in Nat \ {0}
  /\ ABSOLUTE_MAX \in Nat /\ ABSOLUTE_MAX >= 2 * BUF_SIZE
  /\ EXT16 \in Nat \ {0} /\ EXT64 \in Nat \ {0} /\ EXT16 # EXT64
  /\ BYTE \in Nat \ {0} /\ BYTE * BYTE - BYTE >= BUF_SIZE
  /\ Frames \subseteq FrameType
  /\ \A f \in Frames : f.ext = EXT16 => f.len < BYTE * BYTE
  /\ MaxWire \in Nat \ {0}

BaseHeader == 2
Size(f) == BaseHeader + f.ext + f.mask + f.len

VARIABLES
  wire, avail,
  closed,            \* the peer has closed the connection
  state,
  frame_offset,
  hdr,               \* opcode, mask_offset, mask_size and payload_len
  fragmented,
  frame_capacity, frame_shrink_count, recent_max_payload_len

peerVars == <<wire, avail, closed>>
sizeVars == <<frame_capacity, frame_shrink_count, recent_max_payload_len>>
vars == <<peerVars, state, frame_offset, hdr, fragmented, sizeVars>>

\* STOPPED: the plugin's TERMINATE event ends the loop between two steps.
\* FREED: the session runs on without its buffer.
EndStates == {"DONE", "ERROR", "STOPPED", "FREED"}
States == {"READ_HEADER", "BUFFER_INSPECT", "MASK_AND_DECODE", "PROCESS_FRAME",
           "SEND_RESPONSE", "IDLE"} \cup EndStates
Live == state \notin EndStates

HeaderType == [op : OpCodes, mask_offset : Nat, mask_size : Nat, payload_len : Nat]

TypeOK ==
  /\ wire \in Seq(Frames) /\ Len(wire) <= MaxWire
  /\ avail \in Nat /\ closed \in BOOLEAN
  /\ state \in States
  /\ frame_offset \in 0 .. BUF_SIZE
  /\ hdr \in HeaderType
  /\ fragmented \in BOOLEAN
  /\ frame_capacity \in Nat
  /\ frame_shrink_count \in 0 .. SHRINK_THRESHOLD - 1
  /\ recent_max_payload_len \in Nat

Init ==
  /\ wire = <<>> /\ avail = 0 /\ closed = FALSE
  /\ state = "READ_HEADER" /\ frame_offset = 0
  /\ hdr = [op |-> "cont", mask_offset |-> 0, mask_size |-> 0, payload_len |-> 0]
  /\ fragmented = FALSE
  /\ frame_capacity = BUF_SIZE
  /\ frame_shrink_count = 0 /\ recent_max_payload_len = 0

-----------------------------------------------------------------------------
(* The peer *)

Send(f) ==
  /\ Live /\ ~closed /\ Len(wire) < MaxWire
  /\ wire' = Append(wire, f)
  /\ avail' = avail + Size(f)
  /\ UNCHANGED <<closed, state, frame_offset, hdr, fragmented, sizeVars>>

\* The peer goes away, perhaps in the middle of a frame.
PeerClose ==
  /\ Live /\ ~closed
  /\ closed' = TRUE
  /\ avail' \in 0 .. avail
  /\ UNCHANGED <<wire, state, frame_offset, hdr, fragmented, sizeVars>>

-----------------------------------------------------------------------------
(* WS_STATE_READ_HEADER: make room, then read *)

NeedToGrow == frame_offset + GROW_MARGIN > frame_capacity

Grow ==
  IF NeedToGrow
  THEN /\ frame_capacity' = frame_capacity + BUF_SIZE
       /\ frame_shrink_count' = 0 /\ recent_max_payload_len' = 0
  ELSE UNCHANGED sizeVars

\* The limit, or no memory.
GrowFails ==
  /\ state = "READ_HEADER" /\ NeedToGrow
  /\ state' = "ERROR"
  /\ UNCHANGED <<peerVars, frame_offset, hdr, fragmented, sizeVars>>

\* What read() is asked for: not what the buffer has room for.
Room == BUF_SIZE - frame_offset

Reading ==
  /\ state = "READ_HEADER"
  /\ NeedToGrow => frame_capacity + BUF_SIZE <= ABSOLUTE_MAX
  /\ Grow
  /\ UNCHANGED <<wire, closed, hdr, fragmented>>

ReadSome ==
  /\ Reading
  /\ \E n \in 1 .. avail :
       /\ n <= Room
       /\ frame_offset' = frame_offset + n
       /\ avail' = avail - n
  /\ state' = "BUFFER_INSPECT"

\* EAGAIN: sleep and try again.
ReadNothing ==
  /\ Reading /\ Room > 0
  /\ UNCHANGED <<avail, state, frame_offset>>

\* read() returns 0 at the end of the stream, and when it is asked for
\* nothing: in both cases "closed by peer".
ReadEnd ==
  /\ Reading
  /\ Room = 0 \/ (closed /\ avail = 0)
  /\ state' = "DONE"
  /\ UNCHANGED <<avail, frame_offset>>

ReadFails ==
  /\ Reading
  /\ state' = "ERROR"
  /\ UNCHANGED <<avail, frame_offset>>

-----------------------------------------------------------------------------
(* WS_STATE_BUFFER_INSPECT: ws_parse_header on the first frame *)

Frame == Head(wire)

\* (Bytes in the buffer are those of a frame on the wire: see NoByteLost.)
BaseKnown == wire # <<>> /\ frame_offset >= BaseHeader

LengthKnown ==
  /\ BaseKnown
  /\ Frame.ext > 0 => frame_offset >= BaseHeader + Frame.ext + Frame.mask

\* The two bytes of a length are signed chars (the build is for x86): when the
\* low one has its highest bit set, its sign takes the place of the high one.
\* The eight bytes of the other extended length are read as unsigned.
LengthRead(f) ==
  LET low == f.len % BYTE
  IN  IF f.ext = EXT16 /\ 2 * low >= BYTE THEN BYTE * BYTE - BYTE + low ELSE f.len

\* frame_len
FrameLen(f) == BaseHeader + f.ext + f.mask + LengthRead(f)

CompleteAtHeader == LengthKnown

Complete == LengthKnown /\ frame_offset >= FrameLen(Frame)

Unexpected ==
  /\ BaseKnown
  /\ \/ Frame.op = "reserved"
     \/ LengthKnown /\ Frame.ext = EXT64 /\ Frame.len > ABSOLUTE_MAX
     \/ Complete /\ Frame.op = "cont" /\ ~fragmented

\* opcode and mask_size are set by the first two bytes, the other two when
\* the extended length has come as well.
ParseHeader ==
  hdr' = IF ~BaseKnown THEN hdr
         ELSE [op |-> Frame.op, mask_size |-> Frame.mask,
               mask_offset |-> IF LengthKnown THEN BaseHeader + Frame.ext
                               ELSE hdr.mask_offset,
               payload_len |-> IF LengthKnown THEN LengthRead(Frame) ELSE hdr.payload_len]

\* In an ended session nobody looks at the header.
InspectFails ==
  /\ state = "BUFFER_INSPECT" /\ Unexpected
  /\ state' = "ERROR"
  /\ UNCHANGED <<peerVars, frame_offset, hdr, fragmented, sizeVars>>

InspectAgain ==
  /\ state = "BUFFER_INSPECT" /\ ~Unexpected /\ ~Complete
  /\ ParseHeader
  /\ UNCHANGED <<peerVars, state, frame_offset, fragmented, sizeVars>>

InspectMore ==
  /\ state = "BUFFER_INSPECT" /\ ~Unexpected /\ ~Complete
  /\ ParseHeader
  /\ state' = IF frame_offset < 1 THEN "IDLE" ELSE "READ_HEADER"
  /\ UNCHANGED <<peerVars, frame_offset, fragmented, sizeVars>>

\* A whole frame: only text, binary and continuation frames go on to the
\* application.
InspectData ==
  /\ state = "BUFFER_INSPECT" /\ ~Unexpected /\ Complete
  /\ Frame.op \in {"text", "binary", "cont"}
  /\ ParseHeader
  /\ fragmented' = (IF Frame.op = "cont" THEN fragmented ELSE ~Frame.fin)
  /\ state' = "MASK_AND_DECODE"
  /\ UNCHANGED <<peerVars, frame_offset, sizeVars>>

\* ws_check_frame_unprocessed: the bytes behind the frame h become the
\* beginning of the buffer.
HandledToEnd(h) ==
  /\ frame_offset' = frame_offset - (h.mask_offset + h.payload_len + h.mask_size)
  /\ state' = "BUFFER_INSPECT"
  /\ wire' = Tail(wire)
  /\ UNCHANGED <<avail, closed>>

HandledNoMask(h) ==
  /\ frame_offset' = frame_offset - (h.mask_offset + h.payload_len)
  /\ state' = IF frame_offset' > 0 THEN "BUFFER_INSPECT" ELSE "READ_HEADER"
  /\ wire' = Tail(wire)
  /\ UNCHANGED <<avail, closed>>

Handled(h) ==
  /\ frame_offset' = frame_offset - (h.mask_offset + h.payload_len + h.mask_size)
  /\ state' = IF frame_offset' > 0 THEN "BUFFER_INSPECT" ELSE "READ_HEADER"
  /\ wire' = Tail(wire)
  /\ UNCHANGED <<avail, closed>>

\* Ping and pong, and what the code takes for an unsupported frame: the close
\* frame of the protocol.  (WS_OP_CONNECTION_CLOSE is 3, which the mask of the
\* reserved opcodes holds as well: its branch is never taken.)
InspectControl ==
  /\ state = "BUFFER_INSPECT" /\ ~Unexpected /\ Complete
  /\ Frame.op \in {"ping", "pong", "close"}
  /\ ParseHeader
  /\ fragmented' = FALSE
  /\ Handled(hdr')
  /\ UNCHANGED sizeVars

-----------------------------------------------------------------------------
(* The frame of the application *)

\* ws_check_frame_max; the mask is taken off.
MaskAndDecode ==
  /\ state = "MASK_AND_DECODE"
  /\ recent_max_payload_len' =
       IF frame_shrink_count > 0 /\ hdr.payload_len > recent_max_payload_len
       THEN hdr.payload_len ELSE recent_max_payload_len
  /\ state' = "PROCESS_FRAME"
  /\ UNCHANGED <<peerVars, frame_offset, hdr, fragmented, frame_capacity,
                 frame_shrink_count>>

\* The handler of text frames answers CR_ERROR or CR_UNKNOWN; continuation
\* frames have no handler.
ProcessUnknown ==
  /\ state = "PROCESS_FRAME" /\ hdr.op # "binary"
  /\ Handled(hdr)
  /\ UNCHANGED <<hdr, fragmented, sizeVars>>

ProcessQuit ==
  /\ state = "PROCESS_FRAME" /\ hdr.op = "text"
  /\ state' = "DONE"
  /\ UNCHANGED <<peerVars, frame_offset, hdr, fragmented, sizeVars>>

\* CR_PROCESSED: always for binary frames.
ProcessDone ==
  /\ state = "PROCESS_FRAME" /\ hdr.op \in {"text", "binary"}
  /\ state' = "SEND_RESPONSE"
  /\ UNCHANGED <<peerVars, frame_offset, hdr, fragmented, sizeVars>>

\* recent_max_payload_len, rounded up to the quantum.
TargetExact == recent_max_payload_len

Target == ((recent_max_payload_len + BUF_SIZE - 1) \div BUF_SIZE) * BUF_SIZE

Idles == frame_capacity > BUF_SIZE /\ hdr.payload_len < frame_capacity - BUF_SIZE

Shrinks == Idles /\ frame_shrink_count + 1 >= SHRINK_THRESHOLD
                 /\ Target < frame_capacity

\* SEND_RESPONSE with ws_check_frame_need_to_shrink.  The smaller buffer may
\* be refused; the error state is overwritten.
Respond ==
  /\ state = "SEND_RESPONSE" /\ ~(Shrinks /\ Target = 0)
  /\ frame_shrink_count' =
       IF Idles /\ frame_shrink_count + 1 < SHRINK_THRESHOLD
       THEN frame_shrink_count + 1 ELSE 0
  /\ frame_capacity' \in {frame_capacity} \cup (IF Shrinks THEN {Target} ELSE {})
  /\ Handled(hdr)
  /\ UNCHANGED <<hdr, fragmented, recent_max_payload_len>>

\* realloc to nothing frees the buffer and the session goes on with it: what
\* follows is undefined and not modelled.
RespondFrees ==
  /\ state = "SEND_RESPONSE" /\ Shrinks /\ Target = 0
  /\ state' = "FREED"
  /\ UNCHANGED <<peerVars, frame_offset, hdr, fragmented, sizeVars>>

\* g_keep_running = 0.
HostStops ==
  /\ Live
  /\ state' = "STOPPED"
  /\ UNCHANGED <<peerVars, frame_offset, hdr, fragmented, sizeVars>>

Ended == ~Live /\ UNCHANGED vars

-----------------------------------------------------------------------------

Progress ==
  \/ GrowFails \/ ReadSome \/ ReadNothing \/ ReadEnd
  \/ InspectFails \/ InspectMore \/ InspectData \/ InspectControl
  \/ MaskAndDecode \/ ProcessUnknown \/ ProcessQuit \/ ProcessDone
  \/ Respond \/ RespondFrees

SessionStep == Progress \/ ReadFails

Next == (\E f \in Frames : Send(f)) \/ PeerClose \/ SessionStep \/ HostStops \/ Ended

Spec == Init /\ [][Next]_vars

\* The thread of the session runs and the network delivers: a step that finds
\* no bytes is followed by one that does.  No read has to fail.
FairSpec == Spec /\ WF_vars(Progress)

-----------------------------------------------------------------------------
(* Properties *)

\* A read never goes past the end of the buffer, whatever the buffer has
\* shrunk to: the bytes there are fit, and so would all a read may add.
BufferHolds == Live => frame_offset <= frame_capacity /\ BUF_SIZE <= frame_capacity

\* The buffer grows once and no further, so that the limit of 32 Mbyte
\* (WS_FRAME_ABSOLUTE_MAX_BUF_LENGTH) is never met while it grows.
GrowsOnce == frame_capacity <= 2 * BUF_SIZE

\* When a frame is decoded, processed and answered all of it is in the buffer.
PayloadReceived ==
  state \in {"MASK_AND_DECODE", "PROCESS_FRAME", "SEND_RESPONSE"} =>
    hdr.mask_offset + hdr.mask_size + hdr.payload_len <= frame_offset

\* The buffer begins with the first frame that has not been handled, however
\* the stream was cut into reads: no byte is lost, none is seen twice.
Bytes(frames) ==
  LET upTo[n \in 0 .. Len(frames)] ==
        IF n = 0 THEN 0 ELSE upTo[n - 1] + Size(frames[n])
  IN  upTo[Len(frames)]
Unhandled == Bytes(wire)
NoByteLost ==
  IF closed THEN frame_offset + avail <= Unhandled
  ELSE frame_offset + avail = Unhandled

\* WS_STATE_IDLE, the only state that answers a ping, sends one, and gives
\* memory back after a quiet minute, is never entered.
NeverIdle == state # "IDLE"

\* A session does not stop at a frame that fits into BUF_SIZE, when its length is
\* read as it was sent: it handles frame after frame, until there is none, or
\* ends.  (For one with a length that is misread it waits until the buffer is
\* full.)
Fits(f) == LengthRead(f) = f.len /\ Size(f) <= BUF_SIZE
FramesHandled ==
  \/ []<>(~Live \/ wire = <<>> \/ ~Fits(Head(wire)))
  \/ []<><<Len(wire') < Len(wire)>>_wire

=============================================================================
