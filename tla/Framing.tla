------------------------------ MODULE Framing -------------------------------
(***************************************************************************)
(* One receiving TcpClient object, server or client side: the byte stream  *)
(* its peer writes, the buffer data/data_readed/data_needed/data_allocated *)
(* that on_segment keeps, and the frames it hands to handle_packet.        *)
(*                                                                         *)
(* Bytes are abstracted to their position in the peer's stream. A frame is *)
(* a HeaderLen-byte length followed by its payload, and it is named by     *)
(* where its payload starts and how long it is, so that handing over the   *)
(* bytes of another place in the stream is handing over another frame.     *)
(* data[0 .. data_readed) is the stretch of the stream from position base. *)
(***************************************************************************)
EXTENDS Integers, Sequences

CONSTANTS
    HeaderLen,      \* sizeof(uint32_t)
    BufferStart,    \* BUFFER_START_SIZE
    MaxSegment,     \* the largest nread of one read callback
    PayloadSizes,   \* the sizes of serialised packets
    Garbage,        \* what four bytes that are no header decode to
    ReallocMayFail, \* realloc may return NULL
    Window,         \* frames a peer writes ahead of what was handed over
    MaxFrames,      \* bound: frames on one connection
    MaxConnections  \* bound: connections one object serves

ASSUME SizesAssumption ==
    /\ HeaderLen \in Nat \ {0}
    /\ BufferStart \in Nat \ {0}
    /\ MaxSegment \in Nat \ {0}
    /\ PayloadSizes \subseteq Nat \ {0}
    /\ Garbage \subseteq Nat
    /\ ReallocMayFail \in BOOLEAN

ASSUME BoundsAssumption ==
    /\ Window \in Nat \ {0}
    /\ MaxFrames \in Nat
    /\ MaxConnections \in Nat

VARIABLES
    wire,       \* the frames the peer wrote on this connection
    written,    \* bytes the peer wrote
    arrived,    \* bytes of them that read callbacks brought
    base,       \* stream position of data[0]
    readed,     \* data_readed
    needed,     \* data_needed
    allocated,  \* data_allocated
    delivered,  \* the frames handed to handle_packet on this connection
    intact,     \* no byte was lost or written past the buffer so far
    clean,      \* the connection started with an empty buffer
    open,       \* the stream is open and read callbacks run
    conn        \* connections served so far

peer   == <<wire, written>>
parser == <<base, readed, needed, delivered>>
link   == <<clean, open, conn>>
vars   == <<peer, arrived, parser, allocated, intact, link>>

Frame == [at : Int, len : Nat]

Trusted == clean /\ intact

Init ==
    /\ wire = <<>> /\ written = 0 /\ arrived = 0
    /\ base = 0 /\ readed = 0 /\ needed = 0 /\ delivered = <<>>
    /\ allocated = BufferStart
    /\ intact = TRUE /\ clean = TRUE /\ open = TRUE /\ conn = 1

-----------------------------------------------------------------------------
(* The peer: Protocol::send_packet puts the size before the packet.        *)

Send(size) ==
    /\ open
    /\ Len(wire) < MaxFrames
    /\ Len(wire) < Len(delivered) + Window
    /\ wire' = Append(wire, [at |-> written + HeaderLen, len |-> size])
    /\ written' = written + HeaderLen + size
    /\ UNCHANGED <<arrived, parser, allocated, intact, link>>

-----------------------------------------------------------------------------
(* TcpClient::on_segment with nread >= 0.                                  *)

\* The values the HeaderLen bytes at position pos may decode to. Where the
\* peer wrote a header and no byte was lost it is the length written there.
HeaderValues(pos) ==
    LET here == {i \in DOMAIN wire : wire[i].at = pos + HeaderLen}
    IN  {wire[i].len : i \in here}
          \cup (IF intact' /\ here # {} THEN {} ELSE Garbage)

\* Mistaken variants of TakeFrame and Parse, which the properties must catch:
\* a frame that is exactly complete is not taken,
TakeFrameLate(pos, len, have) ==
    \/ /\ have <= len
       /\ needed' = len /\ readed' = have /\ base' = pos
       /\ UNCHANGED delivered
    \/ /\ have > len
       /\ needed' = 0 /\ readed' = have - len /\ base' = pos + len
       /\ delivered' = Append(delivered, [at |-> pos, len |-> len])

\* a frame is taken one byte early,
TakeFrameEarly(pos, len, have) ==
    \/ /\ have + 1 < len
       /\ needed' = len /\ readed' = have /\ base' = pos
       /\ UNCHANGED delivered
    \/ /\ have + 1 >= len
       /\ needed' = 0 /\ readed' = have - len /\ base' = pos + len
       /\ delivered' = Append(delivered, [at |-> pos, len |-> len])

\* data_needed is not reset.
TakeFrameKeepsLength(pos, len, have) ==
    \/ /\ have < len
       /\ needed' = len /\ readed' = have /\ base' = pos
       /\ UNCHANGED delivered
    \/ /\ have >= len
       /\ needed' = len /\ readed' = have - len /\ base' = pos + len
       /\ delivered' = Append(delivered, [at |-> pos, len |-> len])

\* The frame of len bytes at pos, with have bytes in the buffer from pos on:
\* wait for the rest of it, or hand it over and keep what follows it.
TakeFrame(pos, len, have) ==
    \/ /\ have < len
       /\ needed' = len /\ readed' = have /\ base' = pos
       /\ UNCHANGED delivered
    \/ /\ have >= len
       /\ needed' = 0 /\ readed' = have - len /\ base' = pos + len
       /\ delivered' = Append(delivered, [at |-> pos, len |-> len])

\* The callback ends once it has read the length.
ParseHeaderOnly(total) ==
    \/ /\ needed = 0 /\ total < HeaderLen
       /\ readed' = total
       /\ UNCHANGED <<base, needed, delivered>>
    \/ /\ needed = 0 /\ total >= HeaderLen
       /\ needed' \in HeaderValues(base)
       /\ readed' = total - HeaderLen /\ base' = base + HeaderLen
       /\ UNCHANGED delivered
    \/ /\ needed # 0
       /\ TakeFrame(base, needed, total)

\* At most one frame is taken out of the total bytes in the buffer.
Parse(total) ==
    \/ /\ needed = 0 /\ total < HeaderLen
       /\ readed' = total
       /\ UNCHANGED <<base, needed, delivered>>
    \/ /\ needed = 0 /\ total >= HeaderLen
       /\ \E len \in HeaderValues(base) :
             TakeFrame(base + HeaderLen, len, total - HeaderLen)
    \/ /\ needed # 0
       /\ TakeFrame(base, needed, total)

Grows(total) == total >= allocated

\* Mistaken variant: the buffer grows by the segment size of a header.
CapacityTooSmall(total) ==
    IF Grows(total) THEN allocated + HeaderLen ELSE allocated

\* The buffer is doubled once, however long the segment is.
Capacity(total) == IF Grows(total) THEN 2 * allocated ELSE allocated

\* The segment is copied into the buffer. Writing past its end is undefined:
\* the bytes of the buffer are unknown from then on.
StoreSegment(total) ==
    /\ intact' = (intact /\ total <= Capacity(total))
    /\ Parse(total)

\* realloc fails: the counters have moved on but the bytes are not copied.
DropSegment(total) ==
    /\ ReallocMayFail /\ Grows(total)
    /\ intact' = FALSE
    /\ readed' = total
    /\ UNCHANGED <<base, needed, delivered>>

OnSegment(n) ==
    /\ open
    /\ n <= written - arrived
    /\ arrived' = arrived + n
    /\ allocated' = Capacity(readed + n)
    /\ StoreSegment(readed + n) \/ DropSegment(readed + n)
    /\ UNCHANGED <<peer, link>>

-----------------------------------------------------------------------------
(* nread < 0: the server puts the object back into its pool as it is, and  *)
(* Clients::on_notify gives it to a later connection.                      *)

EndOfStream ==
    /\ open
    /\ open' = FALSE
    /\ UNCHANGED <<peer, arrived, parser, allocated, intact, clean, conn>>

\* Nothing of the object is reset: what the buffer held before lies in front
\* of the new stream.
Reattach ==
    /\ ~open
    /\ conn < MaxConnections
    /\ open' = TRUE /\ conn' = conn + 1
    /\ wire' = <<>> /\ written' = 0 /\ arrived' = 0 /\ delivered' = <<>>
    /\ base' = -readed
    /\ clean' = (readed = 0 /\ needed = 0)
    /\ UNCHANGED <<readed, needed, allocated, intact>>

-----------------------------------------------------------------------------
Next ==
    \/ \E size \in PayloadSizes : Send(size)
    \/ \E n \in 0 .. MaxSegment : OnSegment(n)
    \/ EndOfStream
    \/ Reattach

Spec == Init /\ [][Next]_vars

\* The network brings the bytes that were written: read callbacks that bring
\* some keep coming. Callbacks without bytes are never relied on.
Fairness == WF_vars(\E n \in 1 .. MaxSegment : OnSegment(n))

FairSpec == Spec /\ Fairness

-----------------------------------------------------------------------------
TypeOK ==
    /\ wire \in Seq(Frame)
    /\ written \in Nat
    /\ arrived \in Nat
    /\ base \in Int
    /\ readed \in Nat
    /\ needed \in Nat
    /\ allocated \in Nat \ {0}
    /\ delivered \in Seq(Frame)
    /\ intact \in BOOLEAN
    /\ clean \in BOOLEAN
    /\ open \in BOOLEAN
    /\ conn \in Nat

\* However the stream is cut into segments, and whatever the object served
\* before, an object that started empty and lost nothing hands over exactly
\* the frames the peer sent, whole and in order.
DeliveredInOrder ==
    Trusted =>
        /\ Len(delivered) <= Len(wire)
        /\ \A i \in DOMAIN delivered : delivered[i] = wire[i]

\* One frame is taken per callback, so frames can stay behind in the buffer
\* until the next segment. With every byte in, fewer than Window frames do:
\* a peer that sends one frame and waits (Window = 1) loses nothing by it.
LagBounded ==
    (Trusted /\ open /\ arrived = written) =>
        Len(wire) - Len(delivered) < Window

\* Doubling the buffer once per callback is enough for segments no longer
\* than the buffer it starts with.
BufferSuffices == (MaxSegment <= BufferStart /\ ~ReallocMayFail) => intact

\* A length is kept from one callback to the next only when the frame it
\* announces is not complete, on a reused object as on a fresh one (as long
\* as no callback was cut short by a failed realloc).
HeldLengthIncomplete == (~ReallocMayFail /\ needed # 0) => readed < needed

\* A callback that hands nothing over leaves no whole frame in the buffer.
WholeFrameBuffered ==
    \E i \in DOMAIN wire :
        i = Len(delivered) + 1 /\ wire[i].at + wire[i].len <= arrived
NoIdleCallback ==
    [][(Trusted' /\ arrived' # arrived /\ conn' = conn /\ delivered' = delivered)
          => ~WholeFrameBuffered']_vars

\* Lock step: a frame sent by a peer that waits for the previous one to be
\* handled is handed over, unless the connection ends or bytes are lost.
FrameArrives ==
    (Window = 1) =>
        ((Trusted /\ Len(wire) > Len(delivered))
            ~> (Len(wire) = Len(delivered) \/ ~open \/ ~Trusted))

\* The framing layer is a FIFO channel of frames.
Chan == INSTANCE FrameChannel WITH sent <- wire, received <- delivered,
                                   trusted <- Trusted
ChannelSpec == Chan!Spec
=============================================================================
