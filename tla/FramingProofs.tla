--------------------------- MODULE FramingProofs ----------------------------
(***************************************************************************)
(* Proofs about Framing, for every buffer size, segment size, window and   *)
(* set of packet sizes.                                                    *)
(***************************************************************************)
EXTENDS Framing, TLAPS

-----------------------------------------------------------------------------
(* The inductive invariant.                                                *)

\* Where the k-th frame of the connection ends in the stream.
End(k) == IF k = 0 THEN 0 ELSE wire[k].at + wire[k].len

\* The frames the peer wrote lie one after the other.
WireInv ==
    /\ \A i \in DOMAIN wire : wire[i].at = End(i - 1) + HeaderLen
    /\ \A i, j \in DOMAIN wire : i < j => wire[i].at < wire[j].at
    /\ \A i \in DOMAIN wire : wire[i].at <= written
    /\ written = End(Len(wire))

\* The buffer ends where the bytes brought so far end.
BytesInv ==
    /\ arrived <= written
    /\ base + readed = arrived

\* The parser stands at the header of the first frame not handed over yet,
\* or at its payload once the length has been read.
ParserInv ==
    /\ Len(delivered) <= Len(wire)
    /\ \A i \in DOMAIN delivered : delivered[i] = wire[i]
    /\ needed = 0 => base = End(Len(delivered))
    /\ needed # 0 =>
          /\ Len(delivered) < Len(wire)
          /\ base = wire[Len(delivered) + 1].at
          /\ needed = wire[Len(delivered) + 1].len

LagInv ==
    /\ Len(wire) <= Len(delivered) + Window
    /\ arrived = written => Len(wire) < Len(delivered) + Window

IInv ==
    /\ TypeOK
    /\ WireInv
    /\ BytesInv
    /\ Trusted => ParserInv /\ LagInv

-----------------------------------------------------------------------------
USE SizesAssumption, BoundsAssumption DEF SizesAssumption, BoundsAssumption

\* Types: the variables keep their types; the one that could fail to is
\* data_readed, which on_segment decreases twice.
LEMMA TypeInit == Init => TypeOK
  BY DEF Init, TypeOK, Frame

LEMMA FramesType ==
  ASSUME TypeOK
  PROVE  /\ DOMAIN wire = 1 .. Len(wire)
         /\ DOMAIN delivered = 1 .. Len(delivered)
         /\ Len(wire) \in Nat /\ Len(delivered) \in Nat
         /\ \A i \in DOMAIN wire : wire[i].at \in Int /\ wire[i].len \in Nat
  <1>1. /\ DOMAIN wire = 1 .. Len(wire)
        /\ DOMAIN delivered = 1 .. Len(delivered)
        /\ Len(wire) \in Nat /\ Len(delivered) \in Nat
    BY DEF TypeOK
  <1>2. \A i \in DOMAIN wire : wire[i] \in Frame
    BY <1>1 DEF TypeOK
  <1> QED
    BY <1>1, <1>2 DEF Frame

LEMMA TakeFrameType ==
  ASSUME TypeOK, NEW pos \in Int, NEW len \in Nat, NEW have \in Nat,
         TakeFrame(pos, len, have)
  PROVE  base' \in Int /\ readed' \in Nat /\ needed' \in Nat
           /\ delivered' \in Seq(Frame)
  <1>1. [at |-> pos, len |-> len] \in Frame
    BY DEF Frame
  <1>2. CASE have < len
    BY <1>2 DEF TakeFrame, TypeOK
  <1>3. CASE have >= len
    <2>1. delivered' = Append(delivered, [at |-> pos, len |-> len])
      BY <1>3 DEF TakeFrame
    <2>2. delivered' \in Seq(Frame)
      BY <1>1, <2>1 DEF TypeOK
    <2> QED
      BY <1>3, <2>2 DEF TakeFrame
  <1> QED
    BY <1>2, <1>3

LEMMA HeaderValuesType ==
  ASSUME TypeOK, NEW pos \in Int
  PROVE  HeaderValues(pos) \subseteq Nat
  <1> SUFFICES ASSUME NEW v \in HeaderValues(pos) PROVE v \in Nat
    OBVIOUS
  <1>1. CASE v \in Garbage
    BY <1>1
  <1>2. CASE \E i \in DOMAIN wire : v = wire[i].len
    BY <1>2, FramesType
  <1> QED
    BY <1>1, <1>2 DEF HeaderValues

LEMMA ParseType ==
  ASSUME TypeOK, NEW total \in Nat,
         Parse(total)
  PROVE  base' \in Int /\ readed' \in Nat /\ needed' \in Nat
           /\ delivered' \in Seq(Frame)
  <1>1. CASE needed = 0 /\ total < HeaderLen
    BY <1>1 DEF Parse, TypeOK
  <1>2. CASE needed = 0 /\ total >= HeaderLen
    <2>1. PICK len \in HeaderValues(base) :
             TakeFrame(base + HeaderLen, len, total - HeaderLen)
      BY <1>2 DEF Parse
    <2>2. base \in Int /\ len \in Nat
      BY HeaderValuesType DEF TypeOK
    <2>3. base + HeaderLen \in Int /\ total - HeaderLen \in Nat
      BY <1>2, <2>2
    <2> QED
      BY <2>1, <2>2, <2>3, TakeFrameType
  <1>3. CASE needed # 0
    <2>1. TakeFrame(base, needed, total)
      BY <1>3 DEF Parse
    <2> QED
      BY <2>1, TakeFrameType DEF TypeOK
  <1> QED
    BY <1>1, <1>2, <1>3

LEMMA TypeStep == TypeOK /\ [Next]_vars => TypeOK'
  <1> SUFFICES ASSUME TypeOK, [Next]_vars PROVE TypeOK'
    OBVIOUS
  <1> USE DEF TypeOK
  <1>1. ASSUME NEW size \in PayloadSizes, Send(size) PROVE TypeOK'
    <2>1. [at |-> written + HeaderLen, len |-> size] \in Frame
      BY DEF Frame
    <2> QED
      BY <1>1, <2>1 DEF Send, parser, link
  <1>2. ASSUME NEW n \in 0 .. MaxSegment, OnSegment(n) PROVE TypeOK'
    <2>1. readed + n \in Nat /\ arrived + n \in Nat
      OBVIOUS
    <2>2. Capacity(readed + n) \in Nat \ {0}
      BY DEF Capacity
    <2>3. intact' \in BOOLEAN /\ base' \in Int /\ readed' \in Nat
            /\ needed' \in Nat /\ delivered' \in Seq(Frame)
      <3>1. CASE StoreSegment(readed + n)
        BY <3>1, <2>1, ParseType DEF StoreSegment
      <3>2. CASE DropSegment(readed + n)
        BY <3>2, <2>1 DEF DropSegment
      <3> QED
        BY <1>2, <3>1, <3>2 DEF OnSegment
    <2> QED
      BY <1>2, <2>1, <2>2, <2>3 DEF OnSegment, peer, link
  <1>3. CASE EndOfStream
    BY <1>3 DEF EndOfStream, peer, parser
  <1>4. CASE Reattach
    BY <1>4 DEF Reattach, Frame
  <1>5. CASE UNCHANGED vars
    BY <1>5 DEF vars, peer, parser, link
  <1> QED
    BY <1>1, <1>2, <1>3, <1>4, <1>5 DEF Next

\* Every variable keeps its type in every reachable state of the receiver.
THEOREM TypeCorrect == Spec => []TypeOK
  BY TypeInit, TypeStep, PTL DEF Spec

-----------------------------------------------------------------------------
(* What one callback does to the parser.                                   *)

\* No byte is skipped or read twice, trusted or not.
LEMMA ParseBytes ==
  ASSUME TypeOK, NEW total \in Nat,
         Parse(total)
  PROVE  base' + readed' = base + total
  <1>1. ASSUME NEW pos \in Int, NEW len \in Nat, NEW have \in Nat,
               TakeFrame(pos, len, have)
        PROVE  base' + readed' = pos + have
    BY <1>1 DEF TakeFrame
  <1>2. CASE needed = 0 /\ total < HeaderLen
    BY <1>2 DEF Parse
  <1>3. CASE needed = 0 /\ total >= HeaderLen
    <2>1. PICK len \in HeaderValues(base) :
             TakeFrame(base + HeaderLen, len, total - HeaderLen)
      BY <1>3 DEF Parse
    <2>2. base \in Int /\ len \in Nat
      BY HeaderValuesType DEF TypeOK
    <2>3. base + HeaderLen \in Int /\ total - HeaderLen \in Nat
      BY <1>3, <2>2
    <2>4. base' + readed' = (base + HeaderLen) + (total - HeaderLen)
      BY <1>1, <2>1, <2>2, <2>3
    <2> QED
      BY <2>2, <2>4
  <1>4. CASE needed # 0
    <2>1. TakeFrame(base, needed, total)
      BY <1>4 DEF Parse
    <2> QED
      BY <1>1, <2>1 DEF TypeOK
  <1> QED
    BY <1>2, <1>3, <1>4

\* A parser in step that sees a whole header sees the header of the first
\* frame not handed over, and reads its length.
LEMMA HeaderInStep ==
  ASSUME TypeOK, WireInv, ParserInv, intact', needed = 0,
         NEW total \in Nat, total >= HeaderLen, base + total <= written
  PROVE  /\ Len(delivered) + 1 \in DOMAIN wire
         /\ wire[Len(delivered) + 1].at = base + HeaderLen
         /\ HeaderValues(base) = {wire[Len(delivered) + 1].len}
  <1> DEFINE k == Len(delivered) + 1
  <1>0. /\ DOMAIN wire = 1 .. Len(wire)
        /\ Len(wire) \in Nat /\ Len(delivered) \in Nat
    BY FramesType
  <1>1. base = End(Len(delivered))
    BY DEF ParserInv
  <1>2. Len(delivered) # Len(wire)
    BY <1>1 DEF WireInv, TypeOK
  <1>3. k \in DOMAIN wire /\ k - 1 = Len(delivered)
    <2>1. Len(delivered) <= Len(wire)
      BY DEF ParserInv
    <2> QED
      BY <1>0, <1>2, <2>1
  <1>4. wire[k].at = base + HeaderLen
    BY <1>1, <1>3 DEF WireInv
  <1>5. \A i \in DOMAIN wire : wire[i].at = base + HeaderLen => i = k
    <2> SUFFICES ASSUME NEW i \in DOMAIN wire, wire[i].at = wire[k].at
                 PROVE  i = k
      BY <1>4
    <2>1. i \in Nat /\ k \in Nat
      BY <1>3, FramesType
    <2>2. wire[i].at \in Int /\ ~(i < k) /\ ~(k < i)
      BY <1>3, FramesType DEF WireInv
    <2> QED
      BY <2>1, <2>2
  <1>6. {i \in DOMAIN wire : wire[i].at = base + HeaderLen} = {k}
    BY <1>3, <1>4, <1>5
  <1>7. HeaderValues(base) = {wire[k].len}
    BY <1>6 DEF HeaderValues
  <1> QED
    BY <1>3, <1>4, <1>7

\* Taking the first frame not handed over keeps the parser in step, and
\* leaves the frame behind only when its last bytes are missing.
LEMMA TakeInStep ==
  ASSUME TypeOK, ParserInv, wire' = wire, NEW have \in Nat,
         Len(delivered) + 1 \in DOMAIN wire,
         TakeFrame(wire[Len(delivered) + 1].at, wire[Len(delivered) + 1].len, have)
  PROVE  /\ ParserInv'
         /\ \/ delivered' = Append(delivered, wire[Len(delivered) + 1])
            \/ /\ delivered' = delivered
               /\ have < wire[Len(delivered) + 1].len
  <1> DEFINE k == Len(delivered) + 1
  <1>1. /\ k \in 1 .. Len(wire) /\ DOMAIN delivered = 1 .. Len(delivered)
        /\ Len(delivered) \in Nat /\ Len(wire) \in Nat
        /\ wire[k].at \in Int /\ wire[k].len \in Nat
        /\ wire[k] \in Frame
    <2>1. wire[k] \in Frame
      BY DEF TypeOK
    <2> QED
      BY <2>1, FramesType
  <1>2. CASE have < wire[k].len
    <2>1. /\ delivered' = delivered /\ wire' = wire
          /\ needed' = wire[k].len /\ base' = wire[k].at
      BY <1>1, <1>2 DEF TakeFrame
    <2>2. needed' # 0
      BY <1>1, <1>2, <2>1
    <2>3. Len(delivered) <= Len(wire) /\ \A i \in DOMAIN delivered : delivered[i] = wire[i]
      BY DEF ParserInv
    <2>4. ParserInv'
      BY <1>1, <2>1, <2>2, <2>3 DEF ParserInv
    <2> QED
      BY <1>2, <2>1, <2>4
  <1>3. CASE have >= wire[k].len
    <2>1. /\ delivered' = Append(delivered, [at |-> wire[k].at, len |-> wire[k].len])
          /\ needed' = 0 /\ base' = wire[k].at + wire[k].len /\ wire' = wire
      BY <1>1, <1>3 DEF TakeFrame
    <2>2. delivered' = Append(delivered, wire[k])
      BY <1>1, <2>1 DEF Frame
    <2>3. /\ Len(delivered') = k /\ DOMAIN delivered' = 1 .. k
          /\ delivered'[k] = wire[k]
          /\ \A i \in 1 .. Len(delivered) : delivered'[i] = delivered[i]
      BY <1>1, <2>2 DEF TypeOK
    <2>4. \A i \in DOMAIN delivered' : delivered'[i] = wire'[i]
      BY <1>1, <2>1, <2>3 DEF ParserInv
    <2>5. base' = End(Len(delivered))'
      <3>1. base' = IF k = 0 THEN 0 ELSE wire'[k].at + wire'[k].len
        BY <1>1, <2>1
      <3> QED
        BY <2>3, <3>1 DEF End
    <2>6. Len(delivered') <= Len(wire')
      BY <1>1, <2>1, <2>3
    <2>7. ParserInv'
      BY <2>1, <2>4, <2>5, <2>6 DEF ParserInv
    <2> QED
      BY <2>2, <2>7
  <1> QED
    BY <1>1, <1>2, <1>3

\* A callback on bytes of the peer keeps the parser in step; it hands over
\* the next frame, or nothing when that frame is not complete.
LEMMA ParseInStep ==
  ASSUME TypeOK, WireInv, ParserInv, intact', wire' = wire,
         NEW total \in Nat, base + total <= written, Parse(total)
  PROVE  /\ ParserInv'
         /\ \/ /\ Len(delivered) < Len(wire)
               /\ delivered' = Append(delivered, wire[Len(delivered) + 1])
            \/ /\ delivered' = delivered
               /\ Len(delivered) < Len(wire) =>
                    base + total < wire[Len(delivered) + 1].at
                                     + wire[Len(delivered) + 1].len
  <1> DEFINE k == Len(delivered) + 1
  <1>0. base \in Int /\ DOMAIN wire = 1 .. Len(wire)
          /\ Len(wire) \in Nat /\ Len(delivered) \in Nat
    BY FramesType DEF TypeOK
  <1>1. CASE needed = 0 /\ total < HeaderLen
    <2>1. /\ base' = base /\ needed' = needed /\ delivered' = delivered
          /\ wire' = wire
      BY <1>1 DEF Parse
    <2>2. ParserInv'
      BY <2>1 DEF ParserInv, End
    <2>3. ASSUME Len(delivered) < Len(wire)
          PROVE  base + total < wire[k].at + wire[k].len
      <3>1. k \in DOMAIN wire /\ k - 1 = Len(delivered)
        BY <1>0, <2>3
      <3>2. wire[k].at = base + HeaderLen
        BY <1>1, <3>1 DEF WireInv, ParserInv
      <3> QED
        BY <1>0, <1>1, <3>1, <3>2, FramesType
    <2> QED
      BY <2>1, <2>2, <2>3
  <1>2. CASE needed = 0 /\ total >= HeaderLen
    <2>1. /\ k \in DOMAIN wire
          /\ wire[k].at = base + HeaderLen
          /\ HeaderValues(base) = {wire[k].len}
      BY <1>2, HeaderInStep
    <2>2. TakeFrame(wire[k].at, wire[k].len, total - HeaderLen)
      <3>1. PICK len \in HeaderValues(base) :
               TakeFrame(base + HeaderLen, len, total - HeaderLen)
        BY <1>2 DEF Parse
      <3>2. len = wire[k].len
        BY <2>1
      <3> QED
        BY <2>1, <3>1, <3>2
    <2>3. total - HeaderLen \in Nat /\ Len(delivered) < Len(wire)
      BY <1>0, <1>2, <2>1
    <2>4. /\ ParserInv'
          /\ \/ delivered' = Append(delivered, wire[k])
             \/ delivered' = delivered /\ total - HeaderLen < wire[k].len
      BY <2>1, <2>2, <2>3, TakeInStep
    <2>5. wire[k].at \in Int /\ wire[k].len \in Nat
      BY <2>1, FramesType
    <2>6. total - HeaderLen < wire[k].len => base + total < wire[k].at + wire[k].len
      BY <1>0, <2>1, <2>5
    <2> QED
      BY <2>3, <2>4, <2>6
  <1>3. CASE needed # 0
    <2>1. /\ Len(delivered) < Len(wire)
          /\ base = wire[k].at /\ needed = wire[k].len
      BY <1>3 DEF ParserInv
    <2>2. TakeFrame(wire[k].at, wire[k].len, total)
      BY <1>3, <2>1 DEF Parse
    <2>3. k \in DOMAIN wire
      BY <1>0, <2>1
    <2>4. /\ ParserInv'
          /\ \/ delivered' = Append(delivered, wire[k])
             \/ delivered' = delivered /\ total < wire[k].len
      BY <2>2, <2>3, TakeInStep
    <2>5. wire[k].len \in Nat
      BY <2>3, FramesType
    <2>6. total < wire[k].len => base + total < wire[k].at + wire[k].len
      BY <1>0, <2>1, <2>5
    <2> QED
      BY <2>1, <2>4, <2>6
  <1> QED
    BY <1>1, <1>2, <1>3 DEF TypeOK

-----------------------------------------------------------------------------
(* IInv is inductive.                                                      *)

LEMMA InvInit == Init => IInv
  <1> SUFFICES ASSUME Init PROVE IInv
    OBVIOUS
  <1>1. TypeOK
    BY TypeInit
  <1>2. /\ wire = <<>> /\ delivered = <<>> /\ Len(wire) = 0 /\ Len(delivered) = 0
        /\ DOMAIN wire = {} /\ DOMAIN delivered = {}
    BY DEF Init
  <1>3. WireInv /\ BytesInv
    BY <1>2 DEF Init, WireInv, BytesInv, End
  <1>4. ParserInv /\ LagInv
    BY <1>2 DEF Init, ParserInv, LagInv, End
  <1> QED
    BY <1>1, <1>3, <1>4 DEF IInv

LEMMA SendStep ==
  ASSUME IInv, NEW size \in PayloadSizes, Send(size), TypeOK'
  PROVE  IInv'
  <1> DEFINE f == [at |-> written + HeaderLen, len |-> size]
             m == Len(wire) + 1
  <1>0. TypeOK /\ WireInv /\ BytesInv /\ (Trusted => ParserInv /\ LagInv)
    BY DEF IInv
  <1>1. /\ wire' = Append(wire, f) /\ written' = written + HeaderLen + size
        /\ arrived' = arrived /\ base' = base /\ readed' = readed
        /\ needed' = needed /\ delivered' = delivered /\ Trusted' = Trusted
        /\ Len(wire) < Len(delivered) + Window
    BY DEF Send, parser, link, Trusted
  <1>2. f \in Frame /\ f.at = written + HeaderLen /\ f.len = size /\ size \in Nat \ {0}
    BY <1>0 DEF Frame, TypeOK
  <1>3. /\ DOMAIN wire = 1 .. Len(wire) /\ Len(wire) \in Nat
        /\ Len(delivered) \in Nat /\ DOMAIN delivered = 1 .. Len(delivered)
        /\ \A i \in DOMAIN wire : wire[i].at \in Int /\ wire[i].len \in Nat
        /\ written \in Nat /\ arrived \in Nat
    BY <1>0, FramesType DEF TypeOK
  <1>4. /\ Len(wire') = m /\ DOMAIN wire' = 1 .. m /\ wire'[m] = f
        /\ \A i \in 1 .. Len(wire) : wire'[i] = wire[i]
    BY <1>0, <1>1, <1>2 DEF TypeOK
  <1>5. \A i \in 0 .. Len(wire) : End(i)' = End(i)
    BY <1>3, <1>4 DEF End
  <1>6. WireInv'
    <2>1. ASSUME NEW i \in DOMAIN wire'
          PROVE  wire'[i].at = End(i - 1)' + HeaderLen
      <3>1. CASE i = m
        <4>1. i - 1 = Len(wire) /\ End(i - 1)' = End(Len(wire))
          BY <1>3, <1>5, <3>1
        <4> QED
          BY <1>0, <1>2, <1>4, <3>1, <4>1 DEF WireInv
      <3>2. CASE i # m
        <4>1. i \in DOMAIN wire /\ i - 1 \in 0 .. Len(wire)
          BY <1>3, <1>4, <3>2
        <4> QED
          BY <1>0, <1>3, <1>4, <1>5, <4>1 DEF WireInv
      <3> QED
        BY <3>1, <3>2
    <2>2. ASSUME NEW i \in DOMAIN wire', NEW j \in DOMAIN wire', i < j
          PROVE  wire'[i].at < wire'[j].at
      <3>1. i \in DOMAIN wire /\ wire'[i] = wire[i]
        BY <1>3, <1>4, <2>2
      <3>2. CASE j = m
        <4>1. wire[i].at <= written
          BY <1>0, <3>1 DEF WireInv
        <4> QED
          BY <1>2, <1>3, <1>4, <3>1, <3>2, <4>1
      <3>3. CASE j # m
        <4>1. j \in DOMAIN wire /\ wire'[j] = wire[j]
          BY <1>3, <1>4, <3>3
        <4> QED
          BY <1>0, <2>2, <3>1, <4>1 DEF WireInv
      <3> QED
        BY <3>2, <3>3
    <2>3. ASSUME NEW i \in DOMAIN wire'
          PROVE  wire'[i].at <= written'
      <3>1. CASE i = m
        BY <1>1, <1>2, <1>3, <1>4, <3>1
      <3>2. CASE i # m
        <4>1. i \in DOMAIN wire /\ wire'[i] = wire[i]
          BY <1>3, <1>4, <3>2
        <4>2. wire[i].at <= written
          BY <1>0, <4>1 DEF WireInv
        <4> QED
          BY <1>1, <1>2, <1>3, <4>1, <4>2
      <3> QED
        BY <3>1, <3>2
    <2>4. written' = End(Len(wire))'
      <3>1. End(Len(wire))' = IF m = 0 THEN 0 ELSE wire'[m].at + wire'[m].len
        BY <1>4 DEF End
      <3> QED
        BY <1>1, <1>2, <1>3, <1>4, <3>1
    <2> QED
      BY <2>1, <2>2, <2>3, <2>4 DEF WireInv
  <1>7. BytesInv' /\ arrived' # written'
    BY <1>0, <1>1, <1>2, <1>3 DEF BytesInv
  <1>8. ASSUME Trusted PROVE ParserInv' /\ LagInv'
    <2>0. ParserInv
      BY <1>0, <1>8
    <2>1. Len(delivered) <= Len(wire) /\ End(Len(delivered))' = End(Len(delivered))
      BY <1>1, <1>3, <1>5, <2>0 DEF ParserInv
    <2>2. \A i \in DOMAIN delivered' : delivered'[i] = wire'[i]
      BY <1>1, <1>3, <1>4, <2>0, <2>1 DEF ParserInv
    <2>3. needed' = 0 => base' = End(Len(delivered))'
      BY <1>1, <2>0, <2>1 DEF ParserInv
    <2>4. ASSUME needed' # 0
          PROVE  /\ Len(delivered') < Len(wire')
                 /\ base' = wire'[Len(delivered') + 1].at
                 /\ needed' = wire'[Len(delivered') + 1].len
      <3>1. /\ Len(delivered) < Len(wire)
            /\ base = wire[Len(delivered) + 1].at
            /\ needed = wire[Len(delivered) + 1].len
        BY <1>1, <2>0, <2>4 DEF ParserInv
      <3>2. wire'[Len(delivered) + 1] = wire[Len(delivered) + 1]
        BY <1>3, <1>4, <3>1
      <3> QED
        BY <1>1, <1>3, <1>4, <3>1, <3>2
    <2>5. ParserInv'
      BY <1>1, <1>3, <1>4, <2>1, <2>2, <2>3, <2>4 DEF ParserInv
    <2>6. LagInv'
      BY <1>1, <1>3, <1>4, <1>7 DEF LagInv
    <2> QED
      BY <2>5, <2>6
  <1> QED
    BY <1>1, <1>6, <1>7, <1>8 DEF IInv

\* The facts of one callback that the invariant and the action properties
\* both need.
LEMMA SegmentFacts ==
  ASSUME IInv, NEW n \in 0 .. MaxSegment, OnSegment(n), TypeOK'
  PROVE  /\ WireInv' /\ BytesInv'
         /\ Trusted' =>
               /\ Trusted /\ ParserInv'
               /\ \/ /\ Len(delivered) < Len(wire)
                     /\ delivered' = Append(delivered, wire[Len(delivered) + 1])
                  \/ /\ delivered' = delivered
                     /\ Len(delivered) < Len(wire) =>
                          arrived' < wire[Len(delivered) + 1].at
                                       + wire[Len(delivered) + 1].len
  <1> DEFINE total == readed + n
  <1>1. TypeOK /\ WireInv /\ BytesInv /\ (Trusted => ParserInv)
    BY DEF IInv
  <1>2. /\ wire' = wire /\ written' = written /\ clean' = clean
        /\ arrived' = arrived + n /\ n <= written - arrived
    BY DEF OnSegment, peer, link
  <1>3. /\ total \in Nat /\ base \in Int /\ arrived \in Nat /\ written \in Nat
        /\ readed \in Nat /\ base + total = arrived + n
    BY <1>1 DEF TypeOK, BytesInv
  <1>4. WireInv'
    <2>1. WireInv
      BY <1>1
    <2> QED
      BY <1>2, <2>1 DEF WireInv, End
  <1>5. BytesInv'
    <2>1. CASE StoreSegment(total)
      BY <1>1, <1>2, <1>3, <2>1, ParseBytes DEF StoreSegment, BytesInv
    <2>2. CASE DropSegment(total)
      BY <1>1, <1>2, <1>3, <2>2 DEF DropSegment, BytesInv
    <2> QED
      BY <2>1, <2>2 DEF OnSegment
  <1>6. ASSUME Trusted'
        PROVE  /\ Trusted
               /\ ParserInv'
               /\ \/ /\ Len(delivered) < Len(wire)
                     /\ delivered' = Append(delivered, wire[Len(delivered) + 1])
                  \/ /\ delivered' = delivered
                     /\ Len(delivered) < Len(wire) =>
                          arrived' < wire[Len(delivered) + 1].at
                                       + wire[Len(delivered) + 1].len
    <2>1. StoreSegment(total)
      BY <1>6 DEF OnSegment, DropSegment, Trusted
    <2>2. Trusted /\ intact' /\ Parse(total)
      BY <1>2, <1>6, <2>1 DEF StoreSegment, Trusted
    <2>3. base + total <= written
      BY <1>2, <1>3
    <2> QED
      BY <1>1, <1>2, <1>3, <2>2, <2>3, ParseInStep
  <1> QED
    BY <1>4, <1>5, <1>6

\* A frame with a successor in line is complete once all bytes are in.
LEMMA EndsInOrder ==
  ASSUME TypeOK, WireInv, NEW k \in DOMAIN wire
  PROVE  wire[k].at + wire[k].len <= written
  <1>1. /\ DOMAIN wire = 1 .. Len(wire) /\ Len(wire) \in Nat
        /\ \A i \in DOMAIN wire : wire[i].at \in Int /\ wire[i].len \in Nat
        /\ written \in Nat
    BY FramesType DEF TypeOK
  <1>2. CASE k = Len(wire)
    BY <1>1, <1>2 DEF WireInv, End
  <1>3. CASE k # Len(wire)
    <2>1. k + 1 \in DOMAIN wire /\ (k + 1) - 1 = k /\ k # 0
      BY <1>1, <1>3
    <2>2. wire[k + 1].at = wire[k].at + wire[k].len + HeaderLen
      BY <2>1 DEF WireInv, End
    <2>3. wire[k + 1].at <= written
      BY <2>1 DEF WireInv
    <2> QED
      BY <1>1, <2>1, <2>2, <2>3
  <1> QED
    BY <1>2, <1>3

LEMMA SegmentStep ==
  ASSUME IInv, NEW n \in 0 .. MaxSegment, OnSegment(n), TypeOK'
  PROVE  IInv'
  <1>1. WireInv' /\ BytesInv'
    BY SegmentFacts
  <1>2. ASSUME Trusted' PROVE ParserInv' /\ LagInv'
    <2>1. /\ Trusted /\ ParserInv'
          /\ \/ /\ Len(delivered) < Len(wire)
                /\ delivered' = Append(delivered, wire[Len(delivered) + 1])
             \/ /\ delivered' = delivered
                /\ Len(delivered) < Len(wire) =>
                     arrived' < wire[Len(delivered) + 1].at
                                  + wire[Len(delivered) + 1].len
      BY <1>2, SegmentFacts
    <2>2. TypeOK /\ WireInv /\ LagInv /\ ParserInv
      BY <2>1 DEF IInv
    <2>3. /\ DOMAIN wire = 1 .. Len(wire) /\ Len(wire) \in Nat
          /\ Len(delivered) \in Nat /\ delivered \in Seq(Frame)
          /\ wire' = wire /\ written' = written
          /\ Len(wire) <= Len(delivered) + Window /\ Len(delivered) <= Len(wire)
      BY <2>2, FramesType DEF TypeOK, OnSegment, peer, LagInv, ParserInv
    <2>4. CASE delivered' = Append(delivered, wire[Len(delivered) + 1])
                 /\ Len(delivered) < Len(wire)
      <3>1. Len(delivered') = Len(delivered) + 1
        BY <2>3, <2>4
      <3> QED
        BY <2>1, <2>3, <3>1 DEF LagInv
    <2>5. CASE /\ delivered' = delivered
               /\ Len(delivered) < Len(wire) =>
                    arrived' < wire[Len(delivered) + 1].at
                                 + wire[Len(delivered) + 1].len
      <3>1. ASSUME arrived' = written, Len(delivered) < Len(wire) PROVE FALSE
        <4>1. Len(delivered) + 1 \in DOMAIN wire
          BY <2>3, <3>1
        <4>2. /\ wire[Len(delivered) + 1].at + wire[Len(delivered) + 1].len <= written
              /\ wire[Len(delivered) + 1].at \in Int
              /\ wire[Len(delivered) + 1].len \in Nat
          BY <2>2, <4>1, EndsInOrder, FramesType
        <4>3. arrived' < wire[Len(delivered) + 1].at
                           + wire[Len(delivered) + 1].len
          BY <2>5, <3>1
        <4>4. written \in Nat
          BY <2>2 DEF TypeOK
        <4>5. written < wire[Len(delivered) + 1].at
                          + wire[Len(delivered) + 1].len
          BY <3>1, <4>3
        <4> QED
          BY <4>2, <4>4, <4>5, SMT
      <3>2. arrived' = written' => Len(wire) = Len(delivered)
        BY <2>3, <3>1
      <3> QED
        BY <2>1, <2>3, <2>5, <3>2 DEF LagInv
    <2> QED
      BY <2>1, <2>4, <2>5
  <1> QED
    BY <1>1, <1>2 DEF IInv

LEMMA ReattachStep ==
  ASSUME IInv, Reattach, TypeOK'
  PROVE  IInv'
  <1>1. /\ wire' = <<>> /\ delivered' = <<>> /\ written' = 0 /\ arrived' = 0
        /\ base' = -readed /\ readed' = readed /\ needed' = needed
        /\ clean' = (readed = 0 /\ needed = 0) /\ readed \in Nat
    BY DEF Reattach, IInv, TypeOK
  <1>2. /\ Len(wire') = 0 /\ Len(delivered') = 0
        /\ DOMAIN wire' = {} /\ DOMAIN delivered' = {}
    BY <1>1
  <1>3. WireInv' /\ BytesInv'
    BY <1>1, <1>2 DEF WireInv, BytesInv, End
  <1>4. ASSUME Trusted' PROVE ParserInv' /\ LagInv'
    <2>1. readed = 0 /\ needed = 0
      BY <1>1, <1>4 DEF Trusted
    <2>2. base' = 0 /\ needed' = 0
      <3>1. base' = -readed /\ base' \in Int /\ readed \in Nat /\ readed <= 0
        BY <1>1, <2>1 DEF TypeOK
      <3>2. base' = 0
        BY <3>1
      <3> QED
        BY <1>1, <2>1, <3>2
    <2>3. ParserInv'
      BY <1>2, <2>2 DEF ParserInv, End
    <2>4. LagInv'
      BY <1>1, <1>2 DEF LagInv
    <2> QED
      BY <2>3, <2>4
  <1> QED
    BY <1>3, <1>4 DEF IInv

LEMMA InvStep == IInv /\ [Next]_vars => IInv'
  <1> SUFFICES ASSUME IInv, [Next]_vars PROVE IInv'
    OBVIOUS
  <1>0. TypeOK'
    BY TypeStep DEF IInv
  <1>1. ASSUME NEW size \in PayloadSizes, Send(size) PROVE IInv'
    BY <1>0, <1>1, SendStep
  <1>2. ASSUME NEW n \in 0 .. MaxSegment, OnSegment(n) PROVE IInv'
    BY <1>0, <1>2, SegmentStep
  <1>3. CASE EndOfStream
    BY <1>0, <1>3
    DEF EndOfStream, peer, parser, IInv, WireInv, BytesInv, ParserInv, LagInv, End, Trusted
  <1>4. CASE Reattach
    BY <1>0, <1>4, ReattachStep
  <1>5. CASE UNCHANGED vars
    BY <1>0, <1>5
    DEF vars, peer, parser, link, IInv, WireInv, BytesInv, ParserInv, LagInv, End, Trusted
  <1> QED
    BY <1>1, <1>2, <1>3, <1>4, <1>5 DEF Next

LEMMA Invariant == Spec => []IInv
  BY InvInit, InvStep, PTL DEF Spec

-----------------------------------------------------------------------------
(* The theorems.                                                           *)

\* Whatever the segments are and whatever the object served before, a trusted
\* object hands over exactly the peer's frames, in order.
THEOREM InOrder == Spec => []DeliveredInOrder
  <1>1. IInv => DeliveredInOrder
    BY DEF IInv, ParserInv, DeliveredInOrder
  <1> QED
    BY <1>1, Invariant, PTL

\* Fewer than Window frames stay behind once every byte has arrived.
THEOREM Lag == Spec => []LagBounded
  <1>1. IInv => LagBounded
    <2> SUFFICES ASSUME IInv, Trusted, arrived = written
                 PROVE  Len(wire) - Len(delivered) < Window
      BY DEF LagBounded
    <2>1. Len(wire) < Len(delivered) + Window
      BY DEF IInv, LagInv
    <2>2. Len(wire) \in Nat /\ Len(delivered) \in Nat
      BY FramesType DEF IInv
    <2> QED
      BY <2>1, <2>2
  <1> QED
    BY <1>1, Invariant, PTL

\* A callback that brings bytes and hands nothing over leaves no complete
\* frame in the buffer.
THEOREM NoIdle == Spec => NoIdleCallback
  <1> DEFINE A == (Trusted' /\ arrived' # arrived /\ conn' = conn /\ delivered' = delivered)
                     => ~WholeFrameBuffered'
  <1>1. ASSUME IInv, [Next]_vars PROVE [A]_vars
    <2> SUFFICES ASSUME Trusted', arrived' # arrived, conn' = conn,
                        delivered' = delivered, WholeFrameBuffered'
                 PROVE  FALSE
      OBVIOUS
    <2>1. TypeOK /\ TypeOK'
      BY <1>1, TypeStep DEF IInv
    <2>2. ASSUME NEW n \in 0 .. MaxSegment, OnSegment(n) PROVE FALSE
      <3>1. \/ delivered' = Append(delivered, wire[Len(delivered) + 1])
            \/ Len(delivered) < Len(wire) =>
                  arrived' < wire[Len(delivered) + 1].at
                               + wire[Len(delivered) + 1].len
        BY <1>1, <2>1, <2>2, SegmentFacts
      <3>2. /\ wire' = wire /\ DOMAIN wire = 1 .. Len(wire)
            /\ Len(wire) \in Nat /\ Len(delivered) \in Nat
            /\ \A i \in DOMAIN wire : wire[i].at \in Int /\ wire[i].len \in Nat
            /\ delivered \in Seq(Frame) /\ arrived' \in Nat
        BY <2>1, <2>2, FramesType DEF OnSegment, peer, TypeOK
      <3>3. delivered' # Append(delivered, wire[Len(delivered) + 1])
        <4>1. Len(Append(delivered, wire[Len(delivered) + 1])) = Len(delivered) + 1
          BY <3>2
        <4> QED
          BY <3>2, <4>1
      <3>4. PICK i \in DOMAIN wire :
               i = Len(delivered) + 1 /\ wire[i].at + wire[i].len <= arrived'
        BY <3>2 DEF WholeFrameBuffered
      <3> QED
        BY <3>1, <3>2, <3>3, <3>4
    <2>3. ASSUME NEW size \in PayloadSizes, Send(size) PROVE FALSE
      BY <2>3 DEF Send
    <2>4. CASE EndOfStream
      BY <2>4 DEF EndOfStream
    <2>5. CASE Reattach
      BY <2>1, <2>5 DEF Reattach, TypeOK
    <2>6. CASE UNCHANGED vars
      BY <2>6 DEF vars
    <2> QED
      BY <1>1, <2>2, <2>3, <2>4, <2>5, <2>6 DEF Next
  <1>2. IInv /\ [Next]_vars => [A]_vars
    BY <1>1
  <1> QED
    BY <1>2, Invariant, PTL DEF Spec, NoIdleCallback

\* A length is held only for a frame that is not complete, on reused objects
\* and for bytes that were no header as well.
THEOREM Held == Spec => []HeldLengthIncomplete
  <1>1. Init => HeldLengthIncomplete
    BY DEF Init, HeldLengthIncomplete
  <1>2. ASSUME TypeOK, HeldLengthIncomplete, [Next]_vars PROVE HeldLengthIncomplete'
    <2>1. ASSUME NEW pos, NEW len, NEW have, TakeFrame(pos, len, have)
          PROVE  HeldLengthIncomplete'
      BY <2>1 DEF TakeFrame, HeldLengthIncomplete
    <2>2. ASSUME NEW n \in 0 .. MaxSegment, OnSegment(n)
          PROVE  HeldLengthIncomplete'
      <3>1. CASE DropSegment(readed + n)
        BY <3>1 DEF DropSegment, HeldLengthIncomplete
      <3>2. CASE Parse(readed + n)
        <4>1. CASE needed = 0 /\ readed + n < HeaderLen
          <5>1. ~(readed + n >= HeaderLen)
            BY <1>2, <4>1 DEF TypeOK
          <5>2. needed' = 0
            BY <3>2, <4>1, <5>1, Zenon DEF Parse
          <5> QED
            BY <5>2 DEF HeldLengthIncomplete
        <4>2. CASE ~(needed = 0 /\ readed + n < HeaderLen)
          BY <2>1, <3>2, <4>2 DEF Parse
        <4> QED
          BY <4>1, <4>2
      <3> QED
        BY <2>2, <3>1, <3>2 DEF OnSegment, StoreSegment
    <2>3. CASE UNCHANGED <<readed, needed>>
      BY <1>2, <2>3 DEF HeldLengthIncomplete
    <2>4. (\E size \in PayloadSizes : Send(size)) \/ EndOfStream \/ Reattach
            => UNCHANGED <<readed, needed>>
      BY DEF Send, EndOfStream, Reattach, parser
    <2> QED
      BY <1>2, <2>2, <2>3, <2>4 DEF Next, vars, parser
  <1> QED
    BY <1>1, <1>2, TypeCorrect, PTL DEF Spec

\* Segments no longer than the buffer never overrun it.
THEOREM Buffer == Spec => []BufferSuffices
  <1> DEFINE Fits == (MaxSegment <= BufferStart /\ ~ReallocMayFail) =>
                        /\ intact
                        /\ readed < allocated
                        /\ BufferStart <= allocated
  <1>1. Init => Fits
    BY DEF Init
  <1>2. ASSUME TypeOK, TypeOK', Fits, [Next]_vars PROVE Fits'
    <2> SUFFICES ASSUME MaxSegment <= BufferStart, ~ReallocMayFail
                 PROVE  intact' /\ readed' < allocated' /\ BufferStart <= allocated'
      OBVIOUS
    <2>0. /\ intact /\ readed < allocated /\ BufferStart <= allocated
          /\ readed \in Nat /\ allocated \in Nat \ {0} /\ base \in Int
          /\ base' \in Int /\ readed' \in Nat
      BY <1>2 DEF TypeOK
    <2>1. ASSUME NEW n \in 0 .. MaxSegment, OnSegment(n)
          PROVE  intact' /\ readed' < allocated' /\ BufferStart <= allocated'
      <3>1. StoreSegment(readed + n) /\ allocated' = Capacity(readed + n)
        BY <2>1 DEF OnSegment, DropSegment
      <3>2. readed + n < Capacity(readed + n) /\ BufferStart <= Capacity(readed + n)
              /\ Capacity(readed + n) \in Nat
        BY <2>0 DEF Capacity, Grows
      <3>3. intact' /\ Parse(readed + n)
        <4>1. readed + n <= Capacity(readed + n)
          BY <2>0, <3>2
        <4>2. intact' = (intact /\ readed + n <= Capacity(readed + n))
          BY <3>1 DEF StoreSegment
        <4>3. intact'
          BY <2>0, <4>1, <4>2, Zenon
        <4> QED
          BY <3>1, <4>3 DEF StoreSegment
      <3>4. readed' <= readed + n
        <4>1. ASSUME NEW pos \in Int, NEW len \in Nat, NEW have \in Nat,
                     TakeFrame(pos, len, have)
              PROVE  readed' <= have
          BY <4>1 DEF TakeFrame
        <4>2. CASE needed = 0 /\ readed + n < HeaderLen
          BY <2>0, <3>3, <4>2 DEF Parse
        <4>3. CASE needed = 0 /\ readed + n >= HeaderLen
          <5>1. PICK len \in HeaderValues(base) :
                   TakeFrame(base + HeaderLen, len, readed + n - HeaderLen)
            BY <2>0, <3>3, <4>3 DEF Parse
          <5>2. len \in Nat /\ base + HeaderLen \in Int /\ readed + n - HeaderLen \in Nat
            BY <1>2, <2>0, <4>3, HeaderValuesType
          <5>3. readed' <= readed + n - HeaderLen
            BY <4>1, <5>1, <5>2
          <5> QED
            BY <2>0, <5>3
        <4>4. CASE needed # 0
          <5>1. TakeFrame(base, needed, readed + n) /\ needed \in Nat
            BY <1>2, <3>3, <4>4 DEF Parse, TypeOK
          <5> QED
            BY <2>0, <4>1, <5>1
        <4> QED
          BY <2>0, <4>2, <4>3, <4>4
      <3> QED
        BY <2>0, <3>1, <3>2, <3>3, <3>4
    <2>2. ASSUME NEW size \in PayloadSizes, Send(size)
          PROVE  intact' /\ readed' < allocated' /\ BufferStart <= allocated'
      BY <2>0, <2>2 DEF Send, parser
    <2>3. CASE EndOfStream
      BY <2>0, <2>3 DEF EndOfStream, parser
    <2>4. CASE Reattach
      BY <2>0, <2>4 DEF Reattach
    <2>5. CASE UNCHANGED vars
      BY <2>0, <2>5 DEF vars, parser
    <2> QED
      BY <1>2, <2>1, <2>2, <2>3, <2>4, <2>5 DEF Next
  <1>3. TypeOK /\ TypeOK' /\ Fits /\ [Next]_vars => Fits'
    BY <1>2
  <1>4. Fits => BufferSuffices
    BY DEF BufferSuffices
  <1> QED
    BY <1>1, <1>3, <1>4, TypeCorrect, PTL DEF Spec

\* The framing layer implements a FIFO channel of frames: every step of the
\* receiver and its peer is a step of FrameChannel or changes nothing in it.
THEOREM ImplementsChannel == Spec => ChannelSpec
  <1>1. Init => Chan!Init
    BY DEF Init, Chan!Init, Trusted
  <1>2. ASSUME IInv, TypeOK', [Next]_vars PROVE [Chan!Next]_(Chan!vars)
    <2>0. TypeOK
      BY <1>2 DEF IInv
    <2>1. ASSUME NEW size \in PayloadSizes, Send(size) PROVE Chan!Send
      <3> DEFINE f == [at |-> written + HeaderLen, len |-> size]
      <3>1. /\ wire' = Append(wire, f) /\ delivered' = delivered /\ Trusted' = Trusted
        BY <2>1 DEF Send, parser, link, Trusted
      <3>2. f \in Frame
        BY <2>0 DEF TypeOK, Frame
      <3>3. Len(wire') = Len(wire) + 1 /\ \A i \in DOMAIN wire : wire'[i] = wire[i]
        BY <2>0, <3>1, <3>2 DEF TypeOK
      <3> QED
        BY <3>1, <3>3 DEF Chan!Send
    <2>2. ASSUME NEW n \in 0 .. MaxSegment, OnSegment(n)
          PROVE  [Chan!Next]_(Chan!vars)
      <3>1. wire' = wire
        BY <2>2 DEF OnSegment, peer
      <3>2. CASE ~Trusted'
        BY <3>1, <3>2 DEF Chan!Next, Chan!Corrupt
      <3>3. CASE Trusted'
        <4>1. /\ Trusted
              /\ \/ /\ Len(delivered) < Len(wire)
                    /\ delivered' = Append(delivered, wire[Len(delivered) + 1])
                 \/ delivered' = delivered
          BY <1>2, <2>2, <3>3, SegmentFacts
        <4> QED
          BY <3>1, <3>3, <4>1 DEF Chan!Next, Chan!Deliver, Chan!vars
      <3> QED
        BY <3>2, <3>3
    <2>3. CASE EndOfStream
      BY <2>3 DEF EndOfStream, peer, parser, Trusted, Chan!vars
    <2>4. CASE Reattach
      BY <2>4, <1>2 DEF Reattach, Trusted, TypeOK, Chan!Next, Chan!Reopen
    <2>5. CASE UNCHANGED vars
      BY <2>5 DEF vars, peer, parser, link, Trusted, Chan!vars
    <2> QED
      BY <1>2, <2>1, <2>2, <2>3, <2>4, <2>5 DEF Next, Chan!Next
  <1>3. IInv /\ IInv' /\ [Next]_vars => [Chan!Next]_(Chan!vars)
    BY <1>2 DEF IInv
  <1> QED
    BY <1>1, <1>3, Invariant, PTL DEF Spec, ChannelSpec, Chan!Spec
=============================================================================
