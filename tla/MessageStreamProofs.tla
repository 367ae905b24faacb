------------------------ MODULE MessageStreamProofs ------------------------
(***************************************************************************)
(* Proofs about MessageStream, for every size of the header, every set of  *)
(* lengths and any number of messages and connections.                     *)
(***************************************************************************)
EXTENDS MessageStream, TLAPS

USE MsgParserAssumption, MessageStreamAssumption

LEMMA ConstantFacts ==
    /\ HeaderSize \in Nat /\ HeaderSize >= 1 /\ IntMax \in Nat
    /\ \A u \in Unsigned : u \in Nat /\ u <= 2 * IntMax + 1
    /\ Lengths \subseteq Unsigned /\ RawLengths \subseteq Unsigned
BY MsgParserAssumption DEF MsgParserAssumption, Unsigned

(* The remainder is the number in 0..(m - 1) that a multiple of m completes. *)
LEMMA ModIs ==
    ASSUME NEW n \in Int, NEW m \in Nat, m > 0, NEW p \in Int, NEW r \in 0..(m - 1),
           n = m * p + r
    PROVE  n % m = r
<1>1. n % m \in 0..(m - 1) /\ n = m * (n \div m) + (n % m) /\ n \div m \in Int
  OBVIOUS
<1>2. PICK s \in 0..(m - 1), q \in Int : s = n % m /\ n = m * q + s
  BY <1>1
<1>3. m * (p - q) = s - r
  BY <1>2, SMT
<1>4. p - q >= 1 => m * (p - q) >= m
  BY SMT
<1>5. p - q <= -1 => m * (p - q) <= -m
  BY SMT
<1>6. p - q = 0
  BY <1>2, <1>3, <1>4, <1>5
<1>7. QED
  BY <1>2, <1>3, <1>6

LEMMA ToIntFacts ==
    /\ \A n \in Int : ToInt(n) \in Int /\ ToInt(n) <= IntMax
    /\ \A n \in 0..IntMax : ToInt(n) = n
    /\ \A n \in (IntMax + 1)..(2 * IntMax + 1) : ToInt(n) = n - 2 * (IntMax + 1)
<1> DEFINE M == 2 * (IntMax + 1)
<1>1. M \in Nat /\ M > 0
  BY ConstantFacts
<1>2. ASSUME NEW n \in Int PROVE ToInt(n) \in Int /\ ToInt(n) <= IntMax
  <2>1. n + IntMax + 1 \in Int
    BY ConstantFacts
  <2>2. (n + IntMax + 1) % M \in 0..(M - 1)
    BY <1>1, <2>1
  <2>3. QED
    BY <2>2, ConstantFacts DEF ToInt
<1>3. ASSUME NEW n \in 0..IntMax PROVE ToInt(n) = n
  <2>1. /\ n + IntMax + 1 \in Int /\ n + IntMax + 1 \in 0..(M - 1)
        /\ n + IntMax + 1 = M * 0 + (n + IntMax + 1)
    BY ConstantFacts
  <2>2. (n + IntMax + 1) % M = n + IntMax + 1
    BY <1>1, <2>1, ModIs
  <2>3. QED
    BY <2>2, ConstantFacts DEF ToInt
<1>4. ASSUME NEW n \in (IntMax + 1)..(2 * IntMax + 1)
      PROVE  ToInt(n) = n - 2 * (IntMax + 1)
  <2>1. /\ n + IntMax + 1 \in Int /\ n - (IntMax + 1) \in 0..(M - 1)
        /\ n + IntMax + 1 = M * 1 + (n - (IntMax + 1))
    BY ConstantFacts
  <2>2. (n + IntMax + 1) % M = n - (IntMax + 1)
    BY <1>1, <2>1, ModIs
  <2>3. QED
    BY <2>2, ConstantFacts DEF ToInt
<1>5. QED
  BY <1>2, <1>3, <1>4

(* A length field: what fits an int is unharmed, anything else is negative. *)
LEMMA LengthField ==
    ASSUME NEW u \in Unsigned
    PROVE  /\ u \in Nat /\ ToInt(u) \in Int /\ ToInt(u) <= u
           /\ u <= IntMax => ToInt(u) = u
           /\ ToInt(u) >= 0 => u <= IntMax
<1>1. u \in Nat /\ u <= 2 * IntMax + 1
  BY ConstantFacts
<1>2. u \in 0..IntMax \/ u \in (IntMax + 1)..(2 * IntMax + 1)
  BY <1>1, ConstantFacts
<1>3. QED
  BY <1>1, <1>2, ToIntFacts, ConstantFacts

LEMMA ToIntType == \A u \in Unsigned : u \in Nat /\ ToInt(u) \in Int /\ ToInt(u) <= u
BY LengthField

(* The parser between two steps, for any lengths.  i bytes of the need bytes of
   this phase have been stored since ToRecv was entered. *)
ParserInv ==
    /\ pc \in {"idle", "recv", "broke", "undefined"} /\ i \in Nat
    /\ pc = "idle" => i = 0
    /\ i # 0 => i <= need
    /\ need \in Int
    /\ header \in {0, 1}
    /\ header = 0 => msg = NULL /\ 1 <= need /\ need <= HeaderSize
    /\ header = 1 =>
          /\ PossibleMessage(msg)
          /\ need <= ToInt(msg.length)
          /\ need < 0 => need = ToInt(msg.length)

(* Bytes and positions. *)
StreamInv ==
    /\ cache \in [HeaderBytes -> Byte]
    /\ sent \in Seq(Piece)
    /\ front \in Byte /\ unread \in Byte

(* A step of the other end: one more piece, of a byte at least. *)
Sending == TcpClient_SendMsg \/ TcpClient_SendRaw

LEMMA SendStep ==
    ASSUME Sending
    PROVE  \E piece \in Piece :
              /\ conn = "up" /\ sent' = Append(sent, piece)
              /\ whole' = (whole /\ piece.size = HeaderSize + piece.length)
              /\ UNCHANGED <<parserVars, front, unread, conn, callVars, framed, delivered>>
<1>1. PICK length \in Unsigned, size \in 0..IntMax : Send(length, size)
  <2>1. CASE TcpClient_SendMsg
    <3>a. PICK length \in Lengths : \E size \in Accepted(Message_Size(length)) :
             Send(length, size)
      BY <2>1 DEF TcpClient_SendMsg
    <3>1. PICK size \in Accepted(Message_Size(length)) : Send(length, size)
      BY <3>a
    <3>2. Message_Size(length) \in Int /\ Message_Size(length) <= IntMax
      BY ConstantFacts, ToIntFacts DEF Message_Size
    <3>3. size \in 0..IntMax
      BY <3>2, ConstantFacts DEF Accepted
    <3>4. QED
      BY <3>1, <3>3, ConstantFacts
  <2>2. CASE TcpClient_SendRaw
    BY <2>2, ConstantFacts DEF TcpClient_SendRaw
  <2>3. QED
    BY <2>1, <2>2 DEF Sending
<1>2. [length |-> length, size |-> size] \in Piece
  BY <1>1, ConstantFacts DEF Send, Piece
<1>3. QED
  BY <1>1, <1>2 DEF Send

LEMMA AfterType == sent \in Seq(Piece) => \A b \in Byte : After(b) \in Byte
BY DEF After, Byte

LEMMA EndType == sent \in Seq(Piece) => End \in Byte
BY DEF End, Byte

(* A byte stored in the payload keeps the message's shape. *)
LEMMA PossiblePayload ==
    ASSUME NEW m, PossibleMessage(m), NEW o, NEW b \in Byte
    PROVE  /\ PossibleMessage([m EXCEPT !.payload[o] = b])
           /\ [m EXCEPT !.payload[o] = b].length = m.length
           /\ [m EXCEPT !.payload[o] = b].head = m.head
BY DEF PossibleMessage

LEMMA PossibleAllocated ==
    ASSUME cache \in [HeaderBytes -> Byte], NEW length \in Unsigned
    PROVE  PossibleMessage(Allocated(length)) /\ Allocated(length).length = length
BY DEF PossibleMessage, Allocated, Junk, Byte

LEMMA StreamInductive == StreamInv /\ ParserInv /\ [Next]_vars => StreamInv'
<1> SUFFICES ASSUME StreamInv, ParserInv, [Next]_vars PROVE StreamInv'
  OBVIOUS
<1> USE DEF StreamInv
<1>1. CASE Sending
  BY <1>1, SendStep DEF parserVars
<1>2. CASE Arrive
  BY <1>2, AfterType DEF Arrive, parserVars
<1>3. CASE ToRecv_Byte
  BY <1>3, AfterType DEF ToRecv_Byte, StoreInCache, StoreInPayload
<1>4. CASE TcpClient_Close
  BY <1>4, EndType DEF TcpClient_Close, InitState
<1>5. CASE TcpClient_Connect
  BY <1>5, EndType DEF TcpClient_Connect, parserVars
<1>6. CASE \/ Peer_Close \/ TcpClient_RecvMsg \/ ToRecv_Zero \/ ToRecv_Error
          \/ ReadFd_Header \/ ReadFd_Payload \/ Overrun_Damage \/ UNCHANGED vars
  BY <1>6 DEF Peer_Close, TcpClient_RecvMsg, ToRecv_Zero, ToRecv_Error,
       ReadFd_Header, ReadFd_Payload, ToMidState, ToMidStateFails, InitState,
       Overrun_Damage, vars, parserVars, streamVars
<1>7. QED
  BY <1>1, <1>2, <1>3, <1>4, <1>5, <1>6 DEF Next, ReadFd, Sending

LEMMA ParserInductive == StreamInv /\ ParserInv /\ [Next]_vars => ParserInv'
<1> SUFFICES ASSUME StreamInv, ParserInv, [Next]_vars PROVE ParserInv'
  OBVIOUS
<1> USE DEF ParserInv
<1>1. ASSUME UNCHANGED <<parserVars, callVars>> PROVE ParserInv'
  BY <1>1 DEF parserVars, callVars
<1>2. CASE Sending \/ Arrive \/ Peer_Close \/ TcpClient_Connect \/ UNCHANGED vars
  BY <1>1, <1>2, SendStep DEF Arrive, Peer_Close, TcpClient_Connect, vars
<1>3. CASE TcpClient_RecvMsg
  BY <1>3 DEF TcpClient_RecvMsg, ToRecv, parserVars
<1>4. CASE ToRecv_Zero \/ ToRecv_Error
  BY <1>4 DEF ToRecv_Zero, ToRecv_Error, parserVars
<1>5. CASE ToRecv_Byte
  <2>1. /\ pc = "recv" /\ i < need /\ pc' = pc /\ i' = i + 1
        /\ need' = need /\ header' = header
    BY <1>5 DEF ToRecv_Byte, StoreInCache, StoreInPayload
  <2>2. CASE header = 0
    BY <1>5, <2>1, <2>2 DEF ToRecv_Byte, StoreInCache
  <2>3. CASE header = 1
    <3>1. msg' = [msg EXCEPT !.payload[PayloadOffset + i] = unread]
      BY <1>5, <2>3 DEF ToRecv_Byte, StoreInPayload
    <3>2. PossibleMessage(msg)' /\ msg'.length = msg.length
      BY <2>3, <3>1, PossiblePayload DEF StreamInv
    <3>3. QED
      BY <2>1, <2>3, <3>2
  <2>4. QED
    BY <2>2, <2>3
<1>6. CASE ReadFd_Header
  <2>1. CASE i = need
    <3>1. PICK length \in Unsigned :
             \/ ToMidState(length) /\ ToRecv
             \/ ToMidStateFails(length) /\ Return
      BY <1>6, <2>1 DEF ReadFd_Header
    <3>2. CASE ToMidState(length) /\ ToRecv
      BY <3>2, PossibleAllocated, ToIntType
         DEF ToMidState, ToRecv, StreamInv, PossibleMessage
    <3>3. CASE ToMidStateFails(length) /\ Return
      BY <3>3 DEF ToMidStateFails, InitState, Return
    <3>4. QED
      BY <3>1, <3>2, <3>3
  <2>2. CASE i # need
    BY <1>6, <2>2 DEF ReadFd_Header, Return
  <2>3. QED
    BY <2>1, <2>2
<1>7. CASE ReadFd_Payload
  <2>1. CASE need - i = 0
    BY <1>7, <2>1 DEF ReadFd_Payload, InitState, Return
  <2>2. CASE need - i # 0
    <3>1. /\ header = 1 /\ header' = 1 /\ msg' = msg /\ need' = need - i
          /\ pc' = "idle" /\ i' = 0
      BY <1>7, <2>2 DEF ReadFd_Payload, Return
    <3>2. PossibleMessage(msg)' /\ need' <= ToInt(msg'.length)
      <4>1. ToInt(msg.length) \in Int
        BY <3>1, ToIntType DEF PossibleMessage
      <4>2. QED
        BY <3>1, <4>1
    <3>3. need' < 0 => need' = ToInt(msg'.length)
      BY <3>1
    <3>4. QED
      BY <3>1, <3>2, <3>3
  <2>3. QED
    BY <2>1, <2>2
<1>8. CASE TcpClient_Close
  BY <1>8 DEF TcpClient_Close, InitState, callVars
<1>9. CASE Overrun_Damage
  BY <1>9 DEF Overrun_Damage, parserVars, streamVars
<1>10. QED
  BY <1>2, <1>3, <1>4, <1>5, <1>6, <1>7, <1>8, <1>9 DEF Next, ReadFd, Sending

LEMMA ParserInvariant == Spec => [](StreamInv /\ ParserInv)
<1>1. Init => StreamInv /\ ParserInv
  BY DEF Init, ParserInit, StreamInv, ParserInv, Byte, Junk
<1>2. QED
  BY <1>1, StreamInductive, ParserInductive, PTL DEF Spec
-----------------------------------------------------------------------------
(* Positions in the stream: front and unread are bytes of messages that have
   been sent, or the end, and unread is not after front. *)
IsPosition(p) ==
    /\ p \in Byte /\ 1 <= p[1]
    /\ \/ p[1] <= Len(sent) /\ p[2] < WireSize(p[1])
       \/ p = End

NotAfter(p, q) == p[1] < q[1] \/ (p[1] = q[1] /\ p[2] <= q[2])

PositionInv == IsPosition(front) /\ IsPosition(unread) /\ NotAfter(unread, front)

LEMMA PieceType ==
    ASSUME NEW piece \in Piece
    PROVE  /\ piece.length \in Unsigned /\ piece.length \in Nat
           /\ piece.size \in Nat /\ 1 <= piece.size /\ piece.size <= IntMax
BY ConstantFacts DEF Piece

LEMMA WireSizeType ==
    ASSUME sent \in Seq(Piece), NEW k \in 1..Len(sent)
    PROVE  /\ sent[k] \in Piece /\ sent[k].length \in Unsigned /\ sent[k].length \in Nat
           /\ WireSize(k) \in Nat /\ 1 <= WireSize(k)
           /\ Whole(k) => /\ WireSize(k) = HeaderSize + sent[k].length
                          /\ sent[k].length <= IntMax
<1>1. sent[k] \in Piece
  OBVIOUS
<1>2. /\ sent[k].length \in Unsigned /\ sent[k].length \in Nat
      /\ sent[k].size \in Nat /\ 1 <= sent[k].size /\ sent[k].size <= IntMax
  BY <1>1, PieceType
<1>3. QED
  BY <1>1, <1>2, ConstantFacts DEF WireSize, Whole

LEMMA AfterPosition ==
    ASSUME sent \in Seq(Piece), NEW p, IsPosition(p), p # End
    PROVE  IsPosition(After(p)) /\ p[1] \in 1..Len(sent)
<1>1. /\ p[1] \in 1..Len(sent) /\ p[2] \in Nat /\ p[2] < WireSize(p[1])
      /\ p = <<p[1], p[2]>>
  BY DEF IsPosition, Byte
<1>2. WireSize(p[1]) \in Nat
  BY <1>1, WireSizeType
<1>3. CASE p[2] + 1 = WireSize(p[1])
  <2>1. After(p) = <<p[1] + 1, 0>>
    BY <1>3 DEF After
  <2>2. CASE p[1] = Len(sent)
    BY <1>1, <2>1, <2>2 DEF IsPosition, End, Byte
  <2>3. CASE p[1] < Len(sent)
    <3>1. WireSize(p[1] + 1) >= 1 /\ WireSize(p[1] + 1) \in Nat
      <4>1. p[1] + 1 \in 1..Len(sent)
        BY <1>1, <2>3
      <4>2. QED
        BY <4>1, WireSizeType
    <3>2. After(p) \in Byte
      BY <1>1, <2>1 DEF Byte
    <3>3. QED
      BY <1>1, <2>1, <2>3, <3>1, <3>2 DEF IsPosition
  <2>4. QED
    BY <1>1, <2>2, <2>3
<1>4. CASE p[2] + 1 # WireSize(p[1])
  <2>1. After(p) = <<p[1], p[2] + 1>>
    BY <1>4 DEF After
  <2>2. QED
    BY <1>1, <1>2, <1>4, <2>1 DEF IsPosition, Byte
<1>5. QED
  BY <1>1, <1>3, <1>4

(* Reading a byte that has arrived does not overtake the network. *)
LEMMA AfterNotAfter ==
    ASSUME sent \in Seq(Piece), NEW p, NEW q, IsPosition(p), IsPosition(q),
           NotAfter(p, q), p # q
    PROVE  p # End /\ NotAfter(After(p), q)
<1>1. /\ p = <<p[1], p[2]>> /\ p[1] \in Nat /\ p[2] \in Nat
      /\ q = <<q[1], q[2]>> /\ q[1] \in Nat /\ q[2] \in Nat
  BY DEF IsPosition, Byte
<1>2. p # End
  BY <1>1 DEF IsPosition, NotAfter, End
<1>3. p[1] \in 1..Len(sent) /\ p[2] < WireSize(p[1]) /\ WireSize(p[1]) \in Nat
  BY <1>1, <1>2, WireSizeType DEF IsPosition
<1>4. p[1] < q[1] \/ (p[1] = q[1] /\ p[2] < q[2])
  <2>1. p[1] = q[1] => p[2] # q[2]
    BY <1>1
  <2>2. QED
    BY <1>1, <2>1 DEF NotAfter
<1>5. CASE p[2] + 1 = WireSize(p[1])
  <2>1. ~(p[1] = q[1] /\ p[2] < q[2])
    BY <1>1, <1>3, <1>5 DEF IsPosition, End
  <2>2. After(p) = <<p[1] + 1, 0>>
    BY <1>5 DEF After
  <2>3. QED
    BY <1>1, <1>2, <1>4, <2>1, <2>2 DEF NotAfter
<1>6. CASE p[2] + 1 # WireSize(p[1])
  <2>1. After(p) = <<p[1], p[2] + 1>>
    BY <1>6 DEF After
  <2>2. QED
    BY <1>1, <1>2, <1>4, <2>1 DEF NotAfter
<1>7. QED
  BY <1>5, <1>6

(* Sending one more piece moves no byte. *)
LEMMA SentGrows ==
    ASSUME sent \in Seq(Piece), NEW piece \in Piece, sent' = Append(sent, piece)
    PROVE  /\ Len(sent') = Len(sent) + 1
           /\ \A k \in 1..Len(sent) :
                 sent'[k] = sent[k] /\ WireSize(k)' = WireSize(k)
           /\ \A p : IsPosition(p) => IsPosition(p)'
<1>1. Len(sent') = Len(sent) + 1
  OBVIOUS
<1>2. \A k \in 1..Len(sent) : sent'[k] = sent[k] /\ WireSize(k)' = WireSize(k)
  BY DEF WireSize
<1>3. ASSUME NEW p, IsPosition(p) PROVE IsPosition(p)'
  <2>1. CASE p = End
    <3>1. Len(sent) + 1 \in 1..Len(sent') /\ sent'[Len(sent) + 1] = piece
      BY <1>1
    <3>2. sent'[Len(sent) + 1].size > 0
      BY <3>1, PieceType
    <3>3. p \in Byte /\ p[1] = Len(sent) + 1 /\ p[2] = 0
      BY <2>1 DEF End, Byte
    <3>4. QED
      BY <1>1, <3>2, <3>3 DEF IsPosition, WireSize
  <2>2. CASE p # End
    BY <1>1, <1>2, <1>3, <2>2 DEF IsPosition, Byte
  <2>3. QED
    BY <2>1, <2>2
<1>4. QED
  BY <1>1, <1>2, <1>3
-----------------------------------------------------------------------------
LEMMA PositionInductive ==
    StreamInv /\ PositionInv /\ [Next]_vars => PositionInv'
<1> SUFFICES ASSUME StreamInv, PositionInv, [Next]_vars PROVE PositionInv'
  OBVIOUS
<1> USE DEF StreamInv, PositionInv
<1>1. ASSUME UNCHANGED <<sent, front, unread>> PROVE PositionInv'
  BY <1>1 DEF IsPosition, End, WireSize, NotAfter
<1>2. CASE Sending
  <2>1. PICK piece \in Piece : sent' = Append(sent, piece)
    BY <1>2, SendStep
  <2>2. \A p : IsPosition(p) => IsPosition(p)'
    BY <2>1, SentGrows
  <2>3. front' = front /\ unread' = unread
    BY <1>2, SendStep
  <2>4. IsPosition(front)' /\ IsPosition(unread)'
    <3>1. PICK f, u : f = front /\ u = unread
      OBVIOUS
    <3>2. IsPosition(f)' /\ IsPosition(u)'
      BY <2>2, <3>1
    <3>3. QED
      BY <2>3, <3>1, <3>2 DEF IsPosition, End, WireSize
  <2>5. QED
    BY <2>3, <2>4 DEF NotAfter
<1>3. CASE Arrive
  <2>1. front # End /\ front' = After(front) /\ UNCHANGED <<sent, unread>>
    BY <1>3 DEF Arrive
  <2>2. IsPosition(After(front))
    BY <2>1, AfterPosition
  <2>3. IsPosition(front)' /\ IsPosition(unread)'
    BY <2>1, <2>2 DEF IsPosition, End, WireSize
  <2>4. NotAfter(unread, After(front))
    BY DEF NotAfter, After, IsPosition, Byte
  <2>5. QED
    BY <2>1, <2>3, <2>4 DEF NotAfter
<1>4. CASE ToRecv_Byte
  <2>1. unread # front /\ unread' = After(unread) /\ UNCHANGED <<sent, front>>
    BY <1>4 DEF ToRecv_Byte, Available
  <2>2. unread # End /\ NotAfter(After(unread), front)
    BY <2>1, AfterNotAfter
  <2>3. IsPosition(After(unread))
    BY <2>2, AfterPosition
  <2>4. IsPosition(front)' /\ IsPosition(unread)'
    BY <2>1, <2>3 DEF IsPosition, End, WireSize
  <2>5. QED
    BY <2>1, <2>2, <2>4 DEF NotAfter
<1>5. CASE TcpClient_Close \/ TcpClient_Connect
  <2>1. UNCHANGED sent /\ front' = End /\ unread' = End
    BY <1>5 DEF TcpClient_Close, TcpClient_Connect
  <2>2. QED
    BY <2>1, EndType DEF IsPosition, NotAfter, End
<1>6. CASE \/ Peer_Close \/ TcpClient_RecvMsg \/ ToRecv_Zero \/ ToRecv_Error
          \/ ReadFd_Header \/ ReadFd_Payload \/ Overrun_Damage \/ UNCHANGED vars
  BY <1>1, <1>6 DEF Peer_Close, TcpClient_RecvMsg, ToRecv_Zero, ToRecv_Error,
       ReadFd_Header, ReadFd_Payload, Overrun_Damage, vars, streamVars
<1>7. QED
  BY <1>2, <1>3, <1>4, <1>5, <1>6 DEF Next, ReadFd, Sending
-----------------------------------------------------------------------------
(* The parser and the stream agree.  Consumed bytes of a message are in the
   parser, Position(k, n) is the place in the stream after n bytes of k. *)
Consumed ==
    IF header = 0 THEN CacheOffset + i ELSE HeaderSize + PayloadOffset + i

Position(k, n) == IF n = WireSize(k) THEN <<k + 1, 0>> ELSE <<k, n>>

HalfMessage(k) ==
    /\ k \in 1..Len(sent) /\ Whole(k)
    /\ unread = Position(k, Consumed)
    /\ IF header = 0
       THEN \A o \in 0..(Consumed - 1) : cache[o] = <<k, o>>
       ELSE /\ msg.head = HeaderOf(k) /\ msg.length = sent[k].length
            /\ \A o \in 0..(Consumed - HeaderSize - 1) :
                  msg.payload[o] = <<k, HeaderSize + o>>

(* In frame the length fields are those of whole messages, which fit an int. *)
FrameInv ==
    InFrame =>
        /\ need >= 0
        /\ IF Consumed = 0 THEN unread[2] = 0
           ELSE \E k \in 1..Len(sent) : HalfMessage(k)

(* What is still to be read is whole if the connection carries only that. *)
WholeInv == whole => \A k \in 1..Len(sent) : unread[1] <= k => Whole(k)

Messages ==
    UNION { [head : [HeaderBytes -> Byte], length : {length},
             payload : [0..(ToInt(length) - 1) -> Byte]] : length \in Unsigned }

HistoryInv ==
    /\ whole \in BOOLEAN /\ framed \in BOOLEAN
    /\ delivered \in Seq([msg : Messages, framed : BOOLEAN])

MessageInv ==
    /\ StreamInv /\ ParserInv /\ PositionInv
    /\ HistoryInv /\ WholeInv /\ FrameInv

LEMMA MessagesArePossible == \A m : PossibleMessage(m) <=> m \in Messages
BY DEF PossibleMessage, Messages

LEMMA AppendType ==
    \A S : \A s \in Seq(S) : \A e \in S : Append(s, e) \in Seq(S)
OBVIOUS

LEMMA ElementType ==
    \A S : \A s \in Seq(S) : \A d \in 1..Len(s) : s[d] \in S
OBVIOUS

(* An unsigned that is not negative as an int is unharmed. *)
LEMMA ToIntExact ==
    \A length \in Unsigned : ToInt(length) >= 0 =>
        ToInt(length) = length /\ length \in Nat /\ length <= IntMax
BY LengthField

LEMMA HistoryInductive ==
    ParserInv /\ HistoryInv /\ [Next]_vars => HistoryInv'
<1> SUFFICES ASSUME ParserInv, HistoryInv, [Next]_vars PROVE HistoryInv'
  OBVIOUS
<1> USE DEF HistoryInv
<1>1. CASE ReadFd_Payload
  <2>1. header = 1 /\ msg \in Messages /\ UNCHANGED <<whole, framed>>
    BY <1>1, MessagesArePossible DEF ReadFd_Payload, ParserInv
  <2>2. \/ delivered' = delivered
        \/ delivered' = Append(delivered, [msg |-> msg, framed |-> InFrame])
    BY <1>1 DEF ReadFd_Payload
  <2>3. PICK e \in [msg : Messages, framed : BOOLEAN] :
           e = [msg |-> msg, framed |-> InFrame]
    <3>1. InFrame \in BOOLEAN
      BY Zenon DEF InFrame
    <3>2. QED
      BY <2>1, <3>1
  <2>4. Append(delivered, e) \in Seq([msg : Messages, framed : BOOLEAN])
    BY <2>3, AppendType, Zenon
  <2>5. QED
    BY <2>1, <2>2, <2>3, <2>4
<1>2. CASE ReadFd_Header
  BY <1>2 DEF ReadFd_Header
<1>3. CASE TcpClient_Connect
  BY <1>3 DEF TcpClient_Connect, AtInitState
<1>4. CASE \/ Arrive \/ Peer_Close \/ TcpClient_RecvMsg \/ ToRecv_Byte \/ ToRecv_Zero
          \/ ToRecv_Error \/ TcpClient_Close \/ Overrun_Damage \/ UNCHANGED vars
  BY <1>4 DEF Arrive, Peer_Close, TcpClient_RecvMsg, ToRecv_Byte, ToRecv_Zero,
       ToRecv_Error, TcpClient_Close, Overrun_Damage, vars, historyVars
<1>5. CASE Sending
  <2>1. /\ UNCHANGED <<framed, delivered>>
        /\ \E piece \in Piece : whole' = (whole /\ piece.size = HeaderSize + piece.length)
    BY <1>5, SendStep
  <2>2. QED
    BY <2>1
<1>6. QED
  BY <1>1, <1>2, <1>3, <1>4, <1>5 DEF Next, ReadFd, Sending

(* Only a piece that is not whole makes WholeInv false, and unread only grows
   on one connection. *)
LEMMA WholeInductive ==
    StreamInv /\ PositionInv /\ WholeInv /\ [Next]_vars => WholeInv'
<1> SUFFICES ASSUME StreamInv, PositionInv, WholeInv, [Next]_vars PROVE WholeInv'
  OBVIOUS
<1>1. unread \in Byte /\ unread[1] \in Nat /\ sent \in Seq(Piece) /\ Len(sent) \in Nat
  BY DEF StreamInv, Byte
<1>2. ASSUME UNCHANGED <<sent, whole>>, unread'[1] >= unread[1], unread'[1] \in Nat
      PROVE  WholeInv'
  BY <1>1, <1>2 DEF WholeInv, Whole
<1>3. CASE Sending
  <2>1. PICK piece \in Piece :
           /\ sent' = Append(sent, piece) /\ unread' = unread
           /\ whole' = (whole /\ piece.size = HeaderSize + piece.length)
    BY <1>3, SendStep
  <2>2. /\ Len(sent') = Len(sent) + 1 /\ sent'[Len(sent) + 1] = piece
        /\ \A k \in 1..Len(sent) : sent'[k] = sent[k]
    BY <1>1, <2>1
  <2>3. ASSUME whole', NEW k \in 1..Len(sent'), unread[1] <= k PROVE Whole(k)'
    <3>1. whole /\ piece.size = HeaderSize + piece.length
      BY <2>1, <2>3
    <3>2. CASE k \in 1..Len(sent)
      BY <2>2, <2>3, <3>1, <3>2 DEF WholeInv, Whole
    <3>3. CASE k = Len(sent) + 1
      BY <2>2, <3>1, <3>3 DEF Whole
    <3>4. QED
      BY <1>1, <2>2, <3>2, <3>3
  <2>4. QED
    BY <2>1, <2>3 DEF WholeInv
<1>4. CASE ToRecv_Byte
  <2>1. UNCHANGED <<sent, whole>> /\ unread' = After(unread)
    BY <1>4 DEF ToRecv_Byte, historyVars
  <2>2. After(unread)[1] \in Nat /\ After(unread)[1] >= unread[1]
    BY <1>1 DEF After
  <2>3. QED
    BY <1>2, <2>1, <2>2
<1>5. CASE TcpClient_Close \/ TcpClient_Connect
  <2>1. sent' = sent /\ unread'[1] = Len(sent) + 1
    BY <1>5 DEF TcpClient_Close, TcpClient_Connect, End
  <2>2. QED
    BY <1>1, <2>1 DEF WholeInv
<1>6. CASE \/ Arrive \/ Peer_Close \/ TcpClient_RecvMsg \/ ToRecv_Zero \/ ToRecv_Error
          \/ ReadFd_Header \/ ReadFd_Payload \/ Overrun_Damage \/ UNCHANGED vars
  <2>1. UNCHANGED <<sent, unread, whole>>
    BY <1>6 DEF Arrive, Peer_Close, TcpClient_RecvMsg, ToRecv_Zero, ToRecv_Error,
         ReadFd_Header, ReadFd_Payload, Overrun_Damage, vars, streamVars, historyVars
  <2>2. QED
    BY <1>1, <1>2, <2>1
<1>7. QED
  BY <1>3, <1>4, <1>5, <1>6 DEF Next, ReadFd, Sending

(* What the typed parser knows of the number of bytes it has. *)
LEMMA ConsumedType ==
    ASSUME ParserInv, need >= 0
    PROVE  /\ Consumed \in Nat
           /\ header = 0 => Consumed = HeaderSize - need + i /\ Consumed <= HeaderSize
           /\ header = 1 =>
                 /\ ToInt(msg.length) = msg.length /\ msg.length \in Nat
                 /\ msg.length \in Unsigned /\ msg.length <= IntMax
                 /\ PayloadOffset = msg.length - need
                 /\ Consumed = HeaderSize + msg.length - need + i
                 /\ Consumed >= HeaderSize
                 /\ Consumed <= HeaderSize + msg.length
<1>1. CASE header = 0
  <2>1. i <= need
    BY DEF ParserInv
  <2>2. QED
    BY <1>1, <2>1 DEF ParserInv, Consumed, CacheOffset
<1>2. CASE header = 1
  <2>1. /\ PossibleMessage(msg) /\ need <= ToInt(msg.length) /\ i <= need
        /\ need \in Int /\ i \in Nat
    BY <1>2 DEF ParserInv
  <2>2. msg.length \in Unsigned
    BY <2>1 DEF PossibleMessage
  <2>3. msg.length \in Nat /\ ToInt(msg.length) = msg.length /\ msg.length <= IntMax
    <3>1. ToInt(msg.length) \in Int
      BY <2>2, ToIntType
    <3>2. PICK length \in Unsigned : length = msg.length
      BY <2>2
    <3>3. ToInt(length) >= 0
      BY <2>1, <3>1, <3>2
    <3>4. ToInt(length) = length /\ length \in Nat /\ length <= IntMax
      BY <3>3, ToIntExact
    <3>5. QED
      BY <3>2, <3>4
  <2>4. PayloadOffset = msg.length - need
    <3>1. msg.length - need \in 0..IntMax
      BY <2>1, <2>3, ConstantFacts
    <3>2. QED
      BY <3>1, ToIntFacts DEF PayloadOffset
  <2>5. QED
    BY <1>2, <2>1, <2>2, <2>3, <2>4 DEF Consumed
<1>3. QED
  BY <1>1, <1>2 DEF ParserInv

(* Reading one more byte of a message. *)
LEMMA AfterIsNextPosition ==
    ASSUME sent \in Seq(Piece), NEW k \in 1..Len(sent), NEW n \in Nat,
           unread = Position(k, n), unread # End, n < WireSize(k)
    PROVE  After(unread) = Position(k, n + 1)
<1>1. WireSize(k) \in Nat
  BY WireSizeType
<1>2. unread = <<k, n>>
  BY DEF Position
<1>3. unread[1] = k /\ unread[2] = n
  BY <1>2
<1>4. QED
  BY <1>1, <1>3 DEF After, Position

(* A byte that arrives in the cache extends the half message there. *)
LEMMA HeaderByte ==
    MessageInv /\ ToRecv_Byte /\ header = 0 => FrameInv'
<1> SUFFICES ASSUME MessageInv, ToRecv_Byte, header = 0, InFrame
             PROVE  FrameInv'
  <2>1. ToRecv_Byte => UNCHANGED <<whole, framed>>
    BY DEF ToRecv_Byte, historyVars
  <2>2. ~InFrame' => FrameInv'
    BY DEF FrameInv
  <2>3. QED
    BY <2>1, <2>2 DEF InFrame
<1> need >= 0
  BY DEF MessageInv, FrameInv
<1>1. /\ Consumed \in Nat /\ Consumed = CacheOffset + i /\ Consumed < HeaderSize
      /\ need' = need /\ header' = 0 /\ sent' = sent /\ i' = i + 1
      /\ cache' = [cache EXCEPT ![Consumed] = unread]
      /\ unread' = After(unread)
      /\ Consumed' = Consumed + 1
  <2>1. Consumed \in Nat /\ Consumed = HeaderSize - need + i /\ i < need
    BY ConsumedType DEF ToRecv_Byte, MessageInv
  <2>2. QED
    BY <2>1 DEF ToRecv_Byte, StoreInCache, Consumed, CacheOffset, MessageInv, ParserInv
<1>2. unread # End
  BY AfterNotAfter DEF MessageInv, StreamInv, PositionInv, ToRecv_Byte, Available
<1>3. PICK k \in 1..Len(sent) :
         /\ Whole(k) /\ unread = Position(k, Consumed)
         /\ \A o \in 0..(Consumed - 1) : cache[o] = <<k, o>>
  <2>1. CASE Consumed = 0
    <3>1. unread[2] = 0 /\ unread \in Byte /\ unread[1] \in 1..Len(sent)
      <4>1. IsPosition(unread) /\ sent \in Seq(Piece)
        BY DEF MessageInv, StreamInv, PositionInv
      <4>2. unread[1] \in 1..Len(sent)
        BY <1>2, <4>1, AfterPosition
      <4>3. QED
        BY <2>1, <4>2 DEF FrameInv, MessageInv, StreamInv
    <3>2. WireSize(unread[1]) # 0
      BY <3>1, WireSizeType DEF MessageInv, StreamInv
    <3>3. unread = Position(unread[1], 0)
      BY <3>1, <3>2 DEF Position, Byte
    <3>4. Whole(unread[1])
      BY <3>1 DEF MessageInv, WholeInv, InFrame
    <3>5. QED
      BY <2>1, <3>1, <3>3, <3>4
  <2>2. CASE Consumed # 0
    BY <2>2 DEF FrameInv, HalfMessage, MessageInv
  <2>3. QED
    BY <2>1, <2>2
<1>4. Consumed < WireSize(k) /\ WireSize(k) \in Nat
  <2>1. /\ WireSize(k) = HeaderSize + sent[k].length
        /\ WireSize(k) \in Nat /\ sent[k].length \in Nat
    BY <1>3, WireSizeType DEF MessageInv, StreamInv
  <2>2. QED
    BY <1>1, <2>1, ConstantFacts
<1>5. unread = <<k, Consumed>>
  BY <1>3, <1>4 DEF Position
<1>6. unread' = Position(k, Consumed + 1)
  BY <1>1, <1>2, <1>3, <1>4, AfterIsNextPosition DEF MessageInv, StreamInv
<1>7. \A o \in 0..Consumed : cache'[o] = <<k, o>>
  <2>1. cache \in [HeaderBytes -> Byte] /\ 0..Consumed \subseteq HeaderBytes
    BY <1>1 DEF MessageInv, StreamInv, HeaderBytes
  <2>2. QED
    BY <1>1, <1>3, <1>5, <2>1
<1>8. HalfMessage(k)'
  <2>1. Len(sent') = Len(sent) /\ (Consumed + 1) - 1 = Consumed
    BY <1>1
  <2>2. unread' = Position(k, Consumed)'
    BY <1>1, <1>6 DEF Position, WireSize
  <2>3. \A o \in 0..(Consumed' - 1) : cache'[o] = <<k, o>>
    BY <1>1, <1>7, <2>1
  <2>4. QED
    BY <1>1, <1>3, <2>2, <2>3 DEF HalfMessage, Whole
<1>9. QED
  BY <1>1, <1>3, <1>8 DEF FrameInv

(* A byte that arrives in the payload extends the half message there. *)
LEMMA PayloadByte ==
    MessageInv /\ ToRecv_Byte /\ header = 1 => FrameInv'
<1> SUFFICES ASSUME MessageInv, ToRecv_Byte, header = 1, InFrame
             PROVE  FrameInv'
  <2>1. ToRecv_Byte => UNCHANGED <<whole, framed>>
    BY DEF ToRecv_Byte, historyVars
  <2>2. ~InFrame' => FrameInv'
    BY DEF FrameInv
  <2>3. QED
    BY <2>1, <2>2 DEF InFrame
<1> need >= 0
  BY DEF MessageInv, FrameInv
<1>1. /\ i < need /\ need' = need /\ header' = 1 /\ sent' = sent /\ i' = i + 1
      /\ msg' = [msg EXCEPT !.payload[PayloadOffset + i] = unread]
      /\ unread' = After(unread)
  BY DEF ToRecv_Byte, StoreInPayload
<1>2. /\ Consumed \in Nat /\ Consumed - HeaderSize = PayloadOffset + i
      /\ Consumed >= HeaderSize
      /\ msg.length \in Nat /\ ToInt(msg.length) = msg.length
      /\ Consumed < HeaderSize + msg.length
  <2>1. need \in Int /\ i \in Nat
    BY DEF MessageInv, ParserInv
  <2>2. QED
    BY <1>1, <2>1, ConsumedType DEF MessageInv
<1>3. /\ PossibleMessage(msg)
      /\ msg'.length = msg.length /\ msg'.head = msg.head
      /\ \A o \in 0..(Consumed - HeaderSize) :
            msg'.payload[o] = IF o = Consumed - HeaderSize THEN unread
                              ELSE msg.payload[o]
  <2>1. PossibleMessage(msg) /\ unread \in Byte
    BY DEF MessageInv, ParserInv, StreamInv
  <2>2. msg.payload \in [0..(msg.length - 1) -> Byte]
    BY <1>2, <2>1 DEF PossibleMessage
  <2>3. 0..(Consumed - HeaderSize) \subseteq 0..(msg.length - 1)
    BY <1>2
  <2>4. /\ msg'.length = msg.length /\ msg'.head = msg.head
        /\ msg'.payload = [msg.payload EXCEPT ![PayloadOffset + i] = unread]
    BY <1>1, <2>1 DEF PossibleMessage
  <2>5. QED
    BY <1>2, <2>1, <2>2, <2>3, <2>4
<1>4. Consumed' = Consumed + 1
  <2>1. PayloadOffset = msg.length - need /\ need \in Int /\ i \in Nat
    BY ConsumedType DEF MessageInv, ParserInv
  <2>2. PayloadOffset' = PayloadOffset
    BY <1>1, <1>3 DEF PayloadOffset
  <2>3. QED
    BY <1>1, <1>2, <2>1, <2>2, ConstantFacts DEF Consumed
<1>5. unread # End
  BY AfterNotAfter DEF MessageInv, StreamInv, PositionInv, ToRecv_Byte, Available
<1>6. PICK k \in 1..Len(sent) : HalfMessage(k)
  BY <1>2 DEF FrameInv, MessageInv
<1>7. /\ Whole(k) /\ unread = Position(k, Consumed)
      /\ msg.head = HeaderOf(k) /\ msg.length = sent[k].length
      /\ \A o \in 0..(Consumed - HeaderSize - 1) :
            msg.payload[o] = <<k, HeaderSize + o>>
  BY <1>6 DEF HalfMessage
<1>8. Consumed < WireSize(k) /\ unread = <<k, Consumed>>
  BY <1>2, <1>7 DEF WireSize, Whole, Position
<1>9. unread' = Position(k, Consumed + 1)
  BY <1>1, <1>2, <1>5, <1>7, <1>8, AfterIsNextPosition DEF MessageInv, StreamInv
<1>10. \A o \in 0..(Consumed - HeaderSize) : msg'.payload[o] = <<k, HeaderSize + o>>
  <2> TAKE o \in 0..(Consumed - HeaderSize)
  <2>1. CASE o = Consumed - HeaderSize
    <3>1. HeaderSize + o = Consumed
      BY <1>2, <2>1
    <3>2. QED
      BY <1>3, <1>8, <2>1, <3>1
  <2>2. CASE o # Consumed - HeaderSize
    <3>1. o \in 0..(Consumed - HeaderSize - 1)
      BY <1>2, <2>2
    <3>2. QED
      BY <1>3, <1>7, <2>2, <3>1
  <2>3. QED
    BY <2>1, <2>2
<1>11. HalfMessage(k)'
  <2>1. Consumed' - HeaderSize - 1 = Consumed - HeaderSize
    BY <1>2, <1>4
  <2>2. unread' = Position(k, Consumed)'
    BY <1>1, <1>4, <1>9 DEF Position, WireSize
  <2>3. \A o \in 0..(Consumed' - HeaderSize - 1) :
           msg'.payload[o] = <<k, HeaderSize + o>>
    BY <1>10, <2>1
  <2>4. msg'.head = HeaderOf(k) /\ msg'.length = sent'[k].length
    BY <1>1, <1>3, <1>7
  <2>5. QED
    BY <1>1, <1>6, <2>2, <2>3, <2>4 DEF HalfMessage, HeaderOf, HeaderBytes, Whole
<1>12. QED
  BY <1>1, <1>2, <1>4, <1>6, <1>11 DEF FrameInv

(* The state that FrameInv is about. *)
frameVars == <<cache, header, need, msg, i, sent, unread, whole, framed>>

LEMMA FrameUnchanged == FrameInv /\ UNCHANGED frameVars => FrameInv'
BY DEF frameVars, FrameInv, InFrame, HalfMessage, Consumed, CacheOffset, PayloadOffset,
   Position, WireSize, Whole

(* A piece that is sent moves neither the reader nor its half message. *)
LEMMA SendKeepsFrame == MessageInv /\ Sending => FrameInv'
<1> SUFFICES ASSUME MessageInv, Sending PROVE FrameInv'
  OBVIOUS
<1>1. PICK piece \in Piece :
         /\ sent' = Append(sent, piece)
         /\ whole' = (whole /\ piece.size = HeaderSize + piece.length)
         /\ UNCHANGED <<parserVars, unread, callVars, framed>>
  BY SendStep
<1>2. /\ Len(sent') = Len(sent) + 1
      /\ \A k \in 1..Len(sent) : sent'[k] = sent[k] /\ WireSize(k)' = WireSize(k)
  BY <1>1, SentGrows DEF MessageInv, StreamInv
<1>3. /\ need' = need /\ (InFrame' => InFrame) /\ unread' = unread
      /\ header' = header /\ cache' = cache /\ msg' = msg
      /\ Consumed' = Consumed
  BY <1>1 DEF parserVars, callVars, Consumed, CacheOffset, PayloadOffset, InFrame
<1>4. ASSUME NEW k \in 1..Len(sent), HalfMessage(k)
      PROVE  k \in 1..Len(sent') /\ HalfMessage(k)'
  <2>1. Position(k, Consumed)' = Position(k, Consumed)
    BY <1>2, <1>3 DEF Position
  <2>2. k \in 1..Len(sent')
    BY <1>2 DEF MessageInv, StreamInv
  <2>3. QED
    BY <1>2, <1>3, <1>4, <2>1, <2>2 DEF HalfMessage, HeaderOf, HeaderBytes, Whole
<1>5. QED
  BY <1>3, <1>4 DEF MessageInv, FrameInv

(* A complete header decodes to the length of its message. *)
LEMMA HeaderDecodes ==
    ASSUME MessageInv, InFrame, header = 0, i = need,
           NEW length \in Unsigned, Decodes(cache, Fields, length)
    PROVE  /\ Consumed = HeaderSize
           /\ \E k \in 1..Len(sent) :
                 HalfMessage(k) /\ cache = HeaderOf(k) /\ length = sent[k].length
           /\ ToInt(length) = length /\ length \in Nat
<1>1. Consumed = HeaderSize /\ Consumed \in Nat /\ Consumed # 0
  <2>1. ParserInv /\ need >= 0 /\ need \in Int
    BY DEF MessageInv, FrameInv, ParserInv
  <2>2. Consumed = HeaderSize - need + i
    BY <2>1, ConsumedType
  <2>3. QED
    BY <2>1, <2>2, ConstantFacts
<1>2. PICK k \in 1..Len(sent) : HalfMessage(k)
  BY <1>1 DEF FrameInv, MessageInv
<1>3. cache = HeaderOf(k)
  <2>1. \A o \in HeaderBytes : cache[o] = <<k, o>>
    BY <1>1, <1>2 DEF HalfMessage, HeaderBytes
  <2>2. cache \in [HeaderBytes -> Byte]
    BY DEF MessageInv, StreamInv
  <2>3. QED
    BY <2>1, <2>2 DEF HeaderOf
<1>4. length = sent[k].length
  BY <1>3 DEF Decodes, Fields
<1>5. length <= IntMax
  BY <1>2, <1>4, WireSizeType DEF HalfMessage, MessageInv, StreamInv
<1>6. QED
  BY <1>1, <1>2, <1>3, <1>4, <1>5, LengthField

LEMMA HeaderKeepsFrame == MessageInv /\ ReadFd_Header => FrameInv'
<1> SUFFICES ASSUME MessageInv, ReadFd_Header PROVE FrameInv'
  OBVIOUS
<1> whole' = whole
  BY DEF ReadFd_Header
<1>1. /\ header = 0 /\ 1 <= need /\ need <= HeaderSize /\ need \in Int
      /\ i \in Nat /\ (i # 0 => i <= need)
      /\ UNCHANGED <<cache, sent, unread>>
      /\ Consumed = HeaderSize - need + i
  BY DEF ReadFd_Header, MessageInv, ParserInv, ToMidState, ToMidStateFails,
     InitState, streamVars, Consumed, CacheOffset
<1>2. CASE i = need
  <2>1. PICK length \in Unsigned :
           /\ Decodes(cache, Fields, length)
           /\ \/ ToMidState(length) /\ ToRecv /\ UNCHANGED framed
              \/ ToMidStateFails(length) /\ Return /\ framed' = FALSE
    BY <1>1, <1>2 DEF ReadFd_Header
  <2>2. CASE framed' = FALSE
    BY <2>2 DEF FrameInv, InFrame
  <2>3. CASE ToMidState(length) /\ ToRecv /\ UNCHANGED framed
    <3>1. SUFFICES ASSUME InFrame PROVE FrameInv'
      BY <2>3 DEF FrameInv, InFrame
    <3>2. /\ header' = 1 /\ need' = ToInt(length) /\ i' = 0
          /\ msg' = Allocated(length)
      BY <2>3 DEF ToMidState, ToRecv
    <3>3. /\ Consumed = HeaderSize
          /\ ToInt(length) = length /\ length \in Nat
      BY <1>1, <1>2, <2>1, <3>1, HeaderDecodes
    <3>4. PICK k \in 1..Len(sent) :
             HalfMessage(k) /\ cache = HeaderOf(k) /\ length = sent[k].length
      BY <1>1, <1>2, <2>1, <3>1, HeaderDecodes
    <3>5. Consumed' = HeaderSize
      <4>1. msg'.length = length
        BY <3>2 DEF Allocated
      <4>2. PayloadOffset' = ToInt(0)
        BY <3>2, <3>3, <4>1 DEF PayloadOffset
      <4>3. ToInt(0) = 0
        BY ToIntFacts, ConstantFacts
      <4>4. QED
        BY <3>2, <4>2, <4>3 DEF Consumed
    <3>6. msg'.head = HeaderOf(k) /\ msg'.length = sent[k].length
      BY <3>2, <3>4 DEF Allocated
    <3>7. unread' = Position(k, Consumed)'
      BY <1>1, <3>3, <3>4, <3>5 DEF HalfMessage, Position, WireSize
    <3>8. HalfMessage(k)'
      BY <1>1, <3>2, <3>4, <3>5, <3>6, <3>7 DEF HalfMessage, HeaderOf, HeaderBytes, Whole
    <3>9. QED
      BY <1>1, <3>2, <3>3, <3>4, <3>5, <3>8 DEF FrameInv
  <2>4. QED
    BY <2>1, <2>2, <2>3
<1>3. CASE i # need
  <2>1. /\ header' = 0 /\ need' = need - i /\ i' = 0 /\ (framed' <=> framed)
        /\ msg' = msg
    BY <1>1, <1>3 DEF ReadFd_Header, Return
  <2>2. Consumed' = Consumed /\ need >= 0
    BY <1>1, <2>1 DEF Consumed, CacheOffset
  <2>3. \A k \in 1..Len(sent) : HalfMessage(k) => HalfMessage(k)'
    BY <1>1, <2>1, <2>2 DEF HalfMessage, Position, WireSize, Whole
  <2>4. QED
    BY <1>1, <2>1, <2>2, <2>3 DEF FrameInv, MessageInv, InFrame
<1>4. QED
  BY <1>2, <1>3

(* A message handed out is the half message, now whole. *)
LEMMA DeliveredIsWhole ==
    ASSUME MessageInv, ReadFd_Payload, need - i = 0, InFrame
    PROVE  \E k \in 1..Len(sent) :
              IsMessage(msg, k, sent[k].length) /\ unread = <<k + 1, 0>>
<1>1. header = 1 /\ need >= 0 /\ need \in Int /\ i \in Nat /\ PossibleMessage(msg)
  BY DEF ReadFd_Payload, MessageInv, ParserInv
<1>2. /\ Consumed = HeaderSize + msg.length /\ Consumed # 0
      /\ msg.length \in Nat /\ ToInt(msg.length) = msg.length
  BY <1>1, ConsumedType DEF MessageInv
<1>3. PICK k \in 1..Len(sent) : HalfMessage(k)
  BY <1>1, <1>2 DEF FrameInv, MessageInv
<1>4. /\ msg.head = HeaderOf(k) /\ msg.length = sent[k].length
      /\ \A o \in 0..(msg.length - 1) : msg.payload[o] = <<k, HeaderSize + o>>
  <2>1. Consumed - HeaderSize - 1 = msg.length - 1
    BY <1>2, ConstantFacts
  <2>2. /\ msg.head = HeaderOf(k) /\ msg.length = sent[k].length
        /\ \A o \in 0..(Consumed - HeaderSize - 1) :
              msg.payload[o] = <<k, HeaderSize + o>>
    BY <1>1, <1>3 DEF HalfMessage
  <2>3. QED
    BY <2>1, <2>2
<1>5. msg.payload = [o \in 0..(msg.length - 1) |-> <<k, HeaderSize + o>>]
  <2>1. msg.payload \in [0..(msg.length - 1) -> Byte]
    BY <1>1, <1>2 DEF PossibleMessage
  <2>2. QED
    BY <1>4, <2>1
<1>6. unread = <<k + 1, 0>>
  BY <1>2, <1>3, <1>4 DEF HalfMessage, Position, WireSize, Whole
<1>7. QED
  BY <1>3, <1>4, <1>5, <1>6 DEF IsMessage

LEMMA PayloadKeepsFrame == MessageInv /\ ReadFd_Payload => FrameInv'
<1> SUFFICES ASSUME MessageInv, ReadFd_Payload PROVE FrameInv'
  OBVIOUS
<1>1. /\ header = 1 /\ UNCHANGED <<sent, unread>> /\ (InFrame' <=> InFrame)
      /\ i' = 0
  BY DEF ReadFd_Payload, streamVars, Return, InFrame
<1>2. CASE need - i = 0
  <2>1. header' = 0 /\ need' = HeaderSize
    BY <1>2 DEF ReadFd_Payload, InitState
  <2>2. Consumed' = 0
    BY <1>1, <2>1 DEF Consumed, CacheOffset
  <2>3. InFrame => unread[2] = 0
    BY <1>2, DeliveredIsWhole
  <2>4. QED
    BY <1>1, <2>1, <2>2, <2>3, ConstantFacts DEF FrameInv
<1>3. CASE need - i # 0
  <2>1. /\ header' = 1 /\ need' = need - i /\ msg' = msg /\ cache' = cache
    BY <1>1, <1>3 DEF ReadFd_Payload
  <2>2. SUFFICES ASSUME InFrame PROVE FrameInv'
    BY <1>1 DEF FrameInv
  <2>3. need \in Int /\ i \in Nat /\ need >= 0 /\ need' >= 0
    BY <2>1, <2>2 DEF MessageInv, ParserInv, FrameInv
  <2>4. msg.length \in Nat /\ Consumed # 0
    BY <1>1, <2>3, ConsumedType DEF MessageInv
  <2>5. Consumed' = Consumed
    <3>1. /\ msg.length <= IntMax /\ i <= need /\ need <= msg.length
          /\ Consumed = HeaderSize + msg.length - need + i
      BY <1>1, <2>3, ConsumedType DEF MessageInv, ParserInv
    <3>2. msg.length - need' \in 0..IntMax /\ msg.length - need' = msg.length - need + i
      BY <2>1, <2>3, <2>4, <3>1, ConstantFacts
    <3>3. PayloadOffset' = msg.length - need + i
      BY <2>1, <3>2, ToIntFacts DEF PayloadOffset
    <3>4. QED
      BY <1>1, <2>1, <2>3, <2>4, <3>1, <3>3, ConstantFacts DEF Consumed
  <2>6. \A k \in 1..Len(sent) : HalfMessage(k) => HalfMessage(k)'
    BY <1>1, <2>1, <2>5 DEF HalfMessage, Position, WireSize, HeaderOf, HeaderBytes, Whole
  <2>7. QED
    BY <1>1, <2>2, <2>3, <2>5, <2>6 DEF FrameInv, MessageInv
<1>4. QED
  BY <1>2, <1>3

LEMMA FrameInductive == MessageInv /\ [Next]_vars => FrameInv'
<1> SUFFICES ASSUME MessageInv, [Next]_vars PROVE FrameInv'
  OBVIOUS
<1>1. CASE ToRecv_Byte
  BY <1>1, HeaderByte, PayloadByte DEF MessageInv, ParserInv
<1>2. CASE TcpClient_Close \/ TcpClient_Connect
  <2>1. pc = "idle" /\ i = 0 /\ i' = 0 /\ unread'[2] = 0
    BY <1>2 DEF TcpClient_Close, TcpClient_Connect, End, callVars,
         MessageInv, ParserInv
  <2>2. framed' => header' = 0 /\ need' = HeaderSize
    BY <1>2 DEF TcpClient_Close, TcpClient_Connect, InitState, parserVars, AtInitState
  <2>3. framed' => Consumed' = 0
    BY <2>1, <2>2 DEF Consumed, CacheOffset
  <2>4. QED
    BY <2>1, <2>2, <2>3, ConstantFacts DEF FrameInv, InFrame
<1>3. CASE TcpClient_RecvMsg
  <2>1. i = 0 /\ i' = 0
        /\ UNCHANGED <<cache, header, need, msg, sent, unread, whole, framed>>
    BY <1>3 DEF TcpClient_RecvMsg, ToRecv, MessageInv, ParserInv, parserVars,
         streamVars, historyVars
  <2>2. QED
    BY <2>1, FrameUnchanged DEF MessageInv, frameVars
<1>4. CASE \/ Arrive \/ Peer_Close \/ ToRecv_Zero \/ ToRecv_Error \/ Overrun_Damage
          \/ UNCHANGED vars
  <2>1. UNCHANGED frameVars
    BY <1>4 DEF Arrive, Peer_Close, ToRecv_Zero, ToRecv_Error, Overrun_Damage, vars,
         parserVars, streamVars, callVars, historyVars, frameVars
  <2>2. QED
    BY <2>1, FrameUnchanged DEF MessageInv
<1>5. QED
  BY <1>1, <1>2, <1>3, <1>4, SendKeepsFrame, HeaderKeepsFrame, PayloadKeepsFrame
     DEF Next, ReadFd, Sending

LEMMA MessageInvariant == Spec => []MessageInv
<1>1. Init => MessageInv
  <2> SUFFICES ASSUME Init PROVE MessageInv
    OBVIOUS
  <2>1. StreamInv /\ ParserInv
    BY DEF Init, ParserInit, StreamInv, ParserInv, Byte, Junk
  <2>2. PositionInv
    BY DEF Init, PositionInv, IsPosition, NotAfter, End, Byte
  <2>3. HistoryInv /\ WholeInv /\ FrameInv
    BY DEF Init, ParserInit, HistoryInv, WholeInv, FrameInv, Consumed, CacheOffset
  <2>4. QED
    BY <2>1, <2>2, <2>3 DEF MessageInv
<1>2. MessageInv /\ [Next]_vars => MessageInv'
  BY StreamInductive, ParserInductive, PositionInductive, HistoryInductive,
     WholeInductive, FrameInductive DEF MessageInv
<1>3. QED
  BY <1>1, <1>2, PTL DEF Spec

(* The parser never leaves its types. *)
THEOREM StreamTypeCorrect == Spec => []TypeOK
<1> DEFINE RetryInv == retry \in 0..(MaxRetry + 1)
           ConnInv == conn \in {"none", "up", "eof"}
<1>1. Init => RetryInv
  BY DEF Init
<1>2. RetryInv /\ [Next]_vars => RetryInv'
  <2> SUFFICES ASSUME RetryInv, [Next]_vars PROVE RetryInv'
    OBVIOUS
  <2>1. CASE ToRecv_Zero
    BY <2>1 DEF ToRecv_Zero
  <2>2. CASE \/ Arrive \/ Peer_Close \/ TcpClient_RecvMsg
            \/ ToRecv_Byte \/ ToRecv_Error \/ ReadFd_Header \/ ReadFd_Payload
            \/ Overrun_Damage \/ TcpClient_Close \/ TcpClient_Connect \/ UNCHANGED vars
    BY <2>2 DEF Arrive, Peer_Close, TcpClient_RecvMsg,
         ToRecv_Byte, ToRecv_Error, ReadFd_Header, ReadFd_Payload, Overrun_Damage,
         TcpClient_Close, TcpClient_Connect, ToRecv, Return, vars, callVars
  <2>3. CASE Sending
    BY <2>3, SendStep DEF callVars
  <2>4. QED
    BY <2>1, <2>2, <2>3 DEF Next, ReadFd, Sending
<1>3. MessageInv /\ ConnInv /\ RetryInv => TypeOK
  <2> SUFFICES ASSUME MessageInv, ConnInv, RetryInv
               PROVE  TypeOK
    OBVIOUS
  <2>1. \A d \in 1..Len(delivered) :
           PossibleMessage(delivered[d].msg) /\ delivered[d].framed \in BOOLEAN
    <3> TAKE d \in 1..Len(delivered)
    <3>1. delivered[d] \in [msg : Messages, framed : BOOLEAN]
      BY ElementType, Zenon DEF MessageInv, HistoryInv
    <3>2. QED
      BY <3>1, MessagesArePossible
  <2>2. QED
    BY <2>1 DEF MessageInv, StreamInv, ParserInv, HistoryInv, RetryInv, ConnInv, TypeOK
<1>4. Init => ConnInv
  BY DEF Init
<1>5. ConnInv /\ [Next]_vars => ConnInv'
  BY SendStep DEF Next, ReadFd, Sending, Arrive, Peer_Close, TcpClient_RecvMsg,
     ToRecv_Byte, ToRecv_Zero, ToRecv_Error, ReadFd_Header, ReadFd_Payload,
     Overrun_Damage, TcpClient_Close, TcpClient_Connect, vars, streamVars
<1> HIDE DEF RetryInv, ConnInv
<1>6. QED
  BY <1>1, <1>2, <1>3, <1>4, <1>5, MessageInvariant, PTL DEF Spec

(* Whatever the length fields say and wherever they come from, no byte is stored
   outside cache or payload, and a header passes the end of its block only on a
   connection that is out of frame, for a length above INT_MAX. *)
THEOREM WritesStayInBounds == Spec => []OnlyForeignHeadersOverrun
<1>1. MessageInv => OnlyForeignHeadersOverrun
  <2> SUFFICES ASSUME MessageInv PROVE OnlyForeignHeadersOverrun
    OBVIOUS
  <2>1. ASSUME pc = "recv", i < need
        PROVE  IF header = 0 THEN CacheOffset + i \in HeaderBytes
               ELSE PayloadOffset + i \in DOMAIN msg.payload
    <3>1. ParserInv /\ need >= 0 /\ need \in Int /\ i \in Nat /\ header \in {0, 1}
      BY <2>1 DEF MessageInv, ParserInv
    <3>2. CASE header = 0
      BY <2>1, <3>1, <3>2, ConstantFacts DEF ParserInv, CacheOffset, HeaderBytes
    <3>3. CASE header = 1
      <4>1. /\ PayloadOffset = msg.length - need
            /\ msg.length \in Nat /\ ToInt(msg.length) = msg.length
        BY <3>1, <3>3, ConsumedType
      <4>2. DOMAIN msg.payload = 0..(msg.length - 1) /\ need <= msg.length
        BY <3>1, <3>3, <4>1 DEF ParserInv, PossibleMessage
      <4>3. QED
        BY <2>1, <3>1, <3>3, <4>1, <4>2
    <3>4. QED
      BY <3>1, <3>2, <3>3
  <2>2. ASSUME ~HeaderFits PROVE msg.length > IntMax /\ ~InFrame
    <3>1. header = 1 /\ PossibleMessage(msg) /\ ParserInv
      BY <2>2 DEF HeaderFits, MessageInv, ParserInv
    <3>2. PICK length \in Unsigned : length = msg.length
      BY <3>1 DEF PossibleMessage
    <3>3. ToInt(length) \in Int /\ ToInt(length) < 0
      <4>1. ~(HeaderSize <= HeaderSize + ToInt(length))
        BY <2>2, <3>2 DEF HeaderFits, BlockSize
      <4>2. QED
        BY <3>2, <4>1, LengthField, ConstantFacts
    <3>4. length > IntMax
      BY <3>2, <3>3, LengthField, ConstantFacts
    <3>5. InFrame => ToInt(msg.length) >= 0
      BY <3>1, ConsumedType DEF MessageInv, FrameInv
    <3>6. QED
      BY <3>2, <3>3, <3>4, <3>5
  <2>3. QED
    BY <2>1, <2>2 DEF OnlyForeignHeadersOverrun
<1>2. QED
  BY <1>1, MessageInvariant, PTL

(* In frame need is what its comment says, a count, for whatever lengths SendMsg
   is given and whatever other connections carried. *)
THEOREM NeedStaysACount == Spec => []NeedIsACountInFrame
<1>1. MessageInv => NeedIsACountInFrame
  BY DEF MessageInv, FrameInv, NeedIsACountInFrame
<1>2. QED
  BY <1>1, MessageInvariant, PTL

(* Whatever interrupts the calls, and whatever happened on the connections
   before, a message returned on a connection in frame is one that was sent. *)
THEOREM MessagesAreIntact == Spec => []FramedMessagesAreIntact
<1>1. Init => FramedMessagesAreIntact
  BY DEF Init, FramedMessagesAreIntact
<1>2. MessageInv /\ FramedMessagesAreIntact /\ [Next]_vars
         => FramedMessagesAreIntact'
  <2> SUFFICES ASSUME MessageInv, FramedMessagesAreIntact, [Next]_vars
               PROVE  FramedMessagesAreIntact'
    OBVIOUS
  <2>1. ASSUME UNCHANGED <<sent, delivered>> PROVE FramedMessagesAreIntact'
    BY <2>1 DEF FramedMessagesAreIntact, IsMessage, HeaderOf, HeaderBytes
  <2>2. CASE Sending
    <3>1. PICK piece \in Piece : sent' = Append(sent, piece)
      BY <2>2, SendStep
    <3>2. /\ Len(sent') = Len(sent) + 1 /\ Len(sent) \in Nat
          /\ \A k \in 1..Len(sent) : sent'[k] = sent[k]
      BY <3>1, SentGrows DEF MessageInv, StreamInv
    <3>3. delivered' = delivered
      BY <2>2, SendStep
    <3>4. ASSUME NEW d \in 1..Len(delivered), delivered[d].framed
          PROVE  \E k \in 1..Len(sent') : IsMessage(delivered[d].msg, k, sent'[k].length)
      <4>1. PICK k \in 1..Len(sent) : IsMessage(delivered[d].msg, k, sent[k].length)
        BY <3>4 DEF FramedMessagesAreIntact
      <4>2. QED
        BY <3>2, <4>1
    <3>5. QED
      BY <3>3, <3>4 DEF FramedMessagesAreIntact, IsMessage, HeaderOf, HeaderBytes
  <2>3. CASE ReadFd_Payload /\ need - i = 0
    <3>1. /\ delivered' = Append(delivered, [msg |-> msg, framed |-> InFrame])
          /\ sent' = sent
      BY <2>3 DEF ReadFd_Payload, streamVars
    <3>2. InFrame => \E k \in 1..Len(sent) : IsMessage(msg, k, sent[k].length)
      BY <2>3, DeliveredIsWhole
    <3>3. delivered \in Seq([msg : Messages, framed : BOOLEAN])
      BY DEF MessageInv, HistoryInv
    <3>4. /\ Len(delivered') = Len(delivered) + 1 /\ Len(delivered) \in Nat
          /\ \A d \in 1..Len(delivered) : delivered'[d] = delivered[d]
          /\ delivered'[Len(delivered) + 1] = [msg |-> msg, framed |-> InFrame]
      BY <3>1, <3>3
    <3>5. ASSUME NEW d \in 1..Len(delivered'), delivered'[d].framed
          PROVE  \E k \in 1..Len(sent) : IsMessage(delivered'[d].msg, k, sent[k].length)
      <4>1. CASE d = Len(delivered) + 1
        BY <3>2, <3>4, <3>5, <4>1
      <4>2. CASE d # Len(delivered) + 1
        <5>1. d \in 1..Len(delivered) /\ delivered'[d] = delivered[d]
          BY <3>4, <4>2
        <5>2. QED
          BY <3>5, <5>1 DEF FramedMessagesAreIntact
      <4>3. QED
        BY <4>1, <4>2
    <3>6. QED
      BY <3>1, <3>5 DEF FramedMessagesAreIntact, IsMessage, HeaderOf, HeaderBytes
  <2>4. CASE ReadFd_Payload /\ need - i # 0
    BY <2>1, <2>4 DEF ReadFd_Payload, streamVars
  <2>5. CASE \/ Arrive \/ Peer_Close \/ TcpClient_RecvMsg \/ ToRecv_Byte
            \/ ToRecv_Zero \/ ToRecv_Error \/ ReadFd_Header \/ Overrun_Damage
            \/ TcpClient_Close \/ TcpClient_Connect \/ UNCHANGED vars
    BY <2>1, <2>5 DEF Arrive, Peer_Close, TcpClient_RecvMsg, ToRecv_Byte,
         ToRecv_Zero, ToRecv_Error, ReadFd_Header, Overrun_Damage, TcpClient_Close,
         TcpClient_Connect, vars, streamVars, historyVars
  <2>6. QED
    BY <2>2, <2>3, <2>4, <2>5 DEF Next, ReadFd, Sending
<1>3. QED
  BY <1>1, <1>2, MessageInvariant, PTL DEF Spec
-----------------------------------------------------------------------------
(***************************************************************************)
(* MessageStream implements MessageChannel, when connections are closed    *)
(* before they are replaced, memory does not run out, nothing is sent raw  *)
(* and the size of every message fits an int.  The step from the one to    *)
(* the other is that the connection then never leaves frame.               *)
(***************************************************************************)

(* A call runs on a connection, and a closed connection has a fresh parser. *)
FrameKeptInv ==
    /\ pc \in {"recv", "broke"} => conn # "none"
    /\ CloseFirst /\ ~MallocMayFail =>
          /\ whole => framed
          /\ conn = "none" => AtInitState

LEMMA FrameKeptInductive ==
    MessageInv /\ FrameKeptInv /\ [Next]_vars => FrameKeptInv'
<1> SUFFICES ASSUME MessageInv, FrameKeptInv, [Next]_vars PROVE FrameKeptInv'
  OBVIOUS
<1>1. CASE Sending
  <2>1. /\ conn = "up" /\ (whole' => whole)
        /\ UNCHANGED <<parserVars, conn, callVars, framed>>
    BY <1>1, SendStep
  <2>2. QED
    BY <2>1 DEF FrameKeptInv, callVars
<1>2. CASE Arrive \/ Peer_Close \/ UNCHANGED vars
  BY <1>2 DEF FrameKeptInv, Arrive, Peer_Close, vars,
       parserVars, streamVars, callVars, historyVars, AtInitState
<1>3. CASE TcpClient_RecvMsg \/ ToRecv_Byte \/ ToRecv_Zero \/ ToRecv_Error
           \/ ReadFd_Payload
  <2>1. conn # "none" /\ conn' = conn /\ UNCHANGED <<whole, framed>>
    BY <1>3 DEF FrameKeptInv, TcpClient_RecvMsg, ToRecv_Byte, ToRecv_Zero,
         ToRecv_Error, ReadFd_Payload, ToRecv_Returned, streamVars, historyVars
  <2>2. QED
    BY <2>1 DEF FrameKeptInv
<1>4. CASE ReadFd_Header
  <2>1. conn # "none" /\ conn' = conn /\ whole' = whole
    BY <1>4 DEF FrameKeptInv, ReadFd_Header, ToRecv_Returned, streamVars
  <2>2. ASSUME ~MallocMayFail, InFrame PROVE framed'
    <3>1. ASSUME i = need,
                 NEW length \in Unsigned, Decodes(cache, Fields, length)
          PROVE  ~ToMidStateFails(length)
      <4>1. ToInt(length) = length /\ length \in Nat
        BY <1>4, <2>2, <3>1, HeaderDecodes DEF ReadFd_Header
      <4>2. QED
        BY <2>2, <4>1, ConstantFacts DEF ToMidStateFails, MallocPossible, BlockSize
    <3>2. QED
      BY <1>4, <2>2, <3>1 DEF ReadFd_Header, InFrame
  <2>3. QED
    BY <2>1, <2>2 DEF FrameKeptInv, InFrame
<1>5. CASE TcpClient_Close
  BY <1>5 DEF FrameKeptInv, TcpClient_Close, callVars, historyVars,
       InitState, AtInitState
<1>6. CASE TcpClient_Connect
  BY <1>6 DEF FrameKeptInv, TcpClient_Connect, callVars, parserVars, AtInitState
<1>7. CASE Overrun_Damage
  BY <1>7 DEF FrameKeptInv, Overrun_Damage, parserVars, streamVars, historyVars,
       AtInitState
<1>8. QED
  BY <1>1, <1>2, <1>3, <1>4, <1>5, <1>6, <1>7 DEF Next, ReadFd, Sending

LEMMA FrameKeptInvariant == Spec => []FrameKeptInv
<1>1. Init => FrameKeptInv
  BY DEF Init, ParserInit, FrameKeptInv, AtInitState
<1>2. QED
  BY <1>1, FrameKeptInductive, MessageInvariant, PTL DEF Spec

(* A user who closes before he connects stays in frame while memory lasts. *)
THEOREM FramesAreKept == Spec => []ClosedFirstStaysInFrame
<1>1. FrameKeptInv => ClosedFirstStaysInFrame
  BY DEF FrameKeptInv, ClosedFirstStaysInFrame
<1>2. QED
  BY <1>1, FrameKeptInvariant, PTL
-----------------------------------------------------------------------------
(* What the mapping needs to know of a state. *)
Received == [d \in 1..Len(delivered) |-> delivered[d].msg.head[0][1]]

LEMMA NextOutUnchanged ==
    UNCHANGED <<cache, header, need, msg, i, unread>> => NextOut' = NextOut
BY DEF NextOut, CacheOffset

(* The first byte of a message names it, the others change nothing. *)
LEMMA ByteKeepsNextOut ==
    MessageInv /\ InFrame /\ ToRecv_Byte => NextOut' = NextOut
<1> SUFFICES ASSUME MessageInv, InFrame, ToRecv_Byte PROVE NextOut' = NextOut
  OBVIOUS
<1>1. /\ i < need /\ i \in Nat /\ need \in Int /\ header \in {0, 1}
      /\ need' = need /\ header' = header /\ i' = i + 1
  BY DEF ToRecv_Byte, StoreInCache, StoreInPayload, MessageInv, ParserInv
<1>2. CASE header = 0
  <2>1. /\ need <= HeaderSize
        /\ cache' = [cache EXCEPT ![HeaderSize - need + i] = unread]
        /\ cache \in [0..(HeaderSize - 1) -> Byte]
    BY <1>2 DEF ToRecv_Byte, StoreInCache, CacheOffset, MessageInv, ParserInv,
         StreamInv, HeaderBytes
  <2>2. NextOut' = cache'[0][1]
    BY <1>1, <1>2, <2>1 DEF NextOut, CacheOffset
  <2>3. CASE HeaderSize - need + i = 0
    <3>1. NextOut = unread[1] /\ cache'[0] = unread
      BY <1>1, <1>2, <2>1, <2>3 DEF NextOut, CacheOffset
    <3>2. QED
      BY <2>2, <3>1
  <2>4. CASE HeaderSize - need + i # 0
    <3>1. NextOut = cache[0][1] /\ cache'[0] = cache[0]
      BY <1>1, <1>2, <2>1, <2>4 DEF NextOut, CacheOffset
    <3>2. QED
      BY <2>2, <3>1
  <2>5. QED
    BY <2>3, <2>4
<1>3. CASE header = 1
  <2>1. msg' = [msg EXCEPT !.payload[PayloadOffset + i] = unread] /\ unread \in Byte
    BY <1>3 DEF ToRecv_Byte, StoreInPayload, MessageInv, StreamInv
  <2>2. msg'.head = msg.head
    BY <1>3, <2>1, PossiblePayload DEF MessageInv, ParserInv
  <2>3. QED
    BY <1>1, <1>3, <2>2 DEF NextOut
<1>4. QED
  BY <1>1, <1>2, <1>3

(* Neither does the step from the header to the payload. *)
LEMMA HeaderKeepsNextOut ==
    MessageInv /\ ReadFd_Header /\ framed' => NextOut' = NextOut
<1> SUFFICES ASSUME MessageInv, ReadFd_Header, framed' PROVE NextOut' = NextOut
  OBVIOUS
<1>1. /\ header = 0 /\ need <= HeaderSize /\ need \in Int /\ i \in Nat
      /\ need >= 1 /\ UNCHANGED <<cache, unread>>
  BY DEF ReadFd_Header, MessageInv, ParserInv, ToMidState, ToMidStateFails,
     InitState, streamVars
<1>2. CASE i = need
  <2>1. header' = 1 /\ \E length \in Unsigned : msg' = Allocated(length)
    BY <1>1, <1>2 DEF ReadFd_Header, ToMidState
  <2>2. msg'.head = cache
    BY <2>1 DEF Allocated
  <2>3. NextOut = cache[0][1]
    BY <1>1, <1>2 DEF NextOut, CacheOffset
  <2>4. QED
    BY <2>1, <2>2, <2>3 DEF NextOut
<1>3. CASE i # need
  <2>1. header' = 0 /\ need' = need - i /\ i' = 0
    BY <1>1, <1>3 DEF ReadFd_Header, Return
  <2>2. QED
    BY <1>1, <2>1 DEF NextOut, CacheOffset
<1>4. QED
  BY <1>2, <1>3
-----------------------------------------------------------------------------
LEMMA ReceivedUnchanged == UNCHANGED delivered => Received' = Received
BY DEF Received

(* Handing out a message is Receive. *)
LEMMA DeliverIsReceive ==
    ASSUME MessageInv, InFrame, ReadFd_Payload, need - i = 0
    PROVE  /\ NextOut \in 1..Len(sent)
           /\ Received' = Append(Received, NextOut)
           /\ NextOut' = NextOut + 1
           /\ UNCHANGED sent
<1>1. /\ header = 1 /\ header' = 0 /\ need' = HeaderSize /\ i' = 0
      /\ UNCHANGED <<sent, unread>>
      /\ delivered' = Append(delivered, [msg |-> msg, framed |-> InFrame])
  BY DEF ReadFd_Payload, InitState, Return, streamVars
<1>2. PICK k \in 1..Len(sent) :
         IsMessage(msg, k, sent[k].length) /\ unread = <<k + 1, 0>>
  BY DeliveredIsWhole
<1>3. NextOut = k /\ msg.head[0][1] = k
  <2>1. 0 \in HeaderBytes
    BY DEF HeaderBytes
  <2>2. msg.head[0] = <<k, 0>>
    BY <1>2, <2>1 DEF IsMessage, HeaderOf
  <2>3. QED
    BY <1>1, <2>2 DEF NextOut
<1>4. NextOut' = k + 1
  BY <1>1, <1>2 DEF NextOut, CacheOffset
<1>5. Received' = Append(Received, k)
  <2>1. PICK e : e = [msg |-> msg, framed |-> InFrame]
    OBVIOUS
  <2>2. e.msg.head[0][1] = k
    BY <1>3, <2>1
  <2>3. delivered' = Append(delivered, e)
    BY <1>1, <2>1
  <2>4. PICK S : delivered \in Seq(S) /\ e \in S
    <3>1. msg \in Messages
      BY <1>1, MessagesArePossible DEF MessageInv, ParserInv
    <3>2. e \in [msg : Messages, framed : BOOLEAN]
      <4>1. InFrame \in BOOLEAN
        BY Zenon DEF InFrame, MessageInv, HistoryInv
      <4>2. QED
        BY <2>1, <3>1, <4>1
    <3>3. QED
      BY <3>2, Zenon DEF MessageInv, HistoryInv
  <2>5. /\ Len(delivered') = Len(delivered) + 1 /\ Len(delivered) \in Nat
        /\ \A d \in 1..Len(delivered) : delivered'[d] = delivered[d]
        /\ delivered'[Len(delivered) + 1] = e
    BY <2>3, <2>4
  <2>6. Received' = [d \in 1..(Len(delivered) + 1) |->
                        IF d = Len(delivered) + 1 THEN k
                        ELSE delivered[d].msg.head[0][1]]
    BY <2>2, <2>5 DEF Received
  <2>7. QED
    BY <2>5, <2>6 DEF Received
<1>6. QED
  BY <1>1, <1>2, <1>3, <1>4, <1>5

(* A closed or replaced connection is Replace. *)
LEMMA CloseIsReplace ==
    MessageInv /\ framed' /\ (TcpClient_Close \/ TcpClient_Connect)
        => NextOut' = Len(sent) + 1 /\ UNCHANGED <<sent, delivered>>
<1> SUFFICES ASSUME MessageInv, framed', TcpClient_Close \/ TcpClient_Connect
             PROVE  NextOut' = Len(sent) + 1 /\ UNCHANGED <<sent, delivered>>
  OBVIOUS
<1>1. /\ i' = 0 /\ unread' = <<Len(sent) + 1, 0>> /\ UNCHANGED <<sent, delivered>>
  BY DEF TcpClient_Close, TcpClient_Connect, End, callVars, historyVars,
     MessageInv, ParserInv
<1>2. header' = 0 /\ need' = HeaderSize
  BY DEF TcpClient_Close, TcpClient_Connect, InitState, AtInitState, parserVars
<1>3. QED
  BY <1>1, <1>2 DEF NextOut, CacheOffset

LEMMA AppendIs ==
    ASSUME NEW n \in Nat, NEW g, NEW e, NEW s, s = [k \in 1..n |-> g[k]]
    PROVE  Append(s, e) = [k \in 1..(n + 1) |-> IF k = n + 1 THEN e ELSE g[k]]
OBVIOUS

(* Without raw pieces and sizes that do not fit, what goes out is whole. *)
LEMMA MessagesAreSent ==
    ASSUME RawSizes = {}, \A length \in Lengths : HeaderSize + length <= IntMax,
           sent \in Seq(Piece), whole \in BOOLEAN, Sending
    PROVE  /\ whole' = whole
           /\ \E length \in Lengths : Fields' = Append(Fields, length)
<1>1. PICK length \in Lengths : \E size \in Accepted(Message_Size(length)) :
         Send(length, size)
  BY DEF Sending, TcpClient_SendMsg, TcpClient_SendRaw
<1>2. PICK size \in Accepted(Message_Size(length)) : Send(length, size)
  BY <1>1
<1>3. HeaderSize + length \in 0..IntMax
  BY ConstantFacts
<1>4. Message_Size(length) = HeaderSize + length
  BY <1>3, ToIntFacts DEF Message_Size
<1>5. size = HeaderSize + length
  BY <1>3, <1>4 DEF Accepted
<1>6. /\ sent' = Append(sent, [length |-> length, size |-> size])
      /\ whole' = (whole /\ size = HeaderSize + length)
  BY <1>2 DEF Send
<1>7. Fields' = Append(Fields, length)
  <2>a. length \in Unsigned /\ size \in 1..IntMax
    BY <1>2, <1>3, <1>5, ConstantFacts DEF Send
  <2>b. [length |-> length, size |-> size] \in Piece
    BY <2>a DEF Piece
  <2>1. PICK piece \in Piece :
           piece.length = length /\ sent' = Append(sent, piece)
    BY <1>6, <2>b
  <2>2. /\ Len(sent') = Len(sent) + 1 /\ Len(sent) \in Nat
        /\ \A k \in 1..Len(sent) : sent'[k] = sent[k]
        /\ sent'[Len(sent) + 1] = piece
    BY <2>1
  <2>3. Fields' = [k \in 1..(Len(sent) + 1) |->
                      IF k = Len(sent) + 1 THEN length ELSE sent[k].length]
    BY <2>1, <2>2 DEF Fields
  <2>4. Fields = [k \in 1..Len(sent) |-> Fields[k]]
    BY DEF Fields
  <2>5. Append(Fields, length) =
           [k \in 1..(Len(sent) + 1) |->
               IF k = Len(sent) + 1 THEN length ELSE Fields[k]]
    BY <2>2, <2>4, AppendIs
  <2>6. \A k \in 1..Len(sent) : Fields[k] = sent[k].length
    BY DEF Fields
  <2>7. QED
    BY <2>2, <2>3, <2>5, <2>6
<1>8. whole' = whole
  BY <1>5, <1>6
<1>9. QED
  BY <1>7, <1>8

LEMMA FieldsUnchanged == UNCHANGED sent => Fields' = Fields
BY DEF Fields

LEMMA NextRefinesChannel ==
    ASSUME MessageInv, InFrame, framed', [Next]_vars,
           RawSizes = {}, \A length \in Lengths : HeaderSize + length <= IntMax
    PROVE  [Channel!Next]_(Channel!vars)
<1> DEFINE Step ==
        \/ /\ \E length \in Lengths : Fields' = Append(Fields, length)
           /\ NextOut' = NextOut /\ Received' = Received
        \/ /\ NextOut <= Len(Fields) /\ Received' = Append(Received, NextOut)
           /\ NextOut' = NextOut + 1 /\ Fields' = Fields
        \/ NextOut' = Len(Fields) + 1 /\ Fields' = Fields /\ Received' = Received
        \/ Fields' = Fields /\ NextOut' = NextOut /\ Received' = Received
<1> SUFFICES Step
  BY DEF Received, Channel!Next, Channel!Send, Channel!Receive,
     Channel!Replace, Channel!vars
<1>0. Len(Fields) = Len(sent) /\ Len(sent) \in Nat
  BY DEF Fields, MessageInv, StreamInv
<1>1. CASE Sending
  <2>1. UNCHANGED <<cache, header, need, msg, i, unread, delivered>>
    BY <1>1, SendStep DEF parserVars, callVars
  <2>2. \E length \in Lengths : Fields' = Append(Fields, length)
    <3>1. sent \in Seq(Piece) /\ whole \in BOOLEAN
      BY DEF MessageInv, StreamInv, HistoryInv
    <3>2. QED
      BY <1>1, <3>1, MessagesAreSent
  <2>3. QED
    BY <2>1, <2>2, NextOutUnchanged, ReceivedUnchanged
<1>2. CASE ReadFd_Payload
  <2>1. CASE need - i = 0
    BY <1>0, <1>2, <2>1, DeliverIsReceive, FieldsUnchanged
  <2>2. CASE need - i # 0
    <3>1. /\ header = 1 /\ header' = 1 /\ msg' = msg
          /\ UNCHANGED <<sent, delivered>>
      BY <1>2, <2>2 DEF ReadFd_Payload, streamVars
    <3>2. NextOut' = NextOut
      BY <3>1 DEF NextOut
    <3>3. QED
      BY <3>1, <3>2, ReceivedUnchanged, FieldsUnchanged
  <2>3. QED
    BY <2>1, <2>2
<1>3. CASE TcpClient_Close \/ TcpClient_Connect
  BY <1>0, <1>3, CloseIsReplace, ReceivedUnchanged, FieldsUnchanged
<1>4. CASE ToRecv_Byte
  <2>1. UNCHANGED <<sent, delivered>>
    BY <1>4 DEF ToRecv_Byte, historyVars
  <2>2. QED
    BY <1>4, <2>1, ByteKeepsNextOut, ReceivedUnchanged, FieldsUnchanged
<1>5. CASE ReadFd_Header
  <2>1. UNCHANGED <<sent, delivered>>
    BY <1>5 DEF ReadFd_Header, streamVars
  <2>2. QED
    BY <1>5, <2>1, HeaderKeepsNextOut, ReceivedUnchanged, FieldsUnchanged
<1>6. CASE TcpClient_RecvMsg
  <2>1. UNCHANGED <<cache, header, need, msg, i, unread, sent, delivered>>
    BY <1>6 DEF TcpClient_RecvMsg, ToRecv, parserVars, streamVars, historyVars,
         MessageInv, ParserInv
  <2>2. QED
    BY <2>1, NextOutUnchanged, ReceivedUnchanged, FieldsUnchanged
<1>7. CASE \/ Arrive \/ Peer_Close \/ ToRecv_Zero \/ ToRecv_Error \/ Overrun_Damage
          \/ UNCHANGED vars
  <2>1. UNCHANGED <<cache, header, need, msg, i, unread, sent, delivered>>
    BY <1>7 DEF Arrive, Peer_Close, ToRecv_Zero, ToRecv_Error, Overrun_Damage, vars,
         parserVars, streamVars, callVars, historyVars
  <2>2. QED
    BY <2>1, NextOutUnchanged, ReceivedUnchanged, FieldsUnchanged
<1>8. QED
  BY <1>1, <1>2, <1>3, <1>4, <1>5, <1>6, <1>7 DEF Next, ReadFd, Sending

LEMMA InitRefinesChannel == Init => Channel!Init
<1> SUFFICES ASSUME Init PROVE Channel!Init
  OBVIOUS
<1>1. header = 0 /\ need = HeaderSize /\ i = 0 /\ unread = <<1, 0>>
      /\ sent = <<>> /\ delivered = <<>>
  BY DEF Init, ParserInit
<1>2. NextOut = 1
  BY <1>1 DEF NextOut, CacheOffset
<1>3. [d \in 1..Len(delivered) |-> delivered[d].msg.head[0][1]] = <<>>
  BY <1>1
<1>4. Fields = <<>>
  BY <1>1 DEF Fields
<1>5. QED
  BY <1>1, <1>2, <1>3, <1>4 DEF Channel!Init

(* Messages come out whole, in order and once, however many there are and
   whatever interrupts the calls. *)
THEOREM StreamRefinesChannel ==
    ASSUME CloseFirst, ~MallocMayFail, RawSizes = {},
           \A length \in Lengths : HeaderSize + length <= IntMax
    PROVE  Spec => ImplementsMessageChannel
<1> DEFINE Kept == whole = TRUE
<1>1. Init => Kept
  BY DEF Init
<1>2. MessageInv /\ Kept /\ [Next]_vars => Kept'
  <2> SUFFICES ASSUME MessageInv, Kept, [Next]_vars PROVE Kept'
    OBVIOUS
  <2>1. CASE Sending
    <3>1. sent \in Seq(Piece) /\ whole \in BOOLEAN
      BY DEF MessageInv, StreamInv, HistoryInv
    <3>2. QED
      BY <2>1, <3>1, MessagesAreSent
  <2>2. CASE ~Sending
    BY <2>2 DEF Next, ReadFd, Sending, Arrive, Peer_Close, TcpClient_RecvMsg,
         ToRecv_Byte, ToRecv_Zero, ToRecv_Error, ReadFd_Header, ReadFd_Payload,
         Overrun_Damage, TcpClient_Close, TcpClient_Connect, vars, historyVars
  <2>3. QED
    BY <2>1, <2>2
<1>3. FrameKeptInv /\ Kept => InFrame
  BY DEF FrameKeptInv, InFrame
<1>4. FrameKeptInv /\ MessageInv /\ Kept /\ FrameKeptInv' /\ Kept' /\ [Next]_vars
         => [Channel!Next]_(Channel!vars)
  <2> SUFFICES ASSUME FrameKeptInv, MessageInv, Kept, FrameKeptInv', Kept', [Next]_vars
               PROVE  [Channel!Next]_(Channel!vars)
    OBVIOUS
  <2>1. InFrame /\ framed'
    BY <1>3 DEF FrameKeptInv
  <2> HIDE DEF Kept
  <2>2. QED
    BY <2>1, NextRefinesChannel
<1> HIDE DEF Kept
<1>5. QED
  BY <1>1, <1>2, <1>4, InitRefinesChannel, MessageInvariant, FrameKeptInvariant, PTL
     DEF Spec, ImplementsMessageChannel, Channel!Spec
=============================================================================
