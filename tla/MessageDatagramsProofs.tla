----------------------- MODULE MessageDatagramsProofs -----------------------
(***************************************************************************)
(* Proofs about MessageDatagrams, for every size of the header and of the  *)
(* buffer, any remotes and any datagrams, lost, repeated and reordered.    *)
(***************************************************************************)
EXTENDS MessageDatagrams, TLAPS

USE MsgParserAssumption, MessageDatagramsAssumption

(* The part of datagram k that is in the buffer. *)
Got(k) == IF sent[k].size > BufSize THEN BufSize ELSE sent[k].size

(* The parser is at a header. *)
Reading == pc = "copied" \/ (pc = "read" /\ header = 0)

(* What has the shape of a message. *)
Messages ==
    UNION {[head : [HeaderBytes -> Byte], length : {field},
            payload : [0..(ToInt(field) - 1) -> Byte]] : field \in Unsigned}
Deliveries == [msg : Messages, remote : Remotes]

(* How far the parser and the call are, for any lengths. *)
CallInv ==
    /\ header = 0 => 1 <= need /\ need <= HeaderSize
    /\ header = 1 =>
          /\ need <= ToInt(msg.length)
          /\ msg.length <= IntMax => need >= 0
    /\ pc \in {"read", "copied"} => raddr \in 1..Len(sent)
    /\ Reading => header = 0 /\ mem = 0 /\ 1 <= length /\ length = Got(raddr)
    /\ pc = "copied" => len = Taken
    /\ delivered \in Seq(Deliveries)

(* The first byte of the header, where there is one, came first in a datagram
   that was sent; and as long as the header has only bytes of the datagram at
   hand, they are that datagram's first. *)
HeaderInv ==
    /\ cache[0][1] \in 0..Len(sent)
    /\ pc = "copied" \/ header = 1 \/ need < HeaderSize => cache[0][2] = 0
    /\ pc = "copied" /\ need = HeaderSize => \A o \in 0..(len - 1) : cache[o] = <<raddr, o>>

(* A message whose datagram is whole is never in parts: its header is not
   waited for, and its payload is at hand as soon as its header is known. *)
PartInv ==
    /\ header = 0 /\ need < HeaderSize =>
          \A k \in 1..Len(sent) : Whole(k) => cache[0][1] # k
    /\ header = 1 =>
          /\ msg.head[0][1] \in 0..Len(sent)
          /\ \A k \in 1..Len(sent) : msg.head = HeaderOf(k) /\ Whole(k) =>
                /\ pc = "read" /\ raddr = k /\ mem = HeaderSize
                /\ msg.length = sent[k].length
                /\ need = msg.length /\ length = msg.length

(* What was delivered. *)
DeliveredInv ==
    /\ \A d \in 1..Len(delivered) : delivered[d].msg.head[0][1] \in 0..Len(sent)
    /\ OnlyPartsAreMixed

(* A parser that was in its initial state has only bytes of this datagram. *)
FreshInv ==
    pc \in {"read", "copied"} /\ fresh =>
        /\ Reading => need = HeaderSize
        /\ header = 1 /\ Whole(raddr) => need = length

-----------------------------------------------------------------------------
LEMMA ConstantFacts ==
    /\ HeaderSize \in Nat /\ HeaderSize >= 1 /\ IntMax \in Nat
    /\ \A u \in Unsigned : u \in Nat /\ u <= 2 * IntMax + 1
    /\ Lengths \subseteq Unsigned /\ RawLengths \subseteq Unsigned
BY MsgParserAssumption DEF MsgParserAssumption, Unsigned

(* The remainder is the number in 0..(m - 1) that a multiple of m completes. *)
LEMMA ModIs ==
    ASSUME NEW n \in Int, NEW m \in Nat, m > 0, NEW p \in Int, NEW r \in 0..(m - 1),
           n = m * p + r
    PROVE  n % m = r
<1>1. n % m \in 0..(m - 1) /\ n = m * (n \div m) + (n % m) /\ n \div m \in Int
  OBVIOUS
<1>2. PICK s \in 0..(m - 1), q \in Int : s = n % m /\ n = m * q + s
  BY <1>1
<1>3. m * (p - q) = s - r
  BY <1>2, SMT
<1>4. p - q >= 1 => m * (p - q) >= m
  BY SMT
<1>5. p - q <= -1 => m * (p - q) <= -m
  BY SMT
<1>6. p - q = 0
  BY <1>2, <1>3, <1>4, <1>5
<1>7. QED
  BY <1>2, <1>3, <1>6

LEMMA ToIntFacts ==
    /\ \A n \in Int : ToInt(n) \in Int /\ ToInt(n) <= IntMax
    /\ \A n \in 0..IntMax : ToInt(n) = n
    /\ \A n \in (IntMax + 1)..(2 * IntMax + 1) : ToInt(n) = n - 2 * (IntMax + 1)
<1> DEFINE M == 2 * (IntMax + 1)
<1>1. M \in Nat /\ M > 0
  BY ConstantFacts
<1>2. ASSUME NEW n \in Int PROVE ToInt(n) \in Int /\ ToInt(n) <= IntMax
  <2>1. n + IntMax + 1 \in Int
    BY ConstantFacts
  <2>2. (n + IntMax + 1) % M \in 0..(M - 1)
    BY <1>1, <2>1
  <2>3. QED
    BY <2>2, ConstantFacts DEF ToInt
<1>3. ASSUME NEW n \in 0..IntMax PROVE ToInt(n) = n
  <2>1. /\ n + IntMax + 1 \in Int /\ n + IntMax + 1 \in 0..(M - 1)
        /\ n + IntMax + 1 = M * 0 + (n + IntMax + 1)
    BY ConstantFacts
  <2>2. (n + IntMax + 1) % M = n + IntMax + 1
    BY <1>1, <2>1, ModIs
  <2>3. QED
    BY <2>2, ConstantFacts DEF ToInt
<1>4. ASSUME NEW n \in (IntMax + 1)..(2 * IntMax + 1)
      PROVE  ToInt(n) = n - 2 * (IntMax + 1)
  <2>1. /\ n + IntMax + 1 \in Int /\ n - (IntMax + 1) \in 0..(M - 1)
        /\ n + IntMax + 1 = M * 1 + (n - (IntMax + 1))
    BY ConstantFacts
  <2>2. (n + IntMax + 1) % M = n - (IntMax + 1)
    BY <1>1, <2>1, ModIs
  <2>3. QED
    BY <2>2, ConstantFacts DEF ToInt
<1>5. QED
  BY <1>2, <1>3, <1>4

(* A length field: what fits an int is unharmed, anything else is negative. *)
LEMMA LengthField ==
    ASSUME NEW u \in Unsigned
    PROVE  /\ u \in Nat /\ ToInt(u) \in Int /\ ToInt(u) <= u
           /\ u <= IntMax => ToInt(u) = u
           /\ ToInt(u) >= 0 => u <= IntMax
<1>1. u \in Nat /\ u <= 2 * IntMax + 1
  BY ConstantFacts
<1>2. u \in 0..IntMax \/ u \in (IntMax + 1)..(2 * IntMax + 1)
  BY <1>1, ConstantFacts
<1>3. QED
  BY <1>1, <1>2, ToIntFacts, ConstantFacts

LEMMA LengthsType == \A field \in Unsigned : field \in Nat /\ ToInt(field) \in Int
BY LengthField

LEMMA MessageIsPossible == \A m : PossibleMessage(m) <=> m \in Messages
BY DEF PossibleMessage, Messages

LEMMA MessageType ==
    ASSUME NEW m \in Messages
    PROVE  /\ m.length \in Unsigned /\ m.length \in Nat /\ m.head \in [HeaderBytes -> Byte]
           /\ m.payload \in [0..(ToInt(m.length) - 1) -> Byte]
           /\ ToInt(m.length) \in Int /\ (m.length <= IntMax => ToInt(m.length) = m.length)
<1>1. PICK field \in Unsigned :
         m \in [head : [HeaderBytes -> Byte], length : {field},
                payload : [0..(ToInt(field) - 1) -> Byte]]
  BY DEF Messages
<1>2. m.length = field
  BY <1>1
<1>3. m.length \in Unsigned /\ m.length \in Nat
  BY <1>1, <1>2, LengthsType
<1>4. QED
  BY <1>1, <1>2, <1>3, LengthField

LEMMA WithPayload ==
    ASSUME NEW m \in Messages, NEW p
    PROVE  [m EXCEPT !.payload = p] = [head |-> m.head, length |-> m.length, payload |-> p]
BY DEF Messages

LEMMA NewMessage ==
    ASSUME NEW field \in Unsigned, NEW head \in [HeaderBytes -> Byte],
           NEW payload \in [0..(ToInt(field) - 1) -> Byte]
    PROVE  [head |-> head, length |-> field, payload |-> payload] \in Messages
BY DEF Messages

LEMMA AllocatedType ==
    ASSUME cache \in [HeaderBytes -> Byte], NEW field \in Unsigned
    PROVE  /\ Allocated(field) \in Messages
           /\ Allocated(field).length = field /\ Allocated(field).head = cache
<1>1. [o \in 0..(ToInt(field) - 1) |-> Junk] \in [0..(ToInt(field) - 1) -> Byte]
  BY DEF Junk, Byte
<1>2. QED
  BY <1>1, NewMessage DEF Allocated

LEMMA MemcpyType ==
    ASSUME NEW D \in SUBSET Int, NEW buffer \in [D -> Byte], NEW at \in Int, NEW n \in Int,
           raddr \in Nat, mem \in Nat
    PROVE  Memcpy(buffer, at, n) \in [D -> Byte]
<1>1. ASSUME NEW o \in D, o \in at..(at + n - 1) PROVE <<raddr, mem + o - at>> \in Byte
  BY <1>1 DEF Byte
<1>2. QED
  BY <1>1 DEF Memcpy

LEMMA TakenType ==
    ASSUME need \in Int, length \in Nat
    PROVE  /\ Taken \in 0..length
           /\ 0 <= need => Taken <= need
           /\ need = length => Taken = length
BY DEF Taken

LEMMA SendStep ==
    ASSUME TypeOK, NEW remote \in Remotes,
           UdpPoint_SendMsg(remote) \/ UdpPoint_SendRaw(remote)
    PROVE  \E d \in Datagram :
              sent' = Append(sent, d) /\ UNCHANGED <<parserVars, callVars, fresh, delivered>>
<1>1. \A field \in Lengths :
         field \in Unsigned /\ (Message_Size(field) >= 0 => Message_Size(field) \in 0..IntMax)
  <2> TAKE field \in Lengths
  <2>1. field \in Unsigned /\ field \in Nat
    BY ConstantFacts
  <2>2. HeaderSize + field \in Int
    BY <2>1, ConstantFacts
  <2>3. Message_Size(field) \in Int /\ Message_Size(field) <= IntMax
    BY <2>2, ToIntFacts DEF Message_Size
  <2>4. QED
    BY <2>1, <2>3, ConstantFacts
<1>2. RawLengths \subseteq Unsigned /\ RawSizes \subseteq 0..IntMax
  BY ConstantFacts, MessageDatagramsAssumption
<1>3. \A field \in Unsigned, size \in 0..IntMax :
         [from |-> remote, length |-> field, size |-> size] \in Datagram
  BY DEF Datagram
<1>4. QED
  BY <1>1, <1>2, <1>3 DEF UdpPoint_SendMsg, UdpPoint_SendRaw, Send

LEMMA SentGrows ==
    ASSUME sent \in Seq(Datagram), NEW d \in Datagram, sent' = Append(sent, d)
    PROVE  /\ sent' \in Seq(Datagram) /\ Len(sent') = Len(sent) + 1
           /\ \A k \in 1..Len(sent) :
                 sent'[k] = sent[k] /\ Got(k)' = Got(k) /\ (Whole(k)' <=> Whole(k))
<1>1. /\ sent' \in Seq(Datagram) /\ Len(sent') = Len(sent) + 1
      /\ \A k \in 1..Len(sent) : sent'[k] = sent[k]
  OBVIOUS
<1>2. QED
  BY <1>1 DEF Got, Whole
-----------------------------------------------------------------------------
(* One lemma for each action: what it does, in terms of the invariants. *)
LEMMA RecvMsgStep ==
    ASSUME TypeOK, NEW k \in 1..Len(sent), UdpPoint_RecvMsg(k)
    PROVE  /\ pc = "idle" /\ pc' = "read" /\ raddr' = k /\ mem' = 0
           /\ length' = Got(k) /\ length' \in 1..BufSize /\ fresh' = AtInitState
           /\ UNCHANGED <<cache, header, need, msg, sent, len, delivered>>
<1>1. sent[k].size \in Nat /\ sent[k].size > 0
  <2>1. sent[k] \in Datagram
    BY DEF TypeOK
  <2>2. QED
    BY <2>1, ConstantFacts DEF Datagram, UdpPoint_RecvMsg
<1>2. QED
  BY <1>1 DEF UdpPoint_RecvMsg, Got, parserVars

LEMMA HeaderStep ==
    ASSUME TypeOK, CallInv, ReadMem_Header
    PROVE  /\ pc = "copied" /\ header = 0 /\ mem = 0 /\ len = Taken
           /\ UNCHANGED <<cache, sent, fresh, delivered>>
           /\ \/ /\ need = len
                 /\ pc' = "read" /\ raddr' = raddr /\ mem' = need /\ len' = 0
                 /\ length' = length - need /\ length' \in Nat
                 /\ \E field \in Unsigned :
                       /\ Decodes(cache, Fields, field)
                       /\ header' = 1 /\ need' = ToInt(field) /\ msg' = Allocated(field)
              \/ /\ need = len /\ pc' = "idle" /\ Return
                 /\ header' = 0 /\ need' = HeaderSize /\ msg' = NULL
              \/ /\ need # len /\ pc' = "idle" /\ Return
                 /\ need' = need - len /\ need' >= 1 /\ UNCHANGED <<header, msg>>
<1>1. /\ pc = "copied" /\ header = 0 /\ mem = 0 /\ len = Taken
      /\ need \in 1..HeaderSize /\ length \in Nat
  BY DEF ReadMem_Header, CallInv, Reading, TypeOK
<1>2. Taken \in 0..length /\ Taken <= need
  BY <1>1, TakenType
<1>3. CASE need = len
  <2>1. PICK field \in Unsigned :
           /\ Decodes(cache, Fields, field)
           /\ \/ ToMidState(field) /\ Continue
              \/ ToMidStateFails(field) /\ GiveUp
    BY <1>3 DEF ReadMem_Header
  <2>2. CASE ToMidState(field) /\ Continue
    <3>1. /\ header' = 1 /\ need' = ToInt(field) /\ msg' = Allocated(field)
          /\ pc' = "read" /\ raddr' = raddr /\ mem' = need /\ len' = 0
          /\ length' = length - need /\ cache' = cache
      BY <1>1, <2>2 DEF ToMidState, Continue
    <3>2. length' \in Nat
      BY <1>1, <1>2, <1>3, <3>1
    <3>3. QED
      BY <1>1, <1>3, <2>1, <3>1, <3>2 DEF ReadMem_Header
  <2>3. CASE ToMidStateFails(field) /\ GiveUp
    BY <1>1, <1>3, <2>3 DEF ReadMem_Header, ToMidStateFails, InitState, GiveUp, Return
  <2>4. QED
    BY <2>1, <2>2, <2>3
<1>4. CASE need # len
  BY <1>1, <1>2, <1>4 DEF ReadMem_Header, Return
<1>5. QED
  BY <1>3, <1>4

(* The message with the bytes at hand copied into it. *)
After == [msg EXCEPT !.payload = Memcpy(msg.payload, PayloadOffset, Taken)]

LEMMA PayloadStep ==
    ASSUME TypeOK, CallInv, ReadMem_Payload
    PROVE  /\ pc = "read" /\ header = 1 /\ pc' = "idle" /\ Return
           /\ UNCHANGED <<cache, sent, fresh>>
           /\ After \in Messages /\ After.head = msg.head /\ After.length = msg.length
           /\ \/ /\ need = Taken
                 /\ delivered' = Append(delivered, [msg |-> After, remote |-> sent[raddr].from])
                 /\ header' = 0 /\ need' = HeaderSize /\ msg' = NULL
              \/ /\ need # Taken /\ need' = need - Taken /\ msg' = After
                 /\ UNCHANGED <<header, delivered>>
<1>1. pc = "read" /\ header = 1 /\ pc' = "idle" /\ Return /\ UNCHANGED <<sent, fresh>>
  BY DEF ReadMem_Payload, Return
<1>2. msg \in Messages
  BY <1>1, MessageIsPossible DEF TypeOK
<1>3. /\ msg.length \in Unsigned /\ msg.length \in Nat /\ msg.head \in [HeaderBytes -> Byte]
      /\ msg.payload \in [0..(ToInt(msg.length) - 1) -> Byte]
      /\ ToInt(msg.length) \in Int
  BY <1>2, MessageType
<1>4. /\ PayloadOffset \in Int /\ Taken \in Int /\ raddr \in Nat /\ mem \in Nat
  <2>1. need \in Int /\ length \in Nat /\ raddr \in Nat /\ mem \in Nat
    BY DEF TypeOK
  <2>2. Taken \in Int
    BY <2>1, TakenType
  <2>3. PayloadOffset \in Int
    <3>1. msg.length - need \in Int
      BY <1>3, <2>1
    <3>2. QED
      BY <3>1, ToIntFacts DEF PayloadOffset
  <2>4. QED
    BY <2>1, <2>2, <2>3
<1>5. Memcpy(msg.payload, PayloadOffset, Taken) \in [0..(ToInt(msg.length) - 1) -> Byte]
  <2>1. PICK D \in SUBSET Int : D = 0..(ToInt(msg.length) - 1)
    BY <1>3
  <2>2. msg.payload \in [D -> Byte]
    BY <1>3, <2>1
  <2>3. Memcpy(msg.payload, PayloadOffset, Taken) \in [D -> Byte]
    BY <1>4, <2>2, MemcpyType
  <2>4. QED
    BY <2>1, <2>3
<1>6. After = [head |-> msg.head, length |-> msg.length,
               payload |-> Memcpy(msg.payload, PayloadOffset, Taken)]
  BY <1>2, WithPayload DEF After
<1>7. After \in Messages
  BY <1>3, <1>5, <1>6, NewMessage
<1>8. QED
  BY <1>1, <1>6, <1>7 DEF ReadMem_Payload, InitState, After

LEMMA CopyStep ==
    ASSUME TypeOK, CallInv, ReadMem_Copy
    PROVE  /\ pc = "read" /\ header = 0 /\ pc' = "copied" /\ mem = 0
           /\ need \in 1..HeaderSize /\ length >= 1
           /\ len' = Taken /\ Taken \in 1..length /\ Taken <= need
           /\ cache' \in [HeaderBytes -> Byte]
           /\ cache' = Memcpy(cache, CacheOffset, Taken)
           /\ UNCHANGED <<header, need, msg, sent, raddr, mem, length, fresh, delivered>>
<1>1. /\ pc = "read" /\ header = 0 /\ pc' = "copied" /\ mem = 0
      /\ need \in 1..HeaderSize /\ length \in Nat /\ length >= 1
      /\ len' = Taken /\ cache' = Memcpy(cache, CacheOffset, Taken)
      /\ UNCHANGED <<header, need, msg, sent, raddr, mem, length, fresh, delivered>>
  BY DEF ReadMem_Copy, CallInv, Reading, TypeOK
<1>2. Taken \in 1..length /\ Taken <= need
  BY <1>1 DEF Taken
<1>3. cache' \in [HeaderBytes -> Byte]
  <2>1. cache \in [HeaderBytes -> Byte] /\ HeaderBytes \in SUBSET Int /\ CacheOffset \in Int
    BY <1>1 DEF HeaderBytes, TypeOK, CacheOffset
  <2>2. raddr \in Nat /\ mem \in Nat /\ Taken \in Int
    BY <1>2 DEF TypeOK
  <2>3. QED
    BY <1>1, <2>1, <2>2, MemcpyType
<1>4. QED
  BY <1>1, <1>2, <1>3
-----------------------------------------------------------------------------
LEMMA DamageStep ==
    ASSUME Overrun_Damage
    PROVE  /\ ~HeaderFits /\ pc # "undefined" /\ pc' = "undefined"
           /\ UNCHANGED <<cache, header, need, msg, sent, raddr, mem, length, len, fresh,
                          delivered>>
BY DEF Overrun_Damage, parserVars

(* Only a length field above INT_MAX makes a block shorter than a header. *)
LEMMA FitsWhenLengthFits ==
    ASSUME TypeOK, header = 1 => msg.length <= IntMax PROVE HeaderFits
<1> SUFFICES ASSUME header = 1 PROVE HeaderSize <= BlockSize(ToInt(msg.length))
  BY DEF HeaderFits
<1>1. msg \in Messages
  BY MessageIsPossible DEF TypeOK
<1>2. ToInt(msg.length) = msg.length /\ msg.length \in Nat
  BY <1>1, MessageType
<1>3. QED
  BY <1>2, ConstantFacts DEF BlockSize

LEMMA TypeInit == Init => TypeOK /\ CallInv
<1> SUFFICES ASSUME Init PROVE TypeOK /\ CallInv
  OBVIOUS
<1>1. cache \in [HeaderBytes -> Byte] /\ sent \in Seq(Datagram) /\ delivered \in Seq(Deliveries)
  BY DEF Init, ParserInit, Junk, Byte
<1>2. header = 0 /\ need = HeaderSize /\ msg = NULL /\ pc = "idle" /\ delivered = <<>>
      /\ fresh = TRUE /\ raddr = 0 /\ mem = 0 /\ length = 0 /\ len = 0 /\ sent = <<>>
  BY DEF Init, ParserInit
<1>3. QED
  BY <1>1, <1>2 DEF TypeOK, CallInv, Reading

LEMMA DeliveredType ==
    \A s \in Seq(Deliveries) : \A d \in 1..Len(s) :
        PossibleMessage(s[d].msg) /\ s[d].remote \in Remotes
<1> SUFFICES ASSUME NEW s \in Seq(Deliveries), NEW d \in 1..Len(s)
             PROVE  PossibleMessage(s[d].msg) /\ s[d].remote \in Remotes
  OBVIOUS
<1>1. s[d] \in Deliveries
  OBVIOUS
<1>2. QED
  BY <1>1, MessageIsPossible DEF Deliveries

LEMMA TypeStep == TypeOK /\ CallInv /\ [Next]_vars => TypeOK' /\ CallInv'
<1> SUFFICES ASSUME TypeOK, CallInv, [Next]_vars PROVE TypeOK' /\ CallInv'
  OBVIOUS
<1>a. ASSUME delivered' \in Seq(Deliveries)
      PROVE  \A d \in 1..Len(delivered') :
                PossibleMessage(delivered'[d].msg) /\ delivered'[d].remote \in Remotes
  BY <1>a, DeliveredType
<1>1. ASSUME NEW remote \in Remotes,
             UdpPoint_SendMsg(remote) \/ UdpPoint_SendRaw(remote)
      PROVE  TypeOK' /\ CallInv'
  <2>1. PICK d \in Datagram :
           sent' = Append(sent, d) /\ UNCHANGED <<parserVars, callVars, fresh, delivered>>
    BY <1>1, SendStep
  <2>2. /\ sent' \in Seq(Datagram) /\ Len(sent') = Len(sent) + 1
        /\ \A k \in 1..Len(sent) : Got(k)' = Got(k)
    BY <2>1, SentGrows DEF TypeOK
  <2>3. Len(sent) \in Nat
    BY DEF TypeOK
  <2>4. TypeOK'
    BY <2>1, <2>2, <2>3 DEF TypeOK, parserVars, callVars
  <2>5. CallInv'
    <3>1. pc \in {"read", "copied"} => Got(raddr)' = Got(raddr)
      BY <2>1, <2>2 DEF CallInv, callVars, Reading
    <3>2. pc \in {"read", "copied"} => raddr \in 1..Len(sent')
      BY <2>2, <2>3 DEF CallInv, Reading
    <3>3. QED
      BY <2>1, <3>1, <3>2 DEF CallInv, Reading, Taken, parserVars, callVars, Got
  <2>6. QED
    BY <2>4, <2>5
<1>2. ASSUME NEW k \in 1..Len(sent), UdpPoint_RecvMsg(k) PROVE TypeOK' /\ CallInv'
  <2>1. /\ pc = "idle" /\ pc' = "read" /\ raddr' = k /\ mem' = 0
        /\ length' = Got(k) /\ length' \in 1..BufSize /\ fresh' = AtInitState
        /\ UNCHANGED <<cache, header, need, msg, sent, len, delivered>>
    BY <1>2, RecvMsgStep
  <2>2. TypeOK'
    BY <2>1 DEF TypeOK, AtInitState
  <2>3. Got(k)' = Got(k)
    BY <2>1 DEF Got
  <2>4. CallInv'
    BY <2>1, <2>3 DEF CallInv, Reading, Got
  <2>5. QED
    BY <2>2, <2>4
<1>3. CASE ReadMem_Copy
  <2>1. /\ pc = "read" /\ header = 0 /\ pc' = "copied" /\ mem = 0
        /\ need \in 1..HeaderSize /\ length >= 1
        /\ len' = Taken /\ Taken \in 1..length /\ Taken <= need
        /\ cache' \in [HeaderBytes -> Byte]
        /\ UNCHANGED <<header, need, msg, sent, raddr, mem, length, fresh, delivered>>
    BY <1>3, CopyStep
  <2>2. TypeOK'
    BY <2>1 DEF TypeOK
  <2>3. Taken' = Taken /\ Got(raddr)' = Got(raddr)
    BY <2>1 DEF Taken, Got
  <2>4. CallInv'
    BY <2>1, <2>3 DEF CallInv, Reading
  <2>5. QED
    BY <2>2, <2>4
<1>4. CASE ReadMem_Header
  <2>1. /\ pc = "copied" /\ header = 0 /\ mem = 0 /\ len = Taken
        /\ UNCHANGED <<cache, sent, fresh, delivered>>
        /\ \/ /\ need = len
              /\ pc' = "read" /\ raddr' = raddr /\ mem' = need /\ len' = 0
              /\ length' = length - need /\ length' \in Nat
              /\ \E field \in Unsigned :
                    /\ Decodes(cache, Fields, field)
                    /\ header' = 1 /\ need' = ToInt(field) /\ msg' = Allocated(field)
           \/ /\ need = len /\ pc' = "idle" /\ Return
              /\ header' = 0 /\ need' = HeaderSize /\ msg' = NULL
           \/ /\ need # len /\ pc' = "idle" /\ Return
              /\ need' = need - len /\ need' >= 1 /\ UNCHANGED <<header, msg>>
    BY <1>4, HeaderStep
  <2>2. /\ need \in 1..HeaderSize /\ length \in 1..BufSize /\ len \in 1..HeaderSize
        /\ raddr \in 1..Len(sent)
    <3>1. need \in 1..HeaderSize /\ length \in 1..BufSize /\ raddr \in 1..Len(sent)
      BY <2>1 DEF TypeOK, CallInv, Reading
    <3>2. Taken \in 1..HeaderSize
      BY <3>1 DEF Taken
    <3>3. QED
      BY <2>1, <3>1, <3>2
  <2>3. CASE /\ pc' = "read" /\ raddr' = raddr /\ mem' = need /\ len' = 0
             /\ length' = length - need /\ length' \in Nat
             /\ \E field \in Unsigned :
                   header' = 1 /\ need' = ToInt(field) /\ msg' = Allocated(field)
    <3>1. PICK field \in Unsigned :
             header' = 1 /\ need' = ToInt(field) /\ msg' = Allocated(field)
      BY <2>3
    <3>2. msg' \in Messages /\ msg'.length = field
      BY <3>1, AllocatedType DEF TypeOK
    <3>3. need' \in Int
      BY <3>1 DEF ToInt
    <3>4. TypeOK'
      BY <2>1, <2>2, <2>3, <3>1, <3>2, <3>3, MessageIsPossible DEF TypeOK
    <3>5. CallInv'
      <4>1. /\ need' <= ToInt(msg'.length)
            /\ msg'.length <= IntMax => need' >= 0
        BY <3>1, <3>2, <3>3, LengthField
      <4>2. QED
        BY <2>1, <2>2, <2>3, <3>1, <4>1 DEF CallInv, Reading
    <3>6. QED
      BY <3>4, <3>5
  <2>4. CASE pc' = "idle" /\ Return /\ header' = 0 /\ need' = HeaderSize /\ msg' = NULL
    BY <2>1, <2>2, <2>4 DEF TypeOK, CallInv, Reading, Return
  <2>5. CASE /\ pc' = "idle" /\ Return /\ need' = need - len /\ need' >= 1
             /\ UNCHANGED <<header, msg>>
    BY <2>1, <2>2, <2>5 DEF TypeOK, CallInv, Reading, Return
  <2>6. QED
    BY <2>1, <2>3, <2>4, <2>5
<1>5. CASE ReadMem_Payload
  <2>1. /\ pc = "read" /\ header = 1 /\ pc' = "idle" /\ Return
        /\ UNCHANGED <<cache, sent, fresh>>
        /\ After \in Messages /\ After.length = msg.length
        /\ \/ /\ need = Taken
              /\ delivered' = Append(delivered, [msg |-> After, remote |-> sent[raddr].from])
              /\ header' = 0 /\ need' = HeaderSize /\ msg' = NULL
           \/ /\ need # Taken /\ need' = need - Taken /\ msg' = After
              /\ UNCHANGED <<header, delivered>>
    BY <1>5, PayloadStep
  <2>2. CASE /\ delivered' = Append(delivered, [msg |-> After, remote |-> sent[raddr].from])
             /\ header' = 0 /\ need' = HeaderSize /\ msg' = NULL
    <3>1. sent[raddr].from \in Remotes
      <4>1. sent[raddr] \in Datagram
        BY <2>1 DEF TypeOK, CallInv
      <4>2. QED
        BY <4>1 DEF Datagram
    <3>2. delivered' \in Seq(Deliveries)
      <4>1. [msg |-> After, remote |-> sent[raddr].from] \in Deliveries
        BY <2>1, <3>1 DEF Deliveries
      <4>2. QED
        BY <2>2, <4>1 DEF CallInv
    <3>3. TypeOK'
      BY <1>a, <2>1, <2>2, <3>2 DEF TypeOK, Return
    <3>4. CallInv'
      BY <2>1, <2>2, <3>2 DEF CallInv, Reading
    <3>5. QED
      BY <3>3, <3>4
  <2>3. CASE need # Taken /\ need' = need - Taken /\ msg' = After
             /\ UNCHANGED <<header, delivered>>
    <3>1. need \in Int /\ length \in Nat
      BY DEF TypeOK
    <3>2. Taken \in Nat
      BY <3>1, TakenType
    <3>3. need' \in Int /\ need' <= need /\ (need >= 0 => need' >= 0)
      BY <2>3, <3>1, <3>2, TakenType
    <3>4. TypeOK'
      BY <2>1, <2>3, <3>3, MessageIsPossible DEF TypeOK, Return
    <3>5. msg \in Messages /\ msg' \in Messages
      BY <2>1, <2>3, MessageIsPossible DEF TypeOK
    <3>6. ToInt(msg.length) \in Int /\ need <= ToInt(msg.length) /\ msg'.length = msg.length
      BY <2>1, <2>3, <3>5, MessageType DEF CallInv
    <3>7. CallInv'
      <4>1. /\ need' <= ToInt(msg'.length)
            /\ msg'.length <= IntMax => need' >= 0
        BY <2>1, <3>1, <3>3, <3>6 DEF CallInv
      <4>2. QED
        BY <2>1, <2>3, <4>1 DEF CallInv, Reading
    <3>8. QED
      BY <3>4, <3>7
  <2>4. QED
    BY <2>1, <2>2, <2>3
<1>6. CASE Overrun_Damage
  BY <1>6, DamageStep DEF TypeOK, CallInv, Reading
<1>7. CASE UNCHANGED vars
  <2>1. Taken' = Taken /\ Got(raddr)' = Got(raddr)
    BY <1>7 DEF vars, parserVars, callVars, Taken, Got
  <2>2. QED
    BY <1>7, <2>1 DEF vars, parserVars, callVars, TypeOK, CallInv, Reading, Taken, Got
<1>8. QED
  BY <1>1, <1>2, <1>3, <1>4, <1>5, <1>6, <1>7 DEF Next, ReadMem

(* Every variable stays in its range, for every length field: what is under
   construction and what is returned always has the shape of a message. *)
THEOREM TypeCorrect == Spec => []TypeOK
<1>1. Spec => [](TypeOK /\ CallInv)
  BY TypeInit, TypeStep, PTL DEF Spec
<1>2. QED
  BY <1>1, PTL
-----------------------------------------------------------------------------
LEMMA FirstByte == 0 \in HeaderBytes /\ \A k \in Nat : HeaderOf(k)[0] = <<k, 0>>
<1>1. 0 \in HeaderBytes
  BY DEF HeaderBytes, MsgParserAssumption
<1>2. QED
  BY <1>1 DEF HeaderOf

LEMMA HeaderInit == Init => HeaderInv
BY FirstByte DEF Init, ParserInit, HeaderInv, Junk, MsgParserAssumption

LEMMA HeaderInvStep == TypeOK /\ CallInv /\ HeaderInv /\ [Next]_vars => HeaderInv'
<1> SUFFICES ASSUME TypeOK, CallInv, HeaderInv, [Next]_vars PROVE HeaderInv'
  OBVIOUS
<1>1. ASSUME NEW remote \in Remotes,
             UdpPoint_SendMsg(remote) \/ UdpPoint_SendRaw(remote)
      PROVE  HeaderInv'
  <2>1. PICK d \in Datagram :
           sent' = Append(sent, d) /\ UNCHANGED <<parserVars, callVars, fresh, delivered>>
    BY <1>1, SendStep
  <2>2. Len(sent') = Len(sent) + 1 /\ Len(sent) \in Nat
    BY <2>1, SentGrows DEF TypeOK
  <2>3. QED
    BY <2>1, <2>2 DEF HeaderInv, parserVars, callVars
<1>2. ASSUME NEW k \in 1..Len(sent), UdpPoint_RecvMsg(k) PROVE HeaderInv'
  BY <1>2, RecvMsgStep DEF HeaderInv
<1>3. CASE ReadMem_Copy
  <2>1. /\ pc = "read" /\ header = 0 /\ pc' = "copied" /\ mem = 0
        /\ need \in 1..HeaderSize /\ len' = Taken /\ Taken >= 1 /\ Taken <= need
        /\ Taken \in Int
        /\ cache' = Memcpy(cache, CacheOffset, Taken)
        /\ UNCHANGED <<header, need, msg, sent, raddr, mem, length, fresh, delivered>>
    BY <1>3, CopyStep
  <2>2. /\ DOMAIN cache = HeaderBytes /\ raddr \in 1..Len(sent)
        /\ cache' = [o \in HeaderBytes |->
              IF o \in CacheOffset..(CacheOffset + Taken - 1)
              THEN <<raddr, o - CacheOffset>> ELSE cache[o]]
    <3>1. DOMAIN cache = HeaderBytes /\ raddr \in 1..Len(sent)
      BY <2>1 DEF TypeOK, CallInv
    <3>2. \A o \in HeaderBytes : mem + o - CacheOffset = o - CacheOffset
      BY <2>1 DEF CacheOffset, HeaderBytes
    <3>3. QED
      BY <2>1, <3>1, <3>2 DEF Memcpy
  <2>3. CASE need = HeaderSize
    <3>1. CacheOffset = 0
      BY <2>3 DEF CacheOffset, MsgParserAssumption
    <3>2. \A o \in 0..(Taken - 1) : cache'[o] = <<raddr, o>>
      <4>1. \A o \in 0..(Taken - 1) : o \in HeaderBytes /\ o - 0 = o
        BY <2>1 DEF HeaderBytes
      <4>2. QED
        BY <2>1, <2>2, <3>1, <4>1
    <3>3. cache'[0] = <<raddr, 0>>
      BY <2>1, <3>2
    <3>4. cache'[0][1] \in 0..Len(sent') /\ cache'[0][2] = 0
      <4>1. cache'[0][1] = raddr /\ cache'[0][2] = 0
        BY <3>3
      <4>2. raddr \in 0..Len(sent')
        BY <2>1 DEF TypeOK
      <4>3. QED
        BY <4>1, <4>2
    <3>5. \A o \in 0..(len' - 1) : cache'[o] = <<raddr', o>>
      BY <2>1, <3>2
    <3>6. QED
      BY <3>4, <3>5 DEF HeaderInv
  <2>4. CASE need < HeaderSize
    <3>1. CacheOffset >= 1 /\ CacheOffset \in Int
      BY <2>1, <2>4 DEF CacheOffset, MsgParserAssumption
    <3>2. cache'[0] = cache[0]
      <4>1. 0 \notin CacheOffset..(CacheOffset + Taken - 1)
        BY <3>1
      <4>2. QED
        BY <2>2, <4>1, FirstByte
    <3>3. QED
      BY <2>1, <2>4, <3>2 DEF HeaderInv
  <2>5. QED
    BY <2>1, <2>3, <2>4
<1>4. CASE ReadMem_Header
  <2>1. pc = "copied" /\ pc' # "copied" /\ UNCHANGED <<cache, sent>>
    BY <1>4, HeaderStep
  <2>2. QED
    BY <2>1 DEF HeaderInv
<1>5. CASE ReadMem_Payload
  <2>1. header = 1 /\ pc' # "copied" /\ UNCHANGED <<cache, sent>>
    BY <1>5, PayloadStep
  <2>2. QED
    BY <2>1 DEF HeaderInv
<1>6. CASE UNCHANGED vars
  BY <1>6 DEF vars, parserVars, callVars, HeaderInv
<1>7. CASE Overrun_Damage
  BY <1>7, DamageStep DEF HeaderInv
<1>8. QED
  BY <1>1, <1>2, <1>3, <1>4, <1>5, <1>6, <1>7 DEF Next, ReadMem

(* Whatever came before, for every length field, a header begins where a
   datagram begins. *)
THEOREM HeadersStart == Spec => []HeadersStartDatagrams
<1>1. Spec => [](TypeOK /\ CallInv /\ HeaderInv)
  BY TypeInit, TypeStep, HeaderInit, HeaderInvStep, PTL DEF Spec
<1>2. HeaderInv => HeadersStartDatagrams
  BY DEF HeaderInv, HeadersStartDatagrams
<1>3. QED
  BY <1>1, <1>2, PTL
-----------------------------------------------------------------------------
(* A length field that fits an int keeps every copy where it belongs. *)
LEMMA CopiesFit == TypeOK /\ CallInv => OnlyWrappedLengthsOverrun
<1> SUFFICES ASSUME TypeOK, CallInv PROVE OnlyWrappedLengthsOverrun
  OBVIOUS
<1> SUFFICES ASSUME header = 1 => msg.length <= IntMax
             PROVE  /\ HeaderFits
                    /\ pc = "read" =>
                          IF header = 0
                          THEN CacheOffset >= 0 /\ CacheOffset + Taken <= HeaderSize
                          ELSE PayloadOffset >= 0 /\ PayloadOffset + Taken <= ToInt(msg.length)
  <2>1. header = 1 => msg.length \in Nat
    BY MessageIsPossible, MessageType DEF TypeOK
  <2>2. CASE header = 1 /\ msg.length > IntMax
    BY <2>2 DEF OnlyWrappedLengthsOverrun
  <2>3. CASE ~(header = 1 /\ msg.length > IntMax)
    <3>1. header = 1 => msg.length <= IntMax
      BY <2>1, <2>3, ConstantFacts
    <3>2. QED
      BY <3>1 DEF OnlyWrappedLengthsOverrun
  <2>4. QED
    BY <2>2, <2>3
<1>1. HeaderFits
  BY FitsWhenLengthFits
<1>2. CASE header = 0
  <2>1. need \in Nat /\ length \in Nat /\ need <= HeaderSize
    BY <1>2 DEF TypeOK, CallInv
  <2>2. Taken \in Nat /\ Taken <= need
    BY <2>1, TakenType
  <2>3. QED
    BY <1>1, <1>2, <2>1, <2>2, ConstantFacts DEF CacheOffset
<1>3. CASE header = 1
  <2>1. msg \in Messages
    BY <1>3, MessageIsPossible DEF TypeOK
  <2>2. msg.length \in Nat /\ ToInt(msg.length) = msg.length
    BY <1>3, <2>1, MessageType
  <2>3. need \in Nat /\ length \in Nat /\ need <= msg.length
    BY <1>3, <2>2 DEF TypeOK, CallInv
  <2>4. Taken \in Nat /\ Taken <= need
    BY <2>3, TakenType
  <2>5. PayloadOffset = msg.length - need
    <3>1. msg.length - need \in 0..IntMax
      BY <1>3, <2>2, <2>3, ConstantFacts
    <3>2. QED
      BY <3>1, ToIntFacts DEF PayloadOffset
  <2>6. QED
    BY <1>1, <1>3, <2>2, <2>3, <2>4, <2>5
<1>4. QED
  BY <1>2, <1>3 DEF TypeOK

(* Whatever the remotes send, parts of messages or other bytes, in whatever
   order: no copy passes the end of the cache or of a block, but in a block whose
   own length field is above INT_MAX. *)
THEOREM CopiesStayInBounds == Spec => []OnlyWrappedLengthsOverrun
<1>1. TypeOK /\ CallInv => OnlyWrappedLengthsOverrun
  BY CopiesFit
<1>2. QED
  BY <1>1, TypeInit, TypeStep, PTL DEF Spec
-----------------------------------------------------------------------------
TypedInv == TypeOK /\ CallInv /\ HeaderInv

(* A datagram that is whole, as far as sizes go. *)
LEMMA WholeType ==
    ASSUME TypeOK, NEW k \in 1..Len(sent)
    PROVE  /\ k \in Nat /\ sent[k].length \in Unsigned /\ sent[k].size \in Nat /\ Got(k) \in Nat
           /\ Whole(k) => /\ Got(k) = HeaderSize + sent[k].length
                          /\ sent[k].length <= IntMax
                          /\ ToInt(sent[k].length) = sent[k].length
<1>1. sent[k] \in Datagram
  BY DEF TypeOK
<1>2. /\ k \in Nat /\ sent[k].length \in Unsigned /\ sent[k].length \in Nat
      /\ sent[k].size \in Nat /\ sent[k].size <= IntMax
  BY <1>1, ConstantFacts DEF Datagram
<1>3. Whole(k) => sent[k].length <= IntMax
  BY <1>2, ConstantFacts DEF Whole
<1>4. QED
  BY <1>2, <1>3, LengthField DEF Got, Whole, MessageDatagramsAssumption

(* A header that is complete with the bytes of a whole datagram is that
   datagram's own, and what is left of it is its payload. *)
LEMMA WholeHeader ==
    ASSUME TypedInv, PartInv, pc = "copied", need = len,
           NEW field \in Unsigned, Decodes(cache, Fields, field),
           NEW k \in 1..Len(sent), cache = HeaderOf(k), Whole(k)
    PROVE  /\ need = HeaderSize /\ raddr = k /\ field = sent[k].length
           /\ length - need = field /\ ToInt(field) = field
<1>1. header = 0 /\ need \in 1..HeaderSize /\ length = Got(raddr) /\ raddr \in 1..Len(sent)
  BY DEF TypedInv, CallInv, Reading, TypeOK
<1>2. cache[0] = <<k, 0>> /\ k \in Nat
  BY FirstByte, WholeType DEF TypedInv
<1>3. need = HeaderSize
  BY <1>1, <1>2 DEF PartInv, MsgParserAssumption
<1>4. cache[0] = <<raddr, 0>>
  BY <1>1, <1>3 DEF TypedInv, HeaderInv
<1>5. raddr = k
  BY <1>2, <1>4
<1>6. field = sent[k].length
  BY DEF Decodes, Fields
<1>7. length = HeaderSize + field
  BY <1>1, <1>5, <1>6, WholeType DEF TypedInv
<1>8. field \in Nat /\ ToInt(field) = field
  BY <1>6, WholeType, LengthsType DEF TypedInv
<1>9. length - need = field
  BY <1>3, <1>7, <1>8, ConstantFacts
<1>10. QED
  BY <1>3, <1>5, <1>6, <1>8, <1>9

(* A datagram that is whole fills the cache at once. *)
LEMMA WholeIsNotInParts ==
    ASSUME TypedInv, pc = "copied", need = HeaderSize, Whole(raddr)
    PROVE  need = len
<1>1. /\ length = Got(raddr) /\ raddr \in 1..Len(sent) /\ len = Taken
  BY DEF TypedInv, CallInv, Reading
<1>2. sent[raddr].length \in Nat /\ length = HeaderSize + sent[raddr].length
  BY <1>1, WholeType, LengthsType DEF TypedInv
<1>3. QED
  BY <1>1, <1>2 DEF Taken, MsgParserAssumption

LEMMA PartInit == Init => PartInv /\ DeliveredInv /\ FreshInv
BY DEF Init, ParserInit, PartInv, DeliveredInv, OnlyPartsAreMixed, FreshInv, MsgParserAssumption

LEMMA PartStep == TypedInv /\ PartInv /\ [Next]_vars => PartInv'
<1> SUFFICES ASSUME TypedInv, PartInv, [Next]_vars PROVE PartInv'
  OBVIOUS
<1>1. ASSUME NEW remote \in Remotes,
             UdpPoint_SendMsg(remote) \/ UdpPoint_SendRaw(remote)
      PROVE  PartInv'
  <2>1. PICK d \in Datagram :
           sent' = Append(sent, d) /\ UNCHANGED <<parserVars, callVars, fresh, delivered>>
    BY <1>1, SendStep DEF TypedInv
  <2>2. /\ Len(sent') = Len(sent) + 1 /\ Len(sent) \in Nat
        /\ \A k \in 1..Len(sent) : sent'[k] = sent[k] /\ (Whole(k)' <=> Whole(k))
    BY <2>1, SentGrows DEF TypedInv, TypeOK
  <2>3. \A k \in 1..Len(sent') : k \in 1..Len(sent) \/ k = Len(sent) + 1
    BY <2>2
  <2>4. /\ UNCHANGED <<header, need, cache, msg, pc, raddr, mem, length>>
    BY <2>1 DEF parserVars, callVars
  <2>5. ASSUME header = 0, need < HeaderSize, NEW k \in 1..Len(sent'), Whole(k)'
        PROVE  cache[0][1] # k
    BY <2>2, <2>3, <2>5 DEF PartInv, TypedInv, HeaderInv
  <2>6. ASSUME header = 1, NEW k \in 1..Len(sent'), msg.head = HeaderOf(k), Whole(k)'
        PROVE  k \in 1..Len(sent)
    <3>1. msg.head[0][1] = k
      BY <2>2, <2>6, FirstByte
    <3>2. k # Len(sent) + 1
      BY <2>2, <2>6, <3>1 DEF PartInv
    <3>3. QED
      BY <2>3, <3>2
  <2>7. header = 1 => msg.head[0][1] \in 0..Len(sent')
    BY <2>2 DEF PartInv
  <2>8. ASSUME header = 1, NEW k \in 1..Len(sent'), msg.head = HeaderOf(k), Whole(k)'
        PROVE  /\ pc = "read" /\ raddr = k /\ mem = HeaderSize
               /\ msg.length = sent'[k].length
               /\ need = msg.length /\ length = msg.length
    BY <2>2, <2>6, <2>8 DEF PartInv
  <2>9. QED
    BY <2>4, <2>5, <2>7, <2>8 DEF PartInv, HeaderOf
<1>2. ASSUME NEW k \in 1..Len(sent), UdpPoint_RecvMsg(k) PROVE PartInv'
  <2>1. /\ pc = "idle" /\ UNCHANGED <<cache, header, need, msg, sent>>
    BY <1>2, RecvMsgStep DEF TypedInv
  <2>2. QED
    BY <2>1 DEF PartInv, Whole
<1>3. CASE ReadMem_Copy
  <2>1. /\ header = 0 /\ need \in 1..HeaderSize /\ Taken \in Nat
        /\ raddr \in 1..Len(sent) /\ raddr \in Nat /\ mem = 0
        /\ cache' = Memcpy(cache, CacheOffset, Taken)
        /\ UNCHANGED <<header, need, msg, sent>>
    BY <1>3, CopyStep DEF TypedInv, CallInv, TypeOK
  <2>2. need < HeaderSize => cache'[0] = cache[0]
    <3>1. ASSUME need < HeaderSize PROVE 0 \notin CacheOffset..(CacheOffset + Taken - 1)
      BY <2>1, <3>1 DEF CacheOffset, MsgParserAssumption
    <3>2. DOMAIN cache = HeaderBytes
      BY DEF TypedInv, TypeOK
    <3>3. QED
      BY <2>1, <3>1, <3>2, FirstByte DEF Memcpy
  <2>3. QED
    BY <2>1, <2>2 DEF PartInv, Whole
<1>4. CASE ReadMem_Header
  <2>1. /\ pc = "copied" /\ header = 0 /\ mem = 0 /\ len = Taken
        /\ UNCHANGED <<cache, sent, fresh, delivered>>
        /\ \/ /\ need = len
              /\ pc' = "read" /\ raddr' = raddr /\ mem' = need /\ len' = 0
              /\ length' = length - need /\ length' \in Nat
              /\ \E field \in Unsigned :
                    /\ Decodes(cache, Fields, field)
                    /\ header' = 1 /\ need' = ToInt(field) /\ msg' = Allocated(field)
           \/ /\ need = len /\ pc' = "idle" /\ Return
              /\ header' = 0 /\ need' = HeaderSize /\ msg' = NULL
           \/ /\ need # len /\ pc' = "idle" /\ Return
              /\ need' = need - len /\ need' >= 1 /\ UNCHANGED <<header, msg>>
    BY <1>4, HeaderStep DEF TypedInv
  <2>2. CASE /\ need = len
             /\ pc' = "read" /\ raddr' = raddr /\ mem' = need
             /\ length' = length - need
             /\ \E field \in Unsigned :
                   /\ Decodes(cache, Fields, field)
                   /\ header' = 1 /\ need' = ToInt(field) /\ msg' = Allocated(field)
    <3>1. PICK field \in Unsigned :
             /\ Decodes(cache, Fields, field)
             /\ header' = 1 /\ need' = ToInt(field) /\ msg' = Allocated(field)
      BY <2>2
    <3>2. msg'.length = field /\ msg'.head = cache
      BY <3>1, AllocatedType DEF TypedInv, TypeOK
    <3>3. ASSUME NEW k \in 1..Len(sent), cache = HeaderOf(k), Whole(k)
          PROVE  /\ need = HeaderSize /\ raddr = k /\ field = sent[k].length
                 /\ length - need = field /\ ToInt(field) = field
      BY <2>1, <2>2, <3>1, <3>3, WholeHeader
    <3>4. cache[0][1] \in 0..Len(sent)
      BY DEF TypedInv, HeaderInv
    <3>5. QED
      BY <2>1, <2>2, <3>1, <3>2, <3>3, <3>4 DEF PartInv, Whole, HeaderOf
  <2>3. CASE header' = 0 /\ need' = HeaderSize
    BY <2>3 DEF PartInv, MsgParserAssumption
  <2>4. CASE need # len /\ need' = need - len /\ UNCHANGED <<header, msg>>
    <3>1. need \in 1..HeaderSize /\ raddr \in 1..Len(sent)
      BY <2>1 DEF TypedInv, CallInv, TypeOK
    <3>2. CASE need = HeaderSize
      <4>1. ~Whole(raddr)
        BY <2>1, <2>4, <3>2, WholeIsNotInParts
      <4>2. len >= 1
        BY <2>1, <3>1 DEF TypedInv, CallInv, Reading, Taken, TypeOK
      <4>3. cache[0] = <<raddr, 0>>
        BY <2>1, <3>2, <4>2 DEF TypedInv, HeaderInv, TypeOK
      <4>4. QED
        BY <2>1, <2>4, <4>1, <4>3 DEF PartInv, Whole
    <3>3. CASE need < HeaderSize
      BY <2>1, <2>4, <3>3 DEF PartInv, Whole
    <3>4. QED
      BY <3>1, <3>2, <3>3
  <2>5. QED
    BY <2>1, <2>2, <2>3, <2>4
<1>5. CASE ReadMem_Payload
  <2>1. /\ pc = "read" /\ header = 1 /\ pc' = "idle"
        /\ UNCHANGED <<cache, sent>>
        /\ After.head = msg.head
        /\ \/ header' = 0 /\ need' = HeaderSize /\ msg' = NULL
           \/ need # Taken /\ msg' = After /\ UNCHANGED header
    BY <1>5, PayloadStep DEF TypedInv
  <2>2. CASE header' = 0 /\ need' = HeaderSize
    BY <2>2 DEF PartInv, MsgParserAssumption
  <2>3. CASE need # Taken /\ msg' = After /\ UNCHANGED header
    <3>1. ASSUME NEW k \in 1..Len(sent), msg.head = HeaderOf(k), Whole(k) PROVE FALSE
      <4>1. need = length
        BY <2>1, <3>1 DEF PartInv
      <4>2. QED
        BY <2>3, <4>1, TakenType DEF TypedInv, TypeOK
    <3>2. msg'.head = msg.head
      BY <2>1, <2>3
    <3>3. QED
      BY <2>1, <2>3, <3>1, <3>2 DEF PartInv, Whole, HeaderOf
  <2>4. QED
    BY <2>1, <2>2, <2>3
<1>6. CASE UNCHANGED vars
  BY <1>6 DEF vars, parserVars, callVars, PartInv, Whole, HeaderOf
<1>7. CASE Overrun_Damage
  <2>1. /\ ~HeaderFits
        /\ UNCHANGED <<cache, header, need, msg, sent, raddr, mem, length>>
    BY <1>7, DamageStep
  <2>2. ASSUME header = 1, NEW k \in 1..Len(sent), msg.head = HeaderOf(k), Whole(k)
        PROVE  FALSE
    <3>1. msg.length <= IntMax
      BY <2>2, WholeType DEF PartInv, TypedInv
    <3>2. QED
      BY <2>1, <3>1, FitsWhenLengthFits DEF TypedInv
  <2>3. QED
    BY <2>1, <2>2 DEF PartInv, Whole, HeaderOf
<1>8. QED
  BY <1>1, <1>2, <1>3, <1>4, <1>5, <1>6, <1>7 DEF Next, ReadMem
-----------------------------------------------------------------------------
(* What ReadMem_Payload makes of a message whose datagram is whole. *)
LEMMA WholeMessage ==
    ASSUME TypedInv, PartInv, pc = "read", header = 1,
           NEW k \in 1..Len(sent), After.head = HeaderOf(k), After.head = msg.head,
           After.length = msg.length, Whole(k)
    PROVE  IsMessage(After, k, sent[k].length) /\ raddr = k
<1>1. /\ raddr = k /\ mem = HeaderSize /\ msg.length = sent[k].length
      /\ need = msg.length /\ length = msg.length
  BY DEF PartInv
<1>2. sent[k].length \in Nat /\ ToInt(sent[k].length) = sent[k].length
  BY WholeType, LengthsType DEF TypedInv
<1>3. msg \in Messages
  BY MessageIsPossible DEF TypedInv, TypeOK
<1>4. DOMAIN msg.payload = 0..(sent[k].length - 1)
  BY <1>1, <1>2, <1>3, MessageType
<1>5. PayloadOffset = 0 /\ Taken = sent[k].length
  <2>1. msg.length - need = 0 /\ 0 \in 0..IntMax
    BY <1>1, <1>2, ConstantFacts
  <2>2. ToInt(0) = 0
    BY <2>1, ToIntFacts
  <2>3. QED
    BY <1>1, <1>2, <2>1, <2>2 DEF PayloadOffset, Taken
<1>6. Memcpy(msg.payload, PayloadOffset, Taken)
         = [o \in 0..(sent[k].length - 1) |-> <<k, HeaderSize + o>>]
  <2>1. \A o \in 0..(sent[k].length - 1) :
           /\ o \in PayloadOffset..(PayloadOffset + Taken - 1)
           /\ mem + o - PayloadOffset = HeaderSize + o
    BY <1>1, <1>2, <1>5 DEF MsgParserAssumption
  <2>2. QED
    BY <1>1, <1>4, <2>1 DEF Memcpy
<1>7. After.payload = Memcpy(msg.payload, PayloadOffset, Taken)
  <2>1. After = [head |-> msg.head, length |-> msg.length,
                 payload |-> Memcpy(msg.payload, PayloadOffset, Taken)]
    BY <1>3, WithPayload DEF After
  <2>2. QED
    BY <2>1
<1>8. QED
  BY <1>1, <1>6, <1>7 DEF IsMessage

LEMMA DeliveredStep ==
    TypedInv /\ PartInv /\ DeliveredInv /\ [Next]_vars => DeliveredInv'
<1> SUFFICES ASSUME TypedInv, PartInv, DeliveredInv, [Next]_vars
             PROVE  DeliveredInv'
  OBVIOUS
<1>1. ASSUME UNCHANGED <<sent, delivered>> PROVE DeliveredInv'
  <2>1. \A d \in 1..Len(delivered') : delivered'[d].msg.head[0][1] \in 0..Len(sent')
    BY <1>1 DEF DeliveredInv
  <2>2. OnlyPartsAreMixed'
    BY <1>1 DEF DeliveredInv, OnlyPartsAreMixed, Whole, HeaderOf, HeaderBytes, IsMessage
  <2>3. QED
    BY <2>1, <2>2 DEF DeliveredInv
<1>2. ASSUME NEW remote \in Remotes,
             UdpPoint_SendMsg(remote) \/ UdpPoint_SendRaw(remote)
      PROVE  DeliveredInv'
  <2>1. PICK d \in Datagram :
           sent' = Append(sent, d) /\ UNCHANGED <<parserVars, callVars, fresh, delivered>>
    BY <1>2, SendStep DEF TypedInv
  <2>2. /\ Len(sent') = Len(sent) + 1 /\ Len(sent) \in Nat
        /\ \A k \in 1..Len(sent) : sent'[k] = sent[k] /\ (Whole(k)' <=> Whole(k))
    BY <2>1, SentGrows DEF TypedInv, TypeOK
  <2>3. ASSUME NEW d1 \in 1..Len(delivered)
        PROVE  delivered[d1].msg.head[0][1] \in 0..Len(sent')
    BY <2>2 DEF DeliveredInv
  <2>4. ASSUME NEW d1 \in 1..Len(delivered), NEW k \in 1..Len(sent'),
               delivered[d1].msg.head = HeaderOf(k), Whole(k)'
        PROVE  /\ IsMessage(delivered[d1].msg, k, sent'[k].length)
               /\ delivered[d1].remote = sent'[k].from
    <3>1. delivered[d1].msg.head[0][1] = k
      BY <2>2, <2>4, FirstByte
    <3>2. k \in 1..Len(sent)
      BY <2>2, <3>1 DEF DeliveredInv
    <3>3. QED
      BY <2>2, <2>4, <3>2 DEF DeliveredInv, OnlyPartsAreMixed
  <2>5. (\A d1 \in 1..Len(delivered) : delivered[d1].msg.head[0][1] \in 0..Len(sent))'
    BY <2>1, <2>3
  <2>6. OnlyPartsAreMixed'
    <3>1. SUFFICES ASSUME NEW d1 \in 1..Len(delivered'), NEW k \in 1..Len(sent'),
                          delivered'[d1].msg.head = HeaderOf(k), Whole(k)'
                   PROVE  /\ IsMessage(delivered'[d1].msg, k, sent'[k].length)
                          /\ delivered'[d1].remote = sent'[k].from
      BY DEF OnlyPartsAreMixed
    <3>2. delivered' = delivered
      BY <2>1
    <3>3. QED
      BY <2>4, <3>1, <3>2
  <2>7. QED
    BY <2>5, <2>6 DEF DeliveredInv
<1>3. ASSUME NEW k \in 1..Len(sent), UdpPoint_RecvMsg(k) PROVE DeliveredInv'
  BY <1>1, <1>3, RecvMsgStep DEF TypedInv
<1>4. CASE ReadMem_Copy
  BY <1>1, <1>4, CopyStep DEF TypedInv
<1>5. CASE ReadMem_Header
  BY <1>1, <1>5, HeaderStep DEF TypedInv
<1>6. CASE ReadMem_Payload
  <2>1. /\ pc = "read" /\ header = 1 /\ sent' = sent
        /\ After \in Messages /\ After.head = msg.head /\ After.length = msg.length
        /\ \/ delivered' = Append(delivered, [msg |-> After, remote |-> sent[raddr].from])
           \/ delivered' = delivered
    BY <1>6, PayloadStep DEF TypedInv
  <2>2. CASE delivered' = delivered
    BY <1>1, <2>1, <2>2
  <2>3. CASE delivered' = Append(delivered, [msg |-> After, remote |-> sent[raddr].from])
    <3>1. delivered \in Seq(Deliveries)
      BY DEF TypedInv, CallInv
    <3>2. \A d \in 1..Len(delivered') :
             \/ d \in 1..Len(delivered) /\ delivered'[d] = delivered[d]
             \/ delivered'[d] = [msg |-> After, remote |-> sent[raddr].from]
      BY <2>3, <3>1
    <3>3. msg.head[0][1] \in 0..Len(sent)
      BY <2>1 DEF PartInv
    <3>4. ASSUME NEW k \in 1..Len(sent), After.head = HeaderOf(k), Whole(k)
          PROVE  IsMessage(After, k, sent[k].length) /\ sent[raddr].from = sent[k].from
      BY <2>1, <3>4, WholeMessage
    <3>5. ASSUME NEW d \in 1..Len(delivered')
          PROVE  delivered'[d].msg.head[0][1] \in 0..Len(sent)
      BY <2>1, <3>2, <3>3 DEF DeliveredInv
    <3>6. ASSUME NEW d \in 1..Len(delivered'), NEW k \in 1..Len(sent),
                 delivered'[d].msg.head = HeaderOf(k), Whole(k)
          PROVE  /\ IsMessage(delivered'[d].msg, k, sent[k].length)
                 /\ delivered'[d].remote = sent[k].from
      <4>1. CASE d \in 1..Len(delivered) /\ delivered'[d] = delivered[d]
        BY <3>6, <4>1 DEF DeliveredInv, OnlyPartsAreMixed
      <4>2. CASE delivered'[d] = [msg |-> After, remote |-> sent[raddr].from]
        BY <3>4, <3>6, <4>2
      <4>3. QED
        BY <3>2, <4>1, <4>2
    <3>7. QED
      BY <2>1, <3>5, <3>6 DEF DeliveredInv, OnlyPartsAreMixed, Whole, HeaderOf, IsMessage
  <2>4. QED
    BY <2>1, <2>2, <2>3
<1>7. CASE UNCHANGED vars
  BY <1>1, <1>7 DEF vars
<1>8. CASE Overrun_Damage
  BY <1>1, <1>8, DamageStep
<1>9. QED
  BY <1>2, <1>3, <1>4, <1>5, <1>6, <1>7, <1>8 DEF Next, ReadMem

LEMMA Typed == Spec => []TypedInv
BY TypeInit, TypeStep, HeaderInit, HeaderInvStep, PTL DEF Spec, TypedInv

(* Whatever else the remotes send, and whatever its length field, a message
   whose header came in a datagram with the whole message is returned as it was
   sent, with its sender. *)
THEOREM PartsOnly == Spec => []OnlyPartsAreMixed
<1>1. TypedInv /\ PartInv /\ DeliveredInv /\ [Next]_vars => PartInv' /\ DeliveredInv'
  BY PartStep, DeliveredStep
<1>2. DeliveredInv => OnlyPartsAreMixed
  BY DEF DeliveredInv
<1>3. QED
  BY <1>1, <1>2, PartInit, Typed, PTL DEF Spec
-----------------------------------------------------------------------------
LEMMA FreshStep == TypedInv /\ FreshInv /\ [Next]_vars => FreshInv'
<1> SUFFICES ASSUME TypedInv, FreshInv, [Next]_vars PROVE FreshInv'
  OBVIOUS
<1>1. ASSUME NEW remote \in Remotes,
             UdpPoint_SendMsg(remote) \/ UdpPoint_SendRaw(remote)
      PROVE  FreshInv'
  <2>1. PICK d \in Datagram :
           sent' = Append(sent, d) /\ UNCHANGED <<parserVars, callVars, fresh, delivered>>
    BY <1>1, SendStep DEF TypedInv
  <2>2. \A k \in 1..Len(sent) : Whole(k)' <=> Whole(k)
    BY <2>1, SentGrows DEF TypedInv, TypeOK
  <2>3. pc \in {"read", "copied"} => raddr \in 1..Len(sent)
    BY DEF TypedInv, CallInv
  <2>4. pc \in {"read", "copied"} => (Whole(raddr)' <=> Whole(raddr))
    BY <2>1, <2>2, <2>3 DEF callVars
  <2>5. QED
    BY <2>1, <2>4 DEF FreshInv, Reading, parserVars, callVars, Whole
<1>2. ASSUME NEW k \in 1..Len(sent), UdpPoint_RecvMsg(k) PROVE FreshInv'
  <2>1. /\ pc' = "read" /\ fresh' = AtInitState /\ UNCHANGED <<header, need>>
    BY <1>2, RecvMsgStep DEF TypedInv
  <2>2. fresh' => header = 0 /\ need = HeaderSize
    BY <2>1 DEF AtInitState
  <2>3. QED
    BY <2>1, <2>2 DEF FreshInv, Reading
<1>3. CASE ReadMem_Copy
  <2>1. /\ pc = "read" /\ header = 0 /\ pc' = "copied"
        /\ UNCHANGED <<header, need, sent, raddr, length, fresh>>
    BY <1>3, CopyStep DEF TypedInv
  <2>2. QED
    BY <2>1 DEF FreshInv, Reading
<1>4. CASE ReadMem_Header
  <2>1. CASE pc' = "idle"
    BY <2>1 DEF FreshInv
  <2>2. CASE pc' # "idle"
    <3>1. /\ pc = "copied" /\ need = len /\ UNCHANGED <<cache, sent, fresh>>
          /\ pc' = "read" /\ raddr' = raddr /\ length' = length - need
          /\ \E field \in Unsigned :
                Decodes(cache, Fields, field) /\ header' = 1 /\ need' = ToInt(field)
      BY <1>4, <2>2, HeaderStep DEF TypedInv
    <3>2. PICK field \in Unsigned :
             Decodes(cache, Fields, field) /\ header' = 1 /\ need' = ToInt(field)
      BY <3>1
    <3>3. ASSUME fresh, Whole(raddr) PROVE need' = length'
      <4>1. /\ need = HeaderSize /\ raddr \in 1..Len(sent) /\ length = Got(raddr)
        BY <3>1, <3>3 DEF FreshInv, Reading, TypedInv, CallInv
      <4>2. cache = HeaderOf(raddr)
        <5>1. \A o \in HeaderBytes : cache[o] = <<raddr, o>>
          BY <3>1, <4>1 DEF TypedInv, HeaderInv, HeaderBytes
        <5>2. QED
          BY <5>1 DEF HeaderOf, TypedInv, TypeOK
      <4>3. field = sent[raddr].length
        BY <3>2, <4>1, <4>2 DEF Decodes, Fields
      <4>4. length = HeaderSize + field /\ field \in Nat
        BY <3>3, <4>1, <4>3, WholeType, LengthsType DEF TypedInv
      <4>5. QED
        BY <3>1, <3>2, <3>3, <4>1, <4>3, <4>4, WholeType, ConstantFacts DEF TypedInv
    <3>4. QED
      BY <3>1, <3>2, <3>3 DEF FreshInv, Reading, Whole
  <2>3. QED
    BY <2>1, <2>2
<1>5. CASE ReadMem_Payload
  BY <1>5, PayloadStep DEF TypedInv, FreshInv
<1>6. CASE UNCHANGED vars
  BY <1>6 DEF vars, parserVars, callVars, FreshInv, Reading, Whole
<1>7. CASE Overrun_Damage
  BY <1>7, DamageStep DEF FreshInv
<1>8. QED
  BY <1>1, <1>2, <1>3, <1>4, <1>5, <1>6, <1>7 DEF Next, ReadMem

(* The step that WholeDatagramsComeOut asks for. *)
WholeComesOut ==
    LET NoMemory == pc = "copied" /\ need = len /\ header' = 0
    IN pc # "idle" /\ pc' = "idle" /\ fresh /\ Whole(raddr) /\ ~NoMemory =>
           Len(delivered') = Len(delivered) + 1

LEMMA WholeStep == TypedInv /\ FreshInv /\ [Next]_vars => WholeComesOut
<1> SUFFICES ASSUME TypedInv, FreshInv, [Next]_vars, pc # "idle", pc' = "idle",
                    fresh, Whole(raddr), ~(pc = "copied" /\ need = len /\ header' = 0)
             PROVE  Len(delivered') = Len(delivered) + 1
  BY DEF WholeComesOut
<1>1. CASE ReadMem_Header
  <2>1. pc = "copied" /\ need # len
    BY <1>1, HeaderStep DEF TypedInv
  <2>2. need = HeaderSize
    BY <2>1 DEF FreshInv, Reading
  <2>3. QED
    BY <2>1, <2>2, WholeIsNotInParts
<1>2. CASE ReadMem_Payload
  <2>1. /\ pc = "read" /\ header = 1
        /\ \/ delivered' = Append(delivered, [msg |-> After, remote |-> sent[raddr].from])
           \/ need # Taken
    BY <1>2, PayloadStep DEF TypedInv
  <2>2. need = Taken
    BY <2>1, TakenType DEF FreshInv, TypedInv, TypeOK
  <2>3. delivered \in Seq(Deliveries)
    BY DEF TypedInv, CallInv
  <2>4. QED
    BY <2>1, <2>2, <2>3
<1>3. QED
  <2>1. pc' # pc
    OBVIOUS
  <2>2. ReadMem_Copy => FALSE
    BY CopyStep DEF TypedInv
  <2>3. ASSUME NEW remote \in Remotes,
               UdpPoint_SendMsg(remote) \/ UdpPoint_SendRaw(remote)
        PROVE  FALSE
    BY <2>1, <2>3, SendStep DEF TypedInv, callVars
  <2>4. ASSUME NEW k \in 1..Len(sent), UdpPoint_RecvMsg(k) PROVE FALSE
    BY <2>4, RecvMsgStep DEF TypedInv
  <2>5. ~UNCHANGED vars /\ ~Overrun_Damage
    BY <2>1, DamageStep DEF vars, callVars
  <2>6. QED
    BY <1>1, <1>2, <2>2, <2>3, <2>4, <2>5 DEF Next, ReadMem

(* Whatever else the remotes send, and whatever its length field, a datagram
   with a whole message that finds the parser in its initial state makes the
   call return one message, unless there is no memory for it. *)
THEOREM WholeOnesComeOut == Spec => WholeDatagramsComeOut
<1>1. TypedInv /\ FreshInv /\ [Next]_vars => FreshInv'
  BY FreshStep
<1>2. TypedInv /\ FreshInv /\ [Next]_vars => [WholeComesOut]_vars
  BY WholeStep
<1>3. Spec => [][WholeComesOut]_vars
  BY <1>1, <1>2, PartInit, Typed, PTL DEF Spec
<1>4. QED
  BY <1>3 DEF WholeDatagramsComeOut, WholeComesOut
=============================================================================
