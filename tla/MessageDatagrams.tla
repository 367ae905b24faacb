-------------------------- MODULE MessageDatagrams --------------------------
(***************************************************************************)
(* Messages over UDP: UdpPoint_SendMsg and UdpPoint_SendRaw of any number  *)
(* of remotes, and UdpPoint_RecvMsg with MParser_ReadMem at this end       *)
(* (udp_point.c, msg_parser.c).  One parser takes the datagrams of all     *)
(* remotes, and every datagram as the continuation of the one before.      *)
(*                                                                         *)
(* The network loses, repeats and reorders: RecvMsg gets any datagram that *)
(* was ever sent.  A call that gets none (an error, an empty datagram, no  *)
(* memory for buf) loses a datagram at most and is not a step here.        *)
(***************************************************************************)
EXTENDS MsgParser, Sequences

CONSTANTS
    Remotes,       \* who sends
    RawSizes,      \* sizes of the datagrams of SendRaw
    BufSize,       \* sizeof(g_temp), 4096 in the code
    MaxDatagrams,  \* bound: datagrams sent
    MaxMessages,   \* bound: messages received
    MaxOverrun     \* bound: bytes beyond a block after which the model stops

ASSUME MessageDatagramsAssumption ==
    /\ RawSizes \subseteq 0..IntMax
    /\ BufSize \in Nat \ {0}
    /\ MaxDatagrams \in Nat /\ MaxMessages \in Nat /\ MaxOverrun \in Nat

VARIABLES
    sent,        \* the datagrams: who sent it, the length field in it, its size
    pc,          \* "idle", "read" (in MParser_ReadMem), "copied" (its header
                 \*   part is in cache) or "undefined" (a write beyond a block
                 \*   did damage)
    raddr, mem, length,  \* the datagram at hand, the next byte of it, and how
                         \*   many there are
    len,         \* local of MParser_ReadMem
    fresh,       \* history: the parser was in its initial state before raddr
    delivered    \* history: what RecvMsg returned, and whom it named for it

callVars == <<pc, raddr, mem, length, len>>
vars == <<parserVars, sent, callVars, fresh, delivered>>

Fields == [k \in 1..Len(sent) |-> sent[k].length]
Whole(k) == sent[k].size = HeaderSize + sent[k].length /\ sent[k].size <= BufSize
-----------------------------------------------------------------------------
Send(remote, field, size) ==
    /\ Len(sent) < MaxDatagrams
    /\ sent' = Append(sent, [from |-> remote, length |-> field, size |-> size])
    /\ UNCHANGED <<parserVars, callVars, fresh, delivered>>

(* Message_Size bytes; sendto() refuses a negative size, which is more than any
   datagram holds. *)
UdpPoint_SendMsg(remote) ==
    \E field \in Lengths :
        Message_Size(field) >= 0 /\ Send(remote, field, Message_Size(field))

(* Any bytes: those where a length field would be say anything. *)
UdpPoint_SendRaw(remote) ==
    \E field \in RawLengths, size \in RawSizes : Send(remote, field, size)
-----------------------------------------------------------------------------
Return == pc' = "idle" /\ raddr' = 0 /\ mem' = 0 /\ length' = 0 /\ len' = 0

(* What peeking into g_temp sees of a datagram is all that is asked for then. *)
UdpPoint_RecvMsg(k) ==
    /\ pc = "idle" /\ Len(delivered) < MaxMessages /\ sent[k].size > 0
    /\ need >= -MaxOverrun
    /\ pc' = "read" /\ raddr' = k /\ mem' = 0
    /\ length' = IF sent[k].size > BufSize THEN BufSize ELSE sent[k].size
    /\ fresh' = AtInitState
    /\ UNCHANGED <<parserVars, sent, len, delivered>>

(* Mutant: all that has come is taken. *)
Taken_Everything == length

(* (need < length) ? need : length, where a negative need is a large unsigned. *)
Taken == IF 0 <= need /\ need < length THEN need ELSE length

(* memcpy of n bytes from mem to offset at of a buffer *)
Memcpy(buffer, at, n) ==
    [o \in DOMAIN buffer |->
        IF o \in at..(at + n - 1) THEN <<raddr, mem + o - at>> ELSE buffer[o]]

ReadMem_Copy ==
    /\ pc = "read" /\ header = 0
    /\ cache' = Memcpy(cache, CacheOffset, Taken)
    /\ len' = Taken
    /\ pc' = "copied"
    /\ UNCHANGED <<header, need, msg, sent, raddr, mem, length, fresh, delivered>>

(* What follows the header in this datagram is the payload's.  Mutants: the
   payload is taken from where the header was; or it is left for the next call,
   which has no such bytes. *)
Continue_AtHeader ==
    pc' = "read" /\ length' = length - need /\ len' = 0 /\ UNCHANGED <<raddr, mem>>
Continue_NextCall == Return
Continue ==
    pc' = "read" /\ mem' = mem + need /\ length' = length - need /\ len' = 0
        /\ UNCHANGED raddr

(* Without memory for the message the rest of the datagram is thrown away.
   Mutant: it is taken for the next header. *)
GiveUp_GoesOn == Continue
GiveUp == Return

(* With a complete header the call goes on to the payload in this datagram. *)
ReadMem_Header ==
    /\ pc = "copied"
    /\ \/ /\ need = len
          /\ \E field \in Unsigned :
                /\ Decodes(cache, Fields, field)
                /\ \/ ToMidState(field) /\ Continue
                   \/ ToMidStateFails(field) /\ GiveUp
       \/ /\ need # len
          /\ need' = need - len
          /\ Return
          /\ UNCHANGED <<cache, header, msg>>
    /\ UNCHANGED <<sent, fresh, delivered>>

(* The rest of a datagram that completes a message is thrown away.  The message
   is said to come from the last datagram's sender (ParseAddr).  A block whose
   length wrapped below zero has no room for what is copied behind it, and need
   only falls: no later datagram completes that message. *)
ReadMem_Payload ==
    /\ pc = "read" /\ header = 1
    /\ LET after == [msg EXCEPT !.payload = Memcpy(msg.payload, PayloadOffset, Taken)]
       IN IF need = Taken
          THEN /\ delivered' = Append(delivered, [msg |-> after, remote |-> sent[raddr].from])
               /\ InitState
          ELSE /\ need' = need - Taken /\ msg' = after
               /\ UNCHANGED <<cache, header, delivered>>
    /\ Return
    /\ UNCHANGED <<sent, fresh>>

(* What was written beyond a block may have fallen into what malloc rounded up,
   or bring the program down then or at any later time. *)
Overrun_Damage ==
    /\ ~HeaderFits /\ pc # "undefined"
    /\ pc' = "undefined"
    /\ UNCHANGED <<parserVars, sent, raddr, mem, length, len, fresh, delivered>>
-----------------------------------------------------------------------------
Init ==
    /\ ParserInit
    /\ sent = <<>> /\ delivered = <<>> /\ fresh = TRUE
    /\ pc = "idle" /\ raddr = 0 /\ mem = 0 /\ length = 0 /\ len = 0

ReadMem == ReadMem_Copy \/ ReadMem_Header \/ ReadMem_Payload

Next ==
    \/ \E remote \in Remotes : UdpPoint_SendMsg(remote) \/ UdpPoint_SendRaw(remote)
    \/ \E k \in 1..Len(sent) : UdpPoint_RecvMsg(k)
    \/ ReadMem \/ Overrun_Damage

Spec == Init /\ [][Next]_vars
-----------------------------------------------------------------------------
Byte == Nat \X Nat
Datagram == [from : Remotes, length : Unsigned, size : 0..IntMax]
PossibleMessage(m) ==
    \E field \in Unsigned :
        m \in [head : [HeaderBytes -> Byte], length : {field},
               payload : [0..(ToInt(field) - 1) -> Byte]]

TypeOK ==
    /\ cache \in [HeaderBytes -> Byte] /\ header \in {0, 1} /\ need \in Int
    /\ header = 0 => msg = NULL
    /\ header = 1 => PossibleMessage(msg)
    /\ sent \in Seq(Datagram)
    /\ pc \in {"idle", "read", "copied", "undefined"} /\ fresh \in BOOLEAN
    /\ raddr \in 0..Len(sent) /\ mem \in Nat /\ length \in 0..BufSize /\ len \in 0..HeaderSize
    /\ \A d \in 1..Len(delivered) :
          PossibleMessage(delivered[d].msg) /\ delivered[d].remote \in Remotes

(* Whatever parts of messages and other bytes arrive in what order, every copy
   stays inside cache or inside the block that ToMidState allocated (msg_parser.c:36,
   111, 141), but those to a block whose own length field is above INT_MAX. *)
OnlyWrappedLengthsOverrun ==
    \/ header = 1 /\ msg.length > IntMax
    \/ /\ HeaderFits
       /\ pc = "read" =>
              IF header = 0
              THEN CacheOffset >= 0 /\ CacheOffset + Taken <= HeaderSize
              ELSE PayloadOffset >= 0 /\ PayloadOffset + Taken <= ToInt(msg.length)

(* need says how many bytes are needed to finish parsing (msg_parser.c:13): no
   more than that are copied from a datagram to where the message is collected. *)
NoMoreThanNeeded == pc = "read" => Taken <= need

(* A message that is returned is the one its header belongs to, whole, and from
   the remote that sent it, unless its header came in a datagram that did not
   hold the whole message: parts of messages spoil only messages that came in
   parts (msg_parser.c:99-154, udp_point.c:118-146). *)
OnlyPartsAreMixed ==
    \A d \in 1..Len(delivered), k \in 1..Len(sent) :
        delivered[d].msg.head = HeaderOf(k) /\ Whole(k) =>
            /\ IsMessage(delivered[d].msg, k, sent[k].length)
            /\ delivered[d].remote = sent[k].from

(* Whatever came before, a header begins where a datagram begins: the rest of a
   datagram is never taken for a message of its own (msg_parser.c:118-147). *)
HeadersStartDatagrams == header = 1 \/ need < HeaderSize => cache[0][2] = 0

(* A datagram with a whole message that finds the parser in its initial state
   makes the call return a message, unless there was no memory for it
   (msg_parser.c:120-127). *)
WholeDatagramsComeOut ==
    [][LET NoMemory == pc = "copied" /\ need = len /\ header' = 0
       IN pc # "idle" /\ pc' = "idle" /\ fresh /\ Whole(raddr) /\ ~NoMemory =>
              Len(delivered') = Len(delivered) + 1]_vars
=============================================================================
