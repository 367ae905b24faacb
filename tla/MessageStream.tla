---------------------------- MODULE MessageStream ----------------------------
(***************************************************************************)
(* Messages over TCP: TcpClient_SendMsg and TcpClient_SendRaw at one end;  *)
(* TcpClient_Connect, TcpClient_RecvMsg (MParser_ReadFd, ToRecv) and       *)
(* TcpClient_Close at the other (tcp_client.c, msg_parser.c, message.c).   *)
(*                                                                         *)
(* The stream is the concatenation of the pieces of sent, each put there   *)
(* by one send().  A position in it is the byte that comes next: unread    *)
(* for the receiver, front for the network.  A read() of n bytes is n      *)
(* steps of the model; a RecvMsg that is interrupted by a timeout, an      *)
(* error or the end of the stream keeps the half message in the parser     *)
(* for the next call.                                                      *)
(***************************************************************************)
EXTENDS MsgParser, Sequences

CONSTANTS
    RawSizes,     \* sizes of what is sent with SendRaw, by any peer
    MaxRetry,     \* reads of 0 bytes tolerated by ToRecv (5 in the code)
    CloseFirst,   \* BOOLEAN: the user calls TcpClient_Close before Connect
    MaxMessages   \* bound: pieces sent

ASSUME MessageStreamAssumption ==
    /\ RawSizes \subseteq 1..IntMax
    /\ MaxRetry \in Nat
    /\ CloseFirst \in BOOLEAN
    /\ MaxMessages \in Nat

VARIABLES
    sent,       \* the pieces sent, over all connections: the length field they
                \*   begin with and their size on the wire
    front,      \* next byte of the stream to arrive
    unread,     \* next byte of the stream to be read
    conn,       \* "none" (fd = -1), "up", or "eof" (the peer closed)
    pc,         \* "idle", "recv" (in ToRecv), "broke" (ToRecv gave up) or
                \*   "undefined" (a write beyond a block did damage)
    i, retry,   \* locals of ToRecv
    whole,      \* history: on this connection only whole messages were sent
    framed,     \* history: on this connection the parser started in its
                \*   initial state and gave up no message
    delivered   \* history: what RecvMsg returned, and InFrame at that time

streamVars == <<sent, front, unread, conn>>
callVars == <<pc, i, retry>>
historyVars == <<whole, framed, delivered>>
vars == <<parserVars, streamVars, callVars, historyVars>>

Fields == [k \in 1..Len(sent) |-> sent[k].length]
WireSize(k) == sent[k].size
Whole(k) == sent[k].size = HeaderSize + sent[k].length
InFrame == whole /\ framed

After(byte) ==
    IF byte[2] + 1 = WireSize(byte[1])
    THEN <<byte[1] + 1, 0>>
    ELSE <<byte[1], byte[2] + 1>>
End == <<Len(sent) + 1, 0>>
Available == unread # front
-----------------------------------------------------------------------------
(* The other end and the network *)

Send(length, size) ==
    /\ conn = "up" /\ Len(sent) < MaxMessages /\ size > 0
    /\ sent' = Append(sent, [length |-> length, size |-> size])
    /\ whole' = (whole /\ size = HeaderSize + length)
    /\ UNCHANGED <<parserVars, front, unread, conn, callVars, framed, delivered>>

(* How much send() puts on the wire when it is asked for len bytes.  A negative
   len is more than any memory as a size_t: send() refuses it, or sends what it
   can read, at most IntMax bytes. *)
Accepted(len) == IF len >= 0 THEN {len} ELSE 0..IntMax

(* TcpClient_SendMsg: header and payload in one send(), which is asked for
   Message_Size bytes. *)
TcpClient_SendMsg ==
    \E length \in Lengths :
        \E size \in Accepted(Message_Size(length)) : Send(length, size)

(* Any bytes, of the raw interface or of a peer that is another program. *)
TcpClient_SendRaw ==
    \E length \in RawLengths, size \in RawSizes : Send(length, size)

Arrive ==
    /\ conn = "up" /\ front # End
    /\ front' = After(front)
    /\ UNCHANGED <<parserVars, sent, unread, conn, callVars, historyVars>>

(* The peer closes, or dies in the middle of a message. *)
Peer_Close ==
    /\ conn = "up"
    /\ conn' = "eof"
    /\ UNCHANGED <<parserVars, sent, front, unread, callVars, historyVars>>
-----------------------------------------------------------------------------
(* MParser_ReadFd, called by TcpClient_RecvMsg *)

ToRecv == pc' = "recv" /\ i' = 0 /\ retry' = 0
Return == pc' = "idle" /\ i' = 0 /\ retry' = 0

TcpClient_RecvMsg ==
    /\ pc = "idle" /\ conn # "none"
    /\ ToRecv
    /\ UNCHANGED <<parserVars, streamVars, historyVars>>

ToRecv_Byte ==
    /\ pc = "recv" /\ i < need /\ Available
    /\ IF header = 0 THEN StoreInCache(i, unread) ELSE StoreInPayload(i, unread)
    /\ unread' = After(unread)
    /\ i' = i + 1
    /\ UNCHANGED <<sent, front, conn, pc, retry, historyVars>>

(* read() returns 0. *)
ToRecv_Zero ==
    /\ pc = "recv" /\ i < need /\ ~Available /\ conn = "eof"
    /\ IF retry > MaxRetry
       THEN pc' = "broke" /\ UNCHANGED retry
       ELSE retry' = retry + 1 /\ UNCHANGED pc
    /\ UNCHANGED <<parserVars, streamVars, i, historyVars>>

(* read() returns -1: a timeout, a signal, a reset.  Data that has arrived is
   returned first. *)
ToRecv_Error ==
    /\ pc = "recv" /\ i < need /\ ~Available
    /\ pc' = "broke"
    /\ UNCHANGED <<parserVars, streamVars, i, retry, historyVars>>

ToRecv_Returned == pc = "broke" \/ (pc = "recv" /\ i >= need)

(* Mutant: an interrupted header is not counted. *)
ReadFd_Header_Uncounted ==
    /\ ToRecv_Returned /\ header = 0
    /\ \/ /\ i = need
          /\ \E length \in Unsigned :
                Decodes(cache, Fields, length) /\ ToMidState(length) /\ ToRecv
       \/ i # need /\ Return /\ UNCHANGED parserVars
    /\ UNCHANGED <<streamVars, historyVars>>

(* The header phase is over.  With a complete header the call goes on to the
   payload. *)
ReadFd_Header ==
    /\ ToRecv_Returned /\ header = 0
    /\ \/ /\ i = need
          /\ \E length \in Unsigned :
                /\ Decodes(cache, Fields, length)
                /\ \/ ToMidState(length) /\ ToRecv /\ UNCHANGED framed
                   \/ ToMidStateFails(length) /\ Return /\ framed' = FALSE
       \/ /\ i # need
          /\ need' = need - i
          /\ Return
          /\ UNCHANGED <<cache, header, msg, framed>>
    /\ UNCHANGED <<streamVars, whole, delivered>>

(* Mutant: the parser is not reset when the message is handed out. *)
ReadFd_Payload_KeepsMessage ==
    /\ ToRecv_Returned /\ header = 1
    /\ IF need - i = 0
       THEN delivered' = Append(delivered, [msg |-> msg, framed |-> InFrame])
       ELSE UNCHANGED delivered
    /\ need' = need - i
    /\ Return
    /\ UNCHANGED <<cache, header, msg, streamVars, whole, framed>>

(* The payload phase is over (ToLastState). *)
ReadFd_Payload ==
    /\ ToRecv_Returned /\ header = 1
    /\ IF need - i = 0
       THEN /\ delivered' = Append(delivered, [msg |-> msg, framed |-> InFrame])
            /\ InitState
       ELSE /\ need' = need - i
            /\ UNCHANGED <<cache, header, msg, delivered>>
    /\ Return
    /\ UNCHANGED <<streamVars, whole, framed>>

(* A header written beyond its block may fall into what malloc rounded up, or
   bring the program down then or at any later time. *)
Overrun_Damage ==
    /\ ~HeaderFits /\ pc # "undefined"
    /\ pc' = "undefined"
    /\ UNCHANGED <<parserVars, streamVars, i, retry, historyVars>>

ReadFd == ToRecv_Byte \/ ToRecv_Zero \/ ToRecv_Error \/ ReadFd_Header \/ ReadFd_Payload
-----------------------------------------------------------------------------
(* Mutant: Close without MParser_Reset. *)
TcpClient_Close_KeepsParser ==
    /\ pc = "idle"
    /\ conn' = "none"
    /\ front' = End /\ unread' = End
    /\ UNCHANGED <<parserVars, sent, callVars, historyVars>>

(* Close resets the parser; what was on the connection is lost. *)
TcpClient_Close ==
    /\ pc = "idle"
    /\ conn' = "none"
    /\ front' = End /\ unread' = End
    /\ InitState
    /\ UNCHANGED <<sent, callVars, historyVars>>

(* Connect takes a new socket unless the old one is established, and leaves
   the parser alone.  socket() may fail; on a socket that connect() failed for
   nothing comes, as on one whose peer has closed. *)
TcpClient_Connect ==
    /\ pc = "idle"
    /\ conn = "none" \/ (conn = "eof" /\ ~CloseFirst)
    /\ conn' \in {"up", "eof", "none"}
    /\ front' = End /\ unread' = End
    /\ whole' = TRUE /\ framed' = AtInitState
    /\ UNCHANGED <<parserVars, sent, callVars, delivered>>
-----------------------------------------------------------------------------
Init ==
    /\ ParserInit
    /\ sent = <<>> /\ front = <<1, 0>> /\ unread = <<1, 0>> /\ conn = "none"
    /\ pc = "idle" /\ i = 0 /\ retry = 0
    /\ whole = TRUE /\ framed = TRUE /\ delivered = <<>>

Next ==
    \/ TcpClient_SendMsg \/ TcpClient_SendRaw \/ Arrive \/ Peer_Close
    \/ TcpClient_RecvMsg \/ ReadFd \/ Overrun_Damage
    \/ TcpClient_Close \/ TcpClient_Connect

Spec == Init /\ [][Next]_vars

(* A call runs to its end; the receiver calls RecvMsg again and again; what
   has been sent arrives unless the connection ends. *)
FairSpec ==
    /\ Spec
    /\ WF_vars(ReadFd) /\ WF_vars(TcpClient_RecvMsg) /\ WF_vars(Arrive)
-----------------------------------------------------------------------------
Byte == Nat \X Nat
Piece == [length : Unsigned, size : 1..IntMax]
PossibleMessage(m) ==
    \E length \in Unsigned :
        m \in [head : [HeaderBytes -> Byte], length : {length},
              payload : [0..(ToInt(length) - 1) -> Byte]]

TypeOK ==
    /\ cache \in [HeaderBytes -> Byte]
    /\ header \in {0, 1}
    /\ need \in Int
    /\ IF header = 0 THEN msg = NULL ELSE PossibleMessage(msg)
    /\ sent \in Seq(Piece)
    /\ front \in Byte /\ unread \in Byte
    /\ conn \in {"none", "up", "eof"}
    /\ pc \in {"idle", "recv", "broke", "undefined"}
    /\ i \in Nat /\ retry \in 0..(MaxRetry + 1)
    /\ whole \in BOOLEAN /\ framed \in BOOLEAN
    /\ \A d \in 1..Len(delivered) :
          PossibleMessage(delivered[d].msg) /\ delivered[d].framed \in BOOLEAN

(* On any connection, in frame or not, and for any length field, every byte that
   ToRecv stores falls inside cache or inside the payload (msg_parser.c:165-166,
   190-191).  The one write that may pass the end of a block is that of a header
   whose length field wraps below zero (msg_parser.c:36), and this needs a peer
   that sends something else than whole messages, or a connection out of frame. *)
OnlyForeignHeadersOverrun ==
    /\ pc = "recv" /\ i < need =>
           IF header = 0
           THEN CacheOffset + i \in HeaderBytes
           ELSE PayloadOffset + i \in DOMAIN msg.payload
    /\ HeaderFits \/ (msg.length > IntMax /\ ~InFrame)

(* As long as the connection is in frame every message that RecvMsg returns is
   one that was sent, whole and with its own payload, whatever interrupted the
   calls before (msg_parser.c:156-204). *)
FramedMessagesAreIntact ==
    \A d \in 1..Len(delivered) : delivered[d].framed =>
        \E k \in 1..Len(sent) : IsMessage(delivered[d].msg, k, sent[k].length)

(* As long as the connection is in frame need says how many bytes are needed to
   finish parsing (msg_parser.c:13), whatever came on the connections before it,
   and whatever lengths SendMsg is given. *)
NeedIsACountInFrame == InFrame => need >= 0

(* A connection that carries only whole messages leaves frame in two ways: no
   memory for a message (msg_parser.c:178), and a Connect over a connection that
   broke inside a message and was not closed (tcp_client.c:95-112).  Close always
   leads back (tcp_client.c:142). *)
ClosedFirstStaysInFrame == CloseFirst /\ ~MallocMayFail /\ whole => framed

(* Nothing is forgotten (msg_parser.c:56-85, 156-204): a message that is sent
   comes out whole unless the connection ends, and one that has arrived comes
   out even if the peer closes, unless the receiver closes. *)
HasComeOut(k) ==
    \E d \in 1..Len(delivered) : IsMessage(delivered[d].msg, k, sent[k].length)
EveryMessageComesOut ==
    \A k \in 1..MaxMessages :
        /\ (conn = "up" /\ Len(sent) >= k /\ unread[1] = k)
              ~> (conn # "up" \/ HasComeOut(k))
        /\ (conn = "eof" /\ front[1] > k /\ unread[1] = k)
              ~> (conn = "none" \/ HasComeOut(k))
-----------------------------------------------------------------------------
(* The promise of MessageChannel, and how it is kept.  The message to come out
   next is the one of which the parser has some bytes, if any. *)
NextOut ==
    IF header = 1 THEN msg.head[0][1]
    ELSE IF CacheOffset + i > 0 THEN cache[0][1] ELSE unread[1]

Channel == INSTANCE MessageChannel
              WITH sent <- Fields, next <- NextOut,
                   received <- [d \in 1..Len(delivered) |->
                                   delivered[d].msg.head[0][1]]

(* MessageStream implements MessageChannel. *)
ImplementsMessageChannel == Channel!Spec
=============================================================================
