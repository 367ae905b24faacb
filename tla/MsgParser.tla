------------------------------ MODULE MsgParser ------------------------------
(***************************************************************************)
(* The protocol parser object of msg_parser.c: it first collects the       *)
(* fixed-size header in cache, then allocates a block for the message,     *)
(* copies the header into it and collects the payload behind it.           *)
(* MessageStream feeds it from a TCP connection, MessageDatagrams from a   *)
(* UDP socket.                                                             *)
(*                                                                         *)
(* A byte is written <<k, o>>: byte number o of the k-th piece put on the  *)
(* wire, by SendMsg or SendRaw.  A piece that begins with a header has it  *)
(* in bytes 0..HeaderSize-1.  What a header says is not kept byte by byte: *)
(* a cache that holds the first bytes of piece k decodes to the length     *)
(* field of piece k, any other cache to any of RawLengths.                 *)
(***************************************************************************)
EXTENDS Integers

CONSTANTS
    HeaderSize,    \* sizeof(Message)
    IntMax,        \* the largest int; an unsigned int goes to 2*IntMax+1
    Lengths,       \* the lengths of the messages given to SendMsg
    RawLengths,    \* what other bytes may say in place of a length field
    MallocMayFail, \* BOOLEAN
    NULL

Unsigned == 0..(2 * IntMax + 1)

ASSUME MsgParserAssumption ==
    /\ HeaderSize \in Nat \ {0}
    /\ IntMax \in Nat /\ HeaderSize <= IntMax
    /\ Lengths \subseteq Unsigned /\ RawLengths \subseteq Unsigned
    /\ MallocMayFail \in BOOLEAN

VARIABLES
    cache,   \* the header under construction: cache[o] is a byte
    header,  \* 1 once the header has been parsed (msg_parser.c:12)
    need,    \* bytes still needed in this phase (msg_parser.c:13)
    msg      \* the message under construction, or NULL

parserVars == <<cache, header, need, msg>>

HeaderBytes == 0..(HeaderSize - 1)
Junk == <<0, 0>>   \* what a byte holds before it is written

(* An unsigned int or a size_t assigned to an int: modulo 2^w. *)
ToInt(n) == ((n + IntMax + 1) % (2 * (IntMax + 1))) - (IntMax + 1)

(* sizeof(Message) + length, returned as an int *)
Message_Size(length) == ToInt(HeaderSize + length)

(* malloc(sizeof(Message) + n): n is converted to size_t, so that a sum below
   zero wraps to more than any memory, and any other sum is what it says. *)
BlockSize(n) == HeaderSize + n
MallocPossible(n) == BlockSize(n) >= 0

(* MParser_New *)
ParserInit ==
    /\ cache = [o \in HeaderBytes |-> Junk]
    /\ header = 0 /\ need = HeaderSize /\ msg = NULL

AtInitState == header = 0 /\ need = HeaderSize

(* Forget the message under construction; the bytes in cache stay. *)
InitState ==
    /\ header' = 0 /\ need' = HeaderSize /\ msg' = NULL
    /\ UNCHANGED cache

Allocated(length) ==
    [head |-> cache, length |-> length,
     payload |-> [o \in 0..(ToInt(length) - 1) |-> Junk]]

(* The header was copied into the block without asking whether it fits there:
   a length field just below 2^w, a negative need, makes the block shorter. *)
HeaderFits == header = 1 => HeaderSize <= BlockSize(ToInt(msg.length))

(* Mutant: one byte more, for a terminating zero. *)
ToMidState_OneMore(length) ==
    /\ MallocPossible(ToInt(length))
    /\ header' = 1 /\ need' = ToInt(length) + 1 /\ msg' = Allocated(length)
    /\ UNCHANGED cache

(* Mutant: length taken to include the header. *)
ToMidState_Inclusive(length) ==
    /\ MallocPossible(ToInt(length))
    /\ header' = 1 /\ need' = ToInt(length) - HeaderSize
    /\ msg' = Allocated(length)
    /\ UNCHANGED cache

(* The header is complete and says length.  There is room for need bytes. *)
ToMidState(length) ==
    /\ MallocPossible(ToInt(length))
    /\ header' = 1
    /\ need' = ToInt(length)
    /\ msg' = Allocated(length)
    /\ UNCHANGED cache

(* No memory for the message: it is given up, and what follows its header on
   the wire is taken for the next header. *)
ToMidStateFails(length) ==
    /\ MallocMayFail \/ ~MallocPossible(ToInt(length))
    /\ InitState

(* Where a phase continues: in p->cache, in p->msg->payload (an unsigned
   difference assigned to an int). *)
CacheOffset == HeaderSize - need
PayloadOffset == ToInt(msg.length - need)

StoreInCache(i, byte) ==
    /\ cache' = [cache EXCEPT ![CacheOffset + i] = byte]
    /\ UNCHANGED <<header, need, msg>>

StoreInPayload(i, byte) ==
    /\ msg' = [msg EXCEPT !.payload[PayloadOffset + i] = byte]
    /\ UNCHANGED <<cache, header, need>>
-----------------------------------------------------------------------------
HeaderOf(k) == [o \in HeaderBytes |-> <<k, o>>]

(* What Message_N2H may make of the bytes in the cache: the length field of the
   piece that begins with them, if there is one (fields[k] is that of piece k). *)
Decodes(bytes, fields, length) ==
    /\ \A k \in DOMAIN fields : bytes = HeaderOf(k) => length = fields[k]
    /\ length \in RawLengths \/ \E k \in DOMAIN fields : bytes = HeaderOf(k)

(* m is message k, whole and unharmed. *)
IsMessage(m, k, length) ==
    /\ m.head = HeaderOf(k)
    /\ m.length = length
    /\ m.payload = [o \in 0..(length - 1) |-> <<k, HeaderSize + o>>]
=============================================================================
