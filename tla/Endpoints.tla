------------------------------ MODULE Endpoints ------------------------------
(***************************************************************************)
(* Who holds which descriptor: the making, opening, closing and deleting   *)
(* of TcpServer, TcpClient and UdpPoint objects by one thread, with memory *)
(* and system calls that fail (tcp_server.c, tcp_client.c, udp_point.c).   *)
(*                                                                         *)
(* An object knows its descriptor by its number, and the kernel hands out  *)
(* the lowest free number: one that is kept after it has been closed soon  *)
(* stands for something else.  table remembers who took a descriptor.      *)
(***************************************************************************)
EXTENDS Integers, FiniteSets

CONSTANTS
    Descriptors,   \* descriptors below the limit of open files
    Clients,       \* TcpClient objects
    Server, Point, \* the TcpServer and the UdpPoint
    Other, Free,   \* other parts of the program, and nobody
    MallocMayFail, \* BOOLEAN
    NULL

Objects == Clients \cup {Server, Point}

ASSUME EndpointsAssumption ==
    /\ Descriptors \subseteq Nat
    /\ MallocMayFail \in BOOLEAN
    /\ Server # Point /\ Other # Free
    /\ Server \notin Clients /\ Point \notin Clients
    /\ Other \notin Objects /\ Free \notin Objects
    /\ NULL \notin Int

VARIABLES
    table,     \* who took a descriptor from the kernel, or Free
    up,        \* descriptors that listen or are connected (TCP_ESTABLISHED)
    fd,        \* the descriptor an object knows, -1, or NULL: there is no object
    valid,     \* of the server
    stray,     \* history: an object has closed what was not its own
    careless   \* history: objects that asked for a socket while they had one

vars == <<table, up, fd, valid, stray, careless>>

FreeOnes == {d \in Descriptors : table[d] = Free}
IsLowest(d) == d \in FreeOnes /\ \A e \in FreeOnes : d <= e
Held(o) == {d \in Descriptors : table[d] = o}

Asks(o) ==
    careless' = IF Held(o) = {} THEN careless ELSE careless \cup ({o} \cap Objects)

(* socket() or accept(): o gets d, with a peer or an address or without. *)
Take(o, d, isUp) ==
    /\ IsLowest(d)
    /\ table' = [table EXCEPT ![d] = o]
    /\ up' = IF isUp THEN up \cup {d} ELSE up
    /\ stray' = stray
    /\ Asks(o)

(* socket() fails. *)
TakeFails(o) == Asks(o) /\ UNCHANGED <<table, up, stray>>

NoDescriptor == UNCHANGED <<table, up, stray, careless>>

(* close() of the number d by o; of -1, or of a number that is free, nothing. *)
Close(o, d) ==
    /\ table' = [e \in Descriptors |-> IF e = d THEN Free ELSE table[e]]
    /\ up' = up \ {d}
    /\ stray' = (stray \/ (d \in Descriptors /\ table[d] \notin {o, Free}))
    /\ UNCHANGED careless
-----------------------------------------------------------------------------
(* Everybody else *)

Other_Open == \E d \in Descriptors : Take(Other, d, FALSE) /\ UNCHANGED <<fd, valid>>
Other_Close ==
    \E d \in Held(Other) : Close(Other, d) /\ UNCHANGED <<fd, valid>>
Peer_Leave ==
    /\ \E d \in up : (\E c \in Clients : table[d] = c) /\ up' = up \ {d}
    /\ UNCHANGED <<table, fd, valid, stray, careless>>
-----------------------------------------------------------------------------
Made(o, d) == fd[o] = NULL /\ fd' = [fd EXCEPT ![o] = d]
Knows(o, d) == fd[o] # NULL /\ fd' = [fd EXCEPT ![o] = d]

TcpServer_New == Made(Server, -1) /\ valid' = FALSE /\ NoDescriptor

(* bind and listen may fail; the socket stays. *)
TcpServer_Start ==
    /\ ~valid
    /\ \/ \E d \in Descriptors, ok \in BOOLEAN :
              Take(Server, d, ok) /\ Knows(Server, d) /\ valid' = ok
       \/ Knows(Server, -1) /\ valid' = FALSE /\ TakeFails(Server)

(* The number of the descriptor is kept. *)
TcpServer_Stop ==
    /\ fd[Server] # NULL
    /\ valid' = FALSE /\ Close(Server, fd[Server])
    /\ UNCHANGED fd

TcpServer_Del ==
    /\ Knows(Server, NULL)
    /\ valid' = FALSE /\ Close(Server, fd[Server])

(* accept() takes a number for what it was: it may as well find somebody else's
   listener there.  Without memory for the TcpClient the connection is closed
   again. *)
TcpServer_Accept(c) ==
    /\ fd[Server] \in Descriptors
    /\ \/ fd[Server] \in up /\ table[fd[Server]] = Server
       \/ table[fd[Server]] = Other
    /\ \/ \E d \in Descriptors : Take(c, d, TRUE) /\ Made(c, d)
       \/ MallocMayFail /\ fd[c] = NULL /\ FreeOnes # {} /\ NoDescriptor /\ UNCHANGED fd
    /\ UNCHANGED valid
-----------------------------------------------------------------------------
TcpClient_New(c) == Made(c, -1) /\ NoDescriptor /\ UNCHANGED valid

IsValid(c) == fd[c] \in up

(* A descriptor without a connection is not closed first; one that connect()
   failed for is kept. *)
TcpClient_Connect(c) ==
    /\ ~IsValid(c)
    /\ \/ \E d \in Descriptors, ok \in BOOLEAN : Take(c, d, ok) /\ Knows(c, d)
       \/ Knows(c, -1) /\ TakeFails(c)
    /\ UNCHANGED valid

(* Mutant: the number is kept, as TcpServer_Stop does. *)
Closed_KeepsNumber(c) == fd[c]
Closed(c) == -1

TcpClient_Close(c) ==
    /\ Close(c, fd[c]) /\ Knows(c, Closed(c)) /\ UNCHANGED valid

TcpClient_Del(c) ==
    /\ Close(c, fd[c]) /\ Knows(c, NULL) /\ UNCHANGED valid
-----------------------------------------------------------------------------
(* A socket that cannot be bound is closed again.  Without memory for the parser
   ret->fd is closed before it has been set: whatever malloc left there.
   Mutant: the socket stays. *)
Undone_KeepsSocket ==
    \/ \E d \in Descriptors : Take(Point, d, FALSE)
    \/ MallocMayFail /\ \E d \in Descriptors \cup {-1} : Close(Point, d)
Undone ==
    \/ NoDescriptor
    \/ MallocMayFail /\ \E d \in Descriptors \cup {-1} : Close(Point, d)

UdpPoint_New ==
    /\ \/ \E d \in Descriptors : Take(Point, d, FALSE) /\ Made(Point, d)
       \/ fd[Point] = NULL /\ UNCHANGED fd /\ Undone
    /\ UNCHANGED valid

(* A descriptor of somebody else becomes the point's. *)
UdpPoint_From ==
    /\ \E d \in Held(Other) :
          Made(Point, d) /\ table' = [table EXCEPT ![d] = Point]
    /\ UNCHANGED <<up, valid, stray, careless>>

UdpPoint_Del ==
    /\ Close(Point, fd[Point]) /\ Knows(Point, NULL) /\ UNCHANGED valid
-----------------------------------------------------------------------------
Init ==
    /\ table \in [Descriptors -> {Free, Other}]
    /\ up = {}
    /\ fd = [o \in Objects |-> NULL] /\ valid = FALSE
    /\ stray = FALSE /\ careless = {}

Next ==
    \/ Other_Open \/ Other_Close \/ Peer_Leave
    \/ TcpServer_New \/ TcpServer_Start \/ TcpServer_Stop \/ TcpServer_Del
    \/ UdpPoint_New \/ UdpPoint_From \/ UdpPoint_Del
    \/ \E c \in Clients :
          \/ TcpServer_Accept(c) \/ TcpClient_New(c) \/ TcpClient_Connect(c)
          \/ TcpClient_Close(c) \/ TcpClient_Del(c)

Spec == Init /\ [][Next]_vars
-----------------------------------------------------------------------------
TypeOK ==
    /\ table \in [Descriptors -> Objects \cup {Free, Other}]
    /\ up \subseteq {d \in Descriptors : table[d] \in Clients \cup {Server}}
    /\ fd \in [Objects -> Descriptors \cup {-1, NULL}]
    /\ valid \in BOOLEAN /\ (valid => fd[Server] # NULL)
    /\ stray \in BOOLEAN /\ careless \subseteq Objects

(* As long as nobody has closed what was not his, the descriptor a client or a
   point knows is its own, and that of a valid server is its own and listens:
   no number is used for what it stood for earlier (tcp_client.c:132-144,
   udp_point.c:169-179, tcp_server.c:66-84). *)
HandlesAreOwn ==
    ~stray =>
        /\ \A o \in Clients \cup {Point} : fd[o] \in Descriptors => table[fd[o]] = o
        /\ valid => fd[Server] \in up /\ table[fd[Server]] = Server

(* Whatever fails, no descriptor is left that no object knows, but those of an
   object that took a socket while it held one: Connect after the peer has left
   or connect failed, Start after a Start that failed (tcp_client.c:100,
   tcp_server.c:51). *)
NothingIsForgotten ==
    \A o \in Objects \ careless : \A d \in Held(o) : fd[o] = d

(* Somebody else's descriptor is closed in two ways only: by Stop or Del of a
   server that was stopped before and kept the number, and by UdpPoint_New when
   there is no memory for the parser (tcp_server.c:76, udp_point.c:55). *)
TwoWaysAstray ==
    [][~stray /\ stray' =>
           \/ ~valid /\ \E d \in Descriptors : fd[Server] = d /\ table[d] # Server
           \/ MallocMayFail /\ fd[Point] = NULL /\ UNCHANGED fd]_vars
=============================================================================
