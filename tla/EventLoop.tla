------------------------------ MODULE EventLoop ------------------------------
(***************************************************************************)
(* The event loop of tcp_server.c: TcpServer_DoWork waits with select() in *)
(* its descriptor set reads, SelectHandler accepts connections, makes a    *)
(* TcpClient of each and tells a listener what happens to it.              *)
(*                                                                         *)
(* A TcpClient stands at the index of its descriptor in client[].  It      *)
(* keeps that descriptor until TcpClient_Close sets its fd to -1, which    *)
(* the listener may do.  The kernel hands out the lowest free descriptor.  *)
(***************************************************************************)
EXTENDS Integers, Sequences

CONSTANTS
    Conns,        \* connections
    Descriptors,  \* descriptors below the limit of open files, which is
                  \*   FD_SIZE by default
    Others,       \* those that other parts of the program may hold
    Segments,     \* bound: segments of data a peer sends
    Listens,      \* what the listener may do: "ignore", "read", "close", "stop"
    MallocMayFail,\* BOOLEAN
    NULL

ASSUME EventLoopAssumption ==
    /\ Descriptors \subseteq Nat /\ Others \subseteq Descriptors
    /\ Conns \cap {"free", "listen", "other"} = {}
    /\ Segments \in Nat
    /\ Listens \subseteq {"ignore", "read", "close", "stop"}
    /\ MallocMayFail \in BOOLEAN
    /\ NULL \notin [of : Conns, open : BOOLEAN]

VARIABLES
    table,   \* what a descriptor stands for
    queue,   \* connections that wait in the accept queue
    peer,    \* "absent", "open" or "gone" (it closed or died)
    sent,    \* segments the peer has sent
    data,    \* those that have not been read
    valid, fd, cb, client,   \* the server object; cb: a listener is set
    reads, max,              \* locals of TcpServer_DoWork
    rset, index, event,      \* locals of SelectHandler; rset: still to look at
    pc,      \* "idle" (no DoWork), "select", "handle", "callback", "return",
             \*   "deleted" or "crashed"
    told     \* history: the last EVT_CONN or EVT_CLOSE of a connection,
             \*   or "wrong" after an event out of order

netVars == <<queue, peer, sent, data>>
serverVars == <<valid, fd, cb, client>>
loopVars == <<reads, max, rset, index, event>>
vars == <<table, netVars, serverVars, loopVars, pc, told>>

Free == {d \in Descriptors : table[d] = "free"}
IsLowest(d, S) == d \in S /\ \A e \in S : d <= e

(* TcpClient_From. *)
TcpClient(c) == [of |-> c, open |-> TRUE]

(* TcpClient_IsValid and TcpClient_Available look at the descriptor. *)
IsOpen(d) == client[d] # NULL /\ client[d].open
IsValid(d) == IsOpen(d) /\ table[d] \in Conns /\ peer[table[d]] = "open"

(* Mutants: data does not matter; the end of the stream counts as data. *)
Available_Ignored(d) == FALSE
Available_OrEnd(d) == IsOpen(d) /\ table[d] \in Conns

Available(d) == IsOpen(d) /\ table[d] \in Conns /\ data[table[d]] > 0

(* A connection that is in the queue or has a descriptor. *)
IsAlive(c) == (\E k \in 1..Len(queue) : queue[k] = c) \/ (\E d \in Descriptors : table[d] = c)

Readable(d) ==
    \/ table[d] = "listen" /\ queue # <<>>
    \/ table[d] \in Conns /\ (data[table[d]] > 0 \/ peer[table[d]] = "gone")
-----------------------------------------------------------------------------
(* Peers, and descriptors of the rest of the program that it gives back. *)

Peer_Connect(c) ==
    /\ peer[c] = "absent" /\ \E d \in Descriptors : table[d] = "listen"
    /\ peer' = [peer EXCEPT ![c] = "open"]
    /\ queue' = Append(queue, c)
    /\ UNCHANGED <<table, sent, data, serverVars, loopVars, pc, told>>

Peer_Send(c) ==
    /\ peer[c] = "open" /\ IsAlive(c) /\ sent[c] < Segments
    /\ sent' = [sent EXCEPT ![c] = @ + 1]
    /\ data' = [data EXCEPT ![c] = @ + 1]
    /\ UNCHANGED <<table, queue, peer, serverVars, loopVars, pc, told>>

(* A reset throws away what has not been read. *)
Peer_Leave(c) ==
    /\ peer[c] = "open" /\ IsAlive(c)
    /\ peer' = [peer EXCEPT ![c] = "gone"]
    /\ data' = data \/ data' = [data EXCEPT ![c] = 0]
    /\ UNCHANGED <<table, queue, sent, serverVars, loopVars, pc, told>>

Other_Close(d) ==
    /\ table[d] = "other"
    /\ table' = [table EXCEPT ![d] = "free"]
    /\ UNCHANGED <<netVars, serverVars, loopVars, pc, told>>
-----------------------------------------------------------------------------
(* The user's calls outside the loop. *)

TcpServer_SetListener ==
    /\ pc = "idle" /\ ~cb
    /\ cb' = TRUE
    /\ UNCHANGED <<table, netVars, valid, fd, client, loopVars, pc, told>>

(* A failing bind or listen is FileServer's subject. *)
TcpServer_Start ==
    /\ pc = "idle" /\ ~valid
    /\ \/ \E d \in Free :
             /\ IsLowest(d, Free)
             /\ table' = [table EXCEPT ![d] = "listen"]
             /\ fd' = d /\ valid' = TRUE
       \/ Free = {} /\ fd' = -1 /\ UNCHANGED <<table, valid>>
    /\ UNCHANGED <<netVars, cb, client, loopVars, pc, told>>

(* The descriptors that Stop closes.  Mutant: the clients are forgotten. *)
Closed_ListeningOnly == {fd}
Closed == {d \in Descriptors : d = fd \/ IsOpen(d)}

(* Close the listening socket and delete every TcpClient.  fd keeps its value.
   The connections in the accept queue are reset. *)
Stop ==
    /\ valid' = FALSE
    /\ table' = [d \in Descriptors |-> IF d \in Closed THEN "free" ELSE table[d]]
    /\ client' = [d \in Descriptors |-> NULL]
    /\ queue' = IF fd \in Descriptors /\ table[fd] = "listen" THEN <<>> ELSE queue
    /\ UNCHANGED <<fd, cb, peer, sent, data, loopVars, told>>

TcpServer_Stop == pc = "idle" /\ Stop /\ UNCHANGED pc

TcpServer_Del == pc = "idle" /\ Stop /\ pc' = "deleted"
-----------------------------------------------------------------------------
(* TcpServer_DoWork *)

DoWork_Start ==
    /\ pc = "idle" /\ valid
    /\ reads' = {fd} /\ max' = fd
    /\ pc' = "select"
    /\ UNCHANGED <<table, netVars, serverVars, rset, index, event, told>>

DoWork_Return ==
    /\ pc = "select" /\ ~valid
    /\ pc' = "idle"
    /\ UNCHANGED <<table, netVars, serverVars, loopVars, told>>

(* A descriptor in the set that is not open makes select() fail, and the loop
   only tries again. *)
Watched == {d \in reads : d <= max}
Stalled == \E d \in Watched : table[d] = "free"

Select ==
    /\ pc = "select" /\ valid /\ ~Stalled
    /\ rset' = {d \in Watched : Readable(d)}
    /\ rset' # {}
    /\ pc' = "handle"
    /\ UNCHANGED <<table, netVars, serverVars, reads, max, index, event, told>>
-----------------------------------------------------------------------------
(* SelectHandler, one descriptor after the other, and the calls of listener *)

Tell(c, e) ==
    told' = [told EXCEPT ![c] =
        IF told[c] = "none" /\ e = "EVT_CONN" THEN e
        ELSE IF told[c] = "EVT_CONN" /\ e # "EVT_CONN"
        THEN (IF e = "EVT_CLOSE" THEN e ELSE told[c])
        ELSE "wrong"]

Call(d, e) ==
    /\ index' = d /\ event' = e
    /\ pc' = IF cb THEN "callback" ELSE "handle"

(* The range of select() grows with the descriptors.  Mutant: it does not. *)
Grown_Not(new) == max
Grown(new) == IF new > max THEN new ELSE max

SelectHandler_Accept(d) ==
    /\ pc = "handle" /\ IsLowest(d, rset) /\ d = fd
    /\ rset' = rset \ {d}
    /\ \/ \E new \in Free :
             /\ IsLowest(new, Free) /\ table[d] = "listen"
             /\ queue' = Tail(queue)
             /\ table' = [table EXCEPT ![new] = Head(queue)]
             /\ reads' = reads \cup {new}
             /\ max' = Grown(new)
             /\ Call(new, "EVT_CONN")
             /\ \/ /\ client' = [client EXCEPT ![new] = TcpClient(Head(queue))]
                   /\ IF cb THEN Tell(Head(queue), "EVT_CONN") ELSE UNCHANGED told
                \/ /\ MallocMayFail
                   /\ client' = [client EXCEPT ![new] = NULL]
                   /\ UNCHANGED told
       \/ (* accept() fails, and client[-1] is the listener itself *)
          /\ Free = {} \/ table[d] # "listen"
          /\ pc' = IF cb THEN "crashed" ELSE "handle"
          /\ UNCHANGED <<table, queue, client, reads, max, index, event, told>>
    /\ UNCHANGED <<peer, sent, data, valid, fd, cb>>

(* The listener is told of data, or of the end. *)
SelectHandler_Client(d) ==
    /\ pc = "handle" /\ IsLowest(d, rset) /\ d # fd
    /\ rset' = rset \ {d}
    /\ \/ /\ ~cb
          /\ UNCHANGED <<index, event, pc, told>>
       \/ /\ cb /\ (IsValid(d) \/ Available(d))
          /\ Call(d, "EVT_DATA")
          /\ Tell(client[d].of, "EVT_DATA")
       \/ /\ cb /\ ~IsValid(d) /\ ~Available(d)
          /\ index' = d /\ event' = "EVT_CLOSE"
          /\ IF client[d] # NULL
             THEN pc' = "callback" /\ Tell(client[d].of, "EVT_CLOSE")
             ELSE pc' = "return" /\ UNCHANGED told
    /\ UNCHANGED <<table, netVars, serverVars, reads, max>>

(* The end of a connection: TcpClient_Del, and its descriptor leaves the set. *)
FreeDescriptor(d) == table' = [table EXCEPT ![d] = IF IsOpen(d) THEN "free" ELSE @]

(* Mutants: nothing is done; the descriptor stays in the set. *)
End_Forgets(d) == UNCHANGED <<table, client, reads>>
End_KeepsBit(d) ==
    FreeDescriptor(d) /\ client' = [client EXCEPT ![d] = NULL] /\ UNCHANGED reads

End(d) ==
    FreeDescriptor(d) /\ client' = [client EXCEPT ![d] = NULL] /\ reads' = reads \ {d}

(* After the listener has returned. *)
SelectHandler_Return ==
    /\ pc = "return"
    /\ pc' = "handle"
    /\ IF event = "EVT_CLOSE" THEN End(index) ELSE UNCHANGED <<table, client, reads>>
    /\ UNCHANGED <<netVars, valid, fd, cb, max, rset, index, event, told>>

SelectHandler_End ==
    /\ pc = "handle" /\ rset = {}
    /\ pc' = "select"
    /\ UNCHANGED <<table, netVars, serverVars, loopVars, told>>

(* What the listener does with its client, or with another one, or with the
   server. *)
Listener ==
    /\ pc = "callback"
    /\ pc' = "return"
    /\ \/ /\ "ignore" \in Listens
          /\ UNCHANGED <<table, netVars, serverVars, loopVars, told>>
       \/ /\ "read" \in Listens
          /\ data' = IF IsOpen(index) THEN [data EXCEPT ![client[index].of] = 0] ELSE data
          /\ UNCHANGED <<table, queue, peer, sent, serverVars, loopVars, told>>
       \/ /\ "close" \in Listens
          /\ \E d \in Descriptors :
                /\ IsOpen(d)
                /\ client' = [client EXCEPT ![d].open = FALSE]
                /\ table' = [table EXCEPT ![d] = "free"]
          /\ UNCHANGED <<netVars, valid, fd, cb, loopVars, told>>
       \/ /\ "stop" \in Listens
          /\ Stop
-----------------------------------------------------------------------------
Init ==
    /\ \E S \in SUBSET Others :
          table = [d \in Descriptors |-> IF d \in S THEN "other" ELSE "free"]
    /\ queue = <<>>
    /\ peer = [c \in Conns |-> "absent"]
    /\ sent = [c \in Conns |-> 0] /\ data = [c \in Conns |-> 0]
    /\ valid = FALSE /\ fd = -1 /\ cb = FALSE
    /\ client = [d \in Descriptors |-> NULL]
    /\ reads = {} /\ max = 0 /\ rset = {} /\ index = -1 /\ event = "none"
    /\ pc = "idle"
    /\ told = [c \in Conns |-> "none"]

User == TcpServer_SetListener \/ TcpServer_Start \/ TcpServer_Stop \/ TcpServer_Del

DoWork ==
    \/ DoWork_Start \/ DoWork_Return \/ Select
    \/ \E d \in rset : SelectHandler_Accept(d) \/ SelectHandler_Client(d)
    \/ SelectHandler_Return \/ SelectHandler_End
    \/ Listener

Environment ==
    \/ \E c \in Conns : Peer_Connect(c) \/ Peer_Send(c) \/ Peer_Leave(c)
    \/ \E d \in Descriptors : Other_Close(d)

Next == User \/ DoWork \/ Environment

Spec == Init /\ [][Next]_vars

(* The thread that called DoWork runs, and the listener returns. *)
FairSpec == Spec /\ WF_vars(DoWork)
-----------------------------------------------------------------------------
TypeOK ==
    /\ table \in [Descriptors -> {"free", "listen", "other"} \cup Conns]
    /\ queue \in Seq(Conns)
    /\ peer \in [Conns -> {"absent", "open", "gone"}]
    /\ sent \in [Conns -> 0..Segments] /\ data \in [Conns -> 0..Segments]
    /\ valid \in BOOLEAN /\ cb \in BOOLEAN /\ fd \in Descriptors \cup {-1}
    /\ client \in [Descriptors -> {NULL} \cup [of : Conns, open : BOOLEAN]]
    /\ reads \subseteq Descriptors /\ rset \subseteq Descriptors
    /\ max \in Nat /\ index \in Descriptors \cup {-1}
    /\ event \in {"none", "EVT_CONN", "EVT_DATA", "EVT_CLOSE"}
    /\ pc \in {"idle", "select", "handle", "callback", "return", "deleted", "crashed"}
    /\ told \in [Conns -> {"none", "EVT_CONN", "EVT_CLOSE", "wrong"}]

(* The descriptor of an open TcpClient is its own connection's, never one that
   was closed and handed out again (tcp_server.c:118-153, 76-82). *)
ClientsOwnDescriptors ==
    /\ \A d \in Descriptors : IsOpen(d) => table[d] = client[d].of
    /\ \A d, e \in Descriptors :
          IsOpen(d) /\ IsOpen(e) /\ client[d].of = client[e].of => d = e

(* The descriptor of a connection is closed with its TcpClient, and is lost only
   if there was no memory for the TcpClient (tcp_server.c:126). *)
DescriptorsAreNotLost ==
    \A d \in Descriptors : table[d] \in Conns =>
        IsOpen(d) \/ (MallocMayFail /\ told[table[d]] = "none")

(* The descriptors of connections and the open clients are one to one, but for
   those there was no memory for, whatever the listener closes and whenever the
   server is stopped. *)
ClientsMatchDescriptors ==
    TypeOK /\ ClientsOwnDescriptors /\ DescriptorsAreNotLost

(* select() waits for every client there is, whatever clients came and went
   (tcp_server.c:122-126, 149-153, 177-190). *)
NobodyIsForgotten ==
    pc = "select" /\ valid =>
        fd \in Watched /\ \A d \in Descriptors : client[d] # NULL => d \in Watched

(* EVT_CLOSE comes when the peer has gone and all its data was offered
   (tcp_server.c:138), unless the listener closed the client before. *)
CloseComesAfterData ==
    pc = "callback" /\ event = "EVT_CLOSE" /\ IsOpen(index) =>
        peer[client[index].of] = "gone" /\ data[client[index].of] = 0

(* The loop can spin in vain, deaf to everybody, only after the listener has
   closed a client outside EVT_CLOSE (tcp_server.c:186). *)
StallsOnlyByClosing ==
    pc = "select" /\ valid /\ Stalled =>
        \E d \in Watched : client[d] # NULL /\ ~client[d].open

(* With a listener set, a connection that waits is accepted, data is offered and
   the client of a peer that has gone is given up, unless the server is stopped,
   accept fails or the loop is made deaf by a closed client
   (tcp_server.c:101-194). *)
EverythingIsTold ==
    \A c \in Conns :
        LET Waits == \E k \in 1..Len(queue) : queue[k] = c
            HasClient == \E d \in Descriptors : IsOpen(d) /\ client[d].of = c
            IsOffered == /\ pc = "callback" /\ event = "EVT_DATA"
                         /\ IsOpen(index) /\ client[index].of = c
            IsOver == ~valid \/ pc = "crashed" \/ (pc = "select" /\ Stalled)
        IN
        /\ cb /\ Waits ~> ~Waits \/ IsOver
        /\ cb /\ HasClient /\ data[c] > 0
              ~> IsOffered \/ data[c] = 0 \/ ~HasClient \/ IsOver
        /\ cb /\ HasClient /\ peer[c] = "gone" /\ data[c] = 0
              ~> ~HasClient \/ IsOver
-----------------------------------------------------------------------------
(* The promise of ConnectionLife, and how it is kept. *)
Served == {c \in Conns : \E d \in Descriptors : IsOpen(d) /\ client[d].of = c}
ClosedByListener ==
    {c \in Conns : \E d \in Descriptors :
        client[d] # NULL /\ ~client[d].open /\ client[d].of = c}

Life == INSTANCE ConnectionLife
            WITH open <- valid, listening <- cb, line <- queue, heard <- told,
                 come <- {c \in Conns : peer[c] # "absent"},
                 left <- {c \in Conns : peer[c] = "gone"},
                 served <- Served, closed <- ClosedByListener,
                 MayLose <- MallocMayFail

(* EventLoop implements ConnectionLife: whatever the listener closes and
   whenever descriptors are reused in the middle of a pass over the set, it
   hears of every connection EVT_CONN, then EVT_DATA, then EVT_CLOSE at most
   once, and of none that it was not told of (tcp_server.c:101-160). *)
ImplementsConnectionLife == Life!Spec
=============================================================================
