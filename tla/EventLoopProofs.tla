--------------------------- MODULE EventLoopProofs ---------------------------
(***************************************************************************)
(* Proofs about EventLoop, for any number of connections, descriptors and  *)
(* segments and for every listener.                                        *)
(***************************************************************************)
EXTENDS EventLoop, TLAPS

InLoop == pc \in {"select", "handle", "callback", "return"}
InPass == pc \in {"handle", "callback", "return"}

(* There is a TcpClient of c, open or not, at index d. *)
Serves(d, c) == client[d] # NULL /\ client[d].of = c

(* The server has not accepted c. *)
IsNew(c) == told[c] = "none" /\ \A d \in Descriptors : table[d] # c /\ ~Serves(d, c)

(* Only a valid server listens, has a queue and keeps clients, and these only
   while DoWork runs. *)
ServerInv ==
    /\ valid => fd \in Descriptors /\ table[fd] = "listen"
    /\ \A d \in Descriptors : table[d] = "listen" => valid /\ d = fd
    /\ queue # <<>> => valid
    /\ \A d \in Descriptors : client[d] # NULL => valid /\ pc \notin {"idle", "deleted"}
    /\ pc \in {"callback", "return"} => cb /\ index \in Descriptors

(* What waits in the queue is new, and stands there once. *)
QueueInv ==
    /\ \A k, l \in 1..Len(queue) : queue[k] = queue[l] => k = l
    /\ \A k \in 1..Len(queue) : IsNew(queue[k]) /\ peer[queue[k]] # "absent"
    /\ \A c \in Conns : peer[c] = "absent" => IsNew(c)

(* An open client has its connection's descriptor, a closed one has none, and no
   connection has two clients. *)
ClientInv ==
    /\ \A d \in Descriptors : IsOpen(d) => table[d] = client[d].of
    /\ \A d, e \in Descriptors : Serves(e, table[d]) => d = e /\ IsOpen(e)
    /\ \A d, e \in Descriptors : client[d] # NULL /\ Serves(e, client[d].of) => d = e

(* The client whose end is being told. *)
IsEnding(d) == pc \in {"callback", "return"} /\ event = "EVT_CLOSE" /\ index = d

(* No event came out of order. *)
EventsInOrder == \A c \in Conns : told[c] # "wrong"

(* What the listener knows of the clients there are. *)
ToldInv ==
    /\ EventsInOrder
    /\ ~cb => \A c \in Conns : told[c] = "none"
    /\ cb => \A d \in Descriptors : client[d] # NULL =>
          told[client[d].of] = IF IsEnding(d) THEN "EVT_CLOSE" ELSE "EVT_CONN"

(* The loop watches the listening socket, the clients and the descriptors there
   was no memory for, and nothing else. *)
WatchInv ==
    /\ InLoop /\ valid =>
          /\ fd \in reads /\ fd <= max
          /\ \A d \in Descriptors : client[d] # NULL => d \in reads /\ d <= max
          /\ \A d \in reads : d = fd \/ client[d] # NULL \/ table[d] \in Conns
    /\ InPass /\ valid /\ fd \in rset => queue # <<>>
    /\ \A d \in Descriptors : IsEnding(d) => d # fd

DataInv ==
    /\ \A c \in Conns : data[c] <= sent[c]
    /\ CloseComesAfterData

RestInv ==
    /\ ServerInv /\ QueueInv /\ ClientInv /\ ToldInv /\ WatchInv /\ DataInv
    /\ DescriptorsAreNotLost

LoopInv == TypeOK /\ RestInv
-----------------------------------------------------------------------------
LEMMA ConstantFacts ==
    /\ Descriptors \subseteq Nat /\ -1 \notin Descriptors /\ Segments \in Nat
    /\ "free" \notin Conns /\ "listen" \notin Conns /\ "other" \notin Conns
    /\ \A c \in Conns : TcpClient(c) \in [of : Conns, open : BOOLEAN]
                       /\ TcpClient(c) # NULL
                       /\ TcpClient(c).of = c /\ TcpClient(c).open
<1> USE EventLoopAssumption DEF EventLoopAssumption
<1>1. Descriptors \subseteq Nat /\ -1 \notin Descriptors /\ Segments \in Nat
  OBVIOUS
<1>2. "free" \notin Conns /\ "listen" \notin Conns /\ "other" \notin Conns
  OBVIOUS
<1>3. ASSUME NEW c \in Conns
      PROVE  /\ TcpClient(c) \in [of : Conns, open : BOOLEAN]
             /\ TcpClient(c) # NULL
             /\ TcpClient(c).of = c /\ TcpClient(c).open
  <2>1. TcpClient(c) \in [of : Conns, open : BOOLEAN]
    BY DEF TcpClient
  <2>2. QED
    BY <2>1 DEF TcpClient
<1>4. QED
  BY <1>1, <1>2, <1>3

(* What is known of an open client and of one that was not deleted. *)
LEMMA ClientFacts ==
    ASSUME TypeOK, NEW d \in Descriptors
    PROVE  /\ client[d] # NULL => client[d].of \in Conns /\ client[d].open \in BOOLEAN
           /\ IsOpen(d) <=> client[d] # NULL /\ client[d].open
BY DEF TypeOK, IsOpen

(* The listener closes one client. *)
LEMMA CloseKeeps ==
    ASSUME TypeOK, NEW d \in Descriptors, IsOpen(d),
           client' = [client EXCEPT ![d].open = FALSE]
    PROVE  /\ client' \in [Descriptors -> {NULL} \cup [of : Conns, open : BOOLEAN]]
           /\ \A e \in Descriptors :
                 /\ client'[e] # NULL <=> client[e] # NULL
                 /\ client[e] # NULL => client'[e].of = client[e].of
                 /\ client'[e].open <=> client[e].open /\ e # d
<1>1. client[d] \in [of : Conns, open : BOOLEAN]
  BY DEF TypeOK, IsOpen
<1>2. /\ [client[d] EXCEPT !.open = FALSE] \in [of : Conns, open : BOOLEAN]
      /\ [client[d] EXCEPT !.open = FALSE].of = client[d].of
      /\ ~[client[d] EXCEPT !.open = FALSE].open
  BY <1>1
<1>3. [client[d] EXCEPT !.open = FALSE] # NULL /\ client[d] # NULL
  BY <1>1, <1>2, EventLoopAssumption DEF EventLoopAssumption
<1>4. client' = [client EXCEPT ![d] = [client[d] EXCEPT !.open = FALSE]]
  OBVIOUS
<1>5. client \in [Descriptors -> {NULL} \cup [of : Conns, open : BOOLEAN]]
  BY DEF TypeOK
<1>6. QED
  BY <1>2, <1>3, <1>4, <1>5

LEMMA TypeInitially == Init => TypeOK
<1> SUFFICES ASSUME Init PROVE TypeOK
  OBVIOUS
<1>1. PICK S \in SUBSET Others :
          table = [d \in Descriptors |-> IF d \in S THEN "other" ELSE "free"]
  BY DEF Init
<1>2. table \in [Descriptors -> {"free", "listen", "other"} \cup Conns]
  BY <1>1
<1>3. queue \in Seq(Conns)
  BY DEF Init
<1>4. /\ sent \in [Conns -> 0..Segments] /\ data \in [Conns -> 0..Segments]
      /\ peer \in [Conns -> {"absent", "open", "gone"}]
      /\ told \in [Conns -> {"none", "EVT_CONN", "EVT_CLOSE", "wrong"}]
  BY ConstantFacts DEF Init
<1>5. client \in [Descriptors -> {NULL} \cup [of : Conns, open : BOOLEAN]]
  BY DEF Init
<1>6. QED
  BY <1>2, <1>3, <1>4, <1>5 DEF Init, TypeOK

LEMMA StopType == TypeOK /\ Stop => 
    /\ table' \in [Descriptors -> {"free", "listen", "other"} \cup Conns]
    /\ queue' \in Seq(Conns)
    /\ client' \in [Descriptors -> {NULL} \cup [of : Conns, open : BOOLEAN]]
    /\ valid' \in BOOLEAN
    /\ UNCHANGED <<fd, cb, peer, sent, data, loopVars, told>>
<1> SUFFICES ASSUME TypeOK, Stop
             PROVE  /\ table' \in [Descriptors -> {"free", "listen", "other"} \cup Conns]
                    /\ queue' \in Seq(Conns)
                    /\ client' \in [Descriptors -> {NULL} \cup [of : Conns, open : BOOLEAN]]
                    /\ valid' \in BOOLEAN
                    /\ UNCHANGED <<fd, cb, peer, sent, data, loopVars, told>>
  OBVIOUS
<1>1. table' \in [Descriptors -> {"free", "listen", "other"} \cup Conns]
  BY DEF Stop, TypeOK
<1>2. queue' \in Seq(Conns)
  BY DEF Stop, TypeOK
<1>3. client' \in [Descriptors -> {NULL} \cup [of : Conns, open : BOOLEAN]]
  BY DEF Stop
<1>4. valid' \in BOOLEAN /\ UNCHANGED <<fd, cb, peer, sent, data, loopVars, told>>
  BY DEF Stop
<1>5. QED
  BY <1>1, <1>2, <1>3, <1>4

LEMMA TellType ==
    ASSUME TypeOK, NEW c, NEW e \in {"EVT_CONN", "EVT_DATA", "EVT_CLOSE"}, Tell(c, e)
    PROVE  told' \in [Conns -> {"none", "EVT_CONN", "EVT_CLOSE", "wrong"}]
BY DEF TypeOK, Tell

(* What the rest of the program may change. *)
LEMMA TypeAround ==
    ASSUME TypeOK, DataInv,
           \/ User \/ Environment \/ UNCHANGED vars
    PROVE  TypeOK'
<1> USE DEF TypeOK, netVars, serverVars, loopVars
<1>1. CASE TcpServer_SetListener
  BY <1>1 DEF TcpServer_SetListener
<1>2. CASE TcpServer_Start
  BY <1>2 DEF TcpServer_Start, Free
<1>3. CASE TcpServer_Stop \/ TcpServer_Del
  BY <1>3, StopType DEF TcpServer_Stop, TcpServer_Del
<1>4. ASSUME NEW c \in Conns, Peer_Connect(c) PROVE TypeOK'
  BY <1>4 DEF Peer_Connect
<1>5. ASSUME NEW c \in Conns, Peer_Send(c) PROVE TypeOK'
  <2>1. sent[c] + 1 \in 0..Segments /\ data[c] + 1 \in 0..Segments
    BY <1>5, ConstantFacts DEF Peer_Send, DataInv
  <2>2. QED
    BY <1>5, <2>1 DEF Peer_Send
<1>6. ASSUME NEW c \in Conns, Peer_Leave(c) PROVE TypeOK'
  <2>1. 0 \in 0..Segments
    BY ConstantFacts
  <2>2. peer' \in [Conns -> {"absent", "open", "gone"}]
    BY <1>6 DEF Peer_Leave
  <2>3. data' \in [Conns -> 0..Segments]
    BY <1>6, <2>1 DEF Peer_Leave
  <2>4. QED
    BY <1>6, <2>2, <2>3 DEF Peer_Leave
<1>7. ASSUME NEW d \in Descriptors, Other_Close(d) PROVE TypeOK'
  BY <1>7 DEF Other_Close
<1>8. CASE UNCHANGED vars
  BY <1>8 DEF vars
<1>9. QED
  BY <1>1, <1>2, <1>3, <1>4, <1>5, <1>6, <1>7, <1>8 DEF User, Environment

(* accept() hands the first connection of the queue to a free descriptor. *)
Accepts(new, c) ==
    /\ new \in Descriptors /\ table[new] = "free"
    /\ queue # <<>> /\ c = queue[1] /\ queue' = Tail(queue)
    /\ table' = [table EXCEPT ![new] = c]
    /\ reads' = reads \cup {new} /\ max' = Grown(new)
    /\ index' = new /\ event' = "EVT_CONN"
    /\ pc' = IF cb THEN "callback" ELSE "handle"
    /\ \/ /\ client' = [client EXCEPT ![new] = TcpClient(c)]
          /\ told' = IF cb THEN [told EXCEPT ![c] = "EVT_CONN"] ELSE told
       \/ /\ MallocMayFail
          /\ client' = [client EXCEPT ![new] = NULL]
          /\ told' = told

(* It fails, which only a listener does not survive. *)
AcceptFails ==
    /\ pc' = IF cb THEN "crashed" ELSE "handle"
    /\ UNCHANGED <<table, queue, client, reads, max, index, event, told>>

LEMMA AcceptStep ==
    ASSUME TypeOK, ServerInv, QueueInv, WatchInv,
           NEW d \in rset, SelectHandler_Accept(d)
    PROVE  /\ pc = "handle" /\ rset' = rset \ {fd} /\ fd \in rset
           /\ UNCHANGED <<peer, sent, data, valid, fd, cb>>
           /\ AcceptFails \/ \E new \in Descriptors, c \in Conns : Accepts(new, c)
<1>1. /\ pc = "handle" /\ rset' = rset \ {fd} /\ d = fd
      /\ UNCHANGED <<peer, sent, data, valid, fd, cb>>
  BY DEF SelectHandler_Accept
<1>2. CASE Free = {} \/ table[d] # "listen"
  <2>1. AcceptFails
    BY <1>2 DEF SelectHandler_Accept, AcceptFails, Free
  <2>2. QED
    BY <1>1, <2>1
<1>3. CASE Free # {} /\ table[d] = "listen"
  <2>1. PICK new \in Free :
          /\ queue' = Tail(queue)
          /\ table' = [table EXCEPT ![new] = Head(queue)]
          /\ reads' = reads \cup {new}
          /\ max' = Grown(new)
          /\ Call(new, "EVT_CONN")
          /\ \/ /\ client' = [client EXCEPT ![new] = TcpClient(Head(queue))]
                /\ IF cb THEN Tell(Head(queue), "EVT_CONN") ELSE UNCHANGED told
             \/ /\ MallocMayFail
                /\ client' = [client EXCEPT ![new] = NULL]
                /\ UNCHANGED told
    BY <1>3 DEF SelectHandler_Accept
  <2>2. queue # <<>> /\ queue \in Seq(Conns)
    BY <1>1, <1>3 DEF ServerInv, WatchInv, InPass, TypeOK
  <2>3. Head(queue) = queue[1] /\ queue[1] \in Conns /\ 1 \in 1..Len(queue)
    BY <2>2
  <2>4. told[queue[1]] = "none"
    BY <2>3 DEF QueueInv, IsNew
  <2>5. Tell(queue[1], "EVT_CONN") => told' = [told EXCEPT ![queue[1]] = "EVT_CONN"]
    BY <2>4 DEF Tell
  <2>6. new \in Descriptors /\ table[new] = "free"
    BY DEF Free
  <2>7. Accepts(new, queue[1])
    BY <2>1, <2>2, <2>3, <2>5, <2>6 DEF Accepts, Call
  <2>8. QED
    BY <1>1, <2>3, <2>6, <2>7
<1>4. QED
  BY <1>2, <1>3

(* What the loop and the listener change. *)
LEMMA TypeInLoop == TypeOK /\ ServerInv /\ QueueInv /\ WatchInv /\ DoWork => TypeOK'
<1> SUFFICES ASSUME TypeOK, ServerInv, QueueInv, WatchInv, DoWork PROVE TypeOK'
  OBVIOUS
<1> USE DEF TypeOK, netVars, serverVars, loopVars
<1>1. CASE DoWork_Start
  BY <1>1, ConstantFacts DEF DoWork_Start, ServerInv
<1>2. CASE DoWork_Return \/ SelectHandler_End
  BY <1>2 DEF DoWork_Return, SelectHandler_End
<1>3. CASE Select
  BY <1>3 DEF Select, Watched
<1>4. ASSUME NEW d \in rset, SelectHandler_Accept(d) PROVE TypeOK'
  <2>1. rset' \subseteq Descriptors /\ UNCHANGED <<peer, sent, data, valid, fd, cb>>
    BY <1>4, AcceptStep
  <2>2. CASE AcceptFails
    BY <2>1, <2>2 DEF AcceptFails
  <2>3. ASSUME NEW new \in Descriptors, NEW c \in Conns, Accepts(new, c)
        PROVE  TypeOK'
    <3>1. queue' \in Seq(Conns) /\ max' \in Nat /\ reads' \subseteq Descriptors
      BY <2>3, ConstantFacts DEF Accepts, Grown
    <3>2. client' \in [Descriptors -> {NULL} \cup [of : Conns, open : BOOLEAN]]
      BY <2>3, ConstantFacts DEF Accepts
    <3>3. /\ told' \in [Conns -> {"none", "EVT_CONN", "EVT_CLOSE", "wrong"}]
          /\ table' \in [Descriptors -> {"free", "listen", "other"} \cup Conns]
      BY <2>3 DEF Accepts
    <3>4. QED
      BY <2>1, <2>3, <3>1, <3>2, <3>3 DEF Accepts
  <2>4. QED
    BY <1>4, <2>2, <2>3, AcceptStep
<1>5. ASSUME NEW d \in rset, SelectHandler_Client(d) PROVE TypeOK'
  <2>1. told' \in [Conns -> {"none", "EVT_CONN", "EVT_CLOSE", "wrong"}]
    BY <1>5, TellType DEF SelectHandler_Client
  <2>2. QED
    BY <1>5, <2>1 DEF SelectHandler_Client, Call
<1>6. CASE SelectHandler_Return
  BY <1>6 DEF SelectHandler_Return, End, FreeDescriptor
<1>7. CASE Listener
  <2>1. CASE Stop
    BY <1>7, <2>1, StopType DEF Listener
  <2>2. CASE UNCHANGED <<table, netVars, serverVars, loopVars, told>>
    BY <1>7, <2>2 DEF Listener
  <2>3. CASE /\ data' = IF IsOpen(index) THEN [data EXCEPT ![client[index].of] = 0] ELSE data
             /\ UNCHANGED <<table, queue, peer, sent, serverVars, loopVars, told>>
    <3>1. 0 \in 0..Segments
      BY ConstantFacts
    <3>2. data' \in [Conns -> 0..Segments]
      BY <2>3, <3>1
    <3>3. QED
      BY <1>7, <2>3, <3>2 DEF Listener
  <2>4. ASSUME NEW d \in Descriptors, IsOpen(d),
               client' = [client EXCEPT ![d].open = FALSE],
               table' = [table EXCEPT ![d] = "free"],
               UNCHANGED <<netVars, valid, fd, cb, loopVars, told>>
        PROVE  TypeOK'
    <3>1. client' \in [Descriptors -> {NULL} \cup [of : Conns, open : BOOLEAN]]
      BY <2>4, CloseKeeps
    <3>2. QED
      BY <1>7, <2>4, <3>1 DEF Listener
  <2>5. QED
    BY <1>7, <2>1, <2>2, <2>3, <2>4 DEF Listener
<1>8. QED
  BY <1>1, <1>2, <1>3, <1>4, <1>5, <1>6, <1>7 DEF DoWork
-----------------------------------------------------------------------------
LEMMA RestInitially == Init => RestInv
<1> SUFFICES ASSUME Init PROVE RestInv
  OBVIOUS
<1>1. \A d \in Descriptors : /\ table[d] \in {"free", "other"} /\ table[d] \notin Conns
                             /\ client[d] = NULL
  BY ConstantFacts DEF Init
<1>2. ServerInv /\ ClientInv
  BY <1>1 DEF Init, ServerInv, ClientInv, IsOpen, Serves
<1>3. QueueInv
  BY <1>1 DEF Init, QueueInv, IsNew, Serves
<1>4. ToldInv
  BY <1>1 DEF Init, ToldInv, EventsInOrder
<1>5. WatchInv /\ DataInv
  BY DEF Init, WatchInv, DataInv, InLoop, InPass, IsEnding, CloseComesAfterData
<1>6. DescriptorsAreNotLost
  BY <1>1 DEF DescriptorsAreNotLost
<1>7. QED
  BY <1>2, <1>3, <1>4, <1>5, <1>6 DEF RestInv

(* After Stop there are no clients, nobody waits, and the descriptors that are
   left are those that were lost before. *)
LEMMA StopStep ==
    ASSUME LoopInv, Stop
    PROVE  /\ ~valid' /\ queue' = <<>>
           /\ \A d \in Descriptors :
                 /\ client'[d] = NULL
                 /\ table'[d] # "free" =>
                       table'[d] = table[d] /\ table[d] # "listen" /\ ~IsOpen(d)
<1> USE DEF LoopInv, RestInv
<1>1. ~valid' /\ \A d \in Descriptors : client'[d] = NULL
  BY DEF Stop
<1>2. queue' = <<>>
  BY DEF Stop, ServerInv
<1>3. ASSUME NEW d \in Descriptors, table'[d] # "free"
      PROVE  table'[d] = table[d] /\ table[d] # "listen" /\ ~IsOpen(d)
  BY <1>3 DEF Stop, Closed, ServerInv
<1>4. QED
  BY <1>1, <1>2, <1>3

LEMMA StopKeeps ==
    ASSUME LoopInv, Stop,
           \/ pc = "idle" /\ pc' \in {"idle", "deleted"}
           \/ pc = "callback" /\ pc' = "return"
    PROVE  RestInv'
<1> USE DEF LoopInv, RestInv
<1>1. UNCHANGED <<fd, cb, peer, sent, data, reads, max, rset, index, event, told>>
  BY DEF Stop, loopVars
<1>2. \A d \in Descriptors : ~IsOpen(d)' /\ client'[d] = NULL
  BY StopStep DEF IsOpen
<1>3. ServerInv'
  BY <1>1, <1>2, StopStep DEF ServerInv
<1>4. QueueInv'
  <2>1. \A c \in Conns : IsNew(c) => IsNew(c)'
    BY <1>1, <1>2, StopStep, ConstantFacts DEF IsNew, Serves
  <2>2. QED
    BY <1>1, <2>1, StopStep DEF QueueInv
<1>5. ClientInv'
  BY <1>2 DEF ClientInv, Serves
<1>6. ToldInv'
  BY <1>1, <1>2 DEF ToldInv, EventsInOrder
<1>7. WatchInv'
  BY <1>1, StopStep DEF WatchInv, IsEnding
<1>8. DataInv'
  BY <1>1 DEF DataInv, CloseComesAfterData
<1>9. DescriptorsAreNotLost'
  BY <1>1, StopStep, ConstantFacts DEF DescriptorsAreNotLost
<1>10. QED
  BY <1>3, <1>4, <1>5, <1>6, <1>7, <1>8, <1>9

LEMMA SetListenerKeeps == LoopInv /\ TcpServer_SetListener => RestInv'
<1> SUFFICES ASSUME LoopInv, TcpServer_SetListener PROVE RestInv'
  OBVIOUS
<1> USE DEF LoopInv, RestInv, netVars, loopVars
<1>1. /\ pc = "idle" /\ ~cb /\ cb'
      /\ UNCHANGED <<table, queue, peer, sent, data, valid, fd, client, reads, max, rset,
                     index, event, pc, told>>
  BY DEF TcpServer_SetListener
<1>2. \A d \in Descriptors : client[d] = NULL
  BY <1>1 DEF ServerInv
<1>3. ServerInv' /\ QueueInv' /\ ClientInv'
  BY <1>1 DEF ServerInv, QueueInv, ClientInv, IsNew, IsOpen, Serves
<1>4. ToldInv' /\ DescriptorsAreNotLost'
  BY <1>1, <1>2 DEF ToldInv, EventsInOrder, DescriptorsAreNotLost, IsOpen
<1>5. WatchInv' /\ DataInv'
  BY <1>1 DEF WatchInv, DataInv, InLoop, InPass, IsEnding, CloseComesAfterData
<1>6. QED
  BY <1>3, <1>4, <1>5

LEMMA StartKeeps == LoopInv /\ TcpServer_Start => RestInv'
<1> SUFFICES ASSUME LoopInv, TcpServer_Start PROVE RestInv'
  OBVIOUS
<1> USE DEF LoopInv, RestInv, netVars, loopVars
<1>1. /\ pc = "idle" /\ ~valid
      /\ UNCHANGED <<queue, peer, sent, data, cb, client, reads, max, rset, index, event,
                     pc, told>>
  BY DEF TcpServer_Start
<1>2. /\ \A d \in Descriptors : client[d] = NULL /\ ~IsOpen(d) /\ ~IsOpen(d)'
      /\ queue = <<>>
  BY <1>1 DEF ServerInv, IsOpen
<1>3. \/ UNCHANGED <<table, valid>>
      \/ \E d \in Descriptors :
            /\ table[d] = "free" /\ table' = [table EXCEPT ![d] = "listen"]
            /\ fd' = d /\ valid'
  BY DEF TcpServer_Start, Free
<1>4. \A d \in Descriptors :
          table'[d] = table[d] \/ (table'[d] = "listen" /\ valid' /\ d = fd')
  BY <1>3 DEF TypeOK
<1>5. ServerInv'
  BY <1>1, <1>2, <1>3, <1>4 DEF ServerInv, TypeOK
<1>6. QueueInv'
  <2>1. \A c \in Conns : IsNew(c) => IsNew(c)'
    BY <1>1, <1>2, <1>4, ConstantFacts DEF IsNew, Serves
  <2>2. QED
    BY <1>1, <1>2, <2>1 DEF QueueInv
<1>7. ClientInv'
  BY <1>1, <1>2 DEF ClientInv, Serves
<1>8. ToldInv'
  BY <1>1, <1>2 DEF ToldInv, EventsInOrder
<1>9. WatchInv' /\ DataInv'
  BY <1>1 DEF WatchInv, DataInv, InLoop, InPass, IsEnding, CloseComesAfterData
<1>10. DescriptorsAreNotLost'
  BY <1>1, <1>2, <1>4, ConstantFacts DEF DescriptorsAreNotLost
<1>11. QED
  BY <1>5, <1>6, <1>7, <1>8, <1>9, <1>10

LEMMA MoveKeeps ==
    LoopInv /\ (DoWork_Start \/ DoWork_Return \/ Select \/ SelectHandler_End) => RestInv'
<1> SUFFICES ASSUME LoopInv,
                    DoWork_Start \/ DoWork_Return \/ Select \/ SelectHandler_End
             PROVE  RestInv'
  OBVIOUS
<1> USE DEF LoopInv, RestInv, netVars, serverVars, loopVars
<1>1. /\ pc \in {"idle", "select", "handle"} /\ pc' \in {"idle", "select", "handle"}
      /\ UNCHANGED <<table, queue, peer, sent, data, valid, fd, cb, client, index, event,
                     told>>
  BY DEF DoWork_Start, DoWork_Return, Select, SelectHandler_End
<1>2. pc' = "idle" => ~valid
  BY DEF DoWork_Start, DoWork_Return, Select, SelectHandler_End
<1>3. ServerInv' /\ QueueInv' /\ ClientInv'
  BY <1>1, <1>2 DEF ServerInv, QueueInv, ClientInv, IsNew, IsOpen, Serves
<1>4. ToldInv' /\ DescriptorsAreNotLost'
  BY <1>1 DEF ToldInv, EventsInOrder, DescriptorsAreNotLost, IsOpen, IsEnding
<1>5. DataInv'
  BY <1>1 DEF DataInv, CloseComesAfterData
<1>6. WatchInv'
  <2>1. CASE DoWork_Start
    <3>1. valid /\ pc = "idle" /\ pc' = "select" /\ reads' = {fd} /\ max' = fd
      BY <2>1 DEF DoWork_Start
    <3>2. fd \in Nat /\ \A d \in Descriptors : client[d] = NULL
      BY <3>1, ConstantFacts DEF ServerInv
    <3>3. QED
      BY <1>1, <3>1, <3>2 DEF WatchInv, InLoop, InPass, IsEnding
  <2>2. CASE DoWork_Return
    BY <1>1, <1>2, <2>2 DEF WatchInv, DoWork_Return, InLoop, InPass, IsEnding
  <2>3. CASE Select
    <3>1. /\ pc = "select" /\ pc' = "handle" /\ UNCHANGED <<reads, max>>
          /\ rset' = {d \in Watched : Readable(d)}
      BY <2>3 DEF Select
    <3>2. valid /\ fd \in rset' => queue # <<>>
      BY <1>1, <3>1, ConstantFacts DEF Readable, ServerInv
    <3>3. QED
      BY <1>1, <3>1, <3>2 DEF WatchInv, InLoop, InPass, IsEnding
  <2>4. CASE SelectHandler_End
    BY <1>1, <2>4 DEF WatchInv, SelectHandler_End, InLoop, InPass, IsEnding
  <2>5. QED
    BY <2>1, <2>2, <2>3, <2>4
<1>7. QED
  BY <1>3, <1>4, <1>5, <1>6

LEMMA ConnectKeeps ==
    ASSUME LoopInv, NEW c \in Conns, Peer_Connect(c)
    PROVE  RestInv'
<1> USE DEF LoopInv, RestInv, serverVars, loopVars
<1>1. /\ peer[c] = "absent" /\ \E d \in Descriptors : table[d] = "listen"
      /\ peer' = [peer EXCEPT ![c] = "open"] /\ queue' = Append(queue, c)
      /\ UNCHANGED <<table, sent, data, valid, fd, cb, client, reads, max, rset, index,
                     event, pc, told>>
  BY DEF Peer_Connect
<1>2. /\ Len(queue') = Len(queue) + 1 /\ queue'[Len(queue) + 1] = c
      /\ \A k \in 1..Len(queue) : queue'[k] = queue[k]
      /\ Len(queue) \in Nat /\ queue' # <<>>
  BY <1>1 DEF TypeOK
<1>3. \A k \in 1..Len(queue) : queue[k] # c
  BY <1>1 DEF QueueInv
<1>4. ServerInv'
  BY <1>1 DEF ServerInv
<1>5. QueueInv'
  <2>1. \A b : IsNew(b) <=> IsNew(b)'
    BY <1>1 DEF IsNew, Serves
  <2>2. \A k, l \in 1..Len(queue') : queue'[k] = queue'[l] => k = l
    BY <1>2, <1>3 DEF QueueInv
  <2>3. IsNew(c) /\ peer'[c] = "open"
    BY <1>1 DEF QueueInv, TypeOK
  <2>4. \A k \in 1..Len(queue)' : IsNew(queue[k])' /\ peer'[queue'[k]] # "absent"
    <3>1. ASSUME NEW k \in 1..Len(queue)'
          PROVE  IsNew(queue'[k]) /\ peer'[queue'[k]] # "absent"
      <4>1. CASE k = Len(queue) + 1
        BY <1>2, <2>3, <4>1
      <4>2. CASE k # Len(queue) + 1
        <5>1. k \in 1..Len(queue) /\ queue'[k] = queue[k]
          BY <1>2, <4>2
        <5>2. IsNew(queue[k]) /\ peer[queue[k]] # "absent" /\ queue[k] \in Conns
          BY <5>1 DEF QueueInv, TypeOK
        <5>3. QED
          BY <1>1, <5>1, <5>2 DEF TypeOK
      <4>3. QED
        BY <4>1, <4>2
    <3>2. QED
      BY <2>1, <3>1
  <2>5. \A b \in Conns : peer'[b] = "absent" => IsNew(b)'
    BY <1>1, <2>1 DEF QueueInv, TypeOK
  <2>6. QED
    BY <2>2, <2>4, <2>5 DEF QueueInv, IsNew, Serves
<1>6. ClientInv' /\ ToldInv' /\ DescriptorsAreNotLost'
  BY <1>1 DEF ClientInv, ToldInv, EventsInOrder, DescriptorsAreNotLost, IsOpen, IsEnding,
       Serves
<1>7. WatchInv'
  BY <1>1, <1>2 DEF WatchInv, InLoop, InPass, IsEnding
<1>8. DataInv'
  BY <1>1, ClientFacts DEF DataInv, CloseComesAfterData, IsOpen, TypeOK
<1>9. QED
  BY <1>4, <1>5, <1>6, <1>7, <1>8

LEMMA PeerKeeps ==
    ASSUME LoopInv, NEW c \in Conns, Peer_Send(c) \/ Peer_Leave(c)
    PROVE  RestInv'
<1> USE DEF LoopInv, RestInv, serverVars, loopVars
<1>1. UNCHANGED <<table, queue, valid, fd, cb, client, reads, max, rset, index, event, pc,
                  told>>
  BY DEF Peer_Send, Peer_Leave
<1>2. \A b \in Conns : peer'[b] = "absent" <=> peer[b] = "absent"
  BY DEF Peer_Send, Peer_Leave, TypeOK
<1>3. \A b \in Conns : peer[b] = "gone" /\ data[b] = 0 => peer'[b] = "gone" /\ data'[b] = 0
  BY DEF Peer_Send, Peer_Leave, TypeOK
<1>4. ServerInv' /\ ClientInv' /\ ToldInv' /\ WatchInv' /\ DescriptorsAreNotLost'
  BY <1>1 DEF ServerInv, ClientInv, ToldInv, EventsInOrder, WatchInv, InLoop, InPass,
       DescriptorsAreNotLost, IsOpen, IsEnding, Serves
<1>5. QueueInv'
  BY <1>1, <1>2 DEF QueueInv, IsNew, Serves, TypeOK
<1>6. DataInv'
  <2>1. \A b \in Conns : data'[b] <= sent'[b]
    <3>1. CASE Peer_Send(c)
      BY <3>1, ConstantFacts DEF Peer_Send, DataInv, TypeOK
    <3>2. CASE Peer_Leave(c)
      <4>1. \A b \in Conns : data'[b] = data[b] \/ data'[b] = 0
        BY <3>2 DEF Peer_Leave, TypeOK
      <4>2. \A b \in Conns : data[b] <= sent[b] /\ 0 <= sent[b] /\ sent'[b] = sent[b]
        BY <3>2, ConstantFacts DEF Peer_Leave, DataInv, TypeOK
      <4>3. QED
        BY <4>1, <4>2
    <3>3. QED
      BY <3>1, <3>2
  <2>2. CloseComesAfterData'
    BY <1>1, <1>3, ClientFacts DEF DataInv, CloseComesAfterData, ServerInv, IsOpen
  <2>3. QED
    BY <2>1, <2>2 DEF DataInv
<1>7. QED
  BY <1>4, <1>5, <1>6

LEMMA OtherKeeps ==
    ASSUME LoopInv, NEW d \in Descriptors, Other_Close(d)
    PROVE  RestInv'
<1> USE DEF LoopInv, RestInv, netVars, serverVars, loopVars
<1>1. /\ table[d] = "other" /\ table' = [table EXCEPT ![d] = "free"]
      /\ UNCHANGED <<queue, peer, sent, data, valid, fd, cb, client, reads, max, rset,
                     index, event, pc, told>>
  BY DEF Other_Close
<1>2. \A e \in Descriptors :
          table'[e] = table[e] \/ (e = d /\ table'[e] = "free" /\ table[e] = "other")
  BY <1>1 DEF TypeOK
<1>3. ServerInv'
  BY <1>1, <1>2 DEF ServerInv
<1>4. QueueInv'
  <2>1. \A b \in Conns : IsNew(b) => IsNew(b)'
    BY <1>1, <1>2, ConstantFacts DEF IsNew, Serves
  <2>2. \A k \in 1..Len(queue) : queue[k] \in Conns
    BY DEF TypeOK
  <2>3. QED
    BY <1>1, <2>1, <2>2 DEF QueueInv
<1>5. ClientInv'
  BY <1>1, <1>2, ClientFacts, ConstantFacts DEF ClientInv, Serves, IsOpen
<1>6. ToldInv' /\ DataInv'
  BY <1>1 DEF ToldInv, EventsInOrder, IsEnding, DataInv, CloseComesAfterData, IsOpen
<1>7. WatchInv'
  BY <1>1, <1>2, ConstantFacts DEF WatchInv, InLoop, InPass, IsEnding, TypeOK
<1>8. DescriptorsAreNotLost'
  BY <1>1, <1>2, ConstantFacts DEF DescriptorsAreNotLost, IsOpen
<1>9. QED
  BY <1>3, <1>4, <1>5, <1>6, <1>7, <1>8

LEMMA AcceptFailsKeeps ==
    ASSUME LoopInv, pc = "handle", AcceptFails, rset' = rset \ {fd},
           UNCHANGED <<peer, sent, data, valid, fd, cb>>
    PROVE  RestInv'
<1> USE DEF LoopInv, RestInv
<1>1. /\ pc' \in {"crashed", "handle"}
      /\ UNCHANGED <<table, queue, client, reads, max, index, event, told>>
  BY DEF AcceptFails
<1>2. ServerInv' /\ QueueInv' /\ ClientInv'
  BY <1>1 DEF ServerInv, QueueInv, ClientInv, IsNew, IsOpen, Serves
<1>3. ToldInv' /\ DescriptorsAreNotLost' /\ DataInv'
  BY <1>1 DEF ToldInv, EventsInOrder, DescriptorsAreNotLost, DataInv, CloseComesAfterData,
       IsOpen, IsEnding
<1>4. WatchInv'
  BY <1>1 DEF WatchInv, InLoop, InPass, IsEnding
<1>5. QED
  BY <1>2, <1>3, <1>4

LEMMA AcceptsKeeps ==
    ASSUME LoopInv, pc = "handle", rset' = rset \ {fd},
           UNCHANGED <<peer, sent, data, valid, fd, cb>>,
           NEW new \in Descriptors, NEW c \in Conns, Accepts(new, c)
    PROVE  RestInv'
<1> USE DEF LoopInv, RestInv
<1>1. /\ table[new] = "free" /\ queue # <<>> /\ c = queue[1] /\ queue' = Tail(queue)
      /\ reads' = reads \cup {new} /\ max' = Grown(new)
      /\ index' = new /\ event' = "EVT_CONN"
      /\ pc' = IF cb THEN "callback" ELSE "handle"
  BY DEF Accepts
<1>2. /\ table'[new] = c
      /\ \A d \in Descriptors : d # new => table'[d] = table[d] /\ client'[d] = client[d]
  BY DEF Accepts, TypeOK
<1>3. /\ client'[new] # NULL => /\ client'[new].of = c /\ client'[new].open
                                /\ cb => told'[c] = "EVT_CONN"
                                /\ ~cb => told' = told
      /\ client'[new] = NULL => MallocMayFail /\ told' = told
  BY ConstantFacts DEF Accepts, TypeOK
<1>4. \A b \in Conns : /\ b # c => told'[b] = told[b]
                       /\ told'[b] = told[b] \/ told'[b] = "EVT_CONN"
  BY DEF Accepts, TypeOK
<1>5. /\ Len(queue) \in Nat /\ Len(queue') = Len(queue) - 1 /\ 1 \in 1..Len(queue)
      /\ \A k \in 1..Len(queue') : /\ k + 1 \in 1..Len(queue)
                                   /\ queue'[k] = queue[k + 1]
  BY <1>1 DEF TypeOK
<1>6. IsNew(c) /\ peer[c] # "absent"
  BY <1>1, <1>5 DEF QueueInv
<1>7. valid /\ new # fd
  BY <1>1 DEF ServerInv
<1>8. \A d \in Descriptors :
          /\ d # new => (IsOpen(d)' <=> IsOpen(d))
          /\ d = new => (IsOpen(d)' <=> client'[d] # NULL)
  BY <1>2, <1>3 DEF IsOpen
<1>9. \A d \in Descriptors, b \in Conns :
          Serves(d, b)' <=> (d # new /\ Serves(d, b)) \/ (d = new /\ b = c /\ client'[d] # NULL)
  BY <1>2, <1>3 DEF Serves
<1>10. ServerInv'
  BY <1>1, <1>2, <1>7, ConstantFacts DEF ServerInv
<1>11. QueueInv'
  <2>1. \A b \in Conns : b # c /\ IsNew(b) => IsNew(b)'
    BY <1>2, <1>4, <1>9 DEF IsNew
  <2>2. \A k \in 1..Len(queue') : queue'[k] # c /\ queue'[k] \in Conns
    BY <1>1, <1>5 DEF QueueInv, TypeOK
  <2>3. \A k, l \in 1..Len(queue') : queue'[k] = queue'[l] => k = l
    BY <1>5 DEF QueueInv
  <2>4. \A k \in 1..Len(queue') : IsNew(queue'[k]) /\ peer'[queue'[k]] # "absent"
    BY <1>5 DEF QueueInv
  <2>5. \A b \in Conns : peer'[b] = "absent" => IsNew(b)'
    BY <1>6, <2>1 DEF QueueInv
  <2>6. QED
    BY <2>1, <2>2, <2>3, <2>4, <2>5 DEF QueueInv
<1>12. ClientInv'
  <2>1. \A d \in Descriptors : IsOpen(d)' => table'[d] = client'[d].of
    BY <1>2, <1>3, <1>8 DEF ClientInv
  <2>2. ASSUME NEW d \in Descriptors, NEW e \in Descriptors, Serves(e, table[d])'
        PROVE  d = e /\ IsOpen(e)'
    <3>1. CASE e = new
      <4>1. table'[d] = c /\ client'[new] # NULL
        BY <1>3, <2>2, <3>1 DEF Serves
      <4>2. d = new
        BY <1>2, <1>6, <4>1 DEF IsNew
      <4>3. QED
        BY <1>8, <3>1, <4>1, <4>2
    <3>2. CASE e # new
      <4>1. Serves(e, table'[d])
        BY <1>2, <2>2, <3>2 DEF Serves
      <4>2. d # new
        BY <1>2, <1>6, <4>1 DEF IsNew
      <4>3. QED
        BY <1>2, <1>8, <3>2, <4>1, <4>2 DEF ClientInv
    <3>3. QED
      BY <3>1, <3>2
  <2>3. ASSUME NEW d \in Descriptors, NEW e \in Descriptors,
               client'[d] # NULL, Serves(e, client[d].of)'
        PROVE  d = e
    BY <1>2, <1>3, <1>6, <2>3 DEF ClientInv, IsNew, Serves
  <2>4. QED
    BY <2>1, <2>2, <2>3 DEF ClientInv
<1>13. ToldInv'
  <2>1. EventsInOrder'
    BY <1>4 DEF ToldInv, EventsInOrder
  <2>2. ~cb => told' = told
    BY <1>3
  <2>3. \A d \in Descriptors : ~IsEnding(d) /\ ~IsEnding(d)'
    BY <1>1 DEF IsEnding
  <2>4. ASSUME cb, NEW d \in Descriptors, client'[d] # NULL
        PROVE  told'[client'[d].of] = "EVT_CONN"
    <3>1. CASE d = new
      BY <1>3, <2>4, <3>1
    <3>2. CASE d # new
      <4>1. client'[d] = client[d] /\ client[d] # NULL /\ client[d].of \in Conns
        BY <1>2, <2>4, <3>2, ClientFacts
      <4>2. client[d].of # c
        BY <1>6, <4>1 DEF IsNew, Serves
      <4>3. QED
        BY <1>4, <2>3, <2>4, <4>1, <4>2 DEF ToldInv
    <3>3. QED
      BY <3>1, <3>2
  <2>5. QED
    BY <2>1, <2>2, <2>3, <2>4 DEF ToldInv
<1>14. WatchInv'
  <2>1. max' \in Nat /\ max <= max' /\ new <= max' /\ fd \in Nat
    BY <1>1, <1>7, ConstantFacts DEF Grown, TypeOK, ServerInv
  <2>2. fd \in reads /\ fd <= max
    BY <1>7 DEF WatchInv, InLoop
  <2>3. \A d \in Descriptors : client'[d] # NULL => d \in reads' /\ d <= max'
    BY <1>1, <1>2, <1>7, <2>1, ConstantFacts DEF WatchInv, InLoop, TypeOK
  <2>4. \A d \in reads' : d = fd \/ client'[d] # NULL \/ table'[d] \in Conns
    BY <1>1, <1>2, <1>7 DEF WatchInv, InLoop, TypeOK
  <2>5. fd <= max'
    BY <2>1, <2>2 DEF TypeOK
  <2>6. QED
    BY <1>1, <2>2, <2>3, <2>4, <2>5 DEF WatchInv, IsEnding
<1>15. DataInv'
  BY <1>1 DEF DataInv, CloseComesAfterData
<1>16. DescriptorsAreNotLost'
  <2>1. ASSUME NEW d \in Descriptors, table'[d] \in Conns, ~IsOpen(d)'
        PROVE  MallocMayFail /\ told'[table'[d]] = "none"
    <3>1. CASE d = new
      BY <1>2, <1>3, <1>6, <1>8, <2>1, <3>1 DEF IsNew
    <3>2. CASE d # new
      BY <1>2, <1>4, <1>6, <1>8, <2>1, <3>2 DEF DescriptorsAreNotLost, IsNew
    <3>3. QED
      BY <3>1, <3>2
  <2>2. QED
    BY <2>1 DEF DescriptorsAreNotLost
<1>17. QED
  BY <1>10, <1>11, <1>12, <1>13, <1>14, <1>15, <1>16

(* SelectHandler has nobody to tell, tells of data, or tells of the end. *)
TellsNobody == ~cb /\ UNCHANGED <<index, event, pc, told>>

TellsOfData(d) ==
    cb /\ IsOpen(d) /\ index' = d /\ event' = "EVT_DATA" /\ pc' = "callback" /\ told' = told

TellsOfEnd(d) ==
    /\ cb /\ ~IsValid(d) /\ ~Available(d)
    /\ index' = d /\ event' = "EVT_CLOSE" /\ pc' \in {"callback", "return"}
    /\ client[d] # NULL => told' = [told EXCEPT ![client[d].of] = "EVT_CLOSE"]
    /\ client[d] = NULL => told' = told

LEMMA ClientStep ==
    ASSUME LoopInv, NEW d \in rset, SelectHandler_Client(d)
    PROVE  /\ d \in Descriptors /\ d # fd /\ pc = "handle" /\ rset' = rset \ {d}
           /\ UNCHANGED <<table, queue, peer, sent, data, valid, fd, cb, client, reads, max>>
           /\ TellsNobody \/ TellsOfData(d) \/ TellsOfEnd(d)
<1> USE DEF LoopInv, RestInv
<1>1. /\ d \in Descriptors /\ d # fd /\ pc = "handle" /\ rset' = rset \ {d}
      /\ UNCHANGED <<table, queue, peer, sent, data, valid, fd, cb, client, reads, max>>
  BY DEF SelectHandler_Client, TypeOK, netVars, serverVars
<1>2. cb /\ client[d] # NULL => told[client[d].of] = "EVT_CONN"
  BY <1>1 DEF ToldInv, IsEnding
<1>3. CASE ~cb
  BY <1>1, <1>3 DEF SelectHandler_Client, TellsNobody
<1>4. CASE cb /\ (IsValid(d) \/ Available(d))
  <2>1. IsOpen(d) /\ client[d] # NULL
    BY <1>4 DEF IsValid, Available, IsOpen
  <2>2. /\ index' = d /\ event' = "EVT_DATA" /\ pc' = "callback"
        /\ Tell(client[d].of, "EVT_DATA")
    BY <1>4 DEF SelectHandler_Client, Call
  <2>3. told' = [told EXCEPT ![client[d].of] = told[client[d].of]]
    BY <1>2, <1>4, <2>1, <2>2 DEF Tell
  <2>4. told' = told
    BY <1>1, <2>1, <2>3, ClientFacts DEF TypeOK
  <2>5. QED
    BY <1>1, <1>4, <2>1, <2>2, <2>4 DEF TellsOfData
<1>5. CASE cb /\ ~IsValid(d) /\ ~Available(d)
  <2>1. /\ index' = d /\ event' = "EVT_CLOSE"
        /\ IF client[d] # NULL
           THEN pc' = "callback" /\ Tell(client[d].of, "EVT_CLOSE")
           ELSE pc' = "return" /\ UNCHANGED told
    BY <1>5 DEF SelectHandler_Client
  <2>2. client[d] # NULL => told' = [told EXCEPT ![client[d].of] = "EVT_CLOSE"]
    BY <1>2, <1>5, <2>1 DEF Tell
  <2>3. QED
    BY <1>1, <1>5, <2>1, <2>2 DEF TellsOfEnd
<1>6. QED
  BY <1>3, <1>4, <1>5

LEMMA ClientKeeps ==
    ASSUME LoopInv, NEW d \in rset, SelectHandler_Client(d)
    PROVE  RestInv'
<1> USE DEF LoopInv, RestInv
<1>1. /\ d \in Descriptors /\ d # fd /\ pc = "handle" /\ rset' = rset \ {d}
      /\ UNCHANGED <<table, queue, peer, sent, data, valid, fd, cb, client, reads, max>>
  BY ClientStep
<1>2. ClientInv'
  BY <1>1 DEF ClientInv, IsOpen, Serves
<1>3. CASE TellsNobody
  <2>1. UNCHANGED <<index, event, pc, told>>
    BY <1>3 DEF TellsNobody
  <2>2. ServerInv' /\ QueueInv'
    BY <1>1, <2>1 DEF ServerInv, QueueInv, IsNew, Serves
  <2>3. ToldInv' /\ DataInv' /\ DescriptorsAreNotLost'
    BY <1>1, <2>1 DEF ToldInv, EventsInOrder, IsEnding, DataInv, CloseComesAfterData,
         DescriptorsAreNotLost, IsOpen
  <2>4. WatchInv'
    BY <1>1, <2>1 DEF WatchInv, InLoop, InPass, IsEnding
  <2>5. QED
    BY <1>2, <2>2, <2>3, <2>4
<1>4. CASE TellsOfData(d)
  <2>1. cb /\ index' = d /\ event' = "EVT_DATA" /\ pc' = "callback" /\ told' = told
    BY <1>4 DEF TellsOfData
  <2>2. ServerInv' /\ QueueInv'
    BY <1>1, <2>1 DEF ServerInv, QueueInv, IsNew, Serves
  <2>3. ToldInv' /\ DataInv' /\ DescriptorsAreNotLost'
    BY <1>1, <2>1 DEF ToldInv, EventsInOrder, IsEnding, DataInv, CloseComesAfterData,
         DescriptorsAreNotLost, IsOpen
  <2>4. WatchInv'
    BY <1>1, <2>1 DEF WatchInv, InLoop, InPass, IsEnding
  <2>5. QED
    BY <1>2, <2>2, <2>3, <2>4
<1>5. CASE TellsOfEnd(d)
  <2>1. /\ cb /\ ~IsValid(d) /\ ~Available(d)
        /\ index' = d /\ event' = "EVT_CLOSE" /\ pc' \in {"callback", "return"}
    BY <1>5 DEF TellsOfEnd
  <2>2. ASSUME client[d] # NULL
        PROVE  /\ client[d].of \in Conns
               /\ told[client[d].of] = "EVT_CONN" /\ told'[client[d].of] = "EVT_CLOSE"
               /\ \A b \in Conns : b # client[d].of => told'[b] = told[b]
    <3>1. client[d].of \in Conns
      BY <1>1, <2>2, ClientFacts
    <3>2. told[client[d].of] = "EVT_CONN"
      BY <1>1, <2>1, <2>2 DEF ToldInv, IsEnding
    <3>3. told' = [told EXCEPT ![client[d].of] = "EVT_CLOSE"]
      BY <1>5, <2>2 DEF TellsOfEnd
    <3>4. QED
      BY <3>1, <3>2, <3>3 DEF TypeOK
  <2>3. \A b \in Conns : told'[b] # told[b] =>
            client[d] # NULL /\ b = client[d].of /\ told[b] = "EVT_CONN"
    BY <1>5, <2>2 DEF TellsOfEnd
  <2>4. ServerInv'
    BY <1>1, <2>1 DEF ServerInv
  <2>5. QueueInv'
    <3>1. \A b \in Conns : IsNew(b) => IsNew(b)'
      BY <1>1, <2>3 DEF IsNew, Serves
    <3>2. QED
      BY <1>1, <3>1 DEF QueueInv, TypeOK
  <2>6. ToldInv'
    <3>1. EventsInOrder'
      BY <2>2, <2>3 DEF ToldInv, EventsInOrder
    <3>2. \A e \in Descriptors : IsEnding(e)' <=> e = d
      BY <2>1 DEF IsEnding
    <3>3. ASSUME NEW e \in Descriptors, client[e] # NULL
          PROVE  told'[client[e].of] = IF e = d THEN "EVT_CLOSE" ELSE "EVT_CONN"
      <4>1. CASE e = d
        BY <2>2, <3>3, <4>1
      <4>2. CASE e # d
        <5>1. client[e].of \in Conns /\ told[client[e].of] = "EVT_CONN"
          BY <1>1, <2>1, <3>3, ClientFacts DEF ToldInv, IsEnding
        <5>2. ~Serves(d, client[e].of)
          BY <1>1, <3>3, <4>2 DEF ClientInv
        <5>3. QED
          BY <2>3, <4>2, <5>1, <5>2 DEF Serves
      <4>3. QED
        BY <4>1, <4>2
    <3>4. QED
      BY <1>1, <2>1, <3>1, <3>2, <3>3 DEF ToldInv
  <2>7. WatchInv'
    BY <1>1, <2>1 DEF WatchInv, InLoop, InPass, IsEnding
  <2>8. DataInv'
    <3>1. ASSUME IsOpen(d) PROVE peer[client[d].of] = "gone" /\ data[client[d].of] = 0
      <4>1. table[d] = client[d].of /\ client[d].of \in Conns /\ client[d] # NULL
        BY <1>1, <3>1, ClientFacts DEF ClientInv
      <4>2. peer[table[d]] # "absent"
        BY <1>1, <4>1 DEF QueueInv, IsNew
      <4>3. peer[table[d]] # "open" /\ ~(data[table[d]] > 0)
        BY <2>1, <3>1, <4>1 DEF IsValid, Available
      <4>4. QED
        BY <4>1, <4>2, <4>3, ConstantFacts DEF TypeOK
    <3>2. QED
      BY <1>1, <2>1, <3>1 DEF DataInv, CloseComesAfterData, IsOpen
  <2>9. DescriptorsAreNotLost'
    BY <1>1, <2>3 DEF DescriptorsAreNotLost, IsOpen
  <2>10. QED
    BY <1>2, <2>4, <2>5, <2>6, <2>7, <2>8, <2>9
<1>6. QED
  BY <1>3, <1>4, <1>5, ClientStep

LEMMA ReturnKeeps == LoopInv /\ SelectHandler_Return => RestInv'
<1> SUFFICES ASSUME LoopInv, SelectHandler_Return PROVE RestInv'
  OBVIOUS
<1> USE DEF LoopInv, RestInv
<1>1. /\ pc = "return" /\ pc' = "handle"
      /\ UNCHANGED <<queue, peer, sent, data, valid, fd, cb, max, rset, index, event, told>>
  BY DEF SelectHandler_Return, netVars
<1>2. CASE event # "EVT_CLOSE"
  <2>1. UNCHANGED <<table, client, reads>>
    BY <1>2 DEF SelectHandler_Return
  <2>2. ServerInv' /\ QueueInv' /\ ClientInv'
    BY <1>1, <2>1 DEF ServerInv, QueueInv, ClientInv, IsNew, IsOpen, Serves
  <2>3. ToldInv' /\ DataInv' /\ DescriptorsAreNotLost'
    BY <1>1, <1>2, <2>1 DEF ToldInv, EventsInOrder, IsEnding, DataInv,
         CloseComesAfterData, DescriptorsAreNotLost, IsOpen
  <2>4. WatchInv'
    BY <1>1, <2>1 DEF WatchInv, InLoop, InPass, IsEnding
  <2>5. QED
    BY <2>2, <2>3, <2>4
<1>3. CASE event = "EVT_CLOSE"
  <2>1. index \in Descriptors /\ index # fd
    BY <1>1, <1>3 DEF ServerInv, WatchInv, IsEnding
  <2>2. /\ client' = [client EXCEPT ![index] = NULL] /\ reads' = reads \ {index}
        /\ table' = [table EXCEPT ![index] = IF IsOpen(index) THEN "free" ELSE @]
    BY <1>3 DEF SelectHandler_Return, End, FreeDescriptor
  <2>3. \A d \in Descriptors :
            /\ d # index => table'[d] = table[d] /\ client'[d] = client[d]
            /\ d = index => client'[d] = NULL
            /\ d = index /\ IsOpen(d) => table'[d] = "free"
            /\ d = index /\ ~IsOpen(d) => table'[d] = table[d]
    BY <2>1, <2>2 DEF TypeOK
  <2>4. \A d \in Descriptors : IsOpen(d)' <=> IsOpen(d) /\ d # index
    BY <2>3 DEF IsOpen
  <2>5. \A d \in Descriptors : \A b : Serves(d, b)' <=> Serves(d, b) /\ d # index
    BY <2>3 DEF Serves
  <2>6. ServerInv'
    BY <1>1, <2>1, <2>3 DEF ServerInv
  <2>7. QueueInv'
    <3>1. \A b \in Conns : IsNew(b) => IsNew(b)'
      BY <1>1, <2>3, <2>5, ConstantFacts DEF IsNew
    <3>2. QED
      BY <1>1, <3>1 DEF QueueInv, TypeOK
  <2>8. ClientInv'
    <3>1. \A d \in Descriptors : IsOpen(d)' => table'[d] = client'[d].of
      BY <2>3, <2>4 DEF ClientInv
    <3>2. ASSUME NEW d \in Descriptors, NEW e \in Descriptors, Serves(e, table[d])'
          PROVE  d = e /\ IsOpen(e)'
      <4>1. e # index /\ Serves(e, table'[d])
        BY <2>3, <3>2 DEF Serves
      <4>2. table'[d] = table[d]
        BY <2>3, <4>1, ClientFacts, ConstantFacts DEF Serves
      <4>3. QED
        BY <2>4, <4>1, <4>2 DEF ClientInv
    <3>3. ASSUME NEW d \in Descriptors, NEW e \in Descriptors,
                 client'[d] # NULL, Serves(e, client[d].of)'
          PROVE  d = e
      BY <2>3, <3>3 DEF ClientInv, Serves
    <3>4. QED
      BY <3>1, <3>2, <3>3 DEF ClientInv
  <2>9. ToldInv'
    BY <1>1, <2>3 DEF ToldInv, EventsInOrder, IsEnding
  <2>10. WatchInv'
    BY <1>1, <2>1, <2>2, <2>3 DEF WatchInv, InLoop, InPass, IsEnding, TypeOK
  <2>11. DataInv'
    BY <1>1 DEF DataInv, CloseComesAfterData
  <2>12. DescriptorsAreNotLost'
    BY <1>1, <2>3, <2>4, ConstantFacts DEF DescriptorsAreNotLost
  <2>13. QED
    BY <2>6, <2>7, <2>8, <2>9, <2>10, <2>11, <2>12
<1>4. QED
  BY <1>2, <1>3

LEMMA CloseClientKeeps ==
    ASSUME LoopInv, pc = "callback", pc' = "return",
           NEW d \in Descriptors, IsOpen(d),
           client' = [client EXCEPT ![d].open = FALSE],
           table' = [table EXCEPT ![d] = "free"],
           UNCHANGED <<netVars, valid, fd, cb, loopVars, told>>
    PROVE  RestInv'
<1> USE DEF LoopInv, RestInv
<1>1. UNCHANGED <<queue, peer, sent, data, valid, fd, cb, reads, max, rset, index, event,
                  told>>
  BY DEF netVars, loopVars
<1>2. \A e \in Descriptors :
          /\ client'[e] # NULL <=> client[e] # NULL
          /\ client[e] # NULL => client'[e].of = client[e].of
          /\ client'[e].open <=> client[e].open /\ e # d
  BY CloseKeeps
<1>3. \A e \in Descriptors : IsOpen(e)' <=> IsOpen(e) /\ e # d
  BY <1>2 DEF IsOpen
<1>4. \A e \in Descriptors : \A b : Serves(e, b)' <=> Serves(e, b)
  BY <1>2 DEF Serves
<1>5. /\ table'[d] = "free" /\ table[d] \in Conns /\ client[d] # NULL
      /\ \A e \in Descriptors : e # d => table'[e] = table[e]
  BY ClientFacts DEF TypeOK, ClientInv
<1>6. ServerInv'
  BY <1>1, <1>2, <1>5, ConstantFacts DEF ServerInv
<1>7. QueueInv'
  <2>1. \A b \in Conns : IsNew(b) => IsNew(b)'
    BY <1>1, <1>4, <1>5, ConstantFacts DEF IsNew
  <2>2. QED
    BY <1>1, <2>1 DEF QueueInv, TypeOK
<1>8. ClientInv'
  <2>1. \A e \in Descriptors : IsOpen(e)' => table'[e] = client'[e].of
    BY <1>2, <1>3, <1>5 DEF ClientInv, IsOpen
  <2>2. ASSUME NEW e \in Descriptors, NEW f \in Descriptors, Serves(f, table[e])'
        PROVE  e = f /\ IsOpen(f)'
    <3>1. Serves(f, table'[e])
      BY <1>2, <2>2 DEF Serves
    <3>2. e # d /\ table'[e] = table[e]
      BY <1>5, <3>1, ClientFacts, ConstantFacts DEF Serves
    <3>3. QED
      BY <1>3, <3>1, <3>2 DEF ClientInv
  <2>3. ASSUME NEW e \in Descriptors, NEW f \in Descriptors,
               client'[e] # NULL, Serves(f, client[e].of)'
        PROVE  e = f
    BY <1>2, <2>3 DEF ClientInv, Serves
  <2>4. QED
    BY <2>1, <2>2, <2>3 DEF ClientInv
<1>9. ToldInv'
  BY <1>1, <1>2 DEF ToldInv, EventsInOrder, IsEnding
<1>10. WatchInv'
  BY <1>1, <1>2, <1>5 DEF WatchInv, InLoop, InPass, IsEnding, TypeOK
<1>11. DataInv'
  BY <1>1 DEF DataInv, CloseComesAfterData
<1>12. DescriptorsAreNotLost'
  BY <1>1, <1>3, <1>5, ConstantFacts DEF DescriptorsAreNotLost
<1>13. QED
  BY <1>6, <1>7, <1>8, <1>9, <1>10, <1>11, <1>12

LEMMA ReadKeeps ==
    ASSUME LoopInv, pc = "callback", pc' = "return",
           data' = data \/ (IsOpen(index) /\ data' = [data EXCEPT ![client[index].of] = 0]),
           UNCHANGED <<table, queue, peer, sent, serverVars, loopVars, told>>
    PROVE  RestInv'
<1> USE DEF LoopInv, RestInv
<1>1. UNCHANGED <<valid, fd, cb, client, reads, max, rset, index, event>>
  BY DEF serverVars, loopVars
<1>2. ServerInv' /\ QueueInv' /\ ClientInv'
  BY <1>1 DEF ServerInv, QueueInv, ClientInv, IsNew, IsOpen, Serves
<1>3. ToldInv' /\ DescriptorsAreNotLost'
  BY <1>1 DEF ToldInv, EventsInOrder, IsEnding, DescriptorsAreNotLost, IsOpen
<1>4. WatchInv'
  BY <1>1 DEF WatchInv, InLoop, InPass, IsEnding
<1>5. DataInv'
  <2>1. \A b \in Conns : data'[b] = data[b] \/ data'[b] = 0
    BY DEF TypeOK
  <2>2. \A b \in Conns : data[b] <= sent[b] /\ 0 <= sent[b]
    BY ConstantFacts DEF DataInv, TypeOK
  <2>3. QED
    BY <2>1, <2>2 DEF DataInv, CloseComesAfterData
<1>6. QED
  BY <1>2, <1>3, <1>4, <1>5

LEMMA ListenerKeeps == LoopInv /\ Listener => RestInv'
<1> SUFFICES ASSUME LoopInv, Listener PROVE RestInv'
  OBVIOUS
<1>1. pc = "callback" /\ pc' = "return"
  BY DEF Listener
<1>2. CASE UNCHANGED <<table, netVars, serverVars, loopVars, told>>
  BY <1>1, <1>2, ReadKeeps DEF netVars
<1>3. CASE /\ data' = IF IsOpen(index) THEN [data EXCEPT ![client[index].of] = 0] ELSE data
           /\ UNCHANGED <<table, queue, peer, sent, serverVars, loopVars, told>>
  BY <1>1, <1>3, ReadKeeps
<1>4. CASE Stop
  BY <1>1, <1>4, StopKeeps
<1>5. CASE /\ \E d \in Descriptors :
                 /\ IsOpen(d)
                 /\ client' = [client EXCEPT ![d].open = FALSE]
                 /\ table' = [table EXCEPT ![d] = "free"]
           /\ UNCHANGED <<netVars, valid, fd, cb, loopVars, told>>
  BY <1>1, <1>5, CloseClientKeeps
<1>6. QED
  BY <1>2, <1>3, <1>4, <1>5 DEF Listener
-----------------------------------------------------------------------------
LEMMA StutterKeeps == LoopInv /\ UNCHANGED vars => RestInv'
<1> SUFFICES ASSUME LoopInv, UNCHANGED vars PROVE RestInv'
  OBVIOUS
<1> USE DEF LoopInv, RestInv, vars, netVars, serverVars, loopVars
<1>1. ServerInv' /\ QueueInv' /\ ClientInv'
  BY DEF ServerInv, QueueInv, ClientInv, IsNew, IsOpen, Serves
<1>2. ToldInv' /\ DataInv' /\ DescriptorsAreNotLost'
  BY DEF ToldInv, EventsInOrder, IsEnding, DataInv, CloseComesAfterData,
       DescriptorsAreNotLost, IsOpen
<1>3. WatchInv'
  BY DEF WatchInv, InLoop, InPass, IsEnding
<1>4. QED
  BY <1>1, <1>2, <1>3

LEMMA LoopInductive == LoopInv /\ [Next]_vars => LoopInv'
<1> SUFFICES ASSUME LoopInv, [Next]_vars PROVE LoopInv'
  OBVIOUS
<1>1. TypeOK'
  BY TypeAround, TypeInLoop DEF Next, LoopInv, RestInv
<1>2. RestInv'
  <2>1. CASE User
    BY <2>1, SetListenerKeeps, StartKeeps, StopKeeps
       DEF User, TcpServer_Stop, TcpServer_Del
  <2>2. CASE DoWork
    <3>1. ASSUME NEW d \in rset, SelectHandler_Accept(d) PROVE RestInv'
      BY <3>1, AcceptStep, AcceptFailsKeeps, AcceptsKeeps DEF LoopInv, RestInv
    <3>2. QED
      BY <2>2, <3>1, MoveKeeps, ClientKeeps, ReturnKeeps, ListenerKeeps DEF DoWork
  <2>3. CASE Environment
    BY <2>3, ConnectKeeps, PeerKeeps, OtherKeeps DEF Environment
  <2>4. CASE UNCHANGED vars
    BY <2>4, StutterKeeps
  <2>5. QED
    BY <2>1, <2>2, <2>3, <2>4 DEF Next
<1>3. QED
  BY <1>1, <1>2 DEF LoopInv

LEMMA LoopInvariant == Spec => []LoopInv
<1>1. Init => LoopInv
  BY TypeInitially, RestInitially DEF LoopInv
<1>2. QED
  BY <1>1, LoopInductive, PTL DEF Spec

(* Whatever the listener closes or stops in its callbacks, every variable of the
   server, of the loop and of the peers stays in its range. *)
THEOREM TypeCorrect == Spec => []TypeOK
BY LoopInvariant, PTL DEF LoopInv

(* The listener hears of every connection in order (SelectHandler), for any
   number of connections and any reuse of descriptors. *)
THEOREM Events == Spec => []EventsInOrder
<1>1. LoopInv => EventsInOrder
  BY DEF LoopInv, RestInv, ToldInv
<1>2. QED
  BY <1>1, LoopInvariant, PTL

(* Clients and descriptors are one to one, but for those there was no memory
   for, whatever the listener closes and whenever the server is stopped. *)
THEOREM OneToOne == Spec => []ClientsMatchDescriptors
<1>1. ASSUME LoopInv PROVE ClientsMatchDescriptors
  <2>1. \A d \in Descriptors : IsOpen(d) => table[d] = client[d].of
    BY <1>1 DEF LoopInv, RestInv, ClientInv
  <2>2. \A d, e \in Descriptors :
            IsOpen(d) /\ IsOpen(e) /\ client[d].of = client[e].of => d = e
    BY <1>1 DEF LoopInv, RestInv, ClientInv, IsOpen, Serves
  <2>3. QED
    BY <1>1, <2>1, <2>2 DEF LoopInv, RestInv, ClientsMatchDescriptors,
         ClientsOwnDescriptors
<1>2. QED
  BY <1>1, LoopInvariant, PTL

(* select() in TcpServer_DoWork waits for every client there is. *)
THEOREM Watching == Spec => []NobodyIsForgotten
<1>1. LoopInv => NobodyIsForgotten
  BY DEF LoopInv, RestInv, WatchInv, InLoop, NobodyIsForgotten, Watched
<1>2. QED
  BY <1>1, LoopInvariant, PTL

(* EVT_CLOSE comes when all data was offered, if the client is still open. *)
THEOREM CloseIsLast == Spec => []CloseComesAfterData
<1>1. LoopInv => CloseComesAfterData
  BY DEF LoopInv, RestInv, DataInv
<1>2. QED
  BY <1>1, LoopInvariant, PTL

(* Only a client that the listener has closed outside EVT_CLOSE makes the loop
   of TcpServer_DoWork spin in vain. *)
THEOREM Stalling == Spec => []StallsOnlyByClosing
<1>1. ASSUME LoopInv, pc = "select", valid, NEW d \in Watched, table[d] = "free"
      PROVE  client[d] # NULL /\ ~client[d].open
  <2>1. d \in reads /\ d \in Descriptors
    BY <1>1 DEF Watched, LoopInv, TypeOK
  <2>2. d = fd \/ client[d] # NULL \/ table[d] \in Conns
    BY <1>1, <2>1 DEF LoopInv, RestInv, WatchInv, InLoop
  <2>3. d # fd /\ table[d] \notin Conns
    BY <1>1, ConstantFacts DEF LoopInv, RestInv, ServerInv
  <2>4. ~IsOpen(d)
    BY <1>1, <2>1, <2>3, ClientFacts DEF LoopInv, RestInv, ClientInv
  <2>5. QED
    BY <2>2, <2>3, <2>4 DEF IsOpen
<1>2. LoopInv => StallsOnlyByClosing
  BY <1>1 DEF StallsOnlyByClosing, Stalled
<1>3. QED
  BY <1>2, LoopInvariant, PTL
-----------------------------------------------------------------------------
(* Every step of the loop, of its users and of the peers is one of
   ConnectionLife, or none. *)

LEMMA InitIsLife == Init => Life!Init
<1> SUFFICES ASSUME Init PROVE Life!Init
  OBVIOUS
<1>1. Served = {} /\ ClosedByListener = {}
  BY DEF Init, Served, ClosedByListener, IsOpen
<1>2. \A c \in Conns : peer[c] = "absent"
  BY DEF Init
<1>3. {c \in Conns : peer[c] # "absent"} = {} /\ {c \in Conns : peer[c] = "gone"} = {}
  BY <1>2
<1>4. QED
  BY <1>1, <1>3 DEF Init, Life!Init

(* What ConnectionLife does not see. *)
LEMMA Unseen ==
    ASSUME UNCHANGED <<valid, cb, queue, peer, client, told>>
    PROVE  [Life!Next]_(Life!vars)
<1>1. Served' = Served /\ ClosedByListener' = ClosedByListener
  BY DEF Served, ClosedByListener, IsOpen
<1>2. QED
  BY <1>1 DEF Life!vars

LEMMA NoClients ==
    ASSUME \A d \in Descriptors : client[d] = NULL
    PROVE  Served = {} /\ ClosedByListener = {}
BY DEF Served, ClosedByListener, IsOpen

(* A client goes, and nothing else changes. *)
LEMMA ClientGoes ==
    ASSUME TypeOK, ClientInv, NEW d \in Descriptors, client[d] # NULL,
           client' = [client EXCEPT ![d] = NULL]
    PROVE  /\ client[d].of \in Conns
           /\ client[d].of \in Served <=> client[d].open
           /\ client[d].of \in ClosedByListener <=> ~client[d].open
           /\ Served' = Served \ {client[d].of}
           /\ ClosedByListener' = ClosedByListener \ {client[d].of}
<1>1. client[d].of \in Conns /\ client[d].open \in BOOLEAN
  BY ClientFacts
<1>2. /\ client'[d] = NULL
      /\ \A e \in Descriptors : e # d => client'[e] = client[e]
  BY DEF TypeOK
<1>3. \A e \in Descriptors : client[e] # NULL /\ client[e].of = client[d].of => e = d
  BY DEF ClientInv, Serves
<1>4. \A b \in Conns : b \in Served <=> \E e \in Descriptors : IsOpen(e) /\ client[e].of = b
  BY DEF Served
<1>5. \A b \in Conns : b \in ClosedByListener <=>
          \E e \in Descriptors : client[e] # NULL /\ ~client[e].open /\ client[e].of = b
  BY DEF ClosedByListener
<1>6. /\ client[d].of \in Served <=> client[d].open
      /\ client[d].of \in ClosedByListener <=> ~client[d].open
  BY <1>1, <1>3, <1>4, <1>5 DEF IsOpen
<1>7. Served' = Served \ {client[d].of}
  <2>1. \A b \in Conns : b \in Served' <=> b \in Served /\ b # client[d].of
    BY <1>2, <1>3 DEF Served, IsOpen
  <2>2. Served \subseteq Conns /\ Served' \subseteq Conns
    BY DEF Served
  <2>3. QED
    BY <2>1, <2>2
<1>8. ClosedByListener' = ClosedByListener \ {client[d].of}
  <2>1. \A b \in Conns :
            b \in ClosedByListener' <=> b \in ClosedByListener /\ b # client[d].of
    BY <1>2, <1>3 DEF ClosedByListener
  <2>2. ClosedByListener \subseteq Conns /\ ClosedByListener' \subseteq Conns
    BY DEF ClosedByListener
  <2>3. QED
    BY <2>1, <2>2
<1>9. QED
  BY <1>1, <1>6, <1>7, <1>8

LEMMA SetListenerIsLife == LoopInv /\ TcpServer_SetListener => Life!Listen
<1> SUFFICES ASSUME LoopInv, TcpServer_SetListener PROVE Life!Listen
  OBVIOUS
<1>1. pc = "idle" /\ ~cb /\ cb' = TRUE /\ UNCHANGED <<valid, queue, peer, client, told>>
  BY DEF TcpServer_SetListener, netVars
<1>2. Served = {} /\ ClosedByListener = {}
  BY <1>1, NoClients DEF LoopInv, RestInv, ServerInv
<1>3. Served' = Served /\ ClosedByListener' = ClosedByListener
  BY <1>1 DEF Served, ClosedByListener, IsOpen
<1>4. QED
  BY <1>1, <1>2, <1>3 DEF Life!Listen

LEMMA StartIsLife == TcpServer_Start => [Life!Next]_(Life!vars)
<1> SUFFICES ASSUME TcpServer_Start PROVE [Life!Next]_(Life!vars)
  OBVIOUS
<1>1. ~valid /\ UNCHANGED <<queue, peer, cb, client, told>> /\ (valid' = TRUE \/ valid' = valid)
  BY DEF TcpServer_Start, netVars
<1>2. Served' = Served /\ ClosedByListener' = ClosedByListener
  BY <1>1 DEF Served, ClosedByListener, IsOpen
<1>3. CASE valid' = TRUE
  <2>1. Life!Open
    BY <1>1, <1>2, <1>3 DEF Life!Open
  <2>2. QED
    BY <2>1 DEF Life!Next
<1>4. CASE valid' = valid
  BY <1>1, <1>4, Unseen
<1>5. QED
  BY <1>1, <1>3, <1>4

LEMMA StopIsLife == LoopInv /\ Stop => [Life!Next]_(Life!vars)
<1> SUFFICES ASSUME LoopInv, Stop PROVE [Life!Next]_(Life!vars)
  OBVIOUS
<1>1. valid' = FALSE /\ queue' = <<>> /\ UNCHANGED <<cb, peer, told>>
  BY StopStep DEF Stop
<1>2. Served' = {} /\ ClosedByListener' = {}
  BY StopStep DEF Served, ClosedByListener, IsOpen
<1>3. CASE valid
  <2>1. Life!Shut
    BY <1>1, <1>2, <1>3 DEF Life!Shut
  <2>2. QED
    BY <2>1 DEF Life!Next
<1>4. CASE ~valid
  <2>1. queue = <<>> /\ valid = FALSE
    BY <1>4 DEF LoopInv, RestInv, ServerInv, TypeOK
  <2>2. Served = {} /\ ClosedByListener = {}
    BY <1>4, NoClients DEF LoopInv, RestInv, ServerInv
  <2>3. QED
    BY <1>1, <1>2, <2>1, <2>2 DEF Life!vars
<1>5. QED
  BY <1>3, <1>4

LEMMA ConnectIsLife ==
    ASSUME LoopInv, NEW c \in Conns, Peer_Connect(c)
    PROVE  Life!Arrive(c)
<1>1. /\ peer[c] = "absent" /\ peer' = [peer EXCEPT ![c] = "open"]
      /\ queue' = Append(queue, c) /\ UNCHANGED <<valid, cb, client, told>>
  BY DEF Peer_Connect, serverVars
<1>2. valid
  BY DEF Peer_Connect, LoopInv, RestInv, ServerInv
<1>3. Served' = Served /\ ClosedByListener' = ClosedByListener
  BY <1>1 DEF Served, ClosedByListener, IsOpen
<1>4. /\ peer'[c] = "open" /\ \A b \in Conns : b # c => peer'[b] = peer[b]
  BY <1>1 DEF LoopInv, TypeOK
<1>5. /\ c \notin {b \in Conns : peer[b] # "absent"}
      /\ {b \in Conns : peer[b] # "absent"}' = {b \in Conns : peer[b] # "absent"} \cup {c}
      /\ {b \in Conns : peer[b] = "gone"}' = {b \in Conns : peer[b] = "gone"}
  BY <1>1, <1>4
<1>6. QED
  BY <1>1, <1>2, <1>3, <1>5 DEF Life!Arrive

LEMMA LeaveIsLife ==
    ASSUME LoopInv, NEW c \in Conns, Peer_Leave(c)
    PROVE  Life!Leave(c)
<1>1. /\ peer[c] = "open" /\ peer' = [peer EXCEPT ![c] = "gone"]
      /\ UNCHANGED <<valid, cb, queue, client, told>>
  BY DEF Peer_Leave, serverVars
<1>2. Served' = Served /\ ClosedByListener' = ClosedByListener
  BY <1>1 DEF Served, ClosedByListener, IsOpen
<1>3. /\ peer'[c] = "gone" /\ \A b \in Conns : b # c => peer'[b] = peer[b]
  BY <1>1 DEF LoopInv, TypeOK
<1>4. /\ c \in {b \in Conns : peer[b] # "absent"} \ {b \in Conns : peer[b] = "gone"}
      /\ {b \in Conns : peer[b] # "absent"}' = {b \in Conns : peer[b] # "absent"}
      /\ {b \in Conns : peer[b] = "gone"}' = {b \in Conns : peer[b] = "gone"} \cup {c}
  BY <1>1, <1>3
<1>5. QED
  BY <1>1, <1>2, <1>4 DEF Life!Leave

(* accept() takes the index of a descriptor that is free, where a client may
   still be that the listener has closed. *)
LEMMA AcceptIsLife ==
    ASSUME LoopInv, NEW new \in Descriptors, NEW c \in Conns, Accepts(new, c),
           UNCHANGED <<peer, valid, cb>>
    PROVE  Life!Take(c)
<1> USE DEF LoopInv, RestInv
<1>1. /\ queue # <<>> /\ c = Head(queue) /\ queue' = Tail(queue) /\ IsNew(c)
  <2>1. queue # <<>> /\ c = queue[1] /\ queue' = Tail(queue)
    BY DEF Accepts
  <2>2. queue \in Seq(Conns)
    BY DEF TypeOK
  <2>3. Head(queue) = queue[1] /\ 1 \in 1..Len(queue)
    BY <2>1, <2>2
  <2>4. QED
    BY <2>1, <2>3 DEF QueueInv
<1>2. valid
  BY <1>1 DEF ServerInv
<1>3. ~IsOpen(new)
  BY ClientFacts, ConstantFacts DEF Accepts, ClientInv
<1>4. \A d \in Descriptors : d # new => client'[d] = client[d]
  BY DEF Accepts, TypeOK
<1>5. \/ /\ client'[new] = TcpClient(c)
         /\ told' = IF cb THEN [told EXCEPT ![c] = "EVT_CONN"] ELSE told
      \/ MallocMayFail /\ client'[new] = NULL /\ told' = told
  BY DEF Accepts, TypeOK
<1>6. \A d \in Descriptors : d # new => (IsOpen(d)' <=> IsOpen(d))
  BY <1>4 DEF IsOpen
<1>7. ClosedByListener' = ClosedByListener \/
          \E b \in ClosedByListener : ClosedByListener' = ClosedByListener \ {b}
  <2>1. ~(client'[new] # NULL /\ ~client'[new].open)
    BY <1>5 DEF TcpClient
  <2>2. \A b \in Conns : b \in ClosedByListener' <=> \E d \in Descriptors \ {new} :
            client[d] # NULL /\ ~client[d].open /\ client[d].of = b
    BY <1>4, <2>1 DEF ClosedByListener
  <2>3. ClosedByListener \subseteq Conns /\ ClosedByListener' \subseteq Conns
    BY DEF ClosedByListener
  <2>4. CASE client[new] = NULL
    <3>1. \A b \in Conns : b \in ClosedByListener' <=> b \in ClosedByListener
      BY <2>2, <2>4 DEF ClosedByListener
    <3>2. QED
      BY <2>3, <3>1
  <2>5. CASE client[new] # NULL
    <3>1. client[new].of \in ClosedByListener
      BY <1>3, <2>5, ClientFacts DEF ClosedByListener
    <3>2. \A d \in Descriptors : Serves(d, client[new].of) => d = new
      BY <2>5 DEF ClientInv
    <3>3. \A b \in Conns :
              b \in ClosedByListener' <=> b \in ClosedByListener /\ b # client[new].of
      BY <2>2, <3>2 DEF ClosedByListener, Serves
    <3>4. QED
      BY <2>3, <3>1, <3>3
  <2>6. QED
    BY <2>4, <2>5
<1>8. Served \subseteq Conns /\ Served' \subseteq Conns
  BY DEF Served
<1>9. CASE /\ client'[new] = TcpClient(c)
           /\ told' = IF cb THEN [told EXCEPT ![c] = "EVT_CONN"] ELSE told
  <2>1. client'[new] # NULL /\ client'[new].open /\ client'[new].of = c
    <3>1. TcpClient(c) \in [of : Conns, open : BOOLEAN]
      BY DEF TcpClient
    <3>2. TcpClient(c) # NULL
      BY <3>1, EventLoopAssumption DEF EventLoopAssumption
    <3>3. TcpClient(c).open /\ TcpClient(c).of = c
      BY DEF TcpClient
    <3>4. QED
      BY <1>9, <3>2, <3>3
  <2>2. \A b \in Conns : b \in Served' <=> b \in Served \/ b = c
    BY <1>3, <1>4, <1>6, <2>1 DEF Served, IsOpen
  <2>3. Served' = Served \cup {c}
    BY <1>8, <2>2
  <2>4. QED
    BY <1>1, <1>2, <1>7, <1>9, <2>3 DEF Life!Take, TypeOK
<1>10. CASE MallocMayFail /\ client'[new] = NULL /\ told' = told
  <2>1. \A b \in Conns : b \in Served' <=> b \in Served
    BY <1>3, <1>4, <1>6, <1>10 DEF Served, IsOpen
  <2>2. Served' = Served
    BY <1>8, <2>1
  <2>3. QED
    BY <1>1, <1>2, <1>7, <1>10, <2>2 DEF Life!Take, TypeOK
<1>11. QED
  BY <1>5, <1>9, <1>10

LEMMA TellsOfEndIsLife ==
    ASSUME LoopInv, NEW d \in Descriptors, pc = "handle", client[d] # NULL, TellsOfEnd(d),
           UNCHANGED <<queue, peer, valid, cb, client>>
    PROVE  Life!TellEnd(client[d].of)
<1> USE DEF LoopInv, RestInv
<1>1. client[d].of \in Conns /\ client[d].open \in BOOLEAN
  BY ClientFacts
<1>2. cb /\ told[client[d].of] = "EVT_CONN"
  BY DEF TellsOfEnd, ToldInv, IsEnding
<1>3. told' = [told EXCEPT ![client[d].of] = "EVT_CLOSE"]
  BY DEF TellsOfEnd
<1>4. Served' = Served /\ ClosedByListener' = ClosedByListener
  BY DEF Served, ClosedByListener, IsOpen
<1>5. client[d].of \in (Served \cap {c \in Conns : peer[c] = "gone"}) \cup ClosedByListener
  <2>1. CASE client[d].open
    <3>1. IsOpen(d) /\ table[d] = client[d].of
      BY <2>1 DEF IsOpen, ClientInv
    <3>2. peer[client[d].of] # "open"
      BY <1>1, <3>1 DEF TellsOfEnd, IsValid
    <3>3. peer[client[d].of] # "absent"
      BY <1>1, <3>1 DEF QueueInv, IsNew
    <3>4. peer[client[d].of] = "gone"
      BY <1>1, <3>2, <3>3 DEF TypeOK
    <3>5. QED
      BY <1>1, <3>1, <3>4 DEF Served
  <2>2. CASE ~client[d].open
    BY <1>1, <2>2 DEF ClosedByListener
  <2>3. QED
    BY <2>1, <2>2
<1>6. QED
  BY <1>2, <1>3, <1>4, <1>5 DEF Life!TellEnd

LEMMA ClientIsLife ==
    ASSUME LoopInv, NEW d \in rset, SelectHandler_Client(d)
    PROVE  [Life!Next]_(Life!vars)
<1>1. /\ d \in Descriptors /\ pc = "handle"
      /\ UNCHANGED <<queue, peer, valid, cb, client>>
      /\ TellsNobody \/ TellsOfData(d) \/ TellsOfEnd(d)
  BY ClientStep
<1>2. CASE told' = told
  BY <1>1, <1>2, Unseen
<1>3. CASE client[d] # NULL /\ TellsOfEnd(d)
  <2>1. Life!TellEnd(client[d].of) /\ client[d].of \in Conns
    BY <1>1, <1>3, TellsOfEndIsLife, ClientFacts DEF LoopInv
  <2>2. QED
    BY <2>1 DEF Life!Next
<1>4. QED
  BY <1>1, <1>2, <1>3 DEF TellsNobody, TellsOfData, TellsOfEnd

(* The client whose end was told is deleted, if it is still there. *)
LEMMA ReturnIsLife == LoopInv /\ SelectHandler_Return => [Life!Next]_(Life!vars)
<1> SUFFICES ASSUME LoopInv, SelectHandler_Return PROVE [Life!Next]_(Life!vars)
  OBVIOUS
<1> USE DEF LoopInv, RestInv
<1>1. pc = "return" /\ UNCHANGED <<queue, peer, valid, cb, told>>
  BY DEF SelectHandler_Return, netVars
<1>2. CASE client' = client
  BY <1>1, <1>2, Unseen
<1>3. CASE event = "EVT_CLOSE"
  <2>1. index \in Descriptors /\ cb /\ IsEnding(index)
    BY <1>1, <1>3 DEF ServerInv, IsEnding
  <2>2. client' = [client EXCEPT ![index] = NULL]
    BY <1>3 DEF SelectHandler_Return, End
  <2>3. CASE client[index] = NULL
    BY <1>2, <2>1, <2>2, <2>3 DEF TypeOK
  <2>4. CASE client[index] # NULL
    <3>1. /\ client[index].of \in Conns
          /\ client[index].of \in Served \cup ClosedByListener
          /\ Served' = Served \ {client[index].of}
          /\ ClosedByListener' = ClosedByListener \ {client[index].of}
      BY <2>1, <2>2, <2>4, ClientGoes
    <3>2. told[client[index].of] = "EVT_CLOSE"
      BY <2>1, <2>4 DEF ToldInv
    <3>3. Life!GiveUp(client[index].of)
      BY <1>1, <3>1, <3>2 DEF Life!GiveUp
    <3>4. QED
      BY <3>1, <3>3 DEF Life!Next
  <2>5. QED
    BY <2>3, <2>4
<1>4. QED
  BY <1>2, <1>3 DEF SelectHandler_Return

LEMMA CloseClientIsLife ==
    ASSUME LoopInv, cb, NEW d \in Descriptors, IsOpen(d),
           client' = [client EXCEPT ![d].open = FALSE],
           UNCHANGED <<queue, peer, valid, cb, told>>
    PROVE  Life!CloseClient(client[d].of) /\ client[d].of \in Conns
<1> USE DEF LoopInv, RestInv
<1>1. client[d] # NULL /\ client[d].of \in Conns
  BY ClientFacts
<1>2. \A e \in Descriptors :
          /\ client'[e] # NULL <=> client[e] # NULL
          /\ client[e] # NULL => client'[e].of = client[e].of
          /\ client'[e].open <=> client[e].open /\ e # d
  BY CloseKeeps
<1>3. \A e \in Descriptors : client[e] # NULL /\ client[e].of = client[d].of => e = d
  BY <1>1 DEF ClientInv, Serves
<1>4. client[d].of \in Served
  BY <1>1 DEF Served
<1>5. Served' = Served \ {client[d].of}
  <2>1. \A b \in Conns : b \in Served' <=> b \in Served /\ b # client[d].of
    BY <1>2, <1>3 DEF Served, IsOpen
  <2>2. Served \subseteq Conns /\ Served' \subseteq Conns
    BY DEF Served
  <2>3. QED
    BY <2>1, <2>2
<1>6. ClosedByListener' = ClosedByListener \cup {client[d].of}
  <2>1. \A b \in Conns :
            b \in ClosedByListener' <=> b \in ClosedByListener \/ b = client[d].of
    BY <1>1, <1>2 DEF ClosedByListener
  <2>2. ClosedByListener \subseteq Conns /\ ClosedByListener' \subseteq Conns
    BY DEF ClosedByListener
  <2>3. QED
    BY <1>1, <2>1, <2>2
<1>7. QED
  BY <1>1, <1>4, <1>5, <1>6 DEF Life!CloseClient

LEMMA ListenerIsLife == LoopInv /\ Listener => [Life!Next]_(Life!vars)
<1> SUFFICES ASSUME LoopInv, Listener PROVE [Life!Next]_(Life!vars)
  OBVIOUS
<1>1. cb
  BY DEF LoopInv, RestInv, ServerInv, Listener
<1>2. CASE UNCHANGED <<valid, cb, queue, peer, client, told>>
  BY <1>2, Unseen
<1>3. CASE Stop
  BY <1>3, StopIsLife
<1>4. ASSUME NEW d \in Descriptors, IsOpen(d),
             client' = [client EXCEPT ![d].open = FALSE],
             UNCHANGED <<queue, peer, valid, cb, told>>
      PROVE  [Life!Next]_(Life!vars)
  BY <1>1, <1>4, CloseClientIsLife DEF Life!Next
<1>5. QED
  BY <1>2, <1>3, <1>4 DEF Listener, netVars, serverVars

LEMMA StepIsLife == LoopInv /\ [Next]_vars => [Life!Next]_(Life!vars)
<1> SUFFICES ASSUME LoopInv, [Next]_vars PROVE [Life!Next]_(Life!vars)
  OBVIOUS
<1>1. CASE UNCHANGED <<valid, cb, queue, peer, client, told>>
  BY <1>1, Unseen
<1>2. CASE User
  <2>1. Life!Listen => [Life!Next]_(Life!vars)
    BY DEF Life!Next
  <2>2. QED
    BY <1>2, <2>1, SetListenerIsLife, StartIsLife, StopIsLife
       DEF User, TcpServer_Stop, TcpServer_Del
<1>3. CASE DoWork
  <2>1. ASSUME NEW d \in rset, SelectHandler_Accept(d) PROVE [Life!Next]_(Life!vars)
    <3>1. /\ UNCHANGED <<peer, valid, cb>>
          /\ AcceptFails \/ \E new \in Descriptors, c \in Conns : Accepts(new, c)
      BY <2>1, AcceptStep DEF LoopInv, RestInv
    <3>2. CASE AcceptFails
      BY <1>1, <3>1, <3>2 DEF AcceptFails
    <3>3. ASSUME NEW new \in Descriptors, NEW c \in Conns, Accepts(new, c)
          PROVE  [Life!Next]_(Life!vars)
      BY <3>1, <3>3, AcceptIsLife DEF Life!Next
    <3>4. QED
      BY <3>1, <3>2, <3>3
  <2>2. DoWork_Start \/ DoWork_Return \/ Select \/ SelectHandler_End =>
            UNCHANGED <<valid, cb, queue, peer, client, told>>
    BY DEF DoWork_Start, DoWork_Return, Select, SelectHandler_End, netVars, serverVars
  <2>3. QED
    BY <1>1, <1>3, <2>1, <2>2, ClientIsLife, ReturnIsLife, ListenerIsLife DEF DoWork
<1>4. CASE Environment
  <2>1. ASSUME NEW c \in Conns, Peer_Connect(c) \/ Peer_Leave(c)
        PROVE  [Life!Next]_(Life!vars)
    BY <2>1, ConnectIsLife, LeaveIsLife DEF Life!Next
  <2>2. ASSUME NEW c \in Conns, Peer_Send(c)
        PROVE  UNCHANGED <<valid, cb, queue, peer, client, told>>
    BY <2>2 DEF Peer_Send, serverVars
  <2>3. ASSUME NEW d \in Descriptors, Other_Close(d)
        PROVE  UNCHANGED <<valid, cb, queue, peer, client, told>>
    BY <2>3 DEF Other_Close, netVars, serverVars
  <2>4. QED
    BY <1>1, <1>4, <2>1, <2>2, <2>3 DEF Environment
<1>5. CASE UNCHANGED vars
  BY <1>1, <1>5 DEF vars, netVars, serverVars
<1>6. QED
  BY <1>2, <1>3, <1>4, <1>5 DEF Next

(* Every behaviour of the event loop is one that ConnectionLife promises to the
   listener, whatever the listener closes or stops in its callbacks, for any
   number of connections and any reuse of descriptors. *)
THEOREM EventLoopRefinesLife == Spec => ImplementsConnectionLife
BY InitIsLife, StepIsLife, LoopInvariant, PTL
   DEF Spec, ImplementsConnectionLife, Life!Spec
=============================================================================
