-------------------------- MODULE FileServerProofs --------------------------
(***************************************************************************)
(* Proofs about FileServer, for any number of connections, chunks, request *)
(* segments and descriptors and for any set of faults.                     *)
(***************************************************************************)
EXTENDS FileServer, TLAPS

LEMMA TypeInitially == Init => TypeOK
BY FileServerAssumption DEF Init, TypeOK, ThreadStates

(* Assigning within the range keeps a function's type, also at an index outside
   its domain, where nothing happens. *)
LEMMA UpdateType ==
    ASSUME NEW S, NEW T, NEW f \in [S -> T], NEW x, NEW v, x \in S => v \in T
    PROVE  [f EXCEPT ![x] = v] \in [S -> T]
OBVIOUS

LEMMA TypeInductive == TypeOK /\ [Next]_vars => TypeOK'
<1> SUFFICES ASSUME TypeOK, [Next]_vars PROVE TypeOK'
  OBVIOUS
<1> USE FileServerAssumption DEF TypeOK, ThreadStates, vars, consoleVars, serverVars,
      heapVars, netVars, threadVars
<1>1. CASE Start_Open
  BY <1>1 DEF Start_Open, TcpServer_Start
<1>2. CASE Start_Thread
  BY <1>2 DEF Start_Thread
<1>3. CASE Start_Finish
  BY <1>3 DEF Start_Finish
<1>4. CASE Start_Resume
  BY <1>4 DEF Start_Resume
<1>5. CASE Pause_Handler
  BY <1>5 DEF Pause_Handler
<1>6. CASE Exit_Handler
  BY <1>6 DEF Exit_Handler
<1>7. CASE Server_Thread_Accept
  <2>1. Head(queue) \in Clients /\ Tail(queue) \in Seq(Clients)
    BY <1>7 DEF Server_Thread_Accept
  <2>2. CASE \E h \in Chunks : /\ heap' = [heap EXCEPT ![h] = "live"]
                               /\ fd' = [fd EXCEPT ![h] = Head(queue)]
                               /\ client' = h
                               /\ sock' = [sock EXCEPT ![Head(queue)] = "open"]
                               /\ server_pc' = "decide"
    BY <1>7, <2>1, <2>2 DEF Server_Thread_Accept
  <2>3. CASE CloseFd(Head(queue)) /\ UNCHANGED <<heapVars, serverVars>>
    BY <1>7, <2>1, <2>3 DEF Server_Thread_Accept, CloseFd
  <2>4. QED
    BY <1>7, <2>2, <2>3 DEF Server_Thread_Accept
<1>8. CASE Server_Thread_Decide
  BY <1>8 DEF Server_Thread_Decide
<1>9. CASE Server_Thread_Admit
  <2>1. thread' \in [Clients -> ThreadStates]
    BY <1>9 DEF Server_Thread_Admit
  <2>2. arg' \in [Clients -> Chunks \cup {None}]
    BY <1>9 DEF Server_Thread_Admit
  <2>3. late' \in Nat
    BY <1>9 DEF Server_Thread_Admit
  <2>4. QED
    BY <1>9, <2>1, <2>2, <2>3 DEF Server_Thread_Admit
<1>10. CASE Server_Thread_Drop
  BY <1>10 DEF Server_Thread_Drop, TcpClient_Del, CloseFd
<1>11. ASSUME NEW t \in Clients, Process_Thread(t) PROVE TypeOK'
  <2>1. CASE Process_Thread_Test(t)
    <3>1. thread' \in [Clients -> ThreadStates]
      BY <2>1 DEF Process_Thread_Test
    <3>2. heap' \in [Chunks -> {"arena", "live", "cached"}]
      <4>1. heap' \in {heap, [heap EXCEPT ![arg[t]] =
                                  IF @ = "cached" THEN "arena" ELSE @]}
        BY <2>1 DEF Process_Thread_Test
      <4>2. [heap EXCEPT ![arg[t]] = IF @ = "cached" THEN "arena" ELSE @]
               \in [Chunks -> {"arena", "live", "cached"}]
        <5>1. CASE heap[arg[t]] = "cached"
          BY <5>1
        <5>2. CASE heap[arg[t]] # "cached"
          BY <5>2
        <5>3. QED
          BY <5>1, <5>2
      <4>3. QED
        BY <4>1, <4>2
    <3>3. QED
      BY <2>1, <3>1, <3>2 DEF Process_Thread_Test
  <2>2. CASE DoResp_Read(t)
    <3>1. thread' \in [Clients -> ThreadStates]
      BY <2>2 DEF DoResp_Read
    <3>2. got' \in [Clients -> 0..Segments]
      <4>1. got' \in {got, [got EXCEPT ![fd[arg[t]]] = sent[fd[arg[t]]]]}
        BY <2>2 DEF DoResp_Read
      <4>2. \A x : x \in Clients => sent[x] \in 0..Segments
        OBVIOUS
      <4>3. QED
        BY <4>1, <4>2, UpdateType
    <3>3. QED
      BY <2>2, <3>1, <3>2 DEF DoResp_Read
  <2>3. CASE DoResp_Handle(t)
    <3>1. thread' \in [Clients -> ThreadStates]
      BY <2>3 DEF DoResp_Handle
    <3>2. answers' \in [Clients -> Nat]
      <4>1. answers' \in {answers, [answers EXCEPT ![fd[arg[t]]] = @ + 1]}
        BY <2>3 DEF DoResp_Handle
      <4>2. QED
        BY <4>1, UpdateType
    <3>3. process' \in {process, "killed"}
      BY <2>3 DEF DoResp_Handle
    <3>4. QED
      BY <2>3, <3>1, <3>2, <3>3 DEF DoResp_Handle
  <2>4. CASE DoResp_Close(t)
    BY <2>4 DEF DoResp_Close, TcpClient_Del, CloseFd
  <2>5. QED
    BY <1>11, <2>1, <2>2, <2>3, <2>4 DEF Process_Thread
<1>12. ASSUME NEW c \in Clients, Peer(c) PROVE TypeOK'
  <2>1. CASE Peer_Connect(c)
    BY <1>12, <2>1 DEF Peer, Peer_Connect
  <2>2. CASE Peer_Send(c)
    BY <1>12, <2>2 DEF Peer, Peer_Send
  <2>3. CASE Peer_Leave(c)
    BY <1>12, <2>3 DEF Peer, Peer_Leave
  <2>4. QED
    BY <1>12, <2>1, <2>2, <2>3 DEF Peer
<1>13. CASE UNCHANGED vars
  BY <1>13
<1>14. QED
  BY <1>1, <1>2, <1>3, <1>4, <1>5, <1>6, <1>7, <1>8, <1>9, <1>10, <1>11,
     <1>12, <1>13 DEF Next, Console, Commands, Server_Thread

(* The range of every variable (the declarations of main.c, tcp_server.c and
   tcp_client.c that FileServer models) is respected by every step. *)
THEOREM TypeCorrect == Spec => []TypeOK
BY TypeInitially, TypeInductive, PTL DEF Spec
-----------------------------------------------------------------------------
(* The status.  StatusTruthful is not inductive: that a start in progress ends
   with the right status needs what its console step stands for. *)
StatusInv ==
    /\ StatusTruthful
    /\ server_pc # "none" => Listening
    /\ console = "opened" => Listening
    /\ console = "created" => server_pc # "none"
    /\ console \in {"opened", "failed"} => server_pc = "none"

(* What the status of the server and a pause depend on. *)
statusVars == <<g_status, console, port, server_pc, late>>

(* Only the operator and Server_Thread touch any of it: not the Process_Threads,
   nor the peers. *)
LEMMA StatusStep ==
    ASSUME [Next]_vars
    PROVE  Console \/ Commands \/ Server_Thread \/ UNCHANGED statusVars
<1> USE DEF statusVars, consoleVars, serverVars
<1>1. ASSUME NEW t \in Clients, Process_Thread(t) PROVE UNCHANGED statusVars
  BY <1>1 DEF Process_Thread, Process_Thread_Test, DoResp_Read, DoResp_Handle, DoResp_Close
<1>2. \A c \in Clients : Peer(c) => UNCHANGED statusVars
  BY DEF Peer
<1>3. vars' = vars => UNCHANGED statusVars
  BY DEF vars
<1>4. QED
  BY <1>1, <1>2, <1>3 DEF Next

LEMMA StatusInvInductive == StatusInv /\ [Next]_vars => StatusInv'
<1> SUFFICES ASSUME StatusInv, [Next]_vars PROVE StatusInv'
  OBVIOUS
<1> USE DEF StatusInv, StatusTruthful, Listening, consoleVars, serverVars
<1>1. CASE Start_Open
  BY <1>1 DEF Start_Open, TcpServer_Start
<1>2. CASE Start_Thread
  BY <1>2 DEF Start_Thread
<1>3. CASE Start_Finish
  BY <1>3 DEF Start_Finish
<1>4. CASE Start_Resume
  BY <1>4 DEF Start_Resume
<1>5. CASE Pause_Handler
  BY <1>5 DEF Pause_Handler
<1>6. CASE Exit_Handler
  BY <1>6 DEF Exit_Handler
<1>7. CASE Server_Thread
  BY <1>7 DEF Server_Thread, Server_Thread_Accept, Server_Thread_Decide,
              Server_Thread_Admit, Server_Thread_Drop
<1>8. CASE UNCHANGED statusVars
  BY <1>8 DEF statusVars
<1>9. QED
  BY <1>1, <1>2, <1>3, <1>4, <1>5, <1>6, <1>7, <1>8, StatusStep DEF Console, Commands

LEMMA StatusInvariant == Spec => []StatusInv
<1>1. Init => StatusInv
  BY DEF Init, StatusInv, StatusTruthful, Listening
<1>2. QED
  BY <1>1, StatusInvInductive, PTL DEF Spec

(* g_status tells the truth: RUN and PAUSE only with a listening port and a
   Server_Thread, STOP with a Server_Thread only inside Start_Handler. *)
THEOREM StatusIsTruthful == Spec => []StatusTruthful
<1>1. StatusInv => StatusTruthful
  BY DEF StatusInv
<1>2. QED
  BY <1>1, StatusInvariant, PTL

(* A failed start that left the port bound can never be repaired: the same
   port is still taken at every later attempt, so that no Server_Thread is ever
   created and the status stays STOP. *)
THEOREM FailedStartsAreFinal == Spec => FailedStartIsFinal
<1> DEFINE Stuck == /\ port # "free" /\ server_pc = "none"
                    /\ console \in {"failed", "prompt"}
<1>1. FailedStart => Stuck
  BY DEF FailedStart
<1>2. StatusInv /\ Stuck => g_status = "STOP"
  BY DEF StatusInv, StatusTruthful
<1>3. StatusInv /\ Stuck /\ [Next]_vars => Stuck'
  <2> SUFFICES ASSUME StatusInv, Stuck, [Next]_vars PROVE Stuck'
    OBVIOUS
  <2> USE DEF consoleVars, serverVars
  <2>1. CASE Console \/ Commands
    BY <2>1 DEF Console, Commands, Start_Open, TcpServer_Start, Start_Thread, Start_Finish,
                Start_Resume, Pause_Handler, Exit_Handler
  <2>2. CASE Server_Thread
    BY <2>2 DEF Server_Thread, Server_Thread_Accept, Server_Thread_Decide,
                Server_Thread_Admit, Server_Thread_Drop
  <2>3. CASE UNCHANGED statusVars
    BY <2>3 DEF statusVars
  <2>4. QED
    BY <2>1, <2>2, <2>3, StatusStep
<1> HIDE DEF Stuck
<1>4. QED
  BY <1>1, <1>2, <1>3, StatusInvariant, PTL DEF Spec, FailedStartIsFinal
-----------------------------------------------------------------------------
(* The pause.  late is only ever 1 when the one thread that a pause lets
   through has been created and Server_Thread has not decided again. *)
LateInv ==
    /\ PauseLetsOneThrough
    /\ g_status # "PAUSE" => late = 0
    /\ server_pc = "admit" => late = 0

(* At most one connection is served after a pause. *)
THEOREM PauseIsBounded == Spec => []PauseLetsOneThrough
<1>1. Init => LateInv
  BY DEF Init, LateInv, PauseLetsOneThrough
<1>2. LateInv /\ [Next]_vars => LateInv'
  <2> SUFFICES ASSUME LateInv, [Next]_vars PROVE LateInv'
    OBVIOUS
  <2> USE DEF LateInv, PauseLetsOneThrough, consoleVars, serverVars
  <2>1. CASE Console \/ Commands
    BY <2>1 DEF Console, Commands, Start_Open, TcpServer_Start, Start_Thread, Start_Finish,
                Start_Resume, Pause_Handler, Exit_Handler
  <2>2. CASE Server_Thread
    BY <2>2 DEF Server_Thread, Server_Thread_Accept, Server_Thread_Decide,
                Server_Thread_Admit, Server_Thread_Drop
  <2>3. CASE UNCHANGED statusVars
    BY <2>3 DEF statusVars
  <2>4. QED
    BY <2>1, <2>2, <2>3, StatusStep
<1>3. LateInv => PauseLetsOneThrough
  BY DEF LateInv
<1>4. QED
  BY <1>1, <1>2, <1>3, PTL DEF Spec
-----------------------------------------------------------------------------
(* Ownership.  A thread that runs either holds its client, live and referring
   to its own connection, or has just freed it; a freed client stays out of the
   allocator's reach until the thread has looked at it for the last time. *)
Holds(t) ==
    heap[arg[t]] = "live" /\ fd[arg[t]] = t /\ sock[t] = "open"

HasFreed(t) ==
    /\ thread[t] = "test"
    /\ heap[arg[t]] = "cached" /\ fd[arg[t]] = None /\ sock[t] = "closed"

ThreadInv ==
    /\ \A t \in Clients :
          Running(t) => arg[t] \in Chunks /\ (Holds(t) \/ HasFreed(t))
    /\ \A t, u \in Clients :
          Running(t) /\ Running(u) /\ arg[t] = arg[u] => t = u

(* Server_Thread's client is fresh: no thread has been created for it. *)
ServerInv ==
    /\ client # None <=> server_pc \in {"decide", "admit", "drop"}
    /\ client # None =>
          /\ heap[client] = "live" /\ fd[client] \in Clients
          /\ sock[fd[client]] = "open" /\ thread[fd[client]] = "none"
          /\ \A t \in Clients : Running(t) => arg[t] # client

QueueInv ==
    /\ \A n \in 1..Len(queue) : sock[queue[n]] = "queued"
    /\ \A m, n \in 1..Len(queue) : queue[m] = queue[n] => m = n
    /\ \A c \in Clients : sock[c] \in {"none", "queued"} => thread[c] = "none"

OwnershipInv == ThreadInv /\ ServerInv /\ QueueInv

LEMMA OwnershipInitially == Init => OwnershipInv
BY DEF Init, OwnershipInv, ThreadInv, ServerInv, QueueInv, Running

(* What one step does to the three parts of the invariant. *)
LEMMA OwnershipInductive ==
    TypeOK /\ StatusInv /\ OwnershipInv /\ [Next]_vars => OwnershipInv'
<1> SUFFICES ASSUME TypeOK, StatusInv, OwnershipInv, [Next]_vars
             PROVE  OwnershipInv'
  OBVIOUS
<1> USE DEF OwnershipInv, consoleVars, serverVars, heapVars,
      netVars, threadVars
<1>0. /\ None \notin Clients \cup Chunks
      /\ heap \in [Chunks -> {"arena", "live", "cached"}]
      /\ fd \in [Chunks -> Clients \cup {None}]
      /\ sock \in [Clients -> {"none", "queued", "open", "closed"}]
      /\ thread \in [Clients -> ThreadStates]
      /\ arg \in [Clients -> Chunks \cup {None}]
      /\ client \in Chunks \cup {None}
      /\ queue \in Seq(Clients)
  BY FileServerAssumption DEF TypeOK
<1>1. ASSUME UNCHANGED <<serverVars, heapVars, queue, sock, thread, arg>>
      PROVE  OwnershipInv'
  BY <1>1 DEF ThreadInv, ServerInv, QueueInv, Running, Holds, HasFreed
<1>2. CASE Console
  <2>1. CASE Start_Thread
    BY <2>1 DEF Start_Thread, StatusInv, ThreadInv, ServerInv, QueueInv,
                Running, Holds, HasFreed
  <2>2. CASE Start_Finish
    BY <1>1, <2>2 DEF Start_Finish
  <2>3. QED
    BY <1>2, <2>1, <2>2 DEF Console
<1>3. CASE Commands
  BY <1>1, <1>3 DEF Commands, Start_Open, TcpServer_Start, Start_Resume, Pause_Handler, Exit_Handler
<1>4. CASE Server_Thread_Accept
  <2> DEFINE c == Head(queue)
             Accepted(h) == /\ h \in Chunks /\ Malloc(h)
                            /\ heap' = [heap EXCEPT ![h] = "live"]
                            /\ fd' = [fd EXCEPT ![h] = c]
                            /\ client' = h
                            /\ sock' = [sock EXCEPT ![c] = "open"]
                            /\ server_pc' = "decide"
             Failed == CloseFd(c) /\ UNCHANGED <<heapVars, serverVars>>
  <2>1. /\ \/ \E h \in Chunks : Accepted(h)
           \/ Failed
        /\ queue' = Tail(queue) /\ queue # <<>> /\ server_pc = "accept"
        /\ UNCHANGED threadVars
    BY <1>4 DEF Server_Thread_Accept
  <2>2. queue \in Seq(Clients)
    BY <1>0
  <2>3. c = queue[1] /\ c \in Clients /\ 1 \in 1..Len(queue)
    BY <2>1, <2>2
  <2>4. \A n \in 1..Len(queue') :
           queue'[n] = queue[n + 1] /\ n + 1 \in 1..Len(queue) /\ n + 1 # 1
    BY <2>1, <2>2
  <2>5. client = None /\ sock[c] = "queued" /\ thread[c] = "none"
    BY <2>1, <2>3 DEF ServerInv, QueueInv
  <2>6. \E to \in {"open", "closed"} : sock' = [sock EXCEPT ![c] = to]
    BY <2>1 DEF CloseFd
  <2>7. QueueInv'
    <3>1. \A n \in 1..Len(queue') : queue'[n] # c /\ queue'[n] \in Clients
      BY <2>2, <2>3, <2>4 DEF QueueInv
    <3>2. \A n \in 1..Len(queue') : sock'[queue'[n]] = "queued"
      BY <1>0, <2>4, <2>6, <3>1 DEF QueueInv
    <3>3. \A m, n \in 1..Len(queue') : queue'[m] = queue'[n] => m = n
      BY <2>2, <2>4 DEF QueueInv
    <3>4. \A d \in Clients : sock'[d] \in {"none", "queued"} => thread'[d] = "none"
      BY <1>0, <2>1, <2>6 DEF QueueInv
    <3>5. QED
      BY <3>2, <3>3, <3>4 DEF QueueInv
  <2>8. ASSUME NEW h \in Chunks, Accepted(h) PROVE ThreadInv' /\ ServerInv'
    BY <1>0, <2>1, <2>3, <2>5, <2>8 DEF Malloc, ThreadInv, ServerInv, Running,
                                  Holds, HasFreed
  <2>9. CASE Failed
    <3>1. ThreadInv'
      BY <1>0, <2>1, <2>3, <2>5, <2>9 DEF CloseFd, ThreadInv, Running, Holds,
                                          HasFreed
    <3>2. ServerInv'
      BY <2>1, <2>5, <2>9 DEF ServerInv
    <3>3. QED
      BY <2>7, <3>1, <3>2
  <2>10. QED
    BY <2>1, <2>7, <2>8, <2>9
<1>5. CASE Server_Thread_Decide
  BY <1>5 DEF Server_Thread_Decide, ThreadInv, ServerInv, QueueInv, Running,
              Holds, HasFreed
<1>6. CASE Server_Thread_Admit
  <2> DEFINE c == fd[client]
  <2>1. /\ server_pc = "admit" /\ server_pc' = "accept" /\ client' = None
        /\ UNCHANGED <<heap, fd, queue, sock>>
        /\ \/ /\ thread' = [thread EXCEPT ![c] = "test"]
              /\ arg' = [arg EXCEPT ![c] = client]
           \/ thread' = [thread EXCEPT ![c] = "failed"] /\ UNCHANGED arg
    BY <1>6 DEF Server_Thread_Admit
  <2>2. /\ client \in Chunks /\ heap[client] = "live" /\ c \in Clients
        /\ sock[c] = "open" /\ thread[c] = "none"
        /\ \A t \in Clients : Running(t) => arg[t] # client
    BY <1>0, <2>1 DEF ServerInv
  <2>3. ThreadInv'
    BY <1>0, <2>1, <2>2 DEF ThreadInv, Running, Holds, HasFreed
  <2>4. ServerInv' /\ QueueInv'
    BY <1>0, <2>1, <2>2 DEF ServerInv, QueueInv
  <2>5. QED
    BY <2>3, <2>4
<1>7. CASE Server_Thread_Drop
  <2> DEFINE c == fd[client]
  <2>1. /\ server_pc = "drop" /\ server_pc' = "accept" /\ client' = None
        /\ UNCHANGED <<queue, thread, arg>>
        /\ sock' = [sock EXCEPT ![c] = "closed"]
        /\ fd' = [fd EXCEPT ![client] = None]
        /\ heap' = [heap EXCEPT ![client] = "arena"]
    BY <1>7 DEF Server_Thread_Drop, TcpClient_Del, CloseFd
  <2>2. /\ client \in Chunks /\ c \in Clients
        /\ sock[c] = "open" /\ thread[c] = "none"
        /\ \A t \in Clients : Running(t) => arg[t] # client
    BY <1>0, <2>1 DEF ServerInv
  <2>3. ThreadInv'
    BY <1>0, <2>1, <2>2 DEF ThreadInv, Running, Holds, HasFreed
  <2>4. ServerInv' /\ QueueInv'
    BY <1>0, <2>1, <2>2 DEF ServerInv, QueueInv
  <2>5. QED
    BY <2>3, <2>4
<1>8. ASSUME NEW t \in Clients, Process_Thread(t) PROVE OwnershipInv'
  <2>1. CASE Process_Thread_Test(t)
    <3>1. CASE TcpClient_IsValid(arg[t])
      <4>1. /\ thread[t] = "test" /\ thread' = [thread EXCEPT ![t] = "look"]
            /\ UNCHANGED <<serverVars, heapVars, queue, sock, arg>>
        BY <2>1, <3>1 DEF Process_Thread_Test
      <4>2. arg[t] \in Chunks /\ Holds(t)
        BY <3>1, <4>1 DEF TcpClient_IsValid, ThreadInv, Running, HasFreed
      <4>3. ThreadInv'
        BY <1>0, <4>1, <4>2 DEF ThreadInv, Running, Holds, HasFreed
      <4>4. ServerInv' /\ QueueInv'
        BY <1>0, <4>1, <4>2 DEF ServerInv, QueueInv, Running, Holds
      <4>5. QED
        BY <4>3, <4>4
    <3>2. CASE ~TcpClient_IsValid(arg[t])
      <4> DEFINE h == arg[t]
      <4>1. /\ thread[t] = "test" /\ thread' = [thread EXCEPT ![t] = "done"]
            /\ heap' = [heap EXCEPT ![h] =
                             IF @ = "cached" THEN "arena" ELSE @]
            /\ UNCHANGED <<serverVars, fd, queue, sock, arg>>
        BY <2>1, <3>2 DEF Process_Thread_Test
      <4>2. /\ h \in Chunks /\ heap[h] \in {"live", "cached"}
            /\ \A u \in Clients \ {t} : Running(u) => arg[u] # h
            /\ client # h
        BY <1>0, <4>1 DEF ThreadInv, ServerInv, Running, Holds, HasFreed
      <4>3. \A k \in Chunks \ {h} : heap'[k] = heap[k]
        BY <1>0, <4>1
      <4>4. ThreadInv'
        BY <1>0, <4>1, <4>2, <4>3 DEF ThreadInv, Running, Holds, HasFreed
      <4>5. ServerInv' /\ QueueInv'
        BY <1>0, <4>1, <4>2, <4>3 DEF ServerInv, QueueInv, Running
      <4>6. QED
        BY <4>4, <4>5
    <3>3. QED
      BY <3>1, <3>2
  <2>2. CASE DoResp_Read(t)
    BY <1>0, <2>2 DEF DoResp_Read, ThreadInv, ServerInv, QueueInv, Running,
                Holds, HasFreed
  <2>3. CASE DoResp_Handle(t)
    BY <1>0, <2>3 DEF DoResp_Handle, ThreadInv, ServerInv, QueueInv, Running,
                Holds, HasFreed
  <2>4. CASE DoResp_Close(t)
    <3>1. /\ thread[t] = "close" /\ arg[t] \in Chunks /\ Holds(t)
          /\ thread' = [thread EXCEPT ![t] = "test"]
          /\ sock' = [sock EXCEPT ![t] = "closed"]
          /\ fd' = [fd EXCEPT ![arg[t]] = None]
          /\ heap' = [heap EXCEPT ![arg[t]] = "cached"]
          /\ UNCHANGED <<serverVars, queue, arg>>
      BY <2>4 DEF DoResp_Close, TcpClient_Del, CloseFd, ThreadInv, Running,
                  Holds, HasFreed
    <3>2. ThreadInv'
      BY <1>0, <3>1 DEF ThreadInv, Running, Holds, HasFreed
    <3>3. ServerInv' /\ QueueInv'
      BY <1>0, <3>1 DEF ServerInv, QueueInv, Running, Holds
    <3>4. QED
      BY <3>2, <3>3
  <2>5. QED
    BY <1>8, <2>1, <2>2, <2>3, <2>4 DEF Process_Thread
<1>9. ASSUME NEW c \in Clients, Peer(c) PROVE OwnershipInv'
  <2>1. CASE Peer_Connect(c)
    <3>1. /\ sock[c] = "none" /\ sock' = [sock EXCEPT ![c] = "queued"]
          /\ queue' = Append(queue, c) /\ queue \in Seq(Clients)
          /\ UNCHANGED <<serverVars, heapVars, threadVars>>
      BY <1>0, <1>9, <2>1 DEF Peer, Peer_Connect
    <3>2. /\ Len(queue') = Len(queue) + 1 /\ queue'[Len(queue) + 1] = c
          /\ \A n \in 1..Len(queue) : queue'[n] = queue[n] /\ queue[n] # c
      BY <3>1 DEF QueueInv
    <3>3. QueueInv'
      BY <1>0, <3>1, <3>2 DEF QueueInv
    <3>4. ThreadInv' /\ ServerInv'
      BY <1>0, <3>1 DEF ThreadInv, ServerInv, QueueInv, Running, Holds, HasFreed
    <3>5. QED
      BY <3>3, <3>4
  <2>2. CASE Peer_Send(c) \/ Peer_Leave(c)
    BY <1>1, <1>9, <2>2 DEF Peer, Peer_Send, Peer_Leave
  <2>3. QED
    BY <1>9, <2>1, <2>2 DEF Peer
<1>10. CASE UNCHANGED vars
  BY <1>1, <1>10 DEF vars
<1>11. QED
  BY <1>2, <1>3, <1>4, <1>5, <1>6, <1>7, <1>8, <1>9, <1>10 DEF Next, Server_Thread

LEMMA OwnershipInvariant == Spec => []OwnershipInv
BY OwnershipInitially, OwnershipInductive, TypeCorrect, StatusInvariant, PTL
   DEF Spec

(* A TcpClient is never used by two threads, and a thread that evaluates its
   loop condition on the client it has freed finds the chunk as it left it. *)
THEOREM ClientsHaveOneOwner == Spec => []HandleOwnership
<1>1. TypeOK /\ OwnershipInv => HandleOwnership
  BY DEF OwnershipInv, ThreadInv, ServerInv, Holds, HasFreed, HandleOwnership
<1>2. QED
  BY <1>1, OwnershipInvariant, TypeCorrect, PTL
-----------------------------------------------------------------------------
(* The answer. *)
AnswerInv ==
    \A c \in Clients :
        /\ thread[c] = "handle" => got[c] > 0
        /\ answers[c] # 0 => /\ answers[c] = 1 /\ got[c] > 0
                             /\ thread[c] = "close" \/ sock[c] = "closed"

LEMMA AnswerInductive ==
    TypeOK /\ OwnershipInv /\ AnswerInv /\ [Next]_vars => AnswerInv'
<1> SUFFICES ASSUME TypeOK, OwnershipInv, AnswerInv, [Next]_vars
             PROVE  AnswerInv'
  OBVIOUS
<1>1. ASSUME UNCHANGED <<sock, got, thread, answers>> PROVE AnswerInv'
  BY <1>1 DEF AnswerInv
<1>2. CASE Console \/ Commands \/ UNCHANGED vars
  BY <1>1, <1>2 DEF Console, Commands, Start_Open, TcpServer_Start, Start_Thread, Start_Finish,
        Start_Resume, Pause_Handler, Exit_Handler, vars, netVars, threadVars
<1>0. /\ sock \in [Clients -> {"none", "queued", "open", "closed"}]
      /\ thread \in [Clients -> ThreadStates]
      /\ sent \in [Clients -> 0..Segments] /\ got \in [Clients -> 0..Segments]
      /\ answers \in [Clients -> Nat] /\ Segments \in Nat
  BY FileServerAssumption DEF TypeOK
<1>3. CASE Server_Thread
  <2>1. CASE Server_Thread_Accept
    <3>1. Head(queue) \in Clients /\ sock[Head(queue)] = "queued"
      BY <2>1 DEF Server_Thread_Accept, TypeOK, OwnershipInv, QueueInv
    <3>2. \E to \in {"open", "closed"} :
             sock' = [sock EXCEPT ![Head(queue)] = to]
      BY <2>1 DEF Server_Thread_Accept, CloseFd
    <3>3. UNCHANGED <<got, thread, answers>>
      BY <2>1 DEF Server_Thread_Accept, threadVars
    <3>4. QED
      BY <1>0, <3>1, <3>2, <3>3 DEF AnswerInv
  <2>2. CASE Server_Thread_Decide
    BY <1>1, <2>2 DEF Server_Thread_Decide, netVars, threadVars
  <2>3. CASE Server_Thread_Admit
    <3>1. client # None /\ fd[client] \in Clients /\ thread[fd[client]] = "none"
      BY <2>3 DEF Server_Thread_Admit, OwnershipInv, ServerInv
    <3>2. \/ thread' = [thread EXCEPT ![fd[client]] = "test"]
          \/ thread' = [thread EXCEPT ![fd[client]] = "failed"]
      BY <2>3 DEF Server_Thread_Admit
    <3>3. UNCHANGED <<sock, got, answers>>
      BY <2>3 DEF Server_Thread_Admit, netVars
    <3>4. QED
      BY <1>0, <3>1, <3>2, <3>3 DEF AnswerInv
  <2>4. CASE Server_Thread_Drop
    BY <1>0, <2>4 DEF Server_Thread_Drop, TcpClient_Del, CloseFd, threadVars,
                      AnswerInv
  <2>5. QED
    BY <1>3, <2>1, <2>2, <2>3, <2>4 DEF Server_Thread
<1>4. ASSUME NEW t \in Clients, Process_Thread(t) PROVE AnswerInv'
  <2>0. /\ thread[t] \in {"look", "handle", "close"} =>
              fd[arg[t]] = t /\ sock[t] = "open"
        /\ thread[t] = "test" => fd[arg[t]] \in {t, None}
        /\ thread[t] = "test" /\ fd[arg[t]] = t => sock[t] = "open"
    BY FileServerAssumption DEF OwnershipInv, ThreadInv, Running, Holds, HasFreed
  <2>1. CASE Process_Thread_Test(t)
    BY <1>0, <2>1 DEF Process_Thread_Test, netVars, AnswerInv
  <2>2. CASE DoResp_Read(t)
    BY <1>0, <2>0, <2>2 DEF DoResp_Read, TcpClient_Available, AnswerInv
  <2>3. CASE DoResp_Handle(t)
    BY <1>0, <2>0, <2>3 DEF DoResp_Handle, netVars, AnswerInv
  <2>4. CASE DoResp_Close(t)
    BY <1>0, <2>0, <2>4 DEF DoResp_Close, TcpClient_Del, CloseFd, AnswerInv
  <2>5. QED
    BY <1>4, <2>1, <2>2, <2>3, <2>4 DEF Process_Thread
<1>5. ASSUME NEW c \in Clients, Peer(c) PROVE AnswerInv'
  <2>1. CASE Peer_Connect(c)
    BY <1>0, <1>5, <2>1 DEF Peer, Peer_Connect, threadVars, AnswerInv
  <2>2. CASE Peer_Send(c) \/ Peer_Leave(c)
    BY <1>1, <1>5, <2>2 DEF Peer, Peer_Send, Peer_Leave, threadVars
  <2>3. QED
    BY <1>5, <2>1, <2>2 DEF Peer
<1>6. QED
  BY <1>2, <1>3, <1>4, <1>5 DEF Next

(* No request is answered twice, and none that was not read. *)
THEOREM RequestsAreAnsweredOnce == Spec => []AnsweredOnce
<1>1. Init => AnswerInv
  BY DEF Init, AnswerInv
<1>2. TypeOK /\ AnswerInv => AnsweredOnce
  BY DEF TypeOK, AnswerInv, AnsweredOnce
<1>3. QED
  BY <1>1, <1>2, AnswerInductive, TypeCorrect, OwnershipInvariant, PTL DEF Spec
-----------------------------------------------------------------------------
(* What is left open. *)
AbandonInv ==
    /\ AbandonedOnlyWhenPeerLeft
    /\ \A c \in Clients : sock[c] # "none" => peer[c] # "idle"

LEMMA AbandonInductive ==
    TypeOK /\ OwnershipInv /\ AbandonInv /\ [Next]_vars => AbandonInv'
<1> SUFFICES ASSUME TypeOK, OwnershipInv, AbandonInv, [Next]_vars
             PROVE  AbandonInv'
  OBVIOUS
<1> USE DEF AbandonInv, AbandonedOnlyWhenPeerLeft, Abandoned
<1>0. /\ None \notin Clients \cup Chunks
      /\ fd \in [Chunks -> Clients \cup {None}]
      /\ sock \in [Clients -> {"none", "queued", "open", "closed"}]
      /\ peer \in [Clients -> {"idle", "open", "fin", "rst"}]
      /\ thread \in [Clients -> ThreadStates]
      /\ client \in Chunks \cup {None}
  BY FileServerAssumption DEF TypeOK
<1>1. ASSUME UNCHANGED <<sock, peer, thread, client, fd>> PROVE AbandonInv'
  BY <1>1 DEF Running
<1>2. CASE Console \/ Commands \/ UNCHANGED vars
  BY <1>1, <1>2 DEF Console, Commands, Start_Open, TcpServer_Start, Start_Thread, Start_Finish,
        Start_Resume, Pause_Handler, Exit_Handler, vars, netVars, threadVars,
        heapVars, serverVars
<1>3. CASE Server_Thread_Accept
  <2> DEFINE c == Head(queue)
  <2>1. /\ c \in Clients /\ sock[c] = "queued" /\ client = None
        /\ UNCHANGED <<peer, thread>>
    BY <1>3 DEF Server_Thread_Accept, TypeOK, OwnershipInv, QueueInv, ServerInv,
                threadVars
  <2>2. CASE \E h \in Chunks : /\ fd' = [fd EXCEPT ![h] = c] /\ client' = h
                               /\ sock' = [sock EXCEPT ![c] = "open"]
    BY <1>0, <2>1, <2>2 DEF Running
  <2>3. CASE sock' = [sock EXCEPT ![c] = "closed"] /\ UNCHANGED <<fd, client>>
    BY <1>0, <2>1, <2>3 DEF Running
  <2>4. QED
    BY <1>3, <2>2, <2>3 DEF Server_Thread_Accept, CloseFd, heapVars, serverVars
<1>4. CASE Server_Thread_Decide
  BY <1>1, <1>4 DEF Server_Thread_Decide, netVars, threadVars, heapVars
<1>5. CASE Server_Thread_Admit
  <2>1. client # None /\ fd[client] \in Clients /\ thread[fd[client]] = "none"
    BY <1>5 DEF Server_Thread_Admit, OwnershipInv, ServerInv
  <2>2. /\ client' = None
        /\ \/ thread' = [thread EXCEPT ![fd[client]] = "test"]
           \/ thread' = [thread EXCEPT ![fd[client]] = "failed"]
        /\ UNCHANGED <<sock, peer, fd>>
    BY <1>5 DEF Server_Thread_Admit, netVars, heapVars
  <2>3. QED
    BY <1>0, <2>1, <2>2 DEF Running
<1>6. CASE Server_Thread_Drop
  <2>1. client # None /\ fd[client] \in Clients /\ sock[fd[client]] = "open"
    BY <1>6 DEF Server_Thread_Drop, OwnershipInv, ServerInv
  <2>2. /\ client' = None
        /\ sock' = [sock EXCEPT ![fd[client]] = "closed"]
        /\ UNCHANGED <<peer, thread>>
    BY <1>6 DEF Server_Thread_Drop, TcpClient_Del, CloseFd, threadVars
  <2>3. \A c \in Clients : Abandoned(c)' => Abandoned(c)
    BY <1>0, <2>1, <2>2 DEF Running
  <2>4. QED
    BY <1>0, <2>1, <2>2, <2>3
<1>7. ASSUME NEW t \in Clients, Process_Thread(t) PROVE AbandonInv'
  <2>1. CASE Process_Thread_Test(t)
    <3>1. /\ thread[t] = "test"
          /\ \/ TcpClient_IsValid(arg[t]) /\ thread' = [thread EXCEPT ![t] = "look"]
             \/ ~TcpClient_IsValid(arg[t]) /\ thread' = [thread EXCEPT ![t] = "done"]
          /\ UNCHANGED <<sock, peer, client, fd>>
      BY <2>1 DEF Process_Thread_Test, netVars, serverVars
    <3>2. ~TcpClient_IsValid(arg[t]) =>
              sock[t] = "closed" \/ peer[t] \in {"fin", "rst"}
      BY <1>0, <3>1 DEF TcpClient_IsValid, OwnershipInv, ThreadInv, Running,
                        Holds, HasFreed
    <3>3. QED
      BY <1>0, <3>1, <3>2 DEF Running
  <2>2. CASE DoResp_Read(t)
    BY <1>0, <2>2 DEF DoResp_Read, serverVars, heapVars, Running
  <2>3. CASE DoResp_Handle(t)
    BY <1>0, <2>3 DEF DoResp_Handle, serverVars, heapVars, netVars, Running
  <2>4. CASE DoResp_Close(t)
    <3>1. /\ thread[t] = "close" /\ Holds(t) /\ client # arg[t]
      BY <1>0, <2>4 DEF DoResp_Close, OwnershipInv, ThreadInv, ServerInv, Running,
                        HasFreed
    <3>2. /\ thread' = [thread EXCEPT ![t] = "test"]
          /\ sock' = [sock EXCEPT ![t] = "closed"]
          /\ fd' = [fd EXCEPT ![arg[t]] = None]
          /\ UNCHANGED <<peer, client>>
      BY <2>4, <3>1 DEF DoResp_Close, TcpClient_Del, CloseFd, serverVars, Holds
    <3>3. \A c \in Clients : Abandoned(c)' => c # t /\ Abandoned(c)
      BY <1>0, <3>1, <3>2 DEF Running, Holds
    <3>4. QED
      BY <1>0, <3>1, <3>2, <3>3 DEF Holds
  <2>5. QED
    BY <1>7, <2>1, <2>2, <2>3, <2>4 DEF Process_Thread
<1>8. ASSUME NEW c \in Clients, Peer(c) PROVE AbandonInv'
  <2>1. UNCHANGED <<thread, client, fd>>
    BY <1>8 DEF Peer, serverVars, heapVars, threadVars
  <2>2. CASE Peer_Connect(c)
    BY <1>0, <2>1, <2>2 DEF Peer_Connect, Running
  <2>3. CASE Peer_Send(c)
    BY <1>1, <2>1, <2>3 DEF Peer_Send
  <2>4. CASE Peer_Leave(c)
    BY <1>0, <2>1, <2>4 DEF Peer_Leave, Running
  <2>5. QED
    BY <1>8, <2>2, <2>3, <2>4 DEF Peer
<1>9. QED
  BY <1>2, <1>3, <1>4, <1>5, <1>6, <1>7, <1>8 DEF Next, Server_Thread

(* The program leaves a connection open only if its peer has left, or if
   pthread_create failed for it. *)
THEOREM OnlyDepartedPeersAreAbandoned == Spec => []AbandonedOnlyWhenPeerLeft
<1>1. Init => AbandonInv
  BY DEF Init, AbandonInv, AbandonedOnlyWhenPeerLeft, Abandoned
<1>2. AbandonInv => AbandonedOnlyWhenPeerLeft
  BY DEF AbandonInv
<1>3. QED
  BY <1>1, <1>2, AbandonInductive, TypeCorrect, OwnershipInvariant, PTL DEF Spec
-----------------------------------------------------------------------------
(***************************************************************************)
(* FileServer implements GatedService, for any number of connections and   *)
(* any set of faults: the initial states correspond, and every step is a   *)
(* step of GatedService or leaves the gate and every phase as they are.    *)
(***************************************************************************)

LEMMA AnswerInvariant == Spec => []AnswerInv
<1>1. Init => AnswerInv
  BY DEF Init, AnswerInv
<1>2. QED
  BY <1>1, AnswerInductive, TypeCorrect, OwnershipInvariant, PTL DEF Spec

SimulationInv == TypeOK /\ StatusInv /\ OwnershipInv /\ AnswerInv

LEMMA SimulationInvariant == Spec => []SimulationInv
BY TypeCorrect, StatusInvariant, OwnershipInvariant, AnswerInvariant, PTL
   DEF SimulationInv

(* The phases, one connection at a time. *)
LEMMA PhaseOf ==
    ASSUME NEW c \in Clients
    PROVE  /\ sock[c] = "none" => Phase(c) = "absent"
           /\ sock[c] = "queued" => Phase(c) = "waiting"
           /\ sock[c] = "open" /\ Deciding(c) =>
                 /\ server_pc = "decide" => Phase(c) = "waiting"
                 /\ server_pc = "admit" => Phase(c) = "chosen"
                 /\ server_pc = "drop" => Phase(c) = "refused"
           /\ sock[c] = "open" /\ ~Deciding(c) =>
                 /\ thread[c] = "failed" => Phase(c) = "lost"
                 /\ thread[c] # "failed" /\ answers[c] # 0 => Phase(c) = "answered"
                 /\ thread[c] # "failed" /\ answers[c] = 0 => Phase(c) = "admitted"
           /\ sock[c] = "closed" =>
                 /\ thread[c] = "none" => Phase(c) = "refused"
                 /\ thread[c] # "none" => Phase(c) = "over"
<1>1. sock[c] = "none" => Phase(c) = "absent"
  BY DEF Phase
<1>2. sock[c] = "queued" => Phase(c) = "waiting"
  BY DEF Phase
<1>3. ASSUME sock[c] = "open", Deciding(c)
      PROVE  /\ server_pc = "decide" => Phase(c) = "waiting"
             /\ server_pc = "admit" => Phase(c) = "chosen"
             /\ server_pc = "drop" => Phase(c) = "refused"
  BY <1>3 DEF Phase, PhaseOfDecision
<1>4. ASSUME sock[c] = "open", ~Deciding(c)
      PROVE  /\ thread[c] = "failed" => Phase(c) = "lost"
             /\ thread[c] # "failed" /\ answers[c] # 0 => Phase(c) = "answered"
             /\ thread[c] # "failed" /\ answers[c] = 0 => Phase(c) = "admitted"
  BY <1>4 DEF Phase, PhaseOfThread
<1>5. ASSUME sock[c] = "closed"
      PROVE  /\ thread[c] = "none" => Phase(c) = "refused"
             /\ thread[c] # "none" => Phase(c) = "over"
  BY <1>5 DEF Phase
<1>6. QED
  BY <1>1, <1>2, <1>3, <1>4, <1>5

(* A connection that is not touched keeps its phase. *)
LEMMA PhaseKept ==
    ASSUME NEW c \in Clients, UNCHANGED <<sock[c], thread[c], answers[c]>>,
           Deciding(c)' <=> Deciding(c),
           Deciding(c) => UNCHANGED server_pc
    PROVE  Phase(c)' = Phase(c)
BY DEF Phase, PhaseOfDecision, PhaseOfThread

(* A step that moves one connection. *)
LEMMA MoveOfOne ==
    ASSUME NEW c \in Clients, NEW from, NEW to,
           Phase(c) = from, Phase(c)' = to, UNCHANGED g_status,
           \A d \in Clients \ {c} : Phase(d)' = Phase(d)
    PROVE  Gated!Move(c, from, to)
BY DEF Gated!Move

LEMMA Stutter ==
    ASSUME UNCHANGED g_status, \A c \in Clients : Phase(c)' = Phase(c)
    PROVE  UNCHANGED Gated!vars
BY DEF Gated!vars
-----------------------------------------------------------------------------
LEMMA InitRefines == Init => Gated!Init
<1> SUFFICES ASSUME Init PROVE Gated!Init
  OBVIOUS
<1>1. \A c \in Clients : Phase(c) = "absent"
  BY DEF Init, Phase
<1>2. QED
  BY <1>1 DEF Init, Gated!Init

LEMMA StepRefines == SimulationInv /\ [Next]_vars => [Gated!Next]_Gated!vars
<1> SUFFICES ASSUME SimulationInv, [Next]_vars
             PROVE  [Gated!Next]_Gated!vars
  OBVIOUS
<1> USE DEF consoleVars, serverVars, heapVars, netVars, threadVars
<1>0. /\ None \notin Clients \cup Chunks
      /\ fd \in [Chunks -> Clients \cup {None}]
      /\ sock \in [Clients -> {"none", "queued", "open", "closed"}]
      /\ thread \in [Clients -> ThreadStates]
      /\ answers \in [Clients -> Nat]
      /\ client \in Chunks \cup {None}
      /\ g_status \in {"STOP", "RUN", "PAUSE"}
  BY FileServerAssumption DEF SimulationInv, TypeOK
<1>1. ASSUME UNCHANGED <<client, server_pc, fd, sock, thread, answers>>
      PROVE  \A c \in Clients : Phase(c)' = Phase(c)
  BY <1>1, PhaseKept DEF Deciding
<1>2. ASSUME UNCHANGED <<g_status, client, server_pc, fd, sock, thread, answers>>
      PROVE  UNCHANGED Gated!vars
  BY <1>1, <1>2, Stutter
<1>3. ASSUME UNCHANGED <<client, server_pc, fd, sock, thread, answers>>,
             \/ g_status' = "RUN"
             \/ g_status = "RUN" /\ g_status' = "PAUSE"
      PROVE  Gated!Operate
  BY <1>1, <1>3 DEF Gated!Operate
<1>4. CASE Console
  <2>1. CASE Start_Thread
    <3>1. client = None
      BY <2>1 DEF Start_Thread, SimulationInv, StatusInv, OwnershipInv, ServerInv
    <3>2. UNCHANGED <<g_status, client, fd, sock, thread, answers>>
      BY <2>1 DEF Start_Thread
    <3>3. \A c \in Clients : Phase(c)' = Phase(c)
      BY <3>1, <3>2, PhaseKept DEF Deciding
    <3>4. QED
      BY <3>2, <3>3, Stutter
  <2>2. CASE Start_Finish
    <3>1. g_status' \in {g_status, "RUN"}
      BY <2>2 DEF Start_Finish, SimulationInv, StatusInv, StatusTruthful
    <3>2. UNCHANGED <<client, server_pc, fd, sock, thread, answers>>
      BY <2>2 DEF Start_Finish
    <3>3. QED
      BY <1>2, <1>3, <3>1, <3>2 DEF Gated!Next
  <2>3. QED
    BY <1>4, <2>1, <2>2 DEF Console
<1>5. CASE Commands
  <2>1. UNCHANGED <<client, server_pc, fd, sock, thread, answers>>
    BY <1>5 DEF Commands, Start_Open, TcpServer_Start, Start_Resume, Pause_Handler, Exit_Handler
  <2>2. \/ UNCHANGED g_status
        \/ g_status' = "RUN"
        \/ g_status = "RUN" /\ g_status' = "PAUSE"
    BY <1>5 DEF Commands, Start_Open, TcpServer_Start, Start_Resume, Pause_Handler, Exit_Handler
  <2>3. QED
    BY <1>2, <1>3, <2>1, <2>2 DEF Gated!Next
<1>6. CASE Server_Thread_Accept
  <2>0. PICK c \in Clients : c = Head(queue) /\ sock[c] = "queued"
    BY <1>6 DEF Server_Thread_Accept, SimulationInv, TypeOK, OwnershipInv, QueueInv
  <2>1. /\ client = None
        /\ thread[c] = "none" /\ Phase(c) = "waiting"
        /\ UNCHANGED <<g_status, thread, answers>>
    BY <1>6, <2>0, PhaseOf DEF Server_Thread_Accept, SimulationInv,
                               OwnershipInv, QueueInv, ServerInv
  <2>2. ASSUME NEW h \in Chunks, fd' = [fd EXCEPT ![h] = c], client' = h,
               sock' = [sock EXCEPT ![c] = "open"], server_pc' = "decide"
        PROVE  UNCHANGED Gated!vars
    <3>1. Deciding(c)' /\ \A d \in Clients \ {c} : ~Deciding(d)' /\ ~Deciding(d)
      BY <1>0, <2>0, <2>1, <2>2 DEF Deciding
    <3>2. Phase(c)' = "waiting"
      BY <1>0, <2>0, <2>1, <2>2, <3>1 DEF Phase, PhaseOfDecision
    <3>3. \A d \in Clients \ {c} : Phase(d)' = Phase(d)
      BY <1>0, <2>0, <2>1, <2>2, <3>1, PhaseKept
    <3>4. QED
      BY <2>1, <3>2, <3>3, Stutter
  <2>3. ASSUME Faulty("malloc"), sock' = [sock EXCEPT ![c] = "closed"],
               UNCHANGED <<fd, client, server_pc>>
        PROVE  Gated!Refuse(c)
    <3>1. Phase(c)' = "refused"
      BY <1>0, <2>0, <2>1, <2>3 DEF Phase
    <3>2. \A d \in Clients \ {c} : Phase(d)' = Phase(d)
      BY <1>0, <2>0, <2>1, <2>3, PhaseKept DEF Deciding
    <3>3. Gated!Move(c, "waiting", "refused")
      BY <2>1, <3>1, <3>2, MoveOfOne
    <3>4. QED
      BY <2>3, <3>3 DEF Gated!Refuse
  <2>4. QED
    BY <1>6, <2>0, <2>1, <2>2, <2>3 DEF Server_Thread_Accept, CloseFd, Gated!Next
<1>7. CASE Server_Thread_Decide
  <2>0. PICK c \in Clients : c = fd[client]
    BY <1>7 DEF Server_Thread_Decide, SimulationInv, OwnershipInv, ServerInv
  <2>1. /\ Deciding(c) /\ sock[c] = "open"
        /\ \A d \in Clients \ {c} : ~Deciding(d)
        /\ server_pc = "decide" /\ Phase(c) = "waiting"
        /\ UNCHANGED <<g_status, client, fd, sock, thread, answers>>
        /\ server_pc' = IF g_status # "PAUSE" THEN "admit" ELSE "drop"
    BY <1>7, <2>0, PhaseOf DEF Server_Thread_Decide, SimulationInv, OwnershipInv,
                         ServerInv, Deciding
  <2>2. \A d \in Clients \ {c} : Phase(d)' = Phase(d)
    BY <2>1, PhaseKept DEF Deciding
  <2>3. CASE g_status # "PAUSE"
    <3>1. Phase(c)' = "chosen"
      BY <2>1, <2>3 DEF Phase, PhaseOfDecision, Deciding
    <3>2. \A d \in Clients : Phase(d) # "chosen"
      BY <2>1 DEF Phase, PhaseOfDecision, PhaseOfThread
    <3>3. Gated!Move(c, "waiting", "chosen")
      BY <2>1, <2>2, <3>1, MoveOfOne
    <3>4. Gated!Choose(c)
      BY <2>3, <3>2, <3>3 DEF Gated!Choose
    <3>5. QED
      BY <2>1, <3>4 DEF Gated!Next
  <2>4. CASE g_status = "PAUSE"
    <3>1. Phase(c)' = "refused"
      BY <2>1, <2>4 DEF Phase, PhaseOfDecision, Deciding
    <3>2. Gated!Move(c, "waiting", "refused")
      BY <2>1, <2>2, <3>1, MoveOfOne
    <3>3. QED
      BY <2>1, <2>4, <3>2 DEF Gated!Next, Gated!Refuse
  <2>5. QED
    BY <2>3, <2>4
<1>8. CASE Server_Thread_Admit
  <2>0. PICK c \in Clients : c = fd[client]
    BY <1>8 DEF Server_Thread_Admit, SimulationInv, OwnershipInv, ServerInv
  <2>1. /\ Deciding(c) /\ sock[c] = "open" /\ thread[c] = "none"
        /\ \A d \in Clients \ {c} : ~Deciding(d)
        /\ answers[c] = 0 /\ Phase(c) = "chosen" /\ client' = None
        /\ UNCHANGED <<g_status, fd, sock, answers>>
        /\ \/ thread' = [thread EXCEPT ![c] = "test"]
           \/ /\ Faulty("pthread")
              /\ thread' = [thread EXCEPT ![c] = "failed"]
    BY <1>8, <2>0, PhaseOf DEF Server_Thread_Admit, SimulationInv, OwnershipInv,
                         ServerInv, AnswerInv, Deciding
  <2>2. \A d \in Clients : ~Deciding(d)'
    BY <2>1 DEF Deciding
  <2>3. \A d \in Clients \ {c} : Phase(d)' = Phase(d)
    BY <1>0, <2>1, <2>2, PhaseKept
  <2>4. CASE thread' = [thread EXCEPT ![c] = "test"]
    <3>1. Phase(c)' = "admitted"
      BY <1>0, <2>1, <2>2, <2>4 DEF Phase, PhaseOfThread
    <3>2. Gated!Move(c, "chosen", "admitted")
      BY <2>1, <2>3, <3>1, MoveOfOne
    <3>3. QED
      BY <2>1, <3>2 DEF Gated!Next, Gated!Admit
  <2>5. CASE Faulty("pthread") /\ thread' = [thread EXCEPT ![c] = "failed"]
    <3>1. Phase(c)' = "lost"
      BY <1>0, <2>1, <2>2, <2>5 DEF Phase, PhaseOfThread
    <3>2. Gated!Move(c, "chosen", "lost")
      BY <2>1, <2>3, <3>1, MoveOfOne
    <3>3. QED
      BY <2>1, <2>5, <3>2 DEF Gated!Next, Gated!Lose
  <2>6. QED
    BY <2>1, <2>4, <2>5
<1>9. CASE Server_Thread_Drop
  <2>0. PICK c \in Clients : c = fd[client]
    BY <1>9 DEF Server_Thread_Drop, SimulationInv, OwnershipInv, ServerInv
  <2>1. /\ Deciding(c) /\ sock[c] = "open" /\ thread[c] = "none"
        /\ \A d \in Clients \ {c} : ~Deciding(d)
        /\ Phase(c) = "refused" /\ client' = None
        /\ sock' = [sock EXCEPT ![c] = "closed"]
        /\ UNCHANGED <<g_status, thread, answers>>
    BY <1>9, <2>0, PhaseOf DEF Server_Thread_Drop, TcpClient_Del, CloseFd,
                         SimulationInv, OwnershipInv, ServerInv, Deciding
  <2>2. \A d \in Clients : ~Deciding(d)'
    BY <2>1 DEF Deciding
  <2>3. \A d \in Clients \ {c} : Phase(d)' = Phase(d)
    BY <1>0, <2>1, <2>2, PhaseKept
  <2>4. Phase(c)' = "refused"
    BY <1>0, <2>1 DEF Phase
  <2>5. QED
    BY <2>1, <2>3, <2>4, Stutter
<1>10. ASSUME NEW t \in Clients, Process_Thread(t)
       PROVE  [Gated!Next]_Gated!vars
  <2>1. thread[t] \notin {"none", "failed"} /\ ~Deciding(t)
    BY <1>10 DEF Process_Thread, Process_Thread_Test, DoResp_Read, DoResp_Handle,
         DoResp_Close, SimulationInv, OwnershipInv, ServerInv, Deciding
  <2>2. thread[t] \in {"look", "handle", "close"} => Holds(t) /\ client # arg[t]
    BY <1>0 DEF SimulationInv, OwnershipInv, ThreadInv, ServerInv, Running, HasFreed
  <2>3. ASSUME UNCHANGED <<g_status, client, server_pc, fd, sock, answers>>,
               NEW to \in {"test", "look", "handle", "close", "done"},
               thread' = [thread EXCEPT ![t] = to]
        PROVE  UNCHANGED Gated!vars
    <3>1. Phase(t)' = Phase(t)
      BY <1>0, <2>1, <2>3 DEF Phase, PhaseOfThread, Deciding
    <3>2. \A d \in Clients \ {t} : Phase(d)' = Phase(d)
      BY <1>0, <2>3, PhaseKept DEF Deciding
    <3>3. QED
      BY <2>3, <3>1, <3>2, Stutter
  <2>4. CASE Process_Thread_Test(t)
    BY <2>3, <2>4 DEF Process_Thread_Test
  <2>5. CASE DoResp_Read(t)
    BY <2>3, <2>5 DEF DoResp_Read
  <2>6. CASE DoResp_Handle(t)
    <3>1. /\ fd[arg[t]] = t /\ sock[t] = "open" /\ answers[t] = 0
          /\ thread' = [thread EXCEPT ![t] = "close"]
          /\ UNCHANGED <<g_status, client, server_pc, fd, sock>>
          /\ answers' \in {answers, [answers EXCEPT ![t] = @ + 1]}
      BY <2>2, <2>6 DEF DoResp_Handle, Holds, SimulationInv, AnswerInv
    <3>2. CASE UNCHANGED answers
      BY <2>3, <3>1, <3>2
    <3>3. CASE answers' = [answers EXCEPT ![t] = @ + 1]
      <4>1. Phase(t) = "admitted"
        BY <2>1, <3>1, PhaseOf
      <4>2. Phase(t)' = "answered"
        BY <1>0, <2>1, <3>1, <3>3 DEF Phase, PhaseOfThread, Deciding
      <4>3. \A d \in Clients \ {t} : Phase(d)' = Phase(d)
        BY <1>0, <3>1, <3>3, PhaseKept DEF Deciding
      <4>4. Gated!Move(t, "admitted", "answered")
        BY <3>1, <4>1, <4>2, <4>3, MoveOfOne
      <4>5. QED
        BY <4>4 DEF Gated!Next, Gated!Answer
    <3>4. QED
      BY <3>1, <3>2, <3>3
  <2>7. CASE DoResp_Close(t)
    <3>1. /\ fd[arg[t]] = t /\ sock[t] = "open" /\ client # arg[t]
          /\ thread' = [thread EXCEPT ![t] = "test"]
          /\ sock' = [sock EXCEPT ![t] = "closed"]
          /\ fd' = [fd EXCEPT ![arg[t]] = None]
          /\ UNCHANGED <<g_status, client, server_pc, answers>>
      BY <2>2, <2>7 DEF DoResp_Close, TcpClient_Del, CloseFd, Holds
    <3>2. Phase(t) \in {"admitted", "answered"}
      BY <2>1, <3>1, PhaseOf
    <3>3. Phase(t)' = "over"
      BY <1>0, <3>1 DEF Phase
    <3>4. \A d \in Clients \ {t} : Phase(d)' = Phase(d)
      BY <1>0, <3>1, PhaseKept DEF Deciding
    <3>5. Gated!Move(t, "admitted", "over") \/ Gated!Move(t, "answered", "over")
      BY <3>1, <3>2, <3>3, <3>4, MoveOfOne
    <3>6. QED
      BY <3>5 DEF Gated!Next, Gated!Finish
  <2>8. QED
    BY <1>10, <2>4, <2>5, <2>6, <2>7 DEF Process_Thread
<1>11. ASSUME NEW c \in Clients, Peer(c) PROVE [Gated!Next]_Gated!vars
  <2>1. CASE Peer_Connect(c)
    <3>1. /\ sock[c] = "none" /\ sock' = [sock EXCEPT ![c] = "queued"]
          /\ UNCHANGED <<g_status, client, server_pc, fd, thread, answers>>
      BY <1>11, <2>1 DEF Peer, Peer_Connect
    <3>2. Phase(c) = "absent" /\ Phase(c)' = "waiting"
      BY <1>0, <3>1 DEF Phase
    <3>3. \A d \in Clients \ {c} : Phase(d)' = Phase(d)
      BY <1>0, <3>1, PhaseKept DEF Deciding
    <3>4. Gated!Move(c, "absent", "waiting")
      BY <3>1, <3>2, <3>3, MoveOfOne
    <3>5. QED
      BY <3>4 DEF Gated!Next, Gated!Arrive
  <2>2. CASE Peer_Send(c) \/ Peer_Leave(c)
    BY <1>2, <1>11, <2>2 DEF Peer, Peer_Send, Peer_Leave
  <2>3. QED
    BY <1>11, <2>1, <2>2 DEF Peer
<1>12. CASE UNCHANGED vars
  BY <1>2, <1>12 DEF vars
<1>13. QED
  BY <1>4, <1>5, <1>6, <1>7, <1>8, <1>9, <1>10, <1>11, <1>12
     DEF Next, Server_Thread

(* Every behaviour of the file server is one of the gate. *)
THEOREM FileServerRefinesGate == Spec => ImplementsGatedService
BY InitRefines, StepRefines, SimulationInvariant, PTL
   DEF Spec, ImplementsGatedService, Gated!Spec
=============================================================================
