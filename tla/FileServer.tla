----------------------------- MODULE FileServer -----------------------------
(***************************************************************************)
(* The running file server: main.c with the parts of tcp_server.c,         *)
(* tcp_client.c and msg_parser.c that it calls.                            *)
(*                                                                         *)
(* Three kinds of thread share memory without any lock: the console (the   *)
(* main thread, which reads commands and writes g_status), one             *)
(* Server_Thread (accepts, reads g_status, creates or drops) and one       *)
(* Process_Thread per admitted connection (waits for the request, answers, *)
(* frees its TcpClient and then reads it once more).  The peers and the    *)
(* kernel are the environment.                                             *)
(*                                                                         *)
(* A step of the model is what a thread does between two accesses to       *)
(* something another thread or a peer can change.  RequestHandler is one   *)
(* step here.                                                              *)
(***************************************************************************)
EXTENDS Naturals, FiniteSets, Sequences

CONSTANTS
    Clients,   \* connections peers may open; also names the thread of each
    Chunks,    \* heap chunks of the size of a Client (tcp_client.c:12-17)
    Segments,  \* TCP segments in which a peer's request arrives
    MaxFd,     \* sockets the process may hold (RLIMIT_NOFILE)
    Faults,    \* calls that may fail: "malloc", "bind", "listen", "pthread"
    None       \* NULL, and the descriptor -1

ASSUME FileServerAssumption ==
    /\ Segments \in Nat \ {0}
    /\ MaxFd \in Nat
    /\ IsFiniteSet(Clients)
    /\ Faults \subseteq {"malloc", "bind", "listen", "pthread"}
    /\ None \notin Clients \cup Chunks

VARIABLES
    g_status,  \* main.c:25
    console,   \* how far Start_Handler is: "prompt" when no command runs
    process,   \* "up", "exited" (exit(0)) or "killed" (a signal)
    port,      \* port 9000: "free", "bound" or "listening"
    leaked,    \* sockets left behind by starts whose bind failed
    server_pc, \* where Server_Thread is; "none" before it exists
    client,    \* Server_Thread's local variable: the chunk or None
    heap,      \* heap[h]: "arena" (free), "live", or "cached" (freed, kept in
               \*   the cache of the freeing thread until that thread ends)
    fd,        \* fd[h]: the fd field of the Client stored in chunk h
    queue,     \* the kernel's accept queue
    sock,      \* sock[c]: our end: "none", "queued", "open", "closed"
    peer,      \* peer[c]: "idle", "open", "fin" (shut down) or "rst" (reset)
    sent,      \* sent[c]: segments of the request that have arrived
    got,       \* got[c]: segments that the program has read
    thread,    \* where the Process_Thread of connection c is; "failed" when
               \*   it could not be created
    arg,       \* arg[c]: the chunk that thread was created with
    answers,   \* history: responses sent on connection c
    late       \* history: threads created since the last Pause_Handler

netVars == <<queue, sock, peer, sent, got>>
heapVars == <<heap, fd>>
serverVars == <<server_pc, client>>
threadVars == <<thread, arg, answers>>
consoleVars == <<g_status, console, port, leaked>>
vars == <<consoleVars, process, serverVars, heapVars, netVars, threadVars, late>>

Faulty(call) == call \in Faults
Listening == port = "listening"
Open == {c \in Clients : sock[c] = "open"}
Descriptors == Cardinality(Open) + leaked + (IF port = "free" THEN 0 ELSE 1)

(* Mutant: a half-closed connection counts as established. *)
TcpClient_IsValid_HalfClosed(h) ==
    fd[h] # None /\ sock[fd[h]] = "open" /\ peer[fd[h]] \in {"open", "fin"}

(* TcpClient_IsValid: TCP_INFO says ESTABLISHED.  On a freed chunk the fd
   field holds what the allocator put there, which is no socket (None), or the
   next owner. *)
TcpClient_IsValid(h) ==
    /\ fd[h] # None
    /\ sock[fd[h]] = "open"
    /\ peer[fd[h]] = "open"

(* TcpClient_Available > 0.  Data that arrived before a FIN or a RST can
   still be read. *)
TcpClient_Available(h) == fd[h] # None /\ got[fd[h]] < sent[fd[h]]
-----------------------------------------------------------------------------
(* Mutant: whatever is not in use is handed out. *)
Malloc_AnyFree(h) == heap[h] # "live"

(* malloc in TcpClient_From, called by Server_Thread only.  A chunk in the
   cache of another live thread is not handed out. *)
Malloc(h) == heap[h] = "arena"

(* close() in TcpClient_Close, at most once for each descriptor. *)
CloseFd(c) == sock' = [sock EXCEPT ![c] = "closed"]

(* TcpClient_Del: close, fd = -1, free.  to is the fate of the chunk: back in
   the caller's own reach or held by the cache of a thread. *)
TcpClient_Del(h, to) ==
    /\ CloseFd(fd[h])
    /\ fd' = [fd EXCEPT ![h] = None]
    /\ heap' = [heap EXCEPT ![h] = to]
-----------------------------------------------------------------------------
(* The console *)

(* TcpServer_New and TcpServer_Start.  A call that fails leaves what the calls
   before it have made: the socket is not closed, the port not given back. *)
TcpServer_Start ==
    \/ /\ port = "free" /\ Descriptors < MaxFd
       /\ port' = "listening" /\ console' = "opened"
       /\ UNCHANGED <<leaked, process>>
    \/ /\ Descriptors >= MaxFd                               \* socket() fails
       /\ console' = "failed"
       /\ UNCHANGED <<port, leaked, process>>
    \/ /\ Descriptors < MaxFd                                \* bind() fails
       /\ port # "free" \/ Faulty("bind")
       /\ leaked' = leaked + 1 /\ console' = "failed"
       /\ UNCHANGED <<port, process>>
    \/ /\ Descriptors < MaxFd                                \* listen() fails
       /\ port = "free" /\ Faulty("listen")
       /\ port' = "bound" /\ console' = "failed"
       /\ UNCHANGED <<leaked, process>>
    \/ /\ Faulty("malloc")                \* New is NULL, Start reads s->valid
       /\ process' = "killed"
       /\ UNCHANGED <<port, leaked, console>>

(* Start_Handler, part 1. *)
Start_Open ==
    /\ console = "prompt" /\ g_status = "STOP"
    /\ TcpServer_Start
    /\ UNCHANGED <<g_status, serverVars, heapVars, netVars, threadVars, late>>

(* Start_Handler, part 2: pthread_create of Server_Thread. *)
Start_Thread ==
    /\ console = "opened"
    /\ \/ console' = "created" /\ server_pc' = "accept"
       \/ Faulty("pthread") /\ console' = "failed" /\ UNCHANGED server_pc
    /\ UNCHANGED <<g_status, process, port, leaked, client, heapVars, netVars,
                   threadVars, late>>

(* Mutant: err is not looked at. *)
Start_Finish_IgnoresErr ==
    /\ console \in {"created", "failed"}
    /\ g_status' = "RUN" /\ console' = "prompt" /\ late' = 0
    /\ UNCHANGED <<process, port, leaked, serverVars, heapVars, netVars,
                   threadVars>>

(* Start_Handler, part 3: the status is written after the thread runs. *)
Start_Finish ==
    /\ console \in {"created", "failed"}
    /\ g_status' = IF console = "created" THEN "RUN" ELSE "STOP"
    /\ console' = "prompt"
    /\ late' = 0
    /\ UNCHANGED <<process, port, leaked, serverVars, heapVars, netVars,
                   threadVars>>

(* Start_Handler when the server exists: resume. *)
Start_Resume ==
    /\ console = "prompt" /\ g_status # "STOP"
    /\ g_status' = "RUN"
    /\ late' = 0
    /\ UNCHANGED <<console, process, port, leaked, serverVars, heapVars,
                   netVars, threadVars>>

Pause_Handler ==
    /\ console = "prompt" /\ g_status = "RUN"
    /\ g_status' = "PAUSE"
    /\ late' = 0
    /\ UNCHANGED <<console, process, port, leaked, serverVars, heapVars,
                   netVars, threadVars>>

Exit_Handler ==
    /\ console = "prompt"
    /\ process' = "exited"
    /\ UNCHANGED <<consoleVars, serverVars, heapVars, netVars, threadVars, late>>

Console == Start_Thread \/ Start_Finish
Commands == Start_Open \/ Start_Resume \/ Pause_Handler \/ Exit_Handler
-----------------------------------------------------------------------------
(* Server_Thread *)

(* TcpServer_Accept.  At the descriptor limit accept returns -1 and the loop
   comes back to it with nothing changed: no step of the model. *)
Server_Thread_Accept ==
    /\ server_pc = "accept" /\ queue # <<>> /\ Descriptors < MaxFd
    /\ queue' = Tail(queue)
    /\ \/ \E h \in Chunks :
             /\ Malloc(h)
             /\ heap' = [heap EXCEPT ![h] = "live"]
             /\ fd' = [fd EXCEPT ![h] = Head(queue)]
             /\ client' = h
             /\ sock' = [sock EXCEPT ![Head(queue)] = "open"]
             /\ server_pc' = "decide"
       \/ /\ Faulty("malloc")              \* TcpClient_From is NULL: close(fd)
          /\ CloseFd(Head(queue))
          /\ UNCHANGED <<heapVars, serverVars>>
    /\ UNCHANGED <<consoleVars, process, peer, sent, got, threadVars, late>>

(* Mutant: the status is not consulted. *)
Server_Thread_Decide_Always ==
    /\ server_pc = "decide" /\ server_pc' = "admit"
    /\ UNCHANGED <<consoleVars, process, client, heapVars, netVars, threadVars,
                   late>>

(* g_status is read once, before pthread_create. *)
Server_Thread_Decide ==
    /\ server_pc = "decide"
    /\ server_pc' = IF g_status # "PAUSE" THEN "admit" ELSE "drop"
    /\ UNCHANGED <<consoleVars, process, client, heapVars, netVars, threadVars,
                   late>>

(* pthread_create of Process_Thread; its result is not looked at. *)
Server_Thread_Admit ==
    /\ server_pc = "admit"
    /\ \/ /\ thread' = [thread EXCEPT ![fd[client]] = "test"]
          /\ arg' = [arg EXCEPT ![fd[client]] = client]
          /\ late' = IF g_status = "PAUSE" THEN late + 1 ELSE late
       \/ /\ Faulty("pthread")
          /\ thread' = [thread EXCEPT ![fd[client]] = "failed"]
          /\ UNCHANGED <<arg, late>>
    /\ client' = None
    /\ server_pc' = "accept"
    /\ UNCHANGED <<consoleVars, process, heapVars, netVars, answers>>

(* Mutant: a refused client is forgotten. *)
Server_Thread_Drop_Forgets ==
    /\ server_pc = "drop" /\ server_pc' = "accept" /\ client' = None
    /\ UNCHANGED <<consoleVars, process, heapVars, netVars, threadVars, late>>

Server_Thread_Drop ==
    /\ server_pc = "drop"
    /\ TcpClient_Del(client, "arena")
    /\ client' = None
    /\ server_pc' = "accept"
    /\ UNCHANGED <<consoleVars, process, queue, peer, sent, got, threadVars, late>>

Server_Thread ==
    \/ Server_Thread_Accept \/ Server_Thread_Decide
    \/ Server_Thread_Admit \/ Server_Thread_Drop
-----------------------------------------------------------------------------
(* Process_Thread t, working on the chunk arg[t] *)

(* The loop condition.  After DoResp has freed the client it is evaluated on
   the freed chunk.  A thread that ends gives its cache back to the arena. *)
Process_Thread_Test(t) ==
    /\ thread[t] = "test"
    /\ IF TcpClient_IsValid(arg[t])
       THEN /\ thread' = [thread EXCEPT ![t] = "look"]
            /\ UNCHANGED heap
       ELSE /\ thread' = [thread EXCEPT ![t] = "done"]
            /\ heap' = [heap EXCEPT ![arg[t]] =
                           IF @ = "cached" THEN "arena" ELSE @]
    /\ UNCHANGED <<consoleVars, process, serverVars, fd, netVars, arg, answers,
                   late>>

(* DoResp up to sscanf: what has arrived by now is taken for the request.
   Without memory for it the client is deleted unanswered. *)
DoResp_Read(t) ==
    /\ thread[t] = "look"
    /\ \/ /\ TcpClient_Available(arg[t])
          /\ got' = [got EXCEPT ![fd[arg[t]]] = sent[fd[arg[t]]]]
          /\ thread' = [thread EXCEPT ![t] = "handle"]
       \/ /\ TcpClient_Available(arg[t]) /\ Faulty("malloc")
          /\ thread' = [thread EXCEPT ![t] = "close"]
          /\ UNCHANGED got
       \/ /\ ~TcpClient_Available(arg[t])
          /\ thread' = [thread EXCEPT ![t] = "test"]
          /\ UNCHANGED got
    /\ UNCHANGED <<consoleVars, process, serverVars, heapVars, queue, sock, peer,
                   sent, arg, answers, late>>

(* RequestHandler: it may send a response, or nothing (the file cannot be
   opened, no memory, the peer reset the connection).  Sending to a peer that
   has gone can raise SIGPIPE, which nothing catches. *)
DoResp_Handle(t) ==
    LET c == fd[arg[t]] IN
    /\ thread[t] = "handle"
    /\ \/ /\ peer[c] \in {"open", "fin"}
          /\ answers' = [answers EXCEPT ![c] = @ + 1]
          /\ UNCHANGED process
       \/ UNCHANGED <<answers, process>>
       \/ /\ peer[c] \in {"fin", "rst"}
          /\ process' = "killed"
          /\ UNCHANGED answers
    /\ thread' = [thread EXCEPT ![t] = "close"]
    /\ UNCHANGED <<consoleVars, serverVars, heapVars, netVars, arg, late>>

(* Mutant: the client is kept for another request. *)
DoResp_Close_KeepsClient(t) ==
    /\ thread[t] = "close"
    /\ thread' = [thread EXCEPT ![t] = "test"]
    /\ UNCHANGED <<consoleVars, process, serverVars, heapVars, netVars, arg,
                   answers, late>>

DoResp_Close(t) ==
    /\ thread[t] = "close"
    /\ TcpClient_Del(arg[t], "cached")
    /\ thread' = [thread EXCEPT ![t] = "test"]
    /\ UNCHANGED <<consoleVars, process, serverVars, queue, peer, sent, got, arg,
                   answers, late>>

Process_Thread(t) ==
    Process_Thread_Test(t) \/ DoResp_Read(t) \/ DoResp_Handle(t) \/ DoResp_Close(t)
-----------------------------------------------------------------------------
(* The peers.  What they do to a connection we have closed is not seen. *)

Peer_Connect(c) ==
    /\ Listening /\ sock[c] = "none"
    /\ sock' = [sock EXCEPT ![c] = "queued"]
    /\ peer' = [peer EXCEPT ![c] = "open"]
    /\ queue' = Append(queue, c)
    /\ UNCHANGED <<sent, got>>

Peer_Send(c) ==
    /\ sock[c] \in {"queued", "open"} /\ peer[c] = "open" /\ sent[c] < Segments
    /\ sent' = [sent EXCEPT ![c] = @ + 1]
    /\ UNCHANGED <<queue, sock, peer, got>>

Peer_Leave(c) ==
    /\ sock[c] \in {"queued", "open"} /\ peer[c] \in {"open", "fin"}
    /\ \E how \in {"fin", "rst"} \ {peer[c]} : peer' = [peer EXCEPT ![c] = how]
    /\ UNCHANGED <<queue, sock, sent, got>>

Peer(c) ==
    /\ Peer_Connect(c) \/ Peer_Send(c) \/ Peer_Leave(c)
    /\ UNCHANGED <<consoleVars, process, serverVars, heapVars, threadVars, late>>
-----------------------------------------------------------------------------
Init ==
    /\ g_status = "STOP" /\ console = "prompt" /\ process = "up"
    /\ port = "free" /\ leaked = 0
    /\ server_pc = "none" /\ client = None
    /\ heap = [h \in Chunks |-> "arena"]
    /\ fd = [h \in Chunks |-> None]
    /\ queue = <<>>
    /\ sock = [c \in Clients |-> "none"]
    /\ peer = [c \in Clients |-> "idle"]
    /\ sent = [c \in Clients |-> 0]
    /\ got = [c \in Clients |-> 0]
    /\ thread = [c \in Clients |-> "none"]
    /\ arg = [c \in Clients |-> None]
    /\ answers = [c \in Clients |-> 0]
    /\ late = 0

(* Every thread stops with the process. *)
Next ==
    /\ process = "up"
    /\ \/ Console \/ Commands \/ Server_Thread
       \/ \E c \in Clients : Process_Thread(c) \/ Peer(c)

(* The threads of the program are scheduled; the operator and the peers owe
   nobody anything. *)
Fairness ==
    /\ WF_vars(process = "up" /\ Console)
    /\ WF_vars(process = "up" /\ Server_Thread)
    /\ \A t \in Clients : WF_vars(process = "up" /\ Process_Thread(t))

Spec == Init /\ [][Next]_vars
FairSpec == Spec /\ Fairness
-----------------------------------------------------------------------------
ThreadStates == {"none", "failed", "test", "look", "handle", "close", "done"}

TypeOK ==
    /\ g_status \in {"STOP", "RUN", "PAUSE"}
    /\ console \in {"prompt", "opened", "created", "failed"}
    /\ process \in {"up", "exited", "killed"}
    /\ port \in {"free", "bound", "listening"}
    /\ leaked \in Nat
    /\ server_pc \in {"none", "accept", "decide", "admit", "drop"}
    /\ client \in Chunks \cup {None}
    /\ heap \in [Chunks -> {"arena", "live", "cached"}]
    /\ fd \in [Chunks -> Clients \cup {None}]
    /\ queue \in Seq(Clients)
    /\ sock \in [Clients -> {"none", "queued", "open", "closed"}]
    /\ peer \in [Clients -> {"idle", "open", "fin", "rst"}]
    /\ sent \in [Clients -> 0..Segments]
    /\ got \in [Clients -> 0..Segments]
    /\ thread \in [Clients -> ThreadStates]
    /\ arg \in [Clients -> Chunks \cup {None}]
    /\ answers \in [Clients -> Nat]
    /\ late \in Nat

Running(t) == thread[t] \in {"test", "look", "handle", "close"}

(* A TcpClient is never used by two threads (main.c:54-62, 68-79): of the
   threads that still run, each has a chunk to itself, that chunk refers to the
   connection the thread was created for or, once freed, to none at all, and
   Server_Thread's client is no thread's chunk. *)
HandleOwnership ==
    /\ \A t \in Clients : Running(t) => fd[arg[t]] \in {t, None}
    /\ \A t, u \in Clients :
          Running(t) /\ Running(u) /\ arg[t] = arg[u] => t = u
    /\ client # None => \A t \in Clients : Running(t) => arg[t] # client

(* A peer's request is answered at most once, and only after some of it was
   read, however the thread re-enters its loop (main.c:56-59). *)
AnsweredOnce ==
    \A c \in Clients : answers[c] <= 1 /\ (answers[c] = 1 => got[c] > 0)

(* What g_status says is true (main.c:25, 91-118): whenever it is not STOP the
   port is listening and Server_Thread runs; and while Server_Thread runs the
   status is STOP only between pthread_create and the end of Start_Handler. *)
StatusTruthful ==
    /\ g_status # "STOP" => Listening /\ server_pc # "none"
    /\ server_pc # "none" => g_status # "STOP" \/ console = "created"

(* A connection that no thread will touch again is still held open only for
   one of two reasons: its peer went away before the thread saw a request
   (main.c:56), or pthread_create failed (main.c:74). *)
Abandoned(c) ==
    /\ sock[c] = "open" /\ ~Running(c)
    /\ client = None \/ fd[client] # c
AbandonedOnlyWhenPeerLeft ==
    \A c \in Clients :
        Abandoned(c) => peer[c] \in {"fin", "rst"} \/ thread[c] = "failed"

(* After "Server is paused!" at most one more connection is served, the one
   for which g_status had been read already (main.c:70-74, 123-130). *)
PauseLetsOneThrough == late <= 1

(* When Start_Handler fails with the port bound, it stays failed: the socket
   is never closed, so no later start can bind (main.c:93-118). *)
FailedStart == port # "free" /\ server_pc = "none" /\ console = "failed"
FailedStartIsFinal == [](FailedStart => [](g_status = "STOP"))

(* A connection with a request on it does not wait for ever: once
   Server_Thread runs, it is closed (answered, or refused while paused)
   unless the peer leaves or the process ends. *)
EveryRequestIsSettled ==
    \A c \in Clients :
        (sock[c] \in {"queued", "open"} /\ sent[c] > 0 /\ server_pc # "none")
            ~> (sock[c] = "closed" \/ peer[c] # "open" \/ process # "up")

(* A Process_Thread does not outlive its connection (main.c:56). *)
ThreadsEnd ==
    \A t \in Clients :
        (Running(t) /\ peer[t] \in {"fin", "rst"})
            ~> (thread[t] = "done" \/ process # "up")
-----------------------------------------------------------------------------
(* The promise of GatedService, and how it is kept. *)
Deciding(c) == client # None /\ fd[client] = c

PhaseOfDecision ==
    CASE server_pc = "decide" -> "waiting"
      [] server_pc = "admit" -> "chosen"
      [] OTHER -> "refused"

PhaseOfThread(c) ==
    CASE thread[c] = "failed" -> "lost"
      [] thread[c] # "failed" /\ answers[c] = 0 -> "admitted"
      [] OTHER -> "answered"

Phase(c) ==
    CASE sock[c] = "none" -> "absent"
      [] sock[c] = "queued" -> "waiting"
      [] sock[c] = "open" /\ Deciding(c) -> PhaseOfDecision
      [] sock[c] = "open" /\ ~Deciding(c) -> PhaseOfThread(c)
      [] OTHER -> IF thread[c] = "none" THEN "refused" ELSE "over"

Gated == INSTANCE GatedService
            WITH gate <- g_status, phase <- [c \in Clients |-> Phase(c)],
                 MayRefuse <- Faulty("malloc"), MayLose <- Faulty("pthread")

(* FileServer implements GatedService. *)
ImplementsGatedService == Gated!Spec
=============================================================================
