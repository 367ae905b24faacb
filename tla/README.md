# Verification of the file server

This directory holds TLA+ models of the file server in this repository
(`main.c` and the components it is built from), TLC configurations that check
them on small instances, and theorems that TLAPS proves for every instance.
`PROJECT.json` lists the components, the runs, the theorems, the lines of code
behind every definition and, for every property, a mutation of the model that
the run finds out.

To check a run: `tlc -config EventLoop.cfg MCEventLoop.tla`.
To check the proofs of a module: `tlapm FileServerProofs.tla`.

## 1. Inventory

The program is a console (`main.c`) that starts a TCP server on port 9000; every
accepted connection gets a thread that reads one HTTP request, answers it with a
directory page, an error page or a file, and closes. Beside it, the repository
carries a message protocol (a header with a length, then the payload) with a
parser that works over TCP and over UDP, and a select-based event loop, neither
of which the console uses.

| Component | State it keeps | Operations | Interacts with |
|---|---|---|---|
| Console and threads, `main.c` | `g_status` (STOP, RUN, PAUSE), the threads | Run (the command line); start, pause, exit; the accept loop; a loop for each connection | Utilities, TcpServer, TcpClient, RequestHandler; the threads share `g_status` and the heap without a lock |
| TcpServer, `tcp_server.c` | listening socket, `valid`, a table of clients by descriptor, a listener | New, Start, Accept, Stop, Del; DoWork and SelectHandler (the event loop) | kernel, TcpClient, the listener (callback) |
| TcpClient, `tcp_client.c` | socket, parser | From, Connect, Close, Del, IsValid, Available, SendMsg, RecvMsg, SendRaw, RecvRaw | kernel, parser |
| Protocol parser, `msg_parser.c` | `cache`, `header`, `need`, the half-built message | ReadFd, ReadMem, Reset | TcpClient, UdpPoint |
| Message, `message.c` | none | New, Size, N2H, H2N | parser |
| UDP end point, `udp_point.c` | socket, one parser for all remotes | SendMsg, RecvMsg and the raw calls | kernel, parser |
| Request handling, `response.c` | none of its own: it reads the file system | RequestHandler and its three kinds of answer | file system, TcpClient, `page.c` |
| Page building, `page.c` | none | builds HTML | `response.c` |
| Utilities, `utility.c` | none | Malloc2d, Free2d, FormatByChar, DivideByChar, CharCount | console |
| Demonstrations, `basic_material/` | stand-alone programs | - | not used by the server |

### What is hard, and what makes each component correct

* **Console and threads.** Three kinds of thread with no lock. `g_status` is
  tested before `pthread_create` (`main.c:70`) and written after it
  (`main.c:101-118`); `DoResp` frees the TcpClient that the loop condition of its
  caller reads once more (`main.c:51`, `56`); failing starts leave their socket
  behind; peers leave at any time and a late send raises SIGPIPE. Correct means:
  no TcpClient is used by two threads, no request is answered twice, the status is
  truthful, a pause holds the gate, connections are closed and threads end.
* **Event loop.** A callback may close any client, or the whole server, in the
  middle of a pass over a descriptor set copied before; descriptors are handed out
  again by the next `accept`, in the same pass even; memory and descriptors run
  out. Correct means: a listener hears the events of a connection in their order,
  the client at a descriptor is that descriptor's own, descriptors are closed with
  their clients, and no client drops out of the set.
* **Message stream.** A read stops anywhere in header or payload; the call may be
  given up and made again; the connection is replaced in the middle of a message;
  the length is wider than the counter it goes into and than the size computed from
  it; the peer may be another program and send anything. Correct means: no read goes
  beyond its buffer, a connection that carries whole messages never leads to a write
  beyond a block, and what comes out of it is what was sent, whole, in order and
  once.
* **Request handling.** Nothing is locked while a directory is scanned twice and a
  file is announced, read and sent in parts; calls fail in between, also on files
  that are there. Correct means: an undisturbed request gets its whole answer, or the
  one that the refused call leaves it, a disturbed file is not reported as delivered,
  and every request ends.
* **UDP end point.** The datagrams of all remotes pass through one parser, in any
  order; a datagram may be cut, hold a part of a message, or a length that no int
  holds. Correct means: copies stay in bounds as long as the length is one, only
  messages that came in parts are mixed up, and the parser finds back to the start
  of a datagram.
* **Command line.** Input comes in any pieces; a line may be empty, of blanks,
  longer than the buffer, without an end or with a NUL in it; memory runs out. Correct
  means: the
  commands typed are executed, once and in order, and nothing else.
* **String functions.** Loops that step back, that cut what does not fit and that
  read one character more than there is. Correct means: writes stay in bounds and
  a line becomes its words.
* **Order of a page.** Two scans of a directory into an array that grows, and a
  sort in place. Correct means: each entry has one row, in order.
* **Descriptors.** TcpServer, TcpClient and UdpPoint each know a descriptor by a
  number, which the kernel hands out again as soon as it is closed, and calls fail
  half way. Correct means: no number is used for what it no longer stands for, and
  none is forgotten.

The hazards are listed with their lines in `PROJECT.json`.

## 2. Modules

| Module | Models | Role |
|---|---|---|
| `FileServer` | `main.c` with what it calls of `tcp_server.c` and `tcp_client.c` | composition of console, Server_Thread, Process_Threads, heap, kernel and peers |
| `GatedService` | - | abstract: a gate and connections that pass it; `FileServer` implements it |
| `EventLoop` | `tcp_server.c`: Start, Stop, Del, SetListener, DoWork, SelectHandler | the loop, its kernel, peers and listener |
| `ConnectionLife` | - | abstract: what a listener hears of each connection; `EventLoop` implements it |
| `RequestHandler` | `response.c`, InsertRow of `page.c`, TcpClient_SendRaw | the step `DoResp_Handle` of `FileServer` in detail |
| `MsgParser` | the parser object of `msg_parser.c` | extended by `MessageStream` and `MessageDatagrams` |
| `MessageStream` | SendMsg, SendRaw, Connect, RecvMsg (MParser_ReadFd, ToRecv) and Close over TCP | parser, connection and both ends |
| `MessageDatagrams` | `UdpPoint_SendMsg`, `_SendRaw`, `_RecvMsg` and `MParser_ReadMem` | parser, socket and remotes |
| `MessageChannel` | - | abstract: a sequence of whole messages; `MessageStream` implements it |
| `Endpoints` | making, opening, closing and deleting in `tcp_server.c`, `tcp_client.c`, `udp_point.c` | who holds which descriptor, in any sequence of calls |
| `DirectoryPage` | GetEntry, SortFileEntry, MakeHTML of `response.c` with the table of `page.c` | the scans of `RequestHandler` in detail, in a directory that stays as it is |
| `Words` | - | texts and their words: what `Fields` and `Console` are compared with |
| `Fields` | `utility.c`: FormatByChar, DivideByChar, CharCount and the array of Malloc2d | the string functions, one round of a loop a step |
| `Console` | `main.c`: Run | the command line, on top of what `Fields` shows |
| `MC...` | - | values of the constants for TLC |
| `CommandLineProofs` | - | theorems and proofs about `Fields` and `Console`, which rest on the same lemmas about words |
| `...Proofs` | - | theorems and proofs about the module they are named after |

Definitions have the names of the functions they model, with a suffix when a
function takes several steps (`Server_Thread_Decide`). A definition marked
"Mutant" in its comment is not part of the model: it is a plausible mistake that
`PROJECT.json` puts in the place of the definition after it.

### FileServer

A step is what a thread does between two accesses to something another thread
or a peer can change. `server_pc` and `thread[c]` say where the threads are;
`client` and `arg` are the pointers they hold; `heap` and `fd` are the
TcpClients those point to; `queue`, `sock`, `peer`, `sent` and `got` are the
kernel and the peers; `answers` and `late` are history. `Start_Handler` takes
three steps, since the status is written after `pthread_create`: the new thread
may run before it.

One assumption is about the allocator. After `free` in `DoResp` the memory is
read again; the model keeps the chunk "cached" until the thread ends, as glibc
does (its per-thread cache keeps a chunk of this size, and only the freeing
thread gets it back). glibc keeps its own link in the place of the field `fd`,
zero or a piece of an address, which is taken to be no socket. `HandleOwnership`
shows what this gives: the read finds that and not another thread's TcpClient. The mutant `Malloc_AnyFree` is an
allocator without that habit, under which the property fails.

### EventLoop

`table` is the kernel's table of descriptors, of which the lowest free one is
handed out; `client`, `fd`, `valid`, `cb` are the Server object; `reads`, `max`
the locals of DoWork; `rset`, `index`, `event` those of SelectHandler, `rset`
being the descriptors of this pass still to look at. A pass visits them in order,
one action for each, and the listener is called in between (`pc = "callback"`).
The listener may do nothing, read, close any client, or stop the server. Where
`accept` fails the code indexes `client[-1]`, which is the listener's address
taken for a TcpClient: `pc = "crashed"`.

`ConnectionLife` is what all this comes to for the listener: connections are taken
in the order they came; of each it hears EVT_CONN, then EVT_CLOSE at most once, and
that only when the peer has left or the listener itself has closed the client. Its
`served` and `closed` are the open and the closed TcpClients, its `line` is `queue`,
its `heard` is `told`. Each of its alternatives is one the code takes: without the
one in which taking a connection displaces a closed client, for instance, the run
fails, since `accept` may return the index of a client the listener closed, whose
EVT_CLOSE is then never told.

### RequestHandler

`kind`, `entries` and `size` are the path, the directory and the file, which
`Fs_Change` alters between any two steps. Data is abstract: a page is a set of
rows, a file a length. `Send` follows Linux: a reset gives its error to the next
send, and the one after raises SIGPIPE, as does a send after the peer closed and
answered with a reset. `Refused` is a call that the system refuses on what is there
(`access`, `opendir`, `stat`, `open`, `read`: no permission, no descriptor to spare,
a medium that cannot be read); where it leads is the code's own branch: to the error
page from `access`, to the file handler from the first `opendir` or `stat`, to no
answer of any kind from `open` (`response.c:328`). `refused` remembers where that
happened; `starved`, `left`, `answer` and `body` are history, too.
Symbolic links and other entries that are neither folder nor file are "none": the
scans leave them out.

### MessageStream and MsgParser

The stream is the concatenation of the pieces `sent`, each put there by one
`send()`; a position is a piece and an offset in it. A read of n bytes is n steps, so
that a call may be interrupted after each. Pieces come from two senders.
`TcpClient_SendMsg` asks for `Message_Size` bytes, which is the sum of header and
length taken into an int (`message.c:33`): for the largest lengths a few bytes go out,
or `send()` is given a negative size, which is more than any memory and which it
refuses or answers with what it can read (`Accepted`). `TcpClient_SendRaw` stands for
the raw interface and for any other program at the other end: pieces of any of
`RawSizes` bytes, whose length field, if they have one, is any of `RawLengths`.

`Decodes` gives a header the length field of the piece it began, if its bytes are those
of one piece's beginning, and any of `RawLengths` otherwise: this is where a parser out
of frame may go anywhere. `ToInt` wraps as the assignments to `need` and of
`Message_Size` do. `InFrame` is what the promises about a connection rest on: it carried
only whole messages (`whole`), the parser began on it in its initial state and gave up
no message for want of memory (`framed`).

The header is copied into the block before anything asks for its size
(`msg_parser.c:36`). For a length field that wraps to -`HeaderSize`..-1 malloc grants
a block smaller than a header, so this copy passes its end (`HeaderFits` is false).
What that does is undefined: the bytes may fall into what malloc rounded up, and
the parser goes on (over TCP it then reads nothing and returns nothing until Close),
or the program may come down at that or any later time, which is the step
`Overrun_Damage` to `pc = "undefined"`, where nothing more happens.

### MessageDatagrams

A datagram is its sender, the length field in it and its size; `RecvMsg` takes
any datagram that was ever sent, which is loss, repetition and reordering at once.
`UdpPoint_SendMsg` sends `Message_Size` bytes, so that of a message with a wrapped
size only the first bytes go out; `UdpPoint_SendRaw`, and any other program, sends
any of `RawSizes` with any of `RawLengths`.
`ReadMem` takes two or three steps: the bytes of the header are copied, the
header is decoded, the bytes of the payload are copied. `fresh` remembers whether
the parser was in its initial state before the datagram. Unlike a TCP stream out
of frame, which may stay so, the parser drops the rest of a datagram whenever it
starts over, so it is in frame again at the next datagram
(`HeadersStartDatagrams`).

With a negative `need` the comparison at `msg_parser.c:138` is one of unsigned
numbers, so that the whole rest of each datagram is copied behind a block that has
no room for it. `need` then only falls; the model takes no more datagrams once it is
below `-MaxOverrun`, and may end in `Overrun_Damage` at any time before.

### Endpoints

`table` says who took each descriptor from the kernel, `fd` what number each
object knows: a number, -1, or NULL while there is no object. `Close` closes what
the number stands for now, whoever holds it; `stray` remembers that this was
somebody else. `careless` remembers objects that asked for a socket while they
had one. One thread is enough: the hazards here are sequences of legal calls. A
number may be anybody's by the time it is used, so `TcpServer_Accept` may accept
from somebody else's listener.

### DirectoryPage

A directory is the sequence that `readdir()` gives; names are numbers in the order
of `strcmp()`; a row is a name and a type. One pass of the loop in `GetEntry` is a
step, and so is each comparison and each swap of the sort. Memory may be missing
for the table, a row, the array, a path (of an entry that is kept) and the sort.

### Fields and Console

`Fields` keeps offsets as the code does, from 0. `Strlen` reads up to the first
zero, and the array is one block whose rows lie one behind the other, so that a
string too long for its row would show up in the next one. `Console` uses the
words of a line directly, since `Fields` shows that FormatByChar finds them. `TextOf`
is what the string functions see of what `fgets` has read, which ends at the first
NUL; `strlen(line) - 1` is the last character of that, which need not be the newline.
Where there is no such text the code writes in front of its array (`outside`): at the
end of the input, where `fgets` leaves the line empty and `Run` goes round for ever,
and where what was read begins with a NUL. `strcmp` with the NULL that
FormatByChar returns without memory ends the program: `"crashed"`.

## 3. Runs

| Run | Bounds | Shows |
|---|---|---|
| `server_safety` | 2 connections, 2 chunks, requests in 2 segments, 4 descriptors, every fault | `HandleOwnership`, `AnsweredOnce`, `StatusTruthful`, `AbandonedOnlyWhenPeerLeft`, `ImplementsGatedService`, `FailedStartIsFinal` |
| `server_live` | 1 segment, 3 descriptors, no faults, fair | `EveryRequestIsSettled`, `ThreadsEnd` |
| `event_loop` | 2 connections, 4 descriptors, two of them taken by others at first and given back at any time, 1 segment, any listener, no memory, fair | `ClientsMatchDescriptors`, `NobodyIsForgotten`, `CloseComesAfterData`, `StallsOnlyByClosing`, `ImplementsConnectionLife`, `EverythingIsTold` |
| `request` | 2 names, length up to 4, reads of 2, largest int 3, 2 changes, memory and calls fail anywhere, fair | `StableRequestIsAnswered`, `SuccessMeansDelivered`, `OneSendSurvivesReset`, `RequestEnds` |
| `stream_safety` | header of 2, largest int 3; messages of 1, 3 and 7, two of them too long for `Message_Size`; raw pieces of 2 and 3 that say 0, 5, 6 and 7; 2 pieces, malloc fails, no Close | `OnlyForeignHeadersOverrun`, `FramedMessagesAreIntact`, `NeedIsACountInFrame` |
| `stream_channel` | header of 2, largest int 7, whole messages only, 3 of them, Close before Connect, fair | `ClosedFirstStaysInFrame`, `ImplementsMessageChannel`, `EveryMessageComesOut` |
| `datagrams` | 2 remotes, 2 datagrams in any order and number, header of 2, buffer of 4, largest int 7, messages of 2, 4 and 5 and one of 17 of which a byte is sent, raw datagrams of 1 and 3 that say 2, 9, 14 and 15, malloc fails, 4 bytes beyond a block; up to 2 messages returned | `OnlyWrappedLengthsOverrun`, `OnlyPartsAreMixed`, `HeadersStartDatagrams`, `WholeDatagramsComeOut` |
| `datagrams_need` | as `datagrams`; a violation is expected | `NoMoreThanNeeded`, the finding below |
| `endpoints` | 3 descriptors, 2 clients, a server, a UDP point and the rest of the program, every call fails | `HandlesAreOwn`, `NothingIsForgotten`, `TwoWaysAstray` |
| `directory_page` | up to 3 entries of any type in any order, and 4 files; 2 rows at a time; memory fails anywhere | `RowsInMemory`, `PageIsTheDirectory`, `PageOnlyLosesRows` |
| `fields` | every line of up to 7 of 3 characters, 3 rows of 3 | `WritesInBounds`, `LinesBecomeWords`, `OnlyBlanksLeak` |
| `console` | every input of up to 5 of 4 characters, NUL among them, lines of 3, two commands, fair | `TypedCommandsRun`, `OutsideOnlyAtNul`, `EverythingIsRead` |

`StableRequestIsAnswered`, `ClientsMatchDescriptors` and `TypedCommandsRun` have
the type invariant of their module as a conjunct; the type invariants of the other
modules are proved.

Why the bounds are enough: each hazard needs two connections at most (one that
frees what the other takes, one whose descriptor the other gets); a third
descriptor number is the listening socket and a fourth lets a client lie above it
and the listening socket above a client; two segments let a request arrive in
parts; four units read in twos leave a file an end after a full buffer, and 4 is
above the largest int; two changes are enough for "there and back again"; a header
of two bytes can be split, and three messages let one be lost between two that are
not; the lengths of `stream_safety` and `datagrams` are one of each kind that the code
tells apart: a message that fits, one whose size wraps to less than a header, in
`stream_safety` one whose size is negative (`sendto()` refuses such a one), and fields
that make malloc fail, that leave a block of no byte and of one; four bytes beyond a
block are two more copies to it; two datagrams, each of which may come again, are a
cut message, what it swallows, and a whole message after it. In `endpoints` a
descriptor that is closed
by mistake needs its owner, its former owner and one that is kept. In
`directory_page` three rows are the least that a sort in place can get wrong in
the middle, and three rows in an array of two make it grow after it has grown. In
`fields` seven characters hold four words of one character, one more than there
are rows, and a word longer than a row between two others. In `console` five
characters are two lines, or one that is longer than the buffer and the rest of
it. `TcpServer_Stop` and `Exit_Handler` really end what is modelled, a request, a
page and a line end, and input ends: so deadlock is not checked there; it is in
`endpoints`.

### Fairness

Weak fairness is assumed only of threads of the program, which the operating
system schedules, and whose busy loops always come back to their tests: the
console inside a command, Server_Thread, each Process_Thread, the thread in
DoWork, the thread of a request, the console reading a line that is complete.
`event_loop` assumes in addition that the listener returns (what it does there is
open); `request` that `send()` does, which is true as long as the peer reads or
leaves; `stream_channel`, in which nobody sends raw bytes, that the user calls RecvMsg
again and that TCP delivers
what was sent while the connection is up. Operator, peers, other programs and
faults are never assumed to do anything. With failing calls and any listener,
what must happen is stated with the exceptions the code has: `EverythingIsTold`
ends with a loop that is stopped, crashed or made deaf, `EverythingIsRead` with
`exit` and with memory that is out.

### What the runs found

* `datagrams_need`: a length field above the largest int makes `need` negative
  (`msg_parser.c:30`). For the last `sizeof(Message)` values of the field malloc still
  succeeds, with a block smaller than a header, and the comparison of `need` with
  what is left of the datagram is one of unsigned numbers (`msg_parser.c:138`), so
  that all of it is copied behind that block. The comment at `msg_parser.c:13` says that
  `need` tells how many bytes are needed; the run shows bytes copied when none are.
  The header alone is already more than such a block (`msg_parser.c:36`), over TCP,
  too. `OnlyWrappedLengthsOverrun` and `OnlyForeignHeadersOverrun` say that nothing
  else leads to a write beyond a block.
* Facts the models contain, which contradict no text of the repository: a file
  that is there but cannot be opened gets no answer at all, not even the error page
  (`StableAnswer`), and a directory that cannot be opened is taken for a file; of a
  message within a header's size of `UINT_MAX` fewer bytes are sent than its header
  has, and the next message completes it; a request
  that arrives together with the peer's FIN may be dropped unanswered and its
  connection kept (`AbandonedOnlyWhenPeerLeft` says exactly when); a failed
  `pthread_create` of the server can only be mended by a restart
  (`FailedStartIsFinal`); a listener that closes a client itself makes the event
  loop spin in vain (`StallsOnlyByClosing`), and without memory for a TcpClient
  its connection stays open (`DescriptorsAreNotLost`); an `accept` that fails in
  the event loop crashes it; an empty file is reported as delivered even if its
  header was not; a peer that resets the connection in the middle of a file ends
  the whole process (`OneSendSurvivesReset` says that only this, or a peer that
  closed before, does).
* Also: `Stop` keeps its number, so that a second `Stop` or `Del` closes whatever
  has it by then, and `UdpPoint_New` without memory closes a number it never set:
  these two are the only ways to close what is somebody else's (`TwoWaysAstray`).
  A descriptor is forgotten only by an object that asks for a second one
  (`NothingIsForgotten`). Of a line with nothing but separators the copy is not
  freed (`OnlyBlanksLeak`). The command line writes in front of its array at the end
  of the input, and before that only where a line, or a piece of one that is too
  long, begins with a NUL (`OutsideOnlyAtNul`).

## 4. Proofs

All theorems hold for every value of the constants that the ASSUMEs admit: any
number of connections, chunks, descriptors and segments, any set of faults, any
header size and integer width, any number of messages and datagrams, any line,
array and directory.

**FileServer** (`FileServerProofs`). `TypeCorrect` is inductive by itself.
`StatusStep`, that only the operator and Server_Thread change the status, is what
the proofs about the status and the pause have in common.
`StatusInv` adds to `StatusTruthful` what `port` and `console` are while the
server starts; `FailedStartsAreFinal` follows from it, the state being closed
under every step. `LateInv` adds that a connection is counted late only if it was
chosen already, which is at most one. `OwnershipInv` is the core: where each
pointer of a thread leads (`ThreadInv`), where Server_Thread's leads and that it
is no thread's (`ServerInv`), and that a queued connection has neither thread nor
client and is queued once (`QueueInv`). None is inductive without the others: a
chunk is handed out because it is "arena", which no running thread's chunk is; a
thread gets it because Server_Thread alone held it. `HandleOwnership` follows,
and on top of it `AnswerInv` (an answer was given only by a thread beyond
"handle") gives `AnsweredOnce`, and `AbandonInv` gives
`AbandonedOnlyWhenPeerLeft`.

**FileServer implements GatedService** (`FileServerProofs`). The gate is
`g_status`, the phase of a connection is read off its socket, Server_Thread's
state and its thread's. Under `SimulationInv` (the invariants above together)
each step moves one connection from one phase to the next, or none.

**MessageStream** (`MessageStreamProofs`). No theorem about its safety assumes
anything about lengths, the raw sender or the peer. `ParserInv` relates `i`, `need`,
`header` and the message under construction for any bytes whatever, with a negative
`need` too; it gives the bounds of what is read. `PositionInv` says that both positions
lie in the stream. `WholeInv` says that everything still to be read is whole
messages, if the connection carries only those; it is needed because pieces of
other connections, which were not whole, are in `sent` too. `FrameInv` says, while in
frame, that `need` is a count and that the bytes the parser holds are exactly those of
the stream just before `unread`. With both, a header that is decoded in frame is that of
a whole message, whose length therefore fits an int (`HeaderDecodes`): this is what
makes the frame last, and it gives `NeedStaysACount`; a message that is complete is the
message that was sent (`MessagesAreIntact`); and a header that does not fit its block
was not read in frame (`WritesStayInBounds`). `HistoryInv` is about what has been
delivered.

**MessageStream implements MessageChannel** (`MessageStreamProofs`), when
the user closes before connecting, memory does not run out, nobody sends raw bytes
and the messages' sizes fit an int: these four are the hypotheses of
`StreamRefinesChannel`, and each is needed, since without it the connection leaves
frame or a message goes out in part. `FrameKeptInv` shows that the connection then
never leaves frame; the next message to come out is read off the parser's header, its
cache or the position, whichever holds the earliest byte.

**MessageDatagrams** (`MessageDatagramsProofs`), for any lengths and any datagrams.
`CallInv` says how far the call and the parser are: `need` is not above the length as an
int, and not negative where the length field fits one. `CopiesStayInBounds` follows, and
says that what does not fit is copied to a block of a wrapped length only. `HeaderInv`
says that the first byte of a header was the first of a datagram, and that a cache to
which only the datagram at hand has contributed holds that datagram's first bytes: it
gives `HeadersStart`. `PartInv` is the heart of `PartsOnly`: a message whose datagram
is whole is never waited for, its header is completed with its payload at hand, in the
same call. It is not inductive without `HeaderInv`, nor without saying that every first
byte is of a datagram already sent: one sent later must not match. A whole datagram's
length fits an int, because its size does, so wrapped lengths do not disturb it.
`FreshInv` gives `WholeOnesComeOut`.

**EventLoop** (`EventLoopProofs`). `LoopInv` is the type invariant and one part for
each relation that a callback or a reused descriptor could break: the listening
socket is where a valid server says and nowhere else, and only a valid server has
clients or a queue (`ServerInv`); what waits in the queue is new and stands there
once (`QueueInv`); an open client has its connection's descriptor, a closed one has
none, and no connection has two clients (`ClientInv`); what was told of each client
there is (`ToldInv`); `reads` and `max` reach the listening socket and every client,
and nothing else but connections there was no memory for, and while the listening
socket is still in `rset` the queue is not empty (`WatchInv`);
`CloseComesAfterData` (in `DataInv`) and `DescriptorsAreNotLost`. None stands alone:
EVT_CONN comes first because what is taken from the queue is new, which needs that
the descriptor it gets is no client's; the client that the next event is told to is
there because `reads` holds nothing else. All safety properties follow. The
proofs need that NULL is no TcpClient, which the assumption on the constants says.

**EventLoop implements ConnectionLife** (`EventLoopProofs`), under `LoopInv`. A step
of the loop takes the first of the queue, tells the end of one client, deletes one
or shuts everything, or does nothing that the listener could notice. `ClientInv` is
what makes these steps of one connection: since no connection has two clients,
deleting the client at an index removes exactly that connection from `served` or
`closed`, and since an open client has its own connection's descriptor, a free
descriptor's index holds no client or a closed one. `ToldInv` gives the state of the
listener's knowledge before each event, so that `Tell` never says "wrong".

**RequestHandler** (`RequestHandlerProofs`). `RequestInv` adds to the type invariant:
what has not begun before the answer (`EarlyInv`); that `left` remembers how the
peer left and only a send can meet a reset (`PeerInv`, which has
`OneSendSurvivesReset`); and three parts for the answer. `CountInv`: no more is sent
than was read, and `ret` is never above what was sent, although failed sends count
-1 and the sum may wrap, since wrapping only lowers it; so `ret = max` means that at
least `max` went out, which is `SuccessMeansDelivered`. `PathInv`, `ListInv` and
`WholeInv`, for a request nobody disturbs: the handler is where the kind of the path
and the calls refused so far take it (`RefusedInv` says where a call can have been
refused by then), the rows are those of the entries scanned so far, and what was read of the
file is what was sent and what is in the buffer. They give
`StableRequestIsAnswered`, for any size of file and buffer; that `ret` is then the
wrapped sum needs lemmas about the remainder (`ModUnique`, `WrapRange`, `WrapAdd`).

**Words, Fields and Console** (`CommandLineProofs`). The words of a text are
defined by their places, so first come lemmas about places: the ranks of a finite
set of numbers are 1, 2, ... (`Ranks`), a set of places has a least and a greatest
element (`LeastAndGreatest`), and the words of a text with one more character are
the same words, or one more, or the last one grown (`WordsAppend`). These stand in
for induction over the text: the loops go character by character, and the invariant
of a loop compares what it has made with the words of what it has read.

For `Fields`, `Inv` says loop by loop what the copy has so far: as many characters
as are counted, not above what has been read, the last one a separator exactly if
`flag` is set; this gives `TypeCorrect`, `Bounds` and `Clean`. `KeepInv` adds that
the copy has the words of what has been read, `CutInv` that the rows hold the words
that have ended, each cut to its row, and that the rows above stay when one is
written. `CharCountIs`, that the recursive function `CharCount` returns the number
of separators, is proved by a least counterexample. `Fielding` puts them together;
`BlankInv`, that a copy left over is of a line of separators, gives `Leaks`.

For `Console`, `PlaceInv` says where a reading can stop while the lines fit: at a
newline, or in a line that has been read to the limit, or to the end of the input,
and whose newline has not come. `NextLine` says that one more line adds the command
in it, if any, to `CommandsIn` the text; with both, `CommandsAsTyped` is inductive.
`NothingInvented` is inductive by itself: a command that is executed stands in the
piece just read, behind all others. `PieceInv` says that reading has stopped where a
line begins or where a piece as long as the buffer has just been read: a piece without
a text then begins with a NUL at such a place, or there is no input left (`Inside`).
What the string functions see of a piece begins it and has no NUL (`TextIs`). `Typing`
and `Inside` follow.

**DirectoryPage** (`DirectoryPageProofs`). `SortInv` has the room in the array and
the invariant of a selection sort: the rows up to `i` are in order and not above
any other, and `min` is the least from `i` to `j`; it gives `Memory` and `Sorting`.
`Listed` says of which entries the rows in `data` and `table` are: names differ in
a directory, a swap keeps the set, and the second scan takes another type than the
first. `NothingInvented` needs it. `CompleteInv` says conversely that, as long as
memory is enough, every entry scanned has its row, where it belongs: folders before
files, each part sorted. `Page` needs it.

**Endpoints** (`EndpointsProofs`). One inductive invariant, the type invariant with
three named parts: as long as nobody was `stray`, a number that a client or a point
knows stands for its own descriptor (`Own`) and a valid server listens (`Listens`);
and an object that holds a descriptor it does not know was `careless`
(`Remembered`). `Handles`, `Forgotten` and `Astray` follow.

Assumptions of the proofs: the named ASSUMEs of the modules, which say what the
constants are; no fact about the code is assumed.

`PauseIsBounded` (a pause lets at most one connection through, `PauseLetsOneThrough`)
and the type invariants are proved and not repeated in runs.

All safety properties of the runs are proved, and all three refinements.

**Only model-checked**: the liveness properties (`EveryRequestIsSettled`,
`ThreadsEnd`, `EverythingIsTold`, `RequestEnds`, `EveryMessageComesOut`,
`EverythingIsRead`), which this prover cannot treat since they need fairness and
ENABLED.

## 5. Not modelled

* The text of requests, paths, links, rows and sizes (`sscanf`, `GetAbsPath`,
  `MakeEntryItem`, the HTML): formatting of strings character by character, which
  decides nothing that the models tell apart. A row's fields and the buffers they
  are printed into are not compared. The scan back to the last `/` of a path, for the
  link "Back.." of a page (`response.c:225`), belongs to these: no property depends on
  it, and it is not modelled.
* `UdpPoint_RecvRaw`: one system call, past the parser; in `MessageDatagrams` a
  datagram that is lost.
* `SetOpt`, `GetOpt`, `SetData`, `GetData`: they pass a value on.
* Blocking: a `send()` to a peer that does not read blocks its thread; in the
  models this is a thread that takes no step, which only fairness excludes.
* `basic_material/`: course programs apart from the server (servers with and
  without select, multicast, broadcast, out-of-band data, and the first forms of
  the message parser). The server uses none of them.

## 6. Plan

Done, in this order: FileServer with its abstraction and proofs (the most
important behaviour of the system); MessageStream with its abstraction and
proofs; EventLoop; RequestHandler; MessageDatagrams and its proofs; Fields,
DirectoryPage and Endpoints with theirs; Console.

Then the theorems about EventLoop, RequestHandler, the words of a line, the page of
a directory and the command line, with which all safety properties are proved, and
ConnectionLife, which EventLoop is proved to implement.

Next:

1. What the users of `MessageDatagrams` rely on, as an abstract specification: a
   channel that loses, repeats and reorders whole messages, while nobody sends
   parts. `PartInv` is what the proof of implementation needs.
2. That RequestHandler implements the answering step of FileServer: one answer at
   most, and none without a request.
3. The paths: `GetAbsPath` and the links of a page against the tree of directories
   they walk.
