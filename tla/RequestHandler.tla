--------------------------- MODULE RequestHandler ---------------------------
(***************************************************************************)
(* RequestHandler of response.c: one request for a path, answered with an  *)
(* error page, the page of a directory or the content of a file, while     *)
(* other programs change the path, the directory and the file, and the     *)
(* peer may leave.  FileServer takes all of this as one step.              *)
(*                                                                         *)
(* Text is left out: a page is the set of its rows, a file its length, and *)
(* what was sent is a number of bytes.                                     *)
(***************************************************************************)
EXTENDS Integers, FiniteSets

CONSTANTS
    Names,         \* names in the directory
    MaxSize,       \* bound: length of a file
    BufSize,       \* BUF_SIZE, 1024 in the code
    IntMax,        \* the largest int
    MaxChanges,    \* bound: changes made by other programs
    MallocMayFail, \* BOOLEAN; malloc, calloc, realloc
    CallsMayFail   \* BOOLEAN; access, opendir, stat, open, read of what is there

ASSUME RequestHandlerAssumption ==
    /\ MaxSize \in Nat /\ MaxChanges \in Nat
    /\ BufSize \in Nat \ {0} /\ IntMax \in Nat \ {0}
    /\ MallocMayFail \in BOOLEAN /\ CallsMayFail \in BOOLEAN

VARIABLES
    kind,      \* what the path names: "none", "dir" or "file"
    entries,   \* the directory: for every name "none", "dir" or "file"
    size,      \* length of the file, the open one if there is one
    changes,   \* bound: how often others have changed something
    peer,      \* "open", "fin" (closed its side), "reset" (an error waits for
               \*   the next send) or "pipe" (the next send raises SIGPIPE)
    pc,        \* where the handler is; "killed" by SIGPIPE
    opened,    \* what fd stands for in FileReqHandler, or "none"
    offset, len, max, ret,   \* locals of FileReqHandler; ret: the result, too
    type, todo, rows,        \* a scan of GetEntry and what it found
    table,     \* the rows of the page, each with the scan that found it
    answer,    \* history: "none", or the response that went out: "page",
               \*   "error" or "head" (of a file)
    body,      \* history: bytes of the file that went out
    starved,   \* history: there was no memory for something
    refused,   \* history: where the handler was when the system refused a call
    left       \* history: how the peer left first: "no", "fin" or "reset"

fsVars == <<kind, entries, size, changes>>
fileVars == <<opened, offset, len, max>>
dirVars == <<type, todo, rows, table>>
vars ==
    <<fsVars, peer, pc, fileVars, ret, dirVars, answer, body, starved, refused, left>>

Kinds == {"none", "dir", "file"}
Entries == Names \X {"dir", "file"}

(* What the low 32 bits of n are as an int. *)
Wrap(n) == ((n + IntMax + 1) % (2 * (IntMax + 1))) - (IntMax + 1)
-----------------------------------------------------------------------------
(* Other programs and the peer *)

Fs_Change ==
    /\ changes < MaxChanges /\ changes' = changes + 1
    /\ \/ kind' \in Kinds /\ UNCHANGED <<entries, size>>
       \/ size' \in 0..MaxSize /\ UNCHANGED <<kind, entries>>
       \/ /\ \E n \in Names, k \in Kinds : entries' = [entries EXCEPT ![n] = k]
          /\ UNCHANGED <<kind, size>>
    /\ UNCHANGED <<peer, pc, fileVars, ret, dirVars, answer, body, starved, refused, left>>

Leaves(from, to) == peer = from /\ peer' = to

Peer_Leave ==
    /\ Leaves("open", "fin") \/ Leaves("open", "reset") \/ Leaves("fin", "pipe")
    /\ left' = IF left = "no" THEN peer' ELSE left
    /\ UNCHANGED <<fsVars, pc, fileVars, ret, dirVars, answer, body, starved, refused>>

(* send() of n bytes, result k.  A call that a reset interrupts has sent a part;
   a send after the reset gives its error, and one more raises SIGPIPE. *)
Send(n, k) ==
    \/ peer \in {"open", "fin"} /\ k = n /\ UNCHANGED <<peer, left>>
    \/ Leaves("open", "reset") /\ k \in 1..(n - 1) /\ left' = "reset"
    \/ Leaves("fin", "pipe") /\ k \in 1..(n - 1) /\ UNCHANGED left
    \/ Leaves("reset", "pipe") /\ k = -1 /\ UNCHANGED left

Killed == peer = "pipe" /\ pc' = "killed" /\ UNCHANGED <<peer, left>>

(* Calls that need memory get it, or fail. *)
Malloc == UNCHANGED <<starved, refused>>
MallocFails == MallocMayFail /\ starved' = TRUE /\ UNCHANGED refused

(* A call fails on what is there: without the permission, without a descriptor
   to spare, or because the medium cannot be read. *)
Refused == CallsMayFail /\ refused' = refused \cup {pc} /\ UNCHANGED starved
-----------------------------------------------------------------------------
(* RequestHandler: does the path exist, and is it a directory? *)

Access ==
    /\ pc = "access"
    /\ \/ Malloc /\ pc' = IF kind # "none" THEN "count" ELSE "error"
       \/ (MallocFails \/ Refused) /\ pc' = "error"
    /\ UNCHANGED <<fsVars, peer, fileVars, ret, dirVars, answer, body, left>>

IsDirectory == kind = "dir"

GetEntryCount ==
    /\ pc = "count"
    /\ \/ Malloc /\ pc' = IF IsDirectory THEN "opendir" ELSE "open"
       \/ (MallocFails \/ Refused) /\ pc' = "open"
    /\ UNCHANGED <<fsVars, peer, fileVars, ret, dirVars, answer, body, left>>
-----------------------------------------------------------------------------
(* FileReqHandler *)

(* Without the file, without leave to open it or without memory, nothing is sent
   at all. *)
FileReq_Open ==
    /\ pc = "open"
    /\ \/ Malloc /\ opened' = kind /\ pc' = IF kind # "none" THEN "seek" ELSE "return"
       \/ (MallocFails \/ Refused) /\ pc' = "return" /\ UNCHANGED opened
    /\ UNCHANGED <<fsVars, peer, offset, len, max, ret, dirVars, answer, body, left>>

(* lseek() to the end; of a directory it says anything. *)
FileReq_Seek ==
    /\ pc = "seek"
    /\ IF opened = "file" THEN max' = Wrap(size) /\ offset' = size
       ELSE max' \in {Wrap(n) : n \in 0..MaxSize} /\ UNCHANGED offset
    /\ pc' = "head"
    /\ UNCHANGED <<fsVars, peer, opened, len, ret, dirVars, answer, body>>
    /\ UNCHANGED <<starved, refused, left>>

(* Mutant: the content follows whether or not the header could be sent. *)
Starts_Anyway(k) == TRUE
Starts(k) == k > 0

(* lseek() back to the start *)
Rewound == 0

(* The header is sent; without it nothing else is. *)
FileReq_Head ==
    /\ pc = "head"
    /\ \/ \E k \in {-1, 1, 2} :
             /\ Send(2, k)
             /\ answer' = IF k > 0 THEN "head" ELSE answer
             /\ offset' = Rewound
             /\ pc' = IF Starts(k) THEN "read" ELSE "compare"
       \/ Killed /\ UNCHANGED <<answer, offset>>
    /\ UNCHANGED <<fsVars, opened, len, max, ret, dirVars, body, starved, refused>>

(* Mutant: only an error ends the loop. *)
GoesOn_AtEnd(n) == n >= 0
GoesOn(n) == n > 0

FileReq_Read ==
    /\ pc = "read"
    /\ \/ /\ Malloc
          /\ len' = IF opened # "file" THEN -1
                    ELSE IF size - offset > BufSize THEN BufSize
                    ELSE IF size > offset THEN size - offset ELSE 0
       \/ Refused /\ len' = -1
    /\ offset' = IF len' > 0 THEN offset + len' ELSE offset
    /\ pc' = IF GoesOn(len') THEN "body" ELSE "compare"
    /\ UNCHANGED <<fsVars, peer, opened, max, ret, dirVars, answer, body, left>>

(* Mutant: a send counts for what it was given. *)
Added_Given(k) == len

(* The result of send() is added as it is, -1 too. *)
Added(k) == k

FileReq_Body ==
    /\ pc = "body"
    /\ \/ \E k \in -1..BufSize :
             /\ Send(len, k)
             /\ ret' = Wrap(ret + Added(k))
             /\ body' = IF k > 0 THEN body + k ELSE body
             /\ pc' = "read"
       \/ Killed /\ UNCHANGED <<ret, body>>
    /\ UNCHANGED <<fsVars, fileVars, dirVars, answer, starved, refused>>

FileReq_Compare ==
    /\ pc = "compare"
    /\ ret' = IF ret = max THEN 1 ELSE 0
    /\ pc' = "return"
    /\ UNCHANGED <<fsVars, peer, fileVars, dirVars, answer, body, starved, refused, left>>
-----------------------------------------------------------------------------
(* DirReqHandler: MakeHTML scans the directory for folders, then for files. *)

(* readdir() reads a directory of this size at once; GetEntry goes through it. *)
GetEntry_Open ==
    /\ pc = "opendir"
    /\ rows' = {}
    /\ \/ /\ Malloc
          /\ todo' = IF kind = "dir" THEN {e \in Entries : entries[e[1]] = e[2]}
                     ELSE {}
       \/ (MallocFails \/ Refused) /\ todo' = {}
    /\ pc' = "readdir"
    /\ UNCHANGED <<fsVars, peer, fileVars, ret, type, table, answer, body, left>>

(* Mutant: the scan takes what it finds, whatever it was to look for. *)
Kept_OfAnyType(e) == entries[e[1]] # "none"

(* One entry, kept if readdir() gave it the type and stat() still finds the name,
   as whatever. *)
Kept(e) == e[2] = type /\ entries[e[1]] # "none"

GetEntry_Read(e) ==
    /\ pc = "readdir" /\ e \in todo
    /\ \/ /\ Malloc
          /\ todo' = todo \ {e}
          /\ rows' = IF Kept(e) THEN rows \cup {<<e, type>>} ELSE rows
       \/ (* no memory for the path of the entry, or no stat(): it is left out *)
          /\ MallocFails \/ Refused
          /\ todo' = todo \ {e} /\ UNCHANGED rows
       \/ (* no memory for more rows: what was read is lost, and the rest *)
          /\ MallocFails /\ todo' = {} /\ rows' = {}
    /\ UNCHANGED <<fsVars, peer, pc, fileVars, ret, type, table, answer, body, left>>

(* The rows go into the table, those that there is memory for. *)
MakeHTML_Rows ==
    /\ pc = "readdir" /\ todo = {}
    /\ \/ Malloc /\ table' = table \cup rows
       \/ MallocFails /\ \E S \in SUBSET rows : table' = table \cup S
    /\ IF type = "dir" THEN type' = "file" /\ pc' = "opendir"
                       ELSE pc' = "page" /\ UNCHANGED type
    /\ UNCHANGED <<fsVars, peer, fileVars, ret, todo, rows, answer, body, left>>

(* Response, for a page and for the error page.  DirReqHandler and BadReqHandler
   have no return statement: their result is any value. *)
Response ==
    /\ pc \in {"page", "error"}
    /\ \/ /\ Malloc
          /\ \/ \E k \in {-1, 1, 2} :
                   /\ Send(2, k)
                   /\ pc' = "return"
                   /\ answer' = IF k > 0 THEN pc ELSE answer
             \/ Killed /\ UNCHANGED answer
       \/ MallocFails /\ pc' = "return" /\ UNCHANGED <<peer, left, answer>>
    /\ ret' \in {0, 1}
    /\ UNCHANGED <<fsVars, fileVars, dirVars, body>>
-----------------------------------------------------------------------------
Init ==
    /\ kind \in Kinds /\ entries \in [Names -> Kinds] /\ size \in 0..MaxSize
    /\ changes = 0 /\ peer = "open" /\ pc = "access"
    /\ opened = "none" /\ offset = 0 /\ len = 0 /\ max = 0 /\ ret = 0
    /\ type = "dir" /\ todo = {} /\ rows = {} /\ table = {}
    /\ answer = "none" /\ body = 0 /\ starved = FALSE /\ refused = {} /\ left = "no"

FileReqHandler ==
    \/ FileReq_Open \/ FileReq_Seek \/ FileReq_Head \/ FileReq_Read \/ FileReq_Body
    \/ FileReq_Compare

DirReqHandler ==
    GetEntry_Open \/ (\E e \in todo : GetEntry_Read(e)) \/ MakeHTML_Rows

Handler == Access \/ GetEntryCount \/ FileReqHandler \/ DirReqHandler \/ Response

Next == Handler \/ Fs_Change \/ Peer_Leave

Spec == Init /\ [][Next]_vars

(* The thread runs; nothing is assumed of the peer or of other programs. *)
FairSpec == Spec /\ WF_vars(Handler)
-----------------------------------------------------------------------------
TypeOK ==
    /\ kind \in Kinds /\ entries \in [Names -> Kinds] /\ size \in 0..MaxSize
    /\ changes \in 0..MaxChanges /\ peer \in {"open", "fin", "reset", "pipe"}
    /\ pc \in {"access", "count", "open", "seek", "head", "read", "body", "compare",
               "opendir", "readdir", "page", "error", "return", "killed"}
    /\ opened \in Kinds /\ offset \in 0..MaxSize /\ len \in -1..BufSize
    /\ {max, ret} \subseteq -(IntMax + 1)..IntMax
    /\ type \in {"dir", "file"} /\ todo \subseteq Entries
    /\ {rows, table} \subseteq SUBSET (Entries \X {"dir", "file"})
    /\ answer \in {"none", "head", "page", "error"} /\ body \in 0..MaxSize
    /\ starved \in BOOLEAN /\ left \in {"no", "fin", "reset"}
    /\ refused \subseteq {"access", "count", "open", "read", "opendir", "readdir"}

(* Nobody has interfered with the request. *)
Undisturbed == changes = 0 /\ left = "no"

(* A request nobody disturbs gets the answer its path asks for: the page of a
   directory, an empty one too, the content of a file, the error page when there
   is nothing.  A directory that cannot be opened passes for a file, and where
   open() is refused there is no answer of any kind (response.c:328, 363-377). *)
StableAnswer ==
    pc = "return" /\ Undisturbed /\ ~starved =>
        answer = IF kind = "none" \/ "access" \in refused THEN "error"
                 ELSE IF kind = "dir" /\ "count" \notin refused THEN "page"
                 ELSE IF "open" \in refused THEN "none" ELSE "head"

(* A file nobody disturbs goes out whole and no more than once, and the handler
   says so, unless it cannot be read; a length no int holds alone is miscounted
   (response.c:330-344). *)
StableFileIsWhole ==
    /\ pc = "return" /\ Undisturbed
    /\ kind = "file" /\ answer = "head" /\ "read" \notin refused
    => body = size /\ max = Wrap(size) /\ ret = 1

(* The page of a directory nobody touches lists each name once, as what it is,
   although two scans collect them and nobody holds a lock (response.c:237-253). *)
StableListing ==
    /\ answer = "page" /\ changes = 0 /\ ~starved
    /\ {"opendir", "readdir"} \cap refused = {}
    => table = {<<e, e[2]>> : e \in {x \in Entries : entries[x[1]] = x[2]}}

(* A request nobody disturbs is answered, and the answer is all of what it asks
   for, once: the file, or the page of the directory (response.c:312-377). *)
StableRequestIsAnswered ==
    TypeOK /\ StableAnswer /\ StableFileIsWhole /\ StableListing

(* A file is reported as delivered only if as much went out as its header
   announced, however the peer left and the file changed on the way
   (response.c:339-344). *)
SuccessMeansDelivered ==
    pc = "return" /\ answer = "head" /\ opened = "file" /\ ret = 1 => body >= max

(* A peer that resets the connection ends the process only in the middle of a
   file: what is answered with one send, and a header, outlive it
   (response.c:287, 335-341). *)
OneSendSurvivesReset == pc = "killed" => left = "fin" \/ answer = "head"

(* A request comes to an end, whatever is changed under it, if every send does:
   an open directory that read() refuses ends the loop (response.c:339). *)
RequestEnds == <>(pc \in {"return", "killed"})
=============================================================================
