------------------------ MODULE RequestHandlerProofs ------------------------
(***************************************************************************)
(* Proofs about RequestHandler, for directories and files of any size, any *)
(* width of int and of the buffer, and any number of changes by others.    *)
(***************************************************************************)
EXTENDS RequestHandler, TLAPS

(* Nothing has been sent. *)
Early == {"access", "count", "open", "seek", "head", "opendir", "readdir", "page", "error"}

EarlyInv == pc \in Early => body = 0 /\ ret = 0 /\ answer = "none"

(* left remembers how the peer left, and only a send can meet a reset. *)
PeerInv ==
    /\ peer = "open" <=> left = "no"
    /\ peer \in {"fin", "reset"} => left = peer
    /\ peer = "pipe" /\ pc \in Early => left = "fin"
    /\ OneSendSurvivesReset

(* No more is sent than was read, and ret counts no more than was sent: it is
   below zero only after a failed send, or when it has wrapped. *)
CountInv ==
    /\ pc \in {"read", "body"} => answer = "head"
    /\ pc \in {"read", "compare"} => body <= offset
    /\ pc = "body" => len > 0 /\ body + len <= offset
    /\ pc \in {"read", "body", "compare"} =>
          ret <= body /\ (ret < 0 => peer = "pipe" \/ body >= IntMax)
    /\ pc = "return" /\ answer = "head" /\ ret = 1 => body >= max

(* The transfer of a file that nobody changes to a peer that does not leave. *)
WholeInv ==
    /\ changes = 0 =>
          /\ pc \in {"seek", "head", "read", "body", "compare"} => opened = kind
          /\ pc \in {"head", "read", "body", "compare"} /\ opened = "file" =>
                max = Wrap(size)
    /\ Undisturbed /\ kind = "file" =>
          /\ pc \in {"read", "body", "compare"} => ret = Wrap(body)
          /\ pc = "read" => body = offset /\ offset <= size
          /\ pc = "body" => body + len = offset /\ offset <= size
          /\ pc = "compare" /\ "read" \notin refused => body = size
    /\ StableFileIsWhole

(* Where a call can have been refused so far. *)
RefusedInv ==
    /\ pc = "access" => refused = {}
    /\ pc = "count" => refused \subseteq {"access"}
    /\ pc = "open" => refused \subseteq {"access", "count"}

Transfer == {"open", "seek", "head", "read", "body", "compare"}

(* The handler is where what the path names takes it, and what was refused. *)
PathInv ==
    /\ RefusedInv
    /\ changes = 0 /\ ~starved =>
          /\ pc = "count" => kind # "none" /\ "access" \notin refused
          /\ pc \in {"opendir", "readdir", "page"} =>
                kind = "dir" /\ "access" \notin refused /\ "count" \notin refused
          /\ pc \in Transfer =>
                /\ kind # "none" /\ "access" \notin refused
                /\ kind = "dir" => "count" \in refused
          /\ pc \in Transfer \ {"open"} => "open" \notin refused
          /\ pc = "error" => kind = "none" \/ "access" \in refused
    /\ Undisturbed /\ ~starved /\ pc = "compare" => answer = "head"
    /\ StableAnswer

(* What is in the directory, and the rows that a scan for type t makes of S. *)
Here == {e \in Entries : entries[e[1]] = e[2]}
RowsFor(t, S) == {<<e, t>> : e \in {x \in S : x[2] = t}}

(* No call of a scan has been refused. *)
Lists == "opendir" \notin refused /\ "readdir" \notin refused

(* The two scans of a directory nobody changes. *)
ListInv ==
    /\ pc \in {"access", "count"} => type = "dir" /\ table = {}
    /\ changes = 0 /\ ~starved /\ Lists =>
          /\ pc \in {"opendir", "readdir"} =>
                table = IF type = "dir" THEN {} ELSE RowsFor("dir", Here)
          /\ pc = "readdir" => todo \subseteq Here /\ rows = RowsFor(type, Here \ todo)
          /\ pc = "page" => table = RowsFor("dir", Here) \cup RowsFor("file", Here)
    /\ StableListing

RestInv == EarlyInv /\ PeerInv /\ CountInv /\ WholeInv /\ PathInv /\ ListInv

RequestInv == TypeOK /\ RestInv
-----------------------------------------------------------------------------
LEMMA ConstantFacts ==
    /\ MaxSize \in Nat /\ MaxChanges \in Nat /\ BufSize \in Nat /\ BufSize > 0
    /\ IntMax \in Nat /\ IntMax > 0
    /\ MallocMayFail \in BOOLEAN /\ CallsMayFail \in BOOLEAN
BY RequestHandlerAssumption DEF RequestHandlerAssumption

(* What Euclid says of %. *)
LEMMA ModFacts ==
    ASSUME NEW n \in Int, NEW m \in Nat, m > 0
    PROVE  /\ n % m \in 0..(m - 1)
           /\ n = m * (n \div m) + (n % m)
           /\ n \div m \in Int
OBVIOUS

LEMMA ModUnique ==
    ASSUME NEW m \in Nat, m > 0, NEW p \in Int, NEW q \in Int,
           NEW r \in 0..(m - 1), NEW s \in 0..(m - 1), m * p + r = m * q + s
    PROVE  r = s
<1>1. m * (p - q) = s - r
  BY SMT
<1>2. CASE p - q >= 1
  <2>1. m * (p - q) >= m
    BY <1>2, SMT
  <2>2. QED
    BY <1>1, <2>1
<1>3. CASE p - q <= -1
  <2>1. m * (p - q) <= -m
    BY <1>3, SMT
  <2>2. QED
    BY <1>1, <2>1
<1>4. CASE p - q = 0
  BY <1>1, <1>4
<1>5. QED
  BY <1>2, <1>3, <1>4

LEMMA WrapRange == \A n \in Int : Wrap(n) \in -(IntMax + 1)..IntMax
<1> SUFFICES ASSUME NEW n \in Int PROVE Wrap(n) \in -(IntMax + 1)..IntMax
  OBVIOUS
<1> DEFINE M == 2 * (IntMax + 1)
<1>1. M \in Nat /\ M > 0
  BY ConstantFacts
<1>2. (n + IntMax + 1) % M \in 0..(M - 1)
  BY <1>1, ModFacts, ConstantFacts
<1>3. QED
  BY <1>2, ConstantFacts DEF Wrap

LEMMA WrapDown ==
    ASSUME NEW n \in Int, n >= -(IntMax + 1)
    PROVE  Wrap(n) <= n /\ (n <= IntMax => Wrap(n) = n)
<1> DEFINE M == 2 * (IntMax + 1)
           a == n + IntMax + 1
<1>1. M \in Nat /\ M > 0 /\ a \in Nat
  BY ConstantFacts
<1>2. a % M <= a /\ (a < M => a % M = a)
  <2> HIDE DEF M, a
  <2>1. a % M \in 0..(M - 1) /\ a = M * (a \div M) + (a % M) /\ a \div M \in Int
    BY <1>1, ModFacts
  <2>2. a < M => a % M = a
    <3>1. ASSUME a < M PROVE a \in 0..(M - 1) /\ M * 0 + a = a
      BY <1>1, <3>1
    <3>2. QED
      BY <1>1, <2>1, <3>1, ModUnique
  <2>3. QED
    BY <1>1, <2>1, <2>2
<1>3. Wrap(n) = (a % M) - (IntMax + 1)
  BY DEF Wrap
<1>4. QED
  BY <1>1, <1>2, <1>3, ConstantFacts

(* Wrapping in the middle of a sum changes nothing at its end. *)
LEMMA WrapAdd == \A n, k \in Int : Wrap(Wrap(n) + k) = Wrap(n + k)
<1> SUFFICES ASSUME NEW n \in Int, NEW k \in Int PROVE Wrap(Wrap(n) + k) = Wrap(n + k)
  OBVIOUS
<1> DEFINE M == 2 * (IntMax + 1)
           a == n + IntMax + 1
<1>1. M \in Nat /\ M > 0 /\ a \in Int
  BY ConstantFacts
<1>2. ((a % M) + k) % M = (a + k) % M
  <2> HIDE DEF M, a
  <2>1. PICK p \in Int, r \in 0..(M - 1) : a = M * p + r /\ r = a % M
    BY <1>1, ModFacts
  <2>2. PICK q \in Int, s \in 0..(M - 1) : r + k = M * q + s /\ s = (r + k) % M
    <3>1. r + k \in Int
      OBVIOUS
    <3>2. QED
      BY <1>1, <3>1, ModFacts
  <2>3. PICK u \in Int, t \in 0..(M - 1) : a + k = M * u + t /\ t = (a + k) % M
    <3>1. a + k \in Int
      BY <1>1
    <3>2. QED
      BY <1>1, <3>1, ModFacts
  <2>4. a + k = M * (p + q) + s
    <3>1. M * (p + q) = M * p + M * q
      BY <1>1, SMT
    <3>2. M * p \in Int /\ M * q \in Int
      BY <1>1
    <3>3. QED
      BY <2>1, <2>2, <3>1, <3>2
  <2>5. s = t
    <3>1. p + q \in Int /\ M * (p + q) + s = M * u + t
      BY <2>3, <2>4
    <3>2. QED
      BY <1>1, <3>1, ModUnique
  <2>6. QED
    BY <2>1, <2>2, <2>3, <2>5
<1>3. Wrap(n) = (a % M) - (IntMax + 1)
  BY DEF Wrap
<1>4. a % M \in Int
  BY <1>1, ModFacts
<1>5. Wrap(n) + k + IntMax + 1 = (a % M) + k /\ n + k + IntMax + 1 = a + k
  BY <1>3, <1>4, ConstantFacts
<1>6. QED
  BY <1>2, <1>5 DEF Wrap
-----------------------------------------------------------------------------
(* What send() gives, and what it means for the peer. *)
LEMMA SendStep ==
    ASSUME PeerInv, TypeOK, NEW n \in Int, n >= 1, NEW k \in Int, Send(n, k)
    PROVE  /\ k = -1 \/ (k >= 1 /\ k <= n)
           /\ peer # "pipe" /\ (k = -1 => peer = "reset" /\ peer' = "pipe")
           /\ peer' \in {"open", "fin", "reset", "pipe"} /\ left' \in {"no", "fin", "reset"}
           /\ left' = "no" => left = "no" /\ k = n
           /\ peer' = "open" <=> left' = "no"
           /\ peer' \in {"fin", "reset"} => left' = peer'
           /\ peer' = "pipe" => left' = "fin" \/ (peer = "reset" /\ k = -1)
BY DEF Send, Leaves, PeerInv, TypeOK

LEMMA TypeInitially == Init => TypeOK
<1> SUFFICES ASSUME Init PROVE TypeOK
  OBVIOUS
<1>1. /\ 0 \in 0..MaxSize /\ 0 \in 0..MaxChanges /\ 0 \in -1..BufSize
      /\ 0 \in -(IntMax + 1)..IntMax
  BY ConstantFacts
<1>2. opened \in Kinds /\ {} \subseteq Entries
  BY DEF Init, Kinds
<1>3. QED
  BY <1>1, <1>2 DEF Init, TypeOK

LEMMA TypeOfPath ==
    ASSUME TypeOK, Access \/ GetEntryCount \/ FileReq_Open \/ FileReq_Compare
    PROVE  TypeOK'
<1> USE DEF TypeOK, fsVars, fileVars, dirVars, Malloc, MallocFails, Refused
<1>1. CASE Access
  BY <1>1 DEF Access
<1>2. CASE GetEntryCount
  BY <1>2 DEF GetEntryCount
<1>3. CASE FileReq_Open
  BY <1>3 DEF FileReq_Open
<1>4. CASE FileReq_Compare
  BY <1>4, ConstantFacts DEF FileReq_Compare
<1>5. QED
  BY <1>1, <1>2, <1>3, <1>4

LEMMA TypeOfFile ==
    ASSUME TypeOK, EarlyInv, PeerInv, CountInv,
           FileReq_Seek \/ FileReq_Head \/ FileReq_Read \/ FileReq_Body
    PROVE  TypeOK'
<1> USE DEF TypeOK, fsVars, fileVars, dirVars
<1>1. CASE FileReq_Seek
  <2>1. size \in Int /\ \A n \in 0..MaxSize : n \in Int
    OBVIOUS
  <2>2. max' \in -(IntMax + 1)..IntMax /\ offset' \in 0..MaxSize
    BY <1>1, <2>1, WrapRange DEF FileReq_Seek
  <2>3. QED
    BY <1>1, <2>2 DEF FileReq_Seek
<1>2. CASE FileReq_Head
  <2>1. /\ peer' \in {"open", "fin", "reset", "pipe"} /\ left' \in {"no", "fin", "reset"}
        /\ pc' \in {"read", "compare", "killed"}
        /\ answer' \in {answer, "head"} /\ offset' \in {offset, 0}
    BY <1>2, SendStep DEF FileReq_Head, Killed, Rewound
  <2>2. 0 \in 0..MaxSize
    BY ConstantFacts
  <2>3. QED
    BY <1>2, <2>1, <2>2 DEF FileReq_Head
<1>3. CASE FileReq_Read
  <2>1. len' \in -1..BufSize /\ offset' \in 0..MaxSize
    BY <1>3, ConstantFacts DEF FileReq_Read
  <2>2. starved' \in BOOLEAN /\ pc = "read" /\ refused' \in {refused, refused \cup {pc}}
    BY <1>3 DEF FileReq_Read, Malloc, Refused
  <2>3. pc' \in {"body", "compare"}
    BY <1>3 DEF FileReq_Read
  <2>4. QED
    BY <1>3, <2>1, <2>2, <2>3 DEF FileReq_Read
<1>4. CASE FileReq_Body
  <2>1. pc = "body" /\ len \in Int /\ len >= 1 /\ body + len <= MaxSize /\ body >= 0
    BY <1>4, ConstantFacts DEF FileReq_Body, CountInv
  <2>2. CASE Killed /\ UNCHANGED <<ret, body>>
    BY <1>4, <2>2 DEF FileReq_Body, Killed
  <2>3. ASSUME NEW k \in -1..BufSize, Send(len, k), ret' = Wrap(ret + Added(k)),
               body' = IF k > 0 THEN body + k ELSE body, pc' = "read"
        PROVE  TypeOK'
    <3>1. /\ peer' \in {"open", "fin", "reset", "pipe"} /\ left' \in {"no", "fin", "reset"}
          /\ k <= len
      BY <2>1, <2>3, SendStep, ConstantFacts
    <3>2. body' \in 0..MaxSize
      BY <2>1, <2>3, <3>1, ConstantFacts
    <3>3. ret' \in -(IntMax + 1)..IntMax
      <4>1. ret + Added(k) \in Int
        BY ConstantFacts DEF Added
      <4>2. QED
        BY <2>3, <4>1, WrapRange
    <3>4. QED
      BY <1>4, <2>3, <3>1, <3>2, <3>3 DEF FileReq_Body
  <2>4. QED
    BY <1>4, <2>2, <2>3 DEF FileReq_Body
<1>5. QED
  BY <1>1, <1>2, <1>3, <1>4

LEMMA TypeOfPage ==
    ASSUME TypeOK, PeerInv, DirReqHandler \/ Response
    PROVE  TypeOK'
<1> USE DEF TypeOK, fsVars, fileVars, dirVars, Malloc, MallocFails, Refused
<1>1. CASE GetEntry_Open
  BY <1>1 DEF GetEntry_Open
<1>2. ASSUME NEW e \in todo, GetEntry_Read(e) PROVE TypeOK'
  <2>1. rows' \in SUBSET (Entries \X {"dir", "file"}) /\ todo' \subseteq Entries
    BY <1>2 DEF GetEntry_Read
  <2>2. QED
    BY <1>2, <2>1 DEF GetEntry_Read
<1>3. CASE MakeHTML_Rows
  <2>1. table' \in SUBSET (Entries \X {"dir", "file"})
    BY <1>3 DEF MakeHTML_Rows
  <2>2. QED
    BY <1>3, <2>1 DEF MakeHTML_Rows
<1>4. CASE Response
  <2>1. /\ peer' \in {"open", "fin", "reset", "pipe"} /\ left' \in {"no", "fin", "reset"}
        /\ pc' \in {"return", "killed"} /\ answer' \in {answer, "page", "error"}
    BY <1>4, SendStep DEF Response, Killed
  <2>2. starved' \in BOOLEAN
    BY <1>4 DEF Response
  <2>3. ret' \in -(IntMax + 1)..IntMax
    BY <1>4, ConstantFacts DEF Response
  <2>4. QED
    BY <1>4, <2>1, <2>2, <2>3 DEF Response
<1>5. QED
  BY <1>1, <1>2, <1>3, <1>4 DEF DirReqHandler

LEMMA TypeAround ==
    ASSUME TypeOK, PeerInv, Fs_Change \/ Peer_Leave \/ UNCHANGED vars
    PROVE  TypeOK'
<1> USE DEF TypeOK, fsVars, fileVars, dirVars
<1>1. CASE Fs_Change
  <2>1. changes' \in 0..MaxChanges
    BY <1>1, ConstantFacts DEF Fs_Change
  <2>2. kind' \in Kinds /\ entries' \in [Names -> Kinds] /\ size' \in 0..MaxSize
    BY <1>1 DEF Fs_Change
  <2>3. QED
    BY <1>1, <2>1, <2>2 DEF Fs_Change
<1>2. CASE Peer_Leave
  BY <1>2 DEF Peer_Leave, Leaves, PeerInv
<1>3. CASE UNCHANGED vars
  BY <1>3 DEF vars
<1>4. QED
  BY <1>1, <1>2, <1>3
-----------------------------------------------------------------------------
LEMMA RestInitially == Init => RestInv
<1> SUFFICES ASSUME Init PROVE RestInv
  OBVIOUS
<1>1. EarlyInv /\ PeerInv /\ CountInv
  BY DEF Init, EarlyInv, PeerInv, CountInv, OneSendSurvivesReset
<1>2. WholeInv /\ PathInv /\ ListInv
  BY DEF Init, WholeInv, StableFileIsWhole, PathInv, RefusedInv, Transfer, StableAnswer, ListInv, Lists, StableListing
<1>3. QED
  BY <1>1, <1>2 DEF RestInv

(* Steps before anything is sent. *)
LEMMA PathKeeps ==
    ASSUME RequestInv, Access \/ GetEntryCount \/ FileReq_Open \/ FileReq_Seek
    PROVE  RestInv'
<1> USE DEF RequestInv, RestInv, fsVars, dirVars, Malloc, MallocFails, Refused
<1>1. /\ pc \in {"access", "count", "open", "seek"}
      /\ pc' \in {"count", "error", "opendir", "open", "seek", "head", "return"}
      /\ UNCHANGED <<kind, entries, size, changes, peer, ret, type, todo, rows, table,
                     answer, body, left>>
      /\ starved' = starved \/ starved' = TRUE
      /\ ~starved' => ~starved
  BY DEF Access, GetEntryCount, FileReq_Open, FileReq_Seek
<1>2. EarlyInv'
  BY <1>1 DEF EarlyInv, Early
<1>3. PeerInv'
  BY <1>1 DEF PeerInv, Early, OneSendSurvivesReset
<1>4. answer = "none" /\ body = 0
  BY <1>1 DEF EarlyInv, Early
<1>5. CountInv'
  BY <1>1, <1>4 DEF CountInv
<1>6. WholeInv'
  <2>1. CASE pc' = "seek" \/ pc' = "head"
    BY <1>1, <1>4, <2>1 DEF WholeInv, StableFileIsWhole, Undisturbed, Access,
         GetEntryCount, FileReq_Open, FileReq_Seek
  <2>2. CASE pc' # "seek" /\ pc' # "head"
    BY <1>1, <1>4, <2>2 DEF WholeInv, StableFileIsWhole, Undisturbed
  <2>3. QED
    BY <2>1, <2>2
<1>7. PathInv'
  <2> USE DEF PathInv, RefusedInv, StableAnswer, Undisturbed, Transfer
  <2>1. CASE Access
    BY <1>1, <2>1 DEF Access
  <2>2. CASE GetEntryCount
    BY <1>1, <2>2 DEF GetEntryCount, IsDirectory, TypeOK, Kinds
  <2>3. CASE FileReq_Open
    BY <1>1, <1>4, <2>3 DEF FileReq_Open
  <2>4. CASE FileReq_Seek
    BY <1>1, <2>4 DEF FileReq_Seek
  <2>5. QED
    BY <2>1, <2>2, <2>3, <2>4
<1>8. ListInv'
  <2>1. pc' = "opendir" => type = "dir" /\ table = {}
    BY <1>1 DEF ListInv, Access, GetEntryCount, FileReq_Open, FileReq_Seek
  <2>2. pc' = "count" => type = "dir" /\ table = {}
    BY <1>1 DEF ListInv, Access, GetEntryCount, FileReq_Open, FileReq_Seek
  <2>3. QED
    BY <1>1, <1>4, <2>1, <2>2 DEF ListInv, Lists, StableListing
<1>9. QED
  BY <1>2, <1>3, <1>5, <1>6, <1>7, <1>8

LEMMA HeadKeeps == RequestInv /\ FileReq_Head => RestInv'
<1> SUFFICES ASSUME RequestInv, FileReq_Head PROVE RestInv'
  OBVIOUS
<1> USE DEF RequestInv, RestInv, fsVars, dirVars
<1>1. /\ pc = "head"
      /\ UNCHANGED <<kind, entries, size, changes, opened, len, max, ret, type, todo, rows,
                     table, body, starved, refused>>
  BY DEF FileReq_Head
<1>2. answer = "none" /\ body = 0 /\ ret = 0
  BY <1>1 DEF EarlyInv, Early
<1>3. CASE Killed /\ UNCHANGED <<answer, offset>>
  <2>1. pc' = "killed" /\ peer = "pipe" /\ UNCHANGED <<peer, left, answer>>
    BY <1>3 DEF Killed
  <2>2. left = "fin"
    BY <1>1, <2>1 DEF PeerInv, Early
  <2>3. EarlyInv' /\ PeerInv' /\ CountInv'
    BY <2>1, <2>2 DEF EarlyInv, PeerInv, CountInv, Early, OneSendSurvivesReset
  <2>4. WholeInv' /\ PathInv' /\ ListInv'
    BY <1>1, <1>2, <2>1 DEF WholeInv, StableFileIsWhole, PathInv, RefusedInv, Transfer, StableAnswer, ListInv,
         StableListing
  <2>5. QED
    BY <2>3, <2>4
<1>4. ASSUME NEW k \in {-1, 1, 2}, Send(2, k),
             answer' = IF k > 0 THEN "head" ELSE answer, offset' = 0,
             pc' = IF Starts(k) THEN "read" ELSE "compare"
      PROVE  RestInv'
  <2>1. /\ k = -1 \/ k >= 1
        /\ peer # "pipe" /\ (k = -1 => peer = "reset" /\ peer' = "pipe")
        /\ left' = "no" => left = "no" /\ k = 2
        /\ peer' = "open" <=> left' = "no"
        /\ peer' \in {"fin", "reset"} => left' = peer'
    BY <1>4, SendStep
  <2>2. /\ k # -1 => answer' = "head" /\ pc' = "read"
        /\ k = -1 => answer' = "none" /\ pc' = "compare"
    BY <1>2, <1>4, <2>1 DEF Starts
  <2>3. EarlyInv' /\ PeerInv'
    BY <2>1, <2>2 DEF EarlyInv, PeerInv, Early, OneSendSurvivesReset
  <2>4. CountInv'
    BY <1>1, <1>2, <1>4, <2>2 DEF CountInv
  <2>5. WholeInv'
    <3>1. Wrap(0) = 0
      BY WrapDown, ConstantFacts
    <3>2. size >= 0
      BY DEF TypeOK
    <3>3. QED
      BY <1>1, <1>2, <1>4, <2>1, <2>2, <3>1, <3>2 DEF WholeInv, StableFileIsWhole,
           Undisturbed
  <2>6. PathInv'
    BY <1>1, <2>1, <2>2 DEF PathInv, RefusedInv, Transfer, StableAnswer, Undisturbed
  <2>7. ListInv'
    BY <1>1, <1>2, <2>2 DEF ListInv, Lists, StableListing
  <2>8. QED
    BY <2>3, <2>4, <2>5, <2>6, <2>7
<1>5. QED
  BY <1>3, <1>4 DEF FileReq_Head, Rewound

LEMMA ReadKeeps == RequestInv /\ FileReq_Read => RestInv'
<1> SUFFICES ASSUME RequestInv, FileReq_Read PROVE RestInv'
  OBVIOUS
<1> USE DEF RequestInv, RestInv, fsVars, dirVars
<1>1. /\ pc = "read"
      /\ UNCHANGED <<kind, entries, size, changes, peer, opened, max, ret, type, todo, rows,
                     table, answer, body, starved, left>>
      /\ refused' \in {refused, refused \cup {pc}}
  BY DEF FileReq_Read, Malloc, Refused
<1>2. /\ offset \in Int /\ size \in Int /\ body \in Int /\ len' \in Int
      /\ len' > 0 => pc' = "body" /\ offset' = offset + len' /\ offset' <= size
      /\ ~(len' > 0) => pc' = "compare" /\ offset' = offset
      /\ ~(len' > 0) /\ opened = "file" => size <= offset \/ "read" \in refused'
  BY <1>1, ConstantFacts DEF FileReq_Read, GoesOn, TypeOK, Malloc, Refused
<1>3. EarlyInv' /\ PeerInv'
  BY <1>1, <1>2 DEF EarlyInv, PeerInv, Early, OneSendSurvivesReset
<1>4. CountInv'
  BY <1>1, <1>2 DEF CountInv
<1>5. WholeInv'
  <2>1. Undisturbed /\ kind = "file" =>
            opened = "file" /\ ret = Wrap(body) /\ body = offset /\ offset <= size
    BY <1>1 DEF WholeInv, Undisturbed
  <2>2. QED
    BY <1>1, <1>2, <2>1 DEF WholeInv, StableFileIsWhole, Undisturbed
<1>6. PathInv'
  <2>1. answer = "head"
    BY <1>1 DEF CountInv
  <2>2. QED
    BY <1>1, <1>2, <2>1 DEF PathInv, RefusedInv, Transfer, StableAnswer, Undisturbed
<1>7. ListInv'
  BY <1>1, <1>2 DEF ListInv, Lists, StableListing, CountInv
<1>8. QED
  BY <1>3, <1>4, <1>5, <1>6, <1>7

LEMMA BodyKeeps == RequestInv /\ FileReq_Body => RestInv'
<1> SUFFICES ASSUME RequestInv, FileReq_Body PROVE RestInv'
  OBVIOUS
<1> USE DEF RequestInv, RestInv, fsVars, fileVars, dirVars
<1>1. /\ pc = "body"
      /\ UNCHANGED <<kind, entries, size, changes, opened, offset, len, max, type, todo,
                     rows, table, answer, starved, refused>>
  BY DEF FileReq_Body
<1>2. /\ answer = "head" /\ len > 0 /\ body + len <= offset /\ ret <= body
      /\ ret < 0 => peer = "pipe" \/ body >= IntMax
  BY <1>1 DEF CountInv
<1>3. /\ len \in Int /\ body \in Int /\ body >= 0 /\ offset \in Int /\ size \in Int
      /\ ret \in Int /\ -(IntMax + 1) <= ret /\ ret <= IntMax /\ IntMax \in Int /\ IntMax > 0
  BY ConstantFacts DEF TypeOK
<1>4. ListInv'
  <2>1. pc' \in {"read", "killed"}
    BY DEF FileReq_Body, Killed
  <2>2. QED
    BY <1>1, <1>2, <2>1 DEF ListInv, Lists, StableListing
<1>5. CASE Killed /\ UNCHANGED <<ret, body>>
  <2>1. pc' = "killed" /\ UNCHANGED <<peer, left>>
    BY <1>5 DEF Killed
  <2>2. EarlyInv' /\ PeerInv' /\ CountInv'
    BY <1>1, <1>2, <2>1 DEF EarlyInv, PeerInv, CountInv, Early, OneSendSurvivesReset
  <2>3. WholeInv' /\ PathInv'
    BY <1>1, <2>1 DEF WholeInv, StableFileIsWhole, PathInv, RefusedInv, Transfer, StableAnswer
  <2>4. QED
    BY <1>4, <2>2, <2>3
<1>6. ASSUME NEW k \in -1..BufSize, Send(len, k), ret' = Wrap(ret + k),
             body' = IF k > 0 THEN body + k ELSE body, pc' = "read"
      PROVE  RestInv'
  <2>1. /\ k \in Int /\ (k = -1 \/ (k >= 1 /\ k <= len))
        /\ peer # "pipe" /\ (k = -1 => peer = "reset" /\ peer' = "pipe")
        /\ left' = "no" => left = "no" /\ k = len
        /\ peer' = "open" <=> left' = "no"
        /\ peer' \in {"fin", "reset"} => left' = peer'
    BY <1>2, <1>3, <1>6, SendStep, ConstantFacts
  <2>2. EarlyInv' /\ PeerInv'
    BY <1>6, <2>1 DEF EarlyInv, PeerInv, Early, OneSendSurvivesReset
  <2>3. CountInv'
    <3>1. body' <= offset
      BY <1>2, <1>3, <1>6, <2>1
    <3>2. CASE k >= 1
      <4>1. ret' <= ret + k /\ (ret + k <= IntMax => ret' = ret + k)
        BY <1>3, <1>6, <2>1, <3>2, WrapDown
      <4>2. body' = body + k /\ ret' \in Int
        BY <1>3, <1>6, <2>1, <3>2, WrapRange
      <4>3. ret' <= body' /\ (ret' < 0 => body' >= IntMax)
        BY <1>2, <1>3, <2>1, <3>2, <4>1, <4>2
      <4>4. QED
        BY <1>1, <1>2, <1>6, <3>1, <4>3 DEF CountInv
    <3>3. CASE k = -1
      <4>1. ret >= 0 => ret' = ret - 1
        BY <1>3, <1>6, <3>3, WrapDown
      <4>2. ret < 0 => body >= IntMax
        BY <1>2, <2>1
      <4>3. ret' \in Int /\ ret' <= IntMax
        <5>1. ret + k \in Int
          BY <1>3, <2>1
        <5>2. QED
          BY <1>3, <1>6, <5>1, WrapRange
      <4>4. ret' <= body' /\ peer' = "pipe"
        BY <1>2, <1>3, <1>6, <2>1, <3>3, <4>1, <4>2, <4>3
      <4>5. QED
        BY <1>1, <1>2, <1>6, <3>1, <4>4 DEF CountInv
    <3>4. QED
      BY <2>1, <3>2, <3>3
  <2>4. WholeInv'
    <3>1. ASSUME Undisturbed', kind = "file"
          PROVE  ret' = Wrap(body') /\ body' = offset /\ offset <= size
      <4>1. Undisturbed /\ k = len
        BY <1>1, <2>1, <3>1 DEF Undisturbed
      <4>2. ret = Wrap(body) /\ body + len = offset /\ offset <= size
        BY <1>1, <3>1, <4>1 DEF WholeInv
      <4>3. body' = body + len
        BY <1>2, <1>6, <4>1
      <4>4. Wrap(Wrap(body) + len) = Wrap(body + len)
        BY <1>3, WrapAdd
      <4>5. QED
        BY <1>6, <4>1, <4>2, <4>3, <4>4
    <3>2. QED
      BY <1>1, <1>6, <3>1 DEF WholeInv, StableFileIsWhole
  <2>5. PathInv'
    BY <1>1, <1>6 DEF PathInv, RefusedInv, Transfer, StableAnswer
  <2>6. QED
    BY <1>4, <2>2, <2>3, <2>4, <2>5
<1>7. QED
  BY <1>5, <1>6 DEF FileReq_Body, Added

LEMMA CompareKeeps == RequestInv /\ FileReq_Compare => RestInv'
<1> SUFFICES ASSUME RequestInv, FileReq_Compare PROVE RestInv'
  OBVIOUS
<1> USE DEF RequestInv, RestInv, fsVars, fileVars, dirVars
<1>1. /\ pc = "compare" /\ pc' = "return" /\ ret' = IF ret = max THEN 1 ELSE 0
      /\ UNCHANGED <<kind, entries, size, changes, peer, opened, max, type, todo, rows,
                     table, answer, body, starved, refused, left>>
  BY DEF FileReq_Compare
<1>2. EarlyInv' /\ PeerInv' /\ CountInv'
  BY <1>1 DEF EarlyInv, PeerInv, CountInv, Early, OneSendSurvivesReset
<1>3. WholeInv'
  BY <1>1 DEF WholeInv, StableFileIsWhole, Undisturbed
<1>4. PathInv'
  BY <1>1 DEF PathInv, RefusedInv, Transfer, StableAnswer, Undisturbed
<1>5. ListInv'
  BY <1>1 DEF ListInv, Lists, StableListing
<1>6. QED
  BY <1>2, <1>3, <1>4, <1>5
-----------------------------------------------------------------------------
(* One entry more that has been looked at. *)
LEMMA RowsStep ==
    ASSUME NEW t, NEW S, NEW e \in S
    PROVE  RowsFor(t, Here \ (S \ {e})) =
              IF e \in Here /\ e[2] = t THEN RowsFor(t, Here \ S) \cup {<<e, t>>}
                                        ELSE RowsFor(t, Here \ S)
BY DEF RowsFor

(* Both scans together. *)
LEMMA RowsTogether ==
    RowsFor("dir", Here) \cup RowsFor("file", Here)
        = {<<e, e[2]>> : e \in {x \in Entries : entries[x[1]] = x[2]}}
<1>1. \A e \in Here : e[2] \in {"dir", "file"}
  BY DEF Here, Entries
<1>2. QED
  BY <1>1 DEF RowsFor, Here

(* What the steps of the scans leave alone. *)
LEMMA ScanKeeps ==
    ASSUME RequestInv, pc \in {"opendir", "readdir"}, pc' \in {"opendir", "readdir", "page"},
           UNCHANGED <<kind, entries, size, changes, peer, opened, offset, len, max, ret,
                       answer, body, left>>,
           starved' = starved \/ starved' = TRUE, ~starved' => ~starved,
           refused' \in {refused, refused \cup {pc}}
    PROVE  EarlyInv' /\ PeerInv' /\ CountInv' /\ WholeInv' /\ PathInv' /\ answer = "none"
<1> USE DEF RequestInv, RestInv
<1>1. answer = "none" /\ body = 0
  BY DEF EarlyInv, Early
<1>2. EarlyInv' /\ PeerInv' /\ CountInv'
  BY <1>1 DEF EarlyInv, PeerInv, CountInv, Early, OneSendSurvivesReset
<1>3. WholeInv'
  BY DEF WholeInv, StableFileIsWhole
<1>4. PathInv'
  BY DEF PathInv, RefusedInv, Transfer, StableAnswer
<1>5. QED
  BY <1>1, <1>2, <1>3, <1>4

LEMMA GetEntryKeeps ==
    ASSUME RequestInv, DirReqHandler
    PROVE  RestInv'
<1> USE DEF RequestInv, RestInv, fsVars, fileVars, Malloc, MallocFails, Refused
<1>1. /\ pc \in {"opendir", "readdir"} /\ pc' \in {"opendir", "readdir", "page"}
      /\ UNCHANGED <<kind, entries, size, changes, peer, opened, offset, len, max, ret,
                     answer, body, left>>
      /\ starved' = starved \/ starved' = TRUE
      /\ ~starved' => ~starved
      /\ refused' \in {refused, refused \cup {pc}}
  BY DEF DirReqHandler, GetEntry_Open, GetEntry_Read, MakeHTML_Rows
<1>2. EarlyInv' /\ PeerInv' /\ CountInv' /\ WholeInv' /\ PathInv' /\ answer = "none"
  BY <1>1, ScanKeeps
<1>3. ListInv'
  <2>1. Here' = Here
    BY <1>1 DEF Here
  <2>2. CASE GetEntry_Open
    <3>1. pc = "opendir" /\ pc' = "readdir" /\ rows' = {} /\ UNCHANGED <<type, table>>
      BY <2>2 DEF GetEntry_Open
    <3>2. changes = 0 /\ ~starved' /\ Lists' => todo' = Here /\ ~starved /\ Lists
      BY <2>2, <3>1 DEF GetEntry_Open, PathInv, Here, Lists
    <3>3. RowsFor(type, Here \ Here) = {}
      BY DEF RowsFor
    <3>4. QED
      BY <1>1, <1>2, <2>1, <3>1, <3>2, <3>3 DEF ListInv, Lists, StableListing, RowsFor
  <2>3. ASSUME NEW e \in todo, GetEntry_Read(e) PROVE ListInv'
    <3>1. pc = "readdir" /\ pc' = "readdir" /\ UNCHANGED <<type, table>>
      BY <2>3 DEF GetEntry_Read
    <3>2. ASSUME changes = 0, ~starved', Lists'
          PROVE  ~starved /\ Lists /\ todo' \subseteq Here /\ rows' = RowsFor(type, Here \ todo')
      <4>1. /\ ~starved /\ Lists /\ todo' = todo \ {e}
            /\ rows' = IF Kept(e) THEN rows \cup {<<e, type>>} ELSE rows
        BY <3>1, <3>2, <2>3 DEF GetEntry_Read, Lists
      <4>2. todo \subseteq Here /\ rows = RowsFor(type, Here \ todo)
        BY <3>1, <3>2, <4>1 DEF ListInv
      <4>3. Kept(e) <=> e \in Here /\ e[2] = type
        <5>1. e \in Here /\ e[2] # "none"
          BY <4>2 DEF Here, Entries
        <5>2. QED
          BY <5>1 DEF Kept, Here
      <4>4. QED
        BY <4>1, <4>2, <4>3, RowsStep
    <3>3. QED
      BY <1>1, <1>2, <2>1, <3>1, <3>2 DEF ListInv, Lists, StableListing, RowsFor
  <2>4. CASE MakeHTML_Rows
    <3>1. /\ pc = "readdir" /\ todo = {}
          /\ IF type = "dir" THEN type' = "file" /\ pc' = "opendir"
                             ELSE pc' = "page" /\ UNCHANGED type
      BY <2>4 DEF MakeHTML_Rows
    <3>2. ASSUME changes = 0, ~starved', Lists'
          PROVE  /\ ~starved /\ Lists
                 /\ type = "dir" => table' = RowsFor("dir", Here)
                 /\ type # "dir" => table' = RowsFor("dir", Here) \cup RowsFor("file", Here)
      <4>1. ~starved /\ Lists /\ table' = table \cup rows
        BY <2>4, <3>2 DEF MakeHTML_Rows, Lists
      <4>2. /\ rows = RowsFor(type, Here \ todo)
            /\ table = IF type = "dir" THEN {} ELSE RowsFor("dir", Here)
        BY <3>1, <3>2, <4>1 DEF ListInv
      <4>3. Here \ todo = Here /\ type \in {"dir", "file"}
        BY <3>1 DEF TypeOK
      <4>4. QED
        BY <4>1, <4>2, <4>3
    <3>3. QED
      BY <1>1, <1>2, <2>1, <3>1, <3>2 DEF ListInv, Lists, StableListing, RowsFor
  <2>5. QED
    BY <2>2, <2>3, <2>4 DEF DirReqHandler
<1>4. QED
  BY <1>2, <1>3

LEMMA ResponseKeeps == RequestInv /\ Response => RestInv'
<1> SUFFICES ASSUME RequestInv, Response PROVE RestInv'
  OBVIOUS
<1> USE DEF RequestInv, RestInv, fsVars, fileVars, dirVars, Malloc, MallocFails, Refused
<1>1. /\ pc \in {"page", "error"} /\ ret' \in {0, 1}
      /\ UNCHANGED <<kind, entries, size, changes, opened, offset, len, max, type, todo,
                     rows, table, body>>
  BY DEF Response
<1>2. answer = "none" /\ body = 0
  BY <1>1 DEF EarlyInv, Early
<1>3. /\ pc' \in {"return", "killed"} /\ answer' \in {"none", pc}
      /\ starved' = starved \/ starved' = TRUE
      /\ ~starved' => ~starved
      /\ refused' = refused
  BY <1>1, <1>2 DEF Response, Killed, TypeOK
<1>4. PeerInv'
  <2>1. CASE Killed
    <3>1. pc' = "killed" /\ UNCHANGED <<peer, left>> /\ left = "fin"
      BY <1>1, <2>1 DEF Killed, PeerInv, Early
    <3>2. QED
      BY <3>1 DEF PeerInv, Early, OneSendSurvivesReset
  <2>2. ASSUME NEW k \in {-1, 1, 2}, Send(2, k), pc' = "return" PROVE PeerInv'
    <3>1. /\ peer' = "open" <=> left' = "no"
          /\ peer' \in {"fin", "reset"} => left' = peer'
      BY <2>2, SendStep
    <3>2. QED
      BY <2>2, <3>1 DEF PeerInv, Early, OneSendSurvivesReset
  <2>3. CASE pc' = "return" /\ UNCHANGED <<peer, left>>
    BY <2>3 DEF PeerInv, Early, OneSendSurvivesReset
  <2>4. QED
    BY <2>1, <2>2, <2>3 DEF Response
<1>5. EarlyInv' /\ CountInv'
  BY <1>1, <1>3 DEF EarlyInv, CountInv, Early
<1>6. WholeInv'
  BY <1>1, <1>3 DEF WholeInv, StableFileIsWhole
<1>7. PathInv'
  <2>1. ASSUME pc' = "return", Undisturbed', ~starved' PROVE answer' = pc
    <3>1. PICK k \in {-1, 1, 2} : Send(2, k) /\ answer' = IF k > 0 THEN pc ELSE answer
      BY <2>1 DEF Response, Killed
    <3>2. k = 2
      BY <2>1, <3>1, SendStep DEF Undisturbed
    <3>3. QED
      BY <3>1, <3>2
  <2>2. changes = 0 /\ ~starved =>
            /\ pc = "page" =>
                  kind = "dir" /\ "access" \notin refused /\ "count" \notin refused
            /\ pc = "error" => kind = "none" \/ "access" \in refused
    BY DEF PathInv
  <2>3. StableAnswer'
    BY <1>1, <1>3, <2>1, <2>2 DEF StableAnswer, Undisturbed
  <2>4. QED
    BY <1>1, <1>3, <2>3 DEF PathInv, RefusedInv, Transfer
<1>8. ListInv'
  <2>1. answer' = "page" => pc = "page"
    BY <1>3, <1>1
  <2>2. QED
    BY <1>1, <1>3, <2>1, RowsTogether DEF ListInv, Lists, StableListing
<1>9. QED
  BY <1>4, <1>5, <1>6, <1>7, <1>8

LEMMA ChangeKeeps == RequestInv /\ Fs_Change => RestInv'
<1> SUFFICES ASSUME RequestInv, Fs_Change PROVE RestInv'
  OBVIOUS
<1> USE DEF RequestInv, RestInv, fileVars, dirVars
<1>1. /\ changes' # 0
      /\ UNCHANGED <<peer, pc, opened, offset, len, max, ret, type, todo, rows, table,
                     answer, body, starved, refused, left>>
  BY ConstantFacts DEF Fs_Change, TypeOK
<1>2. EarlyInv' /\ PeerInv' /\ CountInv'
  BY <1>1 DEF EarlyInv, PeerInv, CountInv, OneSendSurvivesReset
<1>3. WholeInv' /\ PathInv' /\ ListInv'
  BY <1>1 DEF WholeInv, PathInv, RefusedInv, ListInv, StableFileIsWhole, StableAnswer,
       StableListing, Undisturbed
<1>4. QED
  BY <1>2, <1>3

LEMMA LeaveKeeps == RequestInv /\ Peer_Leave => RestInv'
<1> SUFFICES ASSUME RequestInv, Peer_Leave PROVE RestInv'
  OBVIOUS
<1> USE DEF RequestInv, RestInv, fsVars, fileVars, dirVars
<1>1. UNCHANGED <<kind, entries, size, changes, pc, opened, offset, len, max, ret, type,
                  todo, rows, table, answer, body, starved, refused>>
  BY DEF Peer_Leave
<1>2. /\ left' # "no" /\ peer' # "open"
      /\ peer' \in {"fin", "reset"} => left' = peer'
      /\ peer' = "pipe" => peer = "fin" /\ left' = "fin"
      /\ left = "fin" => left' = "fin"
      /\ peer # "pipe"
  BY DEF Peer_Leave, Leaves, PeerInv
<1>3. EarlyInv' /\ PeerInv' /\ CountInv'
  BY <1>1, <1>2 DEF EarlyInv, PeerInv, CountInv, OneSendSurvivesReset
<1>4. WholeInv' /\ PathInv'
  BY <1>1, <1>2 DEF WholeInv, PathInv, RefusedInv, Transfer, StableFileIsWhole, StableAnswer,
       Undisturbed
<1>5. ListInv'
  BY <1>1 DEF ListInv, Lists, StableListing, RowsFor, Here
<1>6. QED
  BY <1>3, <1>4, <1>5

LEMMA StutterKeeps == RequestInv /\ UNCHANGED vars => RestInv'
<1> SUFFICES ASSUME RequestInv, UNCHANGED vars PROVE RestInv'
  OBVIOUS
<1> USE DEF RequestInv, RestInv, vars, fsVars, fileVars, dirVars
<1>1. EarlyInv' /\ PeerInv' /\ CountInv'
  BY DEF EarlyInv, PeerInv, CountInv, OneSendSurvivesReset
<1>2. WholeInv' /\ PathInv'
  BY DEF WholeInv, PathInv, RefusedInv, Transfer, StableFileIsWhole, StableAnswer,
       Undisturbed
<1>3. ListInv'
  BY DEF ListInv, Lists, StableListing, RowsFor, Here
<1>4. QED
  BY <1>1, <1>2, <1>3
-----------------------------------------------------------------------------
LEMMA RequestInductive == RequestInv /\ [Next]_vars => RequestInv'
<1> SUFFICES ASSUME RequestInv, [Next]_vars PROVE RequestInv'
  OBVIOUS
<1>1. TypeOK'
  BY TypeOfPath, TypeOfFile, TypeOfPage, TypeAround
     DEF RequestInv, RestInv, Next, Handler, FileReqHandler
<1>2. RestInv'
  BY PathKeeps, HeadKeeps, ReadKeeps, BodyKeeps, CompareKeeps, GetEntryKeeps,
     ResponseKeeps, ChangeKeeps, LeaveKeeps, StutterKeeps DEF Next, Handler, FileReqHandler
<1>3. QED
  BY <1>1, <1>2 DEF RequestInv

LEMMA RequestInvariant == Spec => []RequestInv
<1>1. Init => RequestInv
  BY TypeInitially, RestInitially DEF RequestInv
<1>2. QED
  BY <1>1, RequestInductive, PTL DEF Spec

(* A request that nobody disturbs is answered with all of what its path names
   (RequestHandler and everything it calls), for directories and files of any
   size, any size of the buffer and any width of int. *)
THEOREM StableRequests == Spec => []StableRequestIsAnswered
<1>1. RequestInv => StableRequestIsAnswered
  BY DEF RequestInv, RestInv, StableRequestIsAnswered, PathInv, WholeInv, ListInv
<1>2. QED
  BY <1>1, RequestInvariant, PTL

(* FileReqHandler reports success only if as much went out as it announced,
   although it counts failed sends as -1 and the count may wrap. *)
THEOREM Delivery == Spec => []SuccessMeansDelivered
<1>1. RequestInv => SuccessMeansDelivered
  BY DEF RequestInv, RestInv, CountInv, SuccessMeansDelivered
<1>2. QED
  BY <1>1, RequestInvariant, PTL

(* A reset of the connection ends the process only in the middle of a file. *)
THEOREM Survival == Spec => []OneSendSurvivesReset
<1>1. RequestInv => OneSendSurvivesReset
  BY DEF RequestInv, RestInv, PeerInv
<1>2. QED
  BY <1>1, RequestInvariant, PTL
=============================================================================
