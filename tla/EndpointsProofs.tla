--------------------------- MODULE EndpointsProofs ---------------------------
(***************************************************************************)
(* Who holds which descriptor, for any number of descriptors and clients:  *)
(* as long as nobody has closed what is not his every object knows its own *)
(* descriptor, nothing is forgotten, and there are two ways to go astray.  *)
(***************************************************************************)
EXTENDS Endpoints, TLAPS

USE EndpointsAssumption DEF Objects

TableOK ==
    /\ table \in [Descriptors -> Objects \cup {Free, Other}]
    /\ up \subseteq {d \in Descriptors : table[d] \in Clients \cup {Server}}
    /\ stray \in BOOLEAN /\ careless \subseteq Objects

(* What socket() and accept() do for o: a free number is o's. *)
LEMMA Taken ==
    ASSUME TableOK, NEW o \in Objects \cup {Other}, NEW d \in Descriptors,
           NEW isUp \in BOOLEAN, isUp => o \in Clients \cup {Server},
           Take(o, d, isUp)
    PROVE  /\ TableOK' /\ stray' = stray
           /\ table[d] = Free /\ table'[d] = o
           /\ \A e \in Descriptors : e # d => table'[e] = table[e]
           /\ up \subseteq up' /\ (isUp => d \in up')
           /\ careless \subseteq careless'
           /\ o \in Objects \ careless' => Held(o) = {}
<1>1. table[d] = Free
  BY DEF Take, IsLowest, FreeOnes
<1>2. table' = [table EXCEPT ![d] = o] /\ up' = (IF isUp THEN up \cup {d} ELSE up) /\ stray' = stray /\ Asks(o)
  BY DEF Take
<1>3. careless' \subseteq Objects /\ careless \subseteq careless'
      /\ (o \in Objects \ careless' => Held(o) = {})
  BY <1>2 DEF Asks, TableOK
<1>4. TableOK'
  BY <1>1, <1>2, <1>3 DEF TableOK
<1>5. QED
  BY <1>1, <1>2, <1>3, <1>4 DEF TableOK

(* What close() of any number by o does. *)
LEMMA IsClosed ==
    ASSUME TableOK, NEW o \in Objects \cup {Other}, NEW d, Close(o, d)
    PROVE  /\ TableOK' /\ careless' = careless
           /\ \A e \in Descriptors : e # d => table'[e] = table[e] /\ (e \in up => e \in up')
           /\ d \in Descriptors => table'[d] = Free
           /\ ~stray' => ~stray /\ (d \in Descriptors => table[d] \in {o, Free})
  BY DEF Close, TableOK

(* What an object knows, and what it has. *)
HandlesOf(o) == \A d \in Descriptors : fd[o] = d => table[d] = o
Own == ~stray => \A o \in Clients \cup {Point} : HandlesOf(o)
Listens == ~stray /\ valid => fd[Server] \in up /\ table[fd[Server]] = Server
Remembered == \A o \in Objects \ careless : \A d \in Descriptors : table[d] = o => fd[o] = d

Inv == TypeOK /\ Own /\ Listens /\ Remembered

LEMMA InvIsInv == Inv => TableOK /\ HandlesAreOwn /\ NothingIsForgotten
  BY DEF Inv, TypeOK, TableOK, HandlesAreOwn, NothingIsForgotten, Own, Listens, HandlesOf, Remembered, Held

LEMMA InitInv == Init => Inv
<1> SUFFICES ASSUME Init PROVE Inv
  OBVIOUS
<1>1. /\ \A d \in Descriptors : table[d] \in {Free, Other}
      /\ \A o \in Objects : fd[o] = NULL
  BY DEF Init
<1>2. TypeOK
  BY DEF Init, TypeOK
<1>3. Own
  BY <1>1 DEF Own, HandlesOf
<1>4. Listens /\ Remembered
  BY <1>1 DEF Init, Listens, Remembered
<1>5. QED
  BY <1>2, <1>3, <1>4 DEF Inv

(* An object takes a descriptor and knows it from now on. *)
LEMMA TakeStep ==
    ASSUME Inv, NEW o \in Objects, NEW d \in Descriptors, NEW isUp \in BOOLEAN,
           isUp => o \in Clients \cup {Server},
           Take(o, d, isUp), fd' = [fd EXCEPT ![o] = d],
           valid' = IF o = Server THEN isUp ELSE valid
    PROVE  Inv'
<1> USE DEF Inv
<1>1. /\ TableOK' /\ stray' = stray
      /\ table[d] = Free /\ table'[d] = o
      /\ \A e \in Descriptors : e # d => table'[e] = table[e]
      /\ up \subseteq up' /\ (isUp => d \in up')
      /\ careless \subseteq careless'
      /\ o \in Objects \ careless' => Held(o) = {}
  BY Taken, InvIsInv
<1>2. fd \in [Objects -> Descriptors \cup {-1, NULL}] /\ valid \in BOOLEAN /\ (valid => fd[Server] # NULL)
  BY DEF TypeOK
<1>3. TypeOK'
  BY <1>1, <1>2 DEF TypeOK, TableOK
<1>4. Own'
  BY <1>1, <1>2 DEF Own, HandlesOf
<1>5. up \subseteq Descriptors
  BY DEF TypeOK
<1>6. Listens'
  BY <1>1, <1>2, <1>5 DEF Listens
<1>7. Remembered'
  BY <1>1, <1>2 DEF Remembered, Held
<1>8. QED
  BY <1>3, <1>4, <1>6, <1>7

(* An object closes the descriptor it knows and keeps the number, knows none, or
   is gone. *)
LEMMA CloseStep ==
    ASSUME Inv, NEW o \in Objects, NEW n \in {-1, NULL, fd[o]},
           n = fd[o] => o = Server,
           fd[o] # NULL, Close(o, fd[o]), fd' = [fd EXCEPT ![o] = n],
           valid' = IF o = Server THEN FALSE ELSE valid
    PROVE  Inv'
<1> USE DEF Inv
<1>1. /\ TableOK' /\ careless' = careless
      /\ \A e \in Descriptors : e # fd[o] => table'[e] = table[e] /\ (e \in up => e \in up')
      /\ fd[o] \in Descriptors => table'[fd[o]] = Free
      /\ ~stray' => ~stray /\ (fd[o] \in Descriptors => table[fd[o]] \in {o, Free})
  BY IsClosed, InvIsInv
<1>2. fd \in [Objects -> Descriptors \cup {-1, NULL}] /\ valid \in BOOLEAN
      /\ (valid => fd[Server] # NULL) /\ up \subseteq Descriptors
  BY DEF TypeOK
<1>3. TypeOK'
  <2>1. fd' \in [Objects -> Descriptors \cup {-1, NULL}]
    BY <1>2
  <2>2. valid' \in BOOLEAN /\ (valid' => fd'[Server] # NULL)
    BY <1>2
  <2>3. QED
    BY <1>1, <2>1, <2>2 DEF TypeOK, TableOK
<1>4. Own'
  <2> SUFFICES ASSUME ~stray', NEW x \in Clients \cup {Point}, NEW d \in Descriptors, fd'[x] = d
               PROVE  table'[d] = x
    BY DEF Own, HandlesOf
  <2>1. x # o
    BY <1>2
  <2>2. fd[x] = d /\ table[d] = x
    BY <1>1, <1>2, <2>1 DEF Own, HandlesOf
  <2>3. d # fd[o]
    BY <1>1, <2>1, <2>2
  <2>4. QED
    BY <1>1, <2>2, <2>3
<1>5. Listens'
  BY <1>1, <1>2 DEF Listens
<1>6. Remembered'
  BY <1>1, <1>2 DEF Remembered
<1>7. QED
  BY <1>3, <1>4, <1>5, <1>6

(* Nothing happens to the descriptors, and an object is made, or asks in vain. *)
LEMMA QuietStep ==
    ASSUME Inv, NEW o \in Objects, UNCHANGED <<table, up, stray>>,
           \/ fd[o] = NULL /\ UNCHANGED careless
           \/ Asks(o),
           fd' = [fd EXCEPT ![o] = -1],
           valid' = IF o = Server THEN FALSE ELSE valid
    PROVE  Inv'
<1> USE DEF Inv
<1>1. fd \in [Objects -> Descriptors \cup {-1, NULL}] /\ valid \in BOOLEAN
      /\ (valid => fd[Server] # NULL)
  BY DEF TypeOK
<1>2. /\ careless' \subseteq Objects /\ careless \subseteq careless'
      /\ o \in Objects \ careless' => \A d \in Descriptors : table[d] # o
  <2>1. CASE fd[o] = NULL /\ UNCHANGED careless
    BY <2>1 DEF TypeOK, Remembered
  <2>2. CASE Asks(o)
    BY <2>2 DEF TypeOK, Asks, Held
  <2>3. QED
    BY <2>1, <2>2
<1>3. TypeOK'
  BY <1>1, <1>2 DEF TypeOK
<1>4. Own'
  <2>1. \A x \in Objects, d \in Descriptors : fd'[x] = d => fd[x] = d
    BY <1>1
  <2>2. QED
    BY <2>1 DEF Own, HandlesOf
<1>7. Listens'
  BY <1>1 DEF Listens
<1>5. Remembered'
  BY <1>1, <1>2 DEF Remembered
<1>6. QED
  BY <1>3, <1>4, <1>5, <1>7

(* A descriptor is closed that nobody here knows, or that goes astray; no object
   changes. *)
LEMMA ForeignClose ==
    ASSUME Inv, NEW o \in {Other, Point}, NEW d \in Descriptors \cup {-1},
           Close(o, d), o = Other => table[d] = Other /\ d \in Descriptors,
           o = Point => fd[Point] = NULL,
           UNCHANGED <<fd, valid>>
    PROVE  Inv'
<1> USE DEF Inv
<1>1. /\ TableOK' /\ careless' = careless
      /\ \A e \in Descriptors : e # d => table'[e] = table[e] /\ (e \in up => e \in up')
      /\ d \in Descriptors => table'[d] = Free
      /\ ~stray' => ~stray /\ (d \in Descriptors => table[d] \in {o, Free})
  BY IsClosed, InvIsInv
<1>2. fd \in [Objects -> Descriptors \cup {-1, NULL}] /\ up \subseteq Descriptors
  BY DEF TypeOK
<1>3. TypeOK'
  BY <1>1 DEF TypeOK, TableOK
<1>4. Own'
  <2> SUFFICES ASSUME ~stray', NEW x \in Clients \cup {Point}, NEW e \in Descriptors, fd'[x] = e
               PROVE  table'[e] = x
    BY DEF Own, HandlesOf
  <2>1. fd[x] = e /\ table[e] = x
    BY <1>1 DEF Own, HandlesOf
  <2>2. x # o
    <3>1. CASE o = Other
      BY <3>1
    <3>2. CASE o = Point
      <4>1. fd[Point] = NULL /\ fd[x] = e
        BY <3>2, <2>1
      <4>2. e # NULL
        OBVIOUS
      <4>3. QED
        BY <3>2, <4>1, <4>2
    <3>3. QED
      BY <3>1, <3>2
  <2>3. QED
    BY <1>1, <2>1, <2>2
<1>5. Listens'
  <2> SUFFICES ASSUME ~stray', valid' PROVE fd'[Server] \in up' /\ table'[fd'[Server]] = Server
    BY DEF Listens
  <2>1. ~stray /\ valid /\ fd[Server] \in up /\ table[fd[Server]] = Server
    BY <1>1 DEF Listens
  <2>2. fd[Server] # d
    BY <1>1, <1>2, <2>1
  <2>3. QED
    BY <1>1, <1>2, <2>1, <2>2
<1>6. Remembered'
  <2> SUFFICES ASSUME NEW x \in Objects \ careless', NEW e \in Descriptors, table'[e] = x
               PROVE  fd'[x] = e
    BY DEF Remembered
  <2>1. e # d
    BY <1>1
  <2>2. table[e] = x /\ x \notin careless
    BY <1>1, <2>1
  <2>3. QED
    BY <2>2 DEF Remembered
<1>7. QED
  BY <1>3, <1>4, <1>5, <1>6

LEMMA NextInv == Inv /\ [Next]_vars => Inv'
<1> SUFFICES ASSUME Inv, [Next]_vars PROVE Inv'
  OBVIOUS
<1>0. fd \in [Objects -> Descriptors \cup {-1, NULL}] /\ valid \in BOOLEAN
  BY DEF Inv, TypeOK
<1>1. CASE Other_Open
  <2>1. PICK d \in Descriptors : Take(Other, d, FALSE) /\ UNCHANGED <<fd, valid>>
    BY <1>1 DEF Other_Open
  <2>2. /\ TableOK' /\ stray' = stray
        /\ table[d] = Free /\ table'[d] = Other
        /\ \A e \in Descriptors : e # d => table'[e] = table[e]
        /\ up \subseteq up' /\ careless \subseteq careless'
    BY <2>1, Taken, InvIsInv
  <2>3. TypeOK'
    BY <2>1, <2>2 DEF Inv, TypeOK, TableOK
  <2>4. QED
    BY <1>0, <2>1, <2>2, <2>3 DEF Inv, Own, HandlesOf, Listens, Remembered, TypeOK
<1>2. CASE Other_Close
  BY <1>2, ForeignClose DEF Other_Close, Held
<1>3. CASE Peer_Leave
  BY <1>3, <1>0 DEF Peer_Leave, Inv, TypeOK, Own, HandlesOf, Listens, Remembered
<1>4. CASE TcpServer_New
  BY <1>4, QuietStep DEF TcpServer_New, Made, NoDescriptor
<1>5. CASE TcpServer_Start
  <2>1. CASE \E d \in Descriptors, ok \in BOOLEAN :
                Take(Server, d, ok) /\ Knows(Server, d) /\ valid' = ok
    BY <2>1, TakeStep DEF Knows
  <2>2. CASE Knows(Server, -1) /\ valid' = FALSE /\ TakeFails(Server)
    BY <2>2, QuietStep DEF Knows, TakeFails
  <2>3. QED
    BY <1>5, <2>1, <2>2 DEF TcpServer_Start
<1>6. CASE TcpServer_Stop
  <2>1. fd' = [fd EXCEPT ![Server] = fd[Server]]
    BY <1>6, <1>0 DEF TcpServer_Stop
  <2>2. QED
    BY <1>6, <2>1, CloseStep DEF TcpServer_Stop
<1>7. CASE TcpServer_Del
  BY <1>7, CloseStep DEF TcpServer_Del, Knows
<1>8. CASE UdpPoint_New
  <2>1. CASE \E d \in Descriptors : Take(Point, d, FALSE) /\ Made(Point, d)
    <3>1. PICK d \in Descriptors : Take(Point, d, FALSE) /\ Made(Point, d)
      BY <2>1
    <3>2. fd' = [fd EXCEPT ![Point] = d] /\ valid' = valid
      BY <3>1, <1>8 DEF Made, UdpPoint_New
    <3>3. QED
      BY <3>1, <3>2, TakeStep
  <2>2. CASE fd[Point] = NULL /\ UNCHANGED fd /\ NoDescriptor
    BY <2>2, <1>8 DEF UdpPoint_New, NoDescriptor, Inv, TypeOK, Own, HandlesOf, Listens, Remembered
  <2>3. CASE /\ fd[Point] = NULL /\ UNCHANGED fd
             /\ \E d \in Descriptors \cup {-1} : Close(Point, d)
    BY <2>3, <1>8, ForeignClose DEF UdpPoint_New
  <2>4. QED
    BY <1>8, <2>1, <2>2, <2>3 DEF UdpPoint_New, Undone
<1>9. CASE UdpPoint_From
  <2>1. PICK d \in Held(Other) : Made(Point, d) /\ table' = [table EXCEPT ![d] = Point]
    BY <1>9 DEF UdpPoint_From
  <2>2. UNCHANGED <<up, valid, stray, careless>>
    BY <1>9 DEF UdpPoint_From
  <2>3. d \in Descriptors /\ table[d] = Other /\ fd[Point] = NULL /\ fd' = [fd EXCEPT ![Point] = d]
    BY <2>1 DEF Held, Made
  <2>4. TypeOK'
    BY <2>1, <2>2, <2>3 DEF Inv, TypeOK
  <2>5. Own' /\ Listens'
    BY <1>0, <2>1, <2>2, <2>3 DEF Inv, TypeOK, Own, HandlesOf, Listens
  <2>6. Remembered'
    BY <1>0, <2>1, <2>2, <2>3 DEF Inv, TypeOK, Remembered
  <2>7. QED
    BY <2>4, <2>5, <2>6 DEF Inv
<1>10. CASE UdpPoint_Del
  BY <1>10, CloseStep DEF UdpPoint_Del, Knows
<1>11. ASSUME NEW c \in Clients, TcpServer_Accept(c) PROVE Inv'
  <2>1. CASE \E d \in Descriptors : Take(c, d, TRUE) /\ Made(c, d)
    <3>1. PICK d \in Descriptors : Take(c, d, TRUE) /\ Made(c, d)
      BY <2>1
    <3>2. fd' = [fd EXCEPT ![c] = d] /\ valid' = valid
      BY <3>1, <1>11 DEF Made, TcpServer_Accept
    <3>3. QED
      BY <3>1, <3>2, TakeStep
  <2>2. CASE NoDescriptor /\ UNCHANGED fd
    BY <2>2, <1>11 DEF TcpServer_Accept, NoDescriptor, Inv, TypeOK, Own, HandlesOf, Listens, Remembered
  <2>3. QED
    BY <1>11, <2>1, <2>2 DEF TcpServer_Accept
<1>12. ASSUME NEW c \in Clients, TcpClient_New(c) PROVE Inv'
  BY <1>12, QuietStep DEF TcpClient_New, Made, NoDescriptor
<1>13. ASSUME NEW c \in Clients, TcpClient_Connect(c) PROVE Inv'
  <2>1. CASE \E d \in Descriptors, ok \in BOOLEAN : Take(c, d, ok) /\ Knows(c, d)
    BY <2>1, <1>13, TakeStep DEF Knows, TcpClient_Connect
  <2>2. CASE Knows(c, -1) /\ TakeFails(c)
    BY <2>2, <1>13, QuietStep DEF Knows, TakeFails, TcpClient_Connect
  <2>3. QED
    BY <1>13, <2>1, <2>2 DEF TcpClient_Connect
<1>14. ASSUME NEW c \in Clients, TcpClient_Close(c) PROVE Inv'
  <2>1. fd[c] # NULL /\ fd' = [fd EXCEPT ![c] = -1] /\ Close(c, fd[c]) /\ valid' = valid
    BY <1>14 DEF TcpClient_Close, Knows, Closed
  <2>2. CASE fd[c] = -1
    <3>1. NoDescriptor
      <4>1. table' = table /\ up' = up /\ stray' = stray
        BY <2>1, <2>2 DEF Close, Inv, TypeOK
      <4>2. QED
        BY <2>1, <4>1 DEF Close, NoDescriptor
    <3>2. fd' = fd
      BY <1>0, <2>1, <2>2
    <3>3. QED
      BY <2>1, <3>1, <3>2 DEF NoDescriptor, Inv, TypeOK, Own, HandlesOf, Listens, Remembered
  <2>3. CASE fd[c] # -1
    BY <2>1, <2>3, CloseStep
  <2>4. QED
    BY <2>2, <2>3
<1>15. ASSUME NEW c \in Clients, TcpClient_Del(c) PROVE Inv'
  BY <1>15, CloseStep DEF TcpClient_Del, Knows
<1>16. CASE UNCHANGED vars
  BY <1>16 DEF vars, Inv, TypeOK, Own, HandlesOf, Listens, Remembered
<1>17. QED
  BY <1>1, <1>2, <1>3, <1>4, <1>5, <1>6, <1>7, <1>8, <1>9, <1>10, <1>11,
     <1>12, <1>13, <1>14, <1>15, <1>16 DEF Next

(* The inductive invariant: types, and objects and table agree. *)
THEOREM Invariance == Spec => []Inv
  BY InitInv, NextInv, PTL DEF Spec

(* The objects and the descriptors keep their types, and a server that is gone is
   not valid. *)
THEOREM TypeCorrect == Spec => []TypeOK
<1>1. Inv => TypeOK
  BY DEF Inv
<1>2. QED
  BY <1>1, Invariance, PTL

(* As long as nobody has closed what was not his, every object's descriptor is
   its own, and a valid server listens. *)
THEOREM Handles == Spec => []HandlesAreOwn
  BY InvIsInv, Invariance, PTL

(* No descriptor is left behind but by an object that asked for another. *)
THEOREM Forgotten == Spec => []NothingIsForgotten
  BY InvIsInv, Invariance, PTL

(* Stop or Del of a server that was stopped before, and UdpPoint_New without
   memory: nothing else closes somebody else's descriptor. *)
THEOREM Astray == Spec => TwoWaysAstray
<1> DEFINE Way ==
        ~stray /\ stray' =>
            \/ ~valid /\ \E d \in Descriptors : fd[Server] = d /\ table[d] # Server
            \/ MallocMayFail /\ fd[Point] = NULL /\ UNCHANGED fd
<1>1. ASSUME Inv, [Next]_vars, ~stray, stray'
      PROVE  \/ ~valid /\ \E d \in Descriptors : fd[Server] = d /\ table[d] # Server
             \/ MallocMayFail /\ fd[Point] = NULL /\ UNCHANGED fd
  <2>0. Own /\ Listens
    BY <1>1 DEF Inv
  <2>1. ASSUME NEW o \in Clients \cup {Point}, Close(o, fd[o]) PROVE FALSE
    BY <1>1, <2>0, <2>1 DEF Close, Own, HandlesOf
  <2>2. ASSUME Close(Server, fd[Server])
        PROVE  ~valid /\ \E d \in Descriptors : fd[Server] = d /\ table[d] # Server
    BY <1>1, <2>0, <2>2 DEF Close, Listens
  <2>3. ~Other_Close
    BY <1>1 DEF Other_Close, Close, Held
  <2>4. ASSUME UdpPoint_New PROVE MallocMayFail /\ fd[Point] = NULL /\ UNCHANGED fd
    BY <1>1, <2>4 DEF UdpPoint_New, Undone, Take, NoDescriptor
  <2>5. ASSUME NEW c \in Clients
        PROVE  ~TcpServer_Accept(c) /\ ~TcpClient_New(c) /\ ~TcpClient_Connect(c)
               /\ ~TcpClient_Close(c) /\ ~TcpClient_Del(c)
    <3>1. ~TcpClient_Close(c) /\ ~TcpClient_Del(c)
      BY <2>1 DEF TcpClient_Close, TcpClient_Del
    <3>2. ~TcpServer_Accept(c) /\ ~TcpClient_New(c) /\ ~TcpClient_Connect(c)
      BY <1>1 DEF TcpServer_Accept, TcpClient_New, TcpClient_Connect, Take, TakeFails, NoDescriptor
    <3>3. QED
      BY <3>1, <3>2
  <2>6. ~TcpServer_New /\ ~TcpServer_Start /\ ~Other_Open /\ ~Peer_Leave /\ ~UdpPoint_From
    BY <1>1 DEF TcpServer_New, TcpServer_Start, Other_Open, Peer_Leave, UdpPoint_From,
                Take, TakeFails, NoDescriptor
  <2>7. ~UdpPoint_Del
    BY <2>1 DEF UdpPoint_Del
  <2>8. ~UNCHANGED vars
    BY <1>1 DEF vars
  <2>9. QED
    BY <1>1, <2>2, <2>3, <2>4, <2>5, <2>6, <2>7, <2>8 DEF Next, TcpServer_Stop, TcpServer_Del
<1>2. Inv /\ [Next]_vars => [Way]_vars
  BY <1>1
<1>3. QED
  BY <1>2, Invariance, PTL DEF Spec, TwoWaysAstray
=============================================================================
