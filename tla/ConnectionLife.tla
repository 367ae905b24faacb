--------------------------- MODULE ConnectionLife ---------------------------
(***************************************************************************)
(* What tcp_server.c promises to its listener, seen from outside: no       *)
(* descriptors, no sets to select from and no passes over them.            *)
(* Connections are taken in the order they came.  Of each the listener     *)
(* hears EVT_CONN when it is taken, and EVT_CLOSE at most once after that, *)
(* only when the peer has left or when the listener itself has closed the  *)
(* client.  After EVT_CLOSE the connection is given up.                    *)
(*                                                                         *)
(* Two things are not promised, and the code does not do them: that every  *)
(* connection that is taken is heard of, since there may be no memory for  *)
(* its client, and that the listener is told the end of a client it has    *)
(* closed, since the next connection may take that client's place.         *)
(*                                                                         *)
(* EventLoop implements this module.                                       *)
(***************************************************************************)
EXTENDS Sequences

CONSTANTS
    Conns,      \* connections
    MayLose     \* BOOLEAN: there may be no memory for a connection's client

VARIABLES
    open,       \* the server accepts
    listening,  \* a listener is set
    come, left, \* connections whose peer has come, and has left again
    line,       \* those that wait to be taken
    served,     \* those that have a client
    closed,     \* those whose client the listener has closed
    heard       \* the last event of a connection, or "none"

vars == <<open, listening, come, left, line, served, closed, heard>>

Init ==
    /\ open = FALSE /\ listening = FALSE
    /\ come = {} /\ left = {} /\ line = <<>>
    /\ served = {} /\ closed = {}
    /\ heard = [c \in Conns |-> "none"]

(* A listener that comes late would not know the clients there are. *)
Listen ==
    /\ ~listening /\ served = {} /\ closed = {}
    /\ listening' = TRUE
    /\ UNCHANGED <<open, come, left, line, served, closed, heard>>

Open ==
    /\ ~open /\ open' = TRUE
    /\ UNCHANGED <<listening, come, left, line, served, closed, heard>>

Shut ==
    /\ open /\ open' = FALSE
    /\ line' = <<>> /\ served' = {} /\ closed' = {}
    /\ UNCHANGED <<listening, come, left, heard>>

Arrive(c) ==
    /\ open /\ c \notin come
    /\ come' = come \cup {c} /\ line' = Append(line, c)
    /\ UNCHANGED <<open, listening, left, served, closed, heard>>

Leave(c) ==
    /\ c \in come \ left
    /\ left' = left \cup {c}
    /\ UNCHANGED <<open, listening, come, line, served, closed, heard>>

(* The first of the line is taken.  It may displace one closed client. *)
Take(c) ==
    /\ open /\ line # <<>> /\ c = Head(line)
    /\ line' = Tail(line)
    /\ \/ closed' = closed
       \/ \E b \in closed : closed' = closed \ {b}
    /\ \/ /\ served' = served \cup {c}
          /\ heard' = IF listening THEN [heard EXCEPT ![c] = "EVT_CONN"] ELSE heard
       \/ MayLose /\ UNCHANGED <<served, heard>>
    /\ UNCHANGED <<open, listening, come, left>>

CloseClient(c) ==
    /\ listening /\ c \in served
    /\ served' = served \ {c} /\ closed' = closed \cup {c}
    /\ UNCHANGED <<open, listening, come, left, line, heard>>

TellEnd(c) ==
    /\ listening /\ c \in (served \cap left) \cup closed
    /\ heard[c] = "EVT_CONN" /\ heard' = [heard EXCEPT ![c] = "EVT_CLOSE"]
    /\ UNCHANGED <<open, listening, come, left, line, served, closed>>

GiveUp(c) ==
    /\ heard[c] = "EVT_CLOSE" /\ c \in served \cup closed
    /\ served' = served \ {c} /\ closed' = closed \ {c}
    /\ UNCHANGED <<open, listening, come, left, line, heard>>

Next ==
    \/ Listen \/ Open \/ Shut
    \/ \E c \in Conns :
          Arrive(c) \/ Leave(c) \/ Take(c) \/ CloseClient(c) \/ TellEnd(c) \/ GiveUp(c)

Spec == Init /\ [][Next]_vars
=============================================================================
