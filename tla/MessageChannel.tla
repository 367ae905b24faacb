---------------------------- MODULE MessageChannel ----------------------------
(***************************************************************************)
(* What a user of TcpClient_SendMsg and TcpClient_RecvMsg relies on: on    *)
(* one connection messages come out whole, in the order they went in, with *)
(* none missing and none twice; messages not received when the connection  *)
(* is replaced are lost, and no part of them is ever seen later.           *)
(***************************************************************************)
EXTENDS Naturals, Sequences

CONSTANT Lengths

VARIABLES
    sent,      \* the messages sent so far, on all connections: their lengths
    next,      \* the message to come out next
    received   \* the numbers of the messages that came out

vars == <<sent, next, received>>

Init == sent = <<>> /\ next = 1 /\ received = <<>>

Send ==
    /\ \E length \in Lengths : sent' = Append(sent, length)
    /\ UNCHANGED <<next, received>>

Receive ==
    /\ next <= Len(sent)
    /\ received' = Append(received, next)
    /\ next' = next + 1
    /\ UNCHANGED sent

Replace ==
    /\ next' = Len(sent) + 1
    /\ UNCHANGED <<sent, received>>

Next == Send \/ Receive \/ Replace

Spec == Init /\ [][Next]_vars
=============================================================================
