---------------------------- MODULE GatedService ----------------------------
(***************************************************************************)
(* What the file server promises, seen from outside: an operator opens,    *)
(* holds and re-opens a gate, and every connection that arrives is either  *)
(* refused, or chosen, admitted and answered at most once.  The gate is    *)
(* consulted for one connection at a time, and only when that connection   *)
(* is chosen: holding the gate does not call back the one connection that  *)
(* was chosen before, but lets no other one through.                       *)
(*                                                                         *)
(* FileServer implements this module (main.c:64-85 is the gate,            *)
(* main.c:27-62 the answer).                                               *)
(***************************************************************************)
CONSTANTS
    Clients,    \* connections
    MayRefuse,  \* BOOLEAN: a connection may be refused while the gate is not held
    MayLose     \* BOOLEAN: a chosen connection may never be admitted

VARIABLES
    gate,       \* "STOP", "RUN" or "PAUSE"
    phase       \* phase[c], how far connection c has come

vars == <<gate, phase>>

Phases == {"absent", "waiting", "chosen", "admitted", "answered", "over",
           "refused", "lost"}

Init ==
    /\ gate = "STOP"
    /\ phase = [c \in Clients |-> "absent"]

Move(c, from, to) ==
    /\ phase[c] = from
    /\ phase' = [phase EXCEPT ![c] = to]
    /\ UNCHANGED gate

Arrive(c) == Move(c, "absent", "waiting")

(* The one place where the gate is consulted. *)
Choose(c) ==
    /\ gate # "PAUSE"
    /\ \A d \in Clients : phase[d] # "chosen"
    /\ Move(c, "waiting", "chosen")

Refuse(c) ==
    /\ gate = "PAUSE" \/ MayRefuse
    /\ Move(c, "waiting", "refused")

Admit(c) == Move(c, "chosen", "admitted")

Lose(c) == MayLose /\ Move(c, "chosen", "lost")

Answer(c) == Move(c, "admitted", "answered")

Finish(c) == Move(c, "admitted", "over") \/ Move(c, "answered", "over")

(* The operator opens the gate, or holds an open gate. *)
Operate ==
    /\ \/ gate' = "RUN"
       \/ gate = "RUN" /\ gate' = "PAUSE"
    /\ UNCHANGED phase

Next ==
    \/ Operate
    \/ \E c \in Clients :
          Arrive(c) \/ Choose(c) \/ Refuse(c) \/ Admit(c) \/ Lose(c)
             \/ Answer(c) \/ Finish(c)

Spec == Init /\ [][Next]_vars
=============================================================================
