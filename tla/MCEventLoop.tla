----------------------------- MODULE MCEventLoop -----------------------------
(* Values for the constants of EventLoop. *)
EXTENDS EventLoop

SomeDescriptors == {3, 5}
FourDescriptors == 3..6
Anything == {"ignore", "read", "close", "stop"}
=============================================================================
