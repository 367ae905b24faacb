----------------------------- MODULE MCEndpoints -----------------------------
(* Values for the constants of Endpoints. *)
EXTENDS Endpoints, TLC

FewDescriptors == 0..2
Symmetry == Permutations(Clients)
=============================================================================
