---------------------------- MODULE MCFileServer ----------------------------
(* Values for the constants of FileServer. *)
EXTENDS FileServer, TLC

AllFaults == {"malloc", "bind", "listen", "pthread"}
NoFaults == {}

(* Connections are told apart by their names only, and so are chunks. *)
Symmetry == Permutations(Clients) \cup Permutations(Chunks)
=============================================================================
