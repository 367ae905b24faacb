------------------------- MODULE MCMessageDatagrams -------------------------
(* Values for the constants of MessageDatagrams: a header of 2 bytes, a buffer
   of 4 and an unsigned int of 4 bits. *)
EXTENDS MessageDatagrams, TLC

(* Messages of the buffer's size, of one byte more, which is cut, and of 15
   bytes, of which SendMsg sends one. *)
SomeLengths == {0, 2, 3, 15}

(* Other bytes say what is a length, what no malloc grants (9), and what makes
   blocks of no byte and of one (14 and 15). *)
ForeignLengths == {2, 9, 14, 15}
ForeignSizes == {1, 3}
Symmetry == Permutations(Remotes)
=============================================================================
