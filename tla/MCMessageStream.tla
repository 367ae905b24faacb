--------------------------- MODULE MCMessageStream ---------------------------
(* Values for the constants of MessageStream, with a header of two bytes. *)
EXTENDS MessageStream

(* An unsigned int of 4 bits: every message fits the int that is its size. *)
ShortLengths == {0, 1, 2}
AnyLengths == {1, 15}

(* An unsigned int of 3 bits: of a message of 3 bytes the size is negative as
   an int, of one of 7 it is a single byte.  Other bytes say 0, what no malloc
   grants (5), and what makes blocks of no byte and of one (6 and 7). *)
EdgeLengths == {1, 3, 7}
ForeignLengths == {0, 5, 6, 7}
ForeignSizes == {2, 3}
=============================================================================
