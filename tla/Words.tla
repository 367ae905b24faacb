------------------------------- MODULE Words -------------------------------
(***************************************************************************)
(* Texts as C keeps them, and what it means to cut one at a separator: the *)
(* definitions that the string functions of the program are compared with. *)
(* A text is a sequence of characters, a buffer a function from offsets,   *)
(* and the text in a buffer goes up to its first Nul.                      *)
(***************************************************************************)
EXTENDS Integers, Sequences, FiniteSets

CONSTANT Nul   \* the character 0

(* Where the words of s begin, and where the one at p ends. *)
Starts(s, sep) ==
    {p \in 1..Len(s) : s[p] # sep /\ (p > 1 => s[p - 1] = sep)}
WordEnd(s, sep, p) ==
    CHOOSE e \in p..Len(s) :
        (\A q \in p..e : s[q] # sep) /\ (e < Len(s) => s[e + 1] = sep)

(* The words of s: its longest runs of characters other than sep, in order. *)
WordsOf(s, sep) ==
    LET At(k) == CHOOSE p \in Starts(s, sep) :
                     Cardinality({q \in Starts(s, sep) : q <= p}) = k
    IN [k \in 1..Cardinality(Starts(s, sep)) |->
            SubSeq(s, At(k), WordEnd(s, sep, At(k)))]

(* s has neither a separator at an end nor two in a row. *)
IsClean(s, sep) ==
    \A p \in 1..Len(s) : s[p] = sep => 1 < p /\ p < Len(s) /\ s[p + 1] # sep

(* What strlen() and printf() make of the buffer b from offset at on. *)
TextEnd(b, at) ==
    CHOOSE d \in DOMAIN b :
        d >= at /\ b[d] = Nul /\ \A m \in at..(d - 1) : b[m] # Nul
Strlen(b, at) == TextEnd(b, at) - at
Text(b, at) == [k \in 1..Strlen(b, at) |-> b[at + k - 1]]

(* strcpy() of the text s to offset at of b, which had better be long enough. *)
Strcpy(b, at, s) ==
    [o \in DOMAIN b |->
        IF o \in at..(at + Len(s) - 1) THEN s[o - at + 1]
        ELSE IF o = at + Len(s) THEN Nul ELSE b[o]]
=============================================================================
