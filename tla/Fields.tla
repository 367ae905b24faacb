------------------------------- MODULE Fields -------------------------------
(***************************************************************************)
(* utility.c: DivideByChar cuts a line at a character into an array of     *)
(* strings, after FormatByChar has made a copy of the line in which that   *)
(* character is neither at an end nor twice in a row.  A step is one round *)
(* of a loop.  Offsets count from 0, as in the code.                       *)
(***************************************************************************)
EXTENDS Words

CONSTANTS
    Chars, Sep,    \* the characters, and the one to cut at (c in the code)
    Lines,         \* the lines considered
    Row, Col,      \* the array: that many strings of that many characters
    MallocMayFail, \* BOOLEAN
    NULL

ASSUME FieldsAssumption ==
    /\ Sep \in Chars /\ Nul \notin Chars
    /\ Lines \subseteq Seq(Chars)
    /\ Row \in Nat \ {0} /\ Col \in Nat \ {0}
    /\ MallocMayFail \in BOOLEAN

VARIABLES
    src,         \* the line
    pc,          \* the loop: "skip", "copy", "divide" (none), "scan", "done"
    i, j, flag,  \* locals of both functions
    buf,         \* the copy; NULL before malloc and after free
    len,         \* strlen(buf), in DivideByChar
    argv,        \* the memory of the array, string r from offset r * Col on
    ret          \* strings stored

vars == <<src, pc, i, j, flag, buf, len, argv, ret>>

At(offset) == src[offset + 1]

(* Malloc2d(char, Row, Col): the strings lie one behind the other in one block,
   whose content malloc leaves open. *)
RowStart(r) == r * Col
Block == 0..(RowStart(Row) - 1)
Junk == Sep
-----------------------------------------------------------------------------
(* FormatByChar *)

(* Offsets of the copy go below this. *)
Room == Len(src) + 1

FormatByChar ==
    /\ pc = "call"
    /\ \/ /\ Len(src) > 0
          /\ buf' = [o \in 0..(Room - 1) |-> Junk] /\ pc' = "skip"
       \/ /\ Len(src) = 0 \/ MallocMayFail
          /\ pc' = "done" /\ UNCHANGED buf
    /\ UNCHANGED <<src, i, j, flag, len, argv, ret>>

Leading == At(i) = Sep

Format_Skip ==
    /\ pc = "skip"
    /\ IF i < Len(src) /\ Leading
       THEN i' = i + 1 /\ UNCHANGED pc
       ELSE pc' = "copy" /\ UNCHANGED i
    /\ UNCHANGED <<src, j, flag, buf, len, argv, ret>>

FlagAfter(char) == IF char = Sep THEN 1 ELSE 0

(* A character is copied unless it repeats a separator. *)
Format_Copy ==
    /\ pc = "copy" /\ i < Len(src)
    /\ IF At(i) # Sep \/ flag = 0
       THEN buf' = [buf EXCEPT ![j] = At(i)] /\ j' = j + 1
       ELSE UNCHANGED <<buf, j>>
    /\ flag' = FlagAfter(At(i))
    /\ i' = i + 1
    /\ UNCHANGED <<src, pc, len, argv, ret>>

(* A separator that was copied last is taken off. *)
Trimmed == IF flag = 1 THEN j - 1 ELSE j

Format_Return ==
    /\ pc = "copy" /\ i = Len(src)
    /\ j' = Trimmed
    /\ buf' = [buf EXCEPT ![Trimmed] = Nul]
    /\ pc' = "divide"
    /\ UNCHANGED <<src, i, flag, len, argv, ret>>
-----------------------------------------------------------------------------
(* DivideByChar.  The terminator of the copy becomes a separator.  An empty copy
   is not freed. *)
Divide_Begin ==
    /\ pc = "divide"
    /\ len' = Strlen(buf, 0) /\ i' = 0 /\ j' = 0
    /\ IF len' > 0 THEN buf' = [buf EXCEPT ![len'] = Sep] /\ pc' = "scan"
                   ELSE pc' = "done" /\ UNCHANGED buf
    /\ UNCHANGED <<src, flag, argv, ret>>

(* Mutant: the separator in the terminator's place is not looked at. *)
InLine_Before == i < len

InLine == i <= len

(* Mutant: the string is cut only where the next one begins. *)
FieldLength_Whole == i - j

(* How many characters are copied, k in the code, and where the zero goes. *)
FieldLength == IF i - j < Col THEN i - j ELSE Col
ZeroAt == IF FieldLength < Col THEN FieldLength ELSE FieldLength - 1

StoreField ==
    LET at == RowStart(ret) IN
    argv' = [o \in Block |->
                IF o = at + ZeroAt THEN Nul
                ELSE IF o \in at..(at + FieldLength - 1) THEN buf[j + o - at] ELSE argv[o]]

Divide_Scan ==
    /\ pc = "scan" /\ InLine /\ ret < Row
    /\ IF buf[i] = Sep
       THEN StoreField /\ j' = i + 1 /\ ret' = ret + 1
       ELSE UNCHANGED <<argv, j, ret>>
    /\ i' = i + 1
    /\ UNCHANGED <<src, pc, flag, buf, len>>

(* Mutant: the copy is the caller's. *)
Freed_Not == buf
Freed == NULL

Divide_Return ==
    /\ pc = "scan" /\ ~(InLine /\ ret < Row)
    /\ buf' = Freed
    /\ pc' = "done"
    /\ UNCHANGED <<src, i, j, flag, len, argv, ret>>
-----------------------------------------------------------------------------
(* CharCount *)
CharCount(s, c) ==
    LET count[n \in 0..Len(s)] ==
            IF n = 0 THEN 0 ELSE count[n - 1] + (IF s[n] = c THEN 1 ELSE 0)
    IN count[Len(s)]

Init ==
    /\ src \in Lines /\ pc = "call"
    /\ i = 0 /\ j = 0 /\ flag = 0 /\ len = 0 /\ ret = 0
    /\ buf = NULL /\ argv = [o \in Block |-> Junk]

Next ==
    \/ FormatByChar \/ Format_Skip \/ Format_Copy \/ Format_Return
    \/ Divide_Begin \/ Divide_Scan \/ Divide_Return

Spec == Init /\ [][Next]_vars
-----------------------------------------------------------------------------
TypeOK ==
    /\ src \in Seq(Chars)
    /\ pc \in {"call", "skip", "copy", "divide", "scan", "done"}
    /\ i \in 0..(Len(src) + 1) /\ j \in Nat /\ flag \in {0, 1}
    /\ pc \in {"skip", "copy", "divide", "scan"} =>
           buf \in [0..Len(src) -> Chars \cup {Nul}]
    /\ len \in 0..Len(src) /\ ret \in 0..Row
    /\ argv \in [Block -> Chars \cup {Nul}]

(* FormatByChar writes inside the copy, its terminator too, and does not step
   below the copy when it takes back a separator; DivideByChar reads inside the
   copy and writes each string, cut or not, with its zero, inside its own row
   (utility.c:33-51, 74-86). *)
WritesInBounds ==
    /\ pc = "copy" => /\ i < Len(src) => j < Room
                      /\ i = Len(src) => Trimmed \in 0..(Room - 1)
    /\ pc = "scan" /\ InLine /\ ret < Row => /\ i < Room
                                             /\ j + FieldLength <= Room
                                             /\ FieldLength <= Col
                                             /\ ZeroAt \in 0..(Col - 1)

(* The copy has no separator at an end and no two in a row, whatever the line
   (utility.c:29-49). *)
CopyIsClean == pc = "divide" => IsClean(Text(buf, 0), Sep)

(* The copy has the words of the line, in order, and nothing else: so it is
   empty when the line is of separators only (utility.c:29-51). *)
CopyKeepsWords ==
    pc = "divide" => WordsOf(Text(buf, 0), Sep) = WordsOf(src, Sep)

(* The strings stored are the words of the line, as many as there are rows,
   each cut to what a row holds (utility.c:74-86). *)
FieldsAreTheWords ==
    pc = "done" /\ ret > 0 =>
        LET words == WordsOf(src, Sep)
            Cut(w) == SubSeq(w, 1, IF Len(w) < Col THEN Len(w) ELSE Col - 1)
        IN /\ ret = IF Len(words) < Row THEN Len(words) ELSE Row
           /\ \A r \in 0..(ret - 1) : Text(argv, RowStart(r)) = Cut(words[r + 1])

(* Who makes one row more than the formatted line has separators has room for
   every field (utility.c:39-49, 95-105). *)
CountGivesRows ==
    pc = "divide" /\ Strlen(buf, 0) > 0 =>
        CharCount(Text(buf, 0), Sep) + 1 = Len(WordsOf(src, Sep))

(* A line is cut into its words, by way of a copy that has them and nothing else,
   and a caller who counts its separators has room for them (utility.c:18-105). *)
LinesBecomeWords ==
    CopyIsClean /\ CopyKeepsWords /\ FieldsAreTheWords /\ CountGivesRows

(* The copy is freed, except that of a line with nothing but separators
   (utility.c:70, 88). *)
OnlyBlanksLeak == pc = "done" /\ buf # NULL => Starts(src, Sep) = {}
=============================================================================
