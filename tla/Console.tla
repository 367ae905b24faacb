------------------------------- MODULE Console -------------------------------
(***************************************************************************)
(* The command line of main.c: Run reads a line from the standard input,   *)
(* takes the newline off, formats it (FormatByChar, as Fields shows it to  *)
(* work) and calls the handler whose command it is.  What the handlers do  *)
(* is FileServer's.                                                        *)
(***************************************************************************)
EXTENDS Words, SequencesExt

CONSTANTS
    Characters,             \* what can be typed
    Newline, Space,         \* two of them
    Commands, Exit,         \* the commands of g_handler, and the one that ends
    LineSize,               \* BUF_SIZE, 512 in the code
    MaxInput,               \* bound: characters that are typed
    FormatMayFail           \* BOOLEAN; in FormatByChar

ASSUME ConsoleAssumption ==
    /\ {Newline, Space, Nul} \subseteq Characters
    /\ Exit \in Commands
    /\ Commands \subseteq Seq(Characters)
    /\ \A c \in Commands :
           c # <<>> /\ ~Contains(c, Newline) /\ ~Contains(c, Space) /\ ~Contains(c, Nul)
    /\ LineSize \in Nat /\ LineSize > 3
    /\ FormatMayFail \in BOOLEAN

VARIABLES
    input, closed,  \* what has been typed, and whether that is all
    next,           \* how much of it has been read
    state,          \* "runs", "exited", or "crashed" (strcmp with NULL)
    outside,        \* line[-1] has been written
    done            \* history: the commands executed

consoleVars == <<input, closed, next, state, outside, done>>
-----------------------------------------------------------------------------
(* Whoever types *)

Type ==
    /\ ~closed /\ Len(input) < MaxInput
    /\ \E c \in Characters : input' = Append(input, c)
    /\ UNCHANGED <<closed, next, state, outside, done>>

Close ==
    /\ ~closed /\ closed' = TRUE
    /\ UNCHANGED <<input, next, state, outside, done>>
-----------------------------------------------------------------------------
(* What fgets(line, LineSize - 1) takes of s: up to a newline, or all there is,
   and at most LineSize - 2 characters, for which it waits. *)
Limit == LineSize - 2

Cut(s) ==
    LET ends == {k \in 1..Len(s) : s[k] = Newline \/ k = Limit \/ k = Len(s)}
    IN IF s = <<>> THEN s
       ELSE SubSeq(s, 1, CHOOSE k \in ends : \A m \in ends : k <= m)
(* Mutant: the newline is not stored. *)
Fgets_NoNewline(s) ==
    IF s # <<>> /\ Last(Cut(s)) = Newline THEN Front(Cut(s)) ELSE Cut(s)
Fgets(s) == Cut(s)

(* It returns at a newline, when there is no more room, and at the end of the
   input.  Mutant: the end of a line that is too long is waited for. *)
Complete_AtNewline(s) == closed \/ (s # <<>> /\ Last(s) = Newline)
Complete(s) == Len(s) = Limit \/ (s # <<>> /\ Last(s) = Newline) \/ closed

(* The text that the string functions find in line, which was all zero: what was
   read, up to the first NUL in it. *)
TextOf(s) ==
    LET plain == {k \in 0..Len(s) : \A m \in 1..k : s[m] # Nul}
    IN SubSeq(s, 1, CHOOSE k \in plain : \A m \in plain : m <= k)

(* Its last character is taken off, whatever it is.  Mutant: none is. *)
Chopped_Not(s) == TextOf(s)
Chopped(s) == Front(TextOf(s))

(* strcmp(command, FormatByChar(line)) = 0 *)
Matches(line, command) == WordsOf(line, Space) = <<command>>

(* One round of the loop.  Without a text there is no last character, and line[-1]
   is written: at the end of the input, where the loop goes round for ever, and
   when what was read begins with a NUL. *)
Run ==
    LET read == Fgets(SubSeq(input, next + 1, Len(input)))
        line == Chopped(read)
    IN
    /\ state = "runs" /\ Complete(read)
    /\ next' = next + Len(read)
    /\ outside' = (outside \/ TextOf(read) = <<>>)
    /\ \/ \E c \in Commands :
             /\ Matches(line, c)
             /\ done' = Append(done, c)
             /\ state' = IF c = Exit THEN "exited" ELSE state
       \/ ~(\E c \in Commands : Matches(line, c)) /\ UNCHANGED <<done, state>>
       \/ FormatMayFail /\ line # <<>> /\ state' = "crashed" /\ UNCHANGED done
    /\ UNCHANGED <<input, closed>>

ConsoleInit ==
    /\ input = <<>> /\ closed = FALSE /\ next = 0
    /\ state = "runs" /\ outside = FALSE /\ done = <<>>

ConsoleNext == Type \/ Close \/ Run

ConsoleSpec == ConsoleInit /\ [][ConsoleNext]_consoleVars

(* The process runs; nobody has to type. *)
FairConsoleSpec == ConsoleSpec /\ WF_consoleVars(Run)
-----------------------------------------------------------------------------
(* The lines of a text: what stands before each newline. *)
Newlines(s) == {k \in 1..Len(s) : s[k] = Newline}
LineBefore(s, k) ==
    LET earlier == {m \in Newlines(s) : m < k}
        from == IF earlier = {} THEN 1
                ELSE (CHOOSE m \in earlier : \A n \in earlier : n <= m) + 1
    IN SubSeq(s, from, k - 1)
Fits(s) == \A k \in Newlines(s) : Len(LineBefore(s, k)) < Limit

(* The commands in the lines of s. *)
CommandsIn(s) ==
    LET commands == {k \in Newlines(s) : \E c \in Commands : Matches(LineBefore(s, k), c)}
        At(n) == CHOOSE k \in commands : Cardinality({m \in commands : m <= k}) = n
    IN [n \in 1..Cardinality(commands) |-> WordsOf(LineBefore(s, At(n)), Space)[1]]

ConsoleTypeOK ==
    /\ input \in Seq(Characters) /\ closed \in BOOLEAN /\ next \in 0..Len(input)
    /\ state \in {"runs", "exited", "crashed"} /\ outside \in BOOLEAN
    /\ done \in Seq(Commands)

(* Of lines that fit, and end with a newline, exactly those that hold a command
   and nothing else but spaces are executed, once and in the order they were
   typed, and none after exit, as long as no NUL is typed: what stands before one
   loses its last character (main.c:154-181). *)
CommandsAsTyped ==
    /\ Fits(input) /\ \A k \in 1..next : input[k] # Nul
    /\ state = "runs" /\ next \in Newlines(input) \cup {0}
    => done = CommandsIn(SubSeq(input, 1, next))

(* Of a line that is too long the pieces are taken for lines, each without its
   last character; still no more is executed than stands in the input: every
   command has been typed, in this order (main.c:160-162). *)
NothingInvented ==
    \E f \in [1..Len(done) -> 1..next] :
        /\ \A n \in 1..Len(done) :
               /\ f[n] + Len(done[n]) <= next
               /\ SubSeq(input, f[n], f[n] + Len(done[n]) - 1) = done[n]
        /\ \A m, n \in 1..Len(done) : m < n => f[m] < f[n]

(* The commands typed are executed, and no others, however long the lines. *)
TypedCommandsRun == ConsoleTypeOK /\ CommandsAsTyped /\ NothingInvented

(* fgets() begins to read at k: a line, or what is left of one that is too long. *)
BeginsPiece(k) ==
    \/ k = 1 \/ input[k - 1] = Newline
    \/ k > Limit /\ \A m \in (k - Limit)..(k - 1) : input[m] # Newline

(* line[strlen(line) - 1] is a character of the line, unless the input is over or
   a line, or a piece of a line that is too long, began with a NUL
   (main.c:160-162). *)
OutsideOnlyAtNul ==
    outside => \/ closed /\ next = Len(input)
               \/ \E k \in 1..next : input[k] = Nul /\ BeginsPiece(k)

(* What is typed is read, to the last line, unless exit comes first or memory is
   out (main.c:154-185). *)
EverythingIsRead ==
    \A n \in 1..MaxInput :
        n \in Newlines(input) /\ state = "runs" ~> next >= n \/ state # "runs"
=============================================================================
