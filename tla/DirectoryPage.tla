--------------------------- MODULE DirectoryPage ---------------------------
(***************************************************************************)
(* MakeHTML, GetEntry and SortFileEntry of response.c with the table of    *)
(* page.c: in which order the rows of a directory's page come, and that    *)
(* none is lost or doubled on the way through two scans, an array that     *)
(* grows and a sort in place.  RequestHandler has the same scans while     *)
(* others change the directory; here it stays as it is, and a row is a     *)
(* name and a type.  Names are numbers, in the order of strcmp().          *)
(***************************************************************************)
EXTENDS Integers, Sequences

CONSTANTS
    Dirs,          \* what readdir() may give, one entry after the other
    Dots,          \* the names "." and ".."
    STEP,          \* 5 in the code
    MallocMayFail  \* BOOLEAN

Types == {"dir", "file", "other"}   \* d_type; "other" is a link, a socket, ...
Entry == [name : Int, type : Types]
Back == [name |-> 0, type |-> "back"]   \* the row that leads to the parent
Row == Entry \cup {Back}

ASSUME DirectoryPageAssumption ==
    /\ Dirs \subseteq Seq(Entry)
    /\ \A d \in Dirs : \A a, b \in 1..Len(d) : d[a].name = d[b].name => a = b
    /\ Dots \subseteq Int
    /\ STEP \in Nat \ {0}
    /\ MallocMayFail \in BOOLEAN

VARIABLES
    dir, atRoot,   \* the directory, and whether req is "/"
    pc,
    type,          \* what this scan looks for
    pos,           \* how far readdir() is
    data, max,     \* the rows found, and for how many there is room
    i, j, min,     \* locals of SortFileEntry; i, of MakeHTML, too
    table,         \* the rows of the page
    starved        \* history: there was no memory for something

scanVars == <<type, pos, data, max>>
vars == <<dir, atRoot, pc, scanVars, i, j, min, table, starved>>

Malloc == UNCHANGED starved
MallocFails == MallocMayFail /\ starved' = TRUE

Name(row) == data[row + 1].name   \* rows of data count from 0
-----------------------------------------------------------------------------
CreateTable ==
    /\ pc = "create"
    /\ \/ Malloc /\ pc' = "back"
       \/ MallocFails /\ pc' = "done"
    /\ UNCHANGED <<dir, atRoot, scanVars, i, j, min, table>>

(* InsertRow: without memory the table stays as it is. *)
InsertRow(row) ==
    \/ Malloc /\ table' = Append(table, row)
    \/ MallocFails /\ UNCHANGED table

MakeHTML_Back ==
    /\ pc = "back"
    /\ IF atRoot THEN UNCHANGED <<table, starved>> ELSE InsertRow(Back)
    /\ pc' = "open"
    /\ UNCHANGED <<dir, atRoot, scanVars, i, j, min>>

(* On to the loop that inserts the rows. *)
ToRows == pc' = "rows" /\ i' = 0

GetEntry_Open ==
    /\ pc = "open"
    /\ pos' = 0 /\ data' = <<>> /\ max' = 0
    /\ \/ Malloc /\ pc' = "read" /\ UNCHANGED i
       \/ MallocFails /\ ToRows
    /\ UNCHANGED <<dir, atRoot, type, j, min, table>>

IsDotPath(name) == name \in Dots

Taken(entry) == entry.type = type /\ ~IsDotPath(entry.name)

(* Mutant: the array grows for every entry that is kept, once it is full. *)
Grown_Late == IF Len(data) > max THEN max + STEP ELSE max

(* An entry of any kind makes a full array grow. *)
Grown == IF Len(data) = max THEN max + STEP ELSE max

(* No memory for the path of the entry leaves it out; no memory to grow loses
   the array and ends the scan. *)
GetEntry_Read ==
    /\ pc = "read" /\ pos < Len(dir)
    /\ LET entry == dir[pos + 1] IN
       \/ /\ Malloc
          /\ pos' = pos + 1 /\ max' = Grown
          /\ data' = IF Taken(entry) THEN Append(data, entry) ELSE data
          /\ UNCHANGED <<pc, i>>
       \/ /\ MallocFails /\ Taken(entry)
          /\ pos' = pos + 1 /\ max' = Grown /\ UNCHANGED <<data, pc, i>>
       \/ /\ MallocFails /\ Len(data) = max
          /\ data' = <<>> /\ max' = 0 /\ ToRows /\ UNCHANGED pos
    /\ UNCHANGED <<dir, atRoot, type, j, min, table>>
-----------------------------------------------------------------------------
(* SortFileEntry: the first of the smallest names from row i on changes places
   with row i, for every i. *)
Sort_Begin ==
    /\ pc = "read" /\ pos = Len(dir)
    /\ \/ Malloc /\ pc' = "sort" /\ i' = 0 /\ j' = 0 /\ min' = 0
       \/ MallocFails /\ ToRows /\ UNCHANGED <<j, min>>
    /\ UNCHANGED <<dir, atRoot, scanVars, table>>

Sort_Compare ==
    /\ pc = "sort" /\ i < Len(data) /\ j < Len(data)
    /\ min' = IF Name(min) > Name(j) THEN j ELSE min
    /\ j' = j + 1
    /\ UNCHANGED <<dir, atRoot, pc, scanVars, i, table, starved>>

(* Mutant: the smaller row is copied, and the one it replaces is lost. *)
Swapped_Copied == [data EXCEPT ![i + 1] = data[min + 1]]

Swapped == [data EXCEPT ![i + 1] = data[min + 1], ![min + 1] = data[i + 1]]

(* Mutant: the next search starts where this one found its row. *)
NextStart_AtMin == min
NextStart == i + 1

Sort_Swap ==
    /\ pc = "sort" /\ i < Len(data) /\ j = Len(data)
    /\ data' = Swapped
    /\ i' = i + 1 /\ j' = NextStart /\ min' = NextStart
    /\ UNCHANGED <<dir, atRoot, pc, type, pos, max, table, starved>>

Sort_Return ==
    /\ pc = "sort" /\ i = Len(data)
    /\ ToRows
    /\ UNCHANGED <<dir, atRoot, scanVars, j, min, table, starved>>
-----------------------------------------------------------------------------
MakeHTML_Row ==
    /\ pc = "rows" /\ i < Len(data)
    /\ InsertRow(data[i + 1])
    /\ i' = i + 1
    /\ UNCHANGED <<dir, atRoot, pc, scanVars, j, min>>

MakeHTML_Next ==
    /\ pc = "rows" /\ i = Len(data)
    /\ IF type = "dir" THEN type' = "file" /\ pc' = "open"
                       ELSE pc' = "done" /\ UNCHANGED type
    /\ UNCHANGED <<dir, atRoot, pos, data, max, i, j, min, table, starved>>

Init ==
    /\ dir \in Dirs /\ atRoot \in BOOLEAN
    /\ pc = "create" /\ type = "dir" /\ pos = 0 /\ data = <<>> /\ max = 0
    /\ i = 0 /\ j = 0 /\ min = 0 /\ table = <<>> /\ starved = FALSE

SortFileEntry == Sort_Begin \/ Sort_Compare \/ Sort_Swap \/ Sort_Return

Next ==
    \/ CreateTable \/ MakeHTML_Back \/ GetEntry_Open \/ GetEntry_Read
    \/ SortFileEntry \/ MakeHTML_Row \/ MakeHTML_Next

Spec == Init /\ [][Next]_vars
-----------------------------------------------------------------------------
TypeOK ==
    /\ dir \in Seq(Entry) /\ atRoot \in BOOLEAN
    /\ pc \in {"create", "back", "open", "read", "sort", "rows", "done"}
    /\ type \in {"dir", "file"} /\ pos \in 0..Len(dir)
    /\ data \in Seq(Entry) /\ max \in Nat
    /\ i \in Nat /\ (pc \in {"sort", "rows"} => i <= Len(data))
    /\ j \in Nat /\ min \in Nat
    /\ table \in Seq(Row) /\ starved \in BOOLEAN

(* A row is written only where the array has room for it, and the sort looks
   only at rows that there are (response.c:86-97, 181-191). *)
RowsInMemory ==
    /\ Len(data) <= max
    /\ pc = "sort" /\ i < Len(data) => j <= Len(data) /\ min < Len(data)

(* Once a scan has been sorted its rows are in the order of their names
   (response.c:84-100). *)
SortedRows ==
    pc = "rows" /\ ~starved =>
        \A a, b \in 1..Len(data) : a < b => data[a].name <= data[b].name

(* The entries of one type; "." and ".." are none. *)
RowsOf(what) ==
    {entry \in {dir[k] : k \in 1..Len(dir)} : entry.type = what /\ ~IsDotPath(entry.name)}

(* The rows of the table from one to another are these, each once, in order. *)
Lists(first, last, what) ==
    /\ \A a, b \in first..last : a < b => table[a].name < table[b].name
    /\ {table[a] : a \in first..last} = RowsOf(what)

(* How many rows come before the folders. *)
Above == IF atRoot THEN 0 ELSE 1

(* The page of a directory has the row for the parent, unless it is the root's,
   then its folders, then its files, each in order and each exactly once, and
   nothing else: neither "." nor "..", nor what is neither folder nor file
   (response.c:215-253). *)
PageIsTheDirectory ==
    pc = "done" /\ ~starved =>
        /\ atRoot \/ (table # <<>> /\ table[1] = Back)
        /\ \E m \in Above..Len(table) :
               Lists(Above + 1, m, "dir") /\ Lists(m + 1, Len(table), "file")

(* Short of memory a page may have fewer rows and unsorted ones, but each row
   still is an entry of the directory, listed once (response.c:181-199,
   page.c:100-106). *)
PageOnlyLosesRows ==
    \A a, b \in 1..Len(table) :
        /\ table[a] # Back => \E k \in 1..Len(dir) : table[a] = dir[k]
        /\ table[a] = table[b] => a = b
=============================================================================
