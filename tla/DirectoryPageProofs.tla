------------------------ MODULE DirectoryPageProofs ------------------------
(***************************************************************************)
(* For every directory, whatever order readdir() gives it in, and memory   *)
(* that fails anywhere: the rows stay in the array, SortFileEntry sorts,   *)
(* and the page lists entries of the directory, each at most once.         *)
(***************************************************************************)
EXTENDS DirectoryPage, TLAPS

USE DirectoryPageAssumption

Sorted(from) ==
    \A a, b \in 1..Len(data) : a < from /\ a < b => data[a].name <= data[b].name

(* The search for the smallest row from row i on has come to row j. *)
Searched ==
    /\ min \in i..(Len(data) - 1) /\ j \in i..Len(data)
    /\ \A k \in (i + 1)..j : data[min + 1].name <= data[k].name

SortInv ==
    /\ Len(data) <= max
    /\ pc = "sort" => Sorted(i + 1) /\ (i < Len(data) => Searched)
    /\ pc = "rows" /\ ~starved => Sorted(Len(data) + 1)

LEMMA InitSort == Init => TypeOK /\ SortInv
<1> SUFFICES ASSUME Init PROVE TypeOK /\ SortInv
  OBVIOUS
<1>1. <<>> \in Seq(Entry) /\ <<>> \in Seq(Row) /\ Len(<<>>) = 0
  OBVIOUS
<1>2. dir \in Seq(Entry) /\ Len(dir) \in Nat
  BY DEF Init
<1>3. atRoot \in BOOLEAN /\ starved \in BOOLEAN
  BY Zenon DEF Init
<1>4. QED
  BY <1>1, <1>2, <1>3 DEF Init, TypeOK, SortInv

LEMMA AppendRow ==
    ASSUME NEW S, NEW s \in Seq(S), NEW x \in S
    PROVE  /\ Append(s, x) \in Seq(S) /\ Len(Append(s, x)) = Len(s) + 1
           /\ Append(s, x)[Len(s) + 1] = x
           /\ \A a \in 1..Len(s) : Append(s, x)[a] = s[a]
  OBVIOUS

LEMMA SwapRows ==
    ASSUME data \in Seq(Entry), i \in 0..(Len(data) - 1), min \in 0..(Len(data) - 1)
    PROVE  /\ Swapped \in Seq(Entry) /\ Len(Swapped) = Len(data)
           /\ Swapped[i + 1] = data[min + 1]
           /\ \A a \in 1..Len(data) : a # i + 1 =>
                  Swapped[a] = IF a = min + 1 THEN data[i + 1] ELSE data[a]
  BY DEF Swapped

LEMMA NextType == TypeOK /\ SortInv /\ [Next]_vars => TypeOK'
<1> SUFFICES ASSUME TypeOK, SortInv, [Next]_vars PROVE TypeOK'
  OBVIOUS
<1> USE DEF TypeOK
<1>0. /\ Len(data) \in Nat /\ Len(dir) \in Nat /\ <<>> \in Seq(Entry) /\ Len(<<>>) = 0
      /\ \A n \in 1..Len(data) : data[n] \in Entry
      /\ \A n \in 1..Len(dir) : dir[n] \in Entry
  OBVIOUS
<1>1. CASE CreateTable
  BY <1>1 DEF CreateTable, Malloc, MallocFails, scanVars
<1>2. ASSUME NEW row \in Row, InsertRow(row)
      PROVE  table' \in Seq(Row) /\ starved' \in BOOLEAN
  <2>1. table \in Seq(Row)
    OBVIOUS
  <2>2. Append(table, row) \in Seq(Row)
    BY <1>2, <2>1, AppendRow, Zenon
  <2>3. table' = Append(table, row) \/ table' = table
    BY <1>2 DEF InsertRow
  <2>4. QED
    BY <1>2, <2>1, <2>2, <2>3 DEF InsertRow, Malloc, MallocFails
<1>3. CASE MakeHTML_Back
  <2>1. table' \in Seq(Row) /\ starved' \in BOOLEAN
    <3>1. table \in Seq(Row) /\ starved \in BOOLEAN
      OBVIOUS
    <3>2. QED
      BY <1>2, <1>3, <3>1 DEF MakeHTML_Back, Row
  <2>2. QED
    BY <1>3, <2>1 DEF MakeHTML_Back, scanVars
<1>4. CASE GetEntry_Open
  <2>1. starved' \in BOOLEAN
    BY <1>4 DEF GetEntry_Open, Malloc, MallocFails
  <2>2. QED
    BY <1>0, <1>4, <2>1 DEF GetEntry_Open, ToRows
<1>5. CASE GetEntry_Read
  <2>1. dir[pos + 1] \in Entry /\ pos + 1 \in 0..Len(dir) /\ Grown \in Nat
    BY <1>0, <1>5 DEF GetEntry_Read, Grown
  <2>2. Append(data, dir[pos + 1]) \in Seq(Entry)
    BY <2>1
  <2>3. data' \in Seq(Entry) /\ pos' \in 0..Len(dir) /\ max' \in Nat
    <3>1. data' \in {data, <<>>, Append(data, dir[pos + 1])}
      BY <1>5 DEF GetEntry_Read
    <3>2. pos' \in {pos, pos + 1} /\ max' \in {0, Grown}
      BY <1>5 DEF GetEntry_Read
    <3>3. data' \in Seq(Entry)
      BY <1>0, <2>2, <3>1
    <3>4. QED
      BY <2>1, <3>2, <3>3
  <2>4. pc' \in {"read", "rows"} /\ i' \in Nat /\ (pc' = "rows" => i' = 0)
    BY <1>5 DEF GetEntry_Read, ToRows
  <2>5. Len(data') \in Nat
    BY <2>3
  <2>6. /\ dir' = dir /\ atRoot' = atRoot /\ type' = type /\ j' = j /\ min' = min
        /\ table' = table /\ starved' \in BOOLEAN
    BY <1>5 DEF GetEntry_Read, Malloc, MallocFails
  <2>7. dir \in Seq(Entry) /\ table \in Seq(Row)
    OBVIOUS
  <2>8. QED
    BY <2>3, <2>4, <2>5, <2>6, <2>7
<1>6. CASE Sort_Begin
  <2>1. starved' \in BOOLEAN
    BY <1>6 DEF Sort_Begin, Malloc, MallocFails
  <2>2. QED
    BY <1>0, <1>6, <2>1 DEF Sort_Begin, ToRows, scanVars
<1>7. CASE Sort_Compare
  BY <1>0, <1>7 DEF Sort_Compare, scanVars
<1>8. CASE Sort_Swap
  <2>1. i \in 0..(Len(data) - 1) /\ min \in 0..(Len(data) - 1)
    BY <1>0, <1>8 DEF Sort_Swap, SortInv, Searched
  <2>2. Swapped \in Seq(Entry) /\ Len(Swapped) = Len(data)
    BY <2>1, SwapRows
  <2>3. QED
    BY <1>0, <1>8, <2>1, <2>2 DEF Sort_Swap, NextStart
<1>9. CASE Sort_Return
  BY <1>0, <1>9 DEF Sort_Return, ToRows, scanVars
<1>10. CASE MakeHTML_Row
  <2>1. data[i + 1] \in Row
    BY <1>0, <1>10 DEF MakeHTML_Row, Row
  <2>2. QED
    BY <1>0, <1>2, <1>10, <2>1 DEF MakeHTML_Row, scanVars
<1>11. CASE MakeHTML_Next
  BY <1>11 DEF MakeHTML_Next
<1>12. CASE UNCHANGED vars
  BY <1>12 DEF vars, scanVars
<1>13. QED
  BY <1>1, <1>3, <1>4, <1>5, <1>6, <1>7, <1>8, <1>9, <1>10, <1>11, <1>12 DEF Next, SortFileEntry

LEMMA NextSort == TypeOK /\ SortInv /\ [Next]_vars => SortInv'
<1> SUFFICES ASSUME TypeOK, SortInv, [Next]_vars PROVE SortInv'
  OBVIOUS
<1>0. /\ data \in Seq(Entry) /\ Len(data) \in Nat /\ i \in Nat /\ j \in Nat /\ min \in Nat
      /\ max \in Nat /\ Len(dir) \in Nat /\ starved \in BOOLEAN
      /\ \A n \in 1..Len(data) : data[n].name \in Int
      /\ \A n \in 1..Len(dir) : dir[n] \in Entry
  <2>1. /\ \A n \in 1..Len(data) : data[n] \in Entry
        /\ \A n \in 1..Len(dir) : dir[n] \in Entry
    BY DEF TypeOK
  <2>2. \A e \in Entry : e.name \in Int
    BY DEF Entry
  <2>3. QED
    BY <2>1, <2>2 DEF TypeOK
<1>1. CASE UNCHANGED <<data, max>> /\ pc' \notin {"sort", "rows"}
  BY <1>1 DEF SortInv
<1>2. CASE CreateTable \/ MakeHTML_Back \/ MakeHTML_Next
  BY <1>1, <1>2 DEF CreateTable, MakeHTML_Back, MakeHTML_Next, scanVars
<1>3. CASE GetEntry_Open
  <2>1. Len(data') = 0 /\ max' = 0 /\ pc' # "sort"
    BY <1>3 DEF GetEntry_Open, ToRows
  <2>2. QED
    BY <2>1 DEF SortInv, Sorted
<1>4. CASE GetEntry_Read
  <2>1. Len(Append(data, dir[pos + 1])) = Len(data) + 1
    BY <1>0
  <2>2. Len(data) <= Grown /\ Len(data) + 1 <= Grown
    BY <1>0 DEF SortInv, Grown
  <2>3. Len(data') <= max'
    BY <1>0, <1>4, <2>1, <2>2 DEF GetEntry_Read
  <2>4. pc' # "sort" /\ (pc' = "rows" => Len(data') = 0)
    BY <1>4 DEF GetEntry_Read, ToRows
  <2>5. QED
    BY <2>3, <2>4 DEF SortInv, Sorted
<1>5. CASE Sort_Begin
  BY <1>0, <1>5 DEF Sort_Begin, SortInv, Sorted, Searched, MallocFails, ToRows, scanVars
<1>6. CASE Sort_Compare
  <2>1. /\ pc = "sort" /\ pc' = "sort" /\ UNCHANGED <<data, max, i>>
        /\ i < Len(data) /\ j < Len(data) /\ j' = j + 1
        /\ min' = IF data[min + 1].name > data[j + 1].name THEN j ELSE min
    BY <1>6 DEF Sort_Compare, Name, scanVars
  <2>2. Sorted(i + 1) /\ Searched
    BY <2>1 DEF SortInv
  <2>3. min' \in i..(Len(data) - 1) /\ j' \in i..Len(data)
    BY <1>0, <2>1, <2>2 DEF Searched
  <2>4. ASSUME NEW k \in (i + 1)..j' PROVE data[min' + 1].name <= data[k].name
    <3>1. min + 1 \in 1..Len(data) /\ j + 1 \in 1..Len(data) /\ k \in 1..Len(data)
      BY <1>0, <2>1, <2>2 DEF Searched
    <3>2. CASE k = j + 1
      BY <1>0, <2>1, <3>1, <3>2
    <3>3. CASE k # j + 1
      <4>1. k \in (i + 1)..j
        BY <1>0, <2>1, <3>3
      <4>2. data[min + 1].name <= data[k].name
        BY <2>2, <4>1 DEF Searched
      <4>3. QED
        BY <1>0, <2>1, <3>1, <4>2
    <3>4. QED
      BY <3>2, <3>3
  <2>5. Searched'
    BY <2>1, <2>3, <2>4 DEF Searched
  <2>6. QED
    BY <2>1, <2>2, <2>5 DEF SortInv, Sorted
<1>7. CASE Sort_Swap
  <2>1. /\ pc = "sort" /\ pc' = "sort" /\ i < Len(data) /\ j = Len(data) /\ max' = max
        /\ data' = Swapped /\ i' = i + 1 /\ j' = i + 1 /\ min' = i + 1
    BY <1>7 DEF Sort_Swap, NextStart
  <2>2. Sorted(i + 1) /\ Searched
    BY <2>1 DEF SortInv
  <2>3. /\ i \in 0..(Len(data) - 1) /\ min \in i..(Len(data) - 1)
        /\ \A k \in (i + 1)..Len(data) : data[min + 1].name <= data[k].name
    BY <1>0, <2>1, <2>2 DEF Searched
  <2>4. /\ Len(data') = Len(data) /\ data'[i + 1] = data[min + 1]
        /\ \A a \in 1..Len(data) : a # i + 1 =>
               data'[a] = IF a = min + 1 THEN data[i + 1] ELSE data[a]
    BY <1>0, <2>1, <2>3, SwapRows
  <2>5. ASSUME NEW a \in 1..Len(data), NEW b \in 1..Len(data), a < i + 2, a < b
        PROVE  data'[a].name <= data'[b].name
    <3>1. PICK c \in 1..Len(data) : data'[b] = data[c] /\ (c >= i + 1 \/ c = b)
                                    /\ (b >= i + 1 => c >= i + 1)
      <4>1. CASE b = i + 1
        BY <1>0, <2>3, <2>4, <4>1
      <4>2. CASE b # i + 1 /\ b = min + 1
        BY <1>0, <2>3, <2>4, <4>2
      <4>3. CASE b # i + 1 /\ b # min + 1
        BY <1>0, <2>4, <4>3
      <4>4. QED
        BY <4>1, <4>2, <4>3
    <3>2. CASE a = i + 1
      BY <1>0, <2>3, <2>4, <2>5, <3>1, <3>2
    <3>3. CASE a < i + 1
      <4>1. data'[a] = data[a]
        BY <1>0, <2>3, <2>4, <3>3
      <4>2. a < c
        BY <1>0, <2>5, <3>1, <3>3
      <4>3. QED
        BY <2>2, <3>1, <3>3, <4>1, <4>2 DEF Sorted
    <3>4. a = i + 1 \/ a < i + 1
      BY <2>3, <2>5
    <3>5. QED
      BY <3>2, <3>3, <3>4
  <2>6. Sorted(i + 1)'
    <3>1. i' + 1 = i + 2
      BY <1>0, <2>1
    <3>2. QED
      BY <2>4, <2>5, <3>1 DEF Sorted
  <2>7. i' < Len(data') => Searched'
    BY <1>0, <2>1, <2>3, <2>4 DEF Searched
  <2>8. QED
    BY <2>1, <2>4, <2>6, <2>7 DEF SortInv
<1>8. CASE Sort_Return
  BY <1>0, <1>8 DEF Sort_Return, SortInv, Sorted, ToRows, scanVars
<1>9. CASE MakeHTML_Row
  <2>1. pc = "rows" /\ pc' = "rows" /\ UNCHANGED <<data, max>> /\ (~starved' => ~starved)
    BY <1>9 DEF MakeHTML_Row, InsertRow, Malloc, MallocFails, scanVars
  <2>2. QED
    BY <2>1 DEF SortInv, Sorted
<1>10. CASE UNCHANGED vars
  BY <1>10 DEF vars, scanVars, SortInv, Sorted, Searched
<1>11. QED
  BY <1>2, <1>3, <1>4, <1>5, <1>6, <1>7, <1>8, <1>9, <1>10 DEF Next, SortFileEntry

(* The rows of a scan stay in the array, and SortFileEntry puts them in order
   (response.c:76-104, 178-191). *)
THEOREM SortInvariance == Spec => [](TypeOK /\ SortInv)
<1>1. TypeOK /\ SortInv /\ [Next]_vars => (TypeOK /\ SortInv)'
  BY NextType, NextSort
<1>2. QED
  BY <1>1, InitSort, PTL DEF Spec

(* The locals and the table stay what they are declared to be
   (response.c:158-266). *)
THEOREM TypeCorrect == Spec => []TypeOK
  BY SortInvariance, PTL

(* No row is written behind the array, and the sort looks at no row behind it,
   whatever the directory and the step it grows by (response.c:86-97,
   181-191). *)
THEOREM Memory == Spec => []RowsInMemory
<1>1. TypeOK /\ SortInv => RowsInMemory
  BY DEF TypeOK, SortInv, Searched, RowsInMemory
<1>2. QED
  BY <1>1, SortInvariance, PTL

(* After a scan with memory enough its rows are sorted, in whatever order
   readdir() gave them (response.c:84-100). *)
THEOREM Sorting == Spec => []SortedRows
<1>1. TypeOK /\ SortInv => SortedRows
  BY DEF TypeOK, SortInv, Sorted, SortedRows
<1>2. QED
  BY <1>1, SortInvariance, PTL
-----------------------------------------------------------------------------
(* Names are unique in a directory; the rows of the scan are entries that
   readdir() has given, of the type looked for, each once; and the rows of the
   table are those of earlier scans and the first i of this one. *)
Listed ==
    /\ \A a, b \in 1..Len(dir) : dir[a] = dir[b] => a = b
    /\ pc \in {"read", "sort", "rows"} =>
           /\ \A a \in 1..Len(data) : data[a].type = type /\ \E k \in 1..pos : data[a] = dir[k]
           /\ \A a, b \in 1..Len(data) : data[a] = data[b] => a = b
    /\ pc \in {"create", "back"} => Len(table) = 0 /\ type = "dir"
    /\ pc \in {"open", "read", "sort"} =>
           \A a \in 1..Len(table) : table[a].type \notin {type, "file"}
    /\ pc = "rows" =>
           \A a \in 1..Len(table) :
               \/ table[a].type \notin {type, "file"}
               \/ \E k \in 1..i : table[a] = data[k]

PageInv == Listed /\ PageOnlyLosesRows

LEMMA InitPage == Init => PageInv
<1> SUFFICES ASSUME Init PROVE PageInv
  OBVIOUS
<1>1. dir \in Dirs /\ dir \in Seq(Entry) /\ pc = "create" /\ type = "dir" /\ Len(table) = 0
  BY DEF Init
<1>2. \A a, b \in 1..Len(dir) : dir[a] = dir[b] => a = b
  BY <1>1
<1>3. QED
  BY <1>1, <1>2 DEF PageInv, Listed, PageOnlyLosesRows

LEMMA InsertedRow ==
    ASSUME TypeOK, PageOnlyLosesRows, NEW row \in Row, InsertRow(row),
           row = Back \/ \E k \in 1..Len(dir) : row = dir[k],
           \A a \in 1..Len(table) : table[a] # row, dir' = dir
    PROVE  /\ PageOnlyLosesRows'
           /\ Len(table') >= Len(table)
           /\ \A a \in 1..Len(table') : table'[a] = row \/
                  \E b \in 1..Len(table) : table'[a] = table[b]
<1>1. table \in Seq(Row) /\ Len(table) \in Nat
  BY DEF TypeOK
<1>2. CASE table' = table
  BY <1>1, <1>2 DEF PageOnlyLosesRows
<1>3. CASE table' = Append(table, row)
  <2>1. /\ Len(table') = Len(table) + 1 /\ table'[Len(table) + 1] = row
        /\ \A a \in 1..Len(table) : table'[a] = table[a]
    BY <1>1, <1>3, AppendRow
  <2>2. \A a \in 1..Len(table') : a \in 1..Len(table) \/ a = Len(table) + 1
    BY <1>1, <2>1
  <2>3. ASSUME NEW a \in 1..Len(table'), table'[a] # Back
        PROVE  \E k \in 1..Len(dir) : table'[a] = dir[k]
    BY <2>1, <2>2, <2>3 DEF PageOnlyLosesRows
  <2>4. ASSUME NEW a \in 1..Len(table'), NEW b \in 1..Len(table'), table'[a] = table'[b]
        PROVE  a = b
    BY <2>1, <2>2, <2>4 DEF PageOnlyLosesRows
  <2>5. PageOnlyLosesRows'
    BY <2>3, <2>4 DEF PageOnlyLosesRows
  <2>6. QED
    BY <1>1, <2>1, <2>2, <2>5
<1>4. QED
  BY <1>2, <1>3 DEF InsertRow

LEMMA NextPage == TypeOK /\ SortInv /\ PageInv /\ [Next]_vars => PageInv'
<1> SUFFICES ASSUME TypeOK, SortInv, PageInv, [Next]_vars PROVE PageInv'
  OBVIOUS
<1>0. /\ Len(data) \in Nat /\ Len(table) \in Nat /\ Len(dir) \in Nat /\ i \in Nat
      /\ pos \in 0..Len(dir) /\ type \in {"dir", "file"}
      /\ data \in Seq(Entry) /\ dir \in Seq(Entry)
      /\ pc \in {"sort", "rows"} => i <= Len(data)
  BY DEF TypeOK
<1>1. ASSUME UNCHANGED <<dir, table>> PROVE PageOnlyLosesRows'
  BY <1>1 DEF PageInv, PageOnlyLosesRows
<1>2. CASE CreateTable
  <2>1. UNCHANGED <<dir, table, type>> /\ pc = "create" /\ pc' \in {"back", "done"}
    BY <1>2 DEF CreateTable, scanVars
  <2>2. type = "dir"
    BY <1>2 DEF PageInv, Listed, CreateTable
  <2>3. QED
    BY <1>1, <2>1, <2>2 DEF PageInv, Listed
<1>3. CASE MakeHTML_Back
  <2>1. /\ UNCHANGED <<dir, type>> /\ pc = "back" /\ pc' = "open" /\ type = "dir"
        /\ Len(table) = 0 /\ (InsertRow(Back) \/ table' = table)
    BY <1>3 DEF MakeHTML_Back, scanVars, PageInv, Listed
  <2>2. /\ PageOnlyLosesRows'
        /\ \A a \in 1..Len(table') : table'[a] = Back
    <3>1. CASE table' = table
      BY <1>1, <2>1, <3>1
    <3>2. CASE InsertRow(Back)
      BY <2>1, <3>2, InsertedRow DEF PageInv, Row
    <3>3. QED
      BY <2>1, <3>1, <3>2
  <2>3. \A a \in 1..Len(table') : table'[a].type = "back"
    BY <2>2 DEF Back
  <2>4. QED
    BY <2>1, <2>2, <2>3 DEF PageInv, Listed
<1>4. CASE GetEntry_Open
  <2>1. /\ UNCHANGED <<dir, table, type>> /\ pc = "open" /\ pc' \in {"read", "rows"}
        /\ Len(data') = 0
    BY <1>4 DEF GetEntry_Open, ToRows
  <2>2. QED
    BY <1>0, <1>1, <2>1 DEF PageInv, Listed
<1>5. CASE GetEntry_Read
  <2>1. UNCHANGED <<dir, table, type>> /\ pc = "read" /\ pc' \in {"read", "rows"} /\ pos + 1 \in 1..Len(dir)
    BY <1>0, <1>5 DEF GetEntry_Read, ToRows
  <2>2. CASE Len(data') = 0
    <3>1. \A a \in 1..Len(data') : FALSE
      BY <2>2
    <3>2. \A a \in 1..Len(table) : table[a].type \notin {type, "file"}
      BY <2>1 DEF PageInv, Listed
    <3>3. \A a, b \in 1..Len(dir) : dir[a] = dir[b] => a = b
      BY DEF PageInv, Listed
    <3>4. Listed'
      BY <2>1, <3>1, <3>2, <3>3 DEF Listed
    <3>5. QED
      BY <1>1, <2>1, <3>4 DEF PageInv
  <2>3. CASE data' = data /\ pc' = "read" /\ pos' = pos + 1
    BY <1>0, <1>1, <2>1, <2>3 DEF PageInv, Listed
  <2>4. CASE data' = Append(data, dir[pos + 1]) /\ dir[pos + 1].type = type /\ pc' = "read" /\ pos' = pos + 1
    <3>1. /\ Len(data') = Len(data) + 1 /\ data'[Len(data) + 1] = dir[pos + 1]
          /\ \A a \in 1..Len(data) : data'[a] = data[a]
      BY <1>0, <2>1, <2>4, AppendRow
    <3>2. \A a \in 1..Len(data') : a \in 1..Len(data) \/ a = Len(data) + 1
      BY <1>0, <3>1
    <3>3. /\ \A a \in 1..Len(data) : data[a].type = type /\ \E k \in 1..pos : data[a] = dir[k]
          /\ \A a, b \in 1..Len(data) : data[a] = data[b] => a = b
          /\ \A a, b \in 1..Len(dir) : dir[a] = dir[b] => a = b
      BY <2>1 DEF PageInv, Listed
    <3>4. \A a \in 1..Len(data) : data[a] # dir[pos + 1]
      BY <1>0, <2>1, <3>3
    <3>5. \A a \in 1..Len(data') : data'[a].type = type /\ \E k \in 1..(pos + 1) : data'[a] = dir[k]
      BY <1>0, <2>4, <3>1, <3>2, <3>3
    <3>6. \A a, b \in 1..Len(data') : data'[a] = data'[b] => a = b
      BY <3>1, <3>2, <3>3, <3>4
    <3>7. QED
      BY <1>0, <1>1, <2>1, <2>4, <3>3, <3>5, <3>6 DEF PageInv, Listed
  <2>5. QED
    BY <1>5, <2>2, <2>3, <2>4 DEF GetEntry_Read, Taken, ToRows
<1>6. CASE Sort_Begin
  <2>1. UNCHANGED <<dir, table, type, data, pos>> /\ pc = "read" /\ pc' \in {"sort", "rows"}
    BY <1>6 DEF Sort_Begin, ToRows, scanVars
  <2>2. QED
    BY <1>1, <2>1 DEF PageInv, Listed
<1>7. CASE Sort_Compare
  BY <1>1, <1>7 DEF Sort_Compare, PageInv, Listed, scanVars
<1>8. CASE Sort_Swap
  <2>1. /\ pc = "sort" /\ pc' = "sort" /\ i \in 0..(Len(data) - 1) /\ min \in 0..(Len(data) - 1)
        /\ data' = Swapped /\ UNCHANGED <<dir, table, type, pos>>
    BY <1>0, <1>8 DEF Sort_Swap, SortInv, Searched
  <2>2. /\ Len(data') = Len(data) /\ data'[i + 1] = data[min + 1]
        /\ \A a \in 1..Len(data) : a # i + 1 =>
               data'[a] = IF a = min + 1 THEN data[i + 1] ELSE data[a]
    BY <1>0, <2>1, SwapRows
  <2>3. DEFINE from(a) == IF a = i + 1 THEN min + 1 ELSE IF a = min + 1 THEN i + 1 ELSE a
  <2>4. \A a \in 1..Len(data) : from(a) \in 1..Len(data) /\ data'[a] = data[from(a)]
    BY <1>0, <2>1, <2>2
  <2>5. \A a, b \in 1..Len(data) : from(a) = from(b) => a = b
    BY <1>0, <2>1
  <2>6. /\ \A a \in 1..Len(data) : data[a].type = type /\ \E k \in 1..pos : data[a] = dir[k]
        /\ \A a, b \in 1..Len(data) : data[a] = data[b] => a = b
    BY <2>1 DEF PageInv, Listed
  <2> HIDE DEF from
  <2>7. ASSUME NEW a \in 1..Len(data)
        PROVE  data'[a].type = type /\ \E k \in 1..pos : data'[a] = dir[k]
    <3>1. PICK b \in 1..Len(data) : data'[a] = data[b]
      BY <2>4
    <3>2. QED
      BY <2>6, <3>1
  <2>8. ASSUME NEW a \in 1..Len(data), NEW b \in 1..Len(data), data'[a] = data'[b]
        PROVE  a = b
    <3>1. data[from(a)] = data[from(b)]
      BY <2>4, <2>8
    <3>2. from(a) = from(b)
      BY <2>4, <2>6, <3>1
    <3>3. QED
      BY <2>5, <3>2
  <2>9. QED
    BY <1>1, <2>1, <2>2, <2>7, <2>8 DEF PageInv, Listed
<1>9. CASE Sort_Return
  <2>1. UNCHANGED <<dir, table, type, data, pos>> /\ pc = "sort" /\ pc' = "rows"
    BY <1>9 DEF Sort_Return, ToRows, scanVars
  <2>2. QED
    BY <1>1, <2>1 DEF PageInv, Listed
<1>10. CASE MakeHTML_Row
  <2>1. /\ UNCHANGED <<dir, type, data, pos>> /\ pc = "rows" /\ pc' = "rows" /\ i + 1 \in 1..Len(data)
        /\ i' = i + 1 /\ InsertRow(data[i + 1])
    BY <1>0, <1>10 DEF MakeHTML_Row, scanVars
  <2>2. /\ \A a \in 1..Len(data) : data[a].type = type /\ \E k \in 1..pos : data[a] = dir[k]
        /\ \A a, b \in 1..Len(data) : data[a] = data[b] => a = b
        /\ \A a \in 1..Len(table) : \/ table[a].type \notin {type, "file"}
                                     \/ \E k \in 1..i : table[a] = data[k]
    BY <2>1 DEF PageInv, Listed
  <2>3. ASSUME NEW a \in 1..Len(table), table[a] = data[i + 1] PROVE FALSE
    <3>1. table[a].type = type
      BY <2>1, <2>2, <2>3
    <3>2. PICK k \in 1..i : table[a] = data[k]
      BY <2>2, <3>1
    <3>3. k \in 1..Len(data) /\ k # i + 1
      BY <1>0, <2>1
    <3>4. QED
      BY <2>1, <2>2, <2>3, <3>2, <3>3
  <2>4. data[i + 1] \in Row /\ \E k \in 1..Len(dir) : data[i + 1] = dir[k]
    BY <1>0, <2>1, <2>2 DEF Row
  <2>5. /\ PageOnlyLosesRows'
        /\ \A a \in 1..Len(table') : table'[a] = data[i + 1] \/
               \E b \in 1..Len(table) : table'[a] = table[b]
    BY <2>1, <2>3, <2>4, InsertedRow DEF PageInv
  <2>6. ASSUME NEW a \in 1..Len(table')
        PROVE  \/ table'[a].type \notin {type, "file"}
               \/ \E k \in 1..(i + 1) : table'[a] = data[k]
    <3>1. CASE table'[a] = data[i + 1]
      BY <1>0, <3>1
    <3>2. CASE \E b \in 1..Len(table) : table'[a] = table[b]
      BY <1>0, <2>2, <3>2
    <3>3. QED
      BY <2>5, <3>1, <3>2
  <2>7. QED
    BY <2>1, <2>5, <2>6 DEF PageInv, Listed
<1>11. CASE MakeHTML_Next
  <2>1. /\ UNCHANGED <<dir, table, data, pos>> /\ pc = "rows" /\ i = Len(data)
        /\ \/ type = "dir" /\ type' = "file" /\ pc' = "open"
           \/ pc' = "done"
    BY <1>0, <1>11 DEF MakeHTML_Next
  <2>2. type = "dir" => \A a \in 1..Len(table) : table[a].type # "file"
    BY <1>0, <2>1 DEF PageInv, Listed
  <2>3. QED
    BY <1>1, <2>1, <2>2 DEF PageInv, Listed
<1>12. CASE UNCHANGED vars
  BY <1>1, <1>12 DEF vars, scanVars, PageInv, Listed
<1>13. QED
  BY <1>2, <1>3, <1>4, <1>5, <1>6, <1>7, <1>8, <1>9, <1>10, <1>11, <1>12 DEF Next, SortFileEntry

(* Whatever memory fails and in whatever order the entries come, no row of the
   page is invented and none comes twice (response.c:158-266, page.c:86-111). *)
THEOREM NothingInvented == Spec => []PageOnlyLosesRows
<1>1. PageInv => PageOnlyLosesRows
  BY DEF PageInv
<1>2. QED
  BY <1>1, InitPage, NextPage, SortInvariance, PTL DEF Spec
-----------------------------------------------------------------------------
(* The rows of the table as far as they come before those of this scan. *)
Before(m) == IF type = "dir" THEN m = Above ELSE m >= Above /\ Lists(Above + 1, m, "dir")

(* The rows found are all that the scan should have found so far. *)
Scanned ==
    /\ \A a \in 1..Len(data) : Taken(data[a])
    /\ \A k \in 1..pos : Taken(dir[k]) => \E a \in 1..Len(data) : data[a] = dir[k]

(* The rows that follow the first m are the first i of this scan. *)
Inserted(m) ==
    /\ m \in 0..Len(table) /\ Len(table) = m + i
    /\ \A k \in 1..i : table[m + k] = data[k]

(* While there is memory the page is as complete as the steps so far can have
   made it. *)
Complete ==
    ~starved =>
        /\ pc \in {"create", "back"} => table = <<>> /\ type = "dir"
        /\ pc \in {"open", "read", "sort", "rows"} =>
               atRoot \/ (table # <<>> /\ table[1] = Back)
        /\ pc \in {"open", "read", "sort"} => Before(Len(table))
        /\ pc \in {"read", "sort", "rows"} => Scanned
        /\ pc \in {"sort", "rows"} => pos = Len(dir)
        /\ pc = "rows" => \E m \in 0..Len(table) : Before(m) /\ Inserted(m)
        /\ PageIsTheDirectory

(* No two entries of a directory have one name. *)
NamesOnce == \A a, b \in 1..Len(dir) : dir[a].name = dir[b].name => a = b

CompleteInv == NamesOnce /\ Complete

LEMMA InitComplete == Init => CompleteInv
<1> SUFFICES ASSUME Init PROVE CompleteInv
  OBVIOUS
<1>1. NamesOnce
  BY DEF Init, NamesOnce
<1>2. pc = "create" /\ type = "dir" /\ table = <<>>
  BY DEF Init
<1>3. QED
  BY <1>1, <1>2 DEF CompleteInv, Complete, PageIsTheDirectory

LEMMA ListsStay ==
    ASSUME NEW first, NEW last, NEW what, dir' = dir,
           \A a \in first..last : table'[a] = table[a]
    PROVE  Lists(first, last, what) => Lists(first, last, what)'
<1>1. RowsOf(what)' = RowsOf(what)
  BY DEF RowsOf, IsDotPath
<1>2. {table[a] : a \in first..last}' = {table[a] : a \in first..last}
  OBVIOUS
<1>3. QED
  BY <1>1, <1>2 DEF Lists

LEMMA BeforeStays ==
    ASSUME TypeOK, UNCHANGED <<dir, atRoot, type>>, NEW m \in 0..Len(table), Before(m),
           \A a \in 1..Len(table) : table'[a] = table[a]
    PROVE  Before(m)'
<1>1. Above' = Above /\ Above \in 0..1
  BY DEF Above
<1>2. Len(table) \in Nat
  BY DEF TypeOK
<1>3. CASE type = "dir"
  BY <1>1, <1>3 DEF Before
<1>4. CASE type # "dir"
  <2>1. m >= Above /\ Lists(Above + 1, m, "dir")
    BY <1>4 DEF Before
  <2>2. \A a \in (Above + 1)..m : table'[a] = table[a]
    BY <1>1, <1>2
  <2>3. Lists(Above + 1, m, "dir")'
    <3>1. PICK first : first = Above + 1
      OBVIOUS
    <3>2. Lists(first, m, "dir")'
      BY <2>1, <2>2, <3>1, ListsStay
    <3>3. QED
      BY <1>1, <3>1, <3>2 DEF Lists
  <2>4. QED
    BY <1>1, <1>4, <2>1, <2>3 DEF Before
<1>5. QED
  BY <1>3, <1>4

(* The rows of a scan that has been sorted, and all been inserted, list the
   entries of its type. *)
LEMMA RowsListed ==
    ASSUME TypeOK, SortInv, Listed, CompleteInv, ~starved, pc = "rows", i = Len(data),
           NEW m \in 0..Len(table), Inserted(m)
    PROVE  Lists(m + 1, Len(table), type)
<1>0. /\ Len(data) \in Nat /\ Len(table) \in Nat /\ Len(dir) \in Nat
      /\ \A k \in 1..Len(dir) : dir[k].name \in Int
  <2>1. \A k \in 1..Len(dir) : dir[k] \in Entry
    BY DEF TypeOK
  <2>2. QED
    BY <2>1 DEF TypeOK, Entry
<1>1. Len(table) = m + Len(data) /\ \A k \in 1..Len(data) : table[m + k] = data[k]
  BY DEF Inserted
<1>2. /\ pos = Len(dir) /\ \A a \in 1..Len(data) : Taken(data[a])
      /\ \A k \in 1..Len(dir) : Taken(dir[k]) => \E a \in 1..Len(data) : data[a] = dir[k]
  BY DEF CompleteInv, Complete, Scanned
<1>3. /\ \A a \in 1..Len(data) : \E k \in 1..Len(dir) : data[a] = dir[k]
      /\ \A a, b \in 1..Len(data) : data[a] = data[b] => a = b
  BY <1>2 DEF Listed
<1>4. \A a, b \in 1..Len(data) : a < b => data[a].name < data[b].name
  <2>1. SUFFICES ASSUME NEW a \in 1..Len(data), NEW b \in 1..Len(data), a < b
                 PROVE  data[a].name < data[b].name
    OBVIOUS
  <2>2. PICK k \in 1..Len(dir) : data[a] = dir[k]
    BY <1>3
  <2>3. PICK l \in 1..Len(dir) : data[b] = dir[l]
    BY <1>3
  <2>4. data[a].name <= data[b].name
    BY <1>0, <2>1 DEF SortInv, Sorted
  <2>5. k # l
    BY <1>3, <2>1, <2>2, <2>3
  <2>6. dir[k].name # dir[l].name
    BY <2>5 DEF CompleteInv, NamesOnce
  <2>7. QED
    BY <1>0, <2>2, <2>3, <2>4, <2>6
<1>5. ASSUME NEW a \in (m + 1)..Len(table)
      PROVE  a - m \in 1..Len(data) /\ table[a] = data[a - m]
  <2>1. a - m \in 1..Len(data) /\ m + (a - m) = a
    BY <1>0, <1>1
  <2>2. QED
    BY <1>1, <2>1
<1>6. ASSUME NEW a \in (m + 1)..Len(table), NEW b \in (m + 1)..Len(table), a < b
      PROVE  table[a].name < table[b].name
  <2>1. a - m < b - m
    BY <1>6, <1>0
  <2>2. QED
    BY <1>4, <1>5, <2>1
<1>7. {table[a] : a \in (m + 1)..Len(table)} = RowsOf(type)
  <2>1. ASSUME NEW a \in (m + 1)..Len(table) PROVE table[a] \in RowsOf(type)
    BY <1>2, <1>3, <1>5 DEF RowsOf, Taken
  <2>2. ASSUME NEW entry \in RowsOf(type) PROVE \E a \in (m + 1)..Len(table) : entry = table[a]
    <3>1. PICK k \in 1..Len(dir) : entry = dir[k] /\ Taken(dir[k])
      BY DEF RowsOf, Taken
    <3>2. PICK b \in 1..Len(data) : data[b] = dir[k]
      BY <1>2, <3>1
    <3>3. m + b \in (m + 1)..Len(table)
      BY <1>0, <1>1
    <3>4. QED
      BY <1>1, <3>1, <3>2, <3>3
  <2>3. QED
    BY <2>1, <2>2
<1>8. QED
  BY <1>6, <1>7 DEF Lists

LEMMA NextComplete ==
    TypeOK /\ SortInv /\ Listed /\ CompleteInv /\ [Next]_vars => CompleteInv'
<1> SUFFICES ASSUME TypeOK, SortInv, Listed, CompleteInv, [Next]_vars PROVE CompleteInv'
  OBVIOUS
<1>1. UNCHANGED <<dir, atRoot>>
  BY DEF Next, SortFileEntry, CreateTable, MakeHTML_Back, GetEntry_Open, GetEntry_Read,
         Sort_Begin, Sort_Compare, Sort_Swap, Sort_Return, MakeHTML_Row, MakeHTML_Next,
         vars
<1>2. NamesOnce'
  BY <1>1 DEF CompleteInv, NamesOnce
<1>3. SUFFICES ASSUME ~starved' PROVE Complete'
  BY <1>2 DEF CompleteInv, Complete
<1>4. ~starved
  BY <1>3 DEF Next, SortFileEntry, CreateTable, MakeHTML_Back, InsertRow, GetEntry_Open,
         GetEntry_Read, Sort_Begin, Sort_Compare, Sort_Swap, Sort_Return, MakeHTML_Row,
         MakeHTML_Next, Malloc, MallocFails, vars
<1>5. ~MallocFails
  BY <1>3 DEF MallocFails
<1>6. /\ Len(data) \in Nat /\ Len(table) \in Nat /\ Len(dir) \in Nat /\ i \in Nat
      /\ pos \in 0..Len(dir) /\ data \in Seq(Entry) /\ dir \in Seq(Entry)
      /\ pc \in {"sort", "rows"} => i <= Len(data)
  BY DEF TypeOK
<1>7. ASSUME UNCHANGED <<type, table>>, NEW m \in 0..Len(table), Before(m) PROVE Before(m)'
  BY <1>1, <1>7, BeforeStays
<1>8. ASSUME UNCHANGED <<type, table>>
       PROVE  /\ pc \in {"open", "read", "sort", "rows"} =>
                     (atRoot \/ (table # <<>> /\ table[1] = Back))'
              /\ pc \in {"open", "read", "sort"} => Before(Len(table))'
  <2>1. PICK m \in 0..Len(table) : m = Len(table)
    BY <1>6
  <2>2. Before(m) => Before(m)'
    BY <1>7, <1>8
  <2>3. pc \in {"open", "read", "sort"} => Before(m)
    BY <1>4, <2>1 DEF CompleteInv, Complete
  <2>4. pc \in {"open", "read", "sort"} => Before(Len(table))'
    BY <1>8, <2>1, <2>2, <2>3 DEF Before
  <2>5. QED
    BY <1>1, <1>4, <1>8, <2>4 DEF CompleteInv, Complete
<1>9. ASSUME UNCHANGED <<type, data, pos>> PROVE Scanned => Scanned'
  BY <1>1, <1>9 DEF Scanned, Taken, IsDotPath
<1>10. CASE CreateTable
  <2>1. UNCHANGED <<type, table>> /\ pc = "create" /\ pc' = "back"
    BY <1>5, <1>10 DEF CreateTable, scanVars
  <2>2. QED
    BY <1>4, <2>1 DEF CompleteInv, Complete, PageIsTheDirectory
<1>11. CASE MakeHTML_Back
  <2>1. /\ pc = "back" /\ pc' = "open" /\ type' = type /\ type = "dir" /\ table = <<>>
        /\ IF atRoot THEN table' = table ELSE table' = Append(table, Back)
    BY <1>4, <1>5, <1>11 DEF MakeHTML_Back, InsertRow, scanVars, CompleteInv, Complete
  <2>2. (atRoot \/ (table # <<>> /\ table[1] = Back))' /\ Len(table') = Above
    BY <1>1, <2>1 DEF Above
  <2>3. Above' = Above
    BY <1>1 DEF Above
  <2>4. QED
    BY <2>1, <2>2, <2>3 DEF Complete, Before, PageIsTheDirectory
<1>12. CASE GetEntry_Open
  <2>1. /\ UNCHANGED <<type, table>> /\ pc = "open" /\ pc' = "read"
        /\ Len(data') = 0 /\ pos' = 0
    BY <1>5, <1>12 DEF GetEntry_Open
  <2>2. Scanned'
    BY <2>1 DEF Scanned
  <2>3. (atRoot \/ (table # <<>> /\ table[1] = Back))' /\ Before(Len(table))'
    BY <1>8, <2>1
  <2>4. QED
    BY <2>1, <2>2, <2>3 DEF Complete, PageIsTheDirectory
<1>13. CASE GetEntry_Read
  <2>1. /\ UNCHANGED <<type, table>> /\ pc = "read" /\ pc' = "read"
        /\ pos + 1 \in 1..Len(dir) /\ pos' = pos + 1
        /\ data' = IF Taken(dir[pos + 1]) THEN Append(data, dir[pos + 1]) ELSE data
    BY <1>5, <1>6, <1>13 DEF GetEntry_Read
  <2>2. Scanned
    BY <1>4, <2>1 DEF CompleteInv, Complete
  <2>4. \A k \in 1..(pos + 1) : k \in 1..pos \/ k = pos + 1
    BY <1>6
  <2>5. ASSUME Taken(dir[pos + 1]) PROVE Scanned'
    <3>1. /\ Len(data') = Len(data) + 1 /\ data'[Len(data) + 1] = dir[pos + 1]
          /\ \A a \in 1..Len(data) : data'[a] = data[a]
      BY <1>6, <2>1, <2>5, AppendRow
    <3>2. \A a \in 1..Len(data') : a \in 1..Len(data) \/ a = Len(data) + 1
      BY <1>6, <3>1
    <3>3. \A a \in 1..Len(data') : Taken(data'[a])
      BY <2>2, <2>5, <3>1, <3>2 DEF Scanned
    <3>4. ASSUME NEW k \in 1..(pos + 1), Taken(dir[k])
          PROVE  \E a \in 1..Len(data') : data'[a] = dir[k]
      <4>1. CASE k = pos + 1
        BY <1>6, <3>1, <4>1
      <4>2. CASE k \in 1..pos
        <5>1. PICK a \in 1..Len(data) : data[a] = dir[k]
          BY <2>2, <3>4, <4>2 DEF Scanned
        <5>2. QED
          BY <1>6, <3>1, <5>1
      <4>3. QED
        BY <2>4, <4>1, <4>2
    <3>5. QED
      BY <1>1, <2>1, <3>3, <3>4 DEF Scanned, Taken, IsDotPath
  <2>6. ASSUME ~Taken(dir[pos + 1]) PROVE Scanned'
    <3>1. \A k \in 1..(pos + 1) : Taken(dir[k]) => \E a \in 1..Len(data) : data[a] = dir[k]
      BY <2>2, <2>4, <2>6 DEF Scanned
    <3>2. \A a \in 1..Len(data) : Taken(data[a])
      BY <2>2 DEF Scanned
    <3>3. QED
      BY <1>1, <2>1, <2>6, <3>1, <3>2 DEF Scanned, Taken, IsDotPath
  <2>7. Scanned'
    BY <2>5, <2>6
  <2>8. (atRoot \/ (table # <<>> /\ table[1] = Back))' /\ Before(Len(table))'
    BY <1>8, <2>1
  <2>9. QED
    BY <2>1, <2>7, <2>8 DEF Complete, PageIsTheDirectory
<1>14. CASE Sort_Begin
  <2>1. /\ UNCHANGED <<type, table, data, pos>> /\ pc = "read" /\ pc' = "sort" /\ pos = Len(dir)
    BY <1>5, <1>14 DEF Sort_Begin, scanVars
  <2>2. QED
    BY <1>1, <1>4, <1>8, <1>9, <2>1 DEF CompleteInv, Complete, PageIsTheDirectory
<1>15. CASE Sort_Compare
  <2>1. /\ UNCHANGED <<type, table, data, pos>> /\ pc = "sort" /\ pc' = "sort"
    BY <1>15 DEF Sort_Compare, scanVars
  <2>2. QED
    BY <1>1, <1>4, <1>8, <1>9, <2>1 DEF CompleteInv, Complete, PageIsTheDirectory
<1>16. CASE Sort_Swap
  <2>1. /\ pc = "sort" /\ pc' = "sort" /\ i \in 0..(Len(data) - 1) /\ min \in 0..(Len(data) - 1)
        /\ data' = Swapped /\ UNCHANGED <<table, type, pos>>
    BY <1>6, <1>16 DEF Sort_Swap, SortInv, Searched
  <2>2. /\ Len(data') = Len(data) /\ data'[i + 1] = data[min + 1]
        /\ \A a \in 1..Len(data) : a # i + 1 =>
               data'[a] = IF a = min + 1 THEN data[i + 1] ELSE data[a]
    BY <1>6, <2>1, SwapRows
  <2>3. Scanned /\ pos = Len(dir)
    BY <1>4, <2>1 DEF CompleteInv, Complete
  <2>4. \A entry : Taken(entry)' <=> Taken(entry)
    BY <2>1 DEF Taken, IsDotPath
  <2>5. ASSUME NEW a \in 1..Len(data)
        PROVE  /\ \E b \in 1..Len(data) : data'[a] = data[b]
               /\ \E b \in 1..Len(data) : data'[b] = data[a]
    <3>1. CASE a = i + 1
      BY <1>6, <2>1, <2>2, <3>1
    <3>2. CASE a = min + 1 /\ a # i + 1
      BY <1>6, <2>1, <2>2, <3>2
    <3>3. CASE a # min + 1 /\ a # i + 1
      BY <2>2, <3>3
    <3>4. QED
      BY <3>1, <3>2, <3>3
  <2>6. ASSUME NEW k \in 1..pos, Taken(dir[k]) PROVE \E b \in 1..Len(data) : data'[b] = dir[k]
    <3>1. PICK a \in 1..Len(data) : data[a] = dir[k]
      BY <2>3, <2>6 DEF Scanned
    <3>2. QED
      BY <2>5, <3>1
  <2>7. \A a \in 1..Len(data) : Taken(data'[a])
    BY <2>3, <2>5 DEF Scanned
  <2>8. Scanned'
    BY <1>1, <2>1, <2>2, <2>4, <2>6, <2>7 DEF Scanned
  <2>9. QED
    BY <1>1, <1>8, <2>1, <2>3, <2>8 DEF Complete, PageIsTheDirectory
<1>17. CASE Sort_Return
  <2>1. /\ UNCHANGED <<type, table, data, pos>> /\ pc = "sort" /\ pc' = "rows" /\ i' = 0
    BY <1>17 DEF Sort_Return, ToRows, scanVars
  <2>2. PICK m \in 0..Len(table) : m = Len(table) /\ Before(m)
    BY <1>4, <1>6, <2>1 DEF CompleteInv, Complete
  <2>3. Before(m)' /\ Inserted(m)' /\ m \in 0..Len(table')
    BY <1>6, <1>7, <2>1, <2>2 DEF Inserted
  <2>4. QED
    BY <1>1, <1>4, <1>8, <1>9, <2>1, <2>3 DEF CompleteInv, Complete, PageIsTheDirectory
<1>18. CASE MakeHTML_Row
  <2>1. /\ UNCHANGED <<dir, type, data, pos>> /\ pc = "rows" /\ pc' = "rows" /\ i + 1 \in 1..Len(data)
        /\ i' = i + 1 /\ table' = Append(table, data[i + 1])
    BY <1>5, <1>6, <1>18 DEF MakeHTML_Row, InsertRow, scanVars
  <2>2. PICK m \in 0..Len(table) : Before(m) /\ Inserted(m)
    BY <1>4, <2>1 DEF CompleteInv, Complete
  <2>3. table \in Seq(Row) /\ data[i + 1] \in Row
    BY <1>6, <2>1 DEF TypeOK, Row
  <2>4. /\ Len(table') = Len(table) + 1 /\ table'[Len(table) + 1] = data[i + 1]
        /\ \A a \in 1..Len(table) : table'[a] = table[a]
    BY <2>1, <2>3, AppendRow
  <2>5. Before(m)'
    BY <1>1, <2>1, <2>2, <2>4, BeforeStays
  <2>6. Len(table) = m + i /\ \A k \in 1..i : table[m + k] = data[k]
    BY <2>2 DEF Inserted
  <2>7. ASSUME NEW k \in 1..(i + 1) PROVE table'[m + k] = data[k]
    <3>1. CASE k = i + 1
      <4>1. m + k = Len(table) + 1
        BY <1>6, <2>6, <3>1
      <4>2. QED
        BY <2>4, <3>1, <4>1
    <3>2. CASE k \in 1..i
      BY <1>6, <2>4, <2>6, <3>2
    <3>3. QED
      BY <1>6, <3>1, <3>2
  <2>8. m \in 0..Len(table') /\ Len(table') = m + i'
    BY <1>6, <2>1, <2>4, <2>6
  <2>9. Inserted(m)'
    BY <2>1, <2>7, <2>8 DEF Inserted
  <2>10. (atRoot \/ (table # <<>> /\ table[1] = Back))'
    <3>1. CASE atRoot
      BY <1>1, <3>1
    <3>2. CASE ~atRoot
      <4>1. table # <<>> /\ table[1] = Back
        BY <1>4, <2>1, <3>2 DEF CompleteInv, Complete
      <4>2. 1 \in 1..Len(table)
        BY <1>6, <2>3, <4>1
      <4>3. table'[1] = Back /\ table' # <<>>
        BY <2>1, <2>3, <2>4, <4>1, <4>2
      <4>4. QED
        BY <4>3
    <3>3. QED
      BY <3>1, <3>2
  <2>11. Scanned' /\ pos' = Len(dir')
    BY <1>1, <1>4, <1>9, <2>1 DEF CompleteInv, Complete
  <2>12. QED
    BY <2>1, <2>5, <2>8, <2>9, <2>10, <2>11 DEF Complete, PageIsTheDirectory
<1>19. CASE MakeHTML_Next
  <2>1. /\ UNCHANGED <<dir, table, data, pos>> /\ pc = "rows" /\ i = Len(data)
        /\ \/ type = "dir" /\ type' = "file" /\ pc' = "open"
           \/ type # "dir" /\ type' = type /\ pc' = "done"
    BY <1>19 DEF MakeHTML_Next
  <2>2. PICK m \in 0..Len(table) : Before(m) /\ Inserted(m)
    BY <1>4, <2>1 DEF CompleteInv, Complete
  <2>3. PICK last : last = Len(table)
    OBVIOUS
  <2>4. PICK top \in 0..1 : top = Above
    BY DEF Above
  <2>5. Lists(m + 1, last, type)
    BY <1>4, <2>1, <2>2, <2>3, RowsListed
  <2>6. /\ atRoot \/ (table # <<>> /\ table[1] = Back)
        /\ top <= last
    <3>1. atRoot \/ (table # <<>> /\ table[1] = Back)
      BY <1>4, <2>1 DEF CompleteInv, Complete
    <3>2. table \in Seq(Row)
      BY DEF TypeOK
    <3>3. ~atRoot => Len(table) >= 1
      BY <1>6, <3>1, <3>2
    <3>4. QED
      BY <1>6, <2>3, <2>4, <3>1, <3>3 DEF Above
  <2>7. ASSUME NEW first, NEW to, NEW what PROVE Lists(first, to, what) => Lists(first, to, what)'
    BY <2>1, ListsStay
  <2>8. CASE type = "dir"
    <3>1. m = top
      BY <2>2, <2>4, <2>8 DEF Before
    <3>2. Lists(m + 1, last, "dir")'
      BY <2>5, <2>7, <2>8
    <3>3. Before(Len(table))'
      BY <1>1, <1>6, <2>1, <2>3, <2>4, <2>6, <2>8, <3>1, <3>2 DEF Before, Above, Lists
    <3>4. QED
      BY <1>1, <2>1, <2>6, <2>8, <3>3 DEF Complete, PageIsTheDirectory
  <2>9. CASE type # "dir"
    <3>1. type = "file" /\ m >= top /\ Lists(top + 1, m, "dir")
      BY <2>2, <2>4, <2>9 DEF TypeOK, Before
    <3>2. Lists(top + 1, m, "dir")' /\ Lists(m + 1, last, "file")'
      BY <2>5, <2>7, <3>1
    <3>3. PageIsTheDirectory'
      <4>1. m \in top..last /\ Above' = top /\ Len(table') = last
        BY <1>1, <1>6, <2>1, <2>2, <2>3, <2>4, <3>1 DEF Above
      <4>2. (Lists(Above + 1, m, "dir") /\ Lists(m + 1, Len(table), "file"))'
        BY <3>2, <4>1 DEF Lists
      <4>3. QED
        BY <1>1, <2>1, <2>6, <4>1, <4>2 DEF PageIsTheDirectory
    <3>4. QED
      BY <2>1, <2>9, <3>3 DEF Complete
  <2>10. QED
    BY <2>8, <2>9
<1>20. CASE UNCHANGED vars
  <2>1. /\ UNCHANGED <<type, table, pc, data, pos, i>>
    BY <1>20 DEF vars, scanVars
  <2>2. Scanned => Scanned'
    BY <1>9, <2>1
  <2>3. pc = "rows" => (\E m \in 0..Len(table) : Before(m) /\ Inserted(m))'
    <3>1. SUFFICES ASSUME pc = "rows" PROVE \E m \in 0..Len(table') : Before(m)' /\ Inserted(m)'
      BY <2>1
    <3>2. PICK m \in 0..Len(table) : Before(m) /\ Inserted(m)
      BY <1>4, <3>1 DEF CompleteInv, Complete
    <3>3. QED
      BY <1>7, <2>1, <3>2 DEF Inserted
  <2>4. pc \in {"open", "read", "sort"} => Before(Len(table))'
    BY <1>8, <2>1
  <2>5. PageIsTheDirectory'
    <3>1. SUFFICES ASSUME pc = "done" PROVE PageIsTheDirectory'
      BY <2>1 DEF PageIsTheDirectory
    <3>2. PICK m \in Above..Len(table) :
              Lists(Above + 1, m, "dir") /\ Lists(m + 1, Len(table), "file")
      BY <1>4, <3>1 DEF CompleteInv, Complete, PageIsTheDirectory
    <3>3. QED
      <4>1. Above' = Above
        BY <1>1 DEF Above
      <4>2. PICK top, last : top = Above /\ last = Len(table)
        OBVIOUS
      <4>3. Lists(top + 1, m, "dir")' /\ Lists(m + 1, last, "file")'
        BY <1>1, <2>1, <3>2, <4>2, ListsStay
      <4>4. (Lists(Above + 1, m, "dir") /\ Lists(m + 1, Len(table), "file"))'
        BY <2>1, <4>1, <4>2, <4>3 DEF Lists
      <4>5. QED
        BY <1>1, <1>4, <2>1, <3>1, <3>2, <4>1, <4>4
           DEF CompleteInv, Complete, PageIsTheDirectory
  <2>6. QED
    BY <1>1, <1>4, <2>1, <2>2, <2>3, <2>4, <2>5 DEF CompleteInv, Complete
<1>21. QED
  BY <1>10, <1>11, <1>12, <1>13, <1>14, <1>15, <1>16, <1>17, <1>18, <1>19, <1>20 DEF Next, SortFileEntry

(* With memory enough the page of a directory lists what is in it, for every
   directory and every order of its entries: the folders and then the files,
   sorted, each exactly once (response.c:76-104, 158-266, page.c:86-111). *)
THEOREM Page == Spec => []PageIsTheDirectory
<1>1. PageInv /\ TypeOK /\ SortInv /\ CompleteInv /\ [Next]_vars => CompleteInv'
  BY NextComplete DEF PageInv
<1>2. CompleteInv => PageIsTheDirectory
  BY DEF CompleteInv, Complete, PageIsTheDirectory
<1>3. QED
  BY <1>1, <1>2, InitPage, NextPage, InitComplete, SortInvariance, PTL DEF Spec
=============================================================================
