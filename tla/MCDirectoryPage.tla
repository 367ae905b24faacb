-------------------------- MODULE MCDirectoryPage --------------------------
(* Values for the constants of DirectoryPage: directories with names 0 (".")
   to 3, each at most once, in any order, of any type. *)
EXTENDS DirectoryPage, FiniteSets

Distinct(s) == \A a, b \in DOMAIN s : s[a].name = s[b].name => a = b
Directories ==
    {s \in UNION {[1..n -> [name : 0..3, type : Types]] : n \in 0..3} : Distinct(s)}
        \cup {<<[name |-> a, type |-> "file"], [name |-> b, type |-> "file"],
                [name |-> c, type |-> "file"], [name |-> d, type |-> "file"]>> :
                  a, b, c, d \in 1..4}
UpToFour == {s \in Directories : Distinct(s)}
=============================================================================
