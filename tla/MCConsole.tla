------------------------------ MODULE MCConsole ------------------------------
(* Values for the constants of Console: "xx" and "x" are commands. *)
EXTENDS Console

Keys == {"x", " ", Newline, Nul}
Go == <<"x", "x">>
Out == <<"x">>
CommandNames == {Go, Out}
=============================================================================
