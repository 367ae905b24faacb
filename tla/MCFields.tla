------------------------------ MODULE MCFields ------------------------------
(* Values for the constants of Fields. *)
EXTENDS Fields, SequencesExt

LinesUpToSeven == SeqOf({"c", "x", "y"}, 7)
Letters == {"c", "x", "y"}
=============================================================================
