------------------------------ MODULE MCFat32 ------------------------------
(* Bounds for checking Fat32: a directory cluster that holds one entry, so   *)
(* that the second file makes the directory grow; c is a second entry under  *)
(* the name of a.                                                            *)
EXTENDS Fat32
CONSTANTS a, b, c
MCTitle == [n \in Names |-> IF n = c THEN a ELSE n]
=============================================================================
