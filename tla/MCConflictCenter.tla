--------------------------- MODULE MCConflictCenter ---------------------------
(* Small instances of ConflictCenter for TLC.                               *)
EXTENDS ConflictCenter, TLC

CONSTANTS t1, f1, f2

ForeignSymmetry == Permutations(Foreign)
===============================================================================
