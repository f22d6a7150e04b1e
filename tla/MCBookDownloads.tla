------------------------- MODULE MCBookDownloads -------------------------
(* Small instances of BookDownloads for TLC.                               *)
EXTENDS BookDownloads, TLC

CONSTANTS t1, t2, p1

Starts == [o \in SUBSET Tab |-> IF o = {} THEN 0 ELSE 2]

Reloads == [o \in SUBSET Tab |-> IF Cardinality(o) = 1 THEN 1 ELSE 0]

TabSymmetry == Permutations(Tab)
=============================================================================
