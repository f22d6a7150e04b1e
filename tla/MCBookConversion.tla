------------------------- MODULE MCBookConversion --------------------------
(* Small instances of BookConversion for TLC.                               *)
EXTENDS BookConversion, TLC

CONSTANTS w1, w2, a1

WorkerSymmetry == Permutations(Worker)
=============================================================================
