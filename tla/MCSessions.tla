----------------------------- MODULE MCSessions -----------------------------
(* Small instances of Sessions for TLC.                                     *)
EXTENDS Sessions, TLC

CONSTANTS u1, u2, u3, k1, k2, k3

AdminSymmetry == Permutations(Call) \cup Permutations(Admins)
=============================================================================
