--------------------------- MODULE MCSnapshotMerge ---------------------------
(* Small instances of SnapshotMerge for TLC.                                *)
EXTENDS SnapshotMerge

CONSTANTS t1, t2, h1
=============================================================================
