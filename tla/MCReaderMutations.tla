------------------------- MODULE MCReaderMutations -------------------------
(* Small instances of ReaderMutations for TLC.                              *)
EXTENDS ReaderMutations, TLC

CONSTANTS o1, o2, o3, o4, o5, r1, b1, h1, c1, c2, v1

In(op, kind, target, base, content) ==
  [op |-> op, kind |-> kind, target |-> target, base |-> base,
   content |-> content, version |-> v1]

(* One highlight is created, then edited and deleted from one revision; the *)
(* call r1 may lose and mint a conflict copy, which two more edits race for. *)
(* Each of them may be sent twice.                                          *)
RaceInputs ==
  {In(o1, "ANNOTATION_CREATE", h1, 0, c1),
   In(o2, "ANNOTATION_UPDATE", h1, 1, c1),
   In(o3, "ANNOTATION_DELETE", h1, 1, c2),
   In(o4, "ANNOTATION_UPDATE", r1, 1, c1),
   In(o5, "ANNOTATION_UPDATE", r1, 1, c2)}

(* The identities of the other calls may be exchanged, that of r1 may not. *)
OtherSymmetry == Permutations(Request \ {r1})

(* Progress from two devices, reaching the end and leaving it; a bookmark  *)
(* added twice under different operations, and removed; an operation id    *)
(* reused with another payload; a removal the client sends with revision 0.*)
MixedInputs ==
  {In(o1, "PROGRESS_SET", Progress, 0, c2),
   In(o2, "PROGRESS_SET", Progress, 0, c1),
   In(o3, "PROGRESS_SET", Progress, 1, c2),
   In(o4, "BOOKMARK_ADD", b1, 0, c1),
   In(o5, "BOOKMARK_ADD", b1, 0, c1),
   In(o2, "BOOKMARK_REMOVE", b1, 1, c1),
   In(o1, "BOOKMARK_REMOVE", b1, 0, c1)}

(* The book stays readable in its one version.                             *)
OpenBookInit == Init /\ readable /\ supported = Version
OpenBookNext == Next /\ UNCHANGED book
OpenBookSpec == OpenBookInit /\ [][OpenBookNext]_vars
=============================================================================
