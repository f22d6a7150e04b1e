---------------------------- MODULE ReaderStore ----------------------------
(***************************************************************************)
(* What the server promises about one reader's records in one book: the    *)
(* rows, the tombstones and the durable receipts change only by whole      *)
(* operations, one at a time.  An operation is settled once, for good.     *)
(* Settling it moves at most one row, from exactly the revision it was     *)
(* based on to the next; or finds what it asks for already there; or keeps *)
(* every row and records a conflict, with or without one new conflict copy.*)
(*                                                                         *)
(* ReaderMutations describes the concurrent transactions that implement    *)
(* this specification.                                                     *)
(***************************************************************************)
EXTENDS Naturals

CONSTANTS
  Entity,       \* identities of rows
  OperationId,  \* identities of operations
  None          \* "no receipt"

VARIABLES
  rows,         \* the row of each identity; its revision is 0 while it is absent
  tombstones,   \* the revision each identity was deleted at, 0 if it was not
  receipts      \* the durable outcome of each operation, or None

vars == <<rows, tombstones, receipts>>

Init ==
  /\ \A e \in Entity : rows[e].rev = 0 /\ tombstones[e] = 0
  /\ receipts = [op \in OperationId |-> None]

(* The outcome of one operation becomes durable; no other outcome changes. *)
Settle(op, kind) ==
  /\ receipts[op] = None
  /\ receipts'[op] # None
  /\ receipts'[op].result.kind = kind
  /\ \A other \in OperationId \ {op} : receipts'[other] = receipts[other]

RowsKept(changed) ==
  \A e \in Entity \ changed : rows'[e] = rows[e]

(* The operation moves its target by one revision, from the revision it    *)
(* names.  A deleted row never moves; a deletion leaves a tombstone.       *)
Apply(op) ==
  /\ Settle(op, "APPLIED")
  /\ LET in == receipts'[op].input
     IN  /\ rows[in.target].rev = in.base
         /\ ~ rows[in.target].deleted
         /\ rows'[in.target].rev = in.base + 1
         /\ RowsKept({in.target})
         /\ tombstones' = IF rows'[in.target].deleted
                            THEN [tombstones EXCEPT ![in.target] = in.base + 1]
                            ELSE tombstones

(* What the operation asks for holds already: the identity is deleted, or  *)
(* was added with the same content.  Nothing moves.                        *)
Acknowledge(op) ==
  /\ Settle(op, "APPLIED")
  /\ LET in == receipts'[op].input
     IN  \/ /\ in.kind \in {"BOOKMARK_REMOVE", "ANNOTATION_DELETE"}
            /\ rows[in.target].deleted
         \/ /\ in.kind \in {"BOOKMARK_ADD", "ANNOTATION_CREATE"}
            /\ rows[in.target].rev > 0
            /\ rows[in.target].content = in.content
  /\ UNCHANGED <<rows, tombstones>>

(* The operation lost: no existing row moves, and the attempted edit may   *)
(* be kept as one new conflict copy.                                       *)
Refuse(op) ==
  /\ Settle(op, "CONFLICT")
  /\ \/ RowsKept({})
     \/ \E copy \in Entity :
          /\ rows[copy].rev = 0
          /\ rows'[copy].rev = 1
          /\ rows'[copy].origin = op
          /\ receipts'[op].result.copy = copy
          /\ RowsKept({copy})
  /\ UNCHANGED tombstones

Next == \E op \in OperationId : Apply(op) \/ Acknowledge(op) \/ Refuse(op)

Spec == Init /\ [][Next]_vars
=============================================================================
