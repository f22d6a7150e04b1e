--------------------------- MODULE ConflictCenter ---------------------------
(* The reader's decisions about conflicts, over the queue, the coordinator  *)
(* and the server of OutboxSync.  A tab lists its conflicts and keeps the   *)
(* list on screen; a decision re-reads the queue, plans, and commits in a   *)
(* transaction of its own while the coordinator goes on.                    *)
(*                                                                          *)
(* Only a conflict of the reading position offers both sides: the server    *)
(* refuses every edit of an annotation (see Refuses), so no conflict copy   *)
(* reaches the device, and an annotation conflicts without a revision.      *)
EXTENDS OutboxSync

VARIABLES
  view,       \* the conflict on the tab's screen, or None
  deciding,   \* the decision the tab is about to commit or to adopt, or None
  resolved,   \* history: operations whose conflict a decision ended
  chosen      \* history: the server revision a local choice was made against

center == <<view, deciding, resolved, chosen>>
allVars == <<vars, center>>

CenterInit ==
  /\ Init
  /\ view = [t \in Tab |-> None]
  /\ deciding = [t \in Tab |-> None]
  /\ resolved = {}
  /\ chosen = [o \in Op |-> None]

----
Receipt(o) ==
  IF acks[o] # None /\ acks[o].kind = "CONFLICT" THEN acks[o].revision ELSE None

(* buildConflictView: the server's position if it could be loaded, else the *)
(* revision of the conflict's receipt, if it left one.                      *)
Views(o) ==
  LET sight(loaded, revision) ==
        [op |-> o, edit |-> outbox[o].edit, loaded |-> loaded, revision |-> revision]
      position == rows[Progress].rev
  IN  {sight(FALSE, Receipt(o))} \cup
        (IF outbox[o].entity = Progress /\ position > 0 THEN {sight(TRUE, position)} ELSE {})

ListConflicts(t) ==
  /\ deciding[t] = None
  /\ \E o \in Present :
       /\ outbox[o].state = "FAILED"
       /\ \E v \in Views(o) : view' = [view EXCEPT ![t] = v]
  /\ UNCHANGED <<vars, deciding, resolved, chosen>>

(* resolve: only a conflict that is still one on this device.               *)
Unresolved(o) == outbox[o] # None /\ outbox[o].state = "FAILED"

Decide(t, new) ==
  deciding' = [deciding EXCEPT ![t] =
    [pc |-> "commit", op |-> view[t].op, new |-> new, id |-> made + 1,
     adopt |-> new # None \/ view[t].loaded]]

(* planServerChoice, planProgressChoice: the conflicted edit is dropped.    *)
(* The server's position is offered once it is known.                       *)
ChooseServer(t) ==
  /\ view[t] # None
  /\ deciding[t] = None
  /\ Unresolved(view[t].op)
  /\ outbox[view[t].op].entity = Progress => view[t].loaded
  /\ Decide(t, None)
  /\ UNCHANGED <<vars, view, resolved, chosen>>

LocalBase_Conflicted(v) == outbox[v.op].base

LocalBase(v) == IF v.revision = None THEN 0 ELSE v.revision

(* planProgressChoice: the position is queued anew under a fresh id.        *)
ChooseLocal(t) ==
  /\ view[t] # None
  /\ deciding[t] = None
  /\ Unresolved(view[t].op)
  /\ outbox[view[t].op].entity = Progress
  /\ made < MaxOps
  /\ \E new \in NewOperations("PROGRESS_SET", Progress, None, LocalBase(view[t])) :
       Decide(t, [new EXCEPT !.edit = view[t].edit])
  /\ made' = made + 1
  /\ chosen' = [chosen EXCEPT ![made + 1] = view[t].revision]
  /\ UNCHANGED <<device, tabs, server, late, owed, edits, expiries, stops, view, resolved>>

Committed_RemovesOnly(t) == [outbox EXCEPT ![deciding[t].op] = None]

(* commitConflictResolution: the new operation is put, the conflicted one   *)
(* is removed.                                                              *)
Committed(t) ==
  LET d == deciding[t]
      put == IF d.new = None THEN outbox ELSE [outbox EXCEPT ![d.id] = d.new]
  IN  [put EXCEPT ![d.op] = None]

CommitResolution(t) ==
  LET d == deciding[t]
  IN  /\ d # None /\ d.pc = "commit"
      /\ outbox' = Committed(t)
      /\ owed' = (owed \ {d.op}) \cup (IF d.new = None THEN {} ELSE {d.id})
      /\ resolved' = resolved \cup {d.op}
      /\ deciding' = [deciding EXCEPT ![t] = IF d.adopt THEN [d EXCEPT !.pc = "adopt"] ELSE None]
      /\ view' = [view EXCEPT ![t] = None]
      /\ UNCHANGED <<records, acks, lease, tabs, server, late, counts, chosen>>

(* A transaction that fails leaves the conflict and its view, and so does a *)
(* tab that is closed before it: the tab then lists its conflicts anew.     *)
ResolutionFails(t) ==
  /\ deciding[t] # None /\ deciding[t].pc = "commit"
  /\ deciding' = [deciding EXCEPT ![t] = None]
  /\ UNCHANGED <<vars, view, resolved, chosen>>

(* resolveProgress then saves the chosen page: best effort, and not at all  *)
(* in a tab that is closed first.                                           *)
AdoptPosition(t) ==
  /\ deciding[t] # None /\ deciding[t].pc = "adopt"
  /\ deciding' = [deciding EXCEPT ![t] = None]
  /\ SaveProgress(t) \/ UNCHANGED vars
  /\ UNCHANGED <<view, resolved, chosen>>

Center(t) ==
  \/ ListConflicts(t) \/ ChooseServer(t) \/ ChooseLocal(t)
  \/ CommitResolution(t) \/ ResolutionFails(t) \/ AdoptPosition(t)

(* Everything else OutboxSync does goes on meanwhile; the runs of the       *)
(* coordinator that a closing tab cuts short are those of OutboxSync.       *)
Elsewhere ==
  \/ \E t \in Editor : SaveProgress(t) \/ CommitEdit(t)
  \/ \E t \in Tab : StartDrain(t) \/ Run(t)
  \/ \E env \in late : HandleLate(env)
  \/ \E f \in Foreign : MoveElsewhere(f)
  \/ LeaseExpires

CenterNext ==
  \/ \E t \in Editor : Center(t)
  \/ Elsewhere /\ UNCHANGED center

CenterSpec == CenterInit /\ [][CenterNext]_allVars

----
(* Whatever the reader decides, in which tab and how often, and whatever    *)
(* the coordinator puts back meanwhile: every position that was saved or    *)
(* chosen is queued or applied, unless a decision dropped it (one           *)
(* transaction puts the new operation and removes the old one).             *)
ChoicesKept == EditsKept

(* A local choice is refused again only if the position moved on after the  *)
(* revision the reader was shown: planProgressChoice takes that revision,   *)
(* and a later page turn that replaces the operation keeps it.              *)
ChoiceRefusedOnlyIfMoved ==
  \A o \in Op :
    chosen[o] # None /\ receipts[o] # None /\ receipts[o].result.kind = "CONFLICT"
      => receipts[o].result.revision # chosen[o]

(* conflicts.ts calls a decision durable, and reports a repeated one        *)
(* "instead of re-planning (which would append duplicates)".  A run of the  *)
(* coordinator that listed the conflict before the decision puts it back.   *)
ResolvedStaysResolved == \A o \in resolved : outbox[o] = None

=============================================================================
