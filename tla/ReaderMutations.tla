-------------------------- MODULE ReaderMutations --------------------------
(***************************************************************************)
(* The server side of reader sync: ReaderMutationsService over PostgreSQL  *)
(* at READ COMMITTED, for one account and one book.  Every call of         *)
(* applyOperation is a request; the transaction it runs reads committed    *)
(* data at several points, so calls interleave between those points.       *)
(* Retries are requests that carry an operation another request carried.   *)
(*                                                                         *)
(* What the database does is modelled as the code relies on it:            *)
(*   - a conditional update or an insert holds the row until its           *)
(*     transaction ends, and a rival waits for it (Free);                  *)
(*   - the update then matches only a row still at the base revision       *)
(*     (StillAtBase), and an insert of an existing identity is a unique    *)
(*     violation, which rolls the transaction back;                        *)
(*   - the receipt is the last statement before the commit, so inserting   *)
(*     it and committing are one step (Commit).                            *)
(***************************************************************************)
EXTENDS Naturals, FiniteSets

CONSTANTS
  Request,        \* calls of applyOperation; ids a transaction draws are named by it
  OperationId,    \* operation ids chosen by clients
  Progress,       \* the identity of the reader's progress row
  Bookmark,       \* identities of bookmarks
  Highlight,      \* identities of highlights
  Content,        \* what a row shows: page, text, colour, anchor
  Anchored,       \* the contents that carry a text anchor
  AtEnd,          \* the contents at or past the book's effective page count
  Version,        \* content versions
  Inputs,         \* the envelopes clients send
  ReplayAttempts, \* REPLAY_READ_ATTEMPTS
  None

CopyId == Request  \* a conflict copy is named by the transaction that creates it
Entity == {Progress} \cup Bookmark \cup Highlight \cup CopyId

Kind == {"PROGRESS_SET", "BOOKMARK_ADD", "BOOKMARK_REMOVE",
         "ANNOTATION_CREATE", "ANNOTATION_UPDATE", "ANNOTATION_DELETE"}

(* baseRevision is 0 where the envelope has none.                          *)
Input == [op : OperationId, kind : Kind, target : Entity, base : Nat,
          content : Content, version : Version]

(* The table an operation of each kind looks its target up in.  An id that *)
(* is not in that table is a row of it that is absent.                     *)
Table(kind) ==
  CASE kind = "PROGRESS_SET" -> {Progress}
    [] kind \in {"BOOKMARK_ADD", "BOOKMARK_REMOVE"} -> Bookmark
    [] kind = "ANNOTATION_UPDATE" -> Highlight \cup CopyId
    [] OTHER -> Highlight

ASSUME ReaderConstants ==
  /\ Inputs \subseteq Input
  /\ \A in \in Inputs : in.target \in Table(in.kind)
  /\ None \notin Request \cup OperationId \cup Content \cup Entity
  /\ Progress \notin Bookmark \cup Highlight \cup Request
  /\ Bookmark \cap Highlight = {}
  /\ (Bookmark \cup Highlight) \cap Request = {}
  /\ ReplayAttempts \in Nat \ {0}

VARIABLES
  rows,        \* committed rows: progress, bookmarks, highlights, conflict copies
  tombstones,  \* committed tombstone revisions, 0 for none
  receipts,    \* committed receipts by operation id
  readable,    \* what books.canRead answers
  supported,   \* the content versions of the book
  pc,          \* where each request is
  input,       \* the validated envelope of each request
  plan,        \* what each transaction has decided and not committed
  attempts,    \* receipt reads made after a unique violation
  reply,       \* what each request was answered
  lock,        \* the transaction that holds each row
  effects      \* history: every committed move of a row

store == <<rows, tombstones, receipts>>
book == <<readable, supported>>
vars == <<rows, tombstones, receipts, readable, supported, pc, input, plan,
          attempts, reply, lock, effects>>

----
(* Rows, results and plans.                                                *)

NoRow == [rev |-> 0, deleted |-> FALSE, content |-> None, completed |-> None,
          origin |-> None, source |-> None]

Row == [rev : Nat, deleted : BOOLEAN, content : Content \cup {None},
        completed : Request \cup {None}, origin : OperationId \cup {None},
        source : Entity \cup {None}]

ResultKind == {"APPLIED", "CONFLICT", "ACCESS_DENIED", "INCOMPATIBLE_VERSION",
               "BAD_REQUEST", "CONCURRENT", "FAILED"}

Result == [kind : ResultKind, rev : Nat, copy : CopyId \cup {None},
           receipt : Request \cup {None}]

Applied(r, rev) == [kind |-> "APPLIED", rev |-> rev, copy |-> None, receipt |-> r]
Conflict(rev, copy) == [kind |-> "CONFLICT", rev |-> rev, copy |-> copy, receipt |-> None]
Refused(kind) == [kind |-> kind, rev |-> 0, copy |-> None, receipt |-> None]

Receipt == [input : Input, result : Result]

ASSUME NoneIsNoResult == None \notin Result \cup Receipt

(* A plan is the result a transaction will record, the row it wants to     *)
(* write to its target and the conflict copy it wants to insert.           *)
Plan == [result : Result, write : Row, copy : Row]
NoPlan == [result |-> Refused("FAILED"), write |-> NoRow, copy |-> NoRow]

Report(result) == [result |-> result, write |-> NoRow, copy |-> NoRow]
Put(r, row) == [result |-> Applied(r, row.rev), write |-> row, copy |-> NoRow]

----
(* What one transaction decides about the row it read.  Each operator is    *)
(* the body of one apply* method; r names the transaction.                 *)

(* validateOperation: the per-kind rules that depend on the data kept here. *)
Valid(in) ==
  /\ in.kind \in {"BOOKMARK_ADD", "ANNOTATION_CREATE"} => in.base = 0
  /\ in.kind \in {"BOOKMARK_REMOVE", "ANNOTATION_UPDATE", "ANNOTATION_DELETE"}
       => in.base >= 1
  /\ in.kind \in {"ANNOTATION_CREATE", "ANNOTATION_UPDATE"} => in.content \in Anchored

(* Definitions named <operator>_<mistake> are what that operator would be   *)
(* after a plausible mistake; no specification here uses them.             *)

CompletedAt_Drifting(r, in, previous) == IF in.content \in AtEnd THEN r ELSE None

(* The first time the reader reached the end, kept while it stays there.   *)
CompletedAt(r, in, previous) ==
  IF in.content \notin AtEnd THEN None
  ELSE IF previous = None THEN r ELSE previous

ProgressPlan(r, in, row) ==
  IF row.rev = in.base
    THEN Put(r, [NoRow EXCEPT !.rev = in.base + 1, !.content = in.content,
                              !.completed = CompletedAt(r, in, row.completed)])
    ELSE Report(Conflict(row.rev, None))

(* The stored anchor is JSONB, which orders its keys its own way, so its    *)
(* JSON text never equals that of the anchor in the envelope.              *)
Matches(row, in) == row.content = in.content /\ in.content \notin Anchored

(* applyBookmarkAdd, applyAnnotationCreate.                                *)
AddPlan(r, in, row) ==
  IF row.rev = 0
    THEN Put(r, [NoRow EXCEPT !.rev = 1, !.content = in.content])
  ELSE IF ~ row.deleted /\ Matches(row, in)
    THEN Report(Applied(r, row.rev))
  ELSE Report(Conflict(row.rev, None))

SourceOf_Target(in, row) == in.target

SourceOf(in, row) == IF in.target \in CopyId THEN row.source ELSE in.target

(* createConflictCopy, and the conflict that carries it.                   *)
Mint(r, in, row, content) ==
  [result |-> Conflict(row.rev, r),
   write  |-> NoRow,
   copy   |-> [NoRow EXCEPT !.rev = 1, !.content = content, !.origin = in.op,
                            !.source = SourceOf(in, row)]]

(* applyBookmarkRemove, applyAnnotationDelete.  A late delete of an edited  *)
(* highlight keeps a copy of what the server shows.                        *)
RemovePlan(r, in, row) ==
  CASE row.rev = 0 -> Report(Refused("ACCESS_DENIED"))
    [] row.rev > 0 /\ row.deleted -> Report(Applied(r, row.rev))
    [] row.rev > 0 /\ ~ row.deleted /\ row.rev # in.base ->
         IF in.kind = "ANNOTATION_DELETE"
           THEN Mint(r, in, row, row.content)
           ELSE Report(Conflict(row.rev, None))
    [] OTHER -> Put(r, [row EXCEPT !.rev = in.base + 1, !.deleted = TRUE])

(* applyAnnotationUpdate, updateConflictCopy.                              *)
UpdatePlan(r, in, row) ==
  CASE row.rev = 0 -> Report(Refused("ACCESS_DENIED"))
    [] row.rev > 0 /\ (row.deleted \/ row.rev # in.base) -> Mint(r, in, row, in.content)
    [] OTHER -> Put(r, [row EXCEPT !.rev = in.base + 1, !.content = in.content])

Decide(r, in, row) ==
  CASE in.kind = "PROGRESS_SET" -> ProgressPlan(r, in, row)
    [] in.kind \in {"BOOKMARK_ADD", "ANNOTATION_CREATE"} -> AddPlan(r, in, row)
    [] in.kind \in {"BOOKMARK_REMOVE", "ANNOTATION_DELETE"} -> RemovePlan(r, in, row)
    [] OTHER -> UpdatePlan(r, in, row)

LostPlan_Bare(r, in, row) == Report(Conflict(row.rev, None))

(* A conditional update that matched nothing: staleProgressConflict,       *)
(* staleEntityConflict, and the end of updateConflictCopy.                 *)
LostPlan(r, in, row) ==
  IF in.target \in CopyId
    THEN Mint(r, in, row, in.content)
    ELSE Report(Conflict(row.rev, None))

----
(* The steps of one call of applyOperation.                                *)

Init ==
  /\ rows = [e \in Entity |-> NoRow]
  /\ tombstones = [e \in Entity |-> 0]
  /\ receipts = [op \in OperationId |-> None]
  /\ readable \in BOOLEAN
  /\ supported \in SUBSET Version
  /\ pc = [r \in Request |-> "idle"]
  /\ input = [r \in Request |-> None]
  /\ plan = [r \in Request |-> NoPlan]
  /\ attempts = [r \in Request |-> 0]
  /\ reply = [r \in Request |-> None]
  /\ lock = [e \in Entity |-> None]
  /\ effects = {}

Release_Forgotten(r) == UNCHANGED lock

(* The transaction of r ends: its row locks go, its undone plan is dropped. *)
Release(r) == lock' = [e \in Entity |-> IF lock[e] = r THEN None ELSE lock[e]]

Answer(r, result) ==
  /\ pc' = [pc EXCEPT ![r] = "done"]
  /\ reply' = [reply EXCEPT ![r] = result]

(* applyOperation is called; a malformed envelope is answered at once.     *)
Submit(r, in) ==
  /\ pc[r] = "idle"
  /\ input' = [input EXCEPT ![r] = in]
  /\ IF Valid(in)
       THEN pc' = [pc EXCEPT ![r] = "receipt"] /\ UNCHANGED reply
       ELSE Answer(r, Refused("BAD_REQUEST"))
  /\ UNCHANGED <<rows, tombstones, receipts, readable, supported, plan,
                 attempts, lock, effects>>

ReplayOutcome_AnyPayload(in, receipt) == receipt.result

(* replayOutcome: the durable result, for the payload it was given for.    *)
ReplayOutcome(in, receipt) ==
  IF receipt.input = in THEN receipt.result ELSE Refused("BAD_REQUEST")

(* execute, up to dispatch: the prior receipt first, then access and       *)
(* version, whose refusals leave no receipt.                               *)
ReadReceipt(r) ==
  /\ pc[r] = "receipt"
  /\ LET in == input[r]
     IN  CASE receipts[in.op] # None -> Answer(r, ReplayOutcome(in, receipts[in.op]))
           [] receipts[in.op] = None /\ ~ readable -> Answer(r, Refused("ACCESS_DENIED"))
           [] receipts[in.op] = None /\ readable /\ in.version \notin supported ->
                Answer(r, Refused("INCOMPATIBLE_VERSION"))
           [] OTHER -> pc' = [pc EXCEPT ![r] = "entity"] /\ UNCHANGED reply
  /\ UNCHANGED <<rows, tombstones, receipts, readable, supported, input, plan,
                 attempts, lock, effects>>

(* dispatch: the row is read and the transaction decides.  Not finding the *)
(* target ends it without a receipt.                                       *)
ReadEntity(r) ==
  /\ pc[r] = "entity"
  /\ LET decided == Decide(r, input[r], rows[input[r].target])
     IN  IF decided.result.kind = "ACCESS_DENIED"
           THEN Answer(r, decided.result) /\ UNCHANGED plan
           ELSE /\ plan' = [plan EXCEPT ![r] = decided]
                /\ pc' = [pc EXCEPT ![r] = IF decided.write = NoRow THEN "commit"
                                                                    ELSE "write"]
                /\ UNCHANGED reply
  /\ UNCHANGED <<rows, tombstones, receipts, readable, supported, input,
                 attempts, lock, effects>>

(* A rival that wrote the row holds it until its transaction ends.         *)
Free(r, e) == lock[e] \in {None, r}

StillAtBase_Ignored(row, in) == row.rev >= in.base

(* The where clause of the conditional updates names the base revision.    *)
StillAtBase(row, in) == row.rev = in.base

(* The insert or conditional update of the target.                         *)
Write(r) ==
  LET in == input[r]
      row == rows[in.target]
  IN  /\ pc[r] = "write"
      /\ Free(r, in.target)
      /\ \/ /\ StillAtBase(row, in)
            /\ lock' = [lock EXCEPT ![in.target] = r]
            /\ pc' = [pc EXCEPT ![r] = "commit"]
            /\ UNCHANGED plan
         \/ /\ ~ StillAtBase(row, in)
            /\ plan[r].write.rev = 1   \* an insert: unique violation, rollback
            /\ plan' = [plan EXCEPT ![r] = NoPlan]
            /\ pc' = [pc EXCEPT ![r] = "replay"]
            /\ UNCHANGED lock
         \/ /\ ~ StillAtBase(row, in)
            /\ plan[r].write.rev > 1   \* an update that matched nothing
            /\ plan' = [plan EXCEPT ![r] = LostPlan(r, in, row)]
            /\ pc' = [pc EXCEPT ![r] = "commit"]
            /\ UNCHANGED lock
      /\ UNCHANGED <<rows, tombstones, receipts, readable, supported, input,
                     attempts, reply, effects>>

TombstoneRevision_Read(in) == in.base

(* upsertTombstone, in the transaction of the deletion.                    *)
TombstoneRevision(in) == in.base + 1

HasReceipt_NoConstraint(in) == FALSE

(* A receipt of the operation is committed: by the unique constraint on    *)
(* (subject, operationId), inserting another one fails.                    *)
HasReceipt(in) == receipts[in.op] # None

(* The receipt is inserted and the transaction commits; or the operation   *)
(* has a receipt by now, and the unique violation rolls everything back.   *)
Commit(r) ==
  LET in == input[r]
      written == plan[r].write
      copied == plan[r].copy
  IN  /\ pc[r] = "commit"
      /\ Release(r)
      /\ plan' = [plan EXCEPT ![r] = NoPlan]
      /\ \/ /\ HasReceipt(in)
            /\ pc' = [pc EXCEPT ![r] = "replay"]
            /\ UNCHANGED <<rows, tombstones, receipts, reply, effects>>
         \/ /\ ~ HasReceipt(in)
            /\ receipts' = [receipts EXCEPT ![in.op] =
                              [input |-> in, result |-> plan[r].result]]
            /\ rows' = [e \in Entity |->
                          IF e = in.target /\ written # NoRow THEN written
                          ELSE IF e = r /\ copied # NoRow THEN copied
                          ELSE rows[e]]
            /\ tombstones' = IF written.deleted
                               THEN [tombstones EXCEPT ![in.target] = TombstoneRevision(in)]
                               ELSE tombstones
            /\ effects' = IF written = NoRow THEN effects
                          ELSE effects \cup {[by |-> r, op |-> in.op, key |-> in.target,
                                              base |-> in.base]}
            /\ Answer(r, plan[r].result)
      /\ UNCHANGED <<readable, supported, input, attempts>>

WinnerSeen_InAbortedTx(in) == FALSE

WinnerSeen(in) == receipts[in.op] # None

(* replayAfterConflict: one read of the winner's receipt.                  *)
ReplayRead(r) ==
  LET in == input[r]
  IN  /\ pc[r] = "replay"
      /\ \/ /\ WinnerSeen(in)
            /\ Answer(r, ReplayOutcome(in, receipts[in.op]))
            /\ UNCHANGED attempts
         \/ /\ ~ WinnerSeen(in)
            /\ attempts[r] + 1 < ReplayAttempts
            /\ attempts' = [attempts EXCEPT ![r] = attempts[r] + 1]
            /\ UNCHANGED <<pc, reply>>
         \/ /\ ~ WinnerSeen(in)
            /\ attempts[r] + 1 = ReplayAttempts
            /\ Answer(r, Refused("CONCURRENT"))
            /\ UNCHANGED attempts
      /\ UNCHANGED <<rows, tombstones, receipts, readable, supported, input, plan,
                     lock, effects>>

(* The transaction or the connection fails: rolled back, answered with an  *)
(* error that acknowledges nothing.                                        *)
Fail(r) ==
  /\ pc[r] \in {"receipt", "entity", "write", "commit", "replay"}
  /\ Release(r)
  /\ plan' = [plan EXCEPT ![r] = NoPlan]
  /\ Answer(r, Refused("FAILED"))
  /\ UNCHANGED <<rows, tombstones, receipts, readable, supported, input,
                 attempts, effects>>

(* Access is granted or withdrawn; a converted version is published.       *)
SetAccess ==
  /\ readable' = ~ readable
  /\ UNCHANGED <<rows, tombstones, receipts, supported, pc, input, plan,
                 attempts, reply, lock, effects>>

PublishVersion(v) ==
  /\ v \notin supported
  /\ supported' = supported \cup {v}
  /\ UNCHANGED <<rows, tombstones, receipts, readable, pc, input, plan,
                 attempts, reply, lock, effects>>

Step(r) == ReadReceipt(r) \/ ReadEntity(r) \/ Write(r) \/ Commit(r) \/ ReplayRead(r)

Next ==
  \/ \E r \in Request, in \in Inputs : Submit(r, in)
  \/ \E r \in Request : Step(r) \/ Fail(r)
  \/ SetAccess
  \/ \E v \in Version : PublishVersion(v)

Spec == Init /\ [][Next]_vars

FairSpec == Spec /\ \A r \in Request : WF_vars(Step(r))

----
(* Properties.                                                             *)

Effect == [by : Request, op : OperationId, key : Entity, base : Nat]

(* Every variable of the service and of its transactions has its type.     *)
TypeOK ==
  /\ rows \in [Entity -> Row]
  /\ tombstones \in [Entity -> Nat]
  /\ receipts \in [OperationId -> Receipt \cup {None}]
  /\ readable \in BOOLEAN
  /\ supported \in SUBSET Version
  /\ pc \in [Request -> {"idle", "receipt", "entity", "write", "commit", "replay", "done"}]
  /\ input \in [Request -> Inputs \cup {None}]
  /\ plan \in [Request -> Plan]
  /\ attempts \in [Request -> 0 .. ReplayAttempts - 1]
  /\ reply \in [Request -> Result \cup {None}]
  /\ lock \in [Entity -> Request \cup {None}]
  /\ effects \in SUBSET Effect

(* However often an operation is sent and however its copies interleave,   *)
(* its change is committed at most once (applyOperation: the mutation and  *)
(* the dedup receipt commit in one transaction).                           *)
ExactlyOnce == \A x, y \in effects : x.op = y.op => x = y

(* Two committed changes never start from the same revision of a row: a    *)
(* row read before its rival committed cannot overwrite the rival's change *)
(* (the conditional updates of every apply* method).                       *)
NoLostUpdate == \A x, y \in effects : x.key = y.key /\ x.base = y.base => x = y

(* Whatever a client is told happened is the durable outcome of exactly    *)
(* the envelope it sent, so every retry is told the same (execute,         *)
(* replayAfterConflict, replayOutcome).                                    *)
ReplyIsDurable ==
  \A r \in Request :
    reply[r] # None /\ reply[r].kind \in {"APPLIED", "CONFLICT"} =>
      receipts[input[r].op] = [input |-> input[r], result |-> reply[r]]

(* CONCURRENT_OPERATION_IN_PROGRESS is answered only when the identity was *)
(* created by another operation, never to a retry of an operation that has *)
(* its outcome (replayAfterConflict).                                      *)
ConcurrentMeansRival ==
  \A r \in Request :
    reply[r] = Refused("CONCURRENT") =>
      \E x \in effects : x.key = input[r].target /\ x.base = 0 /\ x.op # input[r].op

(* A row that is gone has the tombstone of exactly its last revision, and  *)
(* only such rows have one (applyBookmarkRemove, applyAnnotationDelete).   *)
TombstonesMatch ==
  \A e \in Entity : tombstones[e] = IF rows[e].deleted THEN rows[e].rev ELSE 0

(* A deleted identity stays as it was deleted: no delayed add, late edit or *)
(* retry brings it back (applyBookmarkAdd: "can never be resurrected").    *)
DeletedIsFinal ==
  [][\A e \in Entity : rows[e].deleted => rows'[e] = rows[e]]_vars

(* getSnapshot: what one repeatable-read snapshot of the book shows.       *)
SnapshotAnnotations == {e \in Bookmark \cup Highlight : rows[e].rev > 0 /\ ~ rows[e].deleted}
SnapshotTombstones_NoHighlights == {e \in Bookmark : rows[e].deleted /\ tombstones[e] > 0}

SnapshotTombstones == {e \in Bookmark \cup Highlight : rows[e].deleted /\ tombstones[e] > 0}
SnapshotCopies == {e \in CopyId : rows[e].rev > 0}
SnapshotRevisions ==
  {rows[e].rev : e \in SnapshotAnnotations \cup SnapshotCopies}
    \cup {tombstones[e] : e \in SnapshotTombstones}

(* The snapshot watermark never decreases (getSnapshot: "It never          *)
(* decreases"), deletions included: whatever revision a snapshot shows, a   *)
(* later one shows it or a higher one.                                     *)
WatermarkMonotone ==
  [][\A old \in SnapshotRevisions : \E new \in SnapshotRevisions' : new >= old]_vars

(* A highlight edit the server refuses survives as a conflict copy of the  *)
(* operation, linked to an original highlight and not to another copy, and *)
(* an operation leaves at most one copy.                                   *)
CopiesKeepOrigin ==
  /\ \A c \in CopyId : rows[c].rev > 0 =>
       /\ rows[c].source \in Highlight
       /\ rows[rows[c].source].rev > 0
       /\ receipts[rows[c].origin] # None
       /\ receipts[rows[c].origin].result.copy = c
  /\ \A op \in OperationId : receipts[op] # None /\ receipts[op].result.copy # None =>
       rows[receipts[op].result.copy].origin = op

(* The first completion time does not drift while the reader stays at the  *)
(* end (applyProgress: "Preserve the FIRST completion time").              *)
CompletionKept ==
  [][rows[Progress].completed # None /\ rows'[Progress].completed # None
       => rows'[Progress].completed = rows[Progress].completed]_vars

(* Every committed step is one step of the serial store.                   *)
Store == INSTANCE ReaderStore
RefinesReaderStore == Store!Spec

(* An update of a conflict copy that loses, by whatever interleaving, is   *)
(* answered with a copy that keeps the edit (updateConflictCopy: "never    *)
(* return CONFLICT with a null copy for an update").                       *)
LostRetargetKeepsEdit ==
  \A op \in OperationId :
    receipts[op] # None /\ receipts[op].result.kind = "CONFLICT"
      /\ receipts[op].input.target \in CopyId => receipts[op].result.copy # None

(* The contract's rule for every annotation update: "Stale annotation      *)
(* edits/retargets require non-null conflictCopy".                         *)
LostEditKeepsEdit ==
  \A op \in OperationId :
    receipts[op] # None /\ receipts[op].result.kind = "CONFLICT"
      /\ receipts[op].input.kind = "ANNOTATION_UPDATE" => receipts[op].result.copy # None

(* Every call is answered: no transaction waits forever on a row, and the  *)
(* replay reads are bounded.                                               *)
EveryCallAnswered ==
  \A r \in Request : pc[r] = "receipt" ~> pc[r] = "done"

----
(* The inductive invariant.  What a transaction read stays true until it   *)
(* ends, except what the base revision in its statement re-checks.         *)

(* What a call is about, and that it has no answer before it is done.      *)
Asked(r) ==
  /\ pc[r] # "done" => reply[r] = None
  /\ pc[r] # "idle" => input[r] \in Inputs
  /\ pc[r] \notin {"idle", "done"} => Valid(input[r])

WantsWrite(r) == pc[r] = "write" \/ (pc[r] = "commit" /\ plan[r].write # NoRow)

(* A transaction that decided to write: its row is where it was read, or   *)
(* has moved past the base revision.                                       *)
Writing(r) ==
  LET in == input[r]
      row == rows[in.target]
      p == plan[r]
  IN  /\ p.result = Applied(r, in.base + 1)
      /\ p.write.rev = in.base + 1
      /\ p.copy = NoRow
      /\ in.kind = "PROGRESS_SET" => ~ p.write.deleted
      /\ row.rev >= in.base
      /\ row.rev = in.base =>
           /\ ~ row.deleted
           /\ in.kind = "BOOKMARK_REMOVE" => p.write.content = row.content

(* One that holds its row: nobody moved the row, nobody can.               *)
Holding(r) ==
  /\ lock[input[r].target] = r
  /\ rows[input[r].target].rev = input[r].base

(* What an applied operation without an effect reports is there to stay.   *)
Satisfied(in, row) ==
  \/ in.kind \in {"BOOKMARK_REMOVE", "ANNOTATION_DELETE"} /\ row.deleted
  \/ in.kind = "BOOKMARK_ADD" /\ row.rev > 0 /\ row.content = in.content

(* A transaction that writes nothing to its target.                        *)
Reporting(r) ==
  LET in == input[r]
      p == plan[r]
  IN  /\ p.result.kind \in {"APPLIED", "CONFLICT"}
      /\ p.result.kind = "APPLIED" => Satisfied(in, rows[in.target]) /\ p.copy = NoRow
      /\ p.copy # NoRow => /\ p.result.copy = r
                           /\ p.copy.rev = 1
                           /\ ~ p.copy.deleted
                           /\ p.copy.origin = in.op

(* A unique violation has a winner: this operation's own receipt, or the   *)
(* rival that created the identity.                                        *)
Rival(r) == \E x \in effects : /\ x.key = input[r].target
                               /\ x.base = 0
                               /\ x.op # input[r].op

CallHolds(r) ==
  /\ Asked(r)
  /\ WantsWrite(r) => Writing(r)
  /\ pc[r] = "commit" /\ plan[r].write # NoRow => Holding(r)
  /\ pc[r] = "commit" /\ plan[r].write = NoRow => Reporting(r)
  /\ pc[r] = "replay" => receipts[input[r].op] # None \/ Rival(r)

CallsHold == \A r \in Request : CallHolds(r)

LocksHeld ==
  \A e \in Entity : lock[e] # None =>
    /\ pc[lock[e]] = "commit"
    /\ plan[lock[e]].write # NoRow
    /\ input[lock[e]].target = e

(* The id of a conflict copy is drawn by the transaction that commits it.  *)
RowsGrounded ==
  /\ \A e \in Entity : rows[e].rev = 0 => ~ rows[e].deleted
  /\ ~ rows[Progress].deleted
  /\ \A r \in Request : rows[r].rev > 0 => pc[r] = "done"
  /\ \A e \in Entity \ CopyId : rows[e].rev > 0 =>
       \E x \in effects : x.key = e /\ x.base = 0

EffectsRecorded ==
  \A x \in effects :
    /\ receipts[x.op] # None
    /\ receipts[x.op].result = Applied(x.by, x.base + 1)
    /\ receipts[x.op].input.target = x.key
    /\ receipts[x.op].input.base = x.base
    /\ rows[x.key].rev > x.base

ReceiptsFinal ==
  \A op \in OperationId :
    receipts[op] # None => receipts[op].result.kind \in {"APPLIED", "CONFLICT"}

Inv ==
  /\ TypeOK
  /\ CallsHold
  /\ LocksHeld
  /\ RowsGrounded
  /\ EffectsRecorded
  /\ NoLostUpdate
  /\ ReceiptsFinal
  /\ ReplyIsDurable
  /\ ConcurrentMeansRival
  /\ TombstonesMatch
=============================================================================
