----------------------------- MODULE OutboxSync -----------------------------
(***************************************************************************)
(* The device side of reader sync for one account and one book: the tabs   *)
(* of a browser share one IndexedDB outbox.  In each tab ReaderRecords     *)
(* queues the reader's edits and SyncCoordinator drains the queue under a  *)
(* lease that expires while it is used.  Every IndexedDB transaction is    *)
(* one step; what a tab read in an earlier transaction it keeps in edit[t] *)
(* or drain[t], and writes back later.                                     *)
(*                                                                         *)
(* The server settles an operation in one step, which is what the          *)
(* refinement of ReaderStore by ReaderMutations allows a caller to assume; *)
(* a request may be lost, answered too late, or arrive after its sender    *)
(* gave up on it.                                                          *)
(***************************************************************************)
EXTENDS Naturals, FiniteSets

CONSTANTS
  Tab,
  Editor,       \* bound: the tabs in which the reader edits and discards
  Progress,     \* the entity of the reading position
  Annotation,   \* the entities of bookmarks and highlights made on this device
  Foreign,      \* operations of other devices, all on the reading position
  MaxOps,       \* bound: operations queued on this device
  MaxEdits,     \* bound: edits the reader makes; an edit stands for its content
  MaxAttempts,  \* DEFAULT_MAX_ATTEMPTS
  MaxExpiries,  \* bound: leases that expire under a running drain
  MaxStops,     \* bound: closed tabs, storage faults and ended sessions
  None

Op == 1 .. MaxOps
Edit == 1 .. MaxEdits
Entity == Annotation \cup {Progress}

ASSUME SyncConstants ==
  /\ Editor \subseteq Tab
  /\ Progress \notin Annotation
  /\ Op \cap Foreign = {} /\ IsFiniteSet(Foreign)
  /\ MaxOps \in Nat /\ MaxEdits \in Nat /\ MaxExpiries \in Nat /\ MaxStops \in Nat
  /\ MaxAttempts \in Nat \ {0}
  /\ None \notin Tab \cup Entity \cup Foreign \cup Nat

VARIABLES
  outbox,     \* the queued operation of each id, or None
  records,    \* the local record of each entity
  acks,       \* the receipt of each operation kept on the device, or None
  lease,      \* the sync lease: whose token it carries, and whether it is unexpired
  edit,       \* the edit a tab is about to commit, or None
  drain,      \* the run of each tab's coordinator
  discarding, \* the operations a tab is about to discard
  rows,       \* the server's rows
  receipts,   \* the server's receipts
  late,       \* requests under way whose sender no longer waits
  owed,       \* history: operations the reader saved and did not discard
  made, edits, expiries, stops

device == <<outbox, records, acks, lease>>
tabs == <<edit, drain, discarding>>
server == <<rows, receipts>>
counts == <<made, edits, expiries, stops>>
vars == <<device, tabs, server, late, owed, counts>>

----
(* Queued operations.  A BOOKMARK_ADD is queued and replayed like an        *)
(* ANNOTATION_CREATE, a BOOKMARK_REMOVE or ANNOTATION_DELETE like an        *)
(* ANNOTATION_UPDATE.                                                      *)

Kind == {"PROGRESS_SET", "ANNOTATION_CREATE", "ANNOTATION_UPDATE"}
DispatchState == {"PENDING", "DISPATCHING", "FAILED", "TERMINAL"}

Queued == [kind : Kind, entity : Entity, seq : Nat, dependsOn : Op \cup {None},
           base : Nat, state : DispatchState, attempts : 0 .. MaxAttempts,
           waiting : BOOLEAN, edit : Edit]

Envelope == [op : Op \cup Foreign, kind : Kind, target : Entity, base : Nat,
             content : Edit \cup Foreign]

ResultKind == {"APPLIED", "CONFLICT", "ACCESS_DENIED"}
Failure == {"AUTH_REQUIRED", "REJECTED", "CONFLICT", "TRANSIENT"}
AnyAnswer == [kind : ResultKind \cup Failure, revision : Nat]
ServerReceipt == [input : Envelope, result : AnyAnswer]

(* A record is not the absence of one.                                     *)
ASSUME NoneIsNoRecord ==
  None \notin Queued \cup AnyAnswer \cup ServerReceipt \cup [op : Op, record : Queued, revision : Nat]

Present == {o \in Op : outbox[o] # None}
QueuedFor(e) == {o \in Present : outbox[o].entity = e}

Latest(ops) == {o \in ops : \A p \in ops : outbox[p].seq <= outbox[o].seq}

IsCoalescable(record) == record.kind = "PROGRESS_SET" /\ record.state = "PENDING"

(* One above the greatest sequence in the queue; a set of one number.      *)
NextLocalSequence ==
  {n + 1 : n \in {m \in {0} \cup {outbox[o].seq : o \in Present} :
                    \A o \in Present : outbox[o].seq <= m}}

NewOperations(kind, e, dependsOn, base) ==
  {[kind |-> kind, entity |-> e, seq |-> n, dependsOn |-> dependsOn,
    base |-> base, state |-> "PENDING", attempts |-> 0, waiting |-> FALSE,
    edit |-> edits + 1] : n \in NextLocalSequence}

NoRecord == [revision |-> 0, edit |-> None]

----
(* The reader edits.  The outbox is read in one transaction, the record    *)
(* and its operation are put in another; the edits of one tab queue up.    *)

MayEdit(t) == edit[t] = None /\ edits < MaxEdits

Queue(t, o, record, revision) ==
  /\ edit' = [edit EXCEPT ![t] = [op |-> o, record |-> record, revision |-> revision]]
  /\ edits' = edits + 1
  /\ made' = IF o > made THEN o ELSE made
  /\ UNCHANGED <<device, drain, discarding, server, late, owed, expiries, stops>>

(* saveProgress: an unsent position is replaced under its operation id,    *)
(* otherwise a new operation starts from base revision 0.                  *)
SaveProgress(t) ==
  /\ MayEdit(t)
  /\ LET unsent == {o \in QueuedFor(Progress) : IsCoalescable(outbox[o])}
     IN  \/ \E o \in Latest(unsent) :
              Queue(t, o, [outbox[o] EXCEPT !.edit = edits + 1], 0)
         \/ /\ unsent = {}
            /\ made < MaxOps
            /\ \E new \in NewOperations("PROGRESS_SET", Progress, None, 0) :
                 Queue(t, made + 1, new, 0)

(* createHighlight, addBookmark: a fresh client entity id.                 *)
CreateAnnotation(t, a) ==
  /\ MayEdit(t)
  /\ made < MaxOps
  /\ records[a] = NoRecord
  /\ \A u \in Tab : edit[u] # None => edit[u].record.entity # a
  /\ \E new \in NewOperations("ANNOTATION_CREATE", a, None, 0) :
       Queue(t, made + 1, new, 0)

(* updateHighlight, removeBookmark, deleteHighlight: behind the latest     *)
(* operation queued for the entity, based on the local record's revision.  *)
UpdateAnnotation(t, a) ==
  /\ MayEdit(t)
  /\ made < MaxOps
  /\ records[a] # NoRecord
  /\ LET base == records[a].revision
         predecessors == IF QueuedFor(a) = {} THEN {None} ELSE Latest(QueuedFor(a))
     IN  \E d \in predecessors :
         \E new \in NewOperations("ANNOTATION_UPDATE", a, d, base) :
           Queue(t, made + 1, new, base + 1)

(* commitEditWithOutbox.  A transaction that aborts stores neither part: the *)
(* edit was not made.                                                       *)
CommitEdit(t) ==
  /\ edit[t] # None
  /\ outbox' = [outbox EXCEPT ![edit[t].op] = edit[t].record]
  /\ records' = [records EXCEPT ![edit[t].record.entity] =
                   [revision |-> edit[t].revision, edit |-> edit[t].record.edit]]
  /\ owed' = owed \cup {edit[t].op}
  /\ edit' = [edit EXCEPT ![t] = None]
  /\ UNCHANGED <<acks, lease, drain, discarding, server, late, counts>>

----
(* The server settles one request.                                         *)

NoRow == [rev |-> 0, deleted |-> FALSE, content |-> None]

Request(o, record) ==
  [op |-> o, kind |-> record.kind, target |-> record.entity,
   base |-> record.base, content |-> record.edit]

Store(env, result) ==
  receipts' = [receipts EXCEPT ![env.op] = [input |-> env, result |-> result]]

(* A settled operation is answered from its receipt, never evaluated again. *)
Replays(env, result) ==
  /\ receipts[env.op].input = env
  /\ result = receipts[env.op].result
  /\ UNCHANGED server

(* From exactly the revision it names an operation moves its row by one.   *)
Applies(env, result) ==
  /\ env.kind # "ANNOTATION_UPDATE"
  /\ rows[env.target].rev = env.base
  /\ result = [kind |-> "APPLIED", revision |-> env.base + 1]
  /\ rows' = [rows EXCEPT ![env.target] =
                [rev |-> env.base + 1, deleted |-> FALSE, content |-> env.content]]
  /\ Store(env, result)

Conflicts(env, result) ==
  /\ env.kind # "ANNOTATION_UPDATE"
  /\ rows[env.target].rev # env.base
  /\ result = [kind |-> "CONFLICT", revision |-> rows[env.target].rev]
  /\ Store(env, result)
  /\ UNCHANGED rows

(* Without access, and for an edit of a row the server does not know: the  *)
(* entityId a device sends for an edit is its own local key.               *)
Refuses(env, result) ==
  /\ env.kind = "ANNOTATION_UPDATE" => env.base > 0
  /\ result = [kind |-> "ACCESS_DENIED", revision |-> 0]
  /\ UNCHANGED server

Settles_NoReceiptRead(env, result) ==
  Applies(env, result) \/ Conflicts(env, result) \/ Refuses(env, result)

Settles(env, result) ==
  IF receipts[env.op] # None
    THEN Replays(env, result)
    ELSE Applies(env, result) \/ Conflicts(env, result) \/ Refuses(env, result)

Results == [kind : ResultKind, revision : 0 .. MaxOps + Cardinality(Foreign)]

(* A request whose sender has given up can change something only while its *)
(* operation is unsettled; any other one is forgotten.                     *)
Unsettled(requests) == {env \in requests : receipts'[env.op] = None}

Abandon(env) ==
  late' = IF receipts[env.op] = None /\ env.kind # "ANNOTATION_UPDATE"
            THEN late \cup {env} ELSE late

HandleLate(env) ==
  /\ receipts[env.op] = None
  /\ \E result \in Results : Applies(env, result) \/ Conflicts(env, result)
  /\ late' = Unsettled(late)
  /\ UNCHANGED <<device, tabs, owed, counts>>

(* Another device moves the reading position on.                           *)
MoveElsewhere(f) ==
  /\ receipts[f] = None
  /\ \E result \in Results :
       Applies([op |-> f, kind |-> "PROGRESS_SET", target |-> Progress,
                base |-> rows[Progress].rev, content |-> f], result)
  /\ UNCHANGED <<device, tabs, late, owed, counts>>

----
(* The coordinator.                                                        *)

NoRun ==
  [pc |-> "idle", working |-> [o \in Op |-> None], kept |-> {}, paused |-> {},
   cur |-> None, answer |-> None, successors |-> [o \in Op |-> None],
   record |-> None]

Advance(t, run) == drain' = [drain EXCEPT ![t] = run]

(* The record drain[t] works from: a copy made when the run listed the queue. *)
Copy(t) == drain[t].working[drain[t].cur]

PutCopy(t, record) == outbox' = [outbox EXCEPT ![drain[t].cur] = record]

(* The run's map of working copies: a visited operation stays in it unless  *)
(* it was acknowledged, but its copy is not used again.                     *)
Acked(run) ==
  [NoRun EXCEPT !.pc = "next", !.working = [run.working EXCEPT ![run.cur] = None],
                !.kept = run.kept, !.paused = run.paused]

Visited(run) == [Acked(run) EXCEPT !.kept = @ \cup {run.cur}]

Left(run) == {o \in Op : run.working[o] # None}

MayAcquire_Always(t) == TRUE

MayAcquire(t) == ~ lease.active \/ lease.holder = t

(* drain, runDrain, acquire: one run per tab, and only with the lease.  A  *)
(* tab that does not get it changes nothing.                               *)
StartDrain(t) ==
  /\ drain[t].pc = "idle"
  /\ MayAcquire(t)
  /\ lease' = [holder |-> t, active |-> TRUE]
  /\ Advance(t, [NoRun EXCEPT !.pc = "listing"])
  /\ UNCHANGED <<outbox, records, acks, edit, discarding, server, late, owed, counts>>

(* release keeps an expired lease, so that the fencing token only grows.   *)
Released(t) == IF lease.holder = t THEN [lease EXCEPT !.active = FALSE] ELSE lease

ListQueue(t) ==
  /\ drain[t].pc = "listing"
  /\ Advance(t, [drain[t] EXCEPT !.pc = "next", !.working = outbox])
  /\ UNCHANGED <<device, edit, discarding, server, late, owed, counts>>

IsHead(t, o) ==
  /\ drain[t].pc = "next"
  /\ o \in Left(drain[t])
  /\ \A p \in Left(drain[t]) : drain[t].working[o].seq <= drain[t].working[p].seq

IsBlockedSuccessor_Never(run, record) == FALSE

IsBlockedSuccessor(run, record) ==
  record.dependsOn \in Left(run) \cup run.kept

Runnable(run, record) ==
  /\ record.state # "TERMINAL"
  /\ record.entity \notin run.paused
  /\ ~ IsBlockedSuccessor(run, record)

(* isSkippable.  Whether the backoff window of a failed attempt has        *)
(* elapsed is up to the clock.                                             *)
Skip(t, o) ==
  /\ IsHead(t, o)
  /\ Runnable(drain[t], drain[t].working[o]) => drain[t].working[o].waiting
  /\ Advance(t, Visited([drain[t] EXCEPT !.cur = o]))
  /\ UNCHANGED <<device, edit, discarding, server, late, owed, counts>>

(* dispatch: the working copy is written back as DISPATCHING and sent.     *)
Dispatch(t, o) ==
  /\ IsHead(t, o)
  /\ Runnable(drain[t], drain[t].working[o])
  /\ outbox' = [outbox EXCEPT ![o] = [drain[t].working[o] EXCEPT !.state = "DISPATCHING"]]
  /\ Advance(t, [drain[t] EXCEPT !.pc = "waiting", !.cur = o])
  /\ UNCHANGED <<records, acks, lease, edit, discarding, server, late, owed, counts>>

Sent(t) == Request(drain[t].cur, Copy(t))

(* The server answers.                                                     *)
Reply(t) ==
  /\ drain[t].pc = "waiting"
  /\ \E result \in Results :
       /\ Settles(Sent(t), result)
       /\ Advance(t, [drain[t] EXCEPT !.pc = "answered", !.answer = result])
  /\ late' = Unsettled(late)
  /\ UNCHANGED <<device, edit, discarding, owed, counts>>

(* classifyDispatchError: the session has ended; the server rejected the   *)
(* operation, or reported 409; the request or its answer was lost, or the  *)
(* error carries no status.  A request given up on may still arrive.       *)
Fail(t, failure) ==
  /\ drain[t].pc = "waiting"
  /\ \/ failure # "AUTH_REQUIRED" /\ UNCHANGED stops
     \/ failure = "AUTH_REQUIRED" /\ stops < MaxStops /\ stops' = stops + 1
  /\ \/ UNCHANGED late
     \/ failure = "TRANSIENT" /\ Abandon(Sent(t))
  /\ Advance(t, [drain[t] EXCEPT !.pc = "failed",
                                 !.answer = [kind |-> failure, revision |-> 0]])
  /\ UNCHANGED <<device, edit, discarding, server, owed, made, edits, expiries>>

----
(* What a run does with an answer.  Every write puts the run's copy.       *)

Attempt(record) ==
  IF record.attempts < MaxAttempts THEN record.attempts + 1 ELSE MaxAttempts

Retained(record) ==
  [record EXCEPT !.state = "TERMINAL", !.attempts = Attempt(record), !.waiting = FALSE]

Conflicted(record) == [record EXCEPT !.state = "FAILED", !.attempts = Attempt(record)]

(* restorePending *)
Restored(record) ==
  [record EXCEPT !.state = "PENDING", !.attempts = Attempt(record), !.waiting = TRUE]

Rescheduled_Forever(record) == [record EXCEPT !.state = "PENDING", !.waiting = TRUE]

(* rescheduleOrExhaust *)
Rescheduled(record) ==
  IF record.attempts + 1 >= MaxAttempts THEN Retained(record) ELSE Restored(record)

(* handleDispatchFailure: the lease is not read again.                     *)
HandleFailure(t) ==
  /\ drain[t].pc = "failed"
  /\ LET failure == drain[t].answer.kind
         run == Visited(drain[t])
     IN  \/ /\ failure = "AUTH_REQUIRED"
            /\ PutCopy(t, [Copy(t) EXCEPT !.state = "PENDING"])
            /\ Advance(t, [run EXCEPT !.working = NoRun.working])
         \/ /\ failure = "REJECTED"
            /\ PutCopy(t, Retained(Copy(t)))
            /\ Advance(t, run)
         \/ /\ failure = "CONFLICT"
            /\ PutCopy(t, Conflicted(Copy(t)))
            /\ Advance(t, [run EXCEPT !.paused = @ \cup {Copy(t).entity}])
         \/ /\ failure = "TRANSIENT"
            /\ PutCopy(t, Rescheduled(Copy(t)))
            /\ Advance(t, run)
  /\ UNCHANGED <<records, acks, lease, edit, discarding, server, late, owed, counts>>

(* leaseLost: the lease is read, and the answer handled in transactions of *)
(* their own.                                                              *)
CheckLease(t) ==
  /\ drain[t].pc = "answered"
  /\ LET held == lease = [holder |-> t, active |-> TRUE]
     IN  Advance(t, [drain[t] EXCEPT !.pc = IF held THEN "reconciling" ELSE "restoring"])
  /\ UNCHANGED <<device, edit, discarding, server, late, owed, counts>>

RestorePending(t) ==
  /\ drain[t].pc = "restoring"
  /\ PutCopy(t, Restored(Copy(t)))
  /\ Advance(t, Visited(drain[t]))
  /\ UNCHANGED <<records, acks, lease, edit, discarding, server, late, owed, counts>>

Rebased(queue, o, revision) ==
  [p \in Op |-> IF queue[p] # None /\ queue[p].dependsOn = o
                  THEN [queue[p] EXCEPT !.base = revision]
                  ELSE None]

(* applyAck, first transaction: the queued successors are read.            *)
FindSuccessors(t) ==
  /\ drain[t].pc = "reconciling"
  /\ drain[t].answer.kind = "APPLIED"
  /\ Advance(t, [drain[t] EXCEPT
        !.pc = "acking",
        !.successors = Rebased(outbox, drain[t].cur, drain[t].answer.revision)])
  /\ UNCHANGED <<device, edit, discarding, server, late, owed, counts>>

Over(changes, queue) ==
  [o \in Op |-> IF changes[o] # None THEN changes[o] ELSE queue[o]]

(* acknowledgeOperation: the receipt, the rebased successors and the       *)
(* removal are one transaction.                                            *)
Acknowledge(t) ==
  /\ drain[t].pc = "acking"
  /\ acks' = [acks EXCEPT ![drain[t].cur] = drain[t].answer]
  /\ outbox' = [Over(drain[t].successors, outbox) EXCEPT ![drain[t].cur] = None]
  /\ Advance(t, [drain[t] EXCEPT !.pc = "marking", !.successors = NoRun.successors])
  /\ UNCHANGED <<records, lease, edit, discarding, server, late, owed, counts>>

(* markEntitySynced, which reads the entity's record and puts it back; the *)
(* run's own copies lose the operation and gain the new base revision.     *)
ReadRecord(t) ==
  /\ drain[t].pc = "marking"
  /\ Advance(t, [drain[t] EXCEPT !.pc = "marked", !.record = records[Copy(t).entity]])
  /\ UNCHANGED <<device, edit, discarding, server, late, owed, counts>>

MarkSynced(t) ==
  /\ drain[t].pc = "marked"
  /\ records' = [records EXCEPT ![Copy(t).entity] = drain[t].record]
  /\ LET rebased == Rebased(drain[t].working, drain[t].cur, drain[t].answer.revision)
     IN  Advance(t, Acked([drain[t] EXCEPT !.working = Over(rebased, @)]))
  /\ UNCHANGED <<outbox, acks, lease, edit, discarding, server, late, owed, counts>>

(* A conflict leaves a receipt and, in a later transaction, the operation  *)
(* FAILED.                                                                 *)
RecordConflict(t) ==
  /\ drain[t].pc = "reconciling"
  /\ drain[t].answer.kind = "CONFLICT"
  /\ acks' = [acks EXCEPT ![drain[t].cur] = drain[t].answer]
  /\ Advance(t, [drain[t] EXCEPT !.pc = "conflicted"])
  /\ UNCHANGED <<outbox, records, lease, edit, discarding, server, late, owed, counts>>

ConflictQueue_Dropped(t) == outbox' = [outbox EXCEPT ![drain[t].cur] = None]

ConflictQueue(t) == PutCopy(t, Conflicted(Copy(t)))

RetainConflict(t) ==
  /\ drain[t].pc = "conflicted"
  /\ ConflictQueue(t)
  /\ Advance(t, [Visited(drain[t]) EXCEPT !.paused = @ \cup {Copy(t).entity}])
  /\ UNCHANGED <<records, acks, lease, edit, discarding, server, late, owed, counts>>

RetainRefused(t) ==
  /\ drain[t].pc = "reconciling"
  /\ drain[t].answer.kind = "ACCESS_DENIED"
  /\ PutCopy(t, Retained(Copy(t)))
  /\ Advance(t, Visited(drain[t]))
  /\ UNCHANGED <<records, acks, lease, edit, discarding, server, late, owed, counts>>

Finish(t) ==
  /\ drain[t].pc = "next"
  /\ Left(drain[t]) = {}
  /\ lease' = Released(t)
  /\ Advance(t, NoRun)
  /\ UNCHANGED <<outbox, records, acks, edit, discarding, server, late, owed, counts>>

----
(* The reader gives up conflicts; tabs stop; leases run out.               *)

(* collectDiscardClosure: the least set of listed operations that holds    *)
(* the conflicts and every successor of its members.                       *)
IsDiscardClosure(ops) ==
  LET conflicted == {o \in Present : outbox[o].state = "FAILED"}
      closed(set) ==
        /\ conflicted \subseteq set
        /\ \A o \in Present : outbox[o].dependsOn \in set => o \in set
  IN  closed(ops) /\ \A other \in SUBSET Present : closed(other) => ops \subseteq other

DiscardConflicts(t) ==
  /\ discarding[t] = {}
  /\ \E ops \in SUBSET Present \ {{}} :
       IsDiscardClosure(ops) /\ discarding' = [discarding EXCEPT ![t] = ops]
  /\ UNCHANGED <<device, edit, drain, server, late, owed, counts>>

(* commitOutboxChanges *)
CommitDiscard(t) ==
  /\ discarding[t] # {}
  /\ outbox' = [o \in Op |-> IF o \in discarding[t] THEN None ELSE outbox[o]]
  /\ owed' = owed \ discarding[t]
  /\ discarding' = [discarding EXCEPT ![t] = {}]
  /\ UNCHANGED <<records, acks, lease, edit, drain, server, late, counts>>

(* A storage fault ends a run; its lease is released.  While waiting, the  *)
(* fault came before the request was sent.                                 *)
DrainThrows(t) ==
  /\ drain[t].pc # "idle"
  /\ stops < MaxStops
  /\ stops' = stops + 1
  /\ lease' = Released(t)
  /\ Advance(t, NoRun)
  /\ UNCHANGED <<outbox, records, acks, edit, discarding, server, late, owed, made, edits, expiries>>

(* A tab closes and opens again under a new identity: its lease is left to *)
(* expire.                                                                 *)
CloseTab(t) ==
  /\ stops < MaxStops
  /\ stops' = stops + 1
  /\ \/ UNCHANGED late
     \/ drain[t].pc = "waiting" /\ Abandon(Sent(t))
  /\ lease' = IF lease.holder = t THEN [lease EXCEPT !.holder = None] ELSE lease
  /\ edit' = [edit EXCEPT ![t] = None]
  /\ discarding' = [discarding EXCEPT ![t] = {}]
  /\ Advance(t, NoRun)
  /\ UNCHANGED <<outbox, records, acks, server, owed, made, edits, expiries>>

(* The lease lasts 30 seconds and is never renewed: one slow request can   *)
(* outlive it.                                                             *)
LeaseExpires ==
  /\ lease.active
  /\ \/ lease.holder = None /\ UNCHANGED expiries
     \/ lease.holder # None /\ expiries < MaxExpiries /\ expiries' = expiries + 1
  /\ lease' = [lease EXCEPT !.active = FALSE]
  /\ UNCHANGED <<outbox, records, acks, tabs, server, late, owed, made, edits, stops>>

----
Init ==
  /\ outbox = [o \in Op |-> None]
  /\ records = [e \in Entity |-> NoRecord]
  /\ acks = [o \in Op |-> None]
  /\ lease = [holder |-> None, active |-> FALSE]
  /\ edit = [t \in Tab |-> None]
  /\ drain = [t \in Tab |-> NoRun]
  /\ discarding = [t \in Tab |-> {}]
  /\ rows = [e \in Entity |-> NoRow]
  /\ receipts = [o \in Op \cup Foreign |-> None]
  /\ late = {}
  /\ owed = {}
  /\ made = 0 /\ edits = 0 /\ expiries = 0 /\ stops = 0

Reader(t) ==
  \/ SaveProgress(t) \/ CommitEdit(t)
  \/ \E a \in Annotation : CreateAnnotation(t, a) \/ UpdateAnnotation(t, a)
  \/ DiscardConflicts(t) \/ CommitDiscard(t)

Answer(t) == Reply(t) \/ \E failure \in Failure : Fail(t, failure)

Run(t) ==
  \/ ListQueue(t) \/ \E o \in Op : Skip(t, o) \/ Dispatch(t, o)
  \/ Answer(t) \/ HandleFailure(t) \/ CheckLease(t) \/ RestorePending(t)
  \/ FindSuccessors(t) \/ Acknowledge(t) \/ ReadRecord(t) \/ MarkSynced(t)
  \/ RecordConflict(t) \/ RetainConflict(t) \/ RetainRefused(t) \/ Finish(t)

Next ==
  \/ \E t \in Editor : Reader(t)
  \/ \E t \in Tab : StartDrain(t) \/ Run(t) \/ DrainThrows(t) \/ CloseTab(t)
  \/ \E env \in late : HandleLate(env)
  \/ \E f \in Foreign : MoveElsewhere(f)
  \/ LeaseExpires

Spec == Init /\ [][Next]_vars

(* The app drains on launch, on focus and when the network returns; a run  *)
(* goes on; an abandoned lease expires; a backoff window of at most 30     *)
(* seconds does not outlast every run.                                     *)
Fairness ==
  /\ WF_vars(LeaseExpires)
  /\ \A t \in Tab :
       /\ WF_vars(StartDrain(t)) /\ WF_vars(Run(t))
       /\ \A o \in Op : SF_vars(Dispatch(t, o))

FairSpec == Spec /\ Fairness

----
(* What each variable holds.                                               *)
PC == {"idle", "listing", "next", "waiting", "failed", "answered", "restoring",
       "reconciling", "acking", "marking", "marked", "conflicted"}

OutboxType == [Op -> Queued \cup {None}]
LocalRecord == [revision : Nat, edit : Edit \cup {None}]
RunType ==
  [pc : PC, working : OutboxType, kept : SUBSET Op, paused : SUBSET Entity,
   cur : Op \cup {None}, answer : AnyAnswer \cup {None}, successors : OutboxType,
   record : LocalRecord \cup {None}]

TypeOK ==
  /\ outbox \in OutboxType
  /\ records \in [Entity -> LocalRecord]
  /\ acks \in [Op -> AnyAnswer \cup {None}]
  /\ lease \in [holder : Tab \cup {None}, active : BOOLEAN]
  /\ edit \in [Tab -> [op : Op, record : Queued, revision : Nat] \cup {None}]
  /\ drain \in [Tab -> RunType]
  /\ discarding \in [Tab -> SUBSET Op]
  /\ rows \in [Entity -> [rev : Nat, deleted : BOOLEAN,
                          content : Edit \cup Foreign \cup {None}]]
  /\ receipts \in [Op \cup Foreign -> ServerReceipt \cup {None}]
  /\ late \subseteq Envelope
  /\ owed \subseteq Op
  /\ made \in 0 .. MaxOps /\ edits \in 0 .. MaxEdits
  /\ expiries \in 0 .. MaxExpiries /\ stops \in 0 .. MaxStops

(* An operation the reader saved is in the queue, applied by the server,   *)
(* or was discarded by the reader.                                         *)
EditsKept ==
  \A o \in owed :
    \/ outbox[o] # None
    \/ receipts[o] # None /\ receipts[o].result.kind = "APPLIED"

(* The receipt a device keeps of an operation is the server's, whatever    *)
(* was lost, resent or answered twice.                                     *)
AcknowledgedOnServer ==
  \A o \in Op : acks[o] # None => receipts[o] # None /\ acks[o] = receipts[o].result

(* While no lease runs out under its holder, two tabs never drain at once, *)
(* whatever closes in between (createSyncLock, acquire and release).       *)
DrainsExclude ==
  expiries = 0 => \A t, u \in Tab : drain[t].pc # "idle" /\ drain[u].pc # "idle" => t = u

(* While no lease runs out under its holder, an acknowledged operation on  *)
(* an annotation never comes back into the queue, though every write of a  *)
(* run puts a copy it made earlier.                                        *)
AckedStaysGone ==
  expiries = 0 =>
    \A o \in Op :
      acks[o] # None /\ acks[o].kind = "APPLIED" /\ outbox[o] # None =>
        outbox[o].entity = Progress

(* A successor is sent only when its predecessor is applied on the server, *)
(* or was discarded.                                                       *)
SuccessorsWait ==
  [][\A t \in Tab :
       drain[t].pc = "next" /\ drain'[t].pc = "waiting" =>
         LET d == drain[t].working[drain'[t].cur].dependsOn
         IN  d \in owed => acks[d] # None /\ acks[d].kind = "APPLIED"]_vars

(* The payload of an operation never changes once it has been sent: what   *)
(* is sent again is what the server has a receipt for (isCoalescable).     *)
PayloadFixed ==
  \A t \in Tab :
    drain[t].pc = "waiting" /\ receipts[drain[t].cur] # None =>
      receipts[drain[t].cur].input.content = Sent(t).content

(* A successor of an acknowledged operation is queued with the revision    *)
(* the server acknowledged (applyAck).                                     *)
SuccessorsRebased ==
  \A o \in Present :
    LET d == outbox[o].dependsOn
    IN  d # None => (acks[d] # None /\ acks[d].kind = "APPLIED"
                      => outbox[o].base = acks[d].revision)

(* Every queued operation leaves the queue or comes to rest for the reader *)
(* to decide, unless an earlier one rests there.                           *)
AtRest(o) == outbox[o] # None /\ outbox[o].state \in {"FAILED", "TERMINAL"}
Behind(o) ==
  /\ outbox[o] # None
  /\ \E p \in QueuedFor(outbox[o].entity) : AtRest(p) /\ outbox[p].seq < outbox[o].seq
EveryEditSettles ==
  \A o \in Op : outbox[o] # None ~> outbox[o] = None \/ AtRest(o) \/ Behind(o)
=============================================================================
