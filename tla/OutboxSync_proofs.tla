------------------------- MODULE OutboxSync_proofs -------------------------
(***************************************************************************)
(* Proofs about OutboxSync: type correctness, that no saved edit is lost,  *)
(* that device receipts are the server's, that tabs exclude each other     *)
(* while leases do not run out under their holders, that an applied        *)
(* operation then never returns to the queue, that successors wait, and    *)
(* that every run of a drain gets on.                                      *)
(***************************************************************************)
EXTENDS OutboxSync, FiniteSetTheorems, TLAPS

(* What a run knows at each of its steps: the copy it works from, the      *)
(* answer, which is the server's receipt unless it is a refusal.           *)
Busy == PC \ {"idle", "listing", "next"}
Told == Busy \ {"waiting"}

RunOK(run, stored) ==
  /\ run.pc \in Busy => run.cur \in Op /\ run.working[run.cur] \in Queued
  /\ run.pc \in Told => run.answer \in AnyAnswer
  /\ run.pc = "marked" => run.record \in LocalRecord
  /\ run.pc = "acking" => run.answer.kind = "APPLIED"
  /\ /\ run.pc \in {"answered", "reconciling", "acking"}
     /\ run.answer.kind \in {"APPLIED", "CONFLICT"}
     => stored[run.cur] # None /\ stored[run.cur].result = run.answer

RunsOK == \A t \in Tab : RunOK(drain[t], receipts)

LeaseHeld ==
  expiries = 0 =>
    \A t \in Tab : drain[t].pc # "idle" => lease.holder = t /\ lease.active

Inv ==
  TypeOK /\ RunsOK /\ LeaseHeld /\ EditsKept /\ AcknowledgedOnServer

----
(* Queued operations and runs keep their types.                            *)

LEMMA AttemptTypes ==
  ASSUME NEW r \in Queued
  PROVE  /\ Retained(r) \in Queued /\ Conflicted(r) \in Queued
         /\ Restored(r) \in Queued /\ Rescheduled(r) \in Queued
<1>1. Attempt(r) \in 0 .. MaxAttempts
  BY SyncConstants DEF Attempt, Queued
<1> QED
  BY <1>1, SyncConstants
     DEF Queued, DispatchState, Retained, Conflicted, Restored, Rescheduled

LEMMA NotNone ==
  /\ \A r \in Queued : r # None
  /\ \A a \in AnyAnswer : a # None
  /\ \A r \in ServerReceipt : r # None
  /\ \A o \in Op : o # None
  /\ \A t \in Tab : t # None
  BY NoneIsNoRecord, SyncConstants DEF Op

LEMMA NoRunType == NoRun \in RunType /\ NoRun.pc = "idle"
  BY DEF NoRun, RunType, PC, OutboxType

LEMMA VisitedType ==
  ASSUME NEW run \in RunType, run.cur \in Op
  PROVE  /\ Acked(run) \in RunType /\ Acked(run).pc = "next"
         /\ Visited(run) \in RunType /\ Visited(run).pc = "next"
<1>1. [run.working EXCEPT ![run.cur] = None] \in OutboxType
  BY DEF RunType, OutboxType
<1>2. run.kept \in SUBSET Op /\ run.paused \in SUBSET Entity
  BY DEF RunType
<1>3. Acked(run) \in RunType /\ Acked(run).pc = "next"
  BY <1>1, <1>2, NoRunType DEF Acked, RunType, PC
<1>4. Visited(run) \in RunType /\ Visited(run).pc = "next"
  BY <1>3 DEF Visited, RunType
<1> QED
  BY <1>3, <1>4

LEMMA RebasedType ==
  ASSUME NEW queue \in OutboxType, NEW o \in Op, NEW n \in Nat
  PROVE  Rebased(queue, o, n) \in OutboxType
  BY DEF Rebased, OutboxType, Queued

LEMMA OverType ==
  ASSUME NEW changes \in OutboxType, NEW queue \in OutboxType
  PROVE  /\ Over(changes, queue) \in OutboxType
         /\ \A o \in Op : queue[o] # None => Over(changes, queue)[o] # None
  BY DEF Over, OutboxType

LEMMA RequestType ==
  ASSUME NEW o \in Op, NEW r \in Queued
  PROVE  Request(o, r) \in Envelope /\ Request(o, r).op = o
  BY DEF Request, Envelope, Queued

LEMMA ResultsType == Results \subseteq AnyAnswer
<1>1. Cardinality(Foreign) \in Nat
  BY SyncConstants, FS_CardinalityType
<1> QED
  BY <1>1, SyncConstants DEF Results, AnyAnswer

----
(* Steps of the server, and of one run.                                    *)

ReceiptsStay ==
  \A o \in Op \cup Foreign : receipts[o] # None => receipts'[o] = receipts[o]

LEMMA SettleEffects ==
  ASSUME TypeOK, NEW env \in Envelope, NEW result \in Results, Settles(env, result)
  PROVE  /\ rows' \in [Entity -> [rev : Nat, deleted : BOOLEAN,
                                  content : Edit \cup Foreign \cup {None}]]
         /\ receipts' \in [Op \cup Foreign -> ServerReceipt \cup {None}]
         /\ ReceiptsStay
         /\ result.kind \in {"APPLIED", "CONFLICT"} =>
              receipts'[env.op] # None /\ receipts'[env.op].result = result
<1>1. env.op \in Op \cup Foreign /\ env.target \in Entity /\ env.base \in Nat
      /\ env.content \in Edit \cup Foreign
  BY DEF Envelope
<1>2. [input |-> env, result |-> result] \in ServerReceipt
  BY ResultsType DEF ServerReceipt
<1>3. [input |-> env, result |-> result] # None
  BY <1>2, NotNone
<1>4. CASE receipts[env.op] # None
  <2>1. Replays(env, result)
    BY <1>4 DEF Settles
  <2> QED
    BY <1>4, <2>1 DEF Replays, server, TypeOK, ReceiptsStay
<1>5. CASE receipts[env.op] = None /\ Store(env, result)
  <2>1. /\ receipts' \in [Op \cup Foreign -> ServerReceipt \cup {None}]
        /\ ReceiptsStay /\ receipts'[env.op] = [input |-> env, result |-> result]
    BY <1>1, <1>2, <1>5 DEF Store, TypeOK, ReceiptsStay
  <2>2. CASE Applies(env, result)
    BY <1>1, <1>3, <2>1, <2>2 DEF Applies, TypeOK
  <2>3. CASE Conflicts(env, result)
    BY <1>3, <2>1, <2>3 DEF Conflicts, TypeOK
  <2>4. CASE Refuses(env, result)
    BY <1>3, <2>1, <2>4 DEF Refuses, server, TypeOK
  <2> QED
    BY <1>5, <2>2, <2>3, <2>4 DEF Settles
<1>6. CASE receipts[env.op] = None /\ Refuses(env, result)
  BY <1>6 DEF Refuses, server, TypeOK, ReceiptsStay
<1> QED
  BY <1>4, <1>5, <1>6 DEF Settles, Applies, Conflicts

LEMMA Advances ==
  ASSUME TypeOK, RunsOK, NEW t \in Tab, NEW run \in RunType, Advance(t, run),
         ReceiptsStay, RunOK(run, receipts')
  PROVE  drain' \in [Tab -> RunType] /\ RunsOK'
<1>1. drain' \in [Tab -> RunType] /\ drain'[t] = run
      /\ \A u \in Tab \ {t} : drain'[u] = drain[u]
  BY DEF Advance, TypeOK
<1>2. \A u \in Tab \ {t} : RunOK(drain[u], receipts')
  BY DEF RunsOK, RunOK, ReceiptsStay, Busy, PC
<1> QED
  BY <1>1, <1>2 DEF RunsOK

LEMMA RunsRest ==
  ASSUME RunsOK, ReceiptsStay, UNCHANGED drain
  PROVE  RunsOK'
  BY DEF RunsOK, RunOK, ReceiptsStay, Busy, PC

LEMMA BusyRun ==
  ASSUME TypeOK, RunsOK, NEW t \in Tab, drain[t].pc \in Busy
  PROVE  /\ drain[t] \in RunType /\ drain[t].cur \in Op /\ Copy(t) \in Queued
         /\ Copy(t).entity \in Entity
         /\ Sent(t) \in Envelope /\ Sent(t).op = drain[t].cur
         /\ Acked(drain[t]) \in RunType /\ Acked(drain[t]).pc = "next"
         /\ Visited(drain[t]) \in RunType /\ Visited(drain[t]).pc = "next"
         /\ RunOK(Acked(drain[t]), receipts) /\ RunOK(Visited(drain[t]), receipts)
<1>1. drain[t] \in RunType /\ drain[t].cur \in Op /\ Copy(t) \in Queued
  BY DEF TypeOK, RunsOK, RunOK, Copy
<1>2. Copy(t).entity \in Entity
  BY <1>1 DEF Queued
<1>3. Sent(t) \in Envelope /\ Sent(t).op = drain[t].cur
  BY <1>1, RequestType DEF Sent
<1> QED
  BY <1>1, <1>2, <1>3, VisitedType DEF RunOK, Busy, Told

LEMMA PutType ==
  ASSUME TypeOK, NEW t \in Tab, drain[t].cur \in Op, NEW r \in Queued, PutCopy(t, r)
  PROVE  /\ outbox' \in OutboxType
         /\ \A o \in Op : outbox[o] # None => outbox'[o] # None
  BY NotNone DEF PutCopy, TypeOK, OutboxType

LEMMA QueueType ==
  ASSUME TypeOK, NEW t \in Tab, NEW o \in Op, NEW r \in Queued, NEW n \in Nat,
         MayEdit(t), Queue(t, o, r, n)
  PROVE  TypeOK' /\ UNCHANGED <<outbox, acks, drain, receipts, lease, expiries, owed>>
<1>1. edits' \in 0 .. MaxEdits /\ made' \in 0 .. MaxOps
  BY SyncConstants DEF Queue, MayEdit, TypeOK, Op
<1>2. [op |-> o, record |-> r, revision |-> n] \in [op : Op, record : Queued, revision : Nat]
  OBVIOUS
<1> QED
  BY <1>1, <1>2 DEF Queue, TypeOK, device, server

LEMMA NewOperationType ==
  ASSUME TypeOK, edits < MaxEdits, NEW kind \in Kind, NEW e \in Entity,
         NEW d \in Op \cup {None}, NEW base \in Nat
  PROVE  NewOperations(kind, e, d, base) \subseteq Queued
<1>1. NextLocalSequence \subseteq Nat
  BY DEF NextLocalSequence, Present, TypeOK, OutboxType, Queued
<1>2. edits + 1 \in Edit /\ 0 \in 0 .. MaxAttempts
  BY SyncConstants DEF TypeOK, Edit
<1>3. ASSUME NEW n \in NextLocalSequence
      PROVE  [kind |-> kind, entity |-> e, seq |-> n, dependsOn |-> d, base |-> base,
              state |-> "PENDING", attempts |-> 0, waiting |-> FALSE,
              edit |-> edits + 1] \in Queued
  BY <1>1, <1>2 DEF Queued, DispatchState
<1> QED
  BY <1>3 DEF NewOperations

----
(* Every step keeps the types and what the runs know.                      *)

LEMMA ReaderStep ==
  ASSUME TypeOK, RunsOK, NEW t \in Tab, Reader(t)
  PROVE  TypeOK' /\ RunsOK'
<1>1. ASSUME MayEdit(t), made < MaxOps, NEW kind \in Kind, NEW e \in Entity,
             NEW d \in Op \cup {None}, NEW base \in Nat, NEW n \in Nat,
             NEW new \in NewOperations(kind, e, d, base), Queue(t, made + 1, new, n)
      PROVE  TypeOK' /\ RunsOK'
  <2>1. made + 1 \in Op
    BY <1>1, SyncConstants DEF TypeOK, Op
  <2>2. new \in Queued
    BY <1>1, NewOperationType DEF MayEdit
  <2>3. TypeOK' /\ UNCHANGED <<drain, receipts>>
    BY <1>1, <2>1, <2>2, QueueType
  <2> QED
    BY <2>3, RunsRest DEF ReceiptsStay
<1>2. CASE SaveProgress(t)
  <2>1. CASE \E o \in Op : outbox[o] # None /\ Queue(t, o, [outbox[o] EXCEPT !.edit = edits + 1], 0)
    <3>1. PICK o \in Op : outbox[o] # None
                         /\ Queue(t, o, [outbox[o] EXCEPT !.edit = edits + 1], 0)
      BY <2>1
    <3>2. edits + 1 \in Edit
      BY <1>2, SyncConstants DEF SaveProgress, MayEdit, TypeOK, Edit
    <3>3. [outbox[o] EXCEPT !.edit = edits + 1] \in Queued
      BY <3>1, <3>2 DEF TypeOK, OutboxType, Queued
    <3>4. TypeOK' /\ UNCHANGED <<drain, receipts>>
      BY <1>2, <3>1, <3>3, QueueType DEF SaveProgress
    <3> QED
      BY <3>4, RunsRest DEF ReceiptsStay
  <2>2. CASE made < MaxOps /\ \E new \in NewOperations("PROGRESS_SET", Progress, None, 0) :
                                Queue(t, made + 1, new, 0)
    BY <1>1, <1>2, <2>2 DEF SaveProgress, Kind, Entity
  <2> QED
    BY <1>2, <2>1, <2>2 DEF SaveProgress, Latest, QueuedFor, Present
<1>3. CASE \E a \in Annotation : CreateAnnotation(t, a)
  BY <1>1, <1>3 DEF CreateAnnotation, Kind, Entity
<1>4. ASSUME NEW a \in Annotation, UpdateAnnotation(t, a)
      PROVE  TypeOK' /\ RunsOK'
  <2>1. records[a].revision \in Nat /\ records[a].revision + 1 \in Nat
    BY <1>4 DEF TypeOK, LocalRecord, Entity
  <2>2. \A d \in Latest(QueuedFor(a)) : d \in Op
    BY DEF Latest, QueuedFor, Present
  <2>3. PICK d \in Op \cup {None} :
          \E new \in NewOperations("ANNOTATION_UPDATE", a, d, records[a].revision) :
            Queue(t, made + 1, new, records[a].revision + 1)
    BY <1>4, <2>2 DEF UpdateAnnotation
  <2> QED
    BY <1>1, <1>4, <2>1, <2>3 DEF UpdateAnnotation, Kind, Entity
<1>5. CASE CommitEdit(t)
  <2>1. /\ edit[t].op \in Op /\ edit[t].record \in Queued
        /\ edit[t].record.entity \in Entity
        /\ [revision |-> edit[t].revision, edit |-> edit[t].record.edit] \in LocalRecord
    BY <1>5 DEF CommitEdit, TypeOK, Queued, LocalRecord
  <2>2. TypeOK'
    BY <1>5, <2>1 DEF CommitEdit, TypeOK, OutboxType, counts, server
  <2> QED
    BY <1>5, <2>2, RunsRest DEF CommitEdit, server, ReceiptsStay
<1>6. CASE DiscardConflicts(t)
  <2>1. TypeOK'
    BY <1>6 DEF DiscardConflicts, TypeOK, counts, server, device, Present
  <2> QED
    BY <1>6, <2>1, RunsRest DEF DiscardConflicts, server, ReceiptsStay
<1>7. CASE CommitDiscard(t)
  <2>1. TypeOK'
    BY <1>7 DEF CommitDiscard, TypeOK, OutboxType, counts, server
  <2> QED
    BY <1>7, <2>1, RunsRest DEF CommitDiscard, server, ReceiptsStay
<1> QED
  BY <1>2, <1>3, <1>4, <1>5, <1>6, <1>7 DEF Reader

(* What a step of a run leaves alone, apart from drain.                    *)
LEMMA RunStep ==
  ASSUME TypeOK, RunsOK, NEW t \in Tab, Run(t)
  PROVE  TypeOK' /\ RunsOK' /\ ReceiptsStay
<1>0. drain[t] \in RunType /\ outbox \in OutboxType
  BY DEF TypeOK
<1>1. CASE ListQueue(t)
  <2>1. [drain[t] EXCEPT !.pc = "next", !.working = outbox] \in RunType
    BY <1>0 DEF RunType, PC
  <2>2. RunOK([drain[t] EXCEPT !.pc = "next", !.working = outbox], receipts)
    BY <1>0 DEF RunOK, Busy, Told, RunType
  <2>3. ReceiptsStay /\ receipts' = receipts
    BY <1>1 DEF ListQueue, server, ReceiptsStay
  <2>4. drain' \in [Tab -> RunType] /\ RunsOK'
    BY <1>1, <2>1, <2>2, <2>3, Advances DEF ListQueue
  <2> QED
    BY <1>1, <2>3, <2>4 DEF ListQueue, TypeOK, device, server, counts
<1>2. CASE \E o \in Op : Skip(t, o)
  <2>1. PICK o \in Op : Skip(t, o)
    BY <1>2
  <2> DEFINE run == [drain[t] EXCEPT !.cur = o]
  <2>2. run \in RunType /\ run.cur = o
    BY <1>0 DEF RunType
  <2>3. Visited(run) \in RunType /\ Visited(run).pc = "next"
    BY <2>2, VisitedType
  <2>4. ReceiptsStay /\ receipts' = receipts
    BY <2>1 DEF Skip, server, ReceiptsStay
  <2>5. RunOK(Visited(run), receipts)
    BY <2>3 DEF RunOK, Busy, Told
  <2>6. drain' \in [Tab -> RunType] /\ RunsOK'
    BY <2>1, <2>3, <2>4, <2>5, Advances DEF Skip
  <2> QED
    BY <2>1, <2>4, <2>6 DEF Skip, TypeOK, device, server, counts
<1>3. CASE \E o \in Op : Dispatch(t, o)
  <2>1. PICK o \in Op : Dispatch(t, o)
    BY <1>3
  <2> DEFINE run == [drain[t] EXCEPT !.pc = "waiting", !.cur = o]
  <2>2. drain[t] \in RunType /\ drain[t].working[o] \in Queued
    BY <2>1 DEF Dispatch, IsHead, Left, TypeOK, RunType, OutboxType
  <2>3. run \in RunType /\ run.pc = "waiting" /\ run.cur = o
        /\ run.working = drain[t].working
    BY <2>2 DEF RunType, PC
  <2>4. ReceiptsStay /\ receipts' = receipts
    BY <2>1 DEF Dispatch, server, ReceiptsStay
  <2>5. RunOK(run, receipts)
    BY <2>2, <2>3 DEF RunOK, Busy, Told
  <2>6. drain' \in [Tab -> RunType] /\ RunsOK'
    BY <2>1, <2>3, <2>4, <2>5, Advances DEF Dispatch
  <2>7. [drain[t].working[o] EXCEPT !.state = "DISPATCHING"] \in Queued
    BY <2>2 DEF Queued, DispatchState
  <2> QED
    BY <2>1, <2>4, <2>6, <2>7 DEF Dispatch, TypeOK, OutboxType, server, counts
<1>4. ASSUME drain[t].pc = "waiting", NEW answer \in AnyAnswer, NEW told \in {"answered", "failed"},
             ReceiptsStay, receipts' \in [Op \cup Foreign -> ServerReceipt \cup {None}],
             told = "answered" /\ answer.kind \in {"APPLIED", "CONFLICT"} =>
               receipts'[drain[t].cur] # None /\ receipts'[drain[t].cur].result = answer,
             Advance(t, [drain[t] EXCEPT !.pc = told, !.answer = answer])
      PROVE  drain' \in [Tab -> RunType] /\ RunsOK'
  <2> DEFINE run == [drain[t] EXCEPT !.pc = told, !.answer = answer]
  <2>1. run \in RunType /\ run.pc = told /\ run.answer = answer /\ run.cur = drain[t].cur
        /\ run.working = drain[t].working
    BY <1>0, <1>4 DEF RunType, PC
  <2>2. drain[t].cur \in Op /\ drain[t].working[drain[t].cur] \in Queued
    BY <1>4 DEF RunsOK, RunOK, Busy, PC
  <2>3. RunOK(run, receipts')
    BY <1>4, <2>1, <2>2 DEF RunOK, Busy, Told
  <2> QED
    BY <1>4, <2>1, <2>3, Advances
<1>5. CASE Reply(t)
  <2>1. PICK result \in Results :
          /\ Settles(Sent(t), result)
          /\ Advance(t, [drain[t] EXCEPT !.pc = "answered", !.answer = result])
    BY <1>5 DEF Reply
  <2>2. drain[t].pc = "waiting" /\ Sent(t) \in Envelope /\ Sent(t).op = drain[t].cur
    BY <1>5, BusyRun DEF Reply, Busy, PC
  <2>3. /\ rows' \in [Entity -> [rev : Nat, deleted : BOOLEAN,
                                 content : Edit \cup Foreign \cup {None}]]
        /\ receipts' \in [Op \cup Foreign -> ServerReceipt \cup {None}]
        /\ ReceiptsStay
        /\ result.kind \in {"APPLIED", "CONFLICT"} =>
             receipts'[drain[t].cur] # None /\ receipts'[drain[t].cur].result = result
    BY <2>1, <2>2, SettleEffects
  <2>4. drain' \in [Tab -> RunType] /\ RunsOK'
    BY <1>4, <2>1, <2>2, <2>3, ResultsType
  <2> QED
    BY <1>5, <2>3, <2>4 DEF Reply, Unsettled, TypeOK, device, counts
<1>6. CASE \E failure \in Failure : Fail(t, failure)
  <2>1. PICK failure \in Failure : Fail(t, failure)
    BY <1>6
  <2>2. drain[t].pc = "waiting" /\ Sent(t) \in Envelope
    BY <2>1, BusyRun DEF Fail, Busy, PC
  <2>3. ReceiptsStay /\ UNCHANGED <<rows, receipts>>
    BY <2>1 DEF Fail, server, ReceiptsStay
  <2>4. [kind |-> failure, revision |-> 0] \in AnyAnswer
    BY DEF AnyAnswer
  <2>5. drain' \in [Tab -> RunType] /\ RunsOK'
    BY <1>4, <2>1, <2>2, <2>3, <2>4 DEF Fail, TypeOK
  <2>6. stops' \in 0 .. MaxStops
    BY <2>1, SyncConstants DEF Fail, TypeOK
  <2>7. late' \subseteq Envelope
    BY <2>1, <2>2 DEF Fail, Abandon, TypeOK
  <2> QED
    BY <2>1, <2>3, <2>5, <2>6, <2>7 DEF Fail, TypeOK, device
<1>7. ASSUME NEW run \in RunType, run.pc = "next", Advance(t, run), UNCHANGED receipts
      PROVE  drain' \in [Tab -> RunType] /\ RunsOK' /\ ReceiptsStay
  BY <1>7, Advances DEF RunOK, Busy, Told, ReceiptsStay
<1>8. ASSUME drain[t].pc \in Busy, NEW r \in Queued, PutCopy(t, r),
             NEW run \in RunType, run.pc = "next", Advance(t, run),
             UNCHANGED <<records, acks, lease, edit, discarding, server, late, owed, counts>>
      PROVE  TypeOK' /\ RunsOK' /\ ReceiptsStay
  <2>1. drain' \in [Tab -> RunType] /\ RunsOK' /\ ReceiptsStay
    BY <1>7, <1>8 DEF server
  <2>2. outbox' \in OutboxType
    BY <1>8, BusyRun, PutType
  <2> QED
    BY <1>8, <2>1, <2>2 DEF TypeOK, server, counts
<1>9. CASE HandleFailure(t)
  <2>1. drain[t].pc \in Busy
    BY <1>9 DEF HandleFailure, Busy, PC
  <2> DEFINE run == Visited(drain[t])
  <2>2. run \in RunType /\ run.pc = "next" /\ Copy(t) \in Queued /\ Copy(t).entity \in Entity
    BY <2>1, BusyRun
  <2>3. /\ Retained(Copy(t)) \in Queued /\ Conflicted(Copy(t)) \in Queued
        /\ Rescheduled(Copy(t)) \in Queued
    BY <2>2, AttemptTypes
  <2>4. [Copy(t) EXCEPT !.state = "PENDING"] \in Queued
    BY <2>2 DEF Queued, DispatchState
  <2>5. /\ [run EXCEPT !.working = NoRun.working] \in RunType
        /\ [run EXCEPT !.working = NoRun.working].pc = "next"
    BY <2>2, NoRunType DEF RunType
  <2>6. /\ [run EXCEPT !.paused = @ \cup {Copy(t).entity}] \in RunType
        /\ [run EXCEPT !.paused = @ \cup {Copy(t).entity}].pc = "next"
    BY <2>2 DEF RunType
  <2>7. PICK r \in Queued, next \in RunType :
          PutCopy(t, r) /\ next.pc = "next" /\ Advance(t, next)
    <3>1. CASE drain[t].answer.kind = "AUTH_REQUIRED"
      BY <1>9, <2>4, <2>5, <3>1 DEF HandleFailure
    <3>2. CASE drain[t].answer.kind = "CONFLICT"
      BY <1>9, <2>3, <2>6, <3>2 DEF HandleFailure
    <3>3. CASE drain[t].answer.kind \in {"REJECTED", "TRANSIENT"}
      BY <1>9, <2>2, <2>3, <3>3 DEF HandleFailure
    <3> QED
      BY <1>9, <3>1, <3>2, <3>3 DEF HandleFailure
  <2> QED
    BY <1>8, <1>9, <2>1, <2>7 DEF HandleFailure
<1>10. CASE RestorePending(t) \/ RetainRefused(t)
  <2>1. drain[t].pc \in Busy
    BY <1>10 DEF RestorePending, RetainRefused, Busy, PC
  <2>2. /\ Restored(Copy(t)) \in Queued /\ Retained(Copy(t)) \in Queued
        /\ Visited(drain[t]) \in RunType /\ Visited(drain[t]).pc = "next"
    BY <2>1, BusyRun, AttemptTypes
  <2> QED
    BY <1>8, <1>10, <2>1, <2>2 DEF RestorePending, RetainRefused
<1>11. CASE RetainConflict(t)
  <2>1. drain[t].pc \in Busy
    BY <1>11 DEF RetainConflict, Busy, PC
  <2> DEFINE run == [Visited(drain[t]) EXCEPT !.paused = @ \cup {Copy(t).entity}]
  <2>2. Conflicted(Copy(t)) \in Queued
    BY <2>1, BusyRun, AttemptTypes
  <2>3. run \in RunType /\ run.pc = "next"
    BY <2>1, BusyRun DEF RunType
  <2> QED
    BY <1>8, <1>11, <2>1, <2>2, <2>3 DEF RetainConflict, ConflictQueue
<1>12. CASE Finish(t)
  <2>1. lease' \in [holder : Tab \cup {None}, active : BOOLEAN]
    BY <1>12 DEF Finish, Released, TypeOK
  <2>2. drain' \in [Tab -> RunType] /\ RunsOK' /\ ReceiptsStay
    <3>1. RunOK(NoRun, receipts)
      BY NoRunType DEF RunOK, Busy, Told
    <3> QED
      BY <1>12, <3>1, NoRunType, Advances DEF Finish, server, ReceiptsStay
  <2> QED
    BY <1>12, <2>1, <2>2 DEF Finish, TypeOK, server, counts
<1>13. ASSUME drain[t].pc \in Busy, NEW run \in RunType, RunOK(run, receipts),
              Advance(t, run), UNCHANGED receipts
       PROVE  drain' \in [Tab -> RunType] /\ RunsOK' /\ ReceiptsStay
  BY <1>13, Advances DEF ReceiptsStay
<1>14. CASE CheckLease(t)
  <2> DEFINE held == lease = [holder |-> t, active |-> TRUE]
             run == [drain[t] EXCEPT !.pc = IF held THEN "reconciling" ELSE "restoring"]
  <2>1. drain[t].pc = "answered" /\ drain[t].pc \in Busy
    BY <1>14 DEF CheckLease, Busy, PC
  <2>2. run \in RunType /\ run.pc \in {"reconciling", "restoring"}
        /\ run.cur = drain[t].cur /\ run.answer = drain[t].answer
        /\ run.working = drain[t].working
    BY <1>0 DEF RunType, PC
  <2>3. RunOK(run, receipts)
    BY <2>1, <2>2 DEF RunsOK, RunOK, Busy, Told, PC
  <2>4. drain' \in [Tab -> RunType] /\ RunsOK' /\ ReceiptsStay
    BY <1>13, <1>14, <2>1, <2>2, <2>3 DEF CheckLease, server
  <2> QED
    BY <1>14, <2>4 DEF CheckLease, TypeOK, device, server, counts
<1>15. CASE FindSuccessors(t)
  <2> DEFINE changes == Rebased(outbox, drain[t].cur, drain[t].answer.revision)
             run == [drain[t] EXCEPT !.pc = "acking", !.successors = changes]
  <2>1. drain[t].pc = "reconciling" /\ drain[t].pc \in Busy /\ drain[t].pc \in Told
        /\ drain[t].answer.kind = "APPLIED"
    BY <1>15 DEF FindSuccessors, Busy, Told, PC
  <2>2. drain[t].cur \in Op /\ drain[t].answer \in AnyAnswer
    BY <2>1 DEF RunsOK, RunOK
  <2>3. changes \in OutboxType
    BY <1>0, <2>2, RebasedType DEF AnyAnswer
  <2>4. run \in RunType /\ run.pc = "acking" /\ run.cur = drain[t].cur
        /\ run.answer = drain[t].answer /\ run.working = drain[t].working
    BY <1>0, <2>3 DEF RunType, PC
  <2>5. RunOK(run, receipts)
    BY <2>1, <2>4 DEF RunsOK, RunOK
  <2>6. drain' \in [Tab -> RunType] /\ RunsOK' /\ ReceiptsStay
    BY <1>13, <1>15, <2>1, <2>4, <2>5 DEF FindSuccessors, server
  <2> QED
    BY <1>15, <2>6 DEF FindSuccessors, TypeOK, device, server, counts
<1>16. CASE Acknowledge(t)
  <2> DEFINE run == [drain[t] EXCEPT !.pc = "marking", !.successors = NoRun.successors]
  <2>1. drain[t].pc = "acking" /\ drain[t].pc \in Busy /\ drain[t].pc \in Told
    BY <1>16 DEF Acknowledge, Busy, Told, PC
  <2>2. drain[t].cur \in Op /\ drain[t].answer \in AnyAnswer
    BY <2>1 DEF RunsOK, RunOK
  <2>3. run \in RunType /\ run.pc = "marking" /\ run.cur = drain[t].cur
        /\ run.answer = drain[t].answer /\ run.working = drain[t].working
    BY <1>0, NoRunType DEF RunType, PC
  <2>4. RunOK(run, receipts)
    BY <2>1, <2>3 DEF RunsOK, RunOK
  <2>5. drain' \in [Tab -> RunType] /\ RunsOK' /\ ReceiptsStay
    BY <1>13, <1>16, <2>1, <2>3, <2>4 DEF Acknowledge, server
  <2>6. Over(drain[t].successors, outbox) \in OutboxType
    BY <1>0, OverType DEF RunType
  <2>7. outbox' \in OutboxType
    BY <1>16, <2>6 DEF Acknowledge, OutboxType
  <2>8. acks' \in [Op -> AnyAnswer \cup {None}]
    BY <1>16, <2>2 DEF Acknowledge, TypeOK
  <2> QED
    BY <1>16, <2>5, <2>7, <2>8 DEF Acknowledge, TypeOK, server, counts
<1>17. CASE ReadRecord(t)
  <2> DEFINE run == [drain[t] EXCEPT !.pc = "marked", !.record = records[Copy(t).entity]]
  <2>1. drain[t].pc = "marking" /\ drain[t].pc \in Busy /\ drain[t].pc \in Told
    BY <1>17 DEF ReadRecord, Busy, Told, PC
  <2>2. records[Copy(t).entity] \in LocalRecord
    BY <2>1, BusyRun DEF TypeOK
  <2>3. run \in RunType /\ run.pc = "marked" /\ run.record = records[Copy(t).entity]
        /\ run.cur = drain[t].cur /\ run.answer = drain[t].answer
        /\ run.working = drain[t].working
    BY <1>0, <2>2 DEF RunType, PC
  <2>4. RunOK(run, receipts)
    BY <2>1, <2>2, <2>3 DEF RunsOK, RunOK
  <2>5. drain' \in [Tab -> RunType] /\ RunsOK' /\ ReceiptsStay
    BY <1>13, <1>17, <2>1, <2>3, <2>4 DEF ReadRecord, server
  <2> QED
    BY <1>17, <2>5 DEF ReadRecord, TypeOK, device, server, counts
<1>18. CASE MarkSynced(t)
  <2> DEFINE rebased == Rebased(drain[t].working, drain[t].cur, drain[t].answer.revision)
             run == [drain[t] EXCEPT !.working = Over(rebased, @)]
  <2>1. drain[t].pc = "marked" /\ drain[t].pc \in Busy /\ drain[t].pc \in Told
    BY <1>18 DEF MarkSynced, Busy, Told, PC
  <2>2. /\ drain[t].cur \in Op /\ drain[t].answer.revision \in Nat
        /\ drain[t].working \in OutboxType /\ drain[t].record \in LocalRecord
    BY <1>0, <2>1 DEF RunsOK, RunOK, AnyAnswer, RunType
  <2>3. Over(rebased, drain[t].working) \in OutboxType
    BY <2>2, RebasedType, OverType
  <2>4. run \in RunType /\ run.cur = drain[t].cur
    BY <1>0, <2>3 DEF RunType
  <2>5. Acked(run) \in RunType /\ Acked(run).pc = "next"
    BY <2>2, <2>4, VisitedType
  <2>6. drain' \in [Tab -> RunType] /\ RunsOK' /\ ReceiptsStay
    BY <1>7, <1>18, <2>5 DEF MarkSynced, server
  <2>7. records' \in [Entity -> LocalRecord]
    BY <1>18, <2>2 DEF MarkSynced, TypeOK
  <2> QED
    BY <1>18, <2>6, <2>7 DEF MarkSynced, TypeOK, server, counts
<1>19. CASE RecordConflict(t)
  <2> DEFINE run == [drain[t] EXCEPT !.pc = "conflicted"]
  <2>1. drain[t].pc = "reconciling" /\ drain[t].pc \in Busy /\ drain[t].pc \in Told
    BY <1>19 DEF RecordConflict, Busy, Told, PC
  <2>2. drain[t].cur \in Op /\ drain[t].answer \in AnyAnswer
    BY <2>1 DEF RunsOK, RunOK
  <2>3. run \in RunType /\ run.pc = "conflicted" /\ run.cur = drain[t].cur
        /\ run.answer = drain[t].answer /\ run.working = drain[t].working
    BY <1>0 DEF RunType, PC
  <2>4. RunOK(run, receipts)
    BY <2>1, <2>3 DEF RunsOK, RunOK
  <2>5. drain' \in [Tab -> RunType] /\ RunsOK' /\ ReceiptsStay
    BY <1>13, <1>19, <2>1, <2>3, <2>4 DEF RecordConflict, server
  <2>6. acks' \in [Op -> AnyAnswer \cup {None}]
    BY <1>19, <2>2 DEF RecordConflict, TypeOK
  <2> QED
    BY <1>19, <2>5, <2>6 DEF RecordConflict, TypeOK, server, counts
<1> QED
  BY <1>1, <1>2, <1>3, <1>5, <1>6, <1>9, <1>10, <1>11, <1>12, <1>14, <1>15, <1>16,
     <1>17, <1>18, <1>19 DEF Run, Answer

(* Every action of Next, whoever takes it.                                 *)
LEMMA TypesAndRuns ==
  ASSUME TypeOK, RunsOK, [Next]_vars
  PROVE  TypeOK' /\ RunsOK' /\ ReceiptsStay
<1>1. ASSUME NEW t \in Tab, Reader(t)
      PROVE  TypeOK' /\ RunsOK' /\ ReceiptsStay
  <2>1. UNCHANGED receipts
    BY <1>1 DEF Reader, SaveProgress, CommitEdit, CreateAnnotation, UpdateAnnotation,
                Queue, DiscardConflicts, CommitDiscard, server
  <2> QED
    BY <1>1, <2>1, ReaderStep DEF ReceiptsStay
<1>2. ASSUME NEW t \in Tab, NEW run \in RunType, run.pc \in {"idle", "listing"},
             Advance(t, run), UNCHANGED receipts
      PROVE  drain' \in [Tab -> RunType] /\ RunsOK' /\ ReceiptsStay
  <2>1. ReceiptsStay /\ RunOK(run, receipts')
    BY <1>2 DEF ReceiptsStay, RunOK, Busy, Told
  <2> QED
    BY <1>2, <2>1, Advances
<1>3. ASSUME NEW t \in Tab, StartDrain(t)
      PROVE  TypeOK' /\ RunsOK' /\ ReceiptsStay
  <2>1. [NoRun EXCEPT !.pc = "listing"] \in RunType
        /\ [NoRun EXCEPT !.pc = "listing"].pc = "listing"
    BY NoRunType DEF RunType, PC
  <2>2. drain' \in [Tab -> RunType] /\ RunsOK' /\ ReceiptsStay
    BY <1>2, <1>3, <2>1 DEF StartDrain, server
  <2> QED
    BY <1>3, <2>2 DEF StartDrain, TypeOK, server, counts
<1>4. ASSUME NEW t \in Tab, DrainThrows(t)
      PROVE  TypeOK' /\ RunsOK' /\ ReceiptsStay
  <2>1. drain' \in [Tab -> RunType] /\ RunsOK' /\ ReceiptsStay
    BY <1>2, <1>4, NoRunType DEF DrainThrows, server
  <2>2. stops' \in 0 .. MaxStops
    BY <1>4, SyncConstants DEF DrainThrows, TypeOK
  <2>3. lease' \in [holder : Tab \cup {None}, active : BOOLEAN]
    BY <1>4 DEF DrainThrows, Released, TypeOK
  <2> QED
    BY <1>4, <2>1, <2>2, <2>3 DEF DrainThrows, TypeOK, server
<1>5. ASSUME NEW t \in Tab, CloseTab(t)
      PROVE  TypeOK' /\ RunsOK' /\ ReceiptsStay
  <2>1. drain' \in [Tab -> RunType] /\ RunsOK' /\ ReceiptsStay
    BY <1>2, <1>5, NoRunType DEF CloseTab, server
  <2>2. stops' \in 0 .. MaxStops
    BY <1>5, SyncConstants DEF CloseTab, TypeOK
  <2>3. lease' \in [holder : Tab \cup {None}, active : BOOLEAN]
    BY <1>5 DEF CloseTab, TypeOK
  <2>4. late' \subseteq Envelope
    BY <1>5, BusyRun DEF CloseTab, Abandon, TypeOK, Busy, PC
  <2>5. edit' \in [Tab -> [op : Op, record : Queued, revision : Nat] \cup {None}]
        /\ discarding' \in [Tab -> SUBSET Op]
    BY <1>5 DEF CloseTab, TypeOK
  <2> QED
    BY <1>5, <2>1, <2>2, <2>3, <2>4, <2>5 DEF CloseTab, TypeOK, server
<1>6. ASSUME NEW env \in Envelope, receipts[env.op] = None, NEW result \in Results,
             Applies(env, result) \/ Conflicts(env, result)
      PROVE  /\ rows' \in [Entity -> [rev : Nat, deleted : BOOLEAN,
                                      content : Edit \cup Foreign \cup {None}]]
             /\ receipts' \in [Op \cup Foreign -> ServerReceipt \cup {None}]
             /\ ReceiptsStay
  BY <1>6, SettleEffects DEF Settles
<1>7. ASSUME NEW env \in late, HandleLate(env)
      PROVE  TypeOK' /\ RunsOK' /\ ReceiptsStay
  <2>1. env \in Envelope
    BY DEF TypeOK
  <2>2. /\ rows' \in [Entity -> [rev : Nat, deleted : BOOLEAN,
                                 content : Edit \cup Foreign \cup {None}]]
        /\ receipts' \in [Op \cup Foreign -> ServerReceipt \cup {None}]
        /\ ReceiptsStay
    BY <1>6, <1>7, <2>1 DEF HandleLate
  <2>3. RunsOK'
    BY <1>7, <2>2, RunsRest DEF HandleLate, tabs
  <2> QED
    BY <1>7, <2>2, <2>3 DEF HandleLate, Unsettled, TypeOK, device, tabs, counts
<1>8. ASSUME NEW f \in Foreign, MoveElsewhere(f)
      PROVE  TypeOK' /\ RunsOK' /\ ReceiptsStay
  <2> DEFINE env == [op |-> f, kind |-> "PROGRESS_SET", target |-> Progress,
                     base |-> rows[Progress].rev, content |-> f]
  <2>1. env \in Envelope /\ env.op = f
    BY DEF TypeOK, Envelope, Kind, Entity
  <2>2. /\ rows' \in [Entity -> [rev : Nat, deleted : BOOLEAN,
                                 content : Edit \cup Foreign \cup {None}]]
        /\ receipts' \in [Op \cup Foreign -> ServerReceipt \cup {None}]
        /\ ReceiptsStay
    BY <1>6, <1>8, <2>1 DEF MoveElsewhere
  <2>3. RunsOK'
    BY <1>8, <2>2, RunsRest DEF MoveElsewhere, tabs
  <2> QED
    BY <1>8, <2>2, <2>3 DEF MoveElsewhere, TypeOK, device, tabs, counts
<1>9. CASE LeaseExpires
  <2>1. ReceiptsStay /\ RunsOK'
    BY <1>9, RunsRest DEF LeaseExpires, server, tabs, ReceiptsStay
  <2>2. lease' \in [holder : Tab \cup {None}, active : BOOLEAN]
    BY <1>9 DEF LeaseExpires, TypeOK
  <2>3. expiries' \in 0 .. MaxExpiries
    BY <1>9, SyncConstants DEF LeaseExpires, TypeOK
  <2> QED
    BY <1>9, <2>1, <2>2, <2>3 DEF LeaseExpires, TypeOK, server, tabs
<1>10. CASE UNCHANGED vars
  <2>1. ReceiptsStay /\ RunsOK'
    BY <1>10, RunsRest DEF vars, server, tabs, ReceiptsStay
  <2> QED
    BY <1>10, <2>1 DEF TypeOK, vars, device, tabs, server, counts
<1> QED
  BY <1>1, <1>3, <1>4, <1>5, <1>7, <1>8, <1>9, <1>10, RunStep, SyncConstants DEF Next

----
(* A tab drains only while the lease is its own.                           *)

Still(t) == \A u \in Tab \ {t} : drain'[u] = drain[u]

LEMMA RunUnderLease ==
  ASSUME TypeOK, NEW t \in Tab, Run(t)
  PROVE  /\ drain[t].pc # "idle" /\ Still(t) /\ UNCHANGED expiries
         /\ UNCHANGED lease \/ Finish(t)
<1>1. CASE ListQueue(t) \/ \E o \in Op : Skip(t, o) \/ Dispatch(t, o)
  BY <1>1 DEF ListQueue, Skip, Dispatch, IsHead, Advance, TypeOK, Still, counts, device
<1>2. CASE Answer(t) \/ HandleFailure(t) \/ CheckLease(t) \/ RestorePending(t)
  BY <1>2 DEF Answer, Reply, Fail, HandleFailure, CheckLease, RestorePending,
              Advance, TypeOK, Still, counts, device
<1>3. CASE FindSuccessors(t) \/ Acknowledge(t) \/ ReadRecord(t) \/ MarkSynced(t)
  BY <1>3 DEF FindSuccessors, Acknowledge, ReadRecord, MarkSynced,
              Advance, TypeOK, Still, counts, device
<1>4. CASE RecordConflict(t) \/ RetainConflict(t) \/ RetainRefused(t) \/ Finish(t)
  BY <1>4 DEF RecordConflict, RetainConflict, RetainRefused, Finish,
              Advance, TypeOK, Still, counts, device
<1> QED
  BY <1>1, <1>2, <1>3, <1>4 DEF Run

LEMMA LeaseStep ==
  ASSUME TypeOK, LeaseHeld, [Next]_vars
  PROVE  LeaseHeld'
<1>1. CASE UNCHANGED <<lease, drain, expiries>>
  BY <1>1 DEF LeaseHeld
<1>2. ASSUME NEW t \in Tab, drain[t].pc # "idle", Still(t), UNCHANGED <<lease, expiries>>
      PROVE  LeaseHeld'
  BY <1>2 DEF LeaseHeld, Still
<1>3. ASSUME NEW t \in Tab, Still(t), drain'[t].pc = "idle", UNCHANGED expiries,
             \/ lease' = Released(t)
             \/ lease' = IF lease.holder = t THEN [lease EXCEPT !.holder = None] ELSE lease
      PROVE  LeaseHeld'
  <2>1. ASSUME expiries = 0, NEW u \in Tab, drain'[u].pc # "idle"
        PROVE  lease'.holder = u /\ lease'.active
    <3>1. u # t /\ lease.holder = u /\ lease.active
      BY <1>3, <2>1 DEF LeaseHeld, Still
    <3> QED
      BY <1>3, <3>1 DEF Released
  <2> QED
    BY <1>3, <2>1 DEF LeaseHeld
<1>4. ASSUME NEW t \in Tab, Reader(t)
      PROVE  LeaseHeld'
  BY <1>1, <1>4 DEF Reader, SaveProgress, CommitEdit, CreateAnnotation, UpdateAnnotation,
                    Queue, DiscardConflicts, CommitDiscard, device, counts
<1>5. ASSUME NEW t \in Tab, StartDrain(t)
      PROVE  LeaseHeld'
  <2>1. Still(t) /\ lease' = [holder |-> t, active |-> TRUE] /\ expiries' = expiries
    BY <1>5 DEF StartDrain, Still, Advance, TypeOK, counts
  <2>2. ASSUME expiries = 0, NEW u \in Tab \ {t}
        PROVE  drain'[u].pc = "idle"
    BY <1>5, <2>1, <2>2 DEF StartDrain, MayAcquire, LeaseHeld, Still
  <2> QED
    BY <2>1, <2>2 DEF LeaseHeld
<1>6. ASSUME NEW t \in Tab, Finish(t) \/ DrainThrows(t) \/ CloseTab(t)
      PROVE  LeaseHeld'
  <2>1. Still(t) /\ drain'[t].pc = "idle" /\ UNCHANGED expiries
    BY <1>6, NoRunType DEF Finish, DrainThrows, CloseTab, Still, Advance, TypeOK, counts
  <2> QED
    BY <1>3, <1>6, <2>1 DEF Finish, DrainThrows, CloseTab
<1>7. ASSUME NEW t \in Tab, Run(t)
      PROVE  LeaseHeld'
  BY <1>2, <1>6, <1>7, RunUnderLease
<1>8. CASE \/ \E env \in late : HandleLate(env)
           \/ \E f \in Foreign : MoveElsewhere(f)
  BY <1>1, <1>8 DEF HandleLate, MoveElsewhere, device, tabs, counts
<1>9. CASE LeaseExpires
  <2>1. CASE lease.holder = None
    <3>1. expiries = 0 => \A t \in Tab : drain[t].pc = "idle"
      BY <2>1, NotNone DEF LeaseHeld
    <3> QED
      BY <1>9, <2>1, <3>1 DEF LeaseExpires, LeaseHeld, tabs
  <2>2. CASE expiries' = expiries + 1
    BY <2>2 DEF TypeOK, LeaseHeld
  <2> QED
    BY <1>9, <2>1, <2>2 DEF LeaseExpires
<1>10. CASE UNCHANGED vars
  BY <1>1, <1>10 DEF vars, device, tabs, counts
<1> QED
  BY <1>4, <1>5, <1>6, <1>7, <1>8, <1>9, <1>10, SyncConstants DEF Next

----
(* What a saved operation and a kept receipt stand on.                     *)

LEMMA EditsStay ==
  ASSUME EditsKept, AcknowledgedOnServer, ReceiptsStay, UNCHANGED <<acks, owed>>,
         \A o \in owed : outbox[o] # None => outbox'[o] # None, owed \subseteq Op
  PROVE  EditsKept' /\ AcknowledgedOnServer'
  BY DEF EditsKept, AcknowledgedOnServer, ReceiptsStay

LEMMA ReaderKeeps ==
  ASSUME Inv, NEW t \in Tab, Reader(t), ReceiptsStay
  PROVE  EditsKept' /\ AcknowledgedOnServer'
<1>1. owed \subseteq Op
  BY DEF Inv, TypeOK
<1>2. CASE CommitEdit(t)
  <2>1. edit[t].op \in Op /\ edit[t].record # None
    BY <1>2, NotNone DEF CommitEdit, Inv, TypeOK
  <2>2. outbox'[edit[t].op] # None /\ \A o \in Op : outbox[o] # None => outbox'[o] # None
    BY <1>2, <2>1 DEF CommitEdit, Inv, TypeOK, OutboxType
  <2> QED
    BY <1>1, <1>2, <2>2 DEF CommitEdit, server, Inv, EditsKept, AcknowledgedOnServer
<1>3. CASE CommitDiscard(t)
  BY <1>1, <1>3 DEF CommitDiscard, server, Inv, EditsKept, AcknowledgedOnServer
<1>4. CASE UNCHANGED <<outbox, acks, owed>>
  BY <1>1, <1>4, EditsStay DEF Inv
<1> QED
  BY <1>2, <1>3, <1>4 DEF Reader, SaveProgress, CreateAnnotation, UpdateAnnotation,
                          Queue, DiscardConflicts, device

LEMMA RunKeeps ==
  ASSUME Inv, NEW t \in Tab, Run(t), ReceiptsStay
  PROVE  EditsKept' /\ AcknowledgedOnServer'
<1>1. owed \subseteq Op /\ outbox \in OutboxType
  BY DEF Inv, TypeOK
<1>2. ASSUME drain[t].pc \in Busy, NEW r \in Queued, PutCopy(t, r), UNCHANGED <<acks, owed>>
      PROVE  EditsKept' /\ AcknowledgedOnServer'
  BY <1>1, <1>2, PutType, BusyRun, EditsStay DEF Inv
<1>3. CASE UNCHANGED <<outbox, acks, owed>>
  BY <1>1, <1>3, EditsStay DEF Inv
<1>4. CASE ListQueue(t) \/ (\E o \in Op : Skip(t, o)) \/ Answer(t) \/ CheckLease(t)
           \/ FindSuccessors(t) \/ ReadRecord(t) \/ MarkSynced(t) \/ Finish(t)
  BY <1>3, <1>4 DEF ListQueue, Skip, Answer, Reply, Fail, CheckLease, FindSuccessors,
                    ReadRecord, MarkSynced, Finish, device
<1>5. ASSUME NEW o \in Op, Dispatch(t, o)
      PROVE  EditsKept' /\ AcknowledgedOnServer'
  <2>1. drain[t].working[o] \in Queued
    BY <1>5 DEF Dispatch, IsHead, Left, Inv, TypeOK, RunType, OutboxType
  <2>2. [drain[t].working[o] EXCEPT !.state = "DISPATCHING"] # None
    BY <2>1, NotNone DEF Queued, DispatchState
  <2> QED
    BY <1>1, <1>5, <2>2, EditsStay DEF Dispatch, Inv, OutboxType
<1>6. CASE HandleFailure(t)
  <2>1. drain[t].pc \in Busy
    BY <1>6 DEF HandleFailure, Busy, PC
  <2>2. /\ Retained(Copy(t)) \in Queued /\ Conflicted(Copy(t)) \in Queued
        /\ Rescheduled(Copy(t)) \in Queued
        /\ [Copy(t) EXCEPT !.state = "PENDING"] \in Queued
    BY <2>1, BusyRun, AttemptTypes DEF Inv, Queued, DispatchState
  <2>3. \E r \in Queued : PutCopy(t, r)
    BY <1>6, <2>2 DEF HandleFailure
  <2> QED
    BY <1>2, <1>6, <2>1, <2>3 DEF HandleFailure
<1>7. CASE RestorePending(t) \/ RetainConflict(t) \/ RetainRefused(t)
  <2>1. drain[t].pc \in Busy
    BY <1>7 DEF RestorePending, RetainConflict, RetainRefused, Busy, PC
  <2>2. /\ Restored(Copy(t)) \in Queued /\ Conflicted(Copy(t)) \in Queued
        /\ Retained(Copy(t)) \in Queued
    BY <2>1, BusyRun, AttemptTypes DEF Inv
  <2> QED
    BY <1>2, <1>7, <2>1, <2>2
    DEF RestorePending, RetainConflict, ConflictQueue, RetainRefused
<1>8. CASE Acknowledge(t) \/ RecordConflict(t)
  <2>1. drain[t].cur \in Op /\ drain[t].answer.kind \in {"APPLIED", "CONFLICT"}
        /\ receipts[drain[t].cur] # None
        /\ receipts[drain[t].cur].result = drain[t].answer
    BY <1>8 DEF Acknowledge, RecordConflict, Inv, RunsOK, RunOK, Busy, PC
  <2>2. AcknowledgedOnServer'
    BY <1>8, <2>1 DEF Acknowledge, RecordConflict, server, Inv, TypeOK, AcknowledgedOnServer
  <2>3. EditsKept'
    <3>1. CASE RecordConflict(t)
      BY <1>1, <3>1 DEF RecordConflict, server, Inv, EditsKept
    <3>2. CASE Acknowledge(t)
      <4>1. drain[t].answer.kind = "APPLIED" /\ drain[t].successors \in OutboxType
        BY <3>2 DEF Acknowledge, Inv, TypeOK, RunType, RunsOK, RunOK
      <4>2. \A o \in Op \ {drain[t].cur} : outbox[o] # None => outbox'[o] # None
        BY <1>1, <3>2, <4>1, OverType DEF Acknowledge, OutboxType
      <4> QED
        BY <1>1, <2>1, <3>2, <4>1, <4>2 DEF Acknowledge, server, Inv, EditsKept
    <3> QED
      BY <1>8, <3>1, <3>2
  <2> QED
    BY <2>2, <2>3
<1> QED
  BY <1>4, <1>5, <1>6, <1>7, <1>8 DEF Run

LEMMA KeepsStep ==
  ASSUME Inv, [Next]_vars, ReceiptsStay
  PROVE  EditsKept' /\ AcknowledgedOnServer'
<1>1. CASE UNCHANGED <<outbox, acks, owed>>
  BY <1>1, EditsStay DEF Inv, TypeOK
<1>2. CASE \E t \in Tab : StartDrain(t) \/ DrainThrows(t) \/ CloseTab(t)
  BY <1>1, <1>2 DEF StartDrain, DrainThrows, CloseTab
<1>3. CASE \/ \E env \in late : HandleLate(env)
           \/ \E f \in Foreign : MoveElsewhere(f)
           \/ LeaseExpires \/ UNCHANGED vars
  BY <1>1, <1>3 DEF HandleLate, MoveElsewhere, LeaseExpires, vars, device
<1> QED
  BY <1>2, <1>3, ReaderKeeps, RunKeeps, SyncConstants DEF Next

----
(* The inductive invariant.                                                *)

LEMMA InitInv == Init => Inv
<1> SUFFICES ASSUME Init PROVE Inv
  OBVIOUS
<1>1. TypeOK
  <2>1. NoRecord \in LocalRecord /\ outbox \in OutboxType
    BY DEF Init, NoRecord, LocalRecord, OutboxType
  <2> QED
    BY <2>1, NoRunType, SyncConstants DEF Init, TypeOK, NoRow
<1>2. RunsOK /\ LeaseHeld
  BY NoRunType DEF Init, RunsOK, RunOK, Busy, Told, LeaseHeld
<1>3. EditsKept /\ AcknowledgedOnServer
  BY DEF Init, EditsKept, AcknowledgedOnServer
<1> QED
  BY <1>1, <1>2, <1>3 DEF Inv

LEMMA StepInv == Inv /\ [Next]_vars => Inv'
<1> SUFFICES ASSUME Inv, [Next]_vars PROVE Inv'
  OBVIOUS
<1>1. TypeOK' /\ RunsOK' /\ ReceiptsStay
  BY TypesAndRuns DEF Inv
<1>2. LeaseHeld'
  BY LeaseStep DEF Inv
<1>3. EditsKept' /\ AcknowledgedOnServer'
  BY <1>1, KeepsStep
<1> QED
  BY <1>1, <1>2, <1>3 DEF Inv

(* Types, what each run knows, the lease, the queue and the receipts hold  *)
(* together: each conjunct's step needs the types and some of the others.  *)
THEOREM Invariance == Spec => []Inv
  BY InitInv, StepInv, PTL DEF Spec

(* Every variable of the device and of its view of the server keeps its    *)
(* type, in every instance.                                                *)
THEOREM TypeCorrect == Spec => []TypeOK
<1>1. Inv => TypeOK
  BY DEF Inv
<1> QED
  BY <1>1, Invariance, PTL

(* However requests are lost, repeated or late, leases expire and tabs     *)
(* close, an operation the reader saved is in the queue, is applied by the *)
(* server, or was discarded by the reader.                                 *)
THEOREM EditsAreKept == Spec => []EditsKept
<1>1. Inv => EditsKept
  BY DEF Inv
<1> QED
  BY <1>1, Invariance, PTL

(* The receipt that acknowledgeOperation and the conflict path keep on the *)
(* device is the receipt the server has of that operation.                 *)
THEOREM AcknowledgementsTrue == Spec => []AcknowledgedOnServer
<1>1. Inv => AcknowledgedOnServer
  BY DEF Inv
<1> QED
  BY <1>1, Invariance, PTL

(* Two tabs drain at once only after a lease ran out under its holder:     *)
(* acquire, release and the closing of tabs never let a second one in.     *)
THEOREM TabsExclude == Spec => []DrainsExclude
<1>1. Inv => DrainsExclude
  BY DEF Inv, LeaseHeld, DrainsExclude
<1> QED
  BY <1>1, Invariance, PTL

----
(* The copies of an operation: queued, in a run, and in a pending edit.    *)

Held(o) ==
  ({outbox[o]} \cup {drain[t].working[o] : t \in Tab}
               \cup {drain[t].successors[o] : t \in Tab}) \ {None}

Pending(o) == {edit[t].record : t \in {u \in Tab : edit[u] # None /\ edit[u].op = o}}

Copies(o) == Held(o) \cup Pending(o)

IsApplied(o) == acks[o] # None /\ acks[o].kind = "APPLIED"

(* An id is in use only once it has been made.                             *)
MadeInUse ==
  /\ \A o \in Op : Copies(o) # {} \/ acks[o] # None \/ receipts[o] # None => o <= made
  /\ \A env \in late : env.op \in Op => env.op <= made

OneEntity == \A o \in Op : \A x, y \in Copies(o) : x.entity = y.entity

(* A pending edit of an annotation is the only copy of its operation.      *)
EditsFresh ==
  \A t \in Tab, o \in Op :
    edit[t] # None /\ edit[t].op = o /\ edit[t].record.entity # Progress =>
      /\ Held(o) = {} /\ acks[o] = None
      /\ \A u \in Tab : edit[u] # None /\ edit[u].op = o => u = t

(* What others depend on is an annotation's, and no edit of it is pending. *)
DependsOnStored ==
  \A o \in Op : \A x \in Copies(o) : x.dependsOn # None =>
    /\ x.dependsOn <= made
    /\ Pending(x.dependsOn) = {}
    /\ \A y \in Held(x.dependsOn) : y.entity # Progress

CopiesInv == MadeInUse /\ OneEntity /\ EditsFresh /\ DependsOnStored

(* The receipt of an operation is kept before it leaves the queue.         *)
OwedQueued == \A o \in owed : outbox[o] # None \/ IsApplied(o)

(* A run waits for what it has not seen applied.                           *)
RunsWait ==
  \A t \in Tab :
    /\ drain[t].pc \in {"marking", "marked"} => IsApplied(drain[t].cur)
    /\ \A o \in Op : drain[t].working[o] # None =>
         LET d == drain[t].working[o].dependsOn
         IN  d \in owed => d \in Left(drain[t]) \cup drain[t].kept \/ IsApplied(d)

IdleEmpty == \A t \in Tab : drain[t].pc = "idle" => drain[t] = NoRun

(* While leases hold, no run keeps a copy of what was acknowledged.        *)
NoStaleCopy ==
  expiries = 0 =>
    \A o \in Op : IsApplied(o) =>
      \A t \in Tab :
        /\ drain[t].working[o] # None /\ drain[t].working[o].entity # Progress =>
             drain[t].pc \in {"marking", "marked"} /\ drain[t].cur = o
        /\ drain[t].successors[o] # None => drain[t].successors[o].entity = Progress

QueueInv == CopiesInv /\ OwedQueued /\ RunsWait /\ IdleEmpty /\ NoStaleCopy /\ AckedStaysGone

(* What the coordinator never changes of an operation; a base it only sets *)
(* on a successor.                                                         *)
Carries(y, x) ==
  /\ x.entity = y.entity /\ x.dependsOn = y.dependsOn
  /\ y.dependsOn = None => x.base = y.base

(* What a step leaves of an operation descends from a copy before it.      *)
Comes(o, x) == x = None \/ \E y \in Held(o) : Carries(y, x)

LEMMA HeldTypes ==
  ASSUME TypeOK, NEW o \in Op
  PROVE  /\ Held(o) \subseteq Queued /\ Pending(o) \subseteq Queued
         /\ Copies(o) \subseteq Queued
         /\ outbox[o] # None => outbox[o] \in Held(o)
         /\ \A t \in Tab : /\ drain[t].working[o] # None => drain[t].working[o] \in Held(o)
                           /\ drain[t].successors[o] # None => drain[t].successors[o] \in Held(o)
<1>1. outbox[o] \in Queued \cup {None}
  BY DEF TypeOK, OutboxType
<1>2. ASSUME NEW t \in Tab
      PROVE  drain[t].working[o] \in Queued \cup {None} /\ drain[t].successors[o] \in Queued \cup {None}
  BY DEF TypeOK, OutboxType, RunType
<1>3. ASSUME NEW t \in Tab, edit[t] # None
      PROVE  edit[t].record \in Queued
  BY <1>3 DEF TypeOK
<1>4. Held(o) \subseteq Queued
  BY <1>1, <1>2 DEF Held
<1>5. Pending(o) \subseteq Queued
  BY <1>3 DEF Pending
<1> QED
  BY <1>4, <1>5 DEF Held, Copies

LEMMA HeldCome ==
  ASSUME TypeOK, NEW o \in Op
  PROVE  /\ Comes(o, outbox[o])
         /\ \A t \in Tab : Comes(o, drain[t].working[o]) /\ Comes(o, drain[t].successors[o])
BY HeldTypes DEF Comes, Carries

LEMMA AttemptsCarry ==
  ASSUME NEW r \in Queued
  PROVE  /\ Carries(r, Retained(r)) /\ Carries(r, Conflicted(r))
         /\ Carries(r, Restored(r)) /\ Carries(r, Rescheduled(r))
         /\ Carries(r, [r EXCEPT !.state = "PENDING"])
         /\ Carries(r, [r EXCEPT !.state = "DISPATCHING"])
BY DEF Carries, Retained, Conflicted, Restored, Rescheduled, Queued

(* A rebased successor is the copy it rebases, of another base.            *)
LEMMA RebasedCarry ==
  ASSUME NEW queue \in OutboxType, NEW o \in Op, NEW n, NEW p \in Op, Rebased(queue, o, n)[p] # None
  PROVE  queue[p] \in Queued /\ queue[p] # None /\ Carries(queue[p], Rebased(queue, o, n)[p])
<1>1. queue[p] # None /\ queue[p].dependsOn = o
      /\ Rebased(queue, o, n)[p] = [queue[p] EXCEPT !.base = n]
  BY DEF Rebased
<1>2. queue[p] \in Queued
  BY <1>1 DEF OutboxType
<1> QED
  BY <1>1, <1>2, NotNone DEF Carries, Queued

LEMMA HeldStep ==
  ASSUME \A o \in Op : Comes(o, outbox'[o]),
         \A t \in Tab, o \in Op : Comes(o, drain'[t].working[o]) /\ Comes(o, drain'[t].successors[o])
  PROVE  \A o \in Op : \A x \in Held(o)' : \E y \in Held(o) : Carries(y, x)
BY DEF Held, Comes

(* One run goes on.                                                        *)
LEMMA RunComes ==
  ASSUME TypeOK, NEW t \in Tab, NEW run, Advance(t, run), \A o \in Op : Comes(o, outbox'[o]),
         \A o \in Op : Comes(o, run.working[o]) /\ Comes(o, run.successors[o])
  PROVE  \A o \in Op : \A x \in Held(o)' : \E y \in Held(o) : Carries(y, x)
<1>1. drain'[t] = run /\ \A u \in Tab \ {t} : drain'[u] = drain[u]
  BY DEF Advance, TypeOK
<1>2. \A u \in Tab, o \in Op : Comes(o, drain'[u].working[o]) /\ Comes(o, drain'[u].successors[o])
  BY <1>1, HeldCome
<1> QED
  BY <1>2, HeldStep

LEMMA VisitedComes ==
  ASSUME TypeOK, NEW run, NEW o \in Op, NEW c \in Op, run.cur = c, run.working \in OutboxType,
         \A p \in Op : Comes(p, run.working[p])
  PROVE  /\ Comes(o, Acked(run).working[o]) /\ Comes(o, Acked(run).successors[o])
         /\ Comes(o, Visited(run).working[o]) /\ Comes(o, Visited(run).successors[o])
BY DEF Acked, Visited, NoRun, OutboxType, Comes

LEMMA RunHeld ==
  ASSUME TypeOK, RunsOK, NEW t \in Tab, Run(t)
  PROVE  \A o \in Op : \A x \in Held(o)' : \E y \in Held(o) : Carries(y, x)
<1> DEFINE Goal == \A o \in Op : \A x \in Held(o)' : \E y \in Held(o) : Carries(y, x)
<1>1. drain[t] \in RunType /\ outbox \in OutboxType /\ drain[t].working \in OutboxType
  BY DEF TypeOK, RunType
<1>2. /\ \A o \in Op : Comes(o, outbox[o])
      /\ \A o \in Op : Comes(o, drain[t].working[o]) /\ Comes(o, drain[t].successors[o])
  BY HeldCome
<1>3. \A o \in Op : Comes(o, None)
  BY DEF Comes
<1>4. ASSUME NEW run, Advance(t, run), run.working = drain[t].working,
             run.successors = drain[t].successors, UNCHANGED outbox
      PROVE  Goal
  BY <1>2, <1>4, RunComes
<1>5. ASSUME drain[t].pc \in Busy, NEW r \in Queued, Carries(Copy(t), r), PutCopy(t, r),
             NEW run, Advance(t, run), \A o \in Op : Comes(o, run.working[o]) /\ Comes(o, run.successors[o])
      PROVE  Goal
  <2>1. drain[t].cur \in Op /\ Copy(t) \in Held(drain[t].cur)
    BY <1>5, BusyRun, HeldTypes, NotNone DEF Copy
  <2>2. \A o \in Op : Comes(o, outbox'[o])
    BY <1>1, <1>2, <1>5, <2>1 DEF PutCopy, OutboxType, Comes
  <2> QED
    BY <1>5, <2>2, RunComes
<1>6. ASSUME drain[t].pc \in Busy
      PROVE  \A o \in Op : /\ Comes(o, Visited(drain[t]).working[o])
                           /\ Comes(o, Visited(drain[t]).successors[o])
  BY <1>1, <1>2, <1>6, BusyRun, VisitedComes
<1>7. CASE ListQueue(t)
  <2> DEFINE run == [drain[t] EXCEPT !.pc = "next", !.working = outbox]
  <2>1. run.working = outbox /\ run.successors = drain[t].successors
    BY <1>1 DEF RunType
  <2>2. Advance(t, run) /\ UNCHANGED outbox
    BY <1>7 DEF ListQueue, device
  <2> HIDE DEF run
  <2> QED
    BY <1>2, <2>1, <2>2, RunComes
<1>8. ASSUME NEW o \in Op, Skip(t, o)
      PROVE  Goal
  <2> DEFINE run == [drain[t] EXCEPT !.cur = o]
  <2>1. run.working = drain[t].working /\ run.cur = o
    BY <1>1 DEF RunType
  <2>2. Advance(t, Visited(run)) /\ UNCHANGED outbox
    BY <1>8 DEF Skip, device
  <2> HIDE DEF run
  <2> QED
    BY <1>1, <1>2, <2>1, <2>2, VisitedComes, RunComes
<1>9. ASSUME NEW o \in Op, Dispatch(t, o)
      PROVE  Goal
  <2> DEFINE run == [drain[t] EXCEPT !.pc = "waiting", !.cur = o]
  <2>1. run.working = drain[t].working /\ run.successors = drain[t].successors
    BY <1>1 DEF RunType
  <2>2. drain[t].working[o] \in Queued /\ drain[t].working[o] # None
    BY <1>1, <1>9 DEF Dispatch, IsHead, Left, OutboxType
  <2>3. Advance(t, run)
        /\ outbox' = [outbox EXCEPT ![o] = [drain[t].working[o] EXCEPT !.state = "DISPATCHING"]]
    BY <1>9 DEF Dispatch
  <2>4. \A p \in Op : Comes(p, outbox'[p])
    BY <1>1, <1>2, <2>2, <2>3, AttemptsCarry, HeldTypes DEF Comes, OutboxType
  <2> HIDE DEF run
  <2> QED
    BY <1>2, <2>1, <2>3, <2>4, RunComes
<1>10. CASE Answer(t)
  <2>1. CASE Reply(t)
    <3>1. PICK result \in Results :
            Advance(t, [drain[t] EXCEPT !.pc = "answered", !.answer = result])
      BY <2>1 DEF Reply
    <3>2. UNCHANGED outbox
      BY <2>1 DEF Reply, device
    <3> QED
      BY <1>1, <1>4, <3>1, <3>2 DEF RunType
  <2>2. ASSUME NEW failure \in Failure, Fail(t, failure)
        PROVE  Goal
    BY <1>1, <1>4, <2>2 DEF Fail, device, RunType
  <2> QED
    BY <1>10, <2>1, <2>2 DEF Answer
<1>11. CASE HandleFailure(t)
  <2>1. drain[t].pc \in Busy
    BY <1>11 DEF HandleFailure, Busy, PC
  <2>2. Copy(t) \in Queued
    BY <2>1, BusyRun
  <2>3. /\ Retained(Copy(t)) \in Queued /\ Conflicted(Copy(t)) \in Queued
        /\ Rescheduled(Copy(t)) \in Queued
        /\ [Copy(t) EXCEPT !.state = "PENDING"] \in Queued
    BY <2>2, AttemptTypes DEF Queued, DispatchState
  <2> DEFINE run == Visited(drain[t])
  <2> DEFINE ended == [run EXCEPT !.working = NoRun.working]
  <2> DEFINE paused == [run EXCEPT !.paused = @ \cup {Copy(t).entity}]
  <2>4. run \in RunType
    BY <2>1, BusyRun
  <2>5. /\ ended.working = NoRun.working /\ ended.successors = run.successors
        /\ paused.working = run.working /\ paused.successors = run.successors
    BY <2>4 DEF RunType
  <2>6. \A o \in Op : /\ Comes(o, run.working[o]) /\ Comes(o, run.successors[o])
                      /\ Comes(o, ended.working[o]) /\ Comes(o, ended.successors[o])
                      /\ Comes(o, paused.working[o]) /\ Comes(o, paused.successors[o])
    BY <1>3, <1>6, <2>1, <2>5 DEF NoRun
  <2>7. \E r \in Queued : Carries(Copy(t), r) /\ PutCopy(t, r)
                          /\ (Advance(t, run) \/ Advance(t, ended) \/ Advance(t, paused))
    BY <1>11, <2>2, <2>3, AttemptsCarry DEF HandleFailure
  <2> HIDE DEF run, ended, paused
  <2> QED
    BY <1>5, <2>1, <2>6, <2>7
<1>12. CASE CheckLease(t)
  BY <1>1, <1>4, <1>12 DEF CheckLease, device, RunType
<1>13. CASE RestorePending(t) \/ RetainRefused(t)
  <2>1. drain[t].pc \in Busy
    BY <1>13 DEF RestorePending, RetainRefused, Busy, PC
  <2>2. Copy(t) \in Queued
    BY <2>1, BusyRun
  <2>3. \E r \in Queued : Carries(Copy(t), r) /\ PutCopy(t, r) /\ Advance(t, Visited(drain[t]))
    BY <1>13, <2>2, AttemptsCarry, AttemptTypes DEF RestorePending, RetainRefused
  <2> QED
    BY <1>5, <1>6, <2>1, <2>3
<1>14. CASE RetainConflict(t)
  <2>1. drain[t].pc \in Busy
    BY <1>14 DEF RetainConflict, Busy, PC
  <2>2. Copy(t) \in Queued /\ Visited(drain[t]) \in RunType
    BY <2>1, BusyRun
  <2> DEFINE run == [Visited(drain[t]) EXCEPT !.paused = @ \cup {Copy(t).entity}]
  <2>3. run.working = Visited(drain[t]).working /\ run.successors = Visited(drain[t]).successors
    BY <2>2 DEF RunType
  <2>4. Conflicted(Copy(t)) \in Queued /\ Carries(Copy(t), Conflicted(Copy(t)))
        /\ PutCopy(t, Conflicted(Copy(t))) /\ Advance(t, run)
    BY <1>14, <2>2, AttemptsCarry, AttemptTypes DEF RetainConflict, ConflictQueue
  <2> HIDE DEF run
  <2> QED
    BY <1>5, <1>6, <2>1, <2>3, <2>4
<1>15. CASE FindSuccessors(t)
  <2> DEFINE found == Rebased(outbox, drain[t].cur, drain[t].answer.revision)
  <2> DEFINE run == [drain[t] EXCEPT !.pc = "acking", !.successors = found]
  <2>1. drain[t].cur \in Op
    BY <1>15, BusyRun DEF FindSuccessors, Busy, PC
  <2>2. run.working = drain[t].working /\ run.successors = found
    BY <1>1 DEF RunType
  <2>3. Advance(t, run) /\ UNCHANGED outbox
    BY <1>15 DEF FindSuccessors, device
  <2> HIDE DEF run
  <2>4. \A p \in Op : Comes(p, found[p])
    BY <1>1, <2>1, RebasedCarry, HeldTypes DEF Comes
  <2> HIDE DEF found
  <2> QED
    BY <1>2, <2>2, <2>3, <2>4, RunComes
<1>16. CASE Acknowledge(t)
  <2> DEFINE run == [drain[t] EXCEPT !.pc = "marking", !.successors = NoRun.successors]
  <2>1. run.working = drain[t].working /\ run.successors = NoRun.successors
    BY <1>1 DEF RunType
  <2>2. Advance(t, run) /\ outbox' = [Over(drain[t].successors, outbox) EXCEPT ![drain[t].cur] = None]
    BY <1>16 DEF Acknowledge
  <2>3. \A p \in Op : outbox'[p] \in {None, drain[t].successors[p], outbox[p]}
    BY <2>2 DEF Over
  <2> HIDE DEF run
  <2>4. \A p \in Op : Comes(p, outbox'[p])
    BY <1>2, <1>3, <2>3
  <2> QED
    BY <1>2, <1>3, <2>1, <2>2, <2>4, RunComes DEF NoRun
<1>17. CASE ReadRecord(t)
  BY <1>1, <1>4, <1>17 DEF ReadRecord, device, RunType
<1>18. CASE MarkSynced(t)
  <2> DEFINE rebased == Rebased(drain[t].working, drain[t].cur, drain[t].answer.revision)
  <2> DEFINE run == [drain[t] EXCEPT !.working = Over(rebased, drain[t].working)]
  <2>1. drain[t].cur \in Op /\ drain[t].answer \in AnyAnswer
    BY <1>18, BusyRun DEF MarkSynced, Busy, PC, RunsOK, RunOK, Told
  <2>2. rebased \in OutboxType
    BY <1>1, <2>1, RebasedType DEF AnyAnswer
  <2>3. \A p \in Op : Comes(p, rebased[p])
    BY <1>1, <2>1, RebasedCarry, HeldTypes DEF Comes
  <2>4. Advance(t, Acked(run)) /\ UNCHANGED outbox
    BY <1>1, <1>18 DEF MarkSynced, RunType
  <2>5. run.working = Over(rebased, drain[t].working) /\ run.cur = drain[t].cur
    BY <1>1 DEF RunType
  <2> HIDE DEF run, rebased
  <2>6. run.working \in OutboxType
    BY <1>1, <2>2, <2>5, OverType
  <2>7. \A p \in Op : Comes(p, run.working[p])
    BY <1>2, <2>3, <2>5 DEF Over
  <2> QED
    BY <1>2, <2>1, <2>4, <2>5, <2>6, <2>7, VisitedComes, RunComes
<1>19. CASE RecordConflict(t)
  BY <1>1, <1>4, <1>19 DEF RecordConflict, RunType
<1>20. CASE Finish(t)
  BY <1>2, <1>3, <1>20, RunComes DEF Finish, NoRun
<1> QED
  BY <1>7, <1>8, <1>9, <1>10, <1>11, <1>12, <1>13, <1>14, <1>15, <1>16, <1>17, <1>18, <1>19, <1>20 DEF Run

(* What a step does to the pending edits and the made ids.                  *)
EditsRest ==
  made' = made /\ \A t \in Tab : edit'[t] # None => edit'[t] = edit[t]

Quiet == UNCHANGED <<outbox, drain, acks, owed, receipts, late, expiries>>

Coalesces(t, o, x) ==
  /\ edit[t] = None /\ outbox[o] # None /\ outbox[o].entity = Progress
  /\ Carries(outbox[o], x)
  /\ edit'[t] # None /\ edit'[t].op = o /\ edit'[t].record = x
  /\ \A u \in Tab \ {t} : edit'[u] = edit[u]
  /\ made' = IF o > made THEN o ELSE made
  /\ Quiet

Begins(t, x) ==
  /\ edit[t] = None /\ made < MaxOps /\ made' = made + 1
  /\ edit'[t] # None /\ edit'[t].op = made + 1 /\ edit'[t].record = x
  /\ \A u \in Tab \ {t} : edit'[u] = edit[u]
  /\ x.dependsOn # None =>
       /\ x.entity # Progress /\ x.dependsOn \in Op /\ outbox[x.dependsOn] # None
       /\ outbox[x.dependsOn].entity = x.entity
  /\ Quiet

LEMMA QueueEffect ==
  ASSUME TypeOK, NEW t \in Tab, NEW o \in Op, NEW x \in Queued, NEW n \in Nat,
         MayEdit(t), Queue(t, o, x, n)
  PROVE  /\ edit[t] = None /\ edit'[t] # None /\ edit'[t].op = o /\ edit'[t].record = x
         /\ \A u \in Tab \ {t} : edit'[u] = edit[u]
         /\ made' = IF o > made THEN o ELSE made
         /\ Quiet
<1> DEFINE e == [op |-> o, record |-> x, revision |-> n]
<1>1. edit' = [edit EXCEPT ![t] = e] /\ edit \in [Tab -> [op : Op, record : Queued, revision : Nat] \cup {None}]
  BY DEF Queue, TypeOK
<1>2. e.op = o /\ e.record = x /\ e \in [op : Op, record : Queued, revision : Nat]
  OBVIOUS
<1>3. e # None
  BY <1>2, NoneIsNoRecord
<1> HIDE DEF e
<1> QED
  BY <1>1, <1>2, <1>3 DEF Queue, MayEdit, Quiet, device, server

LEMMA NewFields ==
  ASSUME NEW kind, NEW e, NEW d, NEW base, NEW new \in NewOperations(kind, e, d, base)
  PROVE  new.entity = e /\ new.dependsOn = d /\ new.base = base
BY DEF NewOperations

LEMMA NextId ==
  ASSUME TypeOK, made < MaxOps
  PROVE  made + 1 \in Op /\ made \in Nat
BY SyncConstants DEF TypeOK, Op

(* A saved position replaces an unsent one or begins an operation.          *)
LEMMA SaveEdits ==
  ASSUME TypeOK, NEW t \in Tab, SaveProgress(t)
  PROVE  \/ \E o \in Op, x \in Queued : Coalesces(t, o, x)
         \/ \E x \in Queued : Begins(t, x) /\ x.entity = Progress /\ x.dependsOn = None
<1>1. CASE \E o \in Op : outbox[o] # None /\ outbox[o].entity = Progress
                         /\ Queue(t, o, [outbox[o] EXCEPT !.edit = edits + 1], 0)
  <2>1. PICK o \in Op : outbox[o] # None /\ outbox[o].entity = Progress
                        /\ Queue(t, o, [outbox[o] EXCEPT !.edit = edits + 1], 0)
    BY <1>1
  <2> DEFINE x == [outbox[o] EXCEPT !.edit = edits + 1]
  <2>2. edits + 1 \in Edit /\ outbox[o] \in Queued
    BY <2>1, SyncConstants DEF SaveProgress, MayEdit, TypeOK, Edit, OutboxType
  <2>3. x \in Queued /\ Carries(outbox[o], x)
    BY <2>2 DEF Queued, Carries
  <2> HIDE DEF x
  <2>4. Coalesces(t, o, x)
    BY <2>1, <2>3, QueueEffect DEF SaveProgress, Coalesces, x
  <2> QED
    BY <2>3, <2>4
<1>2. CASE made < MaxOps /\ \E new \in NewOperations("PROGRESS_SET", Progress, None, 0) :
                              Queue(t, made + 1, new, 0)
  <2>1. PICK new \in NewOperations("PROGRESS_SET", Progress, None, 0) : Queue(t, made + 1, new, 0)
    BY <1>2
  <2>2. new.dependsOn = None /\ new.entity = Progress /\ made + 1 \in Op
    BY <1>2, NewFields, NextId
  <2>3. new \in Queued
    BY NewOperationType DEF SaveProgress, MayEdit, Kind, Entity
  <2>4. Begins(t, new)
    BY <1>2, <2>1, <2>2, <2>3, QueueEffect DEF SaveProgress, Begins, TypeOK
  <2> QED
    BY <2>2, <2>3, <2>4
<1> QED
  BY <1>1, <1>2 DEF SaveProgress, Latest, QueuedFor, Present

LEMMA ReaderEdits ==
  ASSUME TypeOK, NEW t \in Tab, Reader(t)
  PROVE  \/ EditsRest
         \/ \E o \in Op, x \in Queued : Coalesces(t, o, x)
         \/ \E x \in Queued : Begins(t, x)
<1>1. CASE SaveProgress(t)
  BY <1>1, SaveEdits
<1>2. ASSUME NEW a \in Annotation, CreateAnnotation(t, a)
      PROVE  \E x \in Queued : Begins(t, x)
  <2>1. PICK new \in NewOperations("ANNOTATION_CREATE", a, None, 0) : Queue(t, made + 1, new, 0)
    BY <1>2 DEF CreateAnnotation
  <2>2. new \in Queued /\ made + 1 \in Op /\ new.dependsOn = None
    BY <1>2, NewOperationType, NewFields, NextId DEF CreateAnnotation, MayEdit, Kind, Entity
  <2>3. Begins(t, new)
    BY <1>2, <2>1, <2>2, QueueEffect DEF CreateAnnotation, Begins, TypeOK
  <2> QED
    BY <2>2, <2>3
<1>3. ASSUME NEW a \in Annotation, UpdateAnnotation(t, a)
      PROVE  \E x \in Queued : Begins(t, x)
  <2>1. records[a].revision \in Nat /\ records[a].revision + 1 \in Nat
    BY <1>3 DEF TypeOK, LocalRecord, Entity
  <2>2. PICK d \in IF QueuedFor(a) = {} THEN {None} ELSE Latest(QueuedFor(a)) :
          \E new \in NewOperations("ANNOTATION_UPDATE", a, d, records[a].revision) :
            Queue(t, made + 1, new, records[a].revision + 1)
    BY <1>3 DEF UpdateAnnotation
  <2>3. d # None => d \in Op /\ outbox[d] # None /\ outbox[d].entity = a
    BY <2>2 DEF Latest, QueuedFor, Present
  <2>4. d \in Op \cup {None}
    BY <2>3
  <2>5. PICK new \in NewOperations("ANNOTATION_UPDATE", a, d, records[a].revision) :
            Queue(t, made + 1, new, records[a].revision + 1)
    BY <2>2
  <2>6. new \in Queued /\ made + 1 \in Op /\ new.dependsOn = d /\ new.entity = a
    BY <1>3, <2>1, <2>4, NewOperationType, NewFields, NextId
       DEF UpdateAnnotation, MayEdit, Kind, Entity
  <2>7. a # Progress
    BY SyncConstants
  <2>8. Begins(t, new)
    BY <1>3, <2>1, <2>3, <2>5, <2>6, <2>7, QueueEffect DEF UpdateAnnotation, Begins, TypeOK
  <2> QED
    BY <2>6, <2>8
<1>4. CASE CommitEdit(t) \/ DiscardConflicts(t) \/ CommitDiscard(t)
  BY <1>4 DEF CommitEdit, DiscardConflicts, CommitDiscard, EditsRest, TypeOK, counts
<1> QED
  BY <1>1, <1>2, <1>3, <1>4 DEF Reader

LEMMA NextEdits ==
  ASSUME TypeOK, [Next]_vars
  PROVE  \/ EditsRest
         \/ \E t \in Tab, o \in Op, x \in Queued : Coalesces(t, o, x)
         \/ \E t \in Tab, x \in Queued : Begins(t, x)
<1>1. ASSUME NEW t \in Tab, Run(t) PROVE EditsRest
  BY <1>1 DEF Run, ListQueue, Skip, Dispatch, Answer, Reply, Fail, HandleFailure, CheckLease,
     RestorePending, FindSuccessors, Acknowledge, ReadRecord, MarkSynced, RecordConflict,
     RetainConflict, RetainRefused, Finish, EditsRest, counts
<1>2. ASSUME NEW t \in Tab, StartDrain(t) \/ DrainThrows(t) \/ CloseTab(t) PROVE EditsRest
  BY <1>2 DEF StartDrain, DrainThrows, CloseTab, EditsRest, counts, TypeOK
<1>3. CASE \/ \E env \in late : HandleLate(env)
           \/ \E f \in Foreign : MoveElsewhere(f)
           \/ LeaseExpires \/ UNCHANGED vars
  BY <1>3 DEF HandleLate, MoveElsewhere, LeaseExpires, vars, tabs, counts, EditsRest
<1> QED
  BY <1>1, <1>2, <1>3, ReaderEdits, SyncConstants DEF Next

(* A held copy comes from a held one, or from an edit that is committed.    *)
LEMMA NextHeld ==
  ASSUME TypeOK, RunsOK, [Next]_vars, NEW o \in Op, NEW x \in Held(o)'
  PROVE  \/ \E y \in Held(o) : Carries(y, x)
         \/ \E t \in Tab : /\ edit[t] # None /\ edit[t].op = o /\ edit[t].record = x
                           /\ edit'[t] = None
<1>1. CASE UNCHANGED <<outbox, drain>>
  BY <1>1 DEF Held, Carries
<1>2. ASSUME NEW t \in Tab, Run(t)
      PROVE  \E y \in Held(o) : Carries(y, x)
  BY <1>2, RunHeld
<1>3. ASSUME NEW t \in Tab, StartDrain(t) \/ DrainThrows(t) \/ CloseTab(t)
      PROVE  \E y \in Held(o) : Carries(y, x)
  <2>1. PICK run : /\ Advance(t, run) /\ UNCHANGED outbox
                   /\ \A p \in Op : run.working[p] = None /\ run.successors[p] = None
    BY <1>3 DEF StartDrain, DrainThrows, CloseTab, NoRun
  <2> QED
    BY <2>1, HeldCome, RunComes DEF Comes
<1>4. ASSUME NEW t \in Tab, CommitDiscard(t)
      PROVE  \E y \in Held(o) : Carries(y, x)
  <2>1. \A p \in Op : outbox'[p] \in {None, outbox[p]}
    BY <1>4 DEF CommitDiscard
  <2>2. UNCHANGED drain
    BY <1>4 DEF CommitDiscard
  <2> QED
    BY <2>1, <2>2 DEF Held, Carries
<1>5. ASSUME NEW t \in Tab, CommitEdit(t)
      PROVE  \/ \E y \in Held(o) : Carries(y, x)
             \/ \E u \in Tab : /\ edit[u] # None /\ edit[u].op = o /\ edit[u].record = x
                               /\ edit'[u] = None
  <2>1. outbox'[o] = IF o = edit[t].op THEN edit[t].record ELSE outbox[o]
    BY <1>5 DEF CommitEdit, TypeOK, OutboxType
  <2>2. UNCHANGED drain /\ edit[t] # None /\ edit'[t] = None
    BY <1>5 DEF CommitEdit, TypeOK
  <2> QED
    BY <2>1, <2>2 DEF Held, Carries
<1>6. ASSUME NEW t \in Tab, Reader(t)
      PROVE  \/ UNCHANGED <<outbox, drain>>
             \/ CommitEdit(t) \/ CommitDiscard(t)
  BY <1>6 DEF Reader, SaveProgress, CreateAnnotation, UpdateAnnotation, Queue, DiscardConflicts, device
<1>7. CASE \/ \E env \in late : HandleLate(env)
           \/ \E f \in Foreign : MoveElsewhere(f)
           \/ LeaseExpires \/ UNCHANGED vars
  BY <1>1, <1>7 DEF HandleLate, MoveElsewhere, LeaseExpires, vars, tabs, device
<1> QED
  BY <1>1, <1>2, <1>3, <1>4, <1>5, <1>6, <1>7, SyncConstants DEF Next

(* Receipts of the device are kept for what a run holds.                    *)
LEMMA AcksChange ==
  ASSUME TypeOK, RunsOK, [Next]_vars, NEW o \in Op, acks'[o] # acks[o]
  PROVE  /\ Held(o) # {}
         /\ \E t \in Tab : /\ drain[t].cur = o /\ acks'[o] = drain[t].answer
                           /\ Acknowledge(t) \/ RecordConflict(t)
<1>1. PICK t \in Tab : Acknowledge(t) \/ RecordConflict(t)
  <2>1. ASSUME NEW t \in Tab, Run(t) PROVE Acknowledge(t) \/ RecordConflict(t)
    BY <2>1 DEF Run, ListQueue, Skip, Dispatch, Answer, Reply, Fail, HandleFailure, CheckLease,
       RestorePending, FindSuccessors, ReadRecord, MarkSynced, RetainConflict, RetainRefused,
       Finish, device
  <2>2. ASSUME NEW t \in Tab, Reader(t) PROVE FALSE
    BY <2>2 DEF Reader, SaveProgress, CommitEdit, CreateAnnotation, UpdateAnnotation, Queue,
       DiscardConflicts, CommitDiscard, device
  <2>3. ASSUME NEW t \in Tab, StartDrain(t) \/ DrainThrows(t) \/ CloseTab(t) PROVE FALSE
    BY <2>3 DEF StartDrain, DrainThrows, CloseTab, device
  <2>4. CASE \/ \E env \in late : HandleLate(env)
             \/ \E f \in Foreign : MoveElsewhere(f)
             \/ LeaseExpires \/ UNCHANGED vars
    BY <2>4 DEF HandleLate, MoveElsewhere, LeaseExpires, vars, device, tabs
  <2> QED
    BY <2>1, <2>2, <2>3, <2>4, SyncConstants DEF Next
<1>2. drain[t].pc \in Busy /\ acks' = [acks EXCEPT ![drain[t].cur] = drain[t].answer]
  BY <1>1 DEF Acknowledge, RecordConflict, Busy, PC
<1>3. drain[t].cur = o /\ acks'[o] = drain[t].answer
  BY <1>2 DEF TypeOK
<1>4. Copy(t) \in Queued /\ Copy(t) # None
  BY <1>2, BusyRun, NotNone
<1> QED
  BY <1>1, <1>3, <1>4, HeldTypes DEF Copy

(* What the server stores, and what is still under way to it: requests that *)
(* a run sends, or that were under way already.                             *)
Requested(env) ==
  env \in late \/ \E t \in Tab : drain[t].pc = "waiting" /\ env = Sent(t)

LEMMA ServerWrites ==
  ASSUME TypeOK, RunsOK, [Next]_vars
  PROVE  /\ \A o \in Op : receipts'[o] # receipts[o] =>
              \E env, result : /\ Requested(env) /\ env.op = o
                              /\ receipts'[o] = [input |-> env, result |-> result]
                              /\ (Applies(env, result) \/ Conflicts(env, result))
         /\ \A env \in late' : Requested(env)
<1>1. CASE UNCHANGED <<receipts, late>>
  BY <1>1 DEF Requested
<1>2. ASSUME NEW env, NEW result, Requested(env), NEW o \in Op, receipts'[o] # receipts[o],
             Settles(env, result) \/ Applies(env, result) \/ Conflicts(env, result)
      PROVE  \E e, r : /\ Requested(e) /\ e.op = o
                      /\ receipts'[o] = [input |-> e, result |-> r]
                      /\ (Applies(e, r) \/ Conflicts(e, r))
  <2>1. Applies(env, result) \/ Conflicts(env, result)
    BY <1>2 DEF Settles, Replays, Refuses, server
  <2>2. receipts' = [receipts EXCEPT ![env.op] = [input |-> env, result |-> result]]
    BY <2>1 DEF Applies, Conflicts, Store
  <2>3. receipts \in [Op \cup Foreign -> ServerReceipt \cup {None}]
    BY DEF TypeOK
  <2>4. env.op = o /\ receipts'[o] = [input |-> env, result |-> result]
    BY <1>2, <2>2, <2>3
  <2> QED
    BY <1>2, <2>1, <2>4
<1>3. ASSUME NEW t \in Tab, Reply(t)
      PROVE  late' \subseteq late /\ \E result : Requested(Sent(t)) /\ Settles(Sent(t), result)
  BY <1>3 DEF Reply, Unsettled, Requested
<1>4. ASSUME NEW t \in Tab, CloseTab(t) \/ \E failure \in Failure : Fail(t, failure)
      PROVE  UNCHANGED receipts /\ \A env \in late' : Requested(env)
  BY <1>4 DEF CloseTab, Fail, Abandon, server, Requested
<1>5. ASSUME NEW env \in late, HandleLate(env)
      PROVE  late' \subseteq late /\ \E result : Applies(env, result) \/ Conflicts(env, result)
  BY <1>5 DEF HandleLate, Unsettled
<1>6. ASSUME NEW f \in Foreign, MoveElsewhere(f)
      PROVE  UNCHANGED late /\ \A o \in Op : receipts'[o] = receipts[o]
  <2>1. f \notin Op
    BY SyncConstants
  <2> QED
    BY <1>6, <2>1 DEF MoveElsewhere, Applies, Store, TypeOK
<1>7. ASSUME NEW t \in Tab, StartDrain(t) \/ DrainThrows(t)
      PROVE  UNCHANGED <<receipts, late>>
  BY <1>7 DEF StartDrain, DrainThrows, server
<1>8. ASSUME NEW t \in Tab, Reader(t)
      PROVE  UNCHANGED <<receipts, late>>
  BY <1>8 DEF Reader, SaveProgress, CommitEdit, CreateAnnotation, UpdateAnnotation, Queue,
     DiscardConflicts, CommitDiscard, server
<1>9. ASSUME NEW t \in Tab, Run(t)
      PROVE  UNCHANGED <<receipts, late>> \/ Reply(t) \/ \E failure \in Failure : Fail(t, failure)
  BY <1>9 DEF Run, ListQueue, Skip, Dispatch, Answer, HandleFailure, CheckLease,
     RestorePending, FindSuccessors, Acknowledge, ReadRecord, MarkSynced, RecordConflict,
     RetainConflict, RetainRefused, Finish, server
<1>10. CASE LeaseExpires \/ UNCHANGED vars
  BY <1>1, <1>10 DEF LeaseExpires, vars, server
<1>11. \A env \in late : Requested(env)
  BY DEF Requested
<1>12. ASSUME NEW t \in Tab, Reply(t)
       PROVE  /\ \A env \in late' : Requested(env)
              /\ \A o \in Op : receipts'[o] # receipts[o] =>
                   \E env, result : /\ Requested(env) /\ env.op = o
                                   /\ receipts'[o] = [input |-> env, result |-> result]
                                   /\ (Applies(env, result) \/ Conflicts(env, result))
  BY <1>2, <1>3, <1>11, <1>12
<1>13. ASSUME NEW env \in late, HandleLate(env)
       PROVE  /\ \A e \in late' : Requested(e)
              /\ \A o \in Op : receipts'[o] # receipts[o] =>
                   \E e, result : /\ Requested(e) /\ e.op = o
                                 /\ receipts'[o] = [input |-> e, result |-> result]
                                 /\ (Applies(e, result) \/ Conflicts(e, result))
  BY <1>2, <1>5, <1>11, <1>13
<1> QED
  BY <1>1, <1>4, <1>6, <1>7, <1>8, <1>9, <1>10, <1>11, <1>12, <1>13, SyncConstants DEF Next

(* What the server is sent has been made.                                   *)
LEMMA ServerChange ==
  ASSUME TypeOK, RunsOK, MadeInUse, [Next]_vars
  PROVE  /\ \A o \in Op : receipts'[o] # None => o <= made
         /\ \A env \in late' : env.op \in Op => env.op <= made
<1>1. ASSUME NEW t \in Tab, drain[t].pc = "waiting"
      PROVE  Sent(t).op <= made
  <2>1. drain[t].cur \in Op /\ Copy(t) \in Queued /\ Sent(t).op = drain[t].cur
    BY <1>1, BusyRun DEF Busy, PC
  <2>2. Copy(t) \in Held(drain[t].cur)
    BY <2>1, HeldTypes, NotNone DEF Copy
  <2> QED
    BY <2>1, <2>2 DEF MadeInUse, Copies
<1>2. ASSUME NEW env, Requested(env), env.op \in Op
      PROVE  env.op <= made
  BY <1>1, <1>2 DEF Requested, MadeInUse
<1>3. \A o \in Op : receipts[o] # None => o <= made
  BY DEF MadeInUse
<1>4. ASSUME NEW o \in Op, receipts'[o] # None
      PROVE  o <= made
  <2>1. CASE receipts'[o] # receipts[o]
    <3>1. PICK env, result : /\ Requested(env) /\ env.op = o
                             /\ receipts'[o] = [input |-> env, result |-> result]
                             /\ (Applies(env, result) \/ Conflicts(env, result))
      BY <2>1, ServerWrites
    <3> QED
      BY <1>2, <3>1
  <2> QED
    BY <1>3, <1>4, <2>1
<1>5. \A env \in late' : Requested(env)
  BY ServerWrites
<1> QED
  BY <1>2, <1>4, <1>5

LEMMA PendingEdit ==
  ASSUME NEW t \in Tab, edit[t] # None
  PROVE  edit[t].record \in Pending(edit[t].op)
BY DEF Pending

(* A queued operation of an annotation has no pending edit.                 *)
LEMMA QueuedNotPending ==
  ASSUME TypeOK, CopiesInv, NEW d \in Op, outbox[d] # None, outbox[d].entity # Progress
  PROVE  /\ d <= made /\ Pending(d) = {}
         /\ \A y \in Held(d) : y.entity # Progress
<1>1. outbox[d] \in Held(d)
  BY HeldTypes
<1>2. d <= made /\ \A y \in Copies(d) : y.entity = outbox[d].entity
  BY <1>1 DEF CopiesInv, MadeInUse, OneEntity, Copies
<1>3. ASSUME NEW t \in Tab, edit[t] # None, edit[t].op = d PROVE FALSE
  <2>1. edit[t].record.entity # Progress
    BY <1>2, <1>3, PendingEdit DEF Copies
  <2> QED
    BY <1>1, <1>3, <2>1 DEF CopiesInv, EditsFresh
<1> QED
  BY <1>2, <1>3 DEF Pending, Copies

LEMMA CopiesStep ==
  ASSUME TypeOK, RunsOK, CopiesInv, [Next]_vars
  PROVE  CopiesInv'
<1> USE DEF CopiesInv
<1>1. /\ \A o \in Op : receipts'[o] # None => o <= made
      /\ \A env \in late' : env.op \in Op => env.op <= made
  BY ServerChange
<1>2. \A o \in Op : acks'[o] # None => acks[o] # None \/ Held(o) # {}
  BY AcksChange
<1>3. made \in Nat /\ \A o \in Op : o \in Nat
  BY DEF TypeOK, Op
<1>4. CASE EditsRest
  <2>1. \A o \in Op : Pending(o)' \subseteq Pending(o)
    BY <1>4 DEF EditsRest, Pending
  <2>2. \A o \in Op : \A x \in Copies(o)' : \E y \in Copies(o) : Carries(y, x)
    <3>1. \A o \in Op : \A x \in Held(o)' : \E y \in Copies(o) : Carries(y, x)
      <4>1. ASSUME NEW t \in Tab, edit[t] # None
            PROVE  edit[t].record \in Copies(edit[t].op) /\ Carries(edit[t].record, edit[t].record)
        BY <4>1, PendingEdit DEF Copies, Carries
      <4> QED
        BY <4>1, NextHeld DEF Copies
    <3>2. \A y : Carries(y, y)
      BY DEF Carries
    <3> QED
      BY <2>1, <3>1, <3>2 DEF Copies
  <2>3. MadeInUse'
    BY <1>1, <1>2, <1>4, <2>2 DEF MadeInUse, EditsRest, Copies
  <2>4. OneEntity'
    BY <2>2 DEF OneEntity, Carries
  <2>5. EditsFresh'
    <3>1. ASSUME NEW t \in Tab, NEW o \in Op,
                 edit'[t] # None, edit'[t].op = o, edit'[t].record.entity # Progress
          PROVE  /\ Held(o)' = {} /\ acks'[o] = None
                 /\ \A u \in Tab : edit'[u] # None /\ edit'[u].op = o => u = t
      <4>1. edit'[t] = edit[t]
        BY <1>4, <3>1 DEF EditsRest
      <4>2. /\ Held(o) = {} /\ acks[o] = None
            /\ \A u \in Tab : edit[u] # None /\ edit[u].op = o => u = t
        BY <3>1, <4>1 DEF EditsFresh
      <4>3. Held(o)' = {}
        BY <3>1, <4>1, <4>2, NextHeld
      <4>4. acks'[o] = None
        BY <1>2, <4>2
      <4> QED
        BY <1>4, <4>2, <4>3, <4>4 DEF EditsRest
    <3> QED
      BY <3>1 DEF EditsFresh
  <2>6. DependsOnStored'
    <3>1. ASSUME NEW o \in Op, NEW x \in Copies(o)', x.dependsOn # None
          PROVE  /\ x.dependsOn <= made'
                 /\ Pending(x.dependsOn)' = {}
                 /\ \A y \in Held(x.dependsOn)' : y.entity # Progress
      <4>1. PICK z \in Copies(o) : Carries(z, x)
        BY <2>2
      <4> DEFINE d == x.dependsOn
      <4>2. z.dependsOn = d
        BY <4>1 DEF Carries
      <4>3. d \in Op
        BY <3>1, <4>2, HeldTypes DEF Queued
      <4>4. d <= made /\ Pending(d) = {} /\ \A y \in Held(d) : y.entity # Progress
        BY <3>1, <4>2 DEF DependsOnStored
      <4> HIDE DEF d
      <4>5. Pending(d)' = {}
        BY <2>1, <4>3, <4>4
      <4>6. \A y \in Held(d)' : y.entity # Progress
        BY <2>2, <4>3, <4>4 DEF Copies, Carries
      <4>7. made' = made
        BY <1>4 DEF EditsRest
      <4> QED
        BY <4>4, <4>5, <4>6, <4>7 DEF d
    <3> QED
      BY <3>1 DEF DependsOnStored
  <2> QED
    BY <2>3, <2>4, <2>5, <2>6
<1>5. ASSUME NEW t \in Tab, NEW c \in Op, NEW x \in Queued, Coalesces(t, c, x)
      PROVE  CopiesInv'
  <2>1. \A o \in Op : Held(o)' = Held(o)
    BY <1>5 DEF Coalesces, Quiet, Held
  <2>2. outbox[c] \in Held(c) /\ c <= made
    BY <1>5, HeldTypes DEF Coalesces, MadeInUse, Copies
  <2>3. \A o \in Op : o # c => Pending(o)' = Pending(o)
    BY <1>5 DEF Coalesces, Pending
  <2>4. Pending(c)' = Pending(c) \cup {x}
    BY <1>5 DEF Coalesces, Pending
  <2>5. made' = made /\ UNCHANGED <<receipts, late, acks>>
    BY <1>3, <1>5, <2>2 DEF Coalesces, Quiet
  <2>6. /\ \A o \in Op : o # c => Copies(o)' = Copies(o)
        /\ Copies(c)' = Copies(c) \cup {x}
    BY <2>1, <2>3, <2>4 DEF Copies
  <2>7. x.entity = Progress /\ x.dependsOn = outbox[c].dependsOn /\ outbox[c] \in Copies(c)
    BY <1>5, <2>2 DEF Coalesces, Carries, Copies
  <2>8. MadeInUse'
    BY <1>1, <2>2, <2>5, <2>6 DEF MadeInUse
  <2>9. OneEntity'
    BY <1>5, <2>6, <2>7 DEF OneEntity, Coalesces
  <2>10. EditsFresh'
    <3>1. ASSUME NEW u \in Tab, NEW o \in Op,
                 edit'[u] # None, edit'[u].op = o, edit'[u].record.entity # Progress
          PROVE  /\ Held(o)' = {} /\ acks'[o] = None
                 /\ \A w \in Tab : edit'[w] # None /\ edit'[w].op = o => w = u
      <4>1. u # t /\ edit'[u] = edit[u]
        BY <1>5, <2>7, <3>1 DEF Coalesces
      <4>2. /\ Held(o) = {} /\ acks[o] = None
            /\ \A w \in Tab : edit[w] # None /\ edit[w].op = o => w = u
        BY <3>1, <4>1 DEF EditsFresh
      <4>3. o # c
        BY <2>2, <4>2
      <4> QED
        BY <1>5, <2>1, <2>5, <4>1, <4>2, <4>3 DEF Coalesces
    <3> QED
      BY <3>1 DEF EditsFresh
  <2>11. DependsOnStored'
    <3>1. ASSUME NEW o \in Op, NEW z \in Copies(o)', z.dependsOn # None
          PROVE  /\ z.dependsOn <= made'
                 /\ Pending(z.dependsOn)' = {}
                 /\ \A y \in Held(z.dependsOn)' : y.entity # Progress
      <4>1. \E p \in Op : \E y \in Copies(p) : y.dependsOn = z.dependsOn
        BY <2>6, <2>7, <3>1
      <4> DEFINE d == z.dependsOn
      <4>2. d <= made /\ Pending(d) = {} /\ \A y \in Held(d) : y.entity # Progress
        BY <3>1, <4>1 DEF DependsOnStored
      <4>3. d \in Op /\ d # c
        BY <1>5, <2>2, <3>1, <4>1, <4>2, HeldTypes DEF Queued, Coalesces
      <4> QED
        BY <2>1, <2>3, <2>5, <4>2, <4>3
    <3> QED
      BY <3>1 DEF DependsOnStored
  <2> QED
    BY <2>8, <2>9, <2>10, <2>11
<1>6. ASSUME NEW t \in Tab, NEW x \in Queued, Begins(t, x)
      PROVE  CopiesInv'
  <2>0. PICK n \in Op : n = made + 1
    BY <1>6, NextId DEF Begins
  <2>1. made' = n /\ ~ n <= made
    BY <1>3, <1>6, <2>0 DEF Begins
  <2>2. Copies(n) = {} /\ acks[n] = None /\ receipts[n] = None
    BY <2>1 DEF MadeInUse
  <2>3. UNCHANGED <<receipts, late, acks>> /\ \A o \in Op : Held(o)' = Held(o)
    BY <1>6 DEF Begins, Quiet, Held
  <2>4. \A o \in Op : o # n => Pending(o)' = Pending(o)
    <3>1. edit[t] = None /\ edit'[t].op = n /\ \A u \in Tab \ {t} : edit'[u] = edit[u]
      BY <1>6, <2>0 DEF Begins
    <3>2. ASSUME NEW o \in Op, o # n
          PROVE  {u \in Tab : edit'[u] # None /\ edit'[u].op = o}
                   = {u \in Tab : edit[u] # None /\ edit[u].op = o}
      BY <3>1, <3>2
    <3>3. \A o \in Op : o # n => t \notin {u \in Tab : edit[u] # None /\ edit[u].op = o}
      BY <3>1
    <3> QED
      BY <3>1, <3>2, <3>3 DEF Pending
  <2>5. Pending(n)' = {x}
    <3>1. \A w \in Tab : edit[w] # None => edit[w].op # n
      BY <2>2, PendingEdit DEF Copies
    <3>2. edit'[t] # None /\ edit'[t].op = n /\ edit'[t].record = x
      BY <1>6, <2>0 DEF Begins
    <3>3. \A w \in Tab \ {t} : edit'[w] = edit[w]
      BY <1>6 DEF Begins
    <3>4. {w \in Tab : edit'[w] # None /\ edit'[w].op = n} = {t}
      BY <3>1, <3>2, <3>3
    <3> QED
      BY <3>2, <3>4 DEF Pending
  <2>6. /\ \A o \in Op : o # n => Copies(o)' = Copies(o)
        /\ Copies(n)' = {x}
    BY <2>2, <2>3, <2>4, <2>5 DEF Copies
  <2>7. made <= n /\ n <= n
    BY <1>3, <2>0
  <2>8. MadeInUse'
    <3>1. \A o \in Op : o # n /\ (Copies(o)' # {} \/ acks'[o] # None \/ receipts'[o] # None) => o <= made
      BY <2>3, <2>6 DEF MadeInUse
    <3>2. n \in Nat
      BY <1>3, <2>1
    <3>3. \A o \in Op : o <= made => o <= n
      BY <1>3, <2>7, <3>2
    <3>4. \A env \in late' : env.op \in Op => env.op <= n
      BY <1>1, <3>3
    <3> QED
      BY <2>1, <2>7, <3>1, <3>3, <3>4 DEF MadeInUse
  <2>9. OneEntity'
    BY <2>6 DEF OneEntity
  <2>10. EditsFresh'
    <3>1. ASSUME NEW u \in Tab, NEW o \in Op,
                 edit'[u] # None, edit'[u].op = o, edit'[u].record.entity # Progress
          PROVE  /\ Held(o)' = {} /\ acks'[o] = None
                 /\ \A w \in Tab : edit'[w] # None /\ edit'[w].op = o => w = u
      <4>1. \A w \in Tab : edit[w] # None => edit[w].op # n
        BY <2>2, PendingEdit DEF Copies
      <4>2. edit'[t].op = n /\ \A w \in Tab \ {t} : edit'[w] = edit[w]
        BY <1>6, <2>0 DEF Begins
      <4>3. CASE u = t
        <5>1. o = n /\ Held(n)' = {} /\ acks'[n] = None
          BY <2>2, <2>3, <3>1, <4>2, <4>3 DEF Copies
        <5> QED
          BY <4>1, <4>2, <4>3, <5>1
      <4>4. CASE u # t
        <5>1. /\ Held(o) = {} /\ acks[o] = None
              /\ \A w \in Tab : edit[w] # None /\ edit[w].op = o => w = u
          BY <3>1, <4>2, <4>4 DEF EditsFresh
        <5>2. o # n
          BY <3>1, <4>1, <4>2, <4>4
        <5> QED
          BY <2>3, <4>2, <4>4, <5>1, <5>2
      <4> QED
        BY <4>3, <4>4
    <3> QED
      BY <3>1 DEF EditsFresh
  <2>11. DependsOnStored'
    <3>1. ASSUME NEW o \in Op, NEW z \in Copies(o)', z.dependsOn # None
          PROVE  /\ z.dependsOn <= made'
                 /\ Pending(z.dependsOn)' = {}
                 /\ \A y \in Held(z.dependsOn)' : y.entity # Progress
      <4> DEFINE d == z.dependsOn
      <4>1. d \in Op /\ d <= made /\ Pending(d) = {} /\ \A y \in Held(d) : y.entity # Progress
        <5>1. CASE o = n
          <6>1. z = x
            BY <2>6, <5>1
          <6>2. d \in Op /\ outbox[d] # None /\ outbox[d].entity # Progress
            BY <1>6, <3>1, <6>1 DEF Begins
          <6> QED
            BY <6>2, QueuedNotPending
        <5>2. CASE o # n
          <6>1. z \in Copies(o)
            BY <2>6, <5>2
          <6>2. d \in Op
            BY <3>1, <6>1, HeldTypes DEF Queued
          <6> QED
            BY <3>1, <6>1, <6>2 DEF DependsOnStored
        <5> QED
          BY <5>1, <5>2
      <4>2. d # n
        BY <2>1, <4>1
      <4>3. d <= n
        <5>1. d \in Nat /\ n \in Nat /\ d <= made /\ n = made + 1 /\ made \in Nat
          BY <1>3, <2>0, <4>1
        <5> HIDE DEF d
        <5> QED
          BY <5>1
      <4> QED
        BY <2>1, <2>3, <2>4, <4>1, <4>2, <4>3
    <3> QED
      BY <3>1 DEF DependsOnStored
  <2> QED
    BY <2>8, <2>9, <2>10, <2>11
<1> QED
  BY <1>4, <1>5, <1>6, NextEdits

(* A run that does not go on stays, stops or starts with an empty list.     *)
LEMMA TabStep ==
  ASSUME TypeOK, [Next]_vars, NEW t \in Tab
  PROVE  \/ drain'[t] = drain[t] \/ Run(t) \/ drain'[t] = NoRun
         \/ /\ drain[t].pc = "idle" /\ drain'[t] = [NoRun EXCEPT !.pc = "listing"]
            /\ UNCHANGED <<outbox, acks, owed>>
<1>1. ASSUME NEW u \in Tab, Run(u)
      PROVE  drain'[t] = drain[t] \/ Run(t)
  BY <1>1, RunUnderLease DEF Still
<1>2. ASSUME NEW u \in Tab, DrainThrows(u) \/ CloseTab(u)
      PROVE  drain'[t] = drain[t] \/ drain'[t] = NoRun
  BY <1>2 DEF DrainThrows, CloseTab, Advance, TypeOK
<1>3. ASSUME NEW u \in Tab, StartDrain(u)
      PROVE  \/ drain'[t] = drain[t]
             \/ /\ drain[t].pc = "idle" /\ drain'[t] = [NoRun EXCEPT !.pc = "listing"]
                /\ UNCHANGED <<outbox, acks, owed>>
  BY <1>3 DEF StartDrain, Advance, TypeOK
<1>4. ASSUME NEW u \in Tab, Reader(u)
      PROVE  UNCHANGED drain
  BY <1>4 DEF Reader, SaveProgress, CommitEdit, CreateAnnotation, UpdateAnnotation, Queue,
              DiscardConflicts, CommitDiscard
<1>5. CASE \/ \E env \in late : HandleLate(env)
           \/ \E f \in Foreign : MoveElsewhere(f)
           \/ LeaseExpires \/ UNCHANGED vars
  BY <1>5 DEF HandleLate, MoveElsewhere, LeaseExpires, vars, tabs
<1> QED
  BY <1>1, <1>2, <1>3, <1>4, <1>5, SyncConstants DEF Next

(* A receipt of the device changes only to the answer of a run; one that    *)
(* says APPLIED stays.                                                      *)
LEMMA AppliedStays ==
  ASSUME Inv, [Next]_vars, NEW o \in Op
  PROVE  /\ IsApplied(o) => IsApplied(o)'
         /\ IsApplied(o)' => \/ IsApplied(o)
                             \/ \E t \in Tab : Acknowledge(t) /\ drain[t].cur = o
<1> USE DEF Inv
<1>1. CASE acks'[o] = acks[o]
  BY <1>1 DEF IsApplied
<1>2. CASE acks'[o] # acks[o]
  <2>1. PICK t \in Tab : /\ drain[t].cur = o /\ acks'[o] = drain[t].answer
                         /\ Acknowledge(t) \/ RecordConflict(t)
    BY <1>2, AcksChange
  <2>2. drain[t].answer # None
    BY <2>1, NotNone DEF Acknowledge, RecordConflict, RunsOK, RunOK, Told, Busy, PC
  <2>3. CASE Acknowledge(t)
    <3>1. drain[t].pc = "acking"
      BY <2>3 DEF Acknowledge
    <3>2. drain[t].answer.kind = "APPLIED"
      BY <3>1 DEF RunsOK, RunOK
    <3> QED
      BY <2>1, <2>2, <2>3, <3>2 DEF IsApplied
  <2>4. CASE RecordConflict(t)
    <3>1. drain[t].answer.kind = "CONFLICT" /\ receipts[o].result = drain[t].answer
      BY <2>1, <2>4 DEF RecordConflict, RunsOK, RunOK
    <3> QED
      BY <2>1, <3>1 DEF AcknowledgedOnServer, IsApplied
  <2> QED
    BY <2>1, <2>3, <2>4
<1> QED
  BY <1>1, <1>2

(* An operation leaves the queue when it is discarded or acknowledged.      *)
LEMMA RunRemoves ==
  ASSUME Inv, NEW t \in Tab, Run(t), NEW o \in Op, outbox[o] # None, outbox'[o] = None
  PROVE  Acknowledge(t) /\ drain[t].cur = o
<1>1. outbox \in OutboxType
  BY DEF Inv, TypeOK
<1>2. ASSUME drain[t].pc \in Busy, NEW r \in Queued, PutCopy(t, r)
      PROVE  FALSE
  BY <1>1, <1>2, NotNone DEF PutCopy, OutboxType
<1>3. CASE ListQueue(t) \/ (\E p \in Op : Skip(t, p)) \/ Answer(t) \/ CheckLease(t)
           \/ FindSuccessors(t) \/ ReadRecord(t) \/ MarkSynced(t) \/ RecordConflict(t) \/ Finish(t)
  <2>1. ASSUME NEW p \in Op, Skip(t, p) PROVE UNCHANGED outbox
    BY <2>1 DEF Skip, device
  <2>2. CASE ListQueue(t) \/ CheckLease(t) \/ FindSuccessors(t)
    BY <2>2 DEF ListQueue, CheckLease, FindSuccessors, device
  <2>3. CASE Reply(t)
    BY <2>3 DEF Reply, device
  <2>4. ASSUME NEW failure \in Failure, Fail(t, failure) PROVE UNCHANGED outbox
    BY <2>4 DEF Fail, device
  <2>5. CASE ReadRecord(t) \/ MarkSynced(t) \/ RecordConflict(t) \/ Finish(t)
    BY <2>5 DEF ReadRecord, MarkSynced, RecordConflict, Finish, device
  <2> QED
    BY <1>3, <2>1, <2>2, <2>3, <2>4, <2>5 DEF Answer
<1>4. ASSUME NEW p \in Op, Dispatch(t, p)
      PROVE  FALSE
  <2>1. drain[t].working[p] \in Queued
    BY <1>4 DEF Dispatch, IsHead, Left, Inv, TypeOK, RunType, OutboxType
  <2>2. [drain[t].working[p] EXCEPT !.state = "DISPATCHING"] # None
    BY <2>1, NotNone DEF Queued, DispatchState
  <2> QED
    BY <1>1, <1>4, <2>2 DEF Dispatch, OutboxType
<1>5. CASE HandleFailure(t)
  <2>1. drain[t].pc \in Busy
    BY <1>5 DEF HandleFailure, Busy, PC
  <2>2. /\ Retained(Copy(t)) \in Queued /\ Conflicted(Copy(t)) \in Queued
        /\ Rescheduled(Copy(t)) \in Queued
        /\ [Copy(t) EXCEPT !.state = "PENDING"] \in Queued
    BY <2>1, BusyRun, AttemptTypes DEF Inv, Queued, DispatchState
  <2> QED
    BY <1>2, <1>5, <2>1, <2>2 DEF HandleFailure
<1>6. CASE RestorePending(t) \/ RetainConflict(t) \/ RetainRefused(t)
  <2>1. drain[t].pc \in Busy
    BY <1>6 DEF RestorePending, RetainConflict, RetainRefused, Busy, PC
  <2>2. /\ Restored(Copy(t)) \in Queued /\ Conflicted(Copy(t)) \in Queued
        /\ Retained(Copy(t)) \in Queued
    BY <2>1, BusyRun, AttemptTypes DEF Inv
  <2> QED
    BY <1>2, <1>6, <2>1, <2>2 DEF RestorePending, RetainConflict, ConflictQueue, RetainRefused
<1>7. CASE Acknowledge(t)
  <2>1. drain[t].successors \in OutboxType
    BY DEF Inv, TypeOK, RunType
  <2>2. \A p \in Op \ {drain[t].cur} : outbox[p] # None => outbox'[p] # None
    BY <1>1, <1>7, <2>1, OverType DEF Acknowledge, OutboxType
  <2> QED
    BY <1>7, <2>2
<1> QED
  BY <1>3, <1>4, <1>5, <1>6, <1>7 DEF Run

LEMMA RunKeepsOwed ==
  ASSUME NEW t \in Tab, Run(t)
  PROVE  UNCHANGED owed
<1>1. ASSUME NEW o \in Op, Skip(t, o) \/ Dispatch(t, o) PROVE UNCHANGED owed
  BY <1>1 DEF Skip, Dispatch
<1>2. CASE ListQueue(t)
  BY <1>2 DEF ListQueue
<1>3. CASE Answer(t)
  <2>1. CASE Reply(t)
    BY <2>1 DEF Reply
  <2>2. ASSUME NEW failure \in Failure, Fail(t, failure) PROVE UNCHANGED owed
    BY <2>2 DEF Fail
  <2> QED
    BY <1>3, <2>1, <2>2 DEF Answer
<1>4. CASE HandleFailure(t) \/ CheckLease(t) \/ RestorePending(t)
  BY <1>4 DEF HandleFailure, CheckLease, RestorePending
<1>5. CASE FindSuccessors(t) \/ Acknowledge(t) \/ ReadRecord(t) \/ MarkSynced(t)
  BY <1>5 DEF FindSuccessors, Acknowledge, ReadRecord, MarkSynced
<1>6. CASE RecordConflict(t) \/ RetainConflict(t) \/ RetainRefused(t) \/ Finish(t)
  BY <1>6 DEF RecordConflict, RetainConflict, RetainRefused, Finish
<1> QED
  BY <1>1, <1>2, <1>3, <1>4, <1>5, <1>6 DEF Run

LEMMA OwedStep ==
  ASSUME Inv, OwedQueued, [Next]_vars
  PROVE  OwedQueued'
<1>1. owed \subseteq Op /\ outbox \in OutboxType
  BY DEF Inv, TypeOK
<1>2. CASE UNCHANGED <<outbox, owed>>
  BY <1>1, <1>2, AppliedStays DEF OwedQueued
<1>3. ASSUME NEW t \in Tab, CommitEdit(t)
      PROVE  OwedQueued'
  <2>1. edit[t].op \in Op /\ edit[t].record # None
    BY <1>3, NotNone DEF CommitEdit, Inv, TypeOK
  <2>2. outbox'[edit[t].op] # None /\ \A o \in Op : outbox[o] # None => outbox'[o] # None
    BY <1>1, <1>3, <2>1 DEF CommitEdit, OutboxType
  <2> QED
    BY <1>1, <1>3, <2>1, <2>2, AppliedStays DEF CommitEdit, OwedQueued
<1>4. ASSUME NEW t \in Tab, CommitDiscard(t)
      PROVE  OwedQueued'
  BY <1>1, <1>4, AppliedStays DEF CommitDiscard, OwedQueued
<1>5. ASSUME NEW t \in Tab, Reader(t)
      PROVE  OwedQueued'
  <2>1. UNCHANGED <<outbox, owed>> \/ CommitEdit(t) \/ CommitDiscard(t)
    BY <1>5 DEF Reader, SaveProgress, CreateAnnotation, UpdateAnnotation, Queue,
                DiscardConflicts, device
  <2> QED
    BY <1>2, <1>3, <1>4, <2>1
<1>6. ASSUME NEW t \in Tab, Run(t)
      PROVE  OwedQueued'
  <2>1. owed' = owed
    BY <1>6, RunKeepsOwed
  <2>2. ASSUME NEW o \in owed, outbox'[o] = None
        PROVE  IsApplied(o)'
    <3>1. CASE outbox[o] = None
      BY <1>1, <3>1, AppliedStays DEF OwedQueued
    <3>2. CASE outbox[o] # None
      <4>1. Acknowledge(t) /\ drain[t].cur = o
        BY <1>1, <1>6, <2>2, <3>2, RunRemoves
      <4>2. acks'[o] = drain[t].answer /\ drain[t].answer.kind = "APPLIED" /\ drain[t].answer \in AnyAnswer
        BY <1>1, <4>1 DEF Acknowledge, Inv, TypeOK, RunsOK, RunOK, Told, Busy, PC
      <4> QED
        BY <4>2, NotNone DEF IsApplied
    <3> QED
      BY <3>1, <3>2
  <2> QED
    BY <2>1, <2>2 DEF OwedQueued
<1>7. CASE \/ \E t \in Tab : StartDrain(t) \/ DrainThrows(t) \/ CloseTab(t)
           \/ \E env \in late : HandleLate(env)
           \/ \E f \in Foreign : MoveElsewhere(f)
           \/ LeaseExpires \/ UNCHANGED vars
  BY <1>2, <1>7 DEF StartDrain, DrainThrows, CloseTab, HandleLate, MoveElsewhere, LeaseExpires, vars, device
<1> QED
  BY <1>5, <1>6, <1>7, SyncConstants DEF Next

(* How a run goes on: it loses sight of nothing it has listed before it is  *)
(* acknowledged, unless it gives up its whole list.                         *)
Follows(run, next) ==
  /\ \A o \in Op : next.working[o] # None =>
       run.working[o] # None /\ next.working[o].dependsOn = run.working[o].dependsOn
  /\ \/ \A o \in Op : next.working[o] = None
     \/ \A o \in Op : o \in Left(run) \cup run.kept =>
          o \in Left(next) \cup next.kept \/ (run.pc = "marked" /\ o = run.cur)
  /\ next.pc \in {"marking", "marked"} => next.cur = run.cur /\ run.pc \in {"acking", "marking"}
  /\ next.pc = "idle" => next = NoRun

LEMMA SameFollows ==
  ASSUME NEW run, NEW next, next.working = run.working, next.kept = run.kept,
         \/ next.pc \notin {"idle", "marking", "marked"}
         \/ next.pc \in {"marking", "marked"} /\ next.cur = run.cur /\ run.pc \in {"acking", "marking"}
  PROVE  Follows(run, next)
<1>1. Left(next) = Left(run)
  BY DEF Left
<1>2. \A o \in Op : o \in Left(run) \cup run.kept => o \in Left(next) \cup next.kept
  BY <1>1
<1>3. \A o \in Op : next.working[o] # None =>
        run.working[o] # None /\ next.working[o].dependsOn = run.working[o].dependsOn
  OBVIOUS
<1>4. /\ next.pc \in {"marking", "marked"} => next.cur = run.cur /\ run.pc \in {"acking", "marking"}
      /\ next.pc # "idle"
  OBVIOUS
<1> QED
  BY ONLY <1>2, <1>3, <1>4 DEF Follows

LEMMA VisitedFollows ==
  ASSUME NEW run, NEW now, NEW next, now.working \in OutboxType, now.cur \in Op,
         now.working = run.working, now.kept = run.kept,
         next.working = Visited(now).working, next.kept = Visited(now).kept, next.pc = "next"
  PROVE  Follows(run, next)
<1>1. /\ Visited(now).working = [now.working EXCEPT ![now.cur] = None]
      /\ Visited(now).kept = now.kept \cup {now.cur}
  BY DEF Visited, Acked, NoRun
<1>2. \A o \in Op : next.working[o] = IF o = now.cur THEN None ELSE run.working[o]
  BY <1>1 DEF OutboxType
<1>3. \A o \in Op : o \in Left(run) => o \in Left(next) \/ o = now.cur
  BY <1>2 DEF Left
<1>4. \A o \in Op : o \in Left(run) \cup run.kept => o \in Left(next) \cup next.kept
  BY <1>1, <1>3
<1>5. \A o \in Op : next.working[o] # None =>
        run.working[o] # None /\ next.working[o].dependsOn = run.working[o].dependsOn
  BY <1>2
<1>6. next.pc \notin {"idle", "marking", "marked"}
  OBVIOUS
<1> QED
  BY ONLY <1>4, <1>5, <1>6 DEF Follows

LEMMA RunFollows ==
  ASSUME Inv, NEW t \in Tab, Run(t)
  PROVE  ListQueue(t) \/ Follows(drain[t], drain'[t])
<1> DEFINE Goal == Follows(drain[t], drain'[t])
<1>1. drain[t] \in RunType /\ drain[t].working \in OutboxType /\ drain \in [Tab -> RunType]
  BY DEF Inv, TypeOK, RunType
<1>2. ASSUME NEW next, Advance(t, next)
      PROVE  drain'[t] = next
  BY <1>1, <1>2 DEF Advance
<1>3. ASSUME NEW next, Advance(t, next), next.working = drain[t].working, next.kept = drain[t].kept,
             \/ next.pc \notin {"idle", "marking", "marked"}
             \/ next.pc \in {"marking", "marked"} /\ next.cur = drain[t].cur
                /\ drain[t].pc \in {"acking", "marking"}
      PROVE  Goal
  BY <1>2, <1>3, SameFollows
<1>4. ASSUME drain[t].pc \in Busy, NEW next, Advance(t, next),
             next.working = Visited(drain[t]).working, next.kept = Visited(drain[t]).kept,
             next.pc = "next"
      PROVE  Goal
  BY <1>1, <1>2, <1>4, BusyRun, VisitedFollows DEF Inv
<1>5. ASSUME drain[t].pc \in Busy, Advance(t, Visited(drain[t]))
      PROVE  Goal
  BY <1>4, <1>5, BusyRun DEF Inv
<1>6. ASSUME NEW o \in Op, Skip(t, o)
      PROVE  Goal
  <2> DEFINE now == [drain[t] EXCEPT !.cur = o]
  <2>1. now \in RunType /\ now.working = drain[t].working /\ now.kept = drain[t].kept /\ now.cur = o
    BY <1>1 DEF RunType
  <2>2. Advance(t, Visited(now))
    BY <1>6 DEF Skip
  <2> HIDE DEF now
  <2>3. Visited(now).pc = "next"
    BY <2>1, VisitedType
  <2> QED
    BY <1>1, <1>2, <2>1, <2>2, <2>3, VisitedFollows
<1>7. ASSUME NEW o \in Op, Dispatch(t, o)
      PROVE  Goal
  <2> DEFINE next == [drain[t] EXCEPT !.pc = "waiting", !.cur = o]
  <2>1. Advance(t, next) /\ next.working = drain[t].working /\ next.kept = drain[t].kept /\ next.pc = "waiting"
    BY <1>1, <1>7 DEF Dispatch, RunType
  <2> HIDE DEF next
  <2> QED
    BY <1>3, <2>1
<1>8. CASE Answer(t)
  <2>1. CASE Reply(t)
    <3>1. PICK result \in Results :
            Advance(t, [drain[t] EXCEPT !.pc = "answered", !.answer = result])
      BY <2>1, Zenon DEF Reply
    <3> DEFINE next == [drain[t] EXCEPT !.pc = "answered", !.answer = result]
    <3>2. Advance(t, next) /\ next.working = drain[t].working /\ next.kept = drain[t].kept /\ next.pc = "answered"
      BY <1>1, <3>1 DEF RunType
    <3> HIDE DEF next
    <3> QED
      BY <1>3, <3>2
  <2>2. ASSUME NEW failure \in Failure, Fail(t, failure)
        PROVE  Goal
    <3> DEFINE next == [drain[t] EXCEPT !.pc = "failed", !.answer = [kind |-> failure, revision |-> 0]]
    <3>1. Advance(t, next)
      BY <2>2 DEF Fail
    <3>2. next.working = drain[t].working /\ next.kept = drain[t].kept /\ next.pc = "failed"
      BY <1>1 DEF RunType
    <3> HIDE DEF next
    <3> QED
      BY <1>3, <3>1, <3>2
  <2> QED
    BY <1>8, <2>1, <2>2 DEF Answer
<1>9. CASE HandleFailure(t)
  <2>1. drain[t].pc \in Busy
    BY <1>9 DEF HandleFailure, Busy, PC
  <2> DEFINE run == Visited(drain[t])
  <2> DEFINE ended == [run EXCEPT !.working = NoRun.working]
  <2> DEFINE paused == [run EXCEPT !.paused = @ \cup {Copy(t).entity}]
  <2>2. run \in RunType /\ run.pc = "next"
    BY <2>1, BusyRun DEF Inv
  <2>3. /\ ended.working = NoRun.working /\ ended.pc = "next"
        /\ paused.working = run.working /\ paused.kept = run.kept /\ paused.pc = "next"
    BY <2>2 DEF RunType
  <2>4. Advance(t, run) \/ Advance(t, ended) \/ Advance(t, paused)
    BY <1>9 DEF HandleFailure
  <2> HIDE DEF run, ended, paused
  <2>5. CASE Advance(t, ended)
    BY <1>2, <2>3, <2>5 DEF Follows, NoRun
  <2> QED
    BY <1>4, <1>5, <2>1, <2>2, <2>3, <2>4, <2>5 DEF run
<1>10. CASE CheckLease(t)
  <2> DEFINE next == [drain[t] EXCEPT !.pc =
                        IF lease = [holder |-> t, active |-> TRUE] THEN "reconciling" ELSE "restoring"]
  <2>1. Advance(t, next)
    BY <1>10 DEF CheckLease
  <2>2. next.working = drain[t].working /\ next.kept = drain[t].kept /\ next.pc \in {"reconciling", "restoring"}
    BY <1>1 DEF RunType
  <2> HIDE DEF next
  <2> QED
    BY <1>3, <2>1, <2>2
<1>11. CASE RestorePending(t) \/ RetainRefused(t)
  <2>1. drain[t].pc \in Busy /\ Advance(t, Visited(drain[t]))
    BY <1>11 DEF RestorePending, RetainRefused, Busy, PC
  <2> QED
    BY <1>5, <2>1
<1>12. CASE RetainConflict(t)
  <2>1. drain[t].pc \in Busy
    BY <1>12 DEF RetainConflict, Busy, PC
  <2> DEFINE run == Visited(drain[t])
  <2> DEFINE paused == [run EXCEPT !.paused = @ \cup {Copy(t).entity}]
  <2>2. run \in RunType /\ run.pc = "next"
    BY <2>1, BusyRun DEF Inv
  <2>3. paused.working = run.working /\ paused.kept = run.kept /\ paused.pc = "next"
    BY <2>2 DEF RunType
  <2>4. Advance(t, paused)
    BY <1>12 DEF RetainConflict
  <2> HIDE DEF run, paused
  <2> QED
    BY <1>4, <2>1, <2>3, <2>4 DEF run
<1>13. CASE FindSuccessors(t)
  <2> DEFINE next == [drain[t] EXCEPT !.pc = "acking",
                        !.successors = Rebased(outbox, drain[t].cur, drain[t].answer.revision)]
  <2>1. Advance(t, next)
    BY <1>13 DEF FindSuccessors
  <2>2. next.working = drain[t].working /\ next.kept = drain[t].kept /\ next.pc = "acking"
    BY <1>1 DEF RunType
  <2> HIDE DEF next
  <2> QED
    BY <1>3, <2>1, <2>2
<1>14. CASE Acknowledge(t)
  <2> DEFINE next == [drain[t] EXCEPT !.pc = "marking", !.successors = NoRun.successors]
  <2>1. Advance(t, next) /\ drain[t].pc = "acking"
    BY <1>14 DEF Acknowledge
  <2>2. next.working = drain[t].working /\ next.kept = drain[t].kept /\ next.pc = "marking"
        /\ next.cur = drain[t].cur
    BY <1>1 DEF RunType
  <2> HIDE DEF next
  <2> QED
    BY <1>3, <2>1, <2>2
<1>15. CASE ReadRecord(t)
  <2> DEFINE next == [drain[t] EXCEPT !.pc = "marked", !.record = records[Copy(t).entity]]
  <2>1. Advance(t, next) /\ drain[t].pc = "marking"
    BY <1>15 DEF ReadRecord
  <2>2. next.working = drain[t].working /\ next.kept = drain[t].kept /\ next.pc = "marked"
        /\ next.cur = drain[t].cur
    BY <1>1 DEF RunType
  <2> HIDE DEF next
  <2> QED
    BY <1>3, <2>1, <2>2
<1>16. CASE MarkSynced(t)
  <2> DEFINE rebased == Rebased(drain[t].working, drain[t].cur, drain[t].answer.revision)
  <2> DEFINE run == [drain[t] EXCEPT !.working = Over(rebased, drain[t].working)]
  <2>1. drain[t].cur \in Op /\ drain[t].answer \in AnyAnswer /\ drain[t].pc = "marked"
    BY <1>16, BusyRun DEF MarkSynced, Busy, PC, Inv, RunsOK, RunOK, Told
  <2>2. rebased \in OutboxType
    BY <1>1, <2>1, RebasedType DEF AnyAnswer
  <2>3. \A p \in Op : rebased[p] # None =>
          drain[t].working[p] # None /\ rebased[p].dependsOn = drain[t].working[p].dependsOn
    BY <1>1, <2>1, RebasedCarry DEF Carries
  <2>4. Advance(t, Acked(run))
    BY <1>1, <1>16 DEF MarkSynced, RunType
  <2>5. run.working = Over(rebased, drain[t].working) /\ run.cur = drain[t].cur /\ run.kept = drain[t].kept
    BY <1>1 DEF RunType
  <2> HIDE DEF run, rebased
  <2>6. run.working \in OutboxType
    BY <1>1, <2>2, <2>5, OverType
  <2>7. /\ Acked(run).working = [run.working EXCEPT ![drain[t].cur] = None]
        /\ Acked(run).kept = drain[t].kept /\ Acked(run).pc = "next"
    BY <2>5 DEF Acked, NoRun
  <2>8. \A p \in Op : Acked(run).working[p] =
          IF p = drain[t].cur THEN None
          ELSE IF rebased[p] # None THEN rebased[p] ELSE drain[t].working[p]
    BY <2>5, <2>6, <2>7 DEF Over, OutboxType
  <2>9. \A p \in Op : p # drain[t].cur =>
          (Acked(run).working[p] # None <=> drain[t].working[p] # None)
    BY <2>3, <2>8
  <2>10. \A p \in Op : Acked(run).working[p] # None =>
           drain[t].working[p] # None /\ Acked(run).working[p].dependsOn = drain[t].working[p].dependsOn
    BY <2>3, <2>8
  <2>11. Follows(drain[t], Acked(run))
    <3>1. \A p \in Op : p \in Left(drain[t]) => p \in Left(Acked(run)) \/ p = drain[t].cur
      BY <2>9 DEF Left
    <3>2. \A p \in Op : p \in Left(drain[t]) \cup drain[t].kept =>
            p \in Left(Acked(run)) \cup Acked(run).kept \/ (drain[t].pc = "marked" /\ p = drain[t].cur)
      <4>1. drain[t].pc = "marked" /\ Acked(run).kept = drain[t].kept
        BY <2>1, <2>7
      <4> QED
        BY ONLY <3>1, <4>1
    <3>3. Acked(run).pc = "next"
      BY <2>7
    <3> QED
      BY ONLY <2>10, <3>2, <3>3 DEF Follows
  <2> QED
    BY <1>2, <2>4, <2>11
<1>17. CASE RecordConflict(t)
  <2> DEFINE next == [drain[t] EXCEPT !.pc = "conflicted"]
  <2>1. Advance(t, next)
    BY <1>17 DEF RecordConflict
  <2>2. next.working = drain[t].working /\ next.kept = drain[t].kept /\ next.pc = "conflicted"
    BY <1>1 DEF RunType
  <2> HIDE DEF next
  <2> QED
    BY <1>3, <2>1, <2>2
<1>18. CASE Finish(t)
  <2>1. drain'[t] = NoRun
    BY <1>2, <1>18 DEF Finish
  <2> QED
    BY <2>1 DEF Follows, NoRun
<1> QED
  BY <1>6, <1>7, <1>8, <1>9, <1>10, <1>11, <1>12, <1>13, <1>14, <1>15, <1>16, <1>17, <1>18 DEF Run

LEMMA IdleStep ==
  ASSUME Inv, IdleEmpty, [Next]_vars
  PROVE  IdleEmpty'
<1> SUFFICES ASSUME NEW t \in Tab, drain'[t].pc = "idle" PROVE drain'[t] = NoRun
  BY DEF IdleEmpty
<1>1. CASE Run(t)
  <2>1. CASE ListQueue(t)
    <3>1. drain'[t].pc = "next"
      BY <2>1 DEF ListQueue, Advance, Inv, TypeOK, RunType
    <3> QED
      BY <3>1
  <2> QED
    BY <1>1, <2>1, RunFollows DEF Follows
<1>2. CASE drain'[t] = drain[t]
  BY <1>2 DEF IdleEmpty
<1>3. CASE drain'[t] = [NoRun EXCEPT !.pc = "listing"]
  BY <1>3 DEF NoRun
<1> QED
  BY <1>1, <1>2, <1>3, TabStep DEF Inv

(* Nothing becomes owed that a run's copy depends on.                       *)
LEMMA OwedBefore ==
  ASSUME Inv, CopiesInv, [Next]_vars, NEW t \in Tab, NEW o \in Op,
         drain[t].working[o] # None, drain[t].working[o].dependsOn \in owed'
  PROVE  drain[t].working[o].dependsOn \in owed
<1> DEFINE d == drain[t].working[o].dependsOn
<1>1. owed \subseteq Op
  BY DEF Inv, TypeOK
<1>2. drain[t].working[o] \in Copies(o) /\ drain[t].working[o] \in Queued
  BY HeldTypes DEF Inv, Copies
<1>3. ASSUME NEW u \in Tab, Reader(u), d \notin owed
      PROVE  FALSE
  <2>1. CommitEdit(u)
    BY <1>3 DEF Reader, SaveProgress, CreateAnnotation, UpdateAnnotation, Queue,
                DiscardConflicts, CommitDiscard
  <2>2. edit[u] # None /\ edit[u].op = d /\ edit[u].op \in Op
    BY <1>3, <2>1 DEF CommitEdit, Inv, TypeOK
  <2>3. Pending(d) # {}
    BY <2>2, PendingEdit
  <2>4. d # None
    BY <2>2, NotNone
  <2> QED
    BY <1>2, <2>3, <2>4 DEF CopiesInv, DependsOnStored
<1>4. CASE \/ \E u \in Tab : StartDrain(u) \/ DrainThrows(u) \/ CloseTab(u)
           \/ \E env \in late : HandleLate(env)
           \/ \E f \in Foreign : MoveElsewhere(f)
           \/ LeaseExpires \/ UNCHANGED vars
  BY <1>4 DEF StartDrain, DrainThrows, CloseTab, HandleLate, MoveElsewhere, LeaseExpires, vars
<1>5. ASSUME NEW u \in Tab, Run(u)
      PROVE  UNCHANGED owed
  BY <1>5, RunKeepsOwed
<1> QED
  BY <1>3, <1>4, <1>5, SyncConstants DEF Next

LEMMA WaitStep ==
  ASSUME Inv, CopiesInv, OwedQueued, RunsWait, [Next]_vars
  PROVE  RunsWait'
<1>1. owed \subseteq Op
  BY DEF Inv, TypeOK
<1>2. ASSUME NEW t \in Tab, drain'[t].pc \in {"marking", "marked"}, NEW c, drain'[t].cur = c
      PROVE  IsApplied(c)'
  <2>1. CASE drain'[t] = drain[t]
    <3>1. c \in Op
      BY <1>2, <2>1, BusyRun DEF Inv, Busy, PC
    <3>2. IsApplied(c)
      BY <1>2, <2>1 DEF RunsWait
    <3> QED
      BY <3>1, <3>2, AppliedStays
  <2>2. CASE Run(t)
    <3>1. ~ ListQueue(t)
      <4> SUFFICES ASSUME ListQueue(t) PROVE FALSE
        OBVIOUS
      <4> DEFINE run == [drain[t] EXCEPT !.pc = "next", !.working = outbox]
      <4>1. drain[t] \in RunType /\ drain \in [Tab -> RunType]
        BY DEF Inv, TypeOK
      <4>2. run.pc = "next" /\ Advance(t, run)
        BY <4>1 DEF ListQueue, RunType
      <4> HIDE DEF run
      <4> QED
        BY <1>2, <4>1, <4>2 DEF Advance
    <3>2. c = drain[t].cur /\ drain[t].pc \in {"acking", "marking"}
      BY <1>2, <2>2, <3>1, RunFollows DEF Follows
    <3>3. c \in Op
      BY <3>2, BusyRun DEF Inv, Busy, PC
    <3>4. CASE drain[t].pc = "marking"
      <4>1. IsApplied(c)
        BY <3>2, <3>4 DEF RunsWait
      <4> QED
        BY <3>3, <4>1, AppliedStays
    <3>5. CASE drain[t].pc = "acking"
      <4>1. Acknowledge(t)
        BY <2>2, <3>5 DEF Run, ListQueue, Skip, Dispatch, IsHead, Answer, Reply, Fail, HandleFailure,
           CheckLease, RestorePending, FindSuccessors, ReadRecord, MarkSynced, RecordConflict,
           RetainConflict, RetainRefused, Finish
      <4>2. acks'[c] = drain[t].answer
        BY <3>2, <3>3, <4>1 DEF Acknowledge, Inv, TypeOK
      <4>3. drain[t].answer.kind = "APPLIED" /\ drain[t].answer # None
        BY <3>5, NotNone DEF Inv, RunsOK, RunOK, Told, Busy, PC
      <4> QED
        BY <3>2, <4>2, <4>3 DEF IsApplied
    <3> QED
      BY <3>2, <3>4, <3>5
  <2>3. CASE drain'[t] = NoRun \/ drain'[t] = [NoRun EXCEPT !.pc = "listing"]
    BY <1>2, <2>3 DEF NoRun
  <2> QED
    BY <2>1, <2>2, <2>3, TabStep DEF Inv
<1>3. ASSUME NEW t \in Tab, NEW o \in Op, drain'[t].working[o] # None,
             NEW d \in owed', drain'[t].working[o].dependsOn = d
      PROVE  d \in Left(drain'[t]) \cup drain'[t].kept \/ IsApplied(d)'
  <2>1. ASSUME drain[t].working[o] # None, drain[t].working[o].dependsOn = d
        PROVE  d \in Op /\ (d \in Left(drain[t]) \cup drain[t].kept \/ IsApplied(d))
    BY <1>1, <2>1, OwedBefore DEF RunsWait
  <2>2. CASE drain'[t] = drain[t]
    BY <1>3, <2>1, <2>2, AppliedStays
  <2>3. CASE ListQueue(t)
    <3>1. drain'[t].working = outbox /\ owed' = owed
      BY <2>3 DEF ListQueue, Advance, Inv, TypeOK, RunType
    <3>2. d \in Op /\ (outbox[d] # None \/ IsApplied(d))
      BY <1>1, <3>1 DEF OwedQueued
    <3> QED
      BY <3>1, <3>2, AppliedStays DEF Left
  <2>4. CASE Follows(drain[t], drain'[t])
    <3>1. d \in Op /\ (d \in Left(drain[t]) \cup drain[t].kept \/ IsApplied(d))
      BY <1>3, <2>1, <2>4 DEF Follows
    <3>2. CASE IsApplied(d)
      BY <3>1, <3>2, AppliedStays
    <3>3. CASE d \in Left(drain[t]) \cup drain[t].kept
      <4>1. \/ d \in Left(drain'[t]) \cup drain'[t].kept
            \/ drain[t].pc = "marked" /\ d = drain[t].cur
        BY <1>3, <2>4, <3>1, <3>3 DEF Follows
      <4>2. drain[t].pc = "marked" => IsApplied(drain[t].cur)
        BY DEF RunsWait
      <4> QED
        BY <3>1, <4>1, <4>2, AppliedStays
    <3> QED
      BY <3>1, <3>2, <3>3
  <2>5. CASE drain'[t] = NoRun \/ drain'[t] = [NoRun EXCEPT !.pc = "listing"]
    BY <1>3, <2>5 DEF NoRun
  <2> QED
    BY <2>2, <2>3, <2>4, <2>5, TabStep, RunFollows DEF Inv
<1>4. ASSUME NEW t \in Tab, NEW o \in Op, drain'[t].working[o] # None,
             drain'[t].working[o].dependsOn \in owed'
      PROVE  \/ drain'[t].working[o].dependsOn \in Left(drain'[t]) \cup drain'[t].kept
             \/ acks'[drain'[t].working[o].dependsOn] # None
                /\ acks'[drain'[t].working[o].dependsOn].kind = "APPLIED"
  <2>1. PICK d \in owed' : drain'[t].working[o].dependsOn = d
    BY <1>4
  <2>2. d \in Left(drain'[t]) \cup drain'[t].kept \/ IsApplied(d)'
    BY <1>3, <1>4, <2>1
  <2> QED
    BY <2>1, <2>2 DEF IsApplied
<1>5. ASSUME NEW t \in Tab, drain'[t].pc \in {"marking", "marked"}
      PROVE  acks'[drain'[t].cur] # None /\ acks'[drain'[t].cur].kind = "APPLIED"
  <2>1. PICK c : drain'[t].cur = c
    OBVIOUS
  <2>2. IsApplied(c)'
    BY <1>2, <1>5, <2>1
  <2> QED
    BY <2>1, <2>2 DEF IsApplied
<1> QED
  BY <1>4, <1>5 DEF RunsWait, IsApplied

(* A run that has no other run beside it.                                   *)
LEMMA Alone ==
  ASSUME LeaseHeld, IdleEmpty, expiries = 0, NEW t \in Tab, drain[t].pc # "idle"
  PROVE  \A u \in Tab \ {t} : drain[u] = NoRun
BY DEF LeaseHeld, IdleEmpty

LEMMA StaleStep ==
  ASSUME Inv, CopiesInv, IdleEmpty, NoStaleCopy, AckedStaysGone, [Next]_vars
  PROVE  NoStaleCopy' /\ AckedStaysGone'
<1>1. expiries' = 0 => expiries = 0
  <2>1. ASSUME NEW t \in Tab, Run(t) PROVE UNCHANGED expiries
    BY <2>1, RunUnderLease DEF Inv
  <2>2. CASE LeaseExpires
    BY <2>2 DEF LeaseExpires, Inv, TypeOK
  <2>3. ASSUME NEW t \in Tab, Reader(t) PROVE UNCHANGED expiries
    BY <2>3 DEF Reader, SaveProgress, CommitEdit, CreateAnnotation, UpdateAnnotation, Queue,
                DiscardConflicts, CommitDiscard, counts
  <2>4. CASE \/ \E t \in Tab : StartDrain(t) \/ DrainThrows(t) \/ CloseTab(t)
             \/ \E env \in late : HandleLate(env)
             \/ \E f \in Foreign : MoveElsewhere(f)
             \/ UNCHANGED vars
    BY <2>4 DEF StartDrain, DrainThrows, CloseTab, HandleLate, MoveElsewhere, vars, counts
  <2> QED
    BY <2>1, <2>2, <2>3, <2>4, SyncConstants DEF Next
<1> DEFINE Gone(o) ==
      /\ \A t \in Tab :
           /\ drain'[t].working[o] # None /\ drain'[t].working[o].entity # Progress =>
                drain'[t].pc \in {"marking", "marked"} /\ drain'[t].cur = o
           /\ drain'[t].successors[o] # None => drain'[t].successors[o].entity = Progress
      /\ outbox'[o] # None => outbox'[o].entity = Progress
<1> SUFFICES ASSUME expiries = 0, NEW o \in Op, IsApplied(o)' PROVE Gone(o)
  BY <1>1 DEF NoStaleCopy, AckedStaysGone, IsApplied
<1>2. /\ outbox'[o] # None => outbox'[o] \in Held(o)'
      /\ \A t \in Tab : /\ drain'[t].working[o] # None => drain'[t].working[o] \in Held(o)'
                        /\ drain'[t].successors[o] # None => drain'[t].successors[o] \in Held(o)'
  BY DEF Held
<1>3. ASSUME IsApplied(o), \A y \in Held(o) : y.entity = Progress
      PROVE  Gone(o)
  <2>1. ASSUME NEW x \in Held(o)' PROVE x.entity = Progress
    <3>1. CASE \E y \in Held(o) : Carries(y, x)
      BY <1>3, <3>1 DEF Carries
    <3>2. CASE \E t \in Tab : edit[t] # None /\ edit[t].op = o /\ edit[t].record = x
      BY <1>3, <3>2 DEF CopiesInv, EditsFresh, IsApplied
    <3> QED
      BY <3>1, <3>2, NextHeld DEF Inv
  <2> QED
    BY <1>2, <2>1
<1>4. ASSUME IsApplied(o), NEW y \in Held(o), y.entity # Progress
      PROVE  Gone(o)
  <2>1. PICK t \in Tab : /\ drain[t].working[o] # None /\ drain[t].working[o].entity # Progress
                         /\ drain[t].pc \in {"marking", "marked"} /\ drain[t].cur = o
    BY <1>4 DEF Held, NoStaleCopy, AckedStaysGone, IsApplied
  <2>2. \A u \in Tab \ {t} : drain[u] = NoRun
    BY <2>1, Alone DEF Inv
  <2>3. outbox[o] # None => outbox[o].entity = Progress
    BY <1>4 DEF AckedStaysGone, IsApplied
  <2>4. drain[t].successors[o] # None => drain[t].successors[o].entity = Progress
    BY <1>4 DEF NoStaleCopy
  <2>5. ASSUME NEW u \in Tab \ {t} PROVE drain'[u].working[o] = None /\ drain'[u].successors[o] = None
    <3>1. ~ Run(u)
      BY <2>2, RunUnderLease, NoRunType DEF Inv
    <3> QED
      BY <2>2, <2>5, <3>1, TabStep DEF Inv, NoRun
  <2>6. \/ outbox'[o] = outbox[o] \/ outbox'[o] = None
        \/ \E u \in Tab : edit[u] # None /\ edit[u].op = o /\ outbox'[o] = edit[u].record
    <3>1. ASSUME NEW u \in Tab, Run(u) PROVE UNCHANGED outbox
      <4>1. u = t
        BY <2>2, <3>1, RunUnderLease, NoRunType DEF Inv
      <4>2. ReadRecord(t) \/ MarkSynced(t)
        BY <2>1, <3>1, <4>1 DEF Run, ListQueue, Skip, Dispatch, IsHead, Answer, Reply, Fail, HandleFailure,
           CheckLease, RestorePending, FindSuccessors, Acknowledge, RecordConflict,
           RetainConflict, RetainRefused, Finish
      <4> QED
        BY <4>2 DEF ReadRecord, MarkSynced, device
    <3>2. ASSUME NEW u \in Tab, Reader(u)
          PROVE  \/ outbox'[o] = outbox[o] \/ outbox'[o] = None
                 \/ edit[u] # None /\ edit[u].op = o /\ outbox'[o] = edit[u].record
      <4>1. UNCHANGED outbox \/ CommitEdit(u) \/ CommitDiscard(u)
        BY <3>2 DEF Reader, SaveProgress, CreateAnnotation, UpdateAnnotation, Queue,
                    DiscardConflicts, device
      <4>2. CASE CommitEdit(u)
        BY <4>2 DEF CommitEdit, Inv, TypeOK, OutboxType
      <4>3. CASE CommitDiscard(u)
        BY <4>3 DEF CommitDiscard
      <4> QED
        BY <4>1, <4>2, <4>3
    <3>3. CASE \/ \E u \in Tab : StartDrain(u) \/ DrainThrows(u) \/ CloseTab(u)
               \/ \E env \in late : HandleLate(env)
               \/ \E f \in Foreign : MoveElsewhere(f)
               \/ LeaseExpires \/ UNCHANGED vars
      BY <3>3 DEF StartDrain, DrainThrows, CloseTab, HandleLate, MoveElsewhere, LeaseExpires, vars, device
    <3> QED
      BY <3>1, <3>2, <3>3, SyncConstants DEF Next
  <2>7. outbox'[o] # None => outbox'[o].entity = Progress
    BY <1>4, <2>3, <2>6 DEF CopiesInv, EditsFresh, IsApplied
  <2>8. /\ drain'[t].working[o] # None /\ drain'[t].working[o].entity # Progress =>
             drain'[t].pc \in {"marking", "marked"} /\ drain'[t].cur = o
        /\ drain'[t].successors[o] # None => drain'[t].successors[o].entity = Progress
    <3>1. CASE ReadRecord(t)
      <4>1. /\ drain'[t].pc = "marked" /\ drain'[t].cur = o
            /\ drain'[t].successors = drain[t].successors
        BY <2>1, <3>1 DEF ReadRecord, Advance, Inv, TypeOK, RunType
      <4> QED
        BY <2>4, <4>1
    <3>2. CASE MarkSynced(t)
      <4>1. PICK run : Advance(t, Acked(run)) /\ run.cur = o /\ run.working \in OutboxType
        <5> DEFINE rebased == Rebased(drain[t].working, drain[t].cur, drain[t].answer.revision)
        <5> DEFINE run == [drain[t] EXCEPT !.working = Over(rebased, drain[t].working)]
        <5>1. drain[t] \in RunType /\ drain[t].answer \in AnyAnswer /\ drain[t].working \in OutboxType
          BY <2>1 DEF Inv, TypeOK, RunType, RunsOK, RunOK, Told, Busy, PC
        <5>2. rebased \in OutboxType
          BY <2>1, <5>1, RebasedType DEF AnyAnswer
        <5>3. Advance(t, Acked(run))
          BY <3>2, <5>1 DEF MarkSynced, RunType
        <5>4. run.working = Over(rebased, drain[t].working) /\ run.cur = o
          BY <2>1, <5>1 DEF RunType
        <5> HIDE DEF rebased, run
        <5>5. run.working \in OutboxType
          BY <5>1, <5>2, <5>4, OverType
        <5> QED
          BY <5>3, <5>4, <5>5
      <4>2. drain'[t] = Acked(run)
        BY <4>1 DEF Advance, Inv, TypeOK
      <4>3. Acked(run).working[o] = None /\ Acked(run).successors[o] = None
        BY <4>1 DEF Acked, NoRun, OutboxType
      <4> QED
        BY <4>2, <4>3
    <3>3. CASE drain'[t] = drain[t]
      BY <2>1, <2>4, <3>3
    <3>4. CASE drain'[t] = NoRun \/ drain'[t] = [NoRun EXCEPT !.pc = "listing"]
      BY <3>4 DEF NoRun
    <3>5. CASE Run(t)
      BY <2>1, <3>1, <3>2, <3>5 DEF Run, ListQueue, Skip, Dispatch, IsHead, Answer, Reply, Fail, HandleFailure,
         CheckLease, RestorePending, FindSuccessors, Acknowledge, RecordConflict,
         RetainConflict, RetainRefused, Finish
    <3> QED
      BY <3>3, <3>4, <3>5, TabStep DEF Inv
  <2> QED
    BY <2>5, <2>7, <2>8
<1>5. ASSUME NEW t \in Tab, Acknowledge(t), drain[t].cur = o
      PROVE  Gone(o)
  <2>1. drain[t].pc = "acking"
    BY <1>5 DEF Acknowledge
  <2>2. \A u \in Tab \ {t} : drain'[u] = NoRun
    <3>1. \A u \in Tab \ {t} : drain[u] = NoRun
      BY <2>1, Alone DEF Inv
    <3> QED
      BY <1>5, <3>1 DEF Acknowledge, Advance, Inv, TypeOK
  <2>3. outbox'[o] = None
    BY <1>5 DEF Acknowledge, Over
  <2>4. drain'[t].pc = "marking" /\ drain'[t].cur = o /\ drain'[t].successors = NoRun.successors
    BY <1>5 DEF Acknowledge, Advance, Inv, TypeOK, RunType
  <2> QED
    BY <2>2, <2>3, <2>4 DEF NoRun
<1> QED
  BY <1>3, <1>4, <1>5, AppliedStays

LEMMA InitQueue == Init => QueueInv
<1> SUFFICES ASSUME Init PROVE QueueInv
  OBVIOUS
<1>1. \A o \in Op : Copies(o) = {}
  BY DEF Init, Copies, Held, Pending, NoRun
<1>2. CopiesInv
  BY <1>1 DEF Init, CopiesInv, MadeInUse, OneEntity, EditsFresh, DependsOnStored
<1>3. OwedQueued /\ RunsWait /\ IdleEmpty /\ NoStaleCopy /\ AckedStaysGone
  BY DEF Init, OwedQueued, RunsWait, IdleEmpty, NoStaleCopy, AckedStaysGone, NoRun, IsApplied
<1> QED
  BY <1>2, <1>3 DEF QueueInv

LEMMA QueueStep == Inv /\ QueueInv /\ [Next]_vars => QueueInv'
  BY CopiesStep, OwedStep, WaitStep, IdleStep, StaleStep DEF QueueInv, Inv

(* What each tab has read of the queue, against what the queue and the      *)
(* receipts say: no step needs more than this and Inv.                      *)
THEOREM QueueInvariance == Spec => [](Inv /\ QueueInv)
  BY InitInv, StepInv, InitQueue, QueueStep, PTL DEF Spec

(* While no lease runs out under its holder, nothing a run or a pending     *)
(* edit still holds brings an acknowledged annotation operation back        *)
(* (acknowledgeOperation, and every put of a coordinator's working copy).   *)
THEOREM AckedGone == Spec => []AckedStaysGone
<1>1. QueueInv => AckedStaysGone
  BY DEF QueueInv
<1> QED
  BY <1>1, QueueInvariance, PTL

LEMMA DispatchWaits ==
  ASSUME Inv, RunsWait, [Next]_vars, NEW t \in Tab, drain[t].pc = "next", drain'[t].pc = "waiting"
  PROVE  LET d == drain[t].working[drain'[t].cur].dependsOn
         IN  d \in owed => acks[d] # None /\ acks[d].kind = "APPLIED"
<1>1. Run(t)
  <2>1. NoRun.pc # "waiting" /\ [NoRun EXCEPT !.pc = "listing"].pc # "waiting"
    BY DEF NoRun
  <2> QED
    BY <2>1, TabStep DEF Inv
<1>2. \E o \in Op : Dispatch(t, o)
  <2>1. ASSUME NEW o \in Op, Skip(t, o) PROVE drain'[t].pc = "next"
    <3> DEFINE now == [drain[t] EXCEPT !.cur = o]
    <3>0. drain[t] \in RunType
      BY DEF Inv, TypeOK
    <3>1. now \in RunType /\ now.cur = o
      BY <3>0 DEF RunType
    <3>2. Advance(t, Visited(now))
      BY <2>1 DEF Skip
    <3> HIDE DEF now
    <3> QED
      BY <3>1, <3>2, VisitedType DEF Advance, Inv, TypeOK
  <2>2. ~ Finish(t)
    BY NoRunType DEF Finish, Advance, Inv, TypeOK
  <2> QED
    BY <1>1, <2>1, <2>2 DEF Run, ListQueue, Answer, Reply, Fail, HandleFailure,
         CheckLease, RestorePending, FindSuccessors, Acknowledge, ReadRecord, MarkSynced, RecordConflict,
         RetainConflict, RetainRefused
<1>3. PICK o \in Op : Dispatch(t, o)
  BY <1>2
<1>4. drain'[t].cur = o
  BY <1>3 DEF Dispatch, Advance, Inv, TypeOK, RunType
<1>5. drain[t].working[o] # None
      /\ drain[t].working[o].dependsOn \notin Left(drain[t]) \cup drain[t].kept
  BY <1>3 DEF Dispatch, IsHead, Left, Runnable, IsBlockedSuccessor
<1> QED
  BY <1>4, <1>5 DEF RunsWait, IsApplied

(* However tabs, leases and answers interleave, an operation is sent only   *)
(* once the operation it depends on is acknowledged, unless the reader      *)
(* discarded that one (isBlockedSuccessor, on the run's own list).          *)
THEOREM SuccessorsAreHeldBack == Spec => SuccessorsWait
<1>1. Inv /\ QueueInv /\ [Next]_vars =>
        [\A t \in Tab :
           drain[t].pc = "next" /\ drain'[t].pc = "waiting" =>
             LET d == drain[t].working[drain'[t].cur].dependsOn
             IN  d \in owed => acks[d] # None /\ acks[d].kind = "APPLIED"]_vars
  BY DispatchWaits DEF QueueInv
<1> QED
  BY <1>1, QueueInvariance, PTL DEF Spec, SuccessorsWait

(* ---- A run of the coordinator gets to its end ------------------------- *)

(* How far the run is with the operation at hand: an operation is picked,   *)
(* sent, answered, checked against the lease, reconciled in up to four      *)
(* transactions, and left.                                                  *)
Phase ==
  [pc \in PC |->
    CASE pc = "next" -> 7 [] pc = "waiting" -> 6 [] pc = "answered" -> 5
      [] pc = "reconciling" -> 4 [] pc = "acking" -> 3 [] pc = "marking" -> 2
      [] OTHER -> 1]

(* A run comes closer to its end: fewer operations are left to visit, or    *)
(* the same ones and less to do about the one at hand.                      *)
Closer(run, next) ==
  \/ Left(next) \subseteq Left(run) /\ Left(next) # Left(run)
  \/ Left(next) = Left(run) /\ Phase[next.pc] < Phase[run.pc]

LEMMA Phases ==
  /\ Phase["next"] = 7 /\ Phase["waiting"] = 6 /\ Phase["answered"] = 5
  /\ Phase["reconciling"] = 4 /\ Phase["acking"] = 3 /\ Phase["marking"] = 2
  /\ Phase["failed"] = 1 /\ Phase["restoring"] = 1 /\ Phase["marked"] = 1
  /\ Phase["conflicted"] = 1
BY DEF Phase, PC

LEMMA SameCloser ==
  ASSUME NEW run, NEW next, next.working = run.working, Phase[next.pc] < Phase[run.pc]
  PROVE  Closer(run, next)
BY DEF Closer, Left

LEMMA VisitedCloser ==
  ASSUME NEW run, NEW o \in Left(run), NEW next,
         next.working = [run.working EXCEPT ![o] = None], run.working \in OutboxType
  PROVE  Closer(run, next)
<1>1. \A p \in Op : next.working[p] = IF p = o THEN None ELSE run.working[p]
  BY DEF OutboxType
<1>2. Left(next) = Left(run) \ {o}
  BY <1>1 DEF Left
<1> QED
  BY <1>2 DEF Closer

LEMMA RunCloser ==
  ASSUME Inv, NEW t \in Tab, Run(t), drain[t].pc # "listing"
  PROVE  drain'[t].pc = "idle" \/ Closer(drain[t], drain'[t])
<1> DEFINE Goal == drain'[t].pc = "idle" \/ Closer(drain[t], drain'[t])
<1>1. drain[t] \in RunType /\ drain[t].working \in OutboxType /\ drain \in [Tab -> RunType]
  BY DEF Inv, TypeOK, RunType
<1>2. ASSUME NEW next, Advance(t, next)
      PROVE  drain'[t] = next
  BY <1>1, <1>2 DEF Advance
<1>3. ASSUME NEW next, Advance(t, next), next.working = drain[t].working,
             Phase[next.pc] < Phase[drain[t].pc]
      PROVE  Goal
  BY <1>2, <1>3, SameCloser
<1>4. ASSUME drain[t].pc \in Busy
      PROVE  /\ drain[t].cur \in Left(drain[t])
             /\ Visited(drain[t]) \in RunType /\ Visited(drain[t]).pc = "next"
             /\ Visited(drain[t]).working = [drain[t].working EXCEPT ![drain[t].cur] = None]
  <2>1. /\ drain[t].cur \in Op /\ Copy(t) \in Queued
        /\ Visited(drain[t]) \in RunType /\ Visited(drain[t]).pc = "next"
    BY <1>4, BusyRun DEF Inv
  <2>2. Copy(t) # None
    BY <2>1, NotNone
  <2> QED
    BY <2>1, <2>2 DEF Copy, Left, Visited, Acked, NoRun
<1>5. ASSUME drain[t].pc \in Busy, NEW next, Advance(t, next),
             next.working = Visited(drain[t]).working
      PROVE  Goal
  BY <1>1, <1>2, <1>4, <1>5, VisitedCloser
<1>6. ASSUME NEW o \in Op, Skip(t, o)
      PROVE  Goal
  <2> DEFINE now == [drain[t] EXCEPT !.cur = o]
  <2>1. now.working = drain[t].working /\ now.cur = o
    BY <1>1 DEF RunType
  <2>2. Advance(t, Visited(now)) /\ o \in Left(drain[t])
    BY <1>6 DEF Skip, IsHead
  <2> HIDE DEF now
  <2>3. Visited(now).working = [drain[t].working EXCEPT ![o] = None]
    BY <2>1 DEF Visited, Acked, NoRun
  <2> QED
    BY <1>1, <1>2, <2>2, <2>3, VisitedCloser
<1>7. ASSUME NEW o \in Op, Dispatch(t, o)
      PROVE  Goal
  <2> DEFINE next == [drain[t] EXCEPT !.pc = "waiting", !.cur = o]
  <2>1. Advance(t, next) /\ drain[t].pc = "next"
    BY <1>7 DEF Dispatch, IsHead
  <2>2. next.working = drain[t].working /\ next.pc = "waiting"
    BY <1>1 DEF RunType
  <2> HIDE DEF next
  <2> QED
    BY <1>3, <2>1, <2>2, Phases
<1>8. CASE Answer(t)
  <2>1. CASE Reply(t)
    <3>1. PICK result \in Results :
            Advance(t, [drain[t] EXCEPT !.pc = "answered", !.answer = result])
      BY <2>1, Zenon DEF Reply
    <3> DEFINE next == [drain[t] EXCEPT !.pc = "answered", !.answer = result]
    <3>2. Advance(t, next) /\ drain[t].pc = "waiting"
      BY <2>1, <3>1 DEF Reply
    <3>3. next.working = drain[t].working /\ next.pc = "answered"
      BY <1>1 DEF RunType
    <3> HIDE DEF next
    <3> QED
      BY <1>3, <3>2, <3>3, Phases
  <2>2. ASSUME NEW failure \in Failure, Fail(t, failure)
        PROVE  Goal
    <3> DEFINE next == [drain[t] EXCEPT !.pc = "failed", !.answer = [kind |-> failure, revision |-> 0]]
    <3>1. Advance(t, next) /\ drain[t].pc = "waiting"
      BY <2>2 DEF Fail
    <3>2. next.working = drain[t].working /\ next.pc = "failed"
      BY <1>1 DEF RunType
    <3> HIDE DEF next
    <3> QED
      BY <1>3, <3>1, <3>2, Phases
  <2> QED
    BY <1>8, <2>1, <2>2 DEF Answer
<1>9. CASE HandleFailure(t)
  <2>1. drain[t].pc \in Busy
    BY <1>9 DEF HandleFailure, Busy, PC
  <2> DEFINE run == Visited(drain[t])
  <2> DEFINE ended == [run EXCEPT !.working = NoRun.working]
  <2> DEFINE paused == [run EXCEPT !.paused = @ \cup {Copy(t).entity}]
  <2>2. ended.working = [o \in Op |-> None] /\ paused.working = run.working
    BY <1>4, <2>1 DEF RunType, NoRun
  <2>3. Advance(t, run) \/ Advance(t, ended) \/ Advance(t, paused)
    BY <1>9 DEF HandleFailure
  <2> HIDE DEF run, ended, paused
  <2>4. CASE Advance(t, ended)
    <3>1. Left(drain'[t]) = {} /\ drain[t].cur \in Left(drain[t])
      BY <1>2, <1>4, <2>1, <2>2, <2>4 DEF Left
    <3> QED
      BY <3>1 DEF Closer
  <2> QED
    BY <1>5, <2>1, <2>2, <2>3, <2>4 DEF run
<1>10. CASE CheckLease(t)
  <2> DEFINE next == [drain[t] EXCEPT !.pc =
                        IF lease = [holder |-> t, active |-> TRUE] THEN "reconciling" ELSE "restoring"]
  <2>1. Advance(t, next) /\ drain[t].pc = "answered"
    BY <1>10 DEF CheckLease
  <2>2. next.working = drain[t].working /\ next.pc \in {"reconciling", "restoring"}
    BY <1>1 DEF RunType
  <2> HIDE DEF next
  <2>3. Phase[next.pc] < Phase[drain[t].pc]
    BY <2>1, <2>2, Phases
  <2> QED
    BY <1>3, <2>1, <2>2, <2>3
<1>11. CASE RestorePending(t) \/ RetainRefused(t)
  <2>1. drain[t].pc \in Busy /\ Advance(t, Visited(drain[t]))
    BY <1>11 DEF RestorePending, RetainRefused, Busy, PC
  <2> QED
    BY <1>5, <2>1
<1>12. CASE RetainConflict(t)
  <2>1. drain[t].pc \in Busy
    BY <1>12 DEF RetainConflict, Busy, PC
  <2> DEFINE run == Visited(drain[t])
  <2> DEFINE paused == [run EXCEPT !.paused = @ \cup {Copy(t).entity}]
  <2>2. paused.working = run.working
    BY <1>4, <2>1 DEF RunType
  <2>3. Advance(t, paused)
    BY <1>12 DEF RetainConflict
  <2> HIDE DEF run, paused
  <2> QED
    BY <1>5, <2>1, <2>2, <2>3 DEF run
<1>13. CASE FindSuccessors(t)
  <2> DEFINE next == [drain[t] EXCEPT !.pc = "acking",
                        !.successors = Rebased(outbox, drain[t].cur, drain[t].answer.revision)]
  <2>1. Advance(t, next) /\ drain[t].pc = "reconciling"
    BY <1>13 DEF FindSuccessors
  <2>2. next.working = drain[t].working /\ next.pc = "acking"
    BY <1>1 DEF RunType
  <2> HIDE DEF next
  <2> QED
    BY <1>3, <2>1, <2>2, Phases
<1>14. CASE Acknowledge(t)
  <2> DEFINE next == [drain[t] EXCEPT !.pc = "marking", !.successors = NoRun.successors]
  <2>1. Advance(t, next) /\ drain[t].pc = "acking"
    BY <1>14 DEF Acknowledge
  <2>2. next.working = drain[t].working /\ next.pc = "marking"
    BY <1>1 DEF RunType
  <2> HIDE DEF next
  <2> QED
    BY <1>3, <2>1, <2>2, Phases
<1>15. CASE ReadRecord(t)
  <2> DEFINE next == [drain[t] EXCEPT !.pc = "marked", !.record = records[Copy(t).entity]]
  <2>1. Advance(t, next) /\ drain[t].pc = "marking"
    BY <1>15 DEF ReadRecord
  <2>2. next.working = drain[t].working /\ next.pc = "marked"
    BY <1>1 DEF RunType
  <2> HIDE DEF next
  <2> QED
    BY <1>3, <2>1, <2>2, Phases
<1>16. CASE MarkSynced(t)
  <2> DEFINE rebased == Rebased(drain[t].working, drain[t].cur, drain[t].answer.revision)
  <2> DEFINE run == [drain[t] EXCEPT !.working = Over(rebased, drain[t].working)]
  <2>1. drain[t].pc \in Busy
    BY <1>16 DEF MarkSynced, Busy, PC
  <2>2. drain[t].cur \in Op /\ drain[t].answer \in AnyAnswer
    BY <2>1, BusyRun, <1>16 DEF MarkSynced, Inv, RunsOK, RunOK, Told
  <2>3. rebased \in OutboxType
    BY <1>1, <2>2, RebasedType DEF AnyAnswer
  <2>4. \A p \in Op : rebased[p] # None => drain[t].working[p] # None
    BY <1>1, <2>2, RebasedCarry DEF Carries
  <2>5. Advance(t, Acked(run))
    BY <1>1, <1>16 DEF MarkSynced, RunType
  <2>6. run.working = Over(rebased, drain[t].working) /\ run.cur = drain[t].cur
    BY <1>1 DEF RunType
  <2> HIDE DEF run, rebased
  <2>7. run.working \in OutboxType
    BY <1>1, <2>3, <2>6, OverType
  <2>8. Acked(run).working = [run.working EXCEPT ![drain[t].cur] = None]
    BY <2>6 DEF Acked, NoRun
  <2>9. \A p \in Op : Acked(run).working[p] =
          IF p = drain[t].cur THEN None
          ELSE IF rebased[p] # None THEN rebased[p] ELSE drain[t].working[p]
    BY <2>6, <2>7, <2>8 DEF Over, OutboxType
  <2>10. Left(Acked(run)) = Left(drain[t]) \ {drain[t].cur}
    BY <2>4, <2>9 DEF Left
  <2> QED
    BY <1>2, <1>4, <2>1, <2>5, <2>10 DEF Closer
<1>17. CASE RecordConflict(t)
  <2> DEFINE next == [drain[t] EXCEPT !.pc = "conflicted"]
  <2>1. Advance(t, next) /\ drain[t].pc = "reconciling"
    BY <1>17 DEF RecordConflict
  <2>2. next.working = drain[t].working /\ next.pc = "conflicted"
    BY <1>1 DEF RunType
  <2> HIDE DEF next
  <2> QED
    BY <1>3, <2>1, <2>2, Phases
<1>18. CASE Finish(t)
  <2>1. drain'[t] = NoRun
    BY <1>2, <1>18 DEF Finish
  <2> QED
    BY <2>1 DEF NoRun
<1>19. ~ ListQueue(t)
  BY DEF ListQueue
<1> QED
  BY <1>6, <1>7, <1>8, <1>9, <1>10, <1>11, <1>12, <1>13, <1>14, <1>15, <1>16, <1>17, <1>18, <1>19 DEF Run

(* A run that has listed the queue handles each listed operation at most    *)
(* once and never takes one up again: whatever the tabs, the server and the *)
(* network do, every step either leaves the run as it is, ends it, or       *)
(* brings it closer to its end.  drain() therefore ends after at most seven *)
(* steps per operation listed; nothing can keep one run, and with it the    *)
(* lease, going for ever.                                                   *)
THEOREM RunsGetOn ==
  Spec => [][\A t \in Tab : drain[t].pc \notin {"idle", "listing"} =>
               \/ drain'[t] = drain[t]
               \/ drain'[t].pc = "idle"
               \/ Closer(drain[t], drain'[t])]_vars
<1> DEFINE Step ==
      \A t \in Tab : drain[t].pc \notin {"idle", "listing"} =>
        \/ drain'[t] = drain[t]
        \/ drain'[t].pc = "idle"
        \/ Closer(drain[t], drain'[t])
<1>1. Inv /\ [Next]_vars => Step
  <2> SUFFICES ASSUME Inv, [Next]_vars, NEW t \in Tab, drain[t].pc \notin {"idle", "listing"}
               PROVE  \/ drain'[t] = drain[t]
                      \/ drain'[t].pc = "idle"
                      \/ Closer(drain[t], drain'[t])
    OBVIOUS
  <2>1. drain'[t] = drain[t] \/ Run(t) \/ drain'[t] = NoRun
    BY TabStep DEF Inv
  <2>2. NoRun.pc = "idle"
    BY DEF NoRun
  <2> QED
    BY <2>1, <2>2, RunCloser
<1> QED
  BY <1>1, Invariance, PTL DEF Spec
=============================================================================
