----------------------- MODULE ReaderMutations_proofs -----------------------
(***************************************************************************)
(* Proofs about ReaderMutations: type correctness, the inductive invariant *)
(* Inv, the safety properties it implies, the refinement of ReaderStore,   *)
(* with OriginInv the links of conflict copies, the completion time of a   *)
(* book and the watermark of its snapshots, and that calls wait briefly    *)
(* and get on.                                                             *)
(***************************************************************************)
EXTENDS ReaderMutations, TLAPS

----
(* What the decisions of one transaction look like.                        *)

LEMMA NoRowType == NoRow \in Row /\ NoRow.rev = 0 /\ ~ NoRow.deleted
  BY DEF NoRow, Row

LEMMA NoPlanType == NoPlan \in Plan /\ NoPlan.write = NoRow
  BY NoRowType DEF NoPlan, Plan, Refused, Result, ResultKind

(* The rows a plan may write have the type of rows.                        *)
LEMMA NewProgress ==
  ASSUME NEW n \in Nat, NEW c \in Content, NEW d \in Request \cup {None}
  PROVE  LET new == [NoRow EXCEPT !.rev = n, !.content = c, !.completed = d]
         IN  new \in Row /\ new.rev = n /\ ~ new.deleted
  BY DEF NoRow, Row

LEMMA NewRow ==
  ASSUME NEW n \in Nat, NEW c \in Content
  PROVE  LET new == [NoRow EXCEPT !.rev = n, !.content = c]
         IN  new \in Row /\ new.rev = n /\ ~ new.deleted
  BY DEF NoRow, Row

LEMMA DeletedRow ==
  ASSUME NEW n \in Nat, NEW row \in Row
  PROVE  LET new == [row EXCEPT !.rev = n, !.deleted = TRUE]
         IN  new \in Row /\ new.rev = n /\ new.content = row.content
  BY DEF Row

LEMMA EditedRow ==
  ASSUME NEW n \in Nat, NEW row \in Row, NEW c \in Content
  PROVE  LET new == [row EXCEPT !.rev = n, !.content = c]
         IN  new \in Row /\ new.rev = n /\ new.deleted = row.deleted
  BY DEF Row

LEMMA InputFields ==
  ASSUME NEW in \in Input
  PROVE  /\ in.op \in OperationId
         /\ in.kind \in Kind
         /\ in.target \in Entity
         /\ in.base \in Nat
         /\ in.base + 1 \in Nat
         /\ in.content \in Content
  BY DEF Input

LEMMA ResultTypes ==
  ASSUME NEW r \in Request, NEW n \in Nat
  PROVE  /\ Applied(r, n) \in Result /\ Applied(r, n).kind = "APPLIED"
         /\ Conflict(n, None) \in Result /\ Conflict(n, None).kind = "CONFLICT"
         /\ Conflict(n, r) \in Result /\ Conflict(n, r).kind = "CONFLICT"
         /\ Conflict(n, r).copy = r
  BY DEF Applied, Conflict, Result, ResultKind, CopyId

LEMMA RefusedType ==
  ASSUME NEW kind \in ResultKind
  PROVE  Refused(kind) \in Result /\ Refused(kind).kind = kind
  BY DEF Refused, Result

(* A plan that writes moves a live row from the revision the envelope      *)
(* names to the next one, and is recorded as applied by its own receipt.   *)
Writes(d, r, in, row) ==
  /\ d.result = Applied(r, in.base + 1)
  /\ d.write.rev = in.base + 1
  /\ d.copy = NoRow
  /\ row.rev = in.base
  /\ ~ row.deleted
  /\ in.kind = "PROGRESS_SET" => ~ d.write.deleted
  /\ in.kind = "BOOKMARK_REMOVE" => d.write.content = row.content

(* A plan that only reports: nothing is written.                           *)
Reports(d, r, in, row) ==
  /\ d.write = NoRow
  /\ d.copy = NoRow
  /\ d.result.kind \in {"APPLIED", "CONFLICT", "ACCESS_DENIED"}
  /\ d.result.kind = "APPLIED" => Satisfied(in, row)

(* A plan that keeps an edit as a conflict copy.                           *)
Mints(d, r, in, row) ==
  /\ d.write = NoRow
  /\ d.result.kind = "CONFLICT"
  /\ d.result.copy = r
  /\ d.copy.rev = 1
  /\ ~ d.copy.deleted
  /\ d.copy.origin = in.op

Shaped(d, r, in, row) ==
  /\ d \in Plan
  /\ Writes(d, r, in, row) \/ Reports(d, r, in, row) \/ Mints(d, r, in, row)

LEMMA ReportShape ==
  ASSUME NEW r \in Request, NEW in \in Input, NEW row \in Row, NEW result \in Result,
         result.kind \in {"APPLIED", "CONFLICT", "ACCESS_DENIED"},
         result.kind = "APPLIED" => Satisfied(in, row)
  PROVE  Shaped(Report(result), r, in, row)
<1>1. Report(result) \in Plan
  BY NoRowType DEF Report, Plan
<1>2. Reports(Report(result), r, in, row)
  BY DEF Reports, Report
<1> QED
  BY <1>1, <1>2 DEF Shaped

LEMMA ConflictShape ==
  ASSUME NEW r \in Request, NEW in \in Input, NEW row \in Row
  PROVE  Shaped(Report(Conflict(row.rev, None)), r, in, row)
<1>1. row.rev \in Nat
  BY DEF Row
<1> QED
  BY <1>1, ResultTypes, ReportShape

LEMMA DeniedShape ==
  ASSUME NEW r \in Request, NEW in \in Input, NEW row \in Row
  PROVE  Shaped(Report(Refused("ACCESS_DENIED")), r, in, row)
<1>1. "ACCESS_DENIED" \in ResultKind
  BY DEF ResultKind
<1> QED
  BY <1>1, RefusedType, ReportShape

LEMMA AcknowledgeShape ==
  ASSUME NEW r \in Request, NEW in \in Input, NEW row \in Row, Satisfied(in, row)
  PROVE  Shaped(Report(Applied(r, row.rev)), r, in, row)
<1>1. row.rev \in Nat
  BY DEF Row
<1> QED
  BY <1>1, ResultTypes, ReportShape

LEMMA PutShape ==
  ASSUME NEW r \in Request, NEW in \in Input, NEW row \in Row, NEW new \in Row,
         row.rev = in.base, new.rev = in.base + 1, ~ row.deleted,
         in.kind = "PROGRESS_SET" => ~ new.deleted,
         in.kind = "BOOKMARK_REMOVE" => new.content = row.content
  PROVE  Shaped(Put(r, new), r, in, row)
<1>1. Put(r, new) \in Plan
  BY NoRowType, ResultTypes, InputFields DEF Put, Plan
<1>2. Writes(Put(r, new), r, in, row)
  BY DEF Writes, Put
<1> QED
  BY <1>1, <1>2 DEF Shaped

LEMMA MintShape ==
  ASSUME NEW r \in Request, NEW in \in Input, NEW row \in Row,
         NEW content \in Content \cup {None}
  PROVE  Shaped(Mint(r, in, row, content), r, in, row)
<1> DEFINE m == Mint(r, in, row, content)
           copy == [NoRow EXCEPT !.rev = 1, !.content = content, !.origin = in.op,
                                 !.source = SourceOf(in, row)]
<1>1. SourceOf(in, row) \in Entity \cup {None}
  BY InputFields DEF SourceOf, Row
<1>2. copy \in Row /\ copy.rev = 1 /\ ~ copy.deleted /\ copy.origin = in.op
  <2> DEFINE op == in.op
             source == SourceOf(in, row)
  <2>1. op \in OperationId /\ source \in Entity \cup {None}
    BY <1>1, InputFields
  <2> HIDE DEF op, source
  <2>2. LET c == [NoRow EXCEPT !.rev = 1, !.content = content, !.origin = op,
                               !.source = source]
        IN  c \in Row /\ c.rev = 1 /\ ~ c.deleted /\ c.origin = op
    BY <2>1 DEF NoRow, Row
  <2> QED
    BY <2>2 DEF op, source
<1>3. m = [result |-> Conflict(row.rev, r), write |-> NoRow, copy |-> copy]
  BY DEF Mint
<1>4. Conflict(row.rev, r) \in Result /\ Conflict(row.rev, r).kind = "CONFLICT"
      /\ Conflict(row.rev, r).copy = r
  BY ResultTypes DEF Row
<1> HIDE DEF m, copy
<1>5. m \in Plan /\ Mints(m, r, in, row)
  BY <1>2, <1>3, <1>4, NoRowType DEF Plan, Mints
<1> QED
  BY <1>5 DEF Shaped, m

LEMMA ProgressPlanShape ==
  ASSUME NEW r \in Request, NEW in \in Input, NEW row \in Row,
         in.kind = "PROGRESS_SET", ~ row.deleted
  PROVE  Shaped(ProgressPlan(r, in, row), r, in, row)
<1> DEFINE new == [NoRow EXCEPT !.rev = in.base + 1, !.content = in.content,
                                !.completed = CompletedAt(r, in, row.completed)]
<1>1. CompletedAt(r, in, row.completed) \in Request \cup {None}
  BY DEF CompletedAt, Row
<1>2. new \in Row /\ new.rev = in.base + 1 /\ ~ new.deleted
  BY <1>1, InputFields, NewProgress
<1>3. CASE row.rev = in.base
  <2>1. ProgressPlan(r, in, row) = Put(r, new)
    BY <1>3 DEF ProgressPlan
  <2> QED
    BY <2>1, <1>2, <1>3, PutShape
<1>4. CASE row.rev # in.base
  BY <1>4, ConflictShape DEF ProgressPlan
<1> QED
  BY <1>3, <1>4

LEMMA AddPlanShape ==
  ASSUME NEW r \in Request, NEW in \in Input, NEW row \in Row,
         in.kind \in {"BOOKMARK_ADD", "ANNOTATION_CREATE"}, Valid(in),
         row.rev = 0 => ~ row.deleted
  PROVE  Shaped(AddPlan(r, in, row), r, in, row)
<1> DEFINE new == [NoRow EXCEPT !.rev = 1, !.content = in.content]
<1>1. in.base = 0 /\ row.rev \in Nat
  BY DEF Valid, Row
<1>2. new \in Row /\ new.rev = 1
  BY InputFields, NewRow
<1>3. CASE row.rev = 0
  <2>1. AddPlan(r, in, row) = Put(r, new)
    BY <1>3 DEF AddPlan
  <2>2. /\ row.rev = in.base /\ new.rev = in.base + 1 /\ ~ row.deleted
        /\ in.kind # "PROGRESS_SET" /\ in.kind # "BOOKMARK_REMOVE"
    BY <1>1, <1>2, <1>3
  <2> HIDE DEF new
  <2> QED
    BY <2>1, <2>2, <1>2, PutShape
<1>4. CASE row.rev # 0 /\ ~ row.deleted /\ Matches(row, in)
  <2>1. Satisfied(in, row)
    BY <1>1, <1>4 DEF Satisfied, Matches, Valid
  <2>2. AddPlan(r, in, row) = Report(Applied(r, row.rev))
    BY <1>4 DEF AddPlan
  <2> QED
    BY <2>1, <2>2, AcknowledgeShape
<1>5. CASE row.rev # 0 /\ ~ (~ row.deleted /\ Matches(row, in))
  BY <1>5, ConflictShape DEF AddPlan
<1> QED
  BY <1>3, <1>4, <1>5

LEMMA RemovePlanShape ==
  ASSUME NEW r \in Request, NEW in \in Input, NEW row \in Row,
         in.kind \in {"BOOKMARK_REMOVE", "ANNOTATION_DELETE"}
  PROVE  Shaped(RemovePlan(r, in, row), r, in, row)
<1> DEFINE new == [row EXCEPT !.rev = in.base + 1, !.deleted = TRUE]
<1>0. row.rev \in Nat /\ row.deleted \in BOOLEAN /\ row.content \in Content \cup {None}
  BY DEF Row
<1>1. new \in Row /\ new.rev = in.base + 1 /\ new.content = row.content
  BY InputFields, DeletedRow
<1>2. CASE row.rev = 0
  BY <1>2, DeniedShape DEF RemovePlan
<1>3. CASE row.rev > 0 /\ row.deleted
  <2>1. Satisfied(in, row)
    BY <1>3 DEF Satisfied
  <2> QED
    BY <2>1, <1>3, <1>0, AcknowledgeShape DEF RemovePlan
<1>4. CASE row.rev > 0 /\ ~ row.deleted /\ row.rev # in.base
  BY <1>4, <1>0, ConflictShape, MintShape DEF RemovePlan
<1>5. CASE row.rev > 0 /\ ~ row.deleted /\ row.rev = in.base
  <2>1. RemovePlan(r, in, row) = Put(r, new)
    BY <1>5, <1>0 DEF RemovePlan
  <2> QED
    BY <2>1, <1>1, <1>5, PutShape
<1> QED
  BY <1>0, <1>2, <1>3, <1>4, <1>5

LEMMA UpdatePlanShape ==
  ASSUME NEW r \in Request, NEW in \in Input, NEW row \in Row,
         in.kind = "ANNOTATION_UPDATE"
  PROVE  Shaped(UpdatePlan(r, in, row), r, in, row)
<1> DEFINE new == [row EXCEPT !.rev = in.base + 1, !.content = in.content]
<1>0. row.rev \in Nat /\ row.deleted \in BOOLEAN /\ in.content \in Content \cup {None}
  BY InputFields DEF Row
<1>1. new \in Row /\ new.rev = in.base + 1
  <2>1. in.base + 1 \in Nat /\ in.content \in Content
    BY InputFields
  <2> QED
    BY ONLY <2>1, row \in Row, EditedRow
<1>2. CASE row.rev = 0
  BY <1>2, DeniedShape DEF UpdatePlan
<1>3. CASE row.rev > 0 /\ (row.deleted \/ row.rev # in.base)
  BY <1>3, <1>0, MintShape DEF UpdatePlan
<1>4. CASE row.rev > 0 /\ ~ row.deleted /\ row.rev = in.base
  <2>1. UpdatePlan(r, in, row) = Put(r, new)
    BY <1>4, <1>0 DEF UpdatePlan
  <2> QED
    BY <2>1, <1>1, <1>4, PutShape
<1> QED
  BY <1>0, <1>2, <1>3, <1>4

LEMMA DecideShape ==
  ASSUME NEW r \in Request, NEW in \in Input, NEW row \in Row, Valid(in),
         row.rev = 0 => ~ row.deleted,
         in.kind = "PROGRESS_SET" => ~ row.deleted
  PROVE  Shaped(Decide(r, in, row), r, in, row)
<1>1. in.kind \in Kind
  BY InputFields
<1>2. CASE in.kind = "PROGRESS_SET"
  BY <1>2, ProgressPlanShape DEF Decide
<1>3. CASE in.kind \in {"BOOKMARK_ADD", "ANNOTATION_CREATE"}
  BY <1>3, AddPlanShape DEF Decide
<1>4. CASE in.kind \in {"BOOKMARK_REMOVE", "ANNOTATION_DELETE"}
  BY <1>4, RemovePlanShape DEF Decide
<1>5. CASE in.kind = "ANNOTATION_UPDATE"
  BY <1>5, UpdatePlanShape DEF Decide
<1> QED
  BY <1>1, <1>2, <1>3, <1>4, <1>5 DEF Kind

(* A lost conditional update never writes.                                 *)
LEMMA LostShape ==
  ASSUME NEW r \in Request, NEW in \in Input, NEW row \in Row
  PROVE  /\ Shaped(LostPlan(r, in, row), r, in, row)
         /\ LostPlan(r, in, row).write = NoRow
         /\ LostPlan(r, in, row).result.kind = "CONFLICT"
<1>1. in.content \in Content \cup {None} /\ row.rev \in Nat
  BY InputFields DEF Row
<1>2. CASE in.target \in CopyId
  BY <1>1, <1>2, MintShape, ResultTypes DEF LostPlan, Mint
<1>3. CASE in.target \notin CopyId
  BY <1>1, <1>3, ConflictShape, ResultTypes DEF LostPlan, Report
<1> QED
  BY <1>2, <1>3

----
(* What a step of one call leaves as it was.                               *)

(* The other calls, and the row locks they hold.                           *)
Frame(r) ==
  /\ \A s \in Request \ {r} : /\ pc'[s] = pc[s]
                              /\ input'[s] = input[s]
                              /\ plan'[s] = plan[s]
                              /\ reply'[s] = reply[s]
  /\ \A e \in Entity, s \in Request \ {r} : lock[e] = s <=> lock'[e] = s

LEMMA TargetType ==
  ASSUME NEW in \in Inputs
  PROVE  in \in Input /\ in.target \in Entity /\ in.target \in Table(in.kind)
  BY ReaderConstants DEF Input

LEMMA StoreKept ==
  ASSUME Inv, UNCHANGED <<rows, tombstones, receipts, effects>>,
         \A s \in Request : pc[s] = "done" => pc'[s] = "done"
  PROVE  RowsGrounded' /\ EffectsRecorded' /\ NoLostUpdate' /\ ReceiptsFinal'
           /\ TombstonesMatch'
<1>1. RowsGrounded'
  BY DEF Inv, RowsGrounded
<1>2. EffectsRecorded' /\ NoLostUpdate' /\ ReceiptsFinal' /\ TombstonesMatch'
  BY DEF Inv, EffectsRecorded, NoLostUpdate, ReceiptsFinal, TombstonesMatch
<1> QED
  BY <1>1, <1>2

(* The reply of one call is durable, and honest about a rival.             *)
ReplyHolds(r) ==
  /\ reply[r] # None /\ reply[r].kind \in {"APPLIED", "CONFLICT"} =>
       receipts[input[r].op] = [input |-> input[r], result |-> reply[r]]
  /\ reply[r] = Refused("CONCURRENT") => Rival(r)

LEMMA RepliesHold ==
  (\A r \in Request : ReplyHolds(r)) <=> (ReplyIsDurable /\ ConcurrentMeansRival)
  BY DEF ReplyHolds, ReplyIsDurable, ConcurrentMeansRival, Rival

LEMMA Assembled ==
  ASSUME TypeOK', \A r \in Request : CallHolds(r)' /\ ReplyHolds(r)', LocksHeld',
         RowsGrounded' /\ EffectsRecorded' /\ NoLostUpdate' /\ ReceiptsFinal'
           /\ TombstonesMatch'
  PROVE  Inv'
<1>1. ReplyIsDurable' /\ ConcurrentMeansRival'
  BY DEF ReplyHolds, ReplyIsDurable, ConcurrentMeansRival, Rival
<1> QED
  BY <1>1 DEF Inv, CallsHold

LEMMA OthersKept ==
  ASSUME Inv, NEW r \in Request, Frame(r), UNCHANGED <<rows, receipts, effects>>,
         NEW s \in Request \ {r}
  PROVE  CallHolds(s)' /\ ReplyHolds(s)'
<1>1. pc'[s] = pc[s] /\ input'[s] = input[s] /\ plan'[s] = plan[s] /\ reply'[s] = reply[s]
  BY DEF Frame
<1>2. CallHolds(s) /\ ReplyHolds(s)
  BY RepliesHold DEF Inv, CallsHold
<1>3. Asked(s)' /\ (WantsWrite(s)' => Writing(s)')
  BY <1>1, <1>2 DEF CallHolds, Asked, WantsWrite, Writing
<1>4. (pc[s] = "commit" /\ plan[s].write # NoRow => Holding(s))'
  <2>1. pc[s] = "commit" => input[s].target \in Entity
    BY <1>2, TargetType DEF CallHolds, Asked
  <2> QED
    BY <1>1, <1>2, <2>1 DEF CallHolds, Holding, Frame
<1>5. (pc[s] = "commit" /\ plan[s].write = NoRow => Reporting(s))'
  BY <1>1, <1>2 DEF CallHolds, Reporting
<1>6. (pc[s] = "replay" => receipts[input[s].op] # None \/ Rival(s))'
  BY <1>1, <1>2 DEF CallHolds, Rival
<1>7. ReplyHolds(s)'
  BY <1>1, <1>2 DEF ReplyHolds, Rival
<1> QED
  BY <1>3, <1>4, <1>5, <1>6, <1>7 DEF CallHolds

----
(* The invariant holds initially, and every step keeps it.                 *)

LEMMA InitInv == Init => Inv
<1> SUFFICES ASSUME Init PROVE Inv
  OBVIOUS
<1>0. ReplayAttempts \in Nat \ {0} /\ CopyId = Request /\ Progress \in Entity
  BY ReaderConstants DEF CopyId, Entity
<1>1. TypeOK
  <2>1. attempts \in [Request -> 0 .. ReplayAttempts - 1]
    BY <1>0 DEF Init
  <2>2. rows \in [Entity -> Row] /\ plan \in [Request -> Plan]
    BY NoRowType, NoPlanType DEF Init
  <2> QED
    BY <2>1, <2>2 DEF Init, TypeOK
<1>2. CallsHold
  BY DEF Init, CallsHold, CallHolds, Asked, WantsWrite
<1>3. LocksHeld
  BY DEF Init, LocksHeld
<1>4. RowsGrounded
  <2>1. \A e \in Entity : rows[e].rev = 0 /\ ~ rows[e].deleted
    BY NoRowType DEF Init
  <2>2. Request \subseteq Entity
    BY DEF Entity, CopyId
  <2> QED
    BY <1>0, <2>1, <2>2 DEF RowsGrounded
<1>5. EffectsRecorded /\ NoLostUpdate /\ ReceiptsFinal
  BY DEF Init, EffectsRecorded, NoLostUpdate, ReceiptsFinal
<1>6. ReplyIsDurable /\ ConcurrentMeansRival
  <2>1. \A r \in Request : reply[r] = None
    BY DEF Init
  <2>2. Refused("CONCURRENT") # None
    BY NoneIsNoResult DEF Refused, Result, ResultKind
  <2> QED
    BY <2>1, <2>2 DEF ReplyIsDurable, ConcurrentMeansRival
<1>7. TombstonesMatch
  BY NoRowType DEF Init, TombstonesMatch
<1> QED
  BY <1>1, <1>2, <1>3, <1>4, <1>5, <1>6, <1>7 DEF Inv

LEMMA SubmitKeeps ==
  ASSUME Inv, NEW r \in Request, NEW in \in Inputs, Submit(r, in)
  PROVE  Inv'
<1>0. TypeOK /\ CallHolds(r) /\ in \in Input /\ Refused("BAD_REQUEST") \in Result
      /\ Refused("BAD_REQUEST").kind = "BAD_REQUEST"
  BY RefusedType, TargetType DEF Inv, CallsHold, ResultKind
<1>1. TypeOK'
  BY <1>0 DEF TypeOK, Submit, Answer
<1>2. Frame(r) /\ UNCHANGED <<rows, tombstones, receipts, effects, plan, lock>>
  BY <1>0 DEF Submit, Answer, Frame, TypeOK
<1>3. \A s \in Request \ {r} : CallHolds(s)' /\ ReplyHolds(s)'
  BY <1>2, OthersKept
<1>4. RowsGrounded' /\ EffectsRecorded' /\ NoLostUpdate' /\ ReceiptsFinal' /\ TombstonesMatch'
  <2>1. \A s \in Request : pc[s] = "done" => pc'[s] = "done"
    BY <1>0 DEF Submit, Answer, TypeOK
  <2> QED
    BY <1>2, <2>1, StoreKept
<1>5. LocksHeld'
  BY <1>0 DEF Inv, LocksHeld, Submit, Answer, TypeOK
<1>6. CallHolds(r)' /\ ReplyHolds(r)'
  <2>1. CASE Valid(in)
    <3>1. pc'[r] = "receipt" /\ input'[r] = in /\ reply'[r] = None
      BY <1>0, <2>1 DEF Submit, TypeOK, CallHolds, Asked
    <3> QED
      BY <3>1, <2>1, NoneIsNoResult, RefusedType
         DEF CallHolds, Asked, WantsWrite, ReplyHolds, ResultKind
  <2>2. CASE ~ Valid(in)
    <3>1. pc'[r] = "done" /\ input'[r] = in /\ reply'[r] = Refused("BAD_REQUEST")
      BY <1>0, <2>2 DEF Submit, TypeOK, Answer
    <3> QED
      BY <3>1, <1>0, RefusedType DEF CallHolds, Asked, WantsWrite, ReplyHolds, ResultKind
  <2> QED
    BY <2>1, <2>2
<1> QED
  BY <1>1, <1>3, <1>4, <1>5, <1>6, Assembled

(* What a replayed outcome promises.                                       *)
LEMMA OutcomeDurable ==
  ASSUME TypeOK, ReceiptsFinal, NEW in \in Input, receipts[in.op] # None
  PROVE  LET outcome == ReplayOutcome(in, receipts[in.op])
         IN  /\ outcome \in Result
             /\ outcome # Refused("CONCURRENT")
             /\ outcome.kind \in {"APPLIED", "CONFLICT"} =>
                  receipts[in.op] = [input |-> in, result |-> outcome]
<1>1. receipts[in.op] \in Receipt /\ receipts[in.op].result.kind \in {"APPLIED", "CONFLICT"}
  BY InputFields DEF TypeOK, ReceiptsFinal
<1>2. Refused("CONCURRENT").kind = "CONCURRENT" /\ Refused("BAD_REQUEST") \in Result
      /\ Refused("BAD_REQUEST").kind = "BAD_REQUEST"
  BY RefusedType DEF ResultKind
<1>3. CASE receipts[in.op].input = in
  BY <1>1, <1>2, <1>3 DEF ReplayOutcome, Receipt
<1>4. CASE receipts[in.op].input # in
  BY <1>2, <1>4 DEF ReplayOutcome
<1> QED
  BY <1>3, <1>4

(* A call that is answered without touching the store.                     *)
LEMMA AnsweredKeeps ==
  ASSUME Inv, NEW r \in Request, pc[r] \notin {"idle", "done"}, NEW result \in Result,
         Answer(r, result), Release(r) \/ (UNCHANGED lock /\ \A e \in Entity : lock[e] # r),
         plan' = plan \/ plan' = [plan EXCEPT ![r] = NoPlan],
         UNCHANGED <<rows, tombstones, receipts, effects, readable, supported, input, attempts>>,
         result.kind \in {"APPLIED", "CONFLICT"} =>
           receipts[input[r].op] = [input |-> input[r], result |-> result],
         result = Refused("CONCURRENT") => Rival(r)
  PROVE  Inv'
<1>0. TypeOK /\ CallHolds(r) /\ input[r] \in Inputs
  BY DEF Inv, CallsHold, CallHolds, Asked
<1>1. TypeOK'
  <2>1. lock' \in [Entity -> Request \cup {None}]
    BY <1>0 DEF TypeOK, Release
  <2>2. plan' \in [Request -> Plan]
    BY <1>0, NoPlanType DEF TypeOK
  <2> QED
    BY <1>0, <2>1, <2>2 DEF TypeOK, Answer
<1>2. Frame(r)
  <2>1. \A e \in Entity, s \in Request \ {r} : lock[e] = s <=> lock'[e] = s
    BY ReaderConstants DEF Release
  <2> QED
    BY <1>0, <2>1 DEF Frame, Answer, TypeOK
<1>3. \A s \in Request \ {r} : CallHolds(s)' /\ ReplyHolds(s)'
  BY <1>2, OthersKept
<1>4. RowsGrounded' /\ EffectsRecorded' /\ NoLostUpdate' /\ ReceiptsFinal' /\ TombstonesMatch'
  <2>1. \A s \in Request : pc[s] = "done" => pc'[s] = "done"
    BY <1>0 DEF Answer, TypeOK
  <2> QED
    BY <2>1, StoreKept
<1>5. LocksHeld'
  <2> SUFFICES ASSUME NEW e \in Entity, lock'[e] # None
               PROVE  /\ pc'[lock'[e]] = "commit"
                      /\ plan'[lock'[e]].write # NoRow
                      /\ input'[lock'[e]].target = e
    BY DEF LocksHeld
  <2>1. lock'[e] = lock[e] /\ lock[e] \in Request \ {r}
    BY <1>0 DEF TypeOK, Release
  <2>2. pc[lock[e]] = "commit" /\ plan[lock[e]].write # NoRow /\ input[lock[e]].target = e
    BY <2>1 DEF Inv, LocksHeld
  <2> QED
    BY <1>2, <2>1, <2>2 DEF Frame
<1>6. CallHolds(r)' /\ ReplyHolds(r)'
  <2>1. pc'[r] = "done" /\ input'[r] = input[r] /\ reply'[r] = result
    BY <1>0 DEF Answer, TypeOK
  <2> QED
    BY <1>0, <2>1 DEF CallHolds, Asked, WantsWrite, ReplyHolds, Rival
<1> QED
  BY <1>1, <1>3, <1>4, <1>5, <1>6, Assembled

(* Only a call about to commit a write holds a row.                        *)
LEMMA NoLock ==
  ASSUME Inv, NEW r \in Request, pc[r] # "commit"
  PROVE  \A e \in Entity : lock[e] # r
  BY ReaderConstants DEF Inv, LocksHeld

LEMMA FailKeeps ==
  ASSUME Inv, NEW r \in Request, Fail(r)
  PROVE  Inv'
<1>1. "FAILED" \in ResultKind /\ "CONCURRENT" \in ResultKind
  BY DEF ResultKind
<1>2. Refused("FAILED") \in Result /\ Refused("FAILED").kind = "FAILED"
      /\ Refused("CONCURRENT").kind = "CONCURRENT"
  BY <1>1, RefusedType
<1>3. Answer(r, Refused("FAILED")) /\ Release(r) /\ plan' = [plan EXCEPT ![r] = NoPlan]
      /\ pc[r] \notin {"idle", "done"}
  BY DEF Fail
<1>4. UNCHANGED <<rows, tombstones, receipts, effects, readable, supported, input, attempts>>
  BY DEF Fail
<1> QED
  BY <1>2, <1>3, <1>4, AnsweredKeeps

LEMMA AccessKeeps ==
  ASSUME Inv, SetAccess \/ \E v \in Version : PublishVersion(v)
  PROVE  Inv'
<1>1. UNCHANGED <<rows, tombstones, receipts, pc, input, plan, attempts, reply, lock, effects>>
  BY DEF SetAccess, PublishVersion
<1>2. TypeOK'
  BY <1>1 DEF Inv, TypeOK, SetAccess, PublishVersion
<1>3. \A s \in Request : CallHolds(s)' /\ ReplyHolds(s)'
  <2> TAKE s \in Request
  <2>1. CallHolds(s) /\ ReplyHolds(s)
    BY RepliesHold DEF Inv, CallsHold
  <2>2. CallHolds(s)'
    BY <1>1, <2>1 DEF CallHolds, Asked, WantsWrite, Writing, Holding, Reporting, Rival
  <2>3. ReplyHolds(s)'
    BY <1>1, <2>1 DEF ReplyHolds, Rival
  <2> QED
    BY <2>2, <2>3
<1>4. LocksHeld'
  BY <1>1 DEF Inv, LocksHeld
<1>5. RowsGrounded' /\ EffectsRecorded' /\ NoLostUpdate' /\ ReceiptsFinal' /\ TombstonesMatch'
  BY <1>1, StoreKept
<1> QED
  BY <1>2, <1>3, <1>4, <1>5, Assembled

LEMMA ReadReceiptKeeps ==
  ASSUME Inv, NEW r \in Request, ReadReceipt(r)
  PROVE  Inv'
<1> DEFINE in == input[r]
<1>0. /\ TypeOK /\ ReceiptsFinal /\ CallHolds(r) /\ pc[r] = "receipt" /\ in \in Input
      /\ UNCHANGED <<rows, tombstones, receipts, effects, readable, supported, input,
                     plan, attempts, lock>>
  BY TargetType DEF Inv, CallsHold, CallHolds, Asked, ReadReceipt
<1>1. \A e \in Entity : lock[e] # r
  BY <1>0, NoLock
<1>2. CASE receipts[in.op] # None
  <2>1. Answer(r, ReplayOutcome(in, receipts[in.op]))
    BY <1>2 DEF ReadReceipt
  <2> QED
    BY <1>0, <1>1, <1>2, <2>1, OutcomeDurable, AnsweredKeeps
<1>3. CASE /\ receipts[in.op] = None
           /\ ~ (readable /\ in.version \in supported)
  <2>1. PICK kind \in {"ACCESS_DENIED", "INCOMPATIBLE_VERSION"} : Answer(r, Refused(kind))
    BY <1>3 DEF ReadReceipt
  <2>2. kind \in ResultKind /\ "CONCURRENT" \in ResultKind
    BY DEF ResultKind
  <2>3. Refused(kind) \in Result /\ Refused(kind).kind = kind
        /\ Refused("CONCURRENT").kind = "CONCURRENT"
    BY <2>2, RefusedType
  <2> QED
    BY <1>0, <1>1, <2>1, <2>3, AnsweredKeeps
<1>4. CASE receipts[in.op] = None /\ readable /\ in.version \in supported
  <2>1. pc' = [pc EXCEPT ![r] = "entity"] /\ UNCHANGED reply
    BY <1>4 DEF ReadReceipt
  <2>2. TypeOK'
    BY <1>0, <2>1 DEF TypeOK
  <2>3. Frame(r)
    BY <1>0, <2>1 DEF Frame, TypeOK
  <2>4. \A s \in Request \ {r} : CallHolds(s)' /\ ReplyHolds(s)'
    BY <1>0, <2>3, OthersKept
  <2>5. RowsGrounded' /\ EffectsRecorded' /\ NoLostUpdate' /\ ReceiptsFinal' /\ TombstonesMatch'
    BY <1>0, <2>1, StoreKept DEF TypeOK
  <2>6. LocksHeld'
    BY <1>0, <1>1, <2>1 DEF Inv, LocksHeld, TypeOK
  <2>7. CallHolds(r)' /\ ReplyHolds(r)'
    <3>1. pc'[r] = "entity" /\ reply'[r] = None
      BY <1>0, <2>1 DEF TypeOK, CallHolds, Asked
    <3> QED
      BY <1>0, <3>1, NoneIsNoResult, RefusedType
         DEF CallHolds, Asked, WantsWrite, ReplyHolds, ResultKind
  <2> QED
    BY <2>2, <2>4, <2>5, <2>6, <2>7, Assembled
<1> QED
  BY <1>2, <1>3, <1>4

LEMMA ReplayReadKeeps ==
  ASSUME Inv, NEW r \in Request, ReplayRead(r)
  PROVE  Inv'
<1> DEFINE in == input[r]
<1>0. /\ TypeOK /\ ReceiptsFinal /\ CallHolds(r) /\ pc[r] = "replay" /\ in \in Input
      /\ UNCHANGED <<rows, tombstones, receipts, effects, readable, supported, input,
                     plan, lock>>
  BY TargetType DEF Inv, CallsHold, CallHolds, Asked, ReplayRead
<1>1. \A e \in Entity : lock[e] # r
  BY <1>0, NoLock
<1>2. CASE WinnerSeen(in)
  <2>1. Answer(r, ReplayOutcome(in, receipts[in.op])) /\ UNCHANGED attempts
        /\ receipts[in.op] # None
    BY <1>2 DEF ReplayRead, WinnerSeen
  <2> QED
    BY <1>0, <1>1, <2>1, OutcomeDurable, AnsweredKeeps
<1>3. CASE ~ WinnerSeen(in) /\ attempts[r] + 1 < ReplayAttempts
  <2>1. attempts' = [attempts EXCEPT ![r] = attempts[r] + 1] /\ UNCHANGED <<pc, reply>>
    BY <1>3, <1>0, ReaderConstants DEF ReplayRead, TypeOK
  <2>2. TypeOK'
    <3>1. attempts' \in [Request -> 0 .. ReplayAttempts - 1]
      BY <1>0, <1>3, <2>1, ReaderConstants DEF TypeOK
    <3> QED
      BY <1>0, <2>1, <3>1 DEF TypeOK
  <2>3. \A s \in Request : CallHolds(s)' /\ ReplyHolds(s)'
    <3> TAKE s \in Request
    <3>1. CallHolds(s) /\ ReplyHolds(s)
      BY RepliesHold DEF Inv, CallsHold
    <3> QED
      BY <1>0, <2>1, <3>1
         DEF CallHolds, Asked, WantsWrite, Writing, Holding, Reporting, Rival, ReplyHolds
  <2>4. LocksHeld'
    BY <1>0, <2>1 DEF Inv, LocksHeld
  <2>5. RowsGrounded' /\ EffectsRecorded' /\ NoLostUpdate' /\ ReceiptsFinal' /\ TombstonesMatch'
    BY <1>0, <2>1, StoreKept
  <2> QED
    BY <2>2, <2>3, <2>4, <2>5, Assembled
<1>4. CASE ~ WinnerSeen(in) /\ attempts[r] + 1 = ReplayAttempts
  <2>1. Answer(r, Refused("CONCURRENT")) /\ UNCHANGED attempts
    BY <1>4, <1>0, ReaderConstants DEF ReplayRead, TypeOK
  <2>2. Rival(r)
    BY <1>0, <1>4 DEF CallHolds, WinnerSeen
  <2>3. Refused("CONCURRENT") \in Result /\ Refused("CONCURRENT").kind = "CONCURRENT"
    BY RefusedType DEF ResultKind
  <2> QED
    BY <1>0, <1>1, <2>1, <2>2, <2>3, AnsweredKeeps
<1> QED
  BY <1>2, <1>3, <1>4 DEF ReplayRead

(* A call that goes on, with a plan, without touching the store.           *)
LEMMA AdvancedKeeps ==
  ASSUME Inv, NEW r \in Request, pc[r] \notin {"idle", "done"},
         NEW next \in {"write", "commit", "replay"}, NEW d \in Plan,
         pc' = [pc EXCEPT ![r] = next], plan' = [plan EXCEPT ![r] = d],
         UNCHANGED <<rows, tombstones, receipts, effects, readable, supported, input,
                     attempts, reply>>,
         lock' \in [Entity -> Request \cup {None}],
         \A e \in Entity, s \in Request \ {r} : lock[e] = s <=> lock'[e] = s,
         \A e \in Entity : lock'[e] = r =>
           next = "commit" /\ d.write # NoRow /\ input[r].target = e,
         CallHolds(r)'
  PROVE  Inv'
<1>0. TypeOK /\ CallHolds(r)
  BY DEF Inv, CallsHold
<1>1. TypeOK'
  BY <1>0 DEF TypeOK
<1>2. Frame(r)
  BY <1>0 DEF Frame, TypeOK
<1>3. \A s \in Request \ {r} : CallHolds(s)' /\ ReplyHolds(s)'
  BY <1>2, OthersKept
<1>4. RowsGrounded' /\ EffectsRecorded' /\ NoLostUpdate' /\ ReceiptsFinal' /\ TombstonesMatch'
  BY <1>0, StoreKept DEF TypeOK
<1>5. LocksHeld'
  <2> SUFFICES ASSUME NEW e \in Entity, lock'[e] # None
               PROVE  /\ pc'[lock'[e]] = "commit"
                      /\ plan'[lock'[e]].write # NoRow
                      /\ input'[lock'[e]].target = e
    BY DEF LocksHeld
  <2>1. lock'[e] \in Request
    OBVIOUS
  <2>2. CASE lock'[e] = r
    BY <1>0, <2>2 DEF TypeOK
  <2>3. CASE lock'[e] # r
    <3>1. lock[e] = lock'[e]
      BY <2>1, <2>3
    <3>2. pc[lock[e]] = "commit" /\ plan[lock[e]].write # NoRow /\ input[lock[e]].target = e
      BY <3>1 DEF Inv, LocksHeld
    <3> QED
      BY <1>2, <2>1, <2>3, <3>1, <3>2 DEF Frame
  <2> QED
    BY <2>2, <2>3
<1>6. ReplyHolds(r)'
  <2>1. reply'[r] = None
    BY <1>0 DEF CallHolds, Asked
  <2> QED
    BY <2>1, NoneIsNoResult, RefusedType DEF ReplyHolds, ResultKind
<1> QED
  BY <1>1, <1>3, <1>4, <1>5, <1>6, Assembled

LEMMA ReadEntityKeeps ==
  ASSUME Inv, NEW r \in Request, ReadEntity(r)
  PROVE  Inv'
<1> DEFINE in == input[r]
           row == rows[in.target]
           d == Decide(r, in, row)
<1>0. /\ TypeOK /\ CallHolds(r) /\ pc[r] = "entity" /\ in \in Inputs /\ in \in Input
      /\ in.target \in Entity /\ Valid(in)
      /\ UNCHANGED <<rows, tombstones, receipts, effects, readable, supported, input,
                     attempts, lock>>
  BY TargetType DEF Inv, CallsHold, CallHolds, Asked, ReadEntity
<1>1. \A e \in Entity : lock[e] # r
  BY <1>0, NoLock
<1>2. Shaped(d, r, in, row)
  <2>1. row \in Row
    BY <1>0 DEF TypeOK
  <2>2. row.rev = 0 => ~ row.deleted
    BY <1>0 DEF Inv, RowsGrounded
  <2>3. in.kind = "PROGRESS_SET" => ~ row.deleted
    BY <1>0, TargetType DEF Inv, RowsGrounded, Table
  <2> QED
    BY <1>0, <2>1, <2>2, <2>3, DecideShape
<1> HIDE DEF d
<1>3. CASE d.result.kind = "ACCESS_DENIED"
  <2>1. Answer(r, d.result) /\ UNCHANGED plan
    BY <1>3 DEF ReadEntity, d
  <2>2. d.result \in Result
    BY <1>2 DEF Shaped, Plan
  <2>3. Refused("CONCURRENT").kind = "CONCURRENT"
    BY RefusedType DEF ResultKind
  <2> QED
    BY <1>0, <1>1, <1>3, <2>1, <2>2, <2>3, AnsweredKeeps
<1>4. CASE d.result.kind # "ACCESS_DENIED"
  <2> DEFINE next == IF d.write = NoRow THEN "commit" ELSE "write"
  <2>1. plan' = [plan EXCEPT ![r] = d] /\ pc' = [pc EXCEPT ![r] = next] /\ UNCHANGED reply
    BY <1>4 DEF ReadEntity, d
  <2>2. d \in Plan
    BY <1>2 DEF Shaped
  <2>3. pc'[r] = next /\ plan'[r] = d /\ input'[r] = in /\ rows'[in.target] = row
        /\ reply'[r] = None
    BY <1>0, <2>1 DEF TypeOK, CallHolds, Asked
  <2>4. Asked(r)'
    BY <1>0, <2>3 DEF Asked
  <2>5. CallHolds(r)'
    <3>1. CASE d.write # NoRow
      <4>1. Writes(d, r, in, row)
        BY <1>2, <3>1 DEF Shaped, Reports, Mints
      <4>2. Writing(r)'
        BY <1>0, <2>3, <4>1, InputFields DEF Writes, Writing
      <4> QED
        BY <2>3, <2>4, <3>1, <4>2 DEF CallHolds
    <3>2. CASE d.write = NoRow
      <4>1. ~ Writes(d, r, in, row)
        BY <1>0, <3>2, NoRowType, InputFields DEF Writes
      <4>2. Reports(d, r, in, row) \/ Mints(d, r, in, row)
        BY <1>2, <4>1 DEF Shaped
      <4>3. Reporting(r)'
        BY <1>4, <2>3, <4>2 DEF Reports, Mints, Reporting
      <4> QED
        BY <2>3, <2>4, <3>2, <4>3 DEF CallHolds, WantsWrite
    <3> QED
      BY <3>1, <3>2
  <2>6. lock' \in [Entity -> Request \cup {None}]
    BY <1>0 DEF TypeOK
  <2> HIDE DEF next
  <2>7. next \in {"write", "commit", "replay"}
    BY DEF next
  <2> QED
    BY <1>0, <1>1, <2>1, <2>2, <2>5, <2>6, <2>7, AdvancedKeeps
<1> QED
  BY <1>3, <1>4

(* An operation that may create its target never names a conflict copy.    *)
LEMMA CreatesNoCopy ==
  ASSUME NEW in \in Inputs, Valid(in), in.base = 0
  PROVE  in.target \in Entity \ CopyId
<1>1. in.kind \in {"PROGRESS_SET", "BOOKMARK_ADD", "ANNOTATION_CREATE"}
  BY TargetType, InputFields DEF Valid, Kind
<1> QED
  BY <1>1, TargetType, ReaderConstants DEF Table, CopyId

LEMMA WriteKeeps ==
  ASSUME Inv, NEW r \in Request, Write(r)
  PROVE  Inv'
<1> DEFINE in == input[r]
           row == rows[in.target]
<1>0. /\ TypeOK /\ CallHolds(r) /\ pc[r] = "write" /\ in \in Inputs /\ in \in Input
      /\ in.target \in Entity /\ Valid(in) /\ reply[r] = None /\ Writing(r)
      /\ UNCHANGED <<rows, tombstones, receipts, effects, readable, supported, input,
                     attempts, reply>>
  BY TargetType DEF Inv, CallsHold, CallHolds, Asked, WantsWrite, Write
<1>1. \A e \in Entity : lock[e] # r
  BY <1>0, NoLock
<1>2. plan[r] \in Plan /\ plan[r].write # NoRow /\ row.rev \in Nat /\ in.base \in Nat
      /\ row \in Row
  BY <1>0, InputFields, NoRowType DEF TypeOK, Writing, Row
<1>3. CASE StillAtBase(row, in)
  <2>1. /\ lock[in.target] \in {None, r}
        /\ lock' = [lock EXCEPT ![in.target] = r]
        /\ pc' = [pc EXCEPT ![r] = "commit"]
        /\ plan' = [plan EXCEPT ![r] = plan[r]]
    BY <1>0, <1>3 DEF Write, Free, TypeOK
  <2>2. lock' \in [Entity -> Request \cup {None}]
    BY <1>0, <2>1 DEF TypeOK
  <2>3. \A e \in Entity, s \in Request \ {r} : lock[e] = s <=> lock'[e] = s
    BY <1>0, <2>1, ReaderConstants DEF TypeOK
  <2>4. \A e \in Entity : lock'[e] = r => in.target = e
    BY <1>0, <1>1, <2>1 DEF TypeOK
  <2>5. CallHolds(r)'
    <3>1. /\ pc'[r] = "commit" /\ plan'[r] = plan[r] /\ input'[r] = in
          /\ lock'[in.target] = r /\ rows' = rows /\ reply'[r] = None
      BY <1>0, <2>1 DEF TypeOK
    <3>2. Writing(r)' /\ Asked(r)'
      BY <1>0, <3>1 DEF Writing, Asked
    <3>3. Holding(r)'
      BY <1>3, <3>1 DEF Holding, StillAtBase
    <3> QED
      BY <1>2, <3>1, <3>2, <3>3 DEF CallHolds
  <2> QED
    BY <1>0, <1>2, <2>1, <2>2, <2>3, <2>4, <2>5, AdvancedKeeps
<1>4. CASE ~ StillAtBase(row, in) /\ plan[r].write.rev = 1
  <2>1. /\ UNCHANGED lock
        /\ pc' = [pc EXCEPT ![r] = "replay"]
        /\ plan' = [plan EXCEPT ![r] = NoPlan]
    BY <1>0, <1>2, <1>4 DEF Write
  <2>2. receipts[in.op] # None \/ Rival(r)
    <3>1. in.base = 0 /\ row.rev > 0
      BY <1>0, <1>2, <1>4 DEF Writing, StillAtBase
    <3>2. in.target \in Entity \ CopyId
      BY <1>0, <3>1, CreatesNoCopy
    <3>3. PICK x \in effects : x.key = in.target /\ x.base = 0
      BY <3>1, <3>2 DEF Inv, RowsGrounded
    <3>4. receipts[x.op] # None
      BY DEF Inv, EffectsRecorded
    <3> QED
      BY <3>3, <3>4 DEF Rival
  <2>3. CallHolds(r)'
    <3>1. pc'[r] = "replay" /\ input'[r] = in /\ reply'[r] = None
      BY <1>0, <2>1 DEF TypeOK
    <3> QED
      BY <1>0, <2>2, <3>1 DEF CallHolds, Asked, WantsWrite, Rival
  <2>4. lock' \in [Entity -> Request \cup {None}]
    BY <1>0, <2>1 DEF TypeOK
  <2> QED
    BY <1>0, <1>1, <2>1, <2>3, <2>4, NoPlanType, AdvancedKeeps
<1>5. CASE ~ StillAtBase(row, in) /\ plan[r].write.rev # 1
  <2> DEFINE d == LostPlan(r, in, row)
  <2>1. /\ UNCHANGED lock
        /\ pc' = [pc EXCEPT ![r] = "commit"]
        /\ plan' = [plan EXCEPT ![r] = d]
    BY <1>0, <1>2, <1>5 DEF Write
  <2>2. Shaped(d, r, in, row) /\ d.write = NoRow /\ d.result.kind = "CONFLICT"
    BY <1>0, <1>2, LostShape
  <2> HIDE DEF d
  <2>3. CallHolds(r)'
    <3>1. pc'[r] = "commit" /\ plan'[r] = d /\ input'[r] = in /\ reply'[r] = None
      BY <1>0, <2>1 DEF TypeOK
    <3>2. ~ Writes(d, r, in, row)
      BY <1>2, <2>2, NoRowType DEF Writes
    <3>3. Reporting(r)'
      BY <2>2, <3>1, <3>2 DEF Shaped, Reports, Mints, Reporting
    <3> QED
      BY <1>0, <2>2, <3>1, <3>3 DEF CallHolds, Asked, WantsWrite
  <2>4. lock' \in [Entity -> Request \cup {None}] /\ d \in Plan
    BY <1>0, <2>1, <2>2 DEF TypeOK, Shaped
  <2> QED
    BY <1>0, <1>1, <2>1, <2>3, <2>4, AdvancedKeeps
<1> QED
  BY <1>3, <1>4, <1>5

----
(* The three ways a transaction commits.                                   *)

(* It moves its target by one revision.                                    *)
Moved(r) ==
  LET in == input[r]
      row == rows[in.target]
      new == plan[r].write
  IN  /\ plan[r].result = Applied(r, in.base + 1)
      /\ row.rev = in.base
      /\ ~ row.deleted
      /\ new \in Row
      /\ new.rev = in.base + 1
      /\ in.kind = "PROGRESS_SET" => ~ new.deleted
      /\ in.kind = "BOOKMARK_REMOVE" => new.content = row.content
      /\ lock[in.target] = r
      /\ rows' = [rows EXCEPT ![in.target] = new]
      /\ tombstones' = IF new.deleted
                         THEN [tombstones EXCEPT ![in.target] = in.base + 1]
                         ELSE tombstones
      /\ effects' = effects \cup {[by |-> r, op |-> in.op, key |-> in.target,
                                   base |-> in.base]}

(* It records a conflict and keeps an edit as a new row.                   *)
Copied(r) ==
  LET new == plan[r].copy
  IN  /\ plan[r].result.kind = "CONFLICT"
      /\ plan[r].result.copy = r
      /\ rows[r].rev = 0
      /\ ~ rows[r].deleted
      /\ new \in Row
      /\ new.rev = 1
      /\ ~ new.deleted
      /\ new.origin = input[r].op
      /\ rows' = [rows EXCEPT ![r] = new]
      /\ UNCHANGED <<tombstones, effects>>

(* It records an outcome and changes no row.                               *)
Reported(r) ==
  /\ plan[r].write = NoRow /\ plan[r].copy = NoRow
  /\ plan[r].result.kind \in {"APPLIED", "CONFLICT"}
  /\ plan[r].result.kind = "APPLIED" => Satisfied(input[r], rows[input[r].target])
  /\ UNCHANGED <<rows, tombstones, effects>>

Settled(r) ==
  /\ receipts[input[r].op] = None
  /\ receipts' = [receipts EXCEPT ![input[r].op] =
                    [input |-> input[r], result |-> plan[r].result]]
  /\ Release(r)
  /\ plan' = [plan EXCEPT ![r] = NoPlan]
  /\ Answer(r, plan[r].result)
  /\ UNCHANGED <<readable, supported, input, attempts>>
  /\ Moved(r) \/ Copied(r) \/ Reported(r)

LEMMA CommitCases ==
  ASSUME Inv, NEW r \in Request, Commit(r), ~ HasReceipt(input[r])
  PROVE  Settled(r)
<1> DEFINE in == input[r]
           written == plan[r].write
           copied == plan[r].copy
<1>0. /\ TypeOK /\ CallHolds(r) /\ pc[r] = "commit" /\ in \in Inputs /\ in \in Input
      /\ in.target \in Entity /\ Valid(in) /\ plan[r] \in Plan /\ in.base \in Nat
      /\ r \in Entity
  BY TargetType, InputFields DEF Inv, CallsHold, CallHolds, Asked, Commit, TypeOK, Entity, CopyId
<1>1. /\ receipts[in.op] = None
      /\ receipts' = [receipts EXCEPT ![in.op] = [input |-> in, result |-> plan[r].result]]
      /\ Release(r)
      /\ plan' = [plan EXCEPT ![r] = NoPlan]
      /\ Answer(r, plan[r].result)
      /\ UNCHANGED <<readable, supported, input, attempts>>
      /\ rows' = [e \in Entity |-> IF e = in.target /\ written # NoRow THEN written
                                   ELSE IF e = r /\ copied # NoRow THEN copied
                                   ELSE rows[e]]
      /\ tombstones' = IF written.deleted
                         THEN [tombstones EXCEPT ![in.target] = in.base + 1]
                         ELSE tombstones
      /\ effects' = IF written = NoRow THEN effects
                    ELSE effects \cup {[by |-> r, op |-> in.op, key |-> in.target,
                                        base |-> in.base]}
  BY DEF Commit, HasReceipt, TombstoneRevision
<1>2. written \in Row /\ copied \in Row
  BY <1>0 DEF Plan
<1>3. CASE written # NoRow
  <2>1. Writing(r) /\ Holding(r)
    BY <1>0, <1>3 DEF CallHolds, WantsWrite
  <2>2. rows' = [rows EXCEPT ![in.target] = written]
    BY <1>0, <1>1, <1>3, <2>1 DEF TypeOK, Writing
  <2>3. Moved(r)
    BY <1>0, <1>1, <1>2, <1>3, <2>1, <2>2 DEF Moved, Writing, Holding
  <2> QED
    BY <1>1, <2>3 DEF Settled
<1>4. CASE written = NoRow /\ copied # NoRow
  <2>1. Reporting(r)
    BY <1>0, <1>4 DEF CallHolds
  <2>2. rows' = [rows EXCEPT ![r] = copied]
    BY <1>0, <1>1, <1>4 DEF TypeOK
  <2>3. rows[r].rev = 0 /\ ~ rows[r].deleted
    <3>1. rows[r].rev \in Nat
      BY <1>0 DEF TypeOK, Row
    <3> QED
      BY <1>0, <3>1 DEF Inv, RowsGrounded
  <2>4. UNCHANGED <<tombstones, effects>>
    BY <1>1, <1>4, NoRowType
  <2>5. Copied(r)
    BY <1>2, <1>4, <2>1, <2>2, <2>3, <2>4 DEF Reporting, Copied
  <2> QED
    BY <1>1, <2>5 DEF Settled
<1>5. CASE written = NoRow /\ copied = NoRow
  <2>1. Reporting(r)
    BY <1>0, <1>5 DEF CallHolds
  <2>2. rows' = rows
    BY <1>0, <1>1, <1>5 DEF TypeOK
  <2>3. UNCHANGED <<tombstones, effects>>
    BY <1>1, <1>5, NoRowType
  <2>4. Reported(r)
    BY <1>5, <2>1, <2>2, <2>3 DEF Reporting, Reported
  <2> QED
    BY <1>1, <2>4 DEF Settled
<1> QED
  BY <1>3, <1>4, <1>5

(* What a committing call knows.                                           *)
LEMMA CommitContext ==
  ASSUME Inv, NEW r \in Request, pc[r] = "commit"
  PROVE  /\ TypeOK /\ CallHolds(r) /\ input[r] \in Inputs /\ input[r] \in Input
         /\ input[r].op \in OperationId /\ input[r].target \in Entity
         /\ input[r].base \in Nat /\ Valid(input[r]) /\ plan[r] \in Plan
         /\ plan[r].result \in Result /\ r \in Entity /\ r \in CopyId
         /\ [input |-> input[r], result |-> plan[r].result] \in Receipt
  BY TargetType, InputFields
     DEF Inv, CallsHold, CallHolds, Asked, TypeOK, Entity, CopyId, Plan, Receipt

(* A committed outcome stays; the commit adds that of its own operation.   *)
LEMMA ReceiptsGrow ==
  ASSUME Inv, NEW r \in Request, pc[r] = "commit", Settled(r), NEW op \in OperationId
  PROVE  /\ receipts[op] # None => receipts'[op] = receipts[op] /\ op # input[r].op
         /\ op # input[r].op => receipts'[op] = receipts[op]
         /\ receipts'[input[r].op] = [input |-> input[r], result |-> plan[r].result]
         /\ receipts'[input[r].op] # None
  BY CommitContext, NoneIsNoResult DEF Settled, TypeOK

(* No row goes back; a row another call holds or depends on stays put.     *)
LEMMA RowsGrow ==
  ASSUME Inv, NEW r \in Request, pc[r] = "commit", Settled(r), NEW e \in Entity
  PROVE  /\ rows[e] \in Row /\ rows'[e] \in Row
         /\ rows'[e] = rows[e] \/ rows'[e].rev = rows[e].rev + 1
         /\ rows[e].deleted => rows'[e] = rows[e]
         /\ rows'[e] # rows[e] => \/ (e = input[r].target /\ lock[e] = r /\ Moved(r))
                                 \/ (e = r /\ rows[e].rev = 0 /\ Copied(r))
<1>0. rows \in [Entity -> Row] /\ input[r].target \in Entity /\ r \in Entity
  BY CommitContext DEF TypeOK
<1>1. CASE Moved(r)
  <2>1. /\ rows[input[r].target].rev = input[r].base /\ ~ rows[input[r].target].deleted
        /\ plan[r].write \in Row /\ plan[r].write.rev = input[r].base + 1
        /\ rows' = [rows EXCEPT ![input[r].target] = plan[r].write]
        /\ lock[input[r].target] = r
    BY <1>1 DEF Moved
  <2>2. CASE e = input[r].target
    BY <1>0, <1>1, <2>1, <2>2
  <2>3. CASE e # input[r].target
    BY <1>0, <2>1, <2>3
  <2> QED
    BY <2>2, <2>3
<1>2. CASE Copied(r)
  <2>1. /\ rows[r].rev = 0 /\ ~ rows[r].deleted
        /\ plan[r].copy \in Row /\ plan[r].copy.rev = 1
        /\ rows' = [rows EXCEPT ![r] = plan[r].copy]
    BY <1>2 DEF Copied
  <2> QED
    BY <1>0, <1>2, <2>1
<1>3. CASE Reported(r)
  BY <1>0, <1>3 DEF Reported
<1> QED
  BY <1>1, <1>2, <1>3 DEF Settled

LEMMA SettledTypes ==
  ASSUME Inv, NEW r \in Request, pc[r] = "commit", Settled(r)
  PROVE  TypeOK'
<1>0. TypeOK /\ input[r].op \in OperationId
  BY CommitContext
<1>1. rows' \in [Entity -> Row]
  BY <1>0, CommitContext DEF TypeOK, Settled, Moved, Copied, Reported
<1>2. tombstones' \in [Entity -> Nat]
  <2>1. input[r].base \in Nat
    BY CommitContext
  <2>2. input[r].base + 1 \in Nat
    BY <2>1
  <2> QED
    BY <1>0, <2>2 DEF TypeOK, Settled, Moved, Copied, Reported
<1>3. receipts' \in [OperationId -> Receipt \cup {None}]
  BY <1>0, CommitContext DEF TypeOK, Settled
<1>4. effects' \in SUBSET Effect
  <2>1. [by |-> r, op |-> input[r].op, key |-> input[r].target, base |-> input[r].base] \in Effect
    BY CommitContext DEF Effect
  <2> QED
    BY <1>0, <2>1 DEF TypeOK, Settled, Moved, Copied, Reported
<1>5. pc' \in [Request -> {"idle", "receipt", "entity", "write", "commit", "replay", "done"}]
      /\ reply' \in [Request -> Result \cup {None}]
  BY <1>0, CommitContext DEF TypeOK, Settled, Answer
<1>6. plan' \in [Request -> Plan] /\ lock' \in [Entity -> Request \cup {None}]
  BY <1>0, NoPlanType DEF TypeOK, Settled, Release
<1>7. UNCHANGED <<readable, supported, input, attempts>>
  BY DEF Settled
<1> QED
  BY <1>0, <1>1, <1>2, <1>3, <1>4, <1>5, <1>6, <1>7 DEF TypeOK

LEMMA SettledFrame ==
  ASSUME Inv, NEW r \in Request, pc[r] = "commit", Settled(r)
  PROVE  Frame(r)
<1>0. TypeOK
  BY DEF Inv
<1>1. \A e \in Entity, s \in Request \ {r} : lock[e] = s <=> lock'[e] = s
  BY ReaderConstants DEF Settled, Release
<1> QED
  BY <1>0, <1>1 DEF Frame, Settled, Answer, TypeOK

LEMMA SettledOthers ==
  ASSUME Inv, NEW r \in Request, pc[r] = "commit", Settled(r), NEW s \in Request \ {r}
  PROVE  CallHolds(s)' /\ ReplyHolds(s)'
<1> DEFINE in == input[s]
           row == rows[in.target]
<1>1. pc'[s] = pc[s] /\ input'[s] = in /\ plan'[s] = plan[s] /\ reply'[s] = reply[s]
  BY SettledFrame DEF Frame
<1>2. TypeOK /\ CallHolds(s) /\ ReplyHolds(s)
  BY RepliesHold DEF Inv, CallsHold
<1>3. effects \subseteq effects'
  BY DEF Settled, Moved, Copied, Reported
<1>4. Rival(s) => Rival(s)'
  BY <1>1, <1>3 DEF Rival
<1>5. Asked(s)'
  BY <1>1, <1>2 DEF CallHolds, Asked
<1>6. pc[s] \notin {"write", "commit", "replay"} => CallHolds(s)'
  <2>1. SUFFICES ASSUME pc[s] \notin {"write", "commit", "replay"} PROVE CallHolds(s)'
    OBVIOUS
  <2>2. ~ WantsWrite(s)' /\ pc'[s] # "commit" /\ pc'[s] # "replay"
    BY <1>1, <2>1 DEF WantsWrite
  <2> QED
    BY <1>5, <2>2 DEF CallHolds
<1>7. pc[s] \in {"write", "commit"} => CallHolds(s)'
  <2>0. SUFFICES ASSUME pc[s] \in {"write", "commit"} PROVE CallHolds(s)'
    OBVIOUS
  <2>1. /\ in \in Inputs /\ in \in Input /\ in.target \in Entity /\ in.base \in Nat
        /\ Valid(in) /\ row \in Row /\ row.rev \in Nat
    BY <1>2, <2>0, TargetType, InputFields DEF CallHolds, Asked, TypeOK, Row
  <2>2. CASE WantsWrite(s)
    <3>1. Writing(s)
      BY <1>2, <2>2 DEF CallHolds
    <3>2. rows'[in.target] = row \/ (rows'[in.target].rev > in.base /\ lock[in.target] = r)
      <4>1. CASE rows'[in.target] # row
        <5>1. in.target # r \/ row.rev # 0
          BY <2>1, <3>1, CreatesNoCopy DEF Writing, CopyId
        <5> QED
          BY <2>1, <3>1, <4>1, <5>1, RowsGrow DEF Writing
      <4> QED
        BY <4>1
    <3>3. Writing(s)'
      <4>1. rows'[in.target].rev \in Nat
        BY <2>1, RowsGrow DEF Row
      <4> QED
        BY <1>1, <2>1, <3>1, <3>2, <4>1 DEF Writing
    <3>4. pc[s] = "commit" => Holding(s)'
      <4>1. SUFFICES ASSUME pc[s] = "commit" PROVE Holding(s)'
        OBVIOUS
      <4>2. Holding(s)
        BY <1>2, <2>2, <4>1 DEF CallHolds, WantsWrite
      <4>3. lock'[in.target] = s
        BY <2>1, <4>2, SettledFrame DEF Holding, Frame
      <4> QED
        BY <1>1, <3>2, <4>2, <4>3 DEF Holding
    <3>5. WantsWrite(s)' /\ pc'[s] # "replay"
      BY <1>1, <2>0, <2>2 DEF WantsWrite
    <3> QED
      BY <1>1, <1>5, <3>3, <3>4, <3>5 DEF CallHolds, WantsWrite
  <2>3. CASE ~ WantsWrite(s)
    <3>1. Reporting(s) /\ pc[s] = "commit" /\ plan[s].write = NoRow
      BY <1>2, <2>0, <2>3 DEF CallHolds, WantsWrite
    <3>2. Satisfied(in, row) => Satisfied(in, rows'[in.target])
      <4>1. CASE rows'[in.target] # row /\ Satisfied(in, row)
        <5>1. in.kind = "BOOKMARK_ADD" /\ row.rev > 0 /\ row.content = in.content
          BY <2>1, <4>1, RowsGrow DEF Satisfied
        <5>2. Moved(r) /\ in.target = input[r].target
          BY <2>1, <4>1, <5>1, RowsGrow
        <5>3. input[r].kind = "BOOKMARK_REMOVE"
          <6>1. in.target \in Bookmark /\ in.target \in Table(input[r].kind)
            BY <2>1, <5>1, <5>2, TargetType, CommitContext DEF Table
          <6>2. input[r].kind \in Kind
            BY CommitContext, InputFields
          <6>3. input[r].kind \in {"BOOKMARK_ADD", "BOOKMARK_REMOVE"}
            BY <6>1, <6>2, ReaderConstants DEF Table, Kind, CopyId
          <6>4. input[r].base > 0
            BY <5>1, <5>2 DEF Moved
          <6>5. Valid(input[r])
            BY CommitContext
          <6> QED
            BY <6>3, <6>4, <6>5 DEF Valid
        <5>4. rows'[in.target] = plan[r].write
          BY <2>1, <5>2, <1>2 DEF Moved, TypeOK
        <5>5. rows'[in.target].content = in.content /\ rows'[in.target].rev > 0
          BY <2>1, <5>1, <5>2, <5>3, <5>4 DEF Moved
        <5> QED
          BY <5>1, <5>5 DEF Satisfied
      <4> QED
        BY <4>1
    <3>3. Reporting(s)'
      BY <1>1, <3>1, <3>2 DEF Reporting
    <3>4. ~ WantsWrite(s)' /\ pc'[s] # "replay" /\ plan'[s].write = NoRow
      BY <1>1, <3>1 DEF WantsWrite
    <3> QED
      BY <1>5, <3>3, <3>4 DEF CallHolds
  <2> QED
    BY <2>2, <2>3
<1>8. pc[s] = "replay" => CallHolds(s)'
  <2>0. SUFFICES ASSUME pc[s] = "replay" PROVE CallHolds(s)'
    OBVIOUS
  <2>1. in.op \in OperationId
    BY <1>2, <2>0, TargetType, InputFields DEF CallHolds, Asked
  <2>2. receipts[in.op] # None => receipts'[in.op] # None
    BY <2>1, ReceiptsGrow
  <2>3. (receipts[input[s].op] # None \/ Rival(s))'
    BY <1>1, <1>2, <1>4, <2>0, <2>2 DEF CallHolds
  <2>4. ~ WantsWrite(s)' /\ pc'[s] # "commit"
    BY <1>1, <2>0 DEF WantsWrite
  <2> QED
    BY <1>5, <2>3, <2>4 DEF CallHolds
<1>9. ReplyHolds(s)'
  <2>1. CASE reply[s] # None /\ reply[s].kind \in {"APPLIED", "CONFLICT"}
    <3>1. pc[s] = "done" /\ in \in Input /\ in.op \in OperationId /\ reply[s] \in Result
      BY <1>2, <2>1, TargetType, InputFields DEF CallHolds, Asked, TypeOK
    <3>2. receipts[in.op] = [input |-> in, result |-> reply[s]]
      BY <1>2, <2>1 DEF ReplyHolds
    <3>3. receipts[in.op] # None
      BY <3>1, <3>2, NoneIsNoResult DEF Receipt
    <3> QED
      BY <1>1, <1>2, <1>4, <3>1, <3>2, <3>3, ReceiptsGrow DEF ReplyHolds
  <2>2. CASE ~ (reply[s] # None /\ reply[s].kind \in {"APPLIED", "CONFLICT"})
    BY <1>1, <1>2, <1>4, <2>2 DEF ReplyHolds
  <2> QED
    BY <2>1, <2>2
<1> QED
  BY <1>6, <1>7, <1>8, <1>9, <1>2 DEF TypeOK

LEMMA SettledStore ==
  ASSUME Inv, NEW r \in Request, pc[r] = "commit", Settled(r)
  PROVE  RowsGrounded' /\ EffectsRecorded' /\ NoLostUpdate' /\ ReceiptsFinal'
           /\ TombstonesMatch'
<1> DEFINE in == input[r]
           x0 == [by |-> r, op |-> in.op, key |-> in.target, base |-> in.base]
<1>0. /\ TypeOK /\ in.op \in OperationId /\ in.target \in Entity /\ in.base \in Nat
      /\ r \in Entity /\ r \in CopyId /\ in \in Inputs /\ Valid(in)
      /\ rows \in [Entity -> Row]
  BY CommitContext DEF TypeOK
<1>1. \A e \in Entity : /\ rows[e].rev \in Nat /\ rows'[e].rev \in Nat
                        /\ rows'[e].rev >= rows[e].rev
                        /\ rows'[e].rev = rows[e].rev => rows'[e] = rows[e]
  <2> TAKE e \in Entity
  <2>1. rows[e].rev \in Nat /\ rows'[e].rev \in Nat
    BY RowsGrow DEF Row
  <2> QED
    BY <2>1, RowsGrow
<1>2. RowsGrounded'
  <2>1. \A e \in Entity : rows'[e].rev = 0 => ~ rows'[e].deleted
    BY <1>1 DEF Inv, RowsGrounded
  <2>2. ~ rows'[Progress].deleted
    <3>1. Progress \in Entity /\ Progress # r
      BY ReaderConstants DEF Entity
    <3>2. CASE rows'[Progress] # rows[Progress]
      <4>1. Moved(r) /\ in.target = Progress
        BY <3>1, <3>2, RowsGrow
      <4>2. in.kind = "PROGRESS_SET"
        BY <1>0, <4>1, TargetType, InputFields, ReaderConstants DEF Table, Kind, CopyId
      <4>3. rows'[Progress] = plan[r].write
        BY <1>0, <4>1 DEF Moved
      <4> QED
        BY <4>1, <4>2, <4>3 DEF Moved
    <3> QED
      BY <3>2 DEF Inv, RowsGrounded
  <2>3. \A s \in Request : rows'[s].rev > 0 => pc'[s] = "done"
    <3> SUFFICES ASSUME NEW s \in Request, rows'[s].rev > 0 PROVE pc'[s] = "done"
      OBVIOUS
    <3>1. s \in Entity /\ s \in CopyId
      BY DEF Entity, CopyId
    <3>2. CASE s = r
      BY <1>0, <3>2 DEF Settled, Answer, TypeOK
    <3>3. CASE s # r
      <4>1. pc'[s] = pc[s]
        BY <3>3, SettledFrame DEF Frame
      <4>2. CASE rows'[s] = rows[s]
        BY <4>1, <4>2 DEF Inv, RowsGrounded
      <4>3. CASE rows'[s] # rows[s]
        <5>1. Moved(r) /\ in.target = s
          BY <3>1, <3>3, <4>3, RowsGrow
        <5>2. in.base # 0
          BY <1>0, <3>1, <5>1, CreatesNoCopy
        <5>3. rows[s].rev > 0
          BY <1>0, <5>1, <5>2 DEF Moved
        <5> QED
          BY <4>1, <5>3 DEF Inv, RowsGrounded
      <4> QED
        BY <4>2, <4>3
    <3> QED
      BY <3>2, <3>3
  <2>4. \A e \in Entity \ CopyId : rows'[e].rev > 0 =>
          \E x \in effects' : x.key = e /\ x.base = 0
    <3> SUFFICES ASSUME NEW e \in Entity \ CopyId, rows'[e].rev > 0
                 PROVE  \E x \in effects' : x.key = e /\ x.base = 0
      OBVIOUS
    <3>1. effects \subseteq effects'
      BY DEF Settled, Moved, Copied, Reported
    <3>2. CASE rows[e].rev > 0
      BY <3>1, <3>2 DEF Inv, RowsGrounded
    <3>3. CASE rows[e].rev = 0
      <4>1. Moved(r) /\ e = in.target
        BY <1>0, <3>3, RowsGrow
      <4>2. x0 \in effects' /\ in.base = 0
        BY <3>3, <4>1 DEF Moved
      <4> QED
        BY <4>1, <4>2
    <3> QED
      BY <1>1, <3>2, <3>3
  <2> QED
    BY <2>1, <2>2, <2>3, <2>4 DEF RowsGrounded
<1>3. \A x \in effects' : x \in effects \/ (x = x0 /\ Moved(r))
  BY DEF Settled, Moved, Copied, Reported
<1>4. EffectsRecorded' /\ NoLostUpdate'
  <2>1. \A x \in effects : /\ x.op \in OperationId /\ x.key \in Entity /\ x.base \in Nat
                           /\ receipts'[x.op] = receipts[x.op] /\ receipts[x.op] # None
                           /\ rows[x.key].rev > x.base
    <3> TAKE x \in effects
    <3>1. x.op \in OperationId /\ x.key \in Entity /\ x.base \in Nat
      BY <1>0 DEF TypeOK, Effect
    <3>2. receipts[x.op] # None /\ rows[x.key].rev > x.base
      BY DEF Inv, EffectsRecorded
    <3> QED
      BY <3>1, <3>2, ReceiptsGrow
  <2>2. EffectsRecorded'
    <3> SUFFICES ASSUME NEW x \in effects'
                 PROVE  /\ receipts'[x.op] # None
                        /\ receipts'[x.op].result = Applied(x.by, x.base + 1)
                        /\ receipts'[x.op].input.target = x.key
                        /\ receipts'[x.op].input.base = x.base
                        /\ rows'[x.key].rev > x.base
      BY DEF EffectsRecorded
    <3>1. CASE x \in effects
      <4>1. rows'[x.key].rev > x.base
        BY <1>1, <2>1, <3>1
      <4> QED
        BY <2>1, <3>1, <4>1 DEF Inv, EffectsRecorded
    <3>2. CASE x = x0 /\ Moved(r)
      <4>1. receipts'[in.op] = [input |-> in, result |-> plan[r].result]
            /\ receipts'[in.op] # None
        BY <1>0, ReceiptsGrow
      <4>2. plan[r].result = Applied(r, in.base + 1) /\ rows'[in.target].rev = in.base + 1
        BY <1>0, <3>2 DEF Moved
      <4> QED
        BY <1>0, <3>2, <4>1, <4>2
    <3> QED
      BY <1>3, <3>1, <3>2
  <2>3. NoLostUpdate'
    <3>1. Moved(r) => \A x \in effects : ~ (x.key = in.target /\ x.base = in.base)
      <4> SUFFICES ASSUME Moved(r), NEW x \in effects, x.key = in.target, x.base = in.base
                   PROVE  FALSE
        OBVIOUS
      <4>1. rows[in.target].rev = in.base
        BY DEF Moved
      <4>2. rows[x.key].rev > x.base
        BY <2>1
      <4> QED
        BY <1>0, <4>1, <4>2
    <3>2. \A x, y \in effects : x.key = y.key /\ x.base = y.base => x = y
      BY DEF Inv, NoLostUpdate
    <3> SUFFICES ASSUME NEW x \in effects', NEW y \in effects',
                        x.key = y.key, x.base = y.base
                 PROVE  x = y
      BY DEF NoLostUpdate
    <3>3. x0.key = in.target /\ x0.base = in.base
      OBVIOUS
    <3> HIDE DEF x0
    <3> QED
      BY <1>3, <3>1, <3>2, <3>3
  <2> QED
    BY <2>2, <2>3
<1>5. ReceiptsFinal'
  <2> SUFFICES ASSUME NEW op \in OperationId, receipts'[op] # None
               PROVE  receipts'[op].result.kind \in {"APPLIED", "CONFLICT"}
    BY DEF ReceiptsFinal
  <2>1. CASE op # in.op
    BY <2>1, ReceiptsGrow DEF Inv, ReceiptsFinal
  <2>2. CASE op = in.op
    <3>1. in.base + 1 \in Nat
      BY <1>0
    <3>2. plan[r].result.kind \in {"APPLIED", "CONFLICT"}
      BY <3>1, ResultTypes DEF Settled, Moved, Copied, Reported
    <3>3. receipts'[op] = [input |-> in, result |-> plan[r].result]
      BY <2>2, ReceiptsGrow
    <3> QED
      BY <3>2, <3>3
  <2> QED
    BY <2>1, <2>2
<1>6. TombstonesMatch'
  <2> SUFFICES ASSUME NEW e \in Entity
               PROVE  tombstones'[e] = IF rows'[e].deleted THEN rows'[e].rev ELSE 0
    BY DEF TombstonesMatch
  <2>1. tombstones[e] = IF rows[e].deleted THEN rows[e].rev ELSE 0
    BY DEF Inv, TombstonesMatch
  <2>2. tombstones \in [Entity -> Nat]
    BY <1>0 DEF TypeOK
  <2>3. CASE Moved(r)
    BY <1>0, <2>1, <2>2, <2>3 DEF Moved
  <2>4. CASE Copied(r)
    BY <1>0, <2>1, <2>2, <2>4 DEF Copied
  <2>5. CASE Reported(r)
    BY <2>1, <2>5 DEF Reported
  <2> QED
    BY <2>3, <2>4, <2>5 DEF Settled
<1> QED
  BY <1>2, <1>4, <1>5, <1>6

LEMMA SettledKeeps ==
  ASSUME Inv, NEW r \in Request, pc[r] = "commit", Settled(r)
  PROVE  Inv'
<1>0. TypeOK /\ CallHolds(r)
  BY DEF Inv, CallsHold
<1>1. TypeOK' /\ RowsGrounded' /\ EffectsRecorded' /\ NoLostUpdate' /\ ReceiptsFinal'
      /\ TombstonesMatch'
  BY SettledTypes, SettledStore
<1>2. \A s \in Request \ {r} : CallHolds(s)' /\ ReplyHolds(s)'
  BY SettledOthers
<1>3. LocksHeld'
  <2> SUFFICES ASSUME NEW e \in Entity, lock'[e] # None
               PROVE  /\ pc'[lock'[e]] = "commit"
                      /\ plan'[lock'[e]].write # NoRow
                      /\ input'[lock'[e]].target = e
    BY DEF LocksHeld
  <2>1. lock'[e] = lock[e] /\ lock[e] \in Request \ {r}
    BY <1>0 DEF TypeOK, Settled, Release
  <2>2. pc[lock[e]] = "commit" /\ plan[lock[e]].write # NoRow /\ input[lock[e]].target = e
    BY <2>1 DEF Inv, LocksHeld
  <2> QED
    BY <2>1, <2>2, SettledFrame DEF Frame
<1>4. CallHolds(r)' /\ ReplyHolds(r)'
  <2>1. pc'[r] = "done" /\ input'[r] = input[r] /\ reply'[r] = plan[r].result
    BY <1>0 DEF Settled, Answer, TypeOK
  <2>2. plan[r].result # Refused("CONCURRENT")
    <3>1. input[r].base \in Nat
      BY CommitContext
    <3>2. input[r].base + 1 \in Nat
      BY <3>1
    <3>3. plan[r].result.kind \in {"APPLIED", "CONFLICT"}
      BY <3>2, ResultTypes DEF Settled, Moved, Copied, Reported
    <3> QED
      BY <3>3, RefusedType DEF ResultKind
  <2>3. receipts'[input[r].op] = [input |-> input[r], result |-> plan[r].result]
    <3>1. input[r].op \in OperationId
      BY CommitContext
    <3> QED
      BY <3>1, ReceiptsGrow
  <2>4. CallHolds(r)'
    BY <1>0, <2>1, CommitContext DEF CallHolds, Asked, WantsWrite
  <2>5. ReplyHolds(r)'
    BY <2>1, <2>2, <2>3 DEF ReplyHolds
  <2> QED
    BY <2>4, <2>5
<1> QED
  BY <1>1, <1>2, <1>3, <1>4, Assembled

LEMMA CommitKeeps ==
  ASSUME Inv, NEW r \in Request, Commit(r)
  PROVE  Inv'
<1>0. pc[r] = "commit"
  BY DEF Commit
<1>1. CASE ~ HasReceipt(input[r])
  BY <1>0, <1>1, CommitCases, SettledKeeps
<1>2. CASE HasReceipt(input[r])
  <2>0. TypeOK /\ CallHolds(r)
    BY DEF Inv, CallsHold
  <2>1. /\ receipts[input[r].op] # None
        /\ Release(r)
        /\ pc' = [pc EXCEPT ![r] = "replay"]
        /\ plan' = [plan EXCEPT ![r] = NoPlan]
        /\ UNCHANGED <<rows, tombstones, receipts, effects, readable, supported, input,
                       attempts, reply>>
    BY <1>2 DEF Commit, HasReceipt
  <2>2. lock' \in [Entity -> Request \cup {None}]
    BY <2>0, <2>1 DEF TypeOK, Release
  <2>3. \A e \in Entity : lock'[e] # r
    BY <2>1, ReaderConstants DEF Release
  <2>4. \A e \in Entity, s \in Request \ {r} : lock[e] = s <=> lock'[e] = s
    BY <2>1, ReaderConstants DEF Release
  <2>5. CallHolds(r)'
    <3>1. pc'[r] = "replay" /\ input'[r] = input[r] /\ reply'[r] = reply[r]
      BY <2>0, <2>1 DEF TypeOK
    <3> QED
      BY <1>0, <2>0, <2>1, <3>1 DEF CallHolds, Asked, WantsWrite
  <2> QED
    BY <1>0, <2>1, <2>2, <2>3, <2>4, <2>5, NoPlanType, AdvancedKeeps
<1> QED
  BY <1>1, <1>2

LEMMA StutterKeeps ==
  ASSUME Inv, UNCHANGED vars
  PROVE  Inv'
<1>1. UNCHANGED <<rows, tombstones, receipts, pc, input, plan, attempts, reply, lock, effects>>
      /\ UNCHANGED <<readable, supported>>
  BY DEF vars
<1>2. TypeOK'
  BY <1>1 DEF Inv, TypeOK
<1>3. \A s \in Request : CallHolds(s)' /\ ReplyHolds(s)'
  <2> TAKE s \in Request
  <2>1. CallHolds(s) /\ ReplyHolds(s)
    BY RepliesHold DEF Inv, CallsHold
  <2>2. CallHolds(s)'
    BY <1>1, <2>1 DEF CallHolds, Asked, WantsWrite, Writing, Holding, Reporting, Rival
  <2>3. ReplyHolds(s)'
    BY <1>1, <2>1 DEF ReplyHolds, Rival
  <2> QED
    BY <2>2, <2>3
<1>4. LocksHeld'
  BY <1>1 DEF Inv, LocksHeld
<1>5. RowsGrounded' /\ EffectsRecorded' /\ NoLostUpdate' /\ ReceiptsFinal' /\ TombstonesMatch'
  BY <1>1, StoreKept
<1> QED
  BY <1>2, <1>3, <1>4, <1>5, Assembled

LEMMA NextKeeps == Inv /\ [Next]_vars => Inv'
<1> SUFFICES ASSUME Inv, [Next]_vars PROVE Inv'
  OBVIOUS
<1>1. ASSUME NEW r \in Request, NEW in \in Inputs, Submit(r, in) PROVE Inv'
  BY <1>1, SubmitKeeps
<1>2. ASSUME NEW r \in Request, Step(r) PROVE Inv'
  BY <1>2, ReadReceiptKeeps, ReadEntityKeeps, WriteKeeps, CommitKeeps, ReplayReadKeeps DEF Step
<1>3. ASSUME NEW r \in Request, Fail(r) PROVE Inv'
  BY <1>3, FailKeeps
<1>4. CASE SetAccess \/ \E v \in Version : PublishVersion(v)
  BY <1>4, AccessKeeps
<1>5. CASE UNCHANGED vars
  BY <1>5, StutterKeeps
<1> QED
  BY <1>1, <1>2, <1>3, <1>4, <1>5 DEF Next

----
(* The theorems.                                                           *)

(* The inductive invariant holds throughout every behaviour of the service. *)
THEOREM Invariance == Spec => []Inv
<1>1. Init => Inv
  BY InitInv
<1>2. Inv /\ [Next]_vars => Inv'
  BY NextKeeps
<1> QED
  BY <1>1, <1>2, PTL DEF Spec

(* Every variable keeps its type: in particular every answer is a result,  *)
(* and the replay reads stay within their bound.                           *)
THEOREM TypeCorrect == Spec => []TypeOK
<1>1. Inv => TypeOK
  BY DEF Inv
<1> QED
  BY <1>1, Invariance, PTL

(* However often and however concurrently an operation is sent, its change *)
(* is committed at most once (applyOperation).                             *)
THEOREM AtMostOnce == Spec => []ExactlyOnce
<1>1. Inv => ExactlyOnce
  <2> SUFFICES ASSUME Inv, NEW x \in effects, NEW y \in effects, x.op = y.op
               PROVE  x = y
    BY DEF ExactlyOnce
  <2>1. x \in Effect /\ y \in Effect
    BY DEF Inv, TypeOK
  <2>2. x.key = y.key /\ x.base = y.base
    BY DEF Inv, EffectsRecorded
  <2> QED
    BY <2>2 DEF Inv, NoLostUpdate
<1> QED
  BY <1>1, Invariance, PTL

(* No two committed changes start from the same revision of a row (the     *)
(* conditional updates of every apply* method).                            *)
THEOREM NoUpdateLost == Spec => []NoLostUpdate
<1>1. Inv => NoLostUpdate
  BY DEF Inv
<1> QED
  BY <1>1, Invariance, PTL

(* Every acknowledgement is the durable outcome of exactly the envelope it *)
(* answers (execute, replayAfterConflict, replayOutcome).                  *)
THEOREM AnswersDurable == Spec => []ReplyIsDurable
<1>1. Inv => ReplyIsDurable
  BY DEF Inv
<1> QED
  BY <1>1, Invariance, PTL

(* CONCURRENT_OPERATION_IN_PROGRESS always has a rival that won            *)
(* (replayAfterConflict).                                                  *)
THEOREM ConcurrentHasRival == Spec => []ConcurrentMeansRival
<1>1. Inv => ConcurrentMeansRival
  BY DEF Inv
<1> QED
  BY <1>1, Invariance, PTL

(* Tombstones and deleted rows agree, revision included (upsertTombstone). *)
THEOREM TombstonesAgree == Spec => []TombstonesMatch
<1>1. Inv => TombstonesMatch
  BY DEF Inv
<1> QED
  BY <1>1, Invariance, PTL

(* What one step may do to the store: nothing, or settle one operation.    *)
LEMMA StoreSteps ==
  ASSUME Inv, [Next]_vars
  PROVE  \/ UNCHANGED <<rows, tombstones, receipts>>
         \/ \E r \in Request : pc[r] = "commit" /\ Settled(r)
<1>1. ASSUME NEW r \in Request, NEW in \in Inputs, Submit(r, in)
      PROVE  UNCHANGED <<rows, tombstones, receipts>>
  BY <1>1 DEF Submit
<1>2. ASSUME NEW r \in Request, Step(r) \/ Fail(r)
      PROVE  \/ UNCHANGED <<rows, tombstones, receipts>>
             \/ pc[r] = "commit" /\ Settled(r)
  <2>1. CASE ReadReceipt(r) \/ ReadEntity(r) \/ ReplayRead(r) \/ Fail(r)
    BY <2>1 DEF ReadReceipt, ReadEntity, ReplayRead, Fail
  <2>2. CASE Write(r)
    BY <2>2 DEF Write
  <2>3. CASE Commit(r) /\ HasReceipt(input[r])
    BY <2>3 DEF Commit
  <2>4. CASE Commit(r) /\ ~ HasReceipt(input[r])
    BY <2>4, CommitCases DEF Commit
  <2> QED
    BY <1>2, <2>1, <2>2, <2>3, <2>4 DEF Step
<1>3. CASE SetAccess \/ \E v \in Version : PublishVersion(v)
  BY <1>3 DEF SetAccess, PublishVersion
<1>4. CASE UNCHANGED vars
  BY <1>4 DEF vars
<1> QED
  BY <1>1, <1>2, <1>3, <1>4 DEF Next

(* A deleted identity is never changed again (applyBookmarkAdd: "can never *)
(* be resurrected"; upsertTombstone).                                      *)
THEOREM DeletionIsFinal == Spec => DeletedIsFinal
<1>1. ASSUME Inv, [Next]_vars
      PROVE  [\A e \in Entity : rows[e].deleted => rows'[e] = rows[e]]_vars
  BY <1>1, StoreSteps, RowsGrow
<1> QED
  BY <1>1, Invariance, PTL DEF Spec, DeletedIsFinal

(* A committing transaction is one step of the serial store.               *)
LEMMA SettledRefines ==
  ASSUME Inv, NEW r \in Request, pc[r] = "commit", Settled(r)
  PROVE  Store!Next
<1> DEFINE in == input[r]
           op == in.op
<1>0. /\ TypeOK /\ op \in OperationId /\ in.target \in Entity /\ in.base \in Nat
      /\ r \in Entity /\ Valid(in) /\ in \in Input
  BY CommitContext DEF TypeOK
<1>1. /\ receipts[op] = None /\ receipts'[op] # None
      /\ receipts'[op] = [input |-> in, result |-> plan[r].result]
      /\ \A other \in OperationId \ {op} : receipts'[other] = receipts[other]
  BY <1>0, ReceiptsGrow DEF Settled
<1>2. receipts'[op].input = in /\ receipts'[op].result = plan[r].result
  BY <1>1
<1>3. ASSUME NEW kind, plan[r].result.kind = kind PROVE Store!Settle(op, kind)
  BY <1>1, <1>2, <1>3 DEF Store!Settle
<1> HIDE DEF op
<1>4. CASE Moved(r)
  <2>1. in.base + 1 \in Nat
    BY <1>0
  <2>2. plan[r].result.kind = "APPLIED"
    BY <1>4, <2>1, ResultTypes DEF Moved
  <2>3. Store!Settle(op, "APPLIED")
    BY <1>3, <2>2
  <2>4. /\ rows[in.target].rev = in.base /\ ~ rows[in.target].deleted
        /\ rows' = [rows EXCEPT ![in.target] = plan[r].write]
        /\ plan[r].write.rev = in.base + 1
        /\ tombstones' = IF plan[r].write.deleted
                           THEN [tombstones EXCEPT ![in.target] = in.base + 1]
                           ELSE tombstones
    BY <1>4 DEF Moved
  <2>5. rows'[in.target] = plan[r].write
        /\ \A e \in Entity \ {in.target} : rows'[e] = rows[e]
    BY <1>0, <2>4 DEF TypeOK
  <2>6. Store!Apply(op)
    BY <1>2, <2>3, <2>4, <2>5 DEF Store!Apply, Store!RowsKept
  <2> QED
    BY <1>0, <2>6 DEF Store!Next, op
<1>5. CASE Copied(r)
  <2>1. Store!Settle(op, "CONFLICT")
    BY <1>3, <1>5 DEF Copied
  <2>2. /\ rows[r].rev = 0 /\ rows'[r].rev = 1 /\ rows'[r].origin = op
        /\ receipts'[op].result.copy = r /\ tombstones' = tombstones
        /\ \A e \in Entity \ {r} : rows'[e] = rows[e]
    BY <1>0, <1>2, <1>5 DEF Copied, TypeOK, op
  <2>3. Store!Refuse(op)
    BY <1>0, <2>1, <2>2 DEF Store!Refuse, Store!RowsKept
  <2> QED
    BY <1>0, <2>3 DEF Store!Next, op
<1>6. CASE Reported(r)
  <2>1. UNCHANGED <<rows, tombstones>>
    BY <1>6 DEF Reported
  <2>2. CASE plan[r].result.kind = "CONFLICT"
    <3>1. Store!Refuse(op)
      BY <1>3, <2>1, <2>2 DEF Store!Refuse, Store!RowsKept
    <3> QED
      BY <1>0, <3>1 DEF Store!Next, op
  <2>3. CASE plan[r].result.kind = "APPLIED"
    <3>1. Satisfied(in, rows[in.target])
      BY <1>6, <2>3 DEF Reported
    <3>2. Store!Acknowledge(op)
      BY <1>2, <1>3, <2>1, <2>3, <3>1 DEF Store!Acknowledge, Satisfied
    <3> QED
      BY <1>0, <3>2 DEF Store!Next, op
  <2> QED
    BY <1>6, <2>2, <2>3 DEF Reported
<1> QED
  BY <1>4, <1>5, <1>6 DEF Settled

(* The concurrent service implements the serial store: every behaviour of  *)
(* its transactions is, in the rows, tombstones and receipts it commits, a *)
(* behaviour of ReaderStore.                                               *)
THEOREM Refinement == Spec => RefinesReaderStore
<1>1. Init => Store!Init
  <2> SUFFICES ASSUME Init PROVE Store!Init
    OBVIOUS
  <2>1. \A e \in Entity : rows[e].rev = 0 /\ tombstones[e] = 0
    BY NoRowType DEF Init
  <2> QED
    BY <2>1 DEF Init, Store!Init
<1>2. ASSUME Inv, [Next]_vars PROVE [Store!Next]_(Store!vars)
  <2>1. CASE UNCHANGED <<rows, tombstones, receipts>>
    BY <2>1 DEF Store!vars
  <2>2. CASE \E r \in Request : pc[r] = "commit" /\ Settled(r)
    BY <1>2, <2>2, SettledRefines
  <2> QED
    BY <1>2, <2>1, <2>2, StoreSteps
<1> QED
  BY <1>1, <1>2, Invariance, PTL DEF Spec, RefinesReaderStore, Store!Spec

----
(* Conflict copies, and what a moved row keeps.  A plan that moves a row   *)
(* still at its base keeps the row's completion time or clears it, and     *)
(* keeps the origin of a copy; a plan that mints a copy links it to a      *)
(* highlight that exists.                                                  *)
Keeps(d, r, in) ==
  LET row == rows[in.target]
  IN  /\ d.write # NoRow /\ row.rev = in.base =>
           /\ in.target = Progress /\ row.completed # None /\ d.write.completed # None =>
                d.write.completed = row.completed
           /\ in.target \in CopyId =>
                d.write.origin = row.origin /\ d.write.source = row.source
      /\ d.write = NoRow =>
           /\ in.target \in CopyId /\ d.result.kind = "CONFLICT" => d.result.copy = r
           /\ d.result.copy # None => d.copy # NoRow
           /\ d.copy # NoRow => /\ d.copy.source \in Highlight
                                /\ rows[d.copy.source].rev > 0

PlansKeep ==
  \A r \in Request : pc[r] \in {"write", "commit"} => Keeps(plan[r], r, input[r])

(* A copy names the operation it keeps and the highlight it belongs to.    *)
CopyRows ==
  \A c \in CopyId : rows[c].rev > 0 =>
    /\ rows[c].origin \in OperationId
    /\ rows[c].source \in Highlight
    /\ rows[rows[c].source].rev > 0
    /\ receipts[rows[c].origin] # None
    /\ receipts[rows[c].origin].result.copy = c

CopyReceipts ==
  \A op \in OperationId : receipts[op] # None /\ receipts[op].result.copy # None =>
    /\ rows[receipts[op].result.copy].rev > 0
    /\ rows[receipts[op].result.copy].origin = op

OriginInv ==
  /\ PlansKeep
  /\ CopyRows
  /\ CopyReceipts
  /\ LostRetargetKeepsEdit

(* What the type of rows says of one row.                                  *)
LEMMA RowFields ==
  ASSUME TypeOK, NEW e \in Entity
  PROVE  rows[e] \in Row /\ rows[e].rev \in Nat /\ rows[e].deleted \in BOOLEAN
  BY DEF TypeOK, Row

(* Only a progress operation names the progress row, only an edit a copy.  *)
LEMMA TargetKinds ==
  ASSUME NEW in \in Inputs
  PROVE  /\ in.target = Progress => in.kind = "PROGRESS_SET"
         /\ in.kind = "PROGRESS_SET" => in.target = Progress
         /\ in.target \in CopyId => in.kind = "ANNOTATION_UPDATE"
         /\ in.kind = "ANNOTATION_UPDATE" => in.target \in Highlight \cup CopyId
         /\ in.kind = "ANNOTATION_DELETE" => in.target \in Highlight
         /\ Progress \notin CopyId
<1>1. in.kind \in Kind /\ in.target \in Table(in.kind)
  BY TargetType, InputFields
<1>2. Progress \notin Bookmark \cup Highlight \cup CopyId
      /\ (Bookmark \cup Highlight) \cap CopyId = {}
  BY ReaderConstants DEF CopyId
<1> QED
  BY <1>1, <1>2 DEF Table, Kind

LEMMA MintKeeps ==
  ASSUME TypeOK, CopyRows, NEW r \in Request, NEW in \in Inputs, NEW content,
         in.target \in Highlight \cup CopyId, rows[in.target].rev > 0
  PROVE  Keeps(Mint(r, in, rows[in.target], content), r, in)
<1> DEFINE row == rows[in.target]
           m == Mint(r, in, row, content)
           source == SourceOf(in, row)
<1>1. m.write = NoRow /\ m.result.copy = r
  BY DEF Mint, Conflict
<1>2. m.copy.source = source
  BY DEF Mint, NoRow
<1>3. source \in Highlight /\ rows[source].rev > 0
  BY DEF SourceOf, CopyRows
<1> HIDE DEF m, source
<1>4. m.copy # NoRow
  BY <1>2, <1>3, ReaderConstants DEF NoRow, Entity
<1>5. Keeps(m, r, in)
  BY <1>1, <1>2, <1>3, <1>4 DEF Keeps
<1> QED
  BY <1>5 DEF m

LEMMA ReportKeeps ==
  ASSUME NEW r \in Request, NEW in \in Inputs, NEW result, result.copy = None,
         in.target \in CopyId => result.kind # "CONFLICT"
  PROVE  Keeps(Report(result), r, in)
<1>1. Report(result).write = NoRow /\ Report(result).copy = NoRow
      /\ Report(result).result = result
  BY DEF Report
<1> QED
  BY <1>1 DEF Keeps

LEMMA PutKeeps ==
  ASSUME NEW r \in Request, NEW in \in Inputs, NEW new, new # NoRow,
         in.target = Progress /\ rows[in.target].completed # None /\ new.completed # None =>
           new.completed = rows[in.target].completed,
         in.target \in CopyId => /\ new.origin = rows[in.target].origin
                                 /\ new.source = rows[in.target].source
  PROVE  Keeps(Put(r, new), r, in)
<1>1. Put(r, new).write = new
  BY DEF Put
<1> QED
  BY <1>1 DEF Keeps

LEMMA ConflictReportKeeps ==
  ASSUME NEW r \in Request, NEW in \in Inputs, NEW n, in.target \notin CopyId
  PROVE  Keeps(Report(Conflict(n, None)), r, in)
  BY ReportKeeps DEF Conflict

LEMMA AppliedReportKeeps ==
  ASSUME NEW r \in Request, NEW in \in Inputs, NEW n
  PROVE  Keeps(Report(Applied(r, n)), r, in)
  BY ReportKeeps DEF Applied

LEMMA DeniedReportKeeps ==
  ASSUME NEW r \in Request, NEW in \in Inputs
  PROVE  Keeps(Report(Refused("ACCESS_DENIED")), r, in)
  BY ReportKeeps DEF Refused

LEMMA ProgressKeeps ==
  ASSUME TypeOK, NEW r \in Request, NEW in \in Inputs, in.kind = "PROGRESS_SET"
  PROVE  Keeps(ProgressPlan(r, in, rows[in.target]), r, in)
<1> DEFINE row == rows[in.target]
           completed == CompletedAt(r, in, row.completed)
           new == [NoRow EXCEPT !.rev = in.base + 1, !.content = in.content,
                                !.completed = completed]
<1>0. in.target = Progress /\ in.target \notin CopyId /\ in.base \in Nat
  BY TargetKinds, TargetType, InputFields
<1>1. CASE row.rev = in.base
  <2>1. new.completed = completed /\ new.rev = in.base + 1
    BY DEF NoRow
  <2>2. row.completed # None /\ completed # None => completed = row.completed
    BY DEF CompletedAt
  <2>3. ProgressPlan(r, in, row) = Put(r, new)
    BY <1>1 DEF ProgressPlan
  <2> HIDE DEF new, completed
  <2>4. new # NoRow
    BY <1>0, <2>1, NoRowType
  <2> QED
    BY <1>0, <2>1, <2>2, <2>3, <2>4, PutKeeps
<1>2. CASE row.rev # in.base
  BY <1>0, <1>2, ConflictReportKeeps DEF ProgressPlan
<1> QED
  BY <1>1, <1>2

LEMMA AddKeeps ==
  ASSUME TypeOK, NEW r \in Request, NEW in \in Inputs,
         in.kind \in {"BOOKMARK_ADD", "ANNOTATION_CREATE"}
  PROVE  Keeps(AddPlan(r, in, rows[in.target]), r, in)
<1> DEFINE row == rows[in.target]
           new == [NoRow EXCEPT !.rev = 1, !.content = in.content]
<1>0. in.target # Progress /\ in.target \notin CopyId
  BY TargetKinds
<1>1. CASE row.rev = 0
  <2>1. new.rev = 1 /\ AddPlan(r, in, row) = Put(r, new)
    BY <1>1 DEF NoRow, AddPlan
  <2> HIDE DEF new
  <2>2. new # NoRow
    BY <2>1, NoRowType
  <2> QED
    BY <1>0, <2>1, <2>2, PutKeeps
<1>2. CASE row.rev # 0 /\ ~ row.deleted /\ Matches(row, in)
  BY <1>2, AppliedReportKeeps DEF AddPlan
<1>3. CASE row.rev # 0 /\ ~ (~ row.deleted /\ Matches(row, in))
  BY <1>0, <1>3, ConflictReportKeeps DEF AddPlan
<1> QED
  BY <1>1, <1>2, <1>3

LEMMA RemoveKeeps ==
  ASSUME TypeOK, CopyRows, NEW r \in Request, NEW in \in Inputs,
         in.kind \in {"BOOKMARK_REMOVE", "ANNOTATION_DELETE"}
  PROVE  Keeps(RemovePlan(r, in, rows[in.target]), r, in)
<1> DEFINE row == rows[in.target]
           new == [row EXCEPT !.rev = in.base + 1, !.deleted = TRUE]
<1>0. /\ in.target # Progress /\ in.target \notin CopyId /\ in.base \in Nat
      /\ row \in Row /\ row.rev \in Nat /\ row.deleted \in BOOLEAN
      /\ in.kind = "ANNOTATION_DELETE" => in.target \in Highlight
  BY TargetKinds, TargetType, InputFields, RowFields
<1>1. CASE row.rev = 0
  BY <1>1, DeniedReportKeeps DEF RemovePlan
<1>2. CASE row.rev > 0 /\ row.deleted
  BY <1>0, <1>2, AppliedReportKeeps DEF RemovePlan
<1>3. CASE row.rev > 0 /\ ~ row.deleted /\ row.rev # in.base
  <2>1. CASE in.kind = "ANNOTATION_DELETE"
    BY <1>0, <1>3, <2>1, MintKeeps DEF RemovePlan
  <2>2. CASE in.kind # "ANNOTATION_DELETE"
    BY <1>0, <1>3, <2>2, ConflictReportKeeps DEF RemovePlan
  <2> QED
    BY <2>1, <2>2
<1>4. CASE row.rev > 0 /\ ~ row.deleted /\ row.rev = in.base
  <2>1. RemovePlan(r, in, row) = Put(r, new)
    BY <1>0, <1>4 DEF RemovePlan
  <2>2. new.rev = in.base + 1
    BY <1>0, InputFields, TargetType, DeletedRow
  <2> HIDE DEF new
  <2>3. new # NoRow
    BY <1>0, <2>2, NoRowType
  <2> QED
    BY <1>0, <2>1, <2>3, PutKeeps
<1> QED
  BY <1>0, <1>1, <1>2, <1>3, <1>4

LEMMA EditKeeps ==
  ASSUME NEW n \in Nat, NEW row \in Row, NEW c \in Content
  PROVE  LET new == [row EXCEPT !.rev = n, !.content = c]
         IN  new.rev = n /\ new.origin = row.origin /\ new.source = row.source
  BY DEF Row

LEMMA UpdateKeeps ==
  ASSUME TypeOK, CopyRows, NEW r \in Request, NEW in \in Inputs,
         in.kind = "ANNOTATION_UPDATE"
  PROVE  Keeps(UpdatePlan(r, in, rows[in.target]), r, in)
<1> DEFINE row == rows[in.target]
           new == [row EXCEPT !.rev = in.base + 1, !.content = in.content]
<1>0. /\ in.target # Progress /\ in.target \in Highlight \cup CopyId /\ in.base \in Nat
      /\ in.base + 1 \in Nat /\ in.content \in Content
      /\ row \in Row /\ row.rev \in Nat /\ row.deleted \in BOOLEAN
  BY TargetKinds, TargetType, InputFields, RowFields
<1>1. CASE row.rev = 0
  BY <1>1, DeniedReportKeeps DEF UpdatePlan
<1>2. CASE row.rev > 0 /\ (row.deleted \/ row.rev # in.base)
  BY <1>0, <1>2, MintKeeps DEF UpdatePlan
<1>3. CASE row.rev > 0 /\ ~ row.deleted /\ row.rev = in.base
  <2>1. UpdatePlan(r, in, row) = Put(r, new)
    BY <1>0, <1>3 DEF UpdatePlan
  <2>2. new.rev = in.base + 1 /\ new.origin = row.origin /\ new.source = row.source
    BY <1>0, EditKeeps
  <2> HIDE DEF new
  <2>3. new # NoRow
    BY <1>0, <2>2, NoRowType
  <2> QED
    BY <1>0, <2>1, <2>2, <2>3, PutKeeps
<1> QED
  BY <1>0, <1>1, <1>2, <1>3

LEMMA DecideKeeps ==
  ASSUME TypeOK, CopyRows, NEW r \in Request, NEW in \in Inputs
  PROVE  Keeps(Decide(r, in, rows[in.target]), r, in)
<1>1. in.kind \in Kind
  BY TargetType, InputFields
<1>2. CASE in.kind = "PROGRESS_SET"
  BY <1>2, ProgressKeeps DEF Decide
<1>3. CASE in.kind \in {"BOOKMARK_ADD", "ANNOTATION_CREATE"}
  BY <1>3, AddKeeps DEF Decide
<1>4. CASE in.kind \in {"BOOKMARK_REMOVE", "ANNOTATION_DELETE"}
  BY <1>4, RemoveKeeps DEF Decide
<1>5. CASE in.kind = "ANNOTATION_UPDATE"
  BY <1>5, UpdateKeeps DEF Decide
<1> QED
  BY <1>1, <1>2, <1>3, <1>4, <1>5 DEF Kind

LEMMA LostKeeps ==
  ASSUME TypeOK, CopyRows, NEW r \in Request, NEW in \in Inputs,
         in.target \in CopyId => rows[in.target].rev > 0
  PROVE  Keeps(LostPlan(r, in, rows[in.target]), r, in)
<1>1. CASE in.target \in CopyId
  BY <1>1, MintKeeps DEF LostPlan
<1>2. CASE in.target \notin CopyId
  BY <1>2, ConflictReportKeeps DEF LostPlan
<1> QED
  BY <1>1, <1>2

(* What a step that commits nothing does to a plan.                        *)
LEMMA PlanSteps ==
  ASSUME Inv, OriginInv, [Next]_vars, UNCHANGED <<rows, receipts>>, NEW s \in Request,
         pc'[s] \in {"write", "commit"}
  PROVE  Keeps(plan'[s], s, input'[s])
<1>0. TypeOK /\ CopyRows
  BY DEF Inv, OriginInv
<1>1. ASSUME pc'[s] = pc[s], plan'[s] = plan[s], input'[s] = input[s]
      PROVE  Keeps(plan'[s], s, input'[s])
  BY <1>1 DEF OriginInv, PlansKeep
<1>2. ASSUME NEW r \in Request, NEW in \in Inputs, Submit(r, in)
      PROVE  Keeps(plan'[s], s, input'[s])
  <2>1. s # r
    BY <1>0, <1>2 DEF Submit, Answer, TypeOK
  <2> QED
    BY <1>0, <1>1, <1>2, <2>1 DEF Submit, Answer, TypeOK
<1>3. ASSUME NEW r \in Request, ReadReceipt(r) \/ ReplayRead(r)
      PROVE  Keeps(plan'[s], s, input'[s])
  <2>1. /\ pc'[r] \notin {"write", "commit"}
        /\ \A q \in Request \ {r} : pc'[q] = pc[q]
        /\ plan' = plan /\ input' = input
    BY <1>0, <1>3 DEF ReadReceipt, ReplayRead, Answer, TypeOK
  <2> QED
    BY <1>1, <2>1
<1>4. ASSUME NEW r \in Request, Fail(r)
      PROVE  Keeps(plan'[s], s, input'[s])
  <2>1. /\ pc'[r] \notin {"write", "commit"}
        /\ \A q \in Request \ {r} : pc'[q] = pc[q] /\ plan'[q] = plan[q]
        /\ input' = input
    BY <1>0, <1>4 DEF Fail, Answer, TypeOK
  <2> QED
    BY <1>1, <2>1
<1>5. ASSUME NEW r \in Request, ReadEntity(r)
      PROVE  Keeps(plan'[s], s, input'[s])
  <2> DEFINE d == Decide(r, input[r], rows[input[r].target])
  <2>0. input[r] \in Inputs /\ input' = input
    BY <1>5 DEF Inv, CallsHold, CallHolds, Asked, ReadEntity
  <2>1. CASE s # r
    <3>1. pc'[s] = pc[s] /\ plan'[s] = plan[s]
      BY <1>0, <1>5, <2>1 DEF ReadEntity, Answer, TypeOK
    <3> QED
      BY <1>1, <2>0, <3>1
  <2>2. CASE s = r
    <3>1. Keeps(d, r, input[r])
      BY <1>0, <2>0, DecideKeeps
    <3>2. plan'[r] = d
      <4> HIDE DEF d
      <4>1. \/ pc'[r] = "done"
            \/ plan' = [plan EXCEPT ![r] = d]
        BY <1>0, <1>5 DEF ReadEntity, Answer, TypeOK, d
      <4> QED
        BY <1>0, <2>2, <4>1 DEF TypeOK
    <3> QED
      BY <2>0, <2>2, <3>1, <3>2
  <2> QED
    BY <2>1, <2>2
<1>6. ASSUME NEW r \in Request, Write(r)
      PROVE  Keeps(plan'[s], s, input'[s])
  <2> DEFINE in == input[r]
             d == LostPlan(r, in, rows[in.target])
  <2>0. /\ pc[r] = "write" /\ in \in Inputs /\ Valid(in) /\ Writing(r)
        /\ input' = input
    BY <1>6 DEF Inv, CallsHold, CallHolds, Asked, WantsWrite, Write
  <2>1. CASE s # r
    <3>1. pc'[s] = pc[s] /\ plan'[s] = plan[s]
      BY <1>0, <1>6, <2>1 DEF Write, TypeOK
    <3> QED
      BY <1>1, <2>0, <3>1
  <2>2. CASE s = r
    <3>1. in.target \in CopyId => rows[in.target].rev > 0
      <4>1. SUFFICES ASSUME in.target \in CopyId PROVE rows[in.target].rev > 0
        OBVIOUS
      <4>2. in.base # 0 /\ in.base \in Nat /\ rows[in.target].rev \in Nat
        BY <1>0, <2>0, <4>1, CreatesNoCopy, TargetType, InputFields, RowFields
      <4>3. rows[in.target].rev >= in.base
        BY <2>0 DEF Writing
      <4> QED
        BY <4>2, <4>3
    <3>2. Keeps(d, r, in)
      BY <1>0, <2>0, <3>1, LostKeeps
    <3> HIDE DEF d
    <3>3. \/ pc'[r] = "replay"
          \/ plan' = plan
          \/ plan' = [plan EXCEPT ![r] = d]
      BY <1>0, <1>6 DEF Write, TypeOK, d
    <3>4. Keeps(plan[r], r, in)
      BY <2>0 DEF OriginInv, PlansKeep
    <3> QED
      BY <1>0, <2>0, <2>2, <3>2, <3>3, <3>4 DEF TypeOK
  <2> QED
    BY <2>1, <2>2
<1>7. ASSUME NEW r \in Request, Commit(r)
      PROVE  Keeps(plan'[s], s, input'[s])
  <2>1. /\ pc'[r] \notin {"write", "commit"}
        /\ \A q \in Request \ {r} : pc'[q] = pc[q] /\ plan'[q] = plan[q]
        /\ input' = input
    BY <1>0, <1>7 DEF Commit, Answer, TypeOK
  <2> QED
    BY <1>1, <2>1
<1>8. ASSUME UNCHANGED vars \/ SetAccess \/ \E v \in Version : PublishVersion(v)
      PROVE  Keeps(plan'[s], s, input'[s])
  BY <1>1, <1>8 DEF vars, SetAccess, PublishVersion
<1> QED
  BY <1>2, <1>3, <1>4, <1>5, <1>6, <1>7, <1>8 DEF Next, Step

LEMMA QuietOrigin ==
  ASSUME Inv, OriginInv, [Next]_vars, UNCHANGED <<rows, receipts>>
  PROVE  OriginInv'
<1>1. PlansKeep'
  BY PlanSteps DEF PlansKeep, Keeps
<1>2. CopyRows' /\ CopyReceipts' /\ LostRetargetKeepsEdit'
  BY DEF OriginInv, CopyRows, CopyReceipts, LostRetargetKeepsEdit
<1> QED
  BY <1>1, <1>2 DEF OriginInv

(* What the call that settles knew of its plan.                            *)
LEMMA SettledPlan ==
  ASSUME Inv, OriginInv, NEW r \in Request, pc[r] = "commit", Settled(r)
  PROVE  /\ Keeps(plan[r], r, input[r])
         /\ Moved(r) => plan[r].write # NoRow /\ plan[r].result.copy = None
                         /\ plan[r].result.kind = "APPLIED"
         /\ Copied(r) => plan[r].write = NoRow /\ plan[r].copy # NoRow
<1>0. /\ TypeOK /\ CallHolds(r) /\ input[r].base \in Nat
  BY CommitContext
<1>1. Moved(r) => plan[r].write # NoRow /\ plan[r].result.copy = None
                  /\ plan[r].result.kind = "APPLIED"
  BY <1>0, NoRowType DEF Moved, Applied
<1>2. Copied(r) => plan[r].write = NoRow /\ plan[r].copy # NoRow
  <2>1. SUFFICES ASSUME Copied(r) PROVE plan[r].write = NoRow /\ plan[r].copy # NoRow
    OBVIOUS
  <2>2. plan[r].copy # NoRow /\ plan[r].result.kind = "CONFLICT"
    BY <2>1, NoRowType DEF Copied
  <2>3. plan[r].write # NoRow => plan[r].result.kind = "APPLIED"
    BY <1>0 DEF CallHolds, WantsWrite, Writing, Applied
  <2> QED
    BY <2>2, <2>3
<1>3. Keeps(plan[r], r, input[r])
  BY DEF OriginInv, PlansKeep
<1> QED
  BY <1>1, <1>2, <1>3

(* A copy that is there keeps its origin and its source; a committed row   *)
(* never goes back to revision 0.                                          *)
LEMMA OriginsStay ==
  ASSUME Inv, OriginInv, NEW r \in Request, pc[r] = "commit", Settled(r)
  PROVE  /\ \A e \in Entity : rows[e].rev > 0 => rows'[e].rev > 0
         /\ \A c \in CopyId : rows[c].rev > 0 =>
              rows'[c].origin = rows[c].origin /\ rows'[c].source = rows[c].source
<1>0. TypeOK /\ input[r].target \in Entity /\ rows \in [Entity -> Row]
  BY CommitContext DEF TypeOK
<1>1. \A e \in Entity : rows[e].rev > 0 => rows'[e].rev > 0
  <2> TAKE e \in Entity
  <2>1. rows[e].rev \in Nat
    BY <1>0, RowFields
  <2> QED
    BY <2>1, RowsGrow
<1>2. ASSUME NEW c \in CopyId, rows[c].rev > 0
      PROVE  rows'[c].origin = rows[c].origin /\ rows'[c].source = rows[c].source
  <2>0. c \in Entity
    BY DEF Entity
  <2>1. CASE rows'[c] = rows[c]
    BY <2>1
  <2>2. CASE rows'[c] # rows[c]
    <3>1. Moved(r) /\ c = input[r].target
      BY <1>2, <2>0, <2>2, RowsGrow
    <3>2. rows'[c] = plan[r].write /\ rows[c].rev = input[r].base
      BY <1>0, <3>1 DEF Moved
    <3>3. plan[r].write # NoRow /\ Keeps(plan[r], r, input[r])
      BY <3>1, SettledPlan
    <3> QED
      BY <3>1, <3>2, <3>3 DEF Keeps
  <2> QED
    BY <2>1, <2>2
<1> QED
  BY <1>1, <1>2

LEMMA SettledPlansKeep ==
  ASSUME Inv, OriginInv, NEW r \in Request, pc[r] = "commit", Settled(r)
  PROVE  PlansKeep'
<1> SUFFICES ASSUME NEW s \in Request, pc'[s] \in {"write", "commit"}
             PROVE  Keeps(plan[s], s, input[s])'
  BY DEF PlansKeep
<1> DEFINE in == input[s]
           row == rows[in.target]
           d == plan[s]
<1>0. TypeOK /\ s # r
  BY CommitContext DEF Settled, Answer, TypeOK
<1>1. pc'[s] = pc[s] /\ input'[s] = in /\ plan'[s] = d
  BY <1>0, SettledFrame DEF Frame
<1>2. Keeps(d, s, in) /\ CallHolds(s)
  BY <1>1 DEF OriginInv, PlansKeep, Inv, CallsHold
<1>3. in \in Inputs /\ in.target \in Entity /\ in.base \in Nat /\ row.rev \in Nat
      /\ Valid(in)
  BY <1>0, <1>1, <1>2, TargetType, InputFields, RowFields DEF CallHolds, Asked
<1>4. d.write # NoRow /\ rows'[in.target].rev = in.base =>
        row.rev = in.base /\ rows'[in.target] = row
  <2>1. SUFFICES ASSUME d.write # NoRow, rows'[in.target].rev = in.base
                 PROVE  row.rev = in.base /\ rows'[in.target] = row
    OBVIOUS
  <2>2. row.rev >= in.base
    BY <1>1, <1>2, <2>1 DEF CallHolds, WantsWrite, Writing
  <2> QED
    BY <1>3, <2>1, <2>2, RowsGrow
<1>5. d.write = NoRow /\ d.copy # NoRow =>
        d.copy.source \in Highlight /\ rows'[d.copy.source].rev > 0
  <2>1. Highlight \subseteq Entity
    BY DEF Entity
  <2> QED
    BY <1>2, <2>1, OriginsStay DEF Keeps
<1> QED
  BY <1>1, <1>2, <1>4, <1>5 DEF Keeps

LEMMA SettledCopies ==
  ASSUME Inv, OriginInv, NEW r \in Request, pc[r] = "commit", Settled(r)
  PROVE  CopyRows' /\ CopyReceipts'
<1> DEFINE in == input[r]
           d == plan[r]
<1>0. /\ TypeOK /\ in.op \in OperationId /\ in.target \in Entity /\ r \in CopyId
      /\ CopyId \subseteq Entity /\ Highlight \subseteq Entity
      /\ rows \in [Entity -> Row]
  BY CommitContext DEF TypeOK, Entity
<1>1. /\ receipts'[in.op].result = d.result /\ receipts'[in.op] # None
      /\ receipts[in.op] = None
  <2>1. /\ receipts'[in.op] = [input |-> in, result |-> plan[r].result]
        /\ receipts'[in.op] # None
    BY <1>0, ReceiptsGrow
  <2> QED
    BY <2>1 DEF Settled
<1>2. Keeps(d, r, in)
  BY SettledPlan
<1>3. d.result.copy # None => Copied(r) /\ d.result.copy = r
  BY <1>2, SettledPlan DEF Settled, Copied, Reported, Keeps
<1>4. Copied(r) => /\ rows'[r].rev > 0 /\ rows'[r].origin = in.op
                   /\ rows'[r].source \in Highlight /\ rows[rows'[r].source].rev > 0
                   /\ d.result.copy = r /\ rows[r].rev = 0
  <2>1. SUFFICES ASSUME Copied(r)
                 PROVE  /\ rows'[r].rev > 0 /\ rows'[r].origin = in.op
                        /\ rows'[r].source \in Highlight /\ rows[rows'[r].source].rev > 0
                        /\ d.result.copy = r /\ rows[r].rev = 0
    OBVIOUS
  <2>2. rows'[r] = d.copy /\ d.copy.rev = 1 /\ d.copy.origin = in.op
        /\ d.result.copy = r /\ rows[r].rev = 0
    BY <1>0, <2>1 DEF Copied
  <2>3. d.copy.source \in Highlight /\ rows[d.copy.source].rev > 0
    BY <1>2, <2>1, SettledPlan DEF Keeps
  <2> QED
    BY <2>2, <2>3
<1> HIDE DEF d
<1>5. CopyRows'
  <2> SUFFICES ASSUME NEW c \in CopyId, rows'[c].rev > 0
               PROVE  /\ rows'[c].origin \in OperationId
                      /\ rows'[c].source \in Highlight
                      /\ rows'[rows'[c].source].rev > 0
                      /\ receipts'[rows'[c].origin] # None
                      /\ receipts'[rows'[c].origin].result.copy = c
    BY DEF CopyRows
  <2>0. rows[c].rev \in Nat
    BY <1>0, RowFields
  <2>1. CASE rows[c].rev > 0
    <3>1. /\ rows[c].origin \in OperationId /\ rows[c].source \in Highlight
          /\ rows[rows[c].source].rev > 0 /\ receipts[rows[c].origin] # None
          /\ receipts[rows[c].origin].result.copy = c
      BY <2>1 DEF OriginInv, CopyRows
    <3>2. rows'[c].origin = rows[c].origin /\ rows'[c].source = rows[c].source
      BY <2>1, OriginsStay
    <3>3. rows'[rows[c].source].rev > 0
      BY <1>0, <3>1, OriginsStay
    <3>4. receipts'[rows[c].origin] = receipts[rows[c].origin]
      BY <3>1, ReceiptsGrow
    <3> QED
      BY <3>1, <3>2, <3>3, <3>4
  <2>2. CASE rows[c].rev = 0
    <3>1. rows'[c] # rows[c]
      BY <2>2
    <3>2. ~ (Moved(r) /\ c = in.target)
      <4>1. SUFFICES ASSUME Moved(r), c = in.target PROVE FALSE
        OBVIOUS
      <4>2. in.base = 0
        BY <2>2, <4>1 DEF Moved
      <4> QED
        BY <4>1, <4>2, CreatesNoCopy, CommitContext
    <3>3. Copied(r) /\ c = r
      BY <1>0, <3>1, <3>2, RowsGrow
    <3>4. rows'[rows'[r].source].rev > 0
      BY <1>0, <1>4, <3>3, OriginsStay
    <3> QED
      BY <1>0, <1>1, <1>4, <3>3, <3>4
  <2> QED
    BY <2>0, <2>1, <2>2
<1>6. CopyReceipts'
  <2> SUFFICES ASSUME NEW op \in OperationId, receipts'[op] # None,
                      receipts'[op].result.copy # None
               PROVE  /\ rows'[receipts'[op].result.copy].rev > 0
                      /\ rows'[receipts'[op].result.copy].origin = op
    BY DEF CopyReceipts
  <2>1. CASE op = in.op
    BY <1>1, <1>3, <1>4, <2>1
  <2>2. CASE op # in.op
    <3>1. receipts'[op] = receipts[op]
      BY <2>2, ReceiptsGrow
    <3> DEFINE c == receipts[op].result.copy
    <3>2. c \in CopyId /\ rows[c].rev > 0 /\ rows[c].origin = op
      <4>1. receipts[op] \in Receipt
        BY <1>0, <2>2, <3>1 DEF TypeOK
      <4> QED
        BY <3>1, <4>1 DEF OriginInv, CopyReceipts, Receipt, Result
    <3> HIDE DEF c
    <3>3. rows'[c].rev > 0 /\ rows'[c].origin = op
      BY <1>0, <3>2, OriginsStay
    <3> QED
      BY <3>1, <3>3 DEF c
  <2> QED
    BY <2>1, <2>2
<1> QED
  BY <1>5, <1>6

LEMMA SettledRetarget ==
  ASSUME Inv, OriginInv, NEW r \in Request, pc[r] = "commit", Settled(r)
  PROVE  LostRetargetKeepsEdit'
<1> SUFFICES ASSUME NEW op \in OperationId, receipts'[op] # None,
                    receipts'[op].result.kind = "CONFLICT",
                    receipts'[op].input.target \in CopyId
             PROVE  receipts'[op].result.copy # None
  BY DEF LostRetargetKeepsEdit
<1>1. CASE op # input[r].op
  <2>1. receipts'[op] = receipts[op]
    BY <1>1, ReceiptsGrow
  <2> QED
    BY <2>1 DEF OriginInv, LostRetargetKeepsEdit
<1>2. CASE op = input[r].op
  <2>0. receipts'[op] = [input |-> input[r], result |-> plan[r].result]
    BY <1>2, ReceiptsGrow
  <2>1. receipts'[op].input = input[r] /\ receipts'[op].result = plan[r].result
    BY <2>0
  <2>2. Keeps(plan[r], r, input[r])
    BY SettledPlan
  <2>3. plan[r].write = NoRow
    BY <2>1, SettledPlan DEF Settled, Reported
  <2>4. plan[r].result.copy = r
    BY <2>1, <2>2, <2>3 DEF Keeps
  <2> QED
    BY <2>1, <2>4, ReaderConstants
<1> QED
  BY <1>1, <1>2

LEMMA OriginStep == Inv /\ OriginInv /\ [Next]_vars => OriginInv'
<1> SUFFICES ASSUME Inv, OriginInv, [Next]_vars PROVE OriginInv'
  OBVIOUS
<1>1. CASE UNCHANGED <<rows, tombstones, receipts>>
  BY <1>1, QuietOrigin
<1>2. CASE \E r \in Request : pc[r] = "commit" /\ Settled(r)
  BY <1>2, SettledPlansKeep, SettledCopies, SettledRetarget DEF OriginInv
<1> QED
  BY <1>1, <1>2, StoreSteps

LEMMA InitOrigin == Init => OriginInv
<1> SUFFICES ASSUME Init PROVE OriginInv
  OBVIOUS
<1>1. \A e \in Entity : rows[e].rev = 0
  BY NoRowType DEF Init
<1>2. CopyRows
  BY <1>1 DEF CopyRows, Entity
<1>3. PlansKeep /\ CopyReceipts /\ LostRetargetKeepsEdit
  BY DEF Init, PlansKeep, CopyReceipts, LostRetargetKeepsEdit
<1> QED
  BY <1>2, <1>3 DEF OriginInv

(* The invariant and what it says of conflict copies hold throughout.      *)
THEOREM OriginInvariance == Spec => [](Inv /\ OriginInv)
<1>1. Init => Inv /\ OriginInv
  BY InitInv, InitOrigin
<1>2. Inv /\ OriginInv /\ [Next]_vars => Inv' /\ OriginInv'
  BY NextKeeps, OriginStep
<1> QED
  BY <1>1, <1>2, PTL DEF Spec

(* A refused edit survives as one copy, named by the receipt of the        *)
(* operation and linked to a highlight, never to another copy              *)
(* (createConflictCopy, updateConflictCopy).                               *)
THEOREM CopiesAreLinked == Spec => []CopiesKeepOrigin
<1>1. OriginInv => CopiesKeepOrigin
  BY DEF OriginInv, CopyRows, CopyReceipts, CopiesKeepOrigin
<1> QED
  BY <1>1, OriginInvariance, PTL

(* An update of a conflict copy that loses is never answered without a     *)
(* copy that keeps its edit (updateConflictCopy).                          *)
THEOREM LostRetargetsAreKept == Spec => []LostRetargetKeepsEdit
<1>1. OriginInv => LostRetargetKeepsEdit
  BY DEF OriginInv
<1> QED
  BY <1>1, OriginInvariance, PTL

(* While the reader stays at the end, the first completion time stays      *)
(* (applyProgress: "Preserve the FIRST completion time").                  *)
THEOREM FirstCompletionKept == Spec => CompletionKept
<1>1. ASSUME Inv, OriginInv, [Next]_vars
      PROVE  [rows[Progress].completed # None /\ rows'[Progress].completed # None
                => rows'[Progress].completed = rows[Progress].completed]_vars
  <2>1. SUFFICES ASSUME rows'[Progress] # rows[Progress],
                        rows[Progress].completed # None, rows'[Progress].completed # None
                 PROVE  rows'[Progress].completed = rows[Progress].completed
    OBVIOUS
  <2>2. PICK r \in Request : pc[r] = "commit" /\ Settled(r)
    BY <1>1, <2>1, StoreSteps
  <2>3. Progress \in Entity /\ Progress # r
    BY ReaderConstants DEF Entity
  <2>4. Moved(r) /\ input[r].target = Progress
    BY <1>1, <2>1, <2>2, <2>3, RowsGrow
  <2>5. rows'[Progress] = plan[r].write /\ rows[Progress].rev = input[r].base
    BY <1>1, <2>3, <2>4 DEF Moved, Inv, TypeOK
  <2>6. plan[r].write # NoRow /\ Keeps(plan[r], r, input[r])
    BY <1>1, <2>2, <2>4, SettledPlan
  <2> QED
    BY <2>1, <2>4, <2>5, <2>6 DEF Keeps
<1> QED
  BY <1>1, OriginInvariance, PTL DEF Spec, CompletionKept

(* Whatever revision a snapshot shows, a later one shows it or a higher    *)
(* one, deletions included (getSnapshot: "It never decreases").            *)
THEOREM WatermarkNeverDecreases == Spec => WatermarkMonotone
<1> DEFINE Shown == {e \in Bookmark \cup Highlight \cup CopyId : rows[e].rev > 0}
<1>1. ASSUME Inv
      PROVE  SnapshotRevisions = {rows[e].rev : e \in Shown}
  <2>1. \A e \in Entity : rows[e].rev \in Nat /\ (rows[e].rev = 0 => ~ rows[e].deleted)
                         /\ tombstones[e] = IF rows[e].deleted THEN rows[e].rev ELSE 0
    BY <1>1, RowFields DEF Inv, RowsGrounded, TombstonesMatch
  <2>2. Bookmark \cup Highlight \cup CopyId \subseteq Entity
    BY DEF Entity
  <2> QED
    BY <2>1, <2>2
       DEF SnapshotRevisions, SnapshotAnnotations, SnapshotCopies, SnapshotTombstones
<1>2. ASSUME Inv, Inv', [Next]_vars
      PROVE  [\A old \in SnapshotRevisions : \E new \in SnapshotRevisions' : new >= old]_vars
  <2> SUFFICES ASSUME NEW old \in SnapshotRevisions
               PROVE  \E new \in SnapshotRevisions' : new >= old
    OBVIOUS
  <2>1. PICK e \in Shown : old = rows[e].rev
    BY <1>1, <1>2
  <2>2. e \in Entity /\ rows[e].rev \in Nat /\ rows[e].rev > 0
    BY <1>2, RowFields DEF Inv, Entity
  <2>3. rows'[e].rev >= rows[e].rev /\ rows'[e].rev \in Nat
    <3>1. CASE UNCHANGED <<rows, tombstones, receipts>>
      BY <2>2, <3>1
    <3>2. CASE \E r \in Request : pc[r] = "commit" /\ Settled(r)
      BY <1>2, <2>2, <3>2, RowsGrow
    <3> QED
      BY <1>2, <3>1, <3>2, StoreSteps
  <2>4. tombstones'[e] = IF rows'[e].deleted THEN rows'[e].rev ELSE 0
    BY <1>2, <2>2 DEF Inv, TombstonesMatch
  <2>5. rows'[e].rev \in SnapshotRevisions'
    BY <2>2, <2>3, <2>4
       DEF SnapshotRevisions, SnapshotAnnotations, SnapshotCopies, SnapshotTombstones
  <2> QED
    BY <2>1, <2>3, <2>5
<1> QED
  BY <1>2, Invariance, PTL DEF Spec, WatermarkMonotone

----
(* Why every call is answered, but for fairness: a call has so many        *)
(* statements left and no more, and one that waits for a row waits for a   *)
(* call at its last statement, which waits for nobody.                     *)

StepsLeft(r) ==
  CASE pc[r] = "idle" -> ReplayAttempts + 5
    [] pc[r] = "receipt" -> ReplayAttempts + 4
    [] pc[r] = "entity" -> ReplayAttempts + 3
    [] pc[r] = "write" -> ReplayAttempts + 2
    [] pc[r] = "commit" -> ReplayAttempts + 1
    [] pc[r] = "replay" -> ReplayAttempts - attempts[r]
    [] pc[r] = "done" -> 0

WaitsForRow(r) == pc[r] = "write" /\ ~ Free(r, input[r].target)

ShortWaits ==
  \A r \in Request : WaitsForRow(r) =>
    /\ lock[input[r].target] \in Request \ {r}
    /\ pc[lock[input[r].target]] = "commit"
    /\ \A e \in Entity : lock[e] # r

(* Where a statement of a call leads.                                      *)
Moves(r) ==
  \/ pc[r] = "receipt" /\ pc'[r] \in {"entity", "done"}
  \/ pc[r] = "entity" /\ pc'[r] \in {"write", "commit", "done"}
  \/ pc[r] = "write" /\ pc'[r] \in {"commit", "replay", "done"}
  \/ pc[r] = "commit" /\ pc'[r] \in {"replay", "done"}
  \/ pc[r] = "replay" /\ pc'[r] = "done"
  \/ pc[r] = "replay" /\ pc'[r] = "replay" /\ attempts'[r] = attempts[r] + 1

LEMMA StatementMoves ==
  ASSUME TypeOK, NEW r \in Request, Step(r) \/ Fail(r)
  PROVE  /\ Moves(r)
         /\ \A s \in Request \ {r} :
              pc'[s] = pc[s] /\ attempts'[s] = attempts[s] /\ reply'[s] = reply[s]
<1>0. /\ pc \in [Request -> {"idle", "receipt", "entity", "write", "commit", "replay", "done"}]
      /\ attempts \in [Request -> 0 .. ReplayAttempts - 1]
  BY DEF TypeOK
<1>7. \A s \in Request \ {r} : reply'[s] = reply[s]
  BY DEF Step, ReadReceipt, ReadEntity, Write, Commit, ReplayRead, Fail, Answer, TypeOK
<1>1. CASE ReadReceipt(r)
  <2>1. pc[r] = "receipt" /\ UNCHANGED attempts
        /\ \E step \in {"entity", "done"} : pc' = [pc EXCEPT ![r] = step]
    BY <1>1 DEF ReadReceipt, Answer
  <2> QED
    BY <1>0, <1>7, <2>1 DEF Moves
<1>2. CASE ReadEntity(r)
  <2>1. pc[r] = "entity" /\ UNCHANGED attempts
        /\ \E step \in {"write", "commit", "done"} : pc' = [pc EXCEPT ![r] = step]
    BY <1>2 DEF ReadEntity, Answer
  <2> QED
    BY <1>0, <1>7, <2>1 DEF Moves
<1>3. CASE Write(r)
  <2>1. pc[r] = "write" /\ UNCHANGED attempts
        /\ \E step \in {"commit", "replay"} : pc' = [pc EXCEPT ![r] = step]
    BY <1>3 DEF Write
  <2> QED
    BY <1>0, <1>7, <2>1 DEF Moves
<1>4. CASE Commit(r)
  <2>1. pc[r] = "commit" /\ UNCHANGED attempts
        /\ \E step \in {"replay", "done"} : pc' = [pc EXCEPT ![r] = step]
    BY <1>4 DEF Commit, Answer
  <2> QED
    BY <1>0, <1>7, <2>1 DEF Moves
<1>5. CASE ReplayRead(r)
  <2>1. /\ pc[r] = "replay"
        /\ \/ pc' = [pc EXCEPT ![r] = "done"] /\ UNCHANGED attempts
           \/ UNCHANGED pc /\ attempts' = [attempts EXCEPT ![r] = attempts[r] + 1]
    BY <1>5 DEF ReplayRead, Answer
  <2> QED
    BY <1>0, <1>7, <2>1 DEF Moves
<1>6. CASE Fail(r)
  <2>1. /\ pc[r] \in {"receipt", "entity", "write", "commit", "replay"}
        /\ pc' = [pc EXCEPT ![r] = "done"] /\ UNCHANGED attempts
    BY <1>6 DEF Fail, Answer
  <2> QED
    BY <1>0, <1>7, <2>1 DEF Moves
<1> QED
  BY <1>1, <1>2, <1>3, <1>4, <1>5, <1>6, <1>7 DEF Step

LEMMA FewerLeft ==
  ASSUME TypeOK, TypeOK', NEW r \in Request, Moves(r)
  PROVE  StepsLeft(r)' < StepsLeft(r)
<1>1. /\ ReplayAttempts \in Nat \ {0}
      /\ attempts[r] \in 0 .. ReplayAttempts - 1 /\ attempts'[r] \in 0 .. ReplayAttempts - 1
  BY ReaderConstants DEF TypeOK
<1> DEFINE A == attempts[r]
           B == attempts'[r]
<1>2. A \in Nat /\ B \in Nat /\ A < ReplayAttempts /\ B < ReplayAttempts
  BY <1>1
<1>3. Moves(r) => (pc'[r] = "replay" /\ pc[r] = "replay" => B = A + 1)
  BY DEF Moves
<1> HIDE DEF A, B
<1>4. StepsLeft(r) =
        CASE pc[r] = "idle" -> ReplayAttempts + 5
          [] pc[r] = "receipt" -> ReplayAttempts + 4
          [] pc[r] = "entity" -> ReplayAttempts + 3
          [] pc[r] = "write" -> ReplayAttempts + 2
          [] pc[r] = "commit" -> ReplayAttempts + 1
          [] pc[r] = "replay" -> ReplayAttempts - A
          [] pc[r] = "done" -> 0
  BY DEF StepsLeft, A
<1>5. StepsLeft(r)' =
        CASE pc'[r] = "idle" -> ReplayAttempts + 5
          [] pc'[r] = "receipt" -> ReplayAttempts + 4
          [] pc'[r] = "entity" -> ReplayAttempts + 3
          [] pc'[r] = "write" -> ReplayAttempts + 2
          [] pc'[r] = "commit" -> ReplayAttempts + 1
          [] pc'[r] = "replay" -> ReplayAttempts - B
          [] pc'[r] = "done" -> 0
  BY DEF StepsLeft, B
<1>6. CASE pc[r] = "replay"
  <2>1. pc'[r] = "done" \/ (pc'[r] = "replay" /\ B = A + 1)
    BY <1>3, <1>6 DEF Moves
  <2>2. StepsLeft(r) = ReplayAttempts - A
    BY <1>4, <1>6
  <2> QED
    BY <1>1, <1>2, <1>5, <2>1, <2>2
<1>7. CASE pc[r] # "replay"
  <2>1. pc'[r] = "replay" => StepsLeft(r)' = ReplayAttempts - B
    BY <1>5
  <2> QED
    BY <1>1, <1>2, <1>4, <1>5, <1>7, <2>1 DEF Moves
<1> QED
  BY <1>6, <1>7

(* A waiting call waits for a call about to commit, and holds no row that   *)
(* anyone could wait for: waits never form a cycle or a chain (the          *)
(* conditional update is the only statement that takes a row, and the       *)
(* receipt is all that follows it).                                        *)
THEOREM WaitsAreShort == Spec => []ShortWaits
<1>1. Inv => ShortWaits
  <2> SUFFICES ASSUME Inv, NEW r \in Request, WaitsForRow(r)
               PROVE  /\ lock[input[r].target] \in Request \ {r}
                      /\ pc[lock[input[r].target]] = "commit"
                      /\ \A e \in Entity : lock[e] # r
    BY DEF ShortWaits
  <2>1. pc[r] = "write" /\ lock[input[r].target] \notin {None, r}
    BY DEF WaitsForRow, Free
  <2>2. input[r].target \in Entity
    BY <2>1, TargetType DEF Inv, CallsHold, CallHolds, Asked
  <2>3. lock \in [Entity -> Request \cup {None}]
    BY DEF Inv, TypeOK
  <2>4. ASSUME NEW e \in Entity, lock[e] # None
        PROVE  pc[lock[e]] = "commit"
    BY <2>4 DEF Inv, LocksHeld
  <2>5. r # None
    BY ReaderConstants
  <2> QED
    BY <2>1, <2>2, <2>3, <2>4, <2>5
<1> QED
  BY <1>1, Invariance, PTL

(* Every statement of a call, and its failure, brings the call closer to    *)
(* its answer, and no step of another call takes it back: a call makes at   *)
(* most ReplayAttempts + 4 statements, whoever interferes (execute,         *)
(* replayAfterConflict), and its answer is never changed.                  *)
THEOREM CallsGetOn ==
  Spec => [][\A r \in Request :
               /\ StepsLeft(r)' <= StepsLeft(r)
               /\ Step(r) \/ Fail(r) => StepsLeft(r)' < StepsLeft(r)
               /\ pc[r] = "done" => reply'[r] = reply[r]]_vars
<1>1. ASSUME Inv, Inv', [Next]_vars, NEW r \in Request
      PROVE  /\ StepsLeft(r)' <= StepsLeft(r)
             /\ Step(r) \/ Fail(r) => StepsLeft(r)' < StepsLeft(r)
             /\ pc[r] = "done" => reply'[r] = reply[r]
  <2>0. TypeOK /\ TypeOK'
    BY <1>1 DEF Inv
  <2>1. StepsLeft(r) \in Nat /\ StepsLeft(r)' \in Nat
    BY <2>0, ReaderConstants DEF TypeOK, StepsLeft
  <2>2. Step(r) \/ Fail(r) => StepsLeft(r)' < StepsLeft(r) /\ pc[r] # "done"
    BY <2>0, FewerLeft, StatementMoves DEF Moves
  <2>3. ASSUME pc'[r] = pc[r], attempts'[r] = attempts[r]
        PROVE  StepsLeft(r)' <= StepsLeft(r)
    <3>1. StepsLeft(r)' = StepsLeft(r)
      BY <2>3 DEF StepsLeft
    <3> QED
      BY <2>1, <3>1
  <2>4. ASSUME NEW s \in Request, Step(s) \/ Fail(s)
        PROVE  StepsLeft(r)' <= StepsLeft(r) /\ (pc[r] = "done" => reply'[r] = reply[r])
    <3>1. CASE s = r
      BY <2>1, <2>2, <2>4, <3>1
    <3>2. CASE s # r
      BY <2>0, <2>3, <2>4, <3>2, StatementMoves
    <3> QED
      BY <3>1, <3>2
  <2>5. ASSUME NEW s \in Request, NEW in \in Inputs, Submit(s, in)
        PROVE  StepsLeft(r)' <= StepsLeft(r) /\ (pc[r] = "done" => reply'[r] = reply[r])
    <3>1. /\ pc[s] = "idle" /\ UNCHANGED attempts
          /\ \E step \in {"receipt", "done"} : pc' = [pc EXCEPT ![s] = step]
          /\ \A q \in Request \ {s} : reply'[q] = reply[q]
      BY <2>0, <2>5 DEF Submit, Answer, TypeOK
    <3>2. CASE s = r
      <4>1. pc'[r] \in {"receipt", "done"}
        BY <2>0, <3>1, <3>2 DEF TypeOK
      <4>2. StepsLeft(r) = ReplayAttempts + 5
        BY <3>1, <3>2 DEF StepsLeft
      <4>3. StepsLeft(r)' = ReplayAttempts + 4 \/ StepsLeft(r)' = 0
        BY <4>1 DEF StepsLeft
      <4> QED
        BY <3>1, <3>2, <4>2, <4>3, ReaderConstants
    <3>3. CASE s # r
      BY <2>0, <2>3, <3>1, <3>3 DEF TypeOK
    <3> QED
      BY <3>2, <3>3
  <2>6. ASSUME UNCHANGED <<pc, attempts, reply>>
        PROVE  StepsLeft(r)' <= StepsLeft(r) /\ (pc[r] = "done" => reply'[r] = reply[r])
    BY <2>3, <2>6
  <2>7. \/ \E s \in Request : Step(s) \/ Fail(s)
        \/ \E s \in Request, in \in Inputs : Submit(s, in)
        \/ UNCHANGED <<pc, attempts, reply>>
    BY <1>1 DEF Next, SetAccess, PublishVersion, vars
  <2>8. StepsLeft(r)' <= StepsLeft(r) /\ (pc[r] = "done" => reply'[r] = reply[r])
    BY <2>4, <2>5, <2>6, <2>7
  <2> QED
    BY <2>2, <2>8
<1>2. Inv /\ Inv' /\ [Next]_vars =>
        [\A r \in Request :
           /\ StepsLeft(r)' <= StepsLeft(r)
           /\ Step(r) \/ Fail(r) => StepsLeft(r)' < StepsLeft(r)
           /\ pc[r] = "done" => reply'[r] = reply[r]]_vars
  BY <1>1
<1> QED
  BY <1>2, Invariance, PTL DEF Spec
=============================================================================
