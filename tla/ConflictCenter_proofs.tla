----------------------- MODULE ConflictCenter_proofs -----------------------
(***************************************************************************)
(* Proofs about ConflictCenter: what the reader saved or chose is queued,  *)
(* applied or dropped by a decision, and a local choice is refused again   *)
(* only over a revision the reader was not shown.  A choice has an id of   *)
(* its own.  The coordinator's part of every step is argued in             *)
(* OutboxSync_proofs.                                                      *)
(***************************************************************************)
EXTENDS ConflictCenter, OutboxSync_proofs

Sight == [op : Op, edit : Edit, loaded : BOOLEAN, revision : Nat \cup {None}]
Decision == [pc : {"commit", "adopt"}, op : Op, new : Queued \cup {None}, id : Nat, adopt : BOOLEAN]

CenterTypes ==
  /\ view \in [Tab -> Sight \cup {None}]
  /\ deciding \in [Tab -> Decision \cup {None}]
  /\ chosen \in [Op -> Nat \cup {None}]

(* Only the reading position is edited here.                               *)
Positions == \A o \in Op : \A x \in Copies(o) : x.entity = Progress /\ x.dependsOn = None

(* A decision puts a position under an id of its own.                      *)
Decisions ==
  \A t \in Tab : deciding[t] # None /\ deciding[t].new # None =>
    /\ deciding[t].id \in Op /\ deciding[t].id <= made /\ deciding[t].id # deciding[t].op
    /\ deciding[t].new.entity = Progress /\ deciding[t].new.dependsOn = None
    /\ chosen[deciding[t].id] # None => deciding[t].new.base = chosen[deciding[t].id]

(* Whatever is sent of a local choice names the revision it was made over. *)
ChosenBase ==
  \A o \in Op : chosen[o] # None =>
    /\ o <= made
    /\ \A x \in Copies(o) : x.base = chosen[o]
    /\ \A env \in late : env.op = o => env.base = chosen[o]
    /\ receipts[o] # None => receipts[o].input.base = chosen[o]

(* The server refuses an operation for a revision other than its base.     *)
ConflictsDiffer ==
  \A o \in Op : receipts[o] # None /\ receipts[o].result.kind = "CONFLICT" =>
    receipts[o].result.revision # receipts[o].input.base

CenterInv ==
  Inv /\ MadeInUse /\ CenterTypes /\ Positions /\ Decisions /\ ChosenBase /\ ConflictsDiffer
----
(* The steps of the coordinator and of saving, which OutboxSync takes too.  *)

LEMMA ElsewhereIsNext ==
  ASSUME Inv, Elsewhere
  PROVE  /\ [Next]_vars
         /\ \/ EditsRest
            \/ \E t \in Tab, o \in Op, x \in Queued : Coalesces(t, o, x)
            \/ \E t \in Tab, x \in Queued : Begins(t, x) /\ x.entity = Progress /\ x.dependsOn = None
<1>1. Next
  BY DEF Elsewhere, Next, Reader
<1>2. ASSUME NEW t \in Editor, SaveProgress(t)
      PROVE  \/ \E o \in Op, x \in Queued : Coalesces(t, o, x)
             \/ \E x \in Queued : Begins(t, x) /\ x.entity = Progress /\ x.dependsOn = None
  BY <1>2, SaveEdits, SyncConstants DEF Inv
<1>3. CASE ~ \E t \in Editor : SaveProgress(t)
  <2>1. ASSUME NEW t \in Tab, Run(t) PROVE EditsRest
    BY <2>1 DEF Run, ListQueue, Skip, Dispatch, Answer, Reply, Fail, HandleFailure, CheckLease,
       RestorePending, FindSuccessors, Acknowledge, ReadRecord, MarkSynced, RecordConflict,
       RetainConflict, RetainRefused, Finish, EditsRest, counts
  <2>2. ASSUME NEW t \in Tab, StartDrain(t) PROVE EditsRest
    BY <2>2 DEF StartDrain, EditsRest, counts
  <2>3. ASSUME NEW t \in Tab, CommitEdit(t) PROVE EditsRest
    BY <2>3 DEF CommitEdit, EditsRest, Inv, TypeOK, counts
  <2>4. ASSUME NEW env \in late, HandleLate(env) PROVE EditsRest
    BY <2>4 DEF HandleLate, tabs, counts, EditsRest
  <2>5. ASSUME NEW f \in Foreign, MoveElsewhere(f) PROVE EditsRest
    BY <2>5 DEF MoveElsewhere, tabs, counts, EditsRest
  <2>6. ASSUME LeaseExpires PROVE EditsRest
    <3>1. UNCHANGED <<edit, made>>
      BY <2>6 DEF LeaseExpires, tabs
    <3> QED
      BY <3>1 DEF EditsRest
  <2>7. Editor \subseteq Tab
    BY SyncConstants
  <2>8. \/ \E t \in Tab : Run(t) \/ StartDrain(t) \/ CommitEdit(t)
        \/ \E env \in late : HandleLate(env)
        \/ \E f \in Foreign : MoveElsewhere(f)
        \/ LeaseExpires
    BY <1>3, <2>7 DEF Elsewhere
  <2>9. EditsRest
    BY ONLY <2>1, <2>2, <2>3, <2>4, <2>5, <2>6, <2>8
  <2> QED
    BY <1>1, <2>9
<1> QED
  BY <1>1, <1>2, <1>3, SyncConstants

LEMMA PositionsCopies ==
  ASSUME MadeInUse, Positions
  PROVE  CopiesInv
<1>1. OneEntity
  BY DEF Positions, OneEntity
<1>2. EditsFresh
  BY PendingEdit DEF Positions, EditsFresh, Copies
<1>3. DependsOnStored
  BY DEF Positions, DependsOnStored
<1> QED
  BY <1>1, <1>2, <1>3 DEF CopiesInv

(* A copy after such a step is one before it, of another state or edit, or  *)
(* the position that begins an operation.                                   *)
LEMMA CopiesCome ==
  ASSUME Inv, Positions, Elsewhere, NEW o \in Op, NEW x \in Copies(o)'
  PROVE  \/ \E y \in Copies(o) : Carries(y, x)
         \/ o = made + 1 /\ x.entity = Progress /\ x.dependsOn = None
<1>1. ASSUME x \in Held(o)'
      PROVE  \E y \in Copies(o) : Carries(y, x)
  <2>1. CASE \E y \in Held(o) : Carries(y, x)
    BY <2>1 DEF Copies
  <2>2. CASE \E t \in Tab : edit[t] # None /\ edit[t].op = o /\ edit[t].record = x
    BY <2>2, PendingEdit DEF Copies, Carries
  <2> QED
    BY <1>1, <2>1, <2>2, ElsewhereIsNext, NextHeld DEF Inv
<1>2. ASSUME NEW u \in Tab, edit'[u] # None, edit'[u].op = o, x = edit'[u].record
      PROVE  \/ \E y \in Copies(o) : Carries(y, x)
             \/ o = made + 1 /\ x.entity = Progress /\ x.dependsOn = None
  <2>1. CASE edit'[u] = edit[u]
    BY <1>2, <2>1, PendingEdit DEF Copies, Carries
  <2>2. ASSUME NEW t \in Tab, NEW c \in Op, NEW z \in Queued, Coalesces(t, c, z), edit'[u] # edit[u]
        PROVE  \E y \in Copies(o) : Carries(y, x)
    <3>1. u = t /\ o = c /\ x = z /\ outbox[c] # None /\ Carries(outbox[c], z)
      BY <1>2, <2>2 DEF Coalesces
    <3> QED
      BY <3>1, HeldTypes DEF Inv, Copies
  <2>3. ASSUME NEW t \in Tab, NEW z \in Queued, Begins(t, z), z.entity = Progress, z.dependsOn = None,
               edit'[u] # edit[u]
        PROVE  o = made + 1 /\ x.entity = Progress /\ x.dependsOn = None
    BY <1>2, <2>3 DEF Begins
  <2>4. CASE EditsRest
    BY <1>2, <2>1, <2>4 DEF EditsRest
  <2> QED
    BY <2>1, <2>2, <2>3, <2>4, ElsewhereIsNext
<1>3. x \in Held(o)' \/ \E u \in Tab : edit'[u] # None /\ edit'[u].op = o /\ x = edit'[u].record
  BY DEF Copies, Pending
<1> QED
  BY <1>1, <1>2, <1>3

LEMMA MadeGrows ==
  ASSUME Inv, MadeInUse, Elsewhere
  PROVE  made' \in Nat /\ made \in Nat /\ made <= made'
<1>1. made \in Nat /\ \A o \in Op : o \in Nat
  BY DEF Inv, TypeOK, Op
<1>2. ASSUME NEW t \in Tab, NEW c \in Op, NEW z \in Queued, Coalesces(t, c, z)
      PROVE  made' = made
  <2>1. c <= made
    BY <1>2, HeldTypes DEF Coalesces, Inv, MadeInUse, Copies
  <2> QED
    BY <1>1, <1>2, <2>1 DEF Coalesces
<1> QED
  BY <1>1, <1>2, ElsewhereIsNext DEF EditsRest, Begins

LEMMA PositionsStep ==
  ASSUME Inv, MadeInUse, Positions, Elsewhere
  PROVE  MadeInUse' /\ Positions'
<1>1. MadeInUse'
  BY PositionsCopies, CopiesStep, ElsewhereIsNext DEF Inv, CopiesInv
<1>2. ASSUME NEW o \in Op, NEW x \in Copies(o)'
      PROVE  x.entity = Progress /\ x.dependsOn = None
  BY <1>2, CopiesCome DEF Positions, Carries
<1> QED
  BY <1>1, <1>2 DEF Positions

(* What is sent is a copy of the queue's.                                   *)
LEMMA RequestedBase ==
  ASSUME Inv, ChosenBase, NEW o \in Op, chosen[o] # None, NEW env, Requested(env), env.op = o
  PROVE  env.base = chosen[o]
<1>1. CASE env \in late
  BY <1>1 DEF ChosenBase
<1>2. ASSUME NEW t \in Tab, drain[t].pc = "waiting", env = Sent(t)
      PROVE  env.base = chosen[o]
  <2>1. drain[t].cur \in Op /\ Copy(t) \in Queued
    BY <1>2, BusyRun DEF Inv, Busy, PC
  <2>2. env.op = drain[t].cur /\ env.base = Copy(t).base
    BY <1>2 DEF Sent, Request
  <2>3. Copy(t) \in Copies(o)
    BY <2>1, <2>2, HeldTypes, NotNone DEF Copy, Copies, Inv
  <2> QED
    BY <2>2, <2>3 DEF ChosenBase
<1> QED
  BY <1>1, <1>2 DEF Requested

LEMMA BaseStep ==
  ASSUME Inv, MadeInUse, Positions, ChosenBase, Elsewhere, UNCHANGED chosen
  PROVE  ChosenBase'
<1>1. made' \in Nat /\ made \in Nat /\ made <= made'
  BY MadeGrows
<1> SUFFICES ASSUME NEW o \in Op, chosen[o] # None
             PROVE  /\ o <= made'
                    /\ \A x \in Copies(o)' : x.base = chosen[o]
                    /\ \A env \in late' : env.op = o => env.base = chosen[o]
                    /\ receipts'[o] # None => receipts'[o].input.base = chosen[o]
  BY DEF ChosenBase
<1>2. o \in Nat /\ o <= made
  BY DEF ChosenBase, Op
<1>3. ASSUME NEW x \in Copies(o)' PROVE x.base = chosen[o]
  <2>1. o # made + 1
    BY <1>1, <1>2
  <2>2. PICK y \in Copies(o) : Carries(y, x)
    BY <1>3, <2>1, CopiesCome
  <2>3. y.dependsOn = None /\ y.base = chosen[o]
    BY DEF Positions, ChosenBase
  <2> QED
    BY <2>2, <2>3 DEF Carries
<1>4. \A env \in late' : env.op = o => env.base = chosen[o]
  BY ElsewhereIsNext, ServerWrites, RequestedBase DEF Inv
<1>5. ASSUME receipts'[o] # None PROVE receipts'[o].input.base = chosen[o]
  <2>1. CASE receipts'[o] = receipts[o]
    BY <1>5, <2>1 DEF ChosenBase
  <2>2. CASE receipts'[o] # receipts[o]
    <3>1. PICK env, result : /\ Requested(env) /\ env.op = o
                             /\ receipts'[o] = [input |-> env, result |-> result]
                             /\ (Applies(env, result) \/ Conflicts(env, result))
      BY <2>2, ElsewhereIsNext, ServerWrites DEF Inv
    <3> QED
      BY <3>1, RequestedBase
  <2> QED
    BY <2>1, <2>2
<1> QED
  BY <1>1, <1>2, <1>3, <1>4, <1>5

LEMMA ConflictsStep ==
  ASSUME Inv, ConflictsDiffer, Elsewhere
  PROVE  ConflictsDiffer'
<1> SUFFICES ASSUME NEW o \in Op, receipts'[o] # None, receipts'[o].result.kind = "CONFLICT"
             PROVE  receipts'[o].result.revision # receipts'[o].input.base
  BY DEF ConflictsDiffer
<1>1. CASE receipts'[o] = receipts[o]
  BY <1>1 DEF ConflictsDiffer
<1>2. CASE receipts'[o] # receipts[o]
  <2>1. PICK env, result : /\ receipts'[o] = [input |-> env, result |-> result]
                           /\ (Applies(env, result) \/ Conflicts(env, result))
    BY <1>2, ElsewhereIsNext, ServerWrites DEF Inv
  <2>2. result.kind = "CONFLICT"
    BY <2>1
  <2>3. result.revision # env.base
    BY <2>1, <2>2 DEF Applies, Conflicts
  <2> QED
    BY <2>1, <2>3
<1> QED
  BY <1>1, <1>2

LEMMA ElsewhereStep ==
  ASSUME CenterInv, Elsewhere, UNCHANGED center
  PROVE  CenterInv'
<1> USE DEF CenterInv
<1>1. Inv'
  BY ElsewhereIsNext, StepInv
<1>2. MadeInUse' /\ Positions'
  BY PositionsStep
<1>3. CenterTypes' /\ UNCHANGED <<chosen, deciding>>
  BY DEF center, CenterTypes
<1>4. Decisions'
  <2>1. made' \in Nat /\ made \in Nat /\ made <= made'
    BY MadeGrows
  <2>2. \A n \in Op : n <= made => n <= made'
    BY <2>1 DEF Op
  <2> QED
    BY <1>3, <2>2 DEF Decisions
<1>5. ChosenBase' /\ ConflictsDiffer'
  BY <1>3, BaseStep, ConflictsStep
<1> QED
  BY <1>1, <1>2, <1>3, <1>4, <1>5

----
(* The decisions.                                                           *)

LEMMA SightType ==
  ASSUME TypeOK, NEW o \in Present, NEW v \in Views(o)
  PROVE  v \in Sight /\ v.op = o
<1>1. o \in Op /\ outbox[o] \in Queued
  BY DEF Present, TypeOK, OutboxType
<1>2. outbox[o].edit \in Edit
  BY <1>1 DEF Queued
<1>3. Receipt(o) \in Nat \cup {None} /\ rows[Progress].rev \in Nat
  BY <1>1 DEF Receipt, TypeOK, AnyAnswer, Entity
<1>4. PICK loaded \in BOOLEAN, revision \in Nat \cup {None} :
        v = [op |-> o, edit |-> outbox[o].edit, loaded |-> loaded, revision |-> revision]
  BY <1>3 DEF Views
<1> QED
  BY <1>1, <1>2, <1>4 DEF Sight

(* A decision that is made, given up or adopted moves nothing else.         *)
LEMMA VarsRest ==
  ASSUME CenterInv, UNCHANGED <<vars, chosen>>
  PROVE  /\ Inv' /\ MadeInUse' /\ Positions' /\ ChosenBase' /\ ConflictsDiffer'
<1> USE DEF CenterInv
<1>1. Inv' /\ CopiesInv'
  BY PositionsCopies, StepInv, CopiesStep DEF Inv
<1>2. \A o \in Op : Copies(o)' = Copies(o)
  BY DEF vars, device, tabs, Copies, Held, Pending
<1>3. UNCHANGED <<receipts, late, made>>
  BY DEF vars, server, counts
<1> QED
  BY <1>1, <1>2, <1>3 DEF CopiesInv, Positions, ChosenBase, ConflictsDiffer

LEMMA DecideStep ==
  ASSUME CenterInv, NEW t \in Tab, view[t] # None, NEW new \in Queued \cup {None}, Decide(t, new)
  PROVE  /\ deciding' \in [Tab -> Decision \cup {None}]
         /\ view[t].op \in Op
         /\ deciding'[t].op = view[t].op /\ deciding'[t].new = new /\ deciding'[t].id = made + 1
         /\ \A u \in Tab \ {t} : deciding'[u] = deciding[u]
<1> DEFINE d == [pc |-> "commit", op |-> view[t].op, new |-> new, id |-> made + 1,
                 adopt |-> new # None \/ view[t].loaded]
<1>1. view[t] \in Sight /\ made \in Nat
  BY DEF CenterInv, CenterTypes, Inv, TypeOK
<1>2. view[t].op \in Op /\ view[t].loaded \in BOOLEAN
  BY <1>1 DEF Sight
<1>3. d.op = view[t].op /\ d.new = new /\ d.id = made + 1
  OBVIOUS
<1>4. d \in Decision
  <2>1. (new # None \/ view[t].loaded) \in BOOLEAN
    OBVIOUS
  <2>2. made + 1 \in Nat
    BY <1>1
  <2> QED
    BY <1>2, <2>1, <2>2 DEF Decision
<1>5. deciding' = [deciding EXCEPT ![t] = d] /\ deciding \in [Tab -> Decision \cup {None}]
  BY DEF Decide, CenterInv, CenterTypes
<1> HIDE DEF d
<1> QED
  BY <1>2, <1>3, <1>4, <1>5

LEMMA ChooseServerStep ==
  ASSUME CenterInv, NEW t \in Tab, ChooseServer(t)
  PROVE  CenterInv'
<1> USE DEF CenterInv
<1>1. UNCHANGED <<vars, view, chosen>> /\ view[t] # None /\ Decide(t, None)
  BY DEF ChooseServer
<1>2. Inv' /\ MadeInUse' /\ Positions' /\ ChosenBase' /\ ConflictsDiffer'
  BY <1>1, VarsRest
<1>3. /\ deciding' \in [Tab -> Decision \cup {None}] /\ deciding'[t].new = None
      /\ \A u \in Tab \ {t} : deciding'[u] = deciding[u]
  BY <1>1, DecideStep
<1>4. CenterTypes'
  BY <1>1, <1>3 DEF CenterTypes
<1>5. Decisions'
  BY <1>1, <1>3 DEF Decisions, vars, counts
<1> QED
  BY <1>2, <1>4, <1>5

LEMMA ChooseLocalStep ==
  ASSUME CenterInv, NEW t \in Tab, ChooseLocal(t)
  PROVE  CenterInv'
<1> USE DEF CenterInv
<1>1. PICK n \in Op : n = made + 1
  BY NextId DEF ChooseLocal, Inv
<1>2. made' = n /\ made \in Nat /\ n \in Nat /\ ~ n <= made
  BY <1>1 DEF ChooseLocal, Inv, TypeOK
<1>3. view[t] # None /\ view[t] \in Sight /\ view[t].op \in Op /\ outbox[view[t].op] # None
  BY DEF ChooseLocal, CenterTypes, Sight, Unresolved
<1>4. view[t].op # n
  <2>1. view[t].op <= made
    BY <1>3, HeldTypes DEF MadeInUse, Copies, Inv
  <2> QED
    BY <1>2, <2>1
<1>5. PICK new \in NewOperations("PROGRESS_SET", Progress, None, LocalBase(view[t])) :
        Decide(t, [new EXCEPT !.edit = view[t].edit])
  BY DEF ChooseLocal
<1> DEFINE r == [new EXCEPT !.edit = view[t].edit]
<1>6. r \in Queued /\ r.entity = Progress /\ r.dependsOn = None /\ r.base = LocalBase(view[t])
  <2>1. PICK m \in NextLocalSequence :
          new = [kind |-> "PROGRESS_SET", entity |-> Progress, seq |-> m, dependsOn |-> None,
                 base |-> LocalBase(view[t]), state |-> "PENDING", attempts |-> 0,
                 waiting |-> FALSE, edit |-> edits + 1]
    BY DEF NewOperations
  <2>2. m \in Nat /\ edits + 1 \in Nat
    BY DEF NextLocalSequence, Present, Inv, TypeOK, OutboxType, Queued
  <2>3. LocalBase(view[t]) \in Nat /\ view[t].edit \in Edit
    BY <1>3 DEF LocalBase, Sight
  <2>4. 0 \in 0 .. MaxAttempts /\ Progress \in Entity
    BY SyncConstants DEF Entity
  <2>5. new \in [kind : Kind, entity : Entity, seq : Nat, dependsOn : Op \cup {None}, base : Nat,
                 state : DispatchState, attempts : 0 .. MaxAttempts, waiting : BOOLEAN, edit : Nat]
    BY <2>1, <2>2, <2>3, <2>4 DEF Kind, DispatchState
  <2>6. new.entity = Progress /\ new.dependsOn = None /\ new.base = LocalBase(view[t])
    BY <2>1
  <2>7. r \in Queued
    BY <2>3, <2>5 DEF Queued
  <2>8. r.entity = new.entity /\ r.dependsOn = new.dependsOn /\ r.base = new.base
    BY <2>5
  <2> QED
    BY <2>6, <2>7, <2>8
<1> HIDE DEF r
<1>7. /\ deciding' \in [Tab -> Decision \cup {None}]
      /\ deciding'[t].op = view[t].op /\ deciding'[t].new = r /\ deciding'[t].id = n
      /\ \A u \in Tab \ {t} : deciding'[u] = deciding[u]
  BY <1>1, <1>3, <1>5, <1>6, DecideStep DEF r
<1>8. /\ UNCHANGED <<device, tabs, server, late, owed, edits, expiries, stops, view>>
      /\ chosen' = [chosen EXCEPT ![n] = view[t].revision]
  BY <1>1 DEF ChooseLocal
<1>9. chosen \in [Op -> Nat \cup {None}] /\ view[t].revision \in Nat \cup {None}
  BY <1>3 DEF CenterTypes, Sight
<1>10. chosen' \in [Op -> Nat \cup {None}] /\ chosen'[n] = view[t].revision
       /\ \A o \in Op : o # n => chosen'[o] = chosen[o]
  BY <1>8, <1>9
<1>11. \A o \in Op : Copies(o)' = Copies(o)
  BY <1>8 DEF device, tabs, Copies, Held, Pending
<1>12. UNCHANGED <<outbox, records, acks, lease, edit, drain, discarding, rows, receipts, late, owed,
                   edits, expiries, stops, view>>
  BY <1>8 DEF device, tabs, server
<1>13. Inv'
  <2>1. made' \in 0 .. MaxOps
    BY <1>1, <1>2, SyncConstants DEF Op
  <2>2. TypeOK'
    BY <1>12, <2>1 DEF Inv, TypeOK
  <2> QED
    BY <1>12, <2>2 DEF Inv, RunsOK, LeaseHeld, EditsKept, AcknowledgedOnServer
<1>14. \A o \in Op : o <= made => o <= made' /\ o # n
  BY <1>1, <1>2 DEF Op
<1>15. MadeInUse' /\ Positions' /\ ConflictsDiffer'
  BY <1>11, <1>12, <1>14 DEF MadeInUse, Positions, ConflictsDiffer
<1>16. CenterTypes'
  BY <1>7, <1>10, <1>12 DEF CenterTypes
<1>17. Decisions'
  <2>1. chosen'[n] # None => r.base = chosen'[n]
    BY <1>6, <1>10 DEF LocalBase
  <2>2. n <= made'
    BY <1>2
  <2>3. ASSUME NEW u \in Tab, u # t, deciding[u] # None, deciding[u].new # None
        PROVE  /\ deciding[u].id \in Op /\ deciding[u].id <= made' /\ deciding[u].id # deciding[u].op
               /\ deciding[u].new.entity = Progress /\ deciding[u].new.dependsOn = None
               /\ chosen'[deciding[u].id] # None => deciding[u].new.base = chosen'[deciding[u].id]
    BY <1>10, <1>14, <2>3 DEF Decisions
  <2> QED
    BY <1>4, <1>6, <1>7, <2>1, <2>2, <2>3 DEF Decisions
<1>18. ChosenBase'
  <2>1. Copies(n) = {} /\ receipts[n] = None /\ \A env \in late : env.op # n
    BY <1>2 DEF MadeInUse
  <2>2. n <= made'
    BY <1>2
  <2>3. ASSUME NEW o \in Op, o # n, chosen'[o] # None
        PROVE  /\ o <= made'
               /\ \A x \in Copies(o)' : x.base = chosen'[o]
               /\ \A env \in late' : env.op = o => env.base = chosen'[o]
               /\ receipts'[o] # None => receipts'[o].input.base = chosen'[o]
    BY <1>10, <1>11, <1>12, <1>14, <2>3 DEF ChosenBase
  <2>4. /\ \A x \in Copies(n)' : x.base = chosen'[n]
        /\ \A env \in late' : env.op = n => env.base = chosen'[n]
        /\ receipts'[n] # None => receipts'[n].input.base = chosen'[n]
    BY <1>11, <1>12, <2>1
  <2> QED
    BY <2>2, <2>3, <2>4 DEF ChosenBase
<1> QED
  BY <1>13, <1>15, <1>16, <1>17, <1>18

(* One transaction puts the new operation and removes the old one.          *)
LEMMA CommitResolutionStep ==
  ASSUME CenterInv, NEW t \in Tab, CommitResolution(t)
  PROVE  CenterInv'
<1> USE DEF CenterInv
<1>1. PICK d \in Decision : d = deciding[t]
  BY DEF CommitResolution, CenterTypes
<1>2. /\ outbox' = Committed(t)
      /\ owed' = (owed \ {d.op}) \cup (IF d.new = None THEN {} ELSE {d.id})
      /\ deciding' = [deciding EXCEPT ![t] = IF d.adopt THEN [d EXCEPT !.pc = "adopt"] ELSE None]
      /\ view' = [view EXCEPT ![t] = None]
      /\ UNCHANGED <<records, acks, lease, tabs, server, late, counts, chosen>>
  BY <1>1 DEF CommitResolution
<1>3. /\ d.op \in Op /\ d.new \in Queued \cup {None} /\ outbox \in OutboxType
      /\ owed \subseteq Op
  BY <1>1 DEF Decision, Inv, TypeOK
<1>4. deciding[t] # None
  BY DEF CommitResolution
<1>5. d.new # None =>
        /\ d.id \in Op /\ d.id <= made /\ d.id # d.op
        /\ d.new.entity = Progress /\ d.new.dependsOn = None
        /\ chosen[d.id] # None => d.new.base = chosen[d.id]
  BY <1>1, <1>4 DEF Decisions
<1>6. /\ \A o \in Op : outbox'[o] = IF o = d.op THEN None
                                     ELSE IF d.new # None /\ o = d.id THEN d.new ELSE outbox[o]
      /\ outbox' \in OutboxType
  <2>1. CASE d.new = None
    BY <1>1, <1>2, <1>3, <2>1 DEF Committed, OutboxType
  <2>2. CASE d.new # None
    <3>1. outbox' = [[outbox EXCEPT ![d.id] = d.new] EXCEPT ![d.op] = None]
      BY <1>1, <1>2, <2>2 DEF Committed
    <3>2. [outbox EXCEPT ![d.id] = d.new] \in OutboxType
      BY <1>3, <1>5, <2>2 DEF OutboxType
    <3> QED
      BY <1>3, <1>5, <2>2, <3>1, <3>2 DEF OutboxType
  <2> QED
    BY <2>1, <2>2
<1>7. UNCHANGED <<records, acks, lease, edit, drain, discarding, rows, receipts, late, made, edits,
                  expiries, stops, chosen>>
  BY <1>2 DEF tabs, server, counts
<1>8. Inv'
  <2>1. owed' \subseteq Op
    BY <1>2, <1>3, <1>5
  <2>2. TypeOK'
    BY <1>6, <1>7, <2>1 DEF Inv, TypeOK
  <2>3. EditsKept'
    <3>1. ASSUME NEW o \in owed', outbox'[o] = None
          PROVE  receipts[o] # None /\ receipts[o].result.kind = "APPLIED"
      <4>1. CASE d.new # None /\ o = d.id
        BY <1>3, <1>5, <1>6, <3>1, <4>1, NotNone
      <4>2. CASE ~ (d.new # None /\ o = d.id)
        <5>1. o \in owed /\ o # d.op
          BY <1>2, <3>1, <4>2
        <5> QED
          BY <1>3, <1>6, <3>1, <4>2, <5>1 DEF Inv, EditsKept
      <4> QED
        BY <4>1, <4>2
    <3> QED
      BY <1>7, <3>1 DEF EditsKept
  <2> QED
    BY <1>7, <2>2, <2>3 DEF Inv, RunsOK, LeaseHeld, AcknowledgedOnServer
<1>9. \A o \in Op : \A x \in Copies(o)' : x \in Copies(o) \/ (d.new # None /\ o = d.id /\ x = d.new)
  BY <1>6, <1>7 DEF Copies, Held, Pending
<1>10. Positions'
  BY <1>5, <1>9 DEF Positions
<1>11. MadeInUse'
  <2>1. \A o \in Op : Copies(o)' # {} => o <= made
    BY <1>5, <1>9 DEF MadeInUse
  <2> QED
    BY <1>7, <2>1 DEF MadeInUse
<1>12. CenterTypes' /\ (deciding'[t] # None => deciding'[t].new = d.new /\ deciding'[t].id = d.id
                                               /\ deciding'[t].op = d.op)
       /\ \A u \in Tab \ {t} : deciding'[u] = deciding[u]
  <2>1. [d EXCEPT !.pc = "adopt"] \in Decision
    BY DEF Decision
  <2>2. /\ [d EXCEPT !.pc = "adopt"].new = d.new /\ [d EXCEPT !.pc = "adopt"].id = d.id
        /\ [d EXCEPT !.pc = "adopt"].op = d.op
    BY DEF Decision
  <2> DEFINE e == [d EXCEPT !.pc = "adopt"]
  <2>3. deciding' = [deciding EXCEPT ![t] = IF d.adopt THEN e ELSE None]
    BY <1>2
  <2>4. e \in Decision /\ e.new = d.new /\ e.id = d.id /\ e.op = d.op
    BY <2>1, <2>2
  <2> HIDE DEF e
  <2> QED
    BY <1>2, <2>3, <2>4 DEF CenterTypes
<1>13. Decisions'
  <2>1. ASSUME deciding'[t] # None, d.new # None
        PROVE  /\ deciding'[t].id \in Op /\ deciding'[t].id <= made' /\ deciding'[t].id # deciding'[t].op
               /\ deciding'[t].new.entity = Progress /\ deciding'[t].new.dependsOn = None
               /\ chosen'[deciding'[t].id] # None => deciding'[t].new.base = chosen'[deciding'[t].id]
    BY <1>5, <1>7, <1>12, <2>1
  <2>2. ASSUME NEW u \in Tab, u # t, deciding[u] # None, deciding[u].new # None
        PROVE  /\ deciding[u].id \in Op /\ deciding[u].id <= made' /\ deciding[u].id # deciding[u].op
               /\ deciding[u].new.entity = Progress /\ deciding[u].new.dependsOn = None
               /\ chosen'[deciding[u].id] # None => deciding[u].new.base = chosen'[deciding[u].id]
    BY <1>7, <2>2 DEF Decisions
  <2> QED
    BY <1>12, <2>1, <2>2 DEF Decisions
<1>14. ChosenBase'
  BY <1>5, <1>7, <1>9 DEF ChosenBase
<1>15. ConflictsDiffer'
  BY <1>7 DEF ConflictsDiffer
<1> QED
  BY <1>8, <1>10, <1>11, <1>12, <1>13, <1>14, <1>15

LEMMA CenterStep ==
  ASSUME CenterInv, [CenterNext]_allVars
  PROVE  CenterInv'
<1> USE DEF CenterInv
<1>1. ASSUME UNCHANGED <<vars, chosen>>, CenterTypes',
             \A t \in Tab : deciding'[t] # None => deciding'[t] = deciding[t]
      PROVE  CenterInv'
  <2>1. made' = made
    BY <1>1 DEF vars, counts
  <2>2. Decisions'
    BY <1>1, <2>1 DEF Decisions
  <2> QED
    BY <1>1, <2>2, VarsRest
<1>2. ASSUME NEW t \in Tab, ListConflicts(t)
      PROVE  CenterInv'
  <2>1. PICK o \in Present : \E v \in Views(o) : view' = [view EXCEPT ![t] = v]
    BY <1>2 DEF ListConflicts
  <2>2. PICK v \in Views(o) : view' = [view EXCEPT ![t] = v]
    BY <2>1
  <2>3. v \in Sight
    BY SightType DEF Inv
  <2> QED
    BY <1>1, <1>2, <2>2, <2>3 DEF ListConflicts, CenterTypes
<1>3. ASSUME NEW t \in Tab, ResolutionFails(t)
      PROVE  CenterInv'
  BY <1>1, <1>3 DEF ResolutionFails, CenterTypes
<1>4. ASSUME NEW t \in Editor, AdoptPosition(t)
      PROVE  CenterInv'
  <2>1. deciding' = [deciding EXCEPT ![t] = None] /\ UNCHANGED <<view, chosen>>
    BY <1>4 DEF AdoptPosition
  <2>2. CenterTypes' /\ \A u \in Tab : deciding'[u] # None => deciding'[u] = deciding[u]
    BY <2>1 DEF CenterTypes
  <2>3. CASE UNCHANGED vars
    BY <1>1, <2>1, <2>2, <2>3
  <2>4. CASE SaveProgress(t)
    <3>1. Elsewhere
      BY <2>4 DEF Elsewhere
    <3>2. Inv' /\ MadeInUse' /\ Positions'
      BY <3>1, ElsewhereIsNext, StepInv, PositionsStep
    <3>3. ChosenBase' /\ ConflictsDiffer'
      BY <2>1, <3>1, BaseStep, ConflictsStep
    <3>4. \A n \in Op : n <= made => n <= made'
      BY <3>1, MadeGrows DEF Op
    <3>5. Decisions'
      BY <2>1, <2>2, <3>4 DEF Decisions
    <3> QED
      BY <2>2, <3>2, <3>3, <3>5
  <2> QED
    BY <1>4, <2>3, <2>4 DEF AdoptPosition
<1>5. CASE Elsewhere /\ UNCHANGED center
  BY <1>5, ElsewhereStep
<1>6. CASE UNCHANGED allVars
  BY <1>1, <1>6 DEF allVars, center, CenterTypes
<1>7. Editor \subseteq Tab
  BY SyncConstants
<1> QED
  BY <1>2, <1>3, <1>4, <1>5, <1>6, <1>7, ChooseServerStep, ChooseLocalStep, CommitResolutionStep
     DEF CenterNext, Center

LEMMA CenterInitInv == CenterInit => CenterInv
<1> SUFFICES ASSUME CenterInit PROVE CenterInv
  OBVIOUS
<1>1. Inv /\ MadeInUse
  BY InitInv, InitQueue DEF CenterInit, QueueInv, CopiesInv
<1>2. \A o \in Op : Copies(o) = {}
  BY DEF CenterInit, Init, Copies, Held, Pending, NoRun
<1>3. CenterTypes /\ Positions /\ Decisions /\ ChosenBase /\ ConflictsDiffer
  BY <1>2 DEF CenterInit, Init, CenterTypes, Positions, Decisions, ChosenBase, ConflictsDiffer
<1> QED
  BY <1>1, <1>3 DEF CenterInv

(* The coordinator's invariant holds beside the decisions, together with    *)
(* what a pending decision may assume of its id and of the revision it was  *)
(* made over.                                                               *)
THEOREM CenterInvariance == CenterSpec => []CenterInv
  BY CenterInitInv, CenterStep, PTL DEF CenterSpec

(* Whatever the reader decides and the coordinator puts back meanwhile, a   *)
(* saved or chosen position is queued or applied unless a decision dropped  *)
(* it (commitConflictResolution).                                           *)
THEOREM ChoicesAreKept == CenterSpec => []ChoicesKept
<1>1. CenterInv => ChoicesKept
  BY DEF CenterInv, Inv, ChoicesKept
<1> QED
  BY <1>1, CenterInvariance, PTL

(* A local choice is refused again only if the position moved on after the  *)
(* revision the reader was shown (planProgressChoice).                      *)
THEOREM ChoicesNameTheirRevision == CenterSpec => []ChoiceRefusedOnlyIfMoved
<1>1. CenterInv => ChoiceRefusedOnlyIfMoved
  BY DEF CenterInv, ChosenBase, ConflictsDiffer, ChoiceRefusedOnlyIfMoved
<1> QED
  BY <1>1, CenterInvariance, PTL

----
(* Local choices.  The id of a choice is drawn when the reader decides, and *)
(* the transaction that queues it comes later.                              *)

Puts(t) == deciding[t] # None /\ deciding[t].new # None

Unused(o) ==
  /\ Copies(o) = {} /\ acks[o] = None /\ receipts[o] = None
  /\ \A env \in late : env.op # o

(* Until then nobody queues, works on, sends or has settled an operation of *)
(* that id, and two choices never have the same.                            *)
FreshChoices ==
  /\ \A t \in Tab, o \in Op : Puts(t) /\ deciding[t].pc = "commit" /\ deciding[t].id = o => Unused(o)
  /\ \A t, u \in Tab : Puts(t) /\ Puts(u) /\ deciding[t].id = deciding[u].id => t = u

(* An id that is given out is used by its own decision only.                *)
LEMMA UnusedStays ==
  ASSUME CenterInv, Elsewhere, NEW o \in Op, o <= made, Unused(o)
  PROVE  Unused(o)'
<1> USE DEF CenterInv
<1>1. [Next]_vars
  BY ElsewhereIsNext
<1>2. o # made + 1
  BY DEF Inv, TypeOK, Op
<1>3. Copies(o)' = {}
  BY <1>2, CopiesCome DEF Unused
<1>4. acks'[o] = None
  BY <1>1, AcksChange DEF Inv, Unused, Copies
<1>5. ASSUME NEW env, Requested(env), env.op = o
      PROVE  FALSE
  <2>1. PICK t \in Tab : drain[t].pc = "waiting" /\ env = Sent(t)
    BY <1>5 DEF Requested, Unused
  <2>2. drain[t].cur \in Op /\ Copy(t) \in Queued /\ env.op = drain[t].cur
    BY <2>1, BusyRun DEF Inv, Busy, PC
  <2>3. Copy(t) \in Copies(o)
    BY <1>5, <2>2, HeldTypes, NotNone DEF Copy, Copies, Inv
  <2> QED
    BY <2>3 DEF Unused
<1>6. receipts'[o] = None /\ \A env \in late' : env.op # o
  BY <1>1, <1>5, ServerWrites DEF Inv, Unused
<1> QED
  BY <1>3, <1>4, <1>6 DEF Unused

(* A step that makes no decision and leaves what is unused so.              *)
LEMMA ChoicesRest ==
  ASSUME CenterInv, FreshChoices,
         \A t \in Tab : deciding'[t] # None => deciding'[t] = deciding[t],
         \A o \in Op : o <= made /\ Unused(o) => Unused(o)'
  PROVE  FreshChoices'
<1>1. \A t \in Tab : Puts(t)' => Puts(t) /\ deciding'[t] = deciding[t]
  BY DEF Puts
<1>2. \A t \in Tab : Puts(t) => deciding[t].id \in Op /\ deciding[t].id <= made
  BY DEF CenterInv, Decisions, Puts
<1>3. ASSUME NEW t \in Tab, NEW o \in Op, Puts(t)', deciding'[t].pc = "commit", deciding'[t].id = o
      PROVE  Unused(o)'
  <2>1. Unused(o) /\ o <= made
    BY <1>1, <1>2, <1>3 DEF FreshChoices
  <2> QED
    BY <2>1
<1> QED
  BY <1>1, <1>3 DEF FreshChoices

(* A decision that is made draws an id that is unused and given to nobody.  *)
LEMMA ChoiceIsFresh ==
  ASSUME CenterInv, FreshChoices, NEW t \in Tab, ChooseServer(t) \/ ChooseLocal(t)
  PROVE  FreshChoices'
<1> USE DEF CenterInv
<1>1. \A o \in Op : Copies(o)' = Copies(o)
  BY DEF ChooseServer, ChooseLocal, vars, device, tabs, Copies, Held, Pending
<1>2. UNCHANGED <<acks, receipts, late>> /\ made \in Nat
  BY DEF ChooseServer, ChooseLocal, vars, device, server, Inv, TypeOK
<1>3. \A o \in Op : Unused(o)' <=> Unused(o)
  BY <1>1, <1>2 DEF Unused
<1>4. \A u \in Tab : Puts(u) => deciding[u].id \in Op /\ deciding[u].id <= made
  BY DEF Decisions, Puts
<1>5. /\ deciding'[t].new # None => deciding'[t].id = made + 1
      /\ \A u \in Tab \ {t} : deciding'[u] = deciding[u]
  <2>1. CASE ChooseServer(t)
    BY <2>1, DecideStep DEF ChooseServer
  <2>2. CASE ChooseLocal(t)
    <3>1. PICK new \in NewOperations("PROGRESS_SET", Progress, None, LocalBase(view[t])) :
            Decide(t, [new EXCEPT !.edit = view[t].edit])
      BY <2>2 DEF ChooseLocal
    <3> DEFINE r == [new EXCEPT !.edit = view[t].edit]
    <3>2. deciding' = [deciding EXCEPT ![t] =
            [pc |-> "commit", op |-> view[t].op, new |-> r, id |-> made + 1,
             adopt |-> r # None \/ view[t].loaded]]
      BY <3>1 DEF Decide
    <3> HIDE DEF r
    <3> QED
      BY <3>2 DEF CenterTypes
  <2> QED
    BY <2>1, <2>2
<1>6. ASSUME NEW o \in Op, o = made + 1
      PROVE  Unused(o)
  <2>1. ~ o <= made
    BY <1>2, <1>6
  <2> QED
    BY <2>1 DEF MadeInUse, Unused
<1>7. ASSUME NEW u \in Tab, NEW o \in Op, Puts(u)', deciding'[u].pc = "commit", deciding'[u].id = o
      PROVE  Unused(o)'
  BY <1>3, <1>5, <1>6, <1>7 DEF FreshChoices, Puts
<1>8. ASSUME NEW u \in Tab, u # t, Puts(u), Puts(t)'
      PROVE  deciding'[t].id # deciding[u].id
  <2>1. deciding'[t].id = made + 1 /\ deciding[u].id \in Nat /\ deciding[u].id <= made
    BY <1>4, <1>5, <1>8 DEF Puts, Op
  <2> QED
    BY <1>2, <2>1
<1>9. ASSUME NEW u \in Tab, NEW v \in Tab, Puts(u)', Puts(v)', deciding'[u].id = deciding'[v].id
      PROVE  u = v
  BY <1>5, <1>8, <1>9 DEF FreshChoices, Puts
<1> QED
  BY <1>7, <1>9 DEF FreshChoices

(* A commit uses the id of its own decision, which then has no commit left.  *)
LEMMA CommitUsesItsOwn ==
  ASSUME CenterInv, FreshChoices, NEW t \in Tab, CommitResolution(t)
  PROVE  FreshChoices'
<1> USE DEF CenterInv
<1>1. PICK d \in Decision : d = deciding[t]
  BY DEF CommitResolution, CenterTypes
<1>2. /\ outbox' = Committed(t) /\ d # None
      /\ deciding' = [deciding EXCEPT ![t] = IF d.adopt THEN [d EXCEPT !.pc = "adopt"] ELSE None]
      /\ UNCHANGED <<acks, edit, drain, receipts, late>>
  BY <1>1 DEF CommitResolution, tabs, server
<1>3. /\ deciding'[t] # None => /\ deciding'[t].pc = "adopt"
                                /\ deciding'[t].new = d.new /\ deciding'[t].id = d.id
      /\ \A u \in Tab \ {t} : deciding'[u] = deciding[u]
  BY <1>1, <1>2 DEF CenterTypes, Decision
<1>4. ASSUME NEW o \in Op, ~ (d.new # None /\ o = d.id)
      PROVE  Copies(o)' \subseteq Copies(o)
  <2>1. outbox'[o] \in {outbox[o], None}
    BY <1>1, <1>2, <1>4 DEF Committed, Inv, TypeOK, OutboxType
  <2> QED
    BY <1>2, <2>1 DEF Copies, Held, Pending
<1>5. ASSUME NEW u \in Tab, NEW o \in Op, Puts(u)', deciding'[u].pc = "commit", deciding'[u].id = o
      PROVE  Unused(o)'
  <2>1. u # t /\ Puts(u) /\ deciding[u].pc = "commit" /\ deciding[u].id = o
    BY <1>3, <1>5 DEF Puts
  <2>2. ~ (d.new # None /\ o = d.id)
    BY <1>1, <1>2, <2>1 DEF FreshChoices, Puts
  <2>3. Copies(o)' = {}
    BY <1>4, <2>1, <2>2 DEF FreshChoices, Unused
  <2> QED
    BY <1>2, <2>1, <2>3 DEF FreshChoices, Unused
<1>6. \A u \in Tab : Puts(u)' => Puts(u) /\ deciding'[u].id = deciding[u].id
  BY <1>1, <1>2, <1>3 DEF Puts
<1> QED
  BY <1>5, <1>6 DEF FreshChoices

LEMMA FreshStep ==
  ASSUME CenterInv, FreshChoices, [CenterNext]_allVars
  PROVE  FreshChoices'
<1>1. ASSUME UNCHANGED vars, \A t \in Tab : deciding'[t] # None => deciding'[t] = deciding[t]
      PROVE  FreshChoices'
  <2>1. \A o \in Op : Copies(o)' = Copies(o)
    BY <1>1 DEF vars, device, tabs, Copies, Held, Pending
  <2>2. UNCHANGED <<acks, receipts, late>>
    BY <1>1 DEF vars, device, server
  <2>3. \A o \in Op : o <= made /\ Unused(o) => Unused(o)'
    BY <2>1, <2>2 DEF Unused
  <2> QED
    BY <1>1, <2>3, ChoicesRest
<1>2. ASSUME Elsewhere, \A t \in Tab : deciding'[t] # None => deciding'[t] = deciding[t]
      PROVE  FreshChoices'
  BY <1>2, UnusedStays, ChoicesRest
<1>3. ASSUME NEW t \in Tab, ListConflicts(t)
      PROVE  FreshChoices'
  BY <1>1, <1>3 DEF ListConflicts
<1>4. ASSUME NEW t \in Tab, ResolutionFails(t) \/ AdoptPosition(t)
      PROVE  \A u \in Tab : deciding'[u] # None => deciding'[u] = deciding[u]
  BY <1>4 DEF ResolutionFails, AdoptPosition, CenterInv, CenterTypes
<1>5. ASSUME NEW t \in Tab, ResolutionFails(t)
      PROVE  FreshChoices'
  BY <1>1, <1>4, <1>5 DEF ResolutionFails
<1>6. ASSUME NEW t \in Editor, AdoptPosition(t)
      PROVE  FreshChoices'
  <2>1. t \in Tab
    BY SyncConstants
  <2>2. CASE UNCHANGED vars
    BY <1>1, <1>4, <1>6, <2>1, <2>2
  <2>3. CASE SaveProgress(t)
    <3>1. Elsewhere
      BY <2>3 DEF Elsewhere
    <3> QED
      BY <1>2, <1>4, <1>6, <2>1, <3>1
  <2> QED
    BY <1>6, <2>2, <2>3 DEF AdoptPosition
<1>7. CASE Elsewhere /\ UNCHANGED center
  <2>1. deciding' = deciding
    BY <1>7 DEF center
  <2> QED
    BY <1>2, <1>7, <2>1
<1>8. CASE UNCHANGED allVars
  <2>1. UNCHANGED vars /\ deciding' = deciding
    BY <1>8 DEF allVars, center
  <2> QED
    BY <1>1, <2>1
<1>9. Editor \subseteq Tab
  BY SyncConstants
<1> QED
  BY <1>3, <1>5, <1>6, <1>7, <1>8, <1>9, ChoiceIsFresh, CommitUsesItsOwn DEF CenterNext, Center

(* A local choice is committed under an id that no queue, run, request or   *)
(* receipt knows, however long after it was made and whatever was saved,    *)
(* sent or chosen in between: the transaction adds an operation and never   *)
(* replaces one (planProgressChoice, commitConflictResolution).             *)
THEOREM ChoicesAreFresh == CenterSpec => []FreshChoices
<1>1. CenterInit => FreshChoices
  BY DEF CenterInit, FreshChoices, Puts
<1>2. CenterInv /\ FreshChoices /\ [CenterNext]_allVars => FreshChoices'
  BY FreshStep
<1> QED
  BY <1>1, <1>2, CenterInvariance, PTL DEF CenterSpec

=============================================================================
