------------------------ MODULE SnapshotMerge_proofs ------------------------
(* Proofs about SnapshotMerge, for any number of tabs and highlights.  The  *)
(* argument: whatever copy of a record a tab holds or is about to write, a  *)
(* deletion in it is the reader's or the server's, and a stamp or a server  *)
(* id in it means that the server has the highlight; both stay true.        *)
EXTENDS SnapshotMerge, TLAPS

IsGone(h) == server[h] # None /\ server[h].deleted
Justified(h) == h \in removed \/ IsGone(h)

Holds(h, value) ==
  /\ value.deleted => Justified(h)
  /\ value.known => server[h] # None

Fits(h, row) == Holds(h, row) /\ (row.synced => server[h] # None)

RecordsFit == \A h \in Highlight : record[h] # None => Fits(h, record[h])

EditsFit == \A t \in Tab : edit[t] # None => Fits(edit[t].target, edit[t].base)

MarksFit ==
  \A t \in Tab : synced[t] # None =>
    /\ server[synced[t].target] # None
    /\ synced[t].read # None => Fits(synced[t].target, synced[t].read)

SnapshotsFit ==
  \A t \in Tab, h \in Highlight :
    At(t, "read") /\ refresh[t].snap[h] # None =>
      /\ server[h] # None
      /\ refresh[t].snap[h].deleted => IsGone(h)

MergesFit ==
  \A t \in Tab, h \in Highlight :
    At(t, "prior") /\ refresh[t].shown[h] # None => Holds(h, refresh[t].shown[h])

TombstonesFit ==
  \A t \in Tab : At(t, "prior") \/ At(t, "project") =>
    \A h \in refresh[t].gone : IsGone(h)

WritesFit ==
  \A t \in Tab, h \in Highlight :
    (At(t, "project") \/ At(t, "delete")) /\ refresh[t].write[h] # None =>
      Fits(h, refresh[t].write[h])

IInv ==
  /\ TypeOK
  /\ RecordsFit /\ EditsFit /\ MarksFit
  /\ SnapshotsFit /\ MergesFit /\ TombstonesFit /\ WritesFit

----
(* What a refresh holds at each of its steps.                               *)
LEMMA RefreshTypes ==
  ASSUME NEW r \in RefreshAt
  PROVE  /\ r.pc \in {"fetch", "read", "prior", "project", "delete"}
         /\ r.pc = "fetch" =>
              r \in [pc : {"fetch"}, listed : [Highlight -> SUBSET OperationKind]]
         /\ r.pc = "read" =>
              r \in [pc : {"read"}, listed : [Highlight -> SUBSET OperationKind],
                     snap : [Highlight -> Row \cup {None}]]
         /\ r.pc = "prior" =>
              r \in [pc : {"prior"}, listed : [Highlight -> SUBSET OperationKind],
                     gone : SUBSET Highlight, shown : [Highlight -> Value \cup {None}]]
         /\ r.pc = "project" =>
              r \in [pc : {"project"}, gone : SUBSET Highlight,
                     write : [Highlight -> Record \cup {None}], todo : SUBSET Highlight]
         /\ r.pc = "delete" =>
              r \in [pc : {"delete"}, write : [Highlight -> Record \cup {None}],
                     todo : SUBSET Highlight]
  BY DEF RefreshAt

(* The server never takes a highlight back, and deletions are final.        *)
LEMMA GroundsStay ==
  ASSUME TypeOK, Next
  PROVE  \A h \in Highlight :
           /\ server[h] # None => server'[h] # None
           /\ IsGone(h) => IsGone(h)'
           /\ Justified(h) => Justified(h)'
<1> USE DEF IsGone, Justified
<1>1. CASE \E h \in Highlight : Create(h) \/ DiscardConflict(h)
  BY <1>1 DEF Create, DiscardConflict
<1>2. CASE \E h \in Highlight : Deliver(h)
  BY <1>2 DEF Deliver, TypeOK, deviceVars
<1>3. CASE \E h \in Highlight : CreateElsewhere(h)
  BY <1>3 DEF CreateElsewhere, TypeOK, deviceVars
<1>4. CASE \E h \in Highlight : ChangeElsewhere(h)
  <2>1. PICK h \in Highlight : ChangeElsewhere(h)
    BY <1>4
  <2>2. server[h] \in Row /\ ~server[h].deleted /\ removed' = removed
    BY <2>1 DEF ChangeElsewhere, IsLive, TypeOK, deviceVars
  <2>3. server' \in [Highlight -> Row \cup {None}]
    BY <2>1, SnapshotAssumption DEF ChangeElsewhere, IsLive, TypeOK, Row, Text
  <2>4. server'[h] # None /\ \A g \in Highlight \ {h} : server'[g] = server[g]
    <3>1. server'[h] \in Row
      BY <2>1, <2>2, SnapshotAssumption DEF ChangeElsewhere, TypeOK, Row, Text
    <3> QED BY <3>1, <2>1, NoneAssumption DEF ChangeElsewhere, TypeOK
  <2> QED BY <2>2, <2>4
<1>5. CASE \E t \in Tab : CommitEdit(t)
  BY <1>5 DEF CommitEdit
<1>6. CASE \E t \in Tab : ReadRecord(t) \/ MarkSynced(t) \/ CloseTab(t) \/ Refresh(t)
  <2>1. PICK t \in Tab : ReadRecord(t) \/ MarkSynced(t) \/ CloseTab(t) \/ Refresh(t)
    BY <1>6
  <2>2. server' = server /\ removed' = removed
    <3>1. CASE ReadRecord(t) \/ MarkSynced(t) \/ CloseTab(t)
      BY <3>1 DEF ReadRecord, MarkSynced, CloseTab, deviceVars
    <3>2. CASE Refresh(t)
      BY <3>2 DEF Refresh, Launch, FetchSnapshot, ReadLocal, ReadPrior, Project,
        ReadAffected, SoftDelete, EndRefresh, RefreshFails, deviceVars
    <3> QED BY <2>1, <3>1, <3>2
  <2> QED BY <2>2
<1>7. CASE \E t \in Editor, h \in Highlight :
             Acknowledge(t, h) \/ BeginEdit(t, h, "UPDATE") \/ BeginEdit(t, h, "DELETE")
  BY <1>7 DEF Acknowledge, BeginEdit, deviceVars
<1> QED BY <1>1, <1>2, <1>3, <1>4, <1>5, <1>6, <1>7 DEF Next

----
LEMMA MergedTypes ==
  ASSUME NEW kinds \in SUBSET OperationKind, NEW row \in Row \cup {None},
         NEW local \in Record \cup {None}
  PROVE  Merged(kinds, row, local) \in Value \cup {None}
<1>1. row # None => ServerValue(row) \in Value
  BY SnapshotAssumption DEF ServerValue, Row, Value, Text
<1>2. local # None => LocalValue(local) \in Value
  BY SnapshotAssumption DEF LocalValue, Record, Value
<1> QED BY <1>1, <1>2 DEF Merged, IsLive

(* A merge shows the row of the server or the record of the device.         *)
LEMMA MergedCases ==
  ASSUME NEW kinds, NEW row, NEW local,
         Merged(kinds, row, local) # None
  PROVE  \/ row # None /\ Merged(kinds, row, local) = ServerValue(row)
         \/ local # None /\ Merged(kinds, row, local) = LocalValue(local)
<1>1. CASE local = None
  BY <1>1 DEF Merged, IsLive
<1>2. CASE local # None
  BY <1>2 DEF Merged, IsLive
<1> QED BY <1>1, <1>2

LEMMA ProjectedTypes ==
  ASSUME NEW value \in Value, NEW kinds \in SUBSET OperationKind,
         NEW prior \in Record \cup {None}
  PROVE  Projected(value, kinds, prior) \in Record
<1>1. ProjectedSynced(value, kinds, prior) \in BOOLEAN
  BY DEF ProjectedSynced
<1> QED BY <1>1 DEF Projected, Value, Record

LEMMA EditedTypes ==
  ASSUME NEW base \in Record, base.rev < MaxRevision, NEW kind \in {"UPDATE", "DELETE"}
  PROVE  Edited(base, kind) \in Record
<1>1. base.rev + 1 \in 1..MaxRevision
  BY SnapshotAssumption DEF Record
<1> DEFINE Fields == [known : BOOLEAN, rev : 0..MaxRevision, deleted : BOOLEAN,
                      synced : BOOLEAN, text : Text]
<1>2. base \in Fields
  BY DEF Record
<1>3. Edited(base, kind) \in Fields
  <2>1. base.rev + 1 \in 0..MaxRevision
    BY <1>1
  <2>2. CASE kind = "UPDATE"
    <3>1. Edited(base, kind) =
            [base EXCEPT !.rev = base.rev + 1, !.text = "mine", !.synced = FALSE]
      BY <2>2 DEF Edited
    <3> QED BY <1>2, <2>1, <3>1 DEF Text
  <2>3. CASE kind = "DELETE"
    <3>1. Edited(base, kind) = [base EXCEPT !.rev = base.rev + 1, !.deleted = TRUE]
      BY <2>3 DEF Edited
    <3> QED BY <1>2, <2>1, <3>1
  <2> QED BY <2>2, <2>3
<1>4. Edited(base, kind).rev = base.rev + 1
  BY <1>2 DEF Edited
<1> QED BY <1>1, <1>3, <1>4 DEF Record

LEMMA GotoTypes ==
  ASSUME TypeOK, NEW t \in Tab, NEW r \in RefreshAt \cup {None}, Goto(t, r)
  PROVE  refresh' \in [Tab -> RefreshAt \cup {None}]
  BY DEF Goto, TypeOK

(* A step of a refresh keeps the types of what the tab holds.               *)
LEMMA RefreshKeepsTypes ==
  ASSUME TypeOK, NEW t \in Tab, Refresh(t)
  PROVE  TypeOK'
<1> USE DEF TypeOK, deviceVars
<1>1. CASE Launch(t)
  <2>1. [pc |-> "fetch", listed |-> queue] \in RefreshAt
    BY DEF RefreshAt
  <2>2. refreshes' \in 0..MaxRefreshes
    BY <1>1, SnapshotAssumption DEF Launch
  <2> QED BY <1>1, <2>1, <2>2, GotoTypes DEF Launch
<1>2. CASE FetchSnapshot(t)
  <2>1. refresh[t] \in [pc : {"fetch"}, listed : [Highlight -> SUBSET OperationKind]]
    BY <1>2, RefreshTypes DEF FetchSnapshot, At
  <2>2. [pc |-> "read", listed |-> refresh[t].listed, snap |-> server] \in RefreshAt
    BY <2>1 DEF RefreshAt
  <2> QED BY <1>2, <2>2, GotoTypes DEF FetchSnapshot
<1>3. CASE ReadLocal(t)
  <2> DEFINE listed == refresh[t].listed
             snap == refresh[t].snap
             gone == {h \in Highlight : IsTombstone(snap[h])}
             shown == [h \in Highlight |-> Merged(listed[h], snap[h], record[h])]
  <2>1. /\ listed \in [Highlight -> SUBSET OperationKind]
        /\ snap \in [Highlight -> Row \cup {None}]
    BY <1>3, RefreshTypes DEF ReadLocal, At
  <2>2. gone \in SUBSET Highlight
    OBVIOUS
  <2>3. ASSUME NEW h \in Highlight
        PROVE  Merged(listed[h], snap[h], record[h]) \in Value \cup {None}
    <3> HIDE DEF listed, snap
    <3> QED BY <2>1, MergedTypes
  <2>4. shown \in [Highlight -> Value \cup {None}]
    BY <2>3
  <2>5. [pc |-> "prior", listed |-> listed, gone |-> gone, shown |-> shown] \in RefreshAt
    <3> HIDE DEF listed, snap, gone, shown
    <3> QED BY <2>1, <2>2, <2>4 DEF RefreshAt
  <2> QED BY <1>3, <2>5, GotoTypes DEF ReadLocal
<1>4. CASE ReadPrior(t)
  <2> DEFINE listed == refresh[t].listed
             shown == refresh[t].shown
             write == [h \in Highlight |-> IF shown[h] = None THEN None
                         ELSE Projected(shown[h], listed[h], record[h])]
             todo == {h \in Highlight : shown[h] # None}
  <2>1. /\ listed \in [Highlight -> SUBSET OperationKind]
        /\ shown \in [Highlight -> Value \cup {None}]
        /\ refresh[t].gone \in SUBSET Highlight
    BY <1>4, RefreshTypes DEF ReadPrior, At
  <2>2. ASSUME NEW h \in Highlight, shown[h] # None
        PROVE  Projected(shown[h], listed[h], record[h]) \in Record
    <3> HIDE DEF listed, shown
    <3> QED BY <2>1, <2>2, ProjectedTypes
  <2>3. write \in [Highlight -> Record \cup {None}]
    BY <2>2
  <2>4. [pc |-> "project", gone |-> refresh[t].gone, write |-> write, todo |-> todo]
          \in RefreshAt
    <3>1. todo \in SUBSET Highlight
      OBVIOUS
    <3> HIDE DEF write, todo
    <3> QED BY <2>1, <2>3, <3>1 DEF RefreshAt
  <2> QED BY <1>4, <2>4, GotoTypes DEF ReadPrior
<1>5. CASE \E h \in Highlight : Project(t, h)
  <2>1. PICK h \in Highlight : Project(t, h)
    BY <1>5
  <2>2. refresh[t] \in [pc : {"project"}, gone : SUBSET Highlight,
          write : [Highlight -> Record \cup {None}], todo : SUBSET Highlight]
    BY <2>1, RefreshTypes DEF Project, At
  <2>3. [refresh[t] EXCEPT !.todo = @ \ {h}] \in RefreshAt
    BY <2>2 DEF RefreshAt
  <2>4. refresh' \in [Tab -> RefreshAt \cup {None}]
    BY <2>1, <2>3, GotoTypes DEF Project
  <2> QED BY <2>1, <2>2, <2>4 DEF Project
<1>6. CASE ReadAffected(t)
  <2> DEFINE stale == {h \in refresh[t].gone :
                         refresh[t].write[h] = None /\ IsLive(record[h]) /\ record[h].known}
             write == [h \in Highlight |->
                         IF h \in stale THEN [record[h] EXCEPT !.deleted = TRUE] ELSE None]
  <2>1. refresh[t].gone \in SUBSET Highlight
    BY <1>6, RefreshTypes DEF ReadAffected, At
  <2>2. ASSUME NEW h \in stale
        PROVE  [record[h] EXCEPT !.deleted = TRUE] \in Record
    BY <2>1, <2>2 DEF IsLive, Record
  <2>3. write \in [Highlight -> Record \cup {None}]
    BY <2>2
  <2>4. [pc |-> "delete", todo |-> stale, write |-> write] \in RefreshAt
    <3>1. stale \in SUBSET Highlight
      BY <2>1
    <3> HIDE DEF stale, write
    <3> QED BY <2>3, <3>1 DEF RefreshAt
  <2> QED BY <1>6, <2>4, GotoTypes DEF ReadAffected
<1>7. CASE \E h \in Highlight : SoftDelete(t, h)
  <2>1. PICK h \in Highlight : SoftDelete(t, h)
    BY <1>7
  <2>2. refresh[t] \in [pc : {"delete"}, write : [Highlight -> Record \cup {None}],
                        todo : SUBSET Highlight]
    BY <2>1, RefreshTypes DEF SoftDelete, At
  <2>3. [refresh[t] EXCEPT !.todo = @ \ {h}] \in RefreshAt
    BY <2>2 DEF RefreshAt
  <2>4. refresh' \in [Tab -> RefreshAt \cup {None}]
    BY <2>1, <2>3, GotoTypes DEF SoftDelete
  <2> QED BY <2>1, <2>2, <2>4 DEF SoftDelete
<1>8. CASE EndRefresh(t) \/ RefreshFails(t)
  BY <1>8, GotoTypes DEF EndRefresh, RefreshFails
<1> QED BY <1>1, <1>2, <1>3, <1>4, <1>5, <1>6, <1>7, <1>8 DEF Refresh

LEMMA TypeStep ==
  ASSUME TypeOK, [Next]_vars
  PROVE  TypeOK'
<1> USE DEF TypeOK, deviceVars
<1>1. CASE \E h \in Highlight : Create(h)
  <2>1. PICK h \in Highlight : Create(h)
    BY <1>1
  <2>2. [known |-> FALSE, rev |-> 0, deleted |-> FALSE, synced |-> FALSE, text |-> "made"]
          \in Record
    BY SnapshotAssumption DEF Record, Text
  <2> QED BY <2>1, <2>2 DEF Create, OperationKind
<1>2. CASE \E h \in Highlight : Deliver(h) \/ CreateElsewhere(h)
  <2>1. \A text \in Text : [rev |-> 1, deleted |-> FALSE, text |-> text] \in Row
    BY SnapshotAssumption DEF Row
  <2>2. PICK h \in Highlight, row \in Row :
          /\ server' = [server EXCEPT ![h] = row]
          /\ UNCHANGED <<edit, synced, refresh, refreshes, deviceVars>>
    BY <1>2, <2>1 DEF Deliver, CreateElsewhere, Text
  <2> QED BY <2>2
<1>3. CASE \E h \in Highlight : ChangeElsewhere(h)
  BY <1>3, SnapshotAssumption DEF ChangeElsewhere, IsLive, Row, Text
<1>4. CASE \E h \in Highlight : DiscardConflict(h)
  <2>1. PICK h \in Highlight : DiscardConflict(h)
    BY <1>4
  <2>2. PICK kept \in SUBSET queue[h] : queue' = [queue EXCEPT ![h] = kept]
    BY <2>1 DEF DiscardConflict
  <2>3. queue' \in [Highlight -> SUBSET OperationKind]
    BY <2>2
  <2> QED BY <2>1, <2>3 DEF DiscardConflict
<1>5. CASE \E t \in Tab : CommitEdit(t)
  <2>1. PICK t \in Tab : CommitEdit(t)
    BY <1>5
  <2>2. /\ edit[t].target \in Highlight
        /\ edit[t].kind \in {"UPDATE", "DELETE"}
        /\ edit[t].base \in Record
        /\ edit[t].base.rev < MaxRevision
    BY <2>1 DEF CommitEdit
  <2>3. Edited(edit[t].base, edit[t].kind) \in Record
    BY <2>2, EditedTypes
  <2>4. record' \in [Highlight -> Record \cup {None}]
    BY <2>1, <2>2, <2>3 DEF CommitEdit
  <2>5. queue' \in [Highlight -> SUBSET OperationKind]
    BY <2>1, <2>2 DEF CommitEdit, OperationKind
  <2> QED BY <2>1, <2>2, <2>4, <2>5 DEF CommitEdit
<1>6. CASE \E t \in Tab : ReadRecord(t)
  <2>1. PICK t \in Tab : ReadRecord(t)
    BY <1>6
  <2>2. synced[t] \in [target : Highlight, read : Record \cup {None}]
    BY <2>1 DEF ReadRecord
  <2>3. synced' \in [Tab -> [target : Highlight, read : Record \cup {None}] \cup {None}]
    BY <2>1, <2>2 DEF ReadRecord
  <2> QED BY <2>1, <2>3 DEF ReadRecord
<1>7. CASE \E t \in Tab : MarkSynced(t)
  <2>1. PICK t \in Tab : MarkSynced(t)
    BY <1>7
  <2>2. synced[t].target \in Highlight /\ synced[t].read \in Record
    BY <2>1 DEF MarkSynced
  <2>3. [synced[t].read EXCEPT !.synced = TRUE] \in Record
    BY <2>2 DEF Record
  <2> QED BY <2>1, <2>2, <2>3 DEF MarkSynced
<1>8. CASE \E t \in Tab : CloseTab(t)
  BY <1>8, GotoTypes DEF CloseTab
<1>9. CASE \E t \in Tab : Refresh(t)
  BY <1>9, RefreshKeepsTypes
<1>10. CASE \E t \in Editor, h \in Highlight : Acknowledge(t, h)
  BY <1>10, SnapshotAssumption DEF Acknowledge
<1>11. CASE \E t \in Editor, h \in Highlight, kind \in {"UPDATE", "DELETE"} :
              BeginEdit(t, h, kind)
  <2>1. PICK t \in Editor, h \in Highlight, kind \in {"UPDATE", "DELETE"} :
          BeginEdit(t, h, kind)
    BY <1>11
  <2>2. record[h] \in {row \in Record : row.rev < MaxRevision}
    BY <2>1 DEF BeginEdit
  <2> QED BY <2>1, <2>2, SnapshotAssumption DEF BeginEdit
<1>12. CASE UNCHANGED vars
  BY <1>12 DEF vars
<1> QED
  BY <1>1, <1>2, <1>3, <1>4, <1>5, <1>6, <1>7, <1>8, <1>9, <1>10, <1>11, <1>12 DEF Next

----
(* Every copy of a record stays true as long as the tab holds it.  One      *)
(* lemma per kind of copy; a step that leaves the copies alone keeps them   *)
(* true because the server and the reader's deletions only grow.            *)

LEMMA RecordsStep ==
  ASSUME IInv, Next
  PROVE  RecordsFit'
<1> USE DEF IInv, RecordsFit, Fits, Holds
<1>1. CASE UNCHANGED record
  BY <1>1, GroundsStay
<1>2. ASSUME NEW h \in Highlight, Create(h)
      PROVE  RecordsFit'
  BY <1>2, GroundsStay DEF Create, TypeOK
<1>3. ASSUME NEW t \in Tab, CommitEdit(t)
      PROVE  RecordsFit'
  <2>1. PICK h \in Highlight, base \in Record, kind \in {"UPDATE", "DELETE"} :
          edit[t].target = h /\ edit[t].base = base /\ edit[t].kind = kind
    BY <1>3 DEF CommitEdit, TypeOK
  <2>2. Fits(h, base)
    BY <1>3, <2>1 DEF CommitEdit, EditsFit
  <2>3. kind = "DELETE" => Justified(h)'
    BY <1>3, <2>1 DEF CommitEdit, Justified
  <2>4. record' = [record EXCEPT ![h] = Edited(base, kind)]
    BY <1>3, <2>1 DEF CommitEdit
  <2>5. /\ Edited(base, kind).known = base.known
        /\ Edited(base, kind).deleted => base.deleted \/ kind = "DELETE"
        /\ Edited(base, kind).synced => base.synced
    BY DEF Edited, Record
  <2> QED BY <2>2, <2>3, <2>4, <2>5, GroundsStay DEF TypeOK
<1>4. ASSUME NEW t \in Tab, MarkSynced(t)
      PROVE  RecordsFit'
  <2> DEFINE e == synced[t]
  <2>1. /\ e.target \in Highlight /\ e.read \in Record
        /\ Fits(e.target, e.read) /\ server[e.target] # None
    BY <1>4 DEF MarkSynced, TypeOK, MarksFit
  <2>2. record' = [record EXCEPT ![e.target] = [e.read EXCEPT !.synced = TRUE]]
    BY <1>4 DEF MarkSynced
  <2>3. /\ [e.read EXCEPT !.synced = TRUE].known = e.read.known
        /\ [e.read EXCEPT !.synced = TRUE].deleted = e.read.deleted
    BY <2>1 DEF Record
  <2> HIDE DEF e
  <2> QED BY <2>1, <2>2, <2>3, GroundsStay DEF TypeOK
<1>5. ASSUME NEW t \in Tab, NEW h \in Highlight, Project(t, h) \/ SoftDelete(t, h)
      PROVE  RecordsFit'
  <2>1. refresh[t].write[h] # None => Fits(h, refresh[t].write[h])
    BY <1>5 DEF Project, SoftDelete, WritesFit
  <2>2. record' = [record EXCEPT ![h] = refresh[t].write[h]]
    BY <1>5 DEF Project, SoftDelete
  <2> QED BY <2>1, <2>2, GroundsStay DEF TypeOK
<1>6. Next => \/ UNCHANGED record
              \/ \E h \in Highlight : Create(h)
              \/ \E t \in Tab : CommitEdit(t) \/ MarkSynced(t)
              \/ \E t \in Tab, h \in Highlight : Project(t, h) \/ SoftDelete(t, h)
  BY SnapshotAssumption DEF Next, Refresh, Deliver, DiscardConflict, CreateElsewhere,
    ChangeElsewhere, ReadRecord, CloseTab, Launch, FetchSnapshot, ReadLocal, ReadPrior,
    ReadAffected, EndRefresh, RefreshFails, Acknowledge, BeginEdit, deviceVars
<1> QED BY <1>1, <1>2, <1>3, <1>4, <1>5, <1>6

LEMMA EditsStep ==
  ASSUME IInv, Next
  PROVE  EditsFit'
<1> USE DEF IInv, EditsFit, Fits, Holds
<1>1. CASE UNCHANGED edit
  BY <1>1, GroundsStay DEF TypeOK
<1>2. ASSUME NEW t \in Tab, NEW h \in Highlight, NEW kind \in {"UPDATE", "DELETE"},
             BeginEdit(t, h, kind)
      PROVE  EditsFit'
  <2>1. edit' = [edit EXCEPT ![t] = [kind |-> kind, target |-> h, base |-> record[h]]]
    BY <1>2 DEF BeginEdit
  <2>2. Fits(h, record[h])
    BY <1>2 DEF BeginEdit, RecordsFit
  <2> QED BY <2>1, <2>2, GroundsStay DEF TypeOK
<1>3. ASSUME NEW t \in Tab, edit' = [edit EXCEPT ![t] = None]
      PROVE  EditsFit'
  BY <1>3, GroundsStay DEF TypeOK
<1>4. Next => \/ UNCHANGED edit
              \/ \E t \in Tab, h \in Highlight, kind \in {"UPDATE", "DELETE"} :
                   BeginEdit(t, h, kind)
              \/ \E t \in Tab : edit' = [edit EXCEPT ![t] = None]
  BY SnapshotAssumption DEF Next, Refresh, Create, Deliver, DiscardConflict, CreateElsewhere,
    ChangeElsewhere, CommitEdit, ReadRecord, MarkSynced, CloseTab, Launch, FetchSnapshot,
    ReadLocal, ReadPrior, Project, ReadAffected, SoftDelete, EndRefresh, RefreshFails,
    Acknowledge
<1> QED BY <1>1, <1>2, <1>3, <1>4

LEMMA MarksStep ==
  ASSUME IInv, Next
  PROVE  MarksFit'
<1> USE DEF IInv, MarksFit, Fits, Holds
<1>1. CASE UNCHANGED synced
  BY <1>1, GroundsStay DEF TypeOK
<1>2. ASSUME NEW t \in Tab, NEW h \in Highlight, Acknowledge(t, h)
      PROVE  MarksFit'
  <2>1. /\ synced' = [synced EXCEPT ![t] = [target |-> h, read |-> None]]
        /\ server[h] # None
    BY <1>2 DEF Acknowledge
  <2> QED BY <2>1, GroundsStay DEF TypeOK
<1>3. ASSUME NEW t \in Tab, ReadRecord(t)
      PROVE  MarksFit'
  <2> DEFINE h == synced[t].target
  <2>1. /\ h \in Highlight /\ synced[t] # None /\ server[h] # None
        /\ synced' = [synced EXCEPT ![t] = [synced[t] EXCEPT !.read = record[h]]]
    BY <1>3 DEF ReadRecord, TypeOK
  <2>2. record[h] # None => Fits(h, record[h])
    BY <2>1 DEF RecordsFit
  <2>3. /\ [synced[t] EXCEPT !.read = record[h]].target = h
        /\ [synced[t] EXCEPT !.read = record[h]].read = record[h]
    BY <2>1 DEF TypeOK
  <2> HIDE DEF h
  <2> QED BY <2>1, <2>2, <2>3, GroundsStay DEF TypeOK
<1>4. ASSUME NEW t \in Tab, synced' = [synced EXCEPT ![t] = None]
      PROVE  MarksFit'
  BY <1>4, GroundsStay DEF TypeOK
<1>5. Next => \/ UNCHANGED synced
              \/ \E t \in Tab, h \in Highlight : Acknowledge(t, h)
              \/ \E t \in Tab : ReadRecord(t)
              \/ \E t \in Tab : synced' = [synced EXCEPT ![t] = None]
  BY SnapshotAssumption DEF Next, Refresh, Create, Deliver, DiscardConflict, CreateElsewhere,
    ChangeElsewhere, CommitEdit, MarkSynced, CloseTab, Launch, FetchSnapshot, ReadLocal,
    ReadPrior, Project, ReadAffected, SoftDelete, EndRefresh, RefreshFails, BeginEdit
<1> QED BY <1>1, <1>2, <1>3, <1>4, <1>5

----
(* The steps of a refresh: which tab it is, and what it holds then.         *)
LEMMA RefreshSteps ==
  ASSUME Next
  PROVE  \/ UNCHANGED refresh
         \/ \E t \in Tab : refresh' = [refresh EXCEPT ![t] = None]
         \/ \E t \in Tab :
              Launch(t) \/ FetchSnapshot(t) \/ ReadLocal(t) \/ ReadPrior(t) \/ ReadAffected(t)
         \/ \E t \in Tab, h \in Highlight : Project(t, h) \/ SoftDelete(t, h)
  BY DEF Next, Refresh, Create, Deliver, DiscardConflict, CreateElsewhere, ChangeElsewhere,
    CommitEdit, ReadRecord, MarkSynced, CloseTab, EndRefresh, RefreshFails, Acknowledge,
    BeginEdit, Goto

(* A tab other than t holds what it held.                                   *)
LEMMA OthersHold ==
  ASSUME TypeOK, NEW t \in Tab, NEW r, Goto(t, r), NEW u \in Tab
  PROVE  /\ u # t => refresh'[u] = refresh[u]
         /\ u = t => refresh'[u] = r
  BY DEF Goto, TypeOK

LEMMA SnapshotsStep ==
  ASSUME IInv, Next
  PROVE  SnapshotsFit'
<1> SUFFICES ASSUME NEW u \in Tab, NEW h \in Highlight,
                    At(u, "read")', refresh'[u].snap[h] # None
             PROVE  /\ server'[h] # None
                    /\ refresh'[u].snap[h].deleted => IsGone(h)'
  BY DEF SnapshotsFit
<1> USE DEF IInv, At
<1>1. CASE refresh'[u] = refresh[u]
  BY <1>1, GroundsStay DEF SnapshotsFit
<1>2. CASE FetchSnapshot(u)
  <2>1. refresh'[u].snap = server /\ server' = server
    BY <1>2, OthersHold DEF FetchSnapshot
  <2> QED BY <2>1 DEF IsGone
<1>3. refresh'[u] = refresh[u] \/ FetchSnapshot(u)
  <2>1. CASE \E t \in Tab : refresh' = [refresh EXCEPT ![t] = None]
    BY <2>1 DEF TypeOK
  <2>2. ASSUME NEW t \in Tab,
               Launch(t) \/ ReadLocal(t) \/ ReadPrior(t) \/ ReadAffected(t)
        PROVE  refresh'[u] = refresh[u]
    <3>1. PICK r : Goto(t, r) /\ r.pc # "read"
      BY <2>2 DEF Launch, ReadLocal, ReadPrior, ReadAffected
    <3> QED BY <3>1, OthersHold
  <2>3. ASSUME NEW t \in Tab, NEW g \in Highlight, Project(t, g) \/ SoftDelete(t, g)
        PROVE  refresh'[u] = refresh[u]
    <3>1. refresh[t] \in RefreshAt /\ refresh[t].pc \in {"project", "delete"}
      BY <2>3 DEF Project, SoftDelete, TypeOK
    <3> DEFINE r == [refresh[t] EXCEPT !.todo = @ \ {g}]
    <3>2. r.pc = refresh[t].pc
      BY <3>1, RefreshTypes
    <3>3. Goto(t, r)
      BY <2>3 DEF Project, SoftDelete
    <3> HIDE DEF r
    <3> QED BY <3>1, <3>2, <3>3, OthersHold
  <2>4. ASSUME NEW t \in Tab, FetchSnapshot(t), t # u
        PROVE  refresh'[u] = refresh[u]
    BY <2>4, OthersHold DEF FetchSnapshot
  <2> QED BY <2>1, <2>2, <2>3, <2>4, RefreshSteps
<1> QED BY <1>1, <1>2, <1>3

LEMMA MergesStep ==
  ASSUME IInv, Next
  PROVE  MergesFit'
<1> SUFFICES ASSUME NEW u \in Tab, NEW h \in Highlight,
                    At(u, "prior")', refresh'[u].shown[h] # None
             PROVE  Holds(h, refresh[u].shown[h])'
  BY DEF MergesFit
<1> USE DEF IInv, At
<1>1. CASE refresh'[u] = refresh[u]
  BY <1>1, GroundsStay DEF MergesFit, Holds
<1>2. CASE ReadLocal(u)
  <2> DEFINE listed == refresh[u].listed[h]
             row == refresh[u].snap[h]
             value == Merged(listed, row, record[h])
  <2>1. refresh'[u].shown[h] = value
    BY <1>2, OthersHold DEF ReadLocal
  <2>2. UNCHANGED <<server, removed>>
    BY <1>2 DEF ReadLocal, deviceVars
  <2>3. row \in Row \cup {None} /\ record[h] \in Record \cup {None}
    BY <1>2, RefreshTypes DEF ReadLocal, TypeOK
  <2>4. row # None => server[h] # None
    BY <1>2 DEF ReadLocal, SnapshotsFit
  <2>5. record[h] # None => Holds(h, record[h])
    BY DEF RecordsFit, Fits
  <2>6. value # None => \/ row # None /\ value = ServerValue(row)
                        \/ record[h] # None /\ value = LocalValue(record[h])
    <3> HIDE DEF listed, row
    <3> QED BY MergedCases
  <2>7. value # None => /\ value.known => server[h] # None
                        /\ value.deleted => Justified(h)
    <3> HIDE DEF value, listed, row
    <3>1. CASE row # None /\ value = ServerValue(row)
      BY <2>4, <3>1 DEF ServerValue
    <3>2. CASE record[h] # None /\ value = LocalValue(record[h])
      BY <2>5, <3>2 DEF LocalValue, Holds
    <3> QED BY <2>6, <3>1, <3>2
  <2> HIDE DEF value
  <2> QED BY <2>1, <2>2, <2>7 DEF Holds, Justified, IsGone
<1>3. refresh'[u] = refresh[u] \/ ReadLocal(u)
  <2>1. CASE \E t \in Tab : refresh' = [refresh EXCEPT ![t] = None]
    BY <2>1 DEF TypeOK
  <2>2. ASSUME NEW t \in Tab,
               Launch(t) \/ FetchSnapshot(t) \/ ReadPrior(t) \/ ReadAffected(t)
        PROVE  refresh'[u] = refresh[u]
    <3>1. PICK r : Goto(t, r) /\ r.pc # "prior"
      BY <2>2 DEF Launch, FetchSnapshot, ReadPrior, ReadAffected
    <3> QED BY <3>1, OthersHold
  <2>3. ASSUME NEW t \in Tab, NEW g \in Highlight, Project(t, g) \/ SoftDelete(t, g)
        PROVE  refresh'[u] = refresh[u]
    <3>1. refresh[t] \in RefreshAt /\ refresh[t].pc \in {"project", "delete"}
      BY <2>3 DEF Project, SoftDelete, TypeOK
    <3> DEFINE r == [refresh[t] EXCEPT !.todo = @ \ {g}]
    <3>2. r.pc = refresh[t].pc
      BY <3>1, RefreshTypes
    <3>3. Goto(t, r)
      BY <2>3 DEF Project, SoftDelete
    <3> HIDE DEF r
    <3> QED BY <3>1, <3>2, <3>3, OthersHold
  <2>4. ASSUME NEW t \in Tab, ReadLocal(t), t # u
        PROVE  refresh'[u] = refresh[u]
    BY <2>4, OthersHold DEF ReadLocal
  <2> QED BY <2>1, <2>2, <2>3, <2>4, RefreshSteps
<1> QED BY <1>1, <1>2, <1>3

LEMMA TombstonesStep ==
  ASSUME IInv, Next
  PROVE  TombstonesFit'
<1> SUFFICES ASSUME NEW u \in Tab, At(u, "prior")' \/ At(u, "project")',
                    NEW h \in refresh'[u].gone
             PROVE  IsGone(h)'
  BY DEF TombstonesFit
<1> USE DEF IInv, At
<1>0. TypeOK'
  BY TypeStep
<1>1. CASE refresh'[u] = refresh[u]
  <2>1. h \in Highlight
    BY <1>1, RefreshTypes DEF TypeOK
  <2> QED BY <1>1, <2>1, GroundsStay DEF TombstonesFit
<1>2. CASE ReadLocal(u)
  <2>1. /\ refresh'[u].gone = {g \in Highlight : IsTombstone(refresh[u].snap[g])}
        /\ server' = server
    BY <1>2, OthersHold DEF ReadLocal
  <2> QED BY <1>2, <2>1 DEF ReadLocal, IsTombstone, SnapshotsFit, IsGone
<1>3. CASE ReadPrior(u) \/ \E g \in Highlight : Project(u, g)
  <2>1. refresh'[u].gone = refresh[u].gone /\ server' = server
    <3>1. CASE ReadPrior(u)
      BY <3>1, OthersHold DEF ReadPrior
    <3>2. ASSUME NEW g \in Highlight, Project(u, g)
          PROVE  refresh'[u].gone = refresh[u].gone /\ server' = server
      <4>1. [refresh[u] EXCEPT !.todo = @ \ {g}].gone = refresh[u].gone
        BY <3>2, RefreshTypes DEF Project, TypeOK
      <4> QED BY <3>2, <4>1, OthersHold DEF Project
    <3> QED BY <1>3, <3>1, <3>2
  <2>2. At(u, "prior") \/ At(u, "project")
    BY <1>3 DEF ReadPrior, Project
  <2> QED BY <2>1, <2>2 DEF TombstonesFit, IsGone
<1>4. \/ refresh'[u] = refresh[u]
      \/ ReadLocal(u)
      \/ ReadPrior(u) \/ \E g \in Highlight : Project(u, g)
  <2>1. CASE \E t \in Tab : refresh' = [refresh EXCEPT ![t] = None]
    BY <2>1 DEF TypeOK
  <2>2. ASSUME NEW t \in Tab, Launch(t) \/ FetchSnapshot(t) \/ ReadAffected(t)
        PROVE  refresh'[u] = refresh[u]
    <3>1. PICK r : Goto(t, r) /\ r.pc \notin {"prior", "project"}
      BY <2>2 DEF Launch, FetchSnapshot, ReadAffected
    <3> QED BY <3>1, OthersHold
  <2>3. ASSUME NEW t \in Tab, NEW g \in Highlight, SoftDelete(t, g)
        PROVE  refresh'[u] = refresh[u]
    <3>1. refresh[t] \in RefreshAt /\ refresh[t].pc = "delete"
      BY <2>3 DEF SoftDelete, TypeOK
    <3>2. [refresh[t] EXCEPT !.todo = @ \ {g}].pc = refresh[t].pc
      BY <3>1, RefreshTypes
    <3>3. Goto(t, [refresh[t] EXCEPT !.todo = @ \ {g}])
      BY <2>3 DEF SoftDelete
    <3>4. t # u
      <4>1. t = u => refresh'[u] = [refresh[t] EXCEPT !.todo = @ \ {g}]
        BY <3>3, OthersHold
      <4> QED BY <3>1, <3>2, <4>1
    <3> QED BY <3>3, <3>4, OthersHold
  <2>4. ASSUME NEW t \in Tab, NEW g \in Highlight, t # u,
               ReadLocal(t) \/ ReadPrior(t) \/ Project(t, g)
        PROVE  refresh'[u] = refresh[u]
    BY <2>4, OthersHold DEF ReadLocal, ReadPrior, Project
  <2>5. ASSUME NEW t \in Tab, t # u, ReadLocal(t) \/ ReadPrior(t)
        PROVE  refresh'[u] = refresh[u]
    BY <2>5, OthersHold DEF ReadLocal, ReadPrior
  <2> QED BY <2>1, <2>2, <2>3, <2>4, <2>5, RefreshSteps
<1> QED BY <1>1, <1>2, <1>3, <1>4

LEMMA WritesStep ==
  ASSUME IInv, Next
  PROVE  WritesFit'
<1> SUFFICES ASSUME NEW u \in Tab, NEW h \in Highlight,
                    At(u, "project")' \/ At(u, "delete")', refresh'[u].write[h] # None
             PROVE  Fits(h, refresh[u].write[h])'
  BY DEF WritesFit
<1> USE DEF IInv, At
<1>1. CASE refresh'[u] = refresh[u]
  BY <1>1, GroundsStay DEF WritesFit, Fits, Holds
<1>2. CASE ReadPrior(u)
  <2> DEFINE value == refresh[u].shown[h]
             kinds == refresh[u].listed[h]
  <2>1. value # None /\ refresh'[u].write[h] = Projected(value, kinds, record[h])
    BY <1>2, OthersHold DEF ReadPrior
  <2>2. UNCHANGED <<server, removed>>
    BY <1>2 DEF ReadPrior, deviceVars
  <2>3. Holds(h, value)
    BY <1>2, <2>1 DEF ReadPrior, MergesFit
  <2>4. record[h] # None => (record[h].synced => server[h] # None)
    BY DEF RecordsFit, Fits
  <2> HIDE DEF value, kinds
  <2>5. /\ Projected(value, kinds, record[h]).known = value.known
        /\ Projected(value, kinds, record[h]).deleted = value.deleted
        /\ Projected(value, kinds, record[h]).synced =>
             value.known \/ (record[h] # None /\ record[h].synced)
    BY DEF Projected, ProjectedSynced
  <2> QED BY <2>1, <2>2, <2>3, <2>4, <2>5 DEF Fits, Holds, Justified, IsGone
<1>3. CASE ReadAffected(u)
  <2>1. /\ refresh'[u].write[h] = [record[h] EXCEPT !.deleted = TRUE]
        /\ h \in refresh[u].gone
        /\ record[h] # None
    <3> DEFINE stale == {g \in refresh[u].gone :
                           refresh[u].write[g] = None /\ IsLive(record[g]) /\ record[g].known}
               write == [g \in Highlight |->
                           IF g \in stale THEN [record[g] EXCEPT !.deleted = TRUE] ELSE None]
    <3>1. Goto(u, [pc |-> "delete", todo |-> stale, write |-> write])
      BY <1>3 DEF ReadAffected
    <3>2. refresh'[u].write = write
      <4> HIDE DEF stale, write
      <4> QED BY <3>1, OthersHold
    <3>3. h \in stale
      BY <3>2
    <3> QED BY <3>2, <3>3 DEF IsLive
  <2>2. UNCHANGED <<server, removed>>
    BY <1>3 DEF ReadAffected, deviceVars
  <2>3. IsGone(h)
    BY <1>3, <2>1 DEF ReadAffected, TombstonesFit
  <2>4. /\ [record[h] EXCEPT !.deleted = TRUE].known = record[h].known
        /\ [record[h] EXCEPT !.deleted = TRUE].synced = record[h].synced
    BY <2>1 DEF TypeOK, Record
  <2> QED BY <2>1, <2>2, <2>3, <2>4 DEF RecordsFit, Fits, Holds, Justified, IsGone
<1>4. CASE \E g \in Highlight : Project(u, g) \/ SoftDelete(u, g)
  <2>1. PICK g \in Highlight : Project(u, g) \/ SoftDelete(u, g)
    BY <1>4
  <2>2. refresh'[u] = [refresh[u] EXCEPT !.todo = @ \ {g}]
    BY <2>1, OthersHold DEF Project, SoftDelete
  <2>3. refresh'[u].write = refresh[u].write
    BY <2>1, <2>2, RefreshTypes DEF Project, SoftDelete, TypeOK
  <2>4. Fits(h, refresh[u].write[h])
    BY <2>1, <2>3 DEF Project, SoftDelete, WritesFit
  <2> QED BY <2>3, <2>4, GroundsStay DEF Fits, Holds
<1>5. \/ refresh'[u] = refresh[u]
      \/ ReadPrior(u) \/ ReadAffected(u)
      \/ \E g \in Highlight : Project(u, g) \/ SoftDelete(u, g)
  <2>1. CASE \E t \in Tab : refresh' = [refresh EXCEPT ![t] = None]
    BY <2>1 DEF TypeOK
  <2>2. ASSUME NEW t \in Tab, Launch(t) \/ FetchSnapshot(t) \/ ReadLocal(t)
        PROVE  refresh'[u] = refresh[u]
    <3>1. PICK r : Goto(t, r) /\ r.pc \notin {"project", "delete"}
      BY <2>2 DEF Launch, FetchSnapshot, ReadLocal
    <3> QED BY <3>1, OthersHold
  <2>3. ASSUME NEW t \in Tab, NEW g \in Highlight, t # u, Project(t, g) \/ SoftDelete(t, g)
        PROVE  refresh'[u] = refresh[u]
    BY <2>3, OthersHold DEF Project, SoftDelete
  <2>4. ASSUME NEW t \in Tab, t # u, ReadPrior(t) \/ ReadAffected(t)
        PROVE  refresh'[u] = refresh[u]
    BY <2>4, OthersHold DEF ReadPrior, ReadAffected
  <2> QED BY <2>1, <2>2, <2>3, <2>4, RefreshSteps
<1> QED BY <1>1, <1>2, <1>3, <1>4, <1>5

----
LEMMA InitHolds == Init => IInv
<1> SUFFICES ASSUME Init PROVE IInv
  OBVIOUS
<1>1. TypeOK
  BY SnapshotAssumption DEF Init, TypeOK
<1> QED BY <1>1 DEF Init, IInv, RecordsFit, EditsFit, MarksFit, SnapshotsFit, MergesFit,
  TombstonesFit, WritesFit, At

LEMMA StepHolds == IInv /\ [Next]_vars => IInv'
<1> SUFFICES ASSUME IInv, [Next]_vars PROVE IInv'
  OBVIOUS
<1>1. TypeOK'
  BY TypeStep DEF IInv
<1>2. CASE Next
  BY <1>1, <1>2, RecordsStep, EditsStep, MarksStep, SnapshotsStep, MergesStep,
    TombstonesStep, WritesStep DEF IInv
<1>3. CASE UNCHANGED vars
  BY <1>3 DEF vars, IInv, TypeOK, RecordsFit, EditsFit, MarksFit, SnapshotsFit, MergesFit,
    TombstonesFit, WritesFit, At, Fits, Holds, Justified, IsGone
<1> QED BY <1>2, <1>3

(* The copies the tabs hold stay true of the server and of the reader.      *)
LEMMA Inductive == Spec => []IInv
BY InitHolds, StepHolds, PTL DEF Spec

(* Every record a tab reads, merges, projects or deletes is a record.       *)
THEOREM TypeCorrect == Spec => []TypeOK
<1>1. IInv => TypeOK
  BY DEF IInv
<1> QED BY <1>1, Inductive, PTL

(* No highlight leaves a device unless its reader or a client deleted it:   *)
(* for any number of tabs refreshing at once on snapshots of any age.       *)
THEOREM NothingIsLost == Spec => []NothingVanishes
<1>1. IInv => NothingVanishes
  BY DEF IInv, RecordsFit, Fits, Holds, Justified, IsGone, NothingVanishes
<1> QED BY <1>1, Inductive, PTL

(* A drained report means that what the device shows is on the server.      *)
THEOREM DrainedIsStored == Spec => []DrainedMeansStored
<1>1. IInv => DrainedMeansStored
  BY DEF IInv, RecordsFit, Fits, DrainedMeansStored, FullyDrained, IsLive
<1> QED BY <1>1, Inductive, PTL
=============================================================================
