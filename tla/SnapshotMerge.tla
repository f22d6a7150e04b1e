--------------------------- MODULE SnapshotMerge ---------------------------
(* The annotations a device shows, and the refresh that merges what the     *)
(* server has into them: refreshSnapshots of the sync coordinator, the pure *)
(* mergeSnapshot, and the projection of its result onto the records of the  *)
(* device, while the reader edits, other clients edit, and the queue of     *)
(* edits is replayed.  One account, one book; highlights stand for          *)
(* bookmarks too.                                                           *)
(*                                                                          *)
(* A highlight has three names: the client id it was made under, the key of *)
(* its record, which holds the client id, and the id of its server row,     *)
(* which a record knows only once a refresh has brought it.                 *)
EXTENDS Naturals

CONSTANTS
  Highlight,    \* client ids
  Tab,          \* tabs of the device
  Editor,       \* the tabs the reader edits in, and that replay the queue
  MaxRevision,  \* bound: revisions of a row and of a record
  MaxRefreshes, \* bound: refreshes started
  None

ASSUME SnapshotAssumption ==
  /\ Editor \subseteq Tab
  /\ MaxRevision \in Nat \ {0}
  /\ MaxRefreshes \in Nat

VARIABLES
  server,     \* Highlight, ReaderTombstone: the row of each highlight, or None
  record,     \* readerRecords: the device's record of each, or None
  queue,      \* outbox: the kinds of operation queued for each
  edit,       \* the change a tab has begun and not committed, or None
  synced,     \* markEntitySynced of a tab: a highlight, its record once read
  refresh,    \* refreshSnapshots of a tab, or None
  refreshes,  \* refreshes started
  removed     \* history: highlights the reader deleted on this device

deviceVars == <<record, queue, removed>>
vars == <<server, record, queue, edit, synced, refresh, refreshes, removed>>

Text == {"made", "mine", "theirs"}
OperationKind == {"CREATE", "UPDATE", "DELETE"}
Row == [rev : 1..MaxRevision, deleted : BOOLEAN, text : Text]

ASSUME NoneAssumption == None \notin Row

(* A record that knows its server id has a revision of the server.          *)
Record ==
  {row \in [known : BOOLEAN, rev : 0..MaxRevision, deleted : BOOLEAN,
            synced : BOOLEAN, text : Text] : row.known => row.rev > 0}

(* What the merge shows of a highlight.                                     *)
Value ==
  {value \in [known : BOOLEAN, rev : 0..MaxRevision, deleted : BOOLEAN, text : Text] :
     value.known => value.rev > 0}

(* What a tab holds of a refresh it runs, by the step it is at: the queue   *)
(* it listed, the snapshot, what the merge shows, what it is to write.      *)
RefreshAt ==
  LET listed == [Highlight -> SUBSET OperationKind]
      snap == [Highlight -> Row \cup {None}]
  IN  [pc : {"fetch"}, listed : listed]
        \cup [pc : {"read"}, listed : listed, snap : snap]
        \cup [pc : {"prior"}, listed : listed, gone : SUBSET Highlight,
              shown : [Highlight -> Value \cup {None}]]
        \cup [pc : {"project"}, gone : SUBSET Highlight,
              write : [Highlight -> Record \cup {None}], todo : SUBSET Highlight]
        \cup [pc : {"delete"}, write : [Highlight -> Record \cup {None}],
              todo : SUBSET Highlight]

IsLive(row) == row # None /\ ~row.deleted

Init ==
  /\ server = [h \in Highlight |-> None]
  /\ record = [h \in Highlight |-> None]
  /\ queue = [h \in Highlight |-> {}]
  /\ edit = [t \in Tab |-> None]
  /\ synced = [t \in Tab |-> None]
  /\ refresh = [t \in Tab |-> None]
  /\ refreshes = 0
  /\ removed = {}

----
(* The reader's edits, each committed with its operation.  The client id of *)
(* a new highlight is fresh.                                                *)

Create(h) ==
  /\ record[h] = None
  /\ server[h] = None
  /\ record' = [record EXCEPT ![h] =
       [known |-> FALSE, rev |-> 0, deleted |-> FALSE, synced |-> FALSE,
        text |-> "made"]]
  /\ queue' = [queue EXCEPT ![h] = {"CREATE"}]
  /\ UNCHANGED <<server, edit, synced, refresh, refreshes, removed>>

(* The panel re-reads its list after the reader's own changes only: it may  *)
(* still offer what a refresh has deleted since.                            *)
BeginEdit(t, h, kind) ==
  /\ edit[t] = None
  /\ record[h] # None
  /\ IsLive(record[h]) \/ h \notin removed
  /\ record[h].rev < MaxRevision
  /\ edit' = [edit EXCEPT ![t] = [kind |-> kind, target |-> h, base |-> record[h]]]
  /\ UNCHANGED <<server, synced, refresh, refreshes, deviceVars>>

Edited(base, kind) ==
  IF kind = "UPDATE"
  THEN [base EXCEPT !.rev = @ + 1, !.text = "mine", !.synced = FALSE]
  ELSE [base EXCEPT !.rev = @ + 1, !.deleted = TRUE]

CommitEdit(t) ==
  /\ edit[t] # None
  /\ LET e == edit[t] IN
       /\ record' = [record EXCEPT ![e.target] = Edited(e.base, e.kind)]
       /\ queue' = [queue EXCEPT ![e.target] = @ \cup {e.kind}]
       /\ removed' = IF e.kind = "DELETE" THEN removed \cup {e.target} ELSE removed
  /\ edit' = [edit EXCEPT ![t] = None]
  /\ UNCHANGED <<server, synced, refresh, refreshes>>

----
(* The replay of the queue, as far as records notice it: only a creation is *)
(* ever applied (OutboxSync, Refuses), any other operation stays queued     *)
(* unless the reader discards it as a conflict.                             *)

Deliver(h) ==
  /\ "CREATE" \in queue[h]
  /\ server[h] = None
  /\ server' = [server EXCEPT ![h] = [rev |-> 1, deleted |-> FALSE, text |-> "made"]]
  /\ UNCHANGED <<edit, synced, refresh, refreshes, deviceVars>>

Acknowledge(t, h) ==
  /\ synced[t] = None
  /\ "CREATE" \in queue[h]
  /\ server[h] # None
  /\ queue' = [queue EXCEPT ![h] = @ \ {"CREATE"}]
  /\ synced' = [synced EXCEPT ![t] = [target |-> h, read |-> None]]
  /\ UNCHANGED <<server, record, edit, refresh, refreshes, removed>>

ReadRecord(t) ==
  /\ synced[t] # None
  /\ synced[t].read = None
  /\ synced' = [synced EXCEPT ![t].read = record[synced[t].target]]
  /\ UNCHANGED <<server, edit, refresh, refreshes, deviceVars>>

MarkSynced(t) ==
  /\ synced[t] # None
  /\ synced[t].read # None
  /\ record' = [record EXCEPT ![synced[t].target] =
                  [synced[t].read EXCEPT !.synced = TRUE]]
  /\ synced' = [synced EXCEPT ![t] = None]
  /\ UNCHANGED <<server, queue, edit, refresh, refreshes, removed>>

(* discardConflicts: the refused operation goes, and with it the successors *)
(* that were queued when its closure was computed.                          *)
IsFirst(kind, kinds) ==
  CASE kind = "CREATE" -> kind \in kinds
    [] kind = "UPDATE" -> kind \in kinds /\ "CREATE" \notin kinds
    [] OTHER           -> kinds = {"DELETE"}

DiscardConflict(h) ==
  /\ \E kind \in queue[h], kept \in SUBSET queue[h] :
       /\ IsFirst(kind, queue[h])
       /\ kind \notin kept
       /\ queue' = [queue EXCEPT ![h] = kept]
  /\ UNCHANGED <<server, record, edit, synced, refresh, refreshes, removed>>

----
(* Other clients of the API, which name a highlight by its server id.       *)

CreateElsewhere(h) ==
  /\ record[h] = None
  /\ server[h] = None
  /\ server' = [server EXCEPT ![h] = [rev |-> 1, deleted |-> FALSE, text |-> "theirs"]]
  /\ UNCHANGED <<edit, synced, refresh, refreshes, deviceVars>>

ChangeElsewhere(h) ==
  /\ IsLive(server[h])
  /\ server[h].rev < MaxRevision
  /\ \/ server' = [server EXCEPT ![h].rev = @ + 1, ![h].text = "theirs"]
     \/ server' = [server EXCEPT ![h].rev = @ + 1, ![h].deleted = TRUE]
  /\ UNCHANGED <<edit, synced, refresh, refreshes, deviceVars>>

----
(* mergeSnapshot, for one highlight: the operations queued for it, its row  *)
(* in the snapshot, its record on the device.                               *)

(* A creation names the client id.  An update or deletion names the key of  *)
(* the record, which is neither the client id nor the server id.            *)
PendingTargets(kinds) == "CREATE" \in kinds

(* Mutant: what the snapshot does not list counts as deleted.               *)
IsTombstone_Absent(row) == ~IsLive(row)

IsTombstone(row) == row # None /\ row.deleted

ServerValue(row) ==
  [known |-> TRUE, rev |-> row.rev, deleted |-> FALSE, text |-> row.text]

LocalValue(row) ==
  [known |-> row.known, rev |-> row.rev, deleted |-> row.deleted, text |-> row.text]

(* A tombstone carries the server id: it finds a record that knows it.      *)
Merged(kinds, row, local) ==
  IF local = None
    THEN IF IsLive(row) THEN ServerValue(row) ELSE None
  ELSE IF PendingTargets(kinds) THEN LocalValue(local)
  ELSE IF local.known /\ IsTombstone(row) THEN None
  ELSE IF IsLive(row) /\ row.rev >= local.rev THEN ServerValue(row)
  ELSE LocalValue(local)

(* Mutant: every projected record is stamped.                               *)
ProjectedSynced_Always(value, kinds, prior) == TRUE

(* projectedSyncedAt: the key of the record is compared here.               *)
ProjectedSynced(value, kinds, prior) ==
  \/ prior # None /\ prior.synced
  \/ value.known /\ kinds = {}

Projected(value, kinds, prior) ==
  [known |-> value.known, rev |-> value.rev, deleted |-> value.deleted,
   text |-> value.text, synced |-> ProjectedSynced(value, kinds, prior)]

----
(* refreshSnapshots, run when a tab starts: the queue is listed before the  *)
(* snapshot is fetched.  Only a book with queued work is refreshed; that    *)
(* may be a reading position alone, which is not modelled here.             *)

Goto(t, r) == refresh' = [refresh EXCEPT ![t] = r]

Launch(t) ==
  /\ refresh[t] = None
  /\ refreshes < MaxRefreshes
  /\ Goto(t, [pc |-> "fetch", listed |-> queue])
  /\ refreshes' = refreshes + 1
  /\ UNCHANGED <<server, edit, synced, deviceVars>>

At(t, pc) == refresh[t] # None /\ refresh[t].pc = pc

FetchSnapshot(t) ==
  /\ At(t, "fetch")
  /\ Goto(t, [pc |-> "read", listed |-> refresh[t].listed, snap |-> server])
  /\ UNCHANGED <<server, edit, synced, refreshes, deviceVars>>

ReadLocal(t) ==
  /\ At(t, "read")
  /\ LET listed == refresh[t].listed
         snap == refresh[t].snap
     IN  Goto(t, [pc |-> "prior", listed |-> listed,
                  gone |-> {h \in Highlight : IsTombstone(snap[h])},
                  shown |-> [h \in Highlight |-> Merged(listed[h], snap[h], record[h])]])
  /\ UNCHANGED <<server, edit, synced, refreshes, deviceVars>>

(* applyMerge, projectAnnotations: the records are read again for their     *)
(* stamps, then written one by one.                                         *)
ReadPrior(t) ==
  /\ At(t, "prior")
  /\ LET shown == refresh[t].shown IN
       Goto(t, [pc |-> "project", gone |-> refresh[t].gone,
                write |-> [h \in Highlight |->
                             IF shown[h] = None THEN None
                             ELSE Projected(shown[h], refresh[t].listed[h], record[h])],
                todo |-> {h \in Highlight : shown[h] # None}])
  /\ UNCHANGED <<server, edit, synced, refreshes, deviceVars>>

Project(t, h) ==
  /\ At(t, "project")
  /\ h \in refresh[t].todo
  /\ record' = [record EXCEPT ![h] = refresh[t].write[h]]
  /\ Goto(t, [refresh[t] EXCEPT !.todo = @ \ {h}])
  /\ UNCHANGED <<server, queue, edit, synced, refreshes, removed>>

(* softDeleteTombstonedRows: live records the merge leaves out and whose    *)
(* server id has a tombstone.                                               *)
ReadAffected(t) ==
  /\ At(t, "project")
  /\ refresh[t].todo = {}
  /\ LET stale == {h \in refresh[t].gone :
                     refresh[t].write[h] = None /\ IsLive(record[h]) /\ record[h].known}
     IN  Goto(t, [pc |-> "delete", todo |-> stale,
                  write |-> [h \in Highlight |->
                               IF h \in stale THEN [record[h] EXCEPT !.deleted = TRUE]
                               ELSE None]])
  /\ UNCHANGED <<server, edit, synced, refreshes, deviceVars>>

SoftDelete(t, h) ==
  /\ At(t, "delete")
  /\ h \in refresh[t].todo
  /\ record' = [record EXCEPT ![h] = refresh[t].write[h]]
  /\ Goto(t, [refresh[t] EXCEPT !.todo = @ \ {h}])
  /\ UNCHANGED <<server, queue, edit, synced, refreshes, removed>>

EndRefresh(t) ==
  /\ At(t, "delete")
  /\ refresh[t].todo = {}
  /\ Goto(t, None)
  /\ UNCHANGED <<server, edit, synced, refreshes, deviceVars>>

(* A refresh that fails skips the book; a closed tab forgets all it held.   *)
RefreshFails(t) ==
  /\ refresh[t] # None
  /\ Goto(t, None)
  /\ UNCHANGED <<server, edit, synced, refreshes, deviceVars>>

CloseTab(t) ==
  /\ <<edit[t], synced[t], refresh[t]>> # <<None, None, None>>
  /\ edit' = [edit EXCEPT ![t] = None]
  /\ synced' = [synced EXCEPT ![t] = None]
  /\ Goto(t, None)
  /\ UNCHANGED <<server, refreshes, deviceVars>>

Refresh(t) ==
  \/ Launch(t) \/ FetchSnapshot(t) \/ ReadLocal(t) \/ ReadPrior(t) \/ ReadAffected(t)
  \/ EndRefresh(t) \/ RefreshFails(t)
  \/ \E h \in Highlight : Project(t, h) \/ SoftDelete(t, h)

Next ==
  \/ \E h \in Highlight :
       Create(h) \/ Deliver(h) \/ DiscardConflict(h) \/ CreateElsewhere(h) \/ ChangeElsewhere(h)
  \/ \E t \in Tab :
       CommitEdit(t) \/ ReadRecord(t) \/ MarkSynced(t) \/ CloseTab(t) \/ Refresh(t)
  \/ \E t \in Editor, h \in Highlight :
       Acknowledge(t, h) \/ BeginEdit(t, h, "UPDATE") \/ BeginEdit(t, h, "DELETE")

Spec == Init /\ [][Next]_vars

----
(* Every variable has its type: what a tab holds, and what it is to write,  *)
(* are records as the device keeps them.                                    *)
TypeOK ==
  /\ server \in [Highlight -> Row \cup {None}]
  /\ record \in [Highlight -> Record \cup {None}]
  /\ queue \in [Highlight -> SUBSET OperationKind]
  /\ edit \in [Tab -> [kind : {"UPDATE", "DELETE"}, target : Highlight,
                        base : {row \in Record : row.rev < MaxRevision}] \cup {None}]
  /\ synced \in [Tab -> [target : Highlight, read : Record \cup {None}] \cup {None}]
  /\ refresh \in [Tab -> RefreshAt \cup {None}]
  /\ refreshes \in 0..MaxRefreshes
  /\ removed \subseteq Highlight

(* A highlight leaves the device only when its reader deleted it here or a  *)
(* client deleted it on the server, whatever refreshes run at once, on      *)
(* however old a snapshot, while highlights are made (mergeSnapshot, "a     *)
(* partial snapshot is never treated as authoritative absence").            *)
NothingVanishes ==
  \A h \in Highlight :
    record[h] # None /\ record[h].deleted =>
      h \in removed \/ (server[h] # None /\ server[h].deleted)

FullyDrained ==
  \A h \in Highlight :
    queue[h] = {} /\ (IsLive(record[h]) => record[h].synced)

(* When the controlled drain reports nothing outstanding, every highlight   *)
(* the device shows is on the server: a sign-out that relies on the report  *)
(* wipes nothing that exists only here (controlledDrain, countLocalOnly).   *)
DrainedMeansStored ==
  FullyDrained => \A h \in Highlight : IsLive(record[h]) => server[h] # None

(* What the comment of mergeSnapshot says: a pending update or deletion is  *)
(* authoritative for its highlight; a merge that was given it shows the     *)
(* record as the device has it.                                             *)
KeepsPending ==
  [][\A t \in Tab, h \in Highlight :
       ReadLocal(t) /\ {"UPDATE", "DELETE"} \cap refresh[t].listed[h] # {} =>
         refresh'[t].shown[h] = LocalValue(record[h])]_vars
=============================================================================
