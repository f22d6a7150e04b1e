--------------------------- MODULE BookDownloads ---------------------------
(* The offline download of one book in the tabs of one profile: the stored  *)
(* versions, pages and manifest in IndexedDB; the runs that stage, verify   *)
(* and publish a version; cancelling, removing, reloading and signing out.  *)
(* One step per awaited statement; Bible chapters have no documented        *)
(* rights, so no run of theirs gets past the rights gate.                   *)
EXTENDS Naturals, FiniteSets

CONSTANTS
  Tab,
  Slots,        \* bound: runs under way at once
  MaxVersion,   \* bound: content versions the server publishes
  Page,
  MaxStarts,    \* bound, by the tabs open: downloads started or retried
  MaxReloads,   \* bound, by the tabs open: pages crashed or reloaded
  None

Version == 1 .. MaxVersion

ASSUME DownloadAssumption ==
  /\ IsFiniteSet(Tab)
  /\ Slots \in Nat
  /\ MaxVersion \in Nat \ {0}
  /\ None \notin Version \cup {0} \cup Tab \cup Page
  /\ MaxStarts \in [SUBSET Tab -> Nat]
  /\ MaxReloads \in [SUBSET Tab -> Nat]

VARIABLES
  open,        \* the tabs that are open
  rows,        \* bookVersions, by version
  pages,       \* bookPages, by version: the pages stored, all of them verified
  manifest,    \* the download manifest of the book, or None
  latest,      \* the latest eligible version on the server
  pinned,      \* versions an annotation or a pending operation refers to
  account,     \* "owner", then "fenced" and "wiped" by a sign-out
  run,         \* the download runs
  controller,  \* activeControllers of each tab: the run its entry belongs to
  cancelling,  \* the manifest a cancel of the tab has read
  removal,     \* a removal of the tab under way
  shown,       \* what the download control of the tab shows
  starts,
  reloads,
  overlapped   \* whether a tab started or removed while a run or a removal of it was under way

stored == <<rows, pages, manifest>>
tabs   == <<controller, cancelling, removal, shown>>
past   == <<starts, reloads, overlapped>>
world  == <<open, latest, pinned, account>>
vars == <<world, stored, run, tabs, past>>

Slot == 1 .. Slots

NoRows  == [v \in Version |-> None]
NoPages == [v \in Version |-> {}]

(* FAILED stands for INTERRUPTED too: both are retried or discarded.       *)
Busy   == {"STAGING", "VERIFYING"}
Status == Busy \cup {"FAILED", "READY", "CANCELLED"}

Row == [status : {"STAGED", "READY"}, active : BOOLEAN]

ASSUME NoneIsNoRow == None \notin Row

Manifest == [version : Version \cup {0}, active : Version \cup {None}, status : Status]

(* want: the version asked for; version: the one attempted; prior: the      *)
(* active version when staging began; todo and unrecorded: pages to fetch,  *)
(* and pages put whose progress is not yet; failed: the failure's status.   *)
Idle == [pc |-> "idle", tab |-> None, aborted |-> FALSE, want |-> None, version |-> None,
         prior |-> None, todo |-> {}, unrecorded |-> {}, failed |-> None]

Init ==
  /\ open \in (SUBSET Tab) \ {{}}
  /\ rows = NoRows
  /\ pages = NoPages
  /\ manifest = None
  /\ latest = 1
  /\ pinned = {}
  /\ account = "owner"
  /\ run = [r \in Slot |-> Idle]
  /\ controller = [t \in Tab |-> None]
  /\ cancelling = [t \in Tab |-> None]
  /\ removal = [t \in Tab |-> None]
  /\ shown = [t \in Tab |-> "IDLE"]
  /\ starts = 0
  /\ reloads = 0
  /\ overlapped = FALSE

----
(* Starting and retrying.                                                  *)

At(r, pc) == run[r].pc = pc

Unwound(t) == removal[t] = None /\ \A r \in Slot : run[r].tab # t

(* runBookOperation replaces the controller of a run that is under way.    *)
Launch(r, t, pc) ==
  /\ run[r] = Idle
  /\ \A q \in 1 .. r - 1 : run[q] # Idle
  /\ account = "owner"
  /\ starts < MaxStarts[open]
  /\ starts' = starts + 1
  /\ overlapped' = (overlapped \/ ~ Unwound(t))
  /\ run' = [run EXCEPT ![r] = [Idle EXCEPT !.pc = pc, !.tab = t]]
  /\ controller' = [controller EXCEPT ![t] = r]
  /\ shown' = [shown EXCEPT ![t] = "STAGING"]
  /\ UNCHANGED <<world, stored, cancelling, removal, reloads>>

StartBookDownload(r, t) ==
  /\ t \in open
  /\ shown[t] \in {"IDLE", "CANCELLED"}
  /\ Launch(r, t, "manifest")

RetryBookDownload(r, t) ==
  /\ t \in open
  /\ shown[t] = "FAILED"
  /\ Launch(r, t, "recall")

Goto(r, pc) == run' = [run EXCEPT ![r].pc = pc]

(* The first failure stops the run from taking another page.               *)
Fail(r, status) ==
  run' = [run EXCEPT ![r].failed = status, ![r].todo = {},
                     ![r].pc = IF run[r].unrecorded = {} THEN "failing" ELSE "pages"]

(* A retry asks for the version of the manifest it finds.                  *)
Recall(r) ==
  /\ At(r, "recall")
  /\ run' = [run EXCEPT ![r].pc = "manifest",
                        ![r].want = IF manifest = None THEN None ELSE manifest.version]
  /\ UNCHANGED <<world, stored, tabs, past>>

(* GET offline-manifest: the latest eligible version, or the one asked for.*)
Offered(want) == IF want = None THEN latest ELSE want

FetchManifest(r) ==
  LET v == Offered(run[r].want)
  IN  /\ At(r, "manifest")
      /\ \/ /\ v \in 1 .. latest
            /\ ~ run[r].aborted
            /\ run' = [run EXCEPT ![r].pc = "check", ![r].version = v]
         \/ run[r].aborted /\ Fail(r, "CANCELLED")
         \/ ~ run[r].aborted /\ Fail(r, "FAILED")
      /\ UNCHANGED <<world, stored, tabs, past>>

----
(* Staging, verifying and publishing.                                      *)

Mutable_Unfenced == TRUE

(* requirePermit, then guardWrite in the transaction.                      *)
Mutable == account = "owner"

Show(r, status) == shown' = [shown EXCEPT ![run[r].tab] = status]

(* A run that ends deletes its tab's entry, whosever it is.                *)
Ends(r, status) ==
  /\ run' = [run EXCEPT ![r] = Idle]
  /\ controller' = [controller EXCEPT ![run[r].tab] = None]
  /\ Show(r, status)
  /\ UNCHANGED <<cancelling, removal>>

(* A book that is ready in this version is returned as it is.              *)
CheckReady(r) ==
  /\ At(r, "check")
  /\ IF manifest # None /\ manifest.status = "READY" /\ manifest.active = run[r].version
       THEN Ends(r, "READY")
       ELSE Goto(r, "prior") /\ UNCHANGED tabs
  /\ UNCHANGED <<world, stored, past>>

(* The storage estimate, and the manifest the staging starts from.         *)
ReadPrior(r) ==
  /\ At(r, "prior")
  /\ \/ run' = [run EXCEPT ![r].pc = "row",
                           ![r].prior = IF manifest = None THEN None ELSE manifest.active]
     \/ Fail(r, "FAILED")
  /\ UNCHANGED <<world, stored, tabs, past>>

PutRow_ClearsActive(r) ==
  /\ At(r, "row")
  /\ Mutable
  /\ rows' = [v \in Version |->
       IF v = run[r].version THEN [status |-> "STAGED", active |-> FALSE]
       ELSE IF rows[v] = None THEN None ELSE [rows[v] EXCEPT !.active = FALSE]]
  /\ Goto(r, "staging")
  /\ UNCHANGED <<world, pages, manifest, tabs, past>>

PutRow(r) ==
  /\ At(r, "row")
  /\ Mutable
  /\ rows' = [rows EXCEPT ![run[r].version] = [status |-> "STAGED", active |-> FALSE]]
  /\ Goto(r, "staging")
  /\ UNCHANGED <<world, pages, manifest, tabs, past>>

PutManifest(r, status) ==
  /\ Mutable
  /\ manifest' = [version |-> run[r].version, active |-> run[r].prior, status |-> status]
  /\ Show(r, status)
  /\ UNCHANGED <<rows, pages, controller, cancelling, removal>>

PutStaging(r) ==
  /\ At(r, "staging")
  /\ PutManifest(r, "STAGING")
  /\ Goto(r, "reuse")
  /\ UNCHANGED <<world, past>>

ReuseVerifiedPages(r) ==
  /\ At(r, "reuse")
  /\ run' = [run EXCEPT ![r].pc = "pages", ![r].todo = Page \ pages[run[r].version]]
  /\ UNCHANGED <<world, stored, tabs, past>>

(* fetchPage, its digest checks, and the page put.                         *)
FetchPage(r) ==
  /\ At(r, "pages")
  /\ \E p \in run[r].todo :
       /\ Mutable
       /\ ~ run[r].aborted
       /\ pages' = [pages EXCEPT ![run[r].version] = @ \cup {p}]
       /\ run' = [run EXCEPT ![r].todo = @ \ {p}, ![r].unrecorded = @ \cup {p}]
  /\ UNCHANGED <<world, rows, manifest, tabs, past>>

RecordProgress(r) ==
  /\ At(r, "pages")
  /\ \E p \in run[r].unrecorded :
       LET rest == run[r].unrecorded \ {p}
       IN  run' = [run EXCEPT ![r].unrecorded = rest,
             ![r].pc = IF rest = {} /\ run[r].failed # None THEN "failing" ELSE "pages"]
  /\ PutManifest(r, "STAGING")
  /\ UNCHANGED <<world, past>>

PutVerifying(r) ==
  /\ At(r, "pages")
  /\ run[r].todo \cup run[r].unrecorded = {}
  /\ ~ run[r].aborted
  /\ PutManifest(r, "VERIFYING")
  /\ Goto(r, "verify")
  /\ UNCHANGED <<world, past>>

VerifyCompleteBook(r) ==
  /\ At(r, "verify")
  /\ IF pages[run[r].version] = Page THEN Goto(r, "publish") ELSE Fail(r, "FAILED")
  /\ UNCHANGED <<world, stored, tabs, past>>

(* publishBookVersion demotes the other versions in its transaction.       *)
Published_KeepsOthers(v) ==
  [rows EXCEPT ![v] = [status |-> "READY", active |-> TRUE]]

Published(v) ==
  [w \in Version |->
     IF w = v THEN [status |-> "READY", active |-> TRUE]
     ELSE IF rows[w] = None THEN None ELSE [rows[w] EXCEPT !.active = FALSE]]

PublishBook(r) ==
  LET v == run[r].version
  IN  /\ At(r, "publish")
      /\ ~ run[r].aborted
      /\ Mutable
      /\ rows' = Published(v)
      /\ manifest' = [version |-> v, active |-> v, status |-> "READY"]
      /\ Ends(r, "READY")
      /\ UNCHANGED <<world, pages, past>>

(* A put that is refused or fails: over quota, or anything else.           *)
PutFails(r) ==
  /\ run[r].pc \in {"row", "staging", "pages", "publish"}
  /\ run[r].failed = None
  /\ \/ Fail(r, "FAILED")
     \/ run[r].aborted /\ run[r].pc \in {"pages", "publish"} /\ Fail(r, "CANCELLED")
  /\ UNCHANGED <<world, stored, tabs, past>>

(* The progress of a page in flight when the run failed may fail too.      *)
ProgressLost(r) ==
  /\ At(r, "pages")
  /\ run[r].failed # None
  /\ run' = [run EXCEPT ![r].unrecorded = {}, ![r].pc = "failing"]
  /\ UNCHANGED <<world, stored, tabs, past>>

AttemptedVersion_NoPrior(r) ==
  IF run[r].version # None THEN run[r].version ELSE run[r].want

AttemptedVersion(r) ==
  CASE run[r].version # None -> run[r].version
    [] run[r].version = None /\ run[r].want # None -> run[r].want
    [] run[r].version = None /\ run[r].want = None ->
         IF manifest = None THEN 0 ELSE manifest.version

(* recordBookFailure reads the manifest...                                 *)
RecordBookFailure(r) ==
  /\ At(r, "failing")
  /\ run' = [run EXCEPT ![r].pc = "failed",
               ![r].prior = IF manifest = None THEN None ELSE manifest.active,
               ![r].version = AttemptedVersion(r)]
  /\ UNCHANGED <<world, stored, tabs, past>>

(* ...and puts the failure, if it may; the control shows an interruption.  *)
PutFailure(r) ==
  /\ At(r, "failed")
  /\ manifest' = IF Mutable
       THEN [version |-> run[r].version, active |-> run[r].prior, status |-> run[r].failed]
       ELSE manifest
  /\ Ends(r, "FAILED")
  /\ UNCHANGED <<world, rows, pages, past>>

----
(* Cancelling and removing.                                                *)

(* cancelBookDownload aborts the run the tab knows and reads the manifest. *)
CancelBookDownload(t) ==
  /\ t \in open
  /\ account = "owner"
  /\ shown[t] \in Busy
  /\ cancelling[t] = None
  /\ run' = IF controller[t] = None THEN run
            ELSE [run EXCEPT ![controller[t]].aborted = TRUE]
  /\ IF manifest = None \/ manifest.status = "READY"
       THEN /\ shown' = [shown EXCEPT ![t] = "CANCELLED"]
            /\ UNCHANGED cancelling
       ELSE /\ cancelling' = [cancelling EXCEPT ![t] = manifest]
            /\ UNCHANGED shown
  /\ UNCHANGED <<world, stored, controller, removal, past>>

PutCancelled(t) ==
  /\ cancelling[t] # None
  /\ cancelling' = [cancelling EXCEPT ![t] = None]
  /\ IF Mutable
       THEN /\ manifest' = [cancelling[t] EXCEPT !.status = "CANCELLED"]
            /\ shown' = [shown EXCEPT ![t] = "CANCELLED"]
       ELSE UNCHANGED <<manifest, shown>>
  /\ UNCHANGED <<world, rows, pages, run, controller, removal, past>>

(* removeBookDownload: the references, then the rows, then the pages...    *)
RemoveBookDownload(t) ==
  /\ t \in open
  /\ account = "owner"
  /\ shown[t] \in {"FAILED", "READY"}
  /\ removal[t] = None
  /\ overlapped' = (overlapped \/ ~ Unwound(t))
  /\ removal' = [removal EXCEPT ![t] =
       [pc |-> "rows", retain |-> pinned, rows |-> NoRows, pages |-> NoPages]]
  /\ UNCHANGED <<world, stored, run, controller, cancelling, shown, starts, reloads>>

ReadVersions(t) ==
  /\ removal[t] # None /\ removal[t].pc = "rows"
  /\ removal' = [removal EXCEPT ![t].pc = "pages", ![t].rows = rows]
  /\ UNCHANGED <<world, stored, run, controller, cancelling, shown, past>>

ReadPages(t) ==
  /\ removal[t] # None /\ removal[t].pc = "pages"
  /\ removal' = [removal EXCEPT ![t].pc = "commit", ![t].pages = pages]
  /\ UNCHANGED <<world, stored, run, controller, cancelling, shown, past>>

HighestRetained_Staged(x) ==
  LET complete == {v \in x.retain : x.rows[v] # None}
  IN  IF complete = {} THEN None
      ELSE CHOOSE v \in complete : \A w \in complete : w <= v

(* highestCompleteReadyRetained.                                           *)
HighestRetained(x) ==
  LET complete == {v \in x.retain : x.rows[v] # None /\ x.rows[v].status = "READY"
                                      /\ x.pages[v] = Page}
  IN  IF complete = {} THEN None
      ELSE CHOOSE v \in complete : \A w \in complete : w <= v

(* handleRemovalManifest.                                                  *)
RemovalManifest(x) ==
  IF x.retain = {} \/ manifest = None THEN None
  ELSE IF HighestRetained(x) = None THEN [manifest EXCEPT !.status = "FAILED", !.active = None]
  ELSE [manifest EXCEPT !.status = "READY", !.active = HighestRetained(x)]

KeptPages_None(x) == [v \in Version |-> pages[v] \ x.pages[v]]

(* What an annotation or a pending operation refers to is retained.        *)
KeptPages(x) ==
  [v \in Version |-> IF v \in x.retain THEN pages[v] ELSE pages[v] \ x.pages[v]]

(* ...and one transaction on what was read.                                *)
CommitRemoval(t) ==
  LET x == removal[t]
  IN  /\ x # None
      /\ x.pc = "commit"
      /\ removal' = [removal EXCEPT ![t] = None]
      /\ IF Mutable
           THEN /\ rows' = [v \in Version |->
                     IF x.rows[v] = None THEN rows[v]
                     ELSE IF v \notin x.retain THEN None
                     ELSE [x.rows[v] EXCEPT !.active = (v = HighestRetained(x))]]
                /\ pages' = KeptPages(x)
                /\ manifest' = RemovalManifest(x)
                /\ shown' = [shown EXCEPT ![t] = "IDLE"]
           ELSE UNCHANGED <<stored, shown>>
      /\ UNCHANGED <<world, run, controller, cancelling, past>>

----
(* The rest of the world.                                                  *)

(* The server publishes the next eligible version.                         *)
PublishOnServer ==
  /\ latest < MaxVersion
  /\ latest' = latest + 1
  /\ UNCHANGED <<open, pinned, account, stored, run, tabs, past>>

(* A saved annotation refers to a version.                                 *)
Annotate(v) ==
  /\ v \in 1 .. latest \ pinned
  /\ account = "owner"
  /\ pinned' = pinned \cup {v}
  /\ UNCHANGED <<open, latest, account, stored, run, tabs, past>>

(* A sign-out ends the epoch, then wipes the subject's records.            *)
SignOut ==
  /\ account = "owner"
  /\ account' = "fenced"
  /\ UNCHANGED <<open, latest, pinned, stored, run, tabs, past>>

Wipe ==
  /\ account = "fenced"
  /\ account' = "wiped"
  /\ rows' = NoRows
  /\ pages' = NoPages
  /\ manifest' = None
  /\ pinned' = {}
  /\ UNCHANGED <<open, latest, run, tabs, past>>

(* A page is closed, crashes or reloads; its control shows the manifest.   *)
Reload(t) ==
  /\ t \in open
  /\ reloads < MaxReloads[open]
  /\ reloads' = reloads + 1
  /\ run' = [r \in Slot |-> IF run[r].tab = t THEN Idle ELSE run[r]]
  /\ controller' = [controller EXCEPT ![t] = None]
  /\ cancelling' = [cancelling EXCEPT ![t] = None]
  /\ removal' = [removal EXCEPT ![t] = None]
  /\ shown' = [shown EXCEPT ![t] = IF manifest = None \/ account # "owner" THEN "IDLE"
                                   ELSE manifest.status]
  /\ UNCHANGED <<world, stored, starts, overlapped>>

----

Step(r) ==
  \/ Recall(r) \/ FetchManifest(r) \/ CheckReady(r) \/ ReadPrior(r) \/ PutRow(r)
  \/ PutStaging(r) \/ ReuseVerifiedPages(r) \/ FetchPage(r) \/ RecordProgress(r)
  \/ PutVerifying(r) \/ VerifyCompleteBook(r) \/ PublishBook(r) \/ PutFails(r)
  \/ ProgressLost(r) \/ RecordBookFailure(r) \/ PutFailure(r)

Control(t) == PutCancelled(t) \/ ReadVersions(t) \/ ReadPages(t) \/ CommitRemoval(t)

Next ==
  \/ \E r \in Slot, t \in Tab : StartBookDownload(r, t) \/ RetryBookDownload(r, t)
  \/ \E r \in Slot : Step(r)
  \/ \E t \in Tab : CancelBookDownload(t) \/ RemoveBookDownload(t) \/ Control(t) \/ Reload(t)
  \/ PublishOnServer
  \/ \E v \in Version : Annotate(v)
  \/ SignOut \/ Wipe

Spec == Init /\ [][Next]_vars

----
(* Properties.                                                             *)

Alone == Cardinality(open) = 1

(* One tab, whose runs and removals have come one after the other.         *)
InTurn == Alone /\ ~ overlapped

Active == {v \in Version : rows[v] # None /\ rows[v].status = "READY" /\ rows[v].active}

Openable == {v \in Active : pages[v] = Page}

(* The variables stay in their domains, and an activated version was        *)
(* staged by a run: bookVersions, bookPages, downloadManifests and the      *)
(* states of the download control.                                          *)
TypeOK ==
  /\ open \in SUBSET Tab
  /\ rows \in [Version -> Row \cup {None}]
  /\ pages \in [Version -> SUBSET Page]
  /\ manifest \in Manifest \cup {None}
  /\ latest \in Version
  /\ pinned \in SUBSET Version
  /\ account \in {"owner", "fenced", "wiped"}
  /\ controller \in [Tab -> Slot \cup {None}]
  /\ shown \in [Tab -> Status \cup {"IDLE"}]
  /\ starts \in Nat
  /\ reloads \in Nat
  /\ overlapped \in BOOLEAN

(* Once a sign-out has wiped the subject, no run, cancel, removal or        *)
(* failure record of any tab, started before or after the wipe, leaves a    *)
(* row, a page or a manifest behind (assertPermit, guardWrite).             *)
WipedStaysEmpty == account = "wiped" => stored = <<NoRows, NoPages, None>>

(* In one tab, runs not overlapping, whatever it starts, cancels, removes   *)
(* and reloads, at most one version is active: getActiveBookVersion finds   *)
(* the one that publishBookVersion and removeBookDownload chose.            *)
OneActive == InTurn => Cardinality(Active) <= 1

(* In one tab, runs not overlapping, "Saved offline" is true: a READY       *)
(* manifest names a version that is READY, active and stored to its last    *)
(* page (publishBook, handleRemovalManifest).                               *)
ReadyIsOpenable ==
  InTurn /\ manifest # None /\ manifest.status = "READY" => manifest.active \in Openable

(* In one tab, runs not overlapping, the reader finds every page of an      *)
(* active version: staging, failing, cancelling and removing never activate *)
(* a version in part.                                                       *)
ActiveIsOpenable == InTurn => Active \subseteq Openable

Restaged(v) == \E r \in Slot : At(r, "row") /\ run[r].version = v

(* In one tab, runs not overlapping, a version the reader can open stops    *)
(* being so only by a removal, a sign-out, a newer version published whole, *)
(* or a new download of that very version: not by the failure, the          *)
(* cancelling or the reload of a replacement (stageBook, recordBookFailure).*)
KeepsPrior ==
  [][InTurn => \A v \in Openable \ Openable' :
       \/ Openable' # {}
       \/ account' = "wiped"
       \/ removal' # removal
       \/ Restaged(v)]_<<rows, pages, account, removal, run>>

(* 2026-10-01-pwa.md: "Only complete explicit selections appear ready". A   *)
(* run cancelled and replaced in its tab goes on to its next check of the   *)
(* signal, and may stage again the version its successor has published.     *)
OnlyCompleteReady ==
  Alone /\ manifest # None /\ manifest.status = "READY" => manifest.active \in Openable

(* contracts.ts: "An interrupted or failed replacement must never clear     *)
(* activeVersion". Yet a retry stages the version of the manifest again,    *)
(* and CheckReady returns early only if the manifest is still READY.        *)
KeepsOpenable ==
  [][Openable # {} /\ Openable' = {} => account' = "wiped" \/ removal' # removal]_
    <<rows, pages, account, removal>>

(* download-manager.ts: a fault of the network "stays INTERRUPTED           *)
(* (retryable)". A first download that fails before its manifest arrives    *)
(* records version 0, which a retry then asks the server for.               *)
RetryFindsVersion == \A r \in Slot : At(r, "manifest") => run[r].want # 0
=============================================================================
