------------------------ MODULE BookDownloads_proofs ------------------------
(* Proofs about BookDownloads: types, that a wiped account stays empty with  *)
(* any number of tabs and overlapping runs, and, in one tab, for as long as  *)
(* its runs and removals have come one after the other, that what is shown   *)
(* as saved can be opened.                                                   *)
EXTENDS BookDownloads, FiniteSetTheorems, TLAPS

(* What a run holds at each of its steps.                                    *)
Staging == {"check", "prior", "row", "staging", "reuse", "pages", "verify", "publish"}
Statement == {"idle", "recall", "manifest", "failing", "failed"} \cup Staging

RunType ==
  [pc : Statement, tab : Tab \cup {None}, aborted : BOOLEAN,
   want : Version \cup {0, None}, version : Version \cup {0, None},
   prior : Version \cup {None}, todo : SUBSET Page, unrecorded : SUBSET Page,
   failed : {"FAILED", "CANCELLED", None}]

Fits(x) ==
  /\ x \in RunType
  /\ x.tab = None <=> x.pc = "idle"
  /\ x.pc = "idle" => x = Idle
  /\ x.pc \in Staging => x.version \in Version
  /\ x.pc = "failing" => x.version \in Version \cup {None}
  /\ x.pc = "failed" => x.version \in Version \cup {0}
  /\ x.pc \in {"failing", "failed"} => x.failed \in {"FAILED", "CANCELLED"}
  /\ x.pc \in {"recall", "manifest"} => x.unrecorded = {} /\ x.version = None

RunsFit ==
  /\ run \in [Slot -> RunType]
  /\ \A r \in Slot : Fits(run[r])
  /\ controller \in [Tab -> Slot \cup {None}]
  /\ \A t \in Tab : controller[t] # None => run[controller[t]].tab = t

Removal == [pc : {"rows", "pages", "commit"}, retain : SUBSET Version,
            rows : [Version -> Row \cup {None}], pages : [Version -> SUBSET Page]]

ControlsFit ==
  /\ cancelling \in [Tab -> Manifest \cup {None}]
  /\ removal \in [Tab -> Removal \cup {None}]

Typed == TypeOK /\ RunsFit /\ ControlsFit

(* Until a first overlap, the runs and the removal of a tab exclude each other. *)
Separate ==
  /\ \A r \in Slot : run[r].tab # None => run[r].tab \in open
  /\ \A r, q \in Slot : run[r].tab # None /\ run[r].tab = run[q].tab => r = q
  /\ \A t \in Tab : removal[t] # None => t \in open /\ \A r \in Slot : run[r].tab # t

(* What one tab has read stays true until it uses it, unless it signs out.   *)
PublishedWhole ==
  \A r \in Slot : At(r, "publish") => pages[run[r].version] = Page

NotTheReadyOne ==
  \A r \in Slot :
    run[r].pc \in {"prior", "row"} /\ manifest # None /\ manifest.status = "READY"
      => manifest.active # run[r].version

RemovalTrue ==
  \A t \in Tab : removal[t] # None =>
    /\ removal[t].pc \in {"pages", "commit"} => removal[t].rows = rows
    /\ removal[t].pc = "commit" => removal[t].pages = pages

Read == PublishedWhole /\ NotTheReadyOne /\ RemovalTrue

OnlyActive == \A v, w \in Active : v = w

Saved ==
  /\ manifest # None /\ manifest.status = "READY" => manifest.active \in Openable
  /\ Active \subseteq Openable
  /\ OnlyActive

IInv ==
  /\ Typed
  /\ ~ overlapped => Separate
  /\ InTurn => Saved
  /\ InTurn /\ account = "owner" => Read

----
(* A nonempty set of versions has a highest one.                             *)

LEMMA HasMax ==
  ASSUME NEW n \in Nat, NEW S \in SUBSET (1 .. n), S # {}
  PROVE  \E v \in S : \A w \in S : w <= v
<1> DEFINE above(v) == {w \in 1 .. n : v <= w}
<1> DEFINE T == {above(v) : v \in S}
<1>1. IsWellFoundedOn(StrictSubsetOrdering(1 .. n), SUBSET (1 .. n))
  <2>1. IsFiniteSet(1 .. n)
    BY FS_Interval
  <2> QED
    BY <2>1, FS_FiniteSubsetsOfFinite, FS_StrictSubsetOrderingWellFounded
<1>2. T \subseteq SUBSET (1 .. n) /\ T # {}
  OBVIOUS
<1>3. \E x \in T : \A y \in T : ~ (<<y, x>> \in StrictSubsetOrdering(1 .. n))
  <2> HIDE DEF T
  <2> QED
    BY <1>1, <1>2, WFMin
<1>4. PICK v \in S : \A w \in S : ~ (<<above(w), above(v)>> \in StrictSubsetOrdering(1 .. n))
  BY <1>3
<1>5. ASSUME NEW w \in S, v < w PROVE FALSE
  <2>1. above(w) \subseteq above(v) /\ v \in above(v) /\ v \notin above(w)
    BY <1>5
  <2> QED
    BY <1>4, <2>1 DEF StrictSubsetOrdering
<1> QED
  BY <1>5

USE DownloadAssumption

----
(* One run changes.                                                          *)

LEMMA IdleFits == Fits(Idle) /\ Idle.tab = None /\ Idle \in RunType
BY DEF Idle, Fits, RunType, Statement, Staging

LEMMA RunMoves ==
  ASSUME RunsFit, NEW r \in Slot, NEW x, Fits(x), x.tab = run[r].tab,
         run' = [run EXCEPT ![r] = x], UNCHANGED controller
  PROVE  RunsFit' /\ \A q \in Slot : run'[q].tab = run[q].tab
BY DEF RunsFit, Fits

LEMMA GotoFits ==
  ASSUME NEW x, Fits(x), NEW pc \in Statement \ {"idle", "failing", "failed"},
         x.pc # "idle",
         pc \in Staging => x.version \in Version,
         pc \in {"recall", "manifest"} => x.unrecorded = {} /\ x.version = None
  PROVE  Fits([x EXCEPT !.pc = pc])
BY DEF Fits, RunType

LEMMA FailFits ==
  ASSUME RunsFit, NEW r \in Slot, NEW status \in {"FAILED", "CANCELLED"},
         run[r].pc \in (Staging \cup {"manifest"}), Fail(r, status), UNCHANGED controller
  PROVE  RunsFit' /\ \A q \in Slot : run'[q].tab = run[q].tab
<1> DEFINE x == [run[r] EXCEPT !.failed = status, !.todo = {},
                               !.pc = IF run[r].unrecorded = {} THEN "failing" ELSE "pages"]
<1>1. Fits(run[r])
  BY DEF RunsFit
<1>2. run[r].version \in Version \cup {None} /\ (run[r].unrecorded # {} => run[r].version \in Version)
  BY <1>1 DEF Fits, Staging, RunType
<1>3. x \in RunType
  BY <1>1 DEF Fits, RunType, Statement, Staging
<1>4. Fits(x)
  BY <1>1, <1>2, <1>3 DEF Fits, Staging, RunType
<1>5. run' = [run EXCEPT ![r] = x]
  BY DEF Fail
<1>6. x.tab = run[r].tab
  BY <1>1 DEF Fits, RunType
<1> HIDE DEF x
<1> QED
  BY <1>4, <1>5, <1>6, RunMoves

LEMMA EndsFit ==
  ASSUME RunsFit, NEW r \in Slot, run[r].tab \in Tab, NEW status, Ends(r, status)
  PROVE  RunsFit' /\ \A q \in Slot : run'[q].tab \in {run[q].tab, None}
<1> DEFINE u == run[r].tab
<1>1. run' = [run EXCEPT ![r] = Idle] /\ controller' = [controller EXCEPT ![u] = None]
  BY DEF Ends
<1>2. Idle.tab = None /\ Idle \in RunType
  BY IdleFits
<1>3. run' \in [Slot -> RunType] /\ \A q \in Slot : Fits(run'[q])
  BY <1>1, <1>2, IdleFits DEF RunsFit
<1>4. controller' \in [Tab -> Slot \cup {None}]
  BY <1>1 DEF RunsFit
<1>5. ASSUME NEW t \in Tab, controller'[t] # None
      PROVE  run'[controller'[t]].tab = t
  <2>1. t # u /\ controller[t] = controller'[t] /\ run[controller[t]].tab = t
    BY <1>1, <1>5 DEF RunsFit
  <2>2. controller[t] # r /\ controller[t] \in Slot
    BY <1>5, <2>1 DEF RunsFit
  <2> QED
    BY <1>1, <2>1, <2>2 DEF RunsFit
<1>6. \A q \in Slot : run'[q].tab \in {run[q].tab, None}
  BY <1>1, <1>2 DEF RunsFit
<1> QED
  BY <1>3, <1>4, <1>5, <1>6 DEF RunsFit

(* A run at work belongs to a tab.                                           *)
LEMMA AtWork ==
  ASSUME RunsFit, NEW r \in Slot, run[r].pc # "idle"
  PROVE  Fits(run[r]) /\ run[r].tab \in Tab
BY DEF RunsFit, Fits, RunType

LEMMA MoveFits ==
  ASSUME RunsFit, NEW r \in Slot, NEW pc \in Statement \ {"idle", "recall", "manifest", "failing", "failed"},
         run[r].pc # "idle", Goto(r, pc), UNCHANGED controller, run[r].version \in Version
  PROVE  RunsFit' /\ \A q \in Slot : run'[q].tab = run[q].tab
<1> DEFINE x == [run[r] EXCEPT !.pc = pc]
<1>1. Fits(run[r])
  BY DEF RunsFit
<1>2. Fits(x)
  BY <1>1, GotoFits DEF Staging
<1>3. run' = [run EXCEPT ![r] = x]
  BY DEF Goto
<1>4. x.tab = run[r].tab
  BY <1>1 DEF Fits, RunType
<1> HIDE DEF x
<1> QED
  BY <1>2, <1>3, <1>4, RunMoves

----
(* The version a removal keeps.                                              *)

LEMMA HighestRetainedComplete ==
  ASSUME NEW x \in Removal, HighestRetained(x) # None
  PROVE  LET v == HighestRetained(x)
         IN  /\ v \in Version
             /\ v \in x.retain /\ x.rows[v] # None
             /\ x.rows[v].status = "READY" /\ x.pages[v] = Page
<1> DEFINE S == {v \in x.retain : x.rows[v] # None /\ x.rows[v].status = "READY"
                                   /\ x.pages[v] = Page}
<1>1. HighestRetained(x) = IF S = {} THEN None ELSE CHOOSE v \in S : \A w \in S : w <= v
  BY DEF HighestRetained
<1>2. S # {} /\ S \subseteq 1 .. MaxVersion
  BY <1>1 DEF Removal, Version
<1>3. \E v \in S : \A w \in S : w <= v
  BY <1>2, HasMax
<1>4. HighestRetained(x) \in S
  BY <1>1, <1>2, <1>3
<1> QED
  BY <1>2, <1>4 DEF Version

----
(* Type correctness.                                                         *)

LEMMA RowChange ==
  ASSUME NEW x \in Row, NEW b \in BOOLEAN
  PROVE  [x EXCEPT !.active = b] \in Row
BY DEF Row

LEMMA InitTyped == Init => Typed
<1> SUFFICES ASSUME Init PROVE Typed
  OBVIOUS
<1>1. TypeOK
  <2>1. open \in SUBSET Tab /\ overlapped \in BOOLEAN
    BY DEF Init
  <2> QED
    BY <2>1 DEF Init, TypeOK, NoRows, NoPages, Version, Status
<1>2. RunsFit
  BY IdleFits DEF Init, RunsFit
<1> QED
  BY <1>1, <1>2 DEF Init, Typed, ControlsFit

(* A launched run takes the entry of its tab.                                *)
LEMMA LaunchTyped ==
  ASSUME Typed, NEW r \in Slot, NEW t \in Tab, NEW pc \in {"manifest", "recall"}, Launch(r, t, pc)
  PROVE  Typed'
<1> DEFINE x == [Idle EXCEPT !.pc = pc, !.tab = t]
<1>1. x.tab = t /\ Fits(x)
  BY DEF Idle, Fits, RunType, Statement, Staging
<1>2. run' = [run EXCEPT ![r] = x] /\ controller' = [controller EXCEPT ![t] = r]
  BY DEF Launch
<1> HIDE DEF x
<1>3. x \in RunType
  BY <1>1 DEF Fits
<1>4. ASSUME NEW u \in Tab, controller'[u] # None
      PROVE  run'[controller'[u]].tab = u
  <2>1. CASE u = t
    BY <1>1, <1>2, <2>1 DEF Typed, RunsFit
  <2>2. CASE u # t
    <3>1. controller'[u] = controller[u] /\ run[controller[u]].tab = u /\ controller[u] \in Slot
      BY <1>2, <1>4, <2>2 DEF Typed, RunsFit
    <3>2. run[r].tab = None
      BY IdleFits DEF Launch
    <3>3. controller[u] # r
      BY <3>1, <3>2
    <3> QED
      BY <1>2, <3>1, <3>3 DEF Typed, RunsFit
  <2> QED
    BY <2>1, <2>2
<1>5. RunsFit'
  BY <1>1, <1>2, <1>3, <1>4 DEF Typed, RunsFit
<1>6. TypeOK' /\ ControlsFit'
  BY <1>2 DEF Launch, Typed, TypeOK, RunsFit, ControlsFit, world, stored, Status, Busy
<1> QED
  BY <1>5, <1>6 DEF Typed

(* What a run's statement does to its own record.                            *)
LEMMA StepFits ==
  ASSUME Typed, NEW r \in Slot, Step(r)
  PROVE  /\ RunsFit'
         /\ \A q \in Slot : run'[q].tab \in {run[q].tab, None}
<1>1. RunsFit /\ TypeOK
  BY DEF Typed
<1>2. run[r].pc # "idle" /\ Fits(run[r]) /\ run[r].tab \in Tab /\ run[r] \in RunType
  <2>1. run[r].pc # "idle"
    BY DEF Step, Recall, FetchManifest, CheckReady, ReadPrior, PutRow, PutStaging,
       ReuseVerifiedPages, FetchPage, RecordProgress, PutVerifying, VerifyCompleteBook,
       PublishBook, PutFails, ProgressLost, RecordBookFailure, PutFailure, At
  <2> QED
    BY <1>1, <2>1, AtWork DEF Fits
<1> DEFINE Kept == RunsFit' /\ \A q \in Slot : run'[q].tab = run[q].tab
<1>3. ASSUME NEW x, Fits(x), x.tab = run[r].tab, run' = [run EXCEPT ![r] = x],
             UNCHANGED controller
      PROVE  Kept
  BY <1>1, <1>3, RunMoves
<1>4. ASSUME NEW status \in {"FAILED", "CANCELLED"}, run[r].pc \in Staging \cup {"manifest"},
             Fail(r, status), UNCHANGED controller
      PROVE  Kept
  BY <1>1, <1>4, FailFits
<1>5. CASE Recall(r)
  <2> DEFINE x == [run[r] EXCEPT !.pc = "manifest",
                        !.want = IF manifest = None THEN None ELSE manifest.version]
  <2>1. run' = [run EXCEPT ![r] = x] /\ UNCHANGED controller
    BY <1>5 DEF Recall, tabs
  <2>2. manifest # None => manifest.version \in Version \cup {0}
    BY <1>1 DEF TypeOK, Manifest
  <2>3. Fits(x) /\ x.tab = run[r].tab
    BY <1>2, <1>5, <2>2 DEF Recall, At, Fits, RunType, Statement, Staging
  <2> HIDE DEF x
  <2> QED
    BY <1>3, <2>1, <2>3
<1>6. CASE FetchManifest(r)
  <2> DEFINE v == Offered(run[r].want)
  <2> DEFINE x == [run[r] EXCEPT !.pc = "check", !.version = v]
  <2>1. CASE v \in 1 .. latest /\ run' = [run EXCEPT ![r].pc = "check", ![r].version = v]
    <3>1. v \in Version
      BY <1>1, <2>1 DEF TypeOK, Version
    <3> HIDE DEF v
    <3>2. Fits(x) /\ x.tab = run[r].tab
      BY <1>2, <1>6, <3>1 DEF FetchManifest, At, Fits, RunType, Statement, Staging
    <3>3. run' = [run EXCEPT ![r] = x] /\ UNCHANGED controller
      BY <1>6, <2>1 DEF FetchManifest, tabs
    <3> HIDE DEF x
    <3> QED
      BY <1>3, <3>2, <3>3
  <2> QED
    BY <1>4, <1>6, <2>1 DEF FetchManifest, At, tabs
<1>7. CASE CheckReady(r)
  BY <1>1, <1>2, <1>7, MoveFits, EndsFit DEF CheckReady, At, Fits, Staging, Statement, tabs
<1>8. CASE ReadPrior(r)
  <2> DEFINE x == [run[r] EXCEPT !.pc = "row",
                        !.prior = IF manifest = None THEN None ELSE manifest.active]
  <2>1. CASE run' = [run EXCEPT ![r].pc = "row",
                           ![r].prior = IF manifest = None THEN None ELSE manifest.active]
    <3>1. manifest # None => manifest.active \in Version \cup {None}
      BY <1>1 DEF TypeOK, Manifest
    <3>2. Fits(x) /\ x.tab = run[r].tab
      BY <1>2, <1>8, <3>1 DEF ReadPrior, At, Fits, RunType, Statement, Staging
    <3>3. run' = [run EXCEPT ![r] = x] /\ UNCHANGED controller
      BY <1>8, <2>1 DEF ReadPrior, tabs
    <3> HIDE DEF x
    <3> QED
      BY <1>3, <3>2, <3>3
  <2> QED
    BY <1>4, <1>8, <2>1 DEF ReadPrior, At, tabs, Staging
<1>9. CASE PutRow(r) \/ PutStaging(r) \/ PutVerifying(r)
  BY <1>1, <1>2, <1>9, MoveFits
     DEF PutRow, PutStaging, PutVerifying, PutManifest, At, Fits, Staging, Statement, tabs
<1>10. CASE ReuseVerifiedPages(r)
  <2> DEFINE x == [run[r] EXCEPT !.pc = "pages", !.todo = Page \ pages[run[r].version]]
  <2>1. run' = [run EXCEPT ![r] = x] /\ UNCHANGED controller
    BY <1>10 DEF ReuseVerifiedPages, tabs
  <2>2. Fits(x) /\ x.tab = run[r].tab
    BY <1>2, <1>10 DEF ReuseVerifiedPages, At, Fits, RunType, Statement, Staging
  <2> HIDE DEF x
  <2> QED
    BY <1>3, <2>1, <2>2
<1>11. CASE FetchPage(r)
  <2>1. PICK p \in run[r].todo :
          run' = [run EXCEPT ![r].todo = @ \ {p}, ![r].unrecorded = @ \cup {p}]
    BY <1>11 DEF FetchPage
  <2> DEFINE x == [run[r] EXCEPT !.todo = @ \ {p}, !.unrecorded = @ \cup {p}]
  <2>2. run' = [run EXCEPT ![r] = x] /\ UNCHANGED controller
    BY <1>1, <1>2, <1>11, <2>1 DEF FetchPage, tabs, RunsFit, RunType
  <2>3. Fits(x) /\ x.tab = run[r].tab
    <3> DEFINE todo == run[r].todo \ {p}
               unrecorded == run[r].unrecorded \cup {p}
               y == [run[r] EXCEPT !.todo = todo, !.unrecorded = unrecorded]
    <3>1. run[r] \in RunType /\ Fits(run[r]) /\ run[r].pc = "pages"
      BY <1>2, <1>11 DEF FetchPage, At, Fits
    <3>2. todo \in SUBSET Page /\ unrecorded \in SUBSET Page /\ x = y
      BY <3>1 DEF RunType
    <3> HIDE DEF x, todo, unrecorded
    <3>3. /\ y \in RunType /\ y.tab = run[r].tab /\ y.pc = run[r].pc
          /\ y.version = run[r].version /\ y.failed = run[r].failed
          /\ y.prior = run[r].prior /\ y.want = run[r].want
      BY <3>1, <3>2 DEF RunType
    <3> HIDE DEF y
    <3> QED
      BY ONLY <3>1, <3>2, <3>3 DEF Fits, Staging, Idle
  <2> HIDE DEF x
  <2> QED
    BY <1>3, <2>2, <2>3
<1>12. CASE RecordProgress(r)
  <2>1. PICK p \in run[r].unrecorded :
          LET rest == run[r].unrecorded \ {p}
          IN  run' = [run EXCEPT ![r].unrecorded = rest,
                ![r].pc = IF rest = {} /\ run[r].failed # None THEN "failing" ELSE "pages"]
    BY <1>12 DEF RecordProgress
  <2> DEFINE rest == run[r].unrecorded \ {p}
  <2> DEFINE x == [run[r] EXCEPT !.unrecorded = rest,
                !.pc = IF rest = {} /\ run[r].failed # None THEN "failing" ELSE "pages"]
  <2>2. run' = [run EXCEPT ![r] = x] /\ UNCHANGED controller
    BY <1>1, <1>2, <1>12, <2>1 DEF RecordProgress, PutManifest, RunsFit, RunType
  <2>3. rest \in SUBSET Page
    BY <1>2 DEF RunType
  <2> HIDE DEF rest
  <2>4. Fits(x) /\ x.tab = run[r].tab
    BY <1>2, <1>12, <2>3 DEF RecordProgress, At, Fits, RunType, Statement, Staging
  <2> HIDE DEF x
  <2> QED
    BY <1>3, <2>2, <2>4
<1>13. CASE VerifyCompleteBook(r)
  BY <1>1, <1>2, <1>4, <1>13, MoveFits
     DEF VerifyCompleteBook, At, Fits, Staging, Statement, tabs
<1>14. CASE PublishBook(r)
  BY <1>1, <1>2, <1>14, EndsFit DEF PublishBook
<1>15. CASE PutFails(r)
  BY <1>4, <1>15 DEF PutFails, Staging, tabs
<1>16. CASE ProgressLost(r)
  <2> DEFINE x == [run[r] EXCEPT !.unrecorded = {}, !.pc = "failing"]
  <2>1. run' = [run EXCEPT ![r] = x] /\ UNCHANGED controller
    BY <1>16 DEF ProgressLost, tabs
  <2>2. Fits(x) /\ x.tab = run[r].tab
    BY <1>2, <1>16 DEF ProgressLost, At, Fits, RunType, Statement, Staging
  <2> HIDE DEF x
  <2> QED
    BY <1>3, <2>1, <2>2
<1>17. CASE RecordBookFailure(r)
  <2> DEFINE x == [run[r] EXCEPT !.pc = "failed",
                     !.prior = IF manifest = None THEN None ELSE manifest.active,
                     !.version = AttemptedVersion(r)]
  <2>1. run' = [run EXCEPT ![r] = x] /\ UNCHANGED controller
    BY <1>17 DEF RecordBookFailure, tabs
  <2>2. manifest # None => manifest.active \in Version \cup {None} /\ manifest.version \in Version \cup {0}
    BY <1>1 DEF TypeOK, Manifest
  <2>3. AttemptedVersion(r) \in Version \cup {0}
    <3>1. run[r].version \in Version \cup {0, None} /\ run[r].want \in Version \cup {0, None}
      BY <1>2 DEF RunType
    <3> QED
      BY <2>2, <3>1 DEF AttemptedVersion
  <2> HIDE DEF AttemptedVersion
  <2>4. Fits(x) /\ x.tab = run[r].tab
    BY <1>2, <1>17, <2>2, <2>3 DEF RecordBookFailure, At, Fits, RunType, Statement, Staging
  <2> HIDE DEF x
  <2> QED
    BY <1>3, <2>1, <2>4
<1>18. CASE PutFailure(r)
  BY <1>1, <1>2, <1>18, EndsFit DEF PutFailure
<1> QED
  BY <1>5, <1>6, <1>7, <1>8, <1>9, <1>10, <1>11, <1>12, <1>13, <1>14, <1>15, <1>16, <1>17, <1>18
     DEF Step

LEMMA StepTyped ==
  ASSUME Typed, NEW r \in Slot, Step(r)
  PROVE  Typed'
<1>1. RunsFit'
  BY StepFits
<1>2. ControlsFit' /\ UNCHANGED <<open, latest, pinned, account, past, cancelling, removal>>
  BY DEF Step, Recall, FetchManifest, CheckReady, ReadPrior, PutRow, PutStaging,
     ReuseVerifiedPages, FetchPage, RecordProgress, PutVerifying, VerifyCompleteBook,
     PublishBook, PutFails, ProgressLost, RecordBookFailure, PutFailure, PutManifest, Ends,
     Typed, ControlsFit, world, past, tabs
<1>3. TypeOK /\ RunsFit
  BY DEF Typed
<1> DEFINE Kept == rows' \in [Version -> Row \cup {None}] /\ pages' \in [Version -> SUBSET Page]
                   /\ manifest' \in Manifest \cup {None} /\ shown' \in [Tab -> Status \cup {"IDLE"}]
<1> SUFFICES Kept
  BY <1>1, <1>2, <1>3 DEF Typed, TypeOK, RunsFit, past
<1>4. CASE UNCHANGED <<stored, shown>>
  BY <1>3, <1>4 DEF stored, TypeOK
<1>5. ASSUME NEW status \in Status, Show(r, status)
      PROVE  shown' \in [Tab -> Status \cup {"IDLE"}]
  BY <1>3, <1>5 DEF Show, TypeOK
<1>6. Status = {"STAGING", "VERIFYING", "FAILED", "READY", "CANCELLED"}
  BY DEF Status, Busy
<1>7. ASSUME At(r, "failed") \/ run[r].pc \in Staging
      PROVE  Fits(run[r]) /\ run[r] \in RunType
  BY <1>3, <1>7 DEF RunsFit
<1>8. CASE Recall(r) \/ FetchManifest(r) \/ ReadPrior(r) \/ ReuseVerifiedPages(r)
           \/ VerifyCompleteBook(r) \/ PutFails(r) \/ ProgressLost(r) \/ RecordBookFailure(r)
  BY <1>4, <1>8 DEF Recall, FetchManifest, ReadPrior, ReuseVerifiedPages, VerifyCompleteBook,
     PutFails, ProgressLost, RecordBookFailure, tabs
<1>9. CASE CheckReady(r)
  BY <1>3, <1>5, <1>6, <1>9 DEF CheckReady, Ends, TypeOK, stored, tabs
<1>10. CASE PutRow(r)
  BY <1>3, <1>10 DEF PutRow, TypeOK, Row, tabs
<1>11. ASSUME NEW status \in Status, run[r].pc \in Staging, PutManifest(r, status)
       PROVE  Kept
  <2>1. run[r].version \in Version /\ run[r].prior \in Version \cup {None}
    BY <1>7, <1>11 DEF Fits, RunType
  <2> QED
    BY <1>3, <1>5, <1>11, <2>1 DEF PutManifest, Manifest, TypeOK
<1>12. CASE PutStaging(r) \/ RecordProgress(r) \/ PutVerifying(r)
  BY <1>6, <1>11, <1>12 DEF PutStaging, RecordProgress, PutVerifying, At, Staging
<1>13. CASE FetchPage(r)
  <2>1. PICK p \in run[r].todo : pages' = [pages EXCEPT ![run[r].version] = @ \cup {p}]
    BY <1>13 DEF FetchPage
  <2>2. p \in Page
    BY <1>7, <1>13 DEF FetchPage, At, Staging, RunType
  <2>3. UNCHANGED <<rows, manifest, shown>>
    BY <1>13 DEF FetchPage, tabs
  <2>4. rows \in [Version -> Row \cup {None}] /\ pages \in [Version -> SUBSET Page]
        /\ manifest \in Manifest \cup {None} /\ shown \in [Tab -> Status \cup {"IDLE"}]
    BY <1>3 DEF TypeOK
  <2>5. pages' \in [Version -> SUBSET Page]
    <3> DEFINE v == run[r].version
               stored_v == pages[v] \cup {p}
    <3>1. pages' = [pages EXCEPT ![v] = stored_v]
      BY <2>1
    <3>2. v \in Version => stored_v \in SUBSET Page
      BY <2>2, <2>4
    <3> HIDE DEF v, stored_v
    <3> QED
      BY ONLY <2>4, <3>1, <3>2
  <2> QED
    BY ONLY <2>3, <2>4, <2>5 DEF Kept
<1>14. CASE PublishBook(r)
  <2>1. run[r].version \in Version
    BY <1>7, <1>14 DEF PublishBook, At, Staging, Fits
  <2>2. rows' \in [Version -> Row \cup {None}]
    <3>1. rows' = Published(run[r].version)
      BY <1>14 DEF PublishBook
    <3>2. ASSUME NEW w \in Version, rows[w] # None
          PROVE  [rows[w] EXCEPT !.active = FALSE] \in Row
      BY <1>3, <3>2, RowChange DEF TypeOK
    <3>3. [status |-> "READY", active |-> TRUE] \in Row
      BY DEF Row
    <3> QED
      BY <3>1, <3>2, <3>3 DEF Published
  <2> QED
    BY <1>3, <1>5, <1>6, <1>14, <2>1, <2>2 DEF PublishBook, Ends, Manifest, TypeOK
<1>15. CASE PutFailure(r)
  <2>1. /\ run[r].version \in Version \cup {0} /\ run[r].prior \in Version \cup {None}
        /\ run[r].failed \in Status
    BY <1>6, <1>7, <1>15 DEF PutFailure, At, Fits, RunType
  <2>2. [version |-> run[r].version, active |-> run[r].prior, status |-> run[r].failed] \in Manifest
    BY <2>1 DEF Manifest
  <2>3. manifest' \in Manifest \cup {None} /\ UNCHANGED <<rows, pages>>
    <3> DEFINE m == [version |-> run[r].version, active |-> run[r].prior, status |-> run[r].failed]
    <3>1. manifest' \in {m, manifest} /\ UNCHANGED <<rows, pages>>
      BY <1>15 DEF PutFailure
    <3> HIDE DEF m
    <3> QED
      BY <1>3, <2>2, <3>1 DEF m, TypeOK
  <2>4. Show(r, "FAILED")
    BY <1>15 DEF PutFailure, Ends
  <2> QED
    BY <1>3, <1>5, <1>6, <2>3, <2>4 DEF TypeOK
<1> QED
  BY <1>3, <1>8, <1>9, <1>10, <1>12, <1>13, <1>14, <1>15 DEF Step

LEMMA ControlTyped ==
  ASSUME Typed, NEW t \in Tab,
         CancelBookDownload(t) \/ RemoveBookDownload(t) \/ Control(t)
  PROVE  Typed' /\ \A r \in Slot : run'[r].tab = run[r].tab
<1>1. TypeOK /\ RunsFit /\ ControlsFit
  BY DEF Typed
<1>2. CASE CancelBookDownload(t)
  <2>1. RunsFit' /\ \A r \in Slot : run'[r].tab = run[r].tab
    <3>1. CASE controller[t] = None
      BY <1>1, <1>2, <3>1 DEF CancelBookDownload, RunsFit
    <3>2. CASE controller[t] # None
      <4> DEFINE r == controller[t]
      <4> DEFINE x == [run[r] EXCEPT !.aborted = TRUE]
      <4>1. r \in Slot /\ Fits(run[r]) /\ run[r].tab = t
        BY <1>1, <3>2 DEF RunsFit
      <4>2. Fits(x) /\ x.tab = run[r].tab
        BY <4>1 DEF Fits, RunType, Idle
      <4>3. run' = [run EXCEPT ![r] = x] /\ UNCHANGED controller
        BY <1>2, <3>2 DEF CancelBookDownload
      <4> HIDE DEF x, r
      <4> QED
        BY <1>1, <4>1, <4>2, <4>3, RunMoves
    <3> QED
      BY <3>1, <3>2
  <2>2. TypeOK' /\ ControlsFit'
    BY <1>1, <1>2 DEF CancelBookDownload, TypeOK, ControlsFit, Status, world, stored, past
  <2> QED
    BY <2>1, <2>2 DEF Typed
<1>3. CASE PutCancelled(t)
  <2>1. cancelling[t] \in Manifest
    BY <1>1, <1>3 DEF PutCancelled, ControlsFit
  <2>2. manifest' \in Manifest \cup {None}
    BY <1>1, <1>3, <2>1 DEF PutCancelled, TypeOK, Manifest, Status, Busy
  <2> QED
    BY <1>1, <1>3, <2>2 DEF PutCancelled, Typed, TypeOK, RunsFit, ControlsFit, Status, world, past
<1>4. CASE RemoveBookDownload(t)
  BY <1>1, <1>4 DEF RemoveBookDownload, Typed, TypeOK, RunsFit, ControlsFit, Removal, NoRows,
     NoPages, world, stored, past
<1>5. CASE ReadVersions(t) \/ ReadPages(t)
  <2>1. removal[t] \in Removal
    BY <1>1, <1>5 DEF ReadVersions, ReadPages, ControlsFit
  <2>2. /\ [removal[t] EXCEPT !.pc = "pages", !.rows = rows] \in Removal
        /\ [removal[t] EXCEPT !.pc = "commit", !.pages = pages] \in Removal
    BY <1>1, <2>1 DEF Removal, TypeOK
  <2>3. \E x \in Removal : removal' = [removal EXCEPT ![t] = x]
    <3>1. CASE ReadVersions(t)
      <4>1. removal' = [removal EXCEPT ![t] = [removal[t] EXCEPT !.pc = "pages", !.rows = rows]]
        BY <1>1, <3>1 DEF ReadVersions, ControlsFit
      <4> QED
        BY <2>2, <4>1
    <3>2. CASE ReadPages(t)
      <4>1. removal' = [removal EXCEPT ![t] = [removal[t] EXCEPT !.pc = "commit", !.pages = pages]]
        BY <1>1, <3>2 DEF ReadPages, ControlsFit
      <4> QED
        BY <2>2, <4>1
    <3> QED
      BY <1>5, <3>1, <3>2
  <2>4. ControlsFit'
    BY <1>1, <1>5, <2>3 DEF ReadVersions, ReadPages, ControlsFit
  <2> QED
    BY <1>1, <1>5, <2>4 DEF ReadVersions, ReadPages, Typed, TypeOK, RunsFit, world, stored, past
<1>7. CASE CommitRemoval(t)
  <2> DEFINE x == removal[t]
  <2>1. x \in Removal
    BY <1>1, <1>7 DEF CommitRemoval, ControlsFit
  <2>2. RemovalManifest(x) \in Manifest \cup {None}
    <3>1. CASE HighestRetained(x) = None
      BY <1>1, <3>1 DEF RemovalManifest, TypeOK, Manifest, Status
    <3>2. CASE HighestRetained(x) # None
      <4>1. HighestRetained(x) \in Version
        BY <2>1, <3>2, HighestRetainedComplete
      <4> QED
        BY <1>1, <4>1 DEF RemovalManifest, TypeOK, Manifest, Status
    <3> QED
      BY <3>1, <3>2
  <2>3. KeptPages(x) \in [Version -> SUBSET Page]
    BY <1>1 DEF KeptPages, TypeOK
  <2>4. rows' \in [Version -> Row \cup {None}]
    <3>1. x.rows \in [Version -> Row \cup {None}]
      BY <2>1 DEF Removal
    <3>2. CASE Mutable
      <4>1. rows' = [v \in Version |->
                     IF x.rows[v] = None THEN rows[v]
                     ELSE IF v \notin x.retain THEN None
                     ELSE [x.rows[v] EXCEPT !.active = (v = HighestRetained(x))]]
        BY <1>7, <3>2 DEF CommitRemoval
      <4>2. rows \in [Version -> Row \cup {None}]
        BY <1>1 DEF TypeOK
      <4> HIDE DEF x
      <4>3. ASSUME NEW v \in Version, x.rows[v] # None
            PROVE  [x.rows[v] EXCEPT !.active = (v = HighestRetained(x))] \in Row
        <5>1. x.rows[v] \in Row
          BY <3>1, <4>3
        <5> DEFINE b == (v = HighestRetained(x))
        <5>2. b \in BOOLEAN
          OBVIOUS
        <5> HIDE DEF b
        <5>3. [x.rows[v] EXCEPT !.active = b] \in Row
          BY <5>1, <5>2, RowChange
        <5> QED
          BY <5>3 DEF b
      <4> QED
        BY <4>1, <4>2, <4>3
    <3> QED
      BY <1>1, <1>7, <3>2 DEF CommitRemoval, TypeOK, stored
  <2>5. pages' \in [Version -> SUBSET Page] /\ manifest' \in Manifest \cup {None}
    BY <1>1, <1>7, <2>2, <2>3 DEF CommitRemoval, TypeOK, stored
  <2>6. TypeOK'
    BY <1>1, <1>7, <2>4, <2>5 DEF CommitRemoval, TypeOK, world, past
  <2> QED
    BY <1>1, <1>7, <2>6 DEF CommitRemoval, Typed, RunsFit, ControlsFit
<1> QED
  BY <1>2, <1>3, <1>4, <1>5, <1>7 DEF Control

LEMMA RestTyped ==
  ASSUME Typed,
         \/ \E t \in Tab : Reload(t)
         \/ PublishOnServer
         \/ \E v \in Version : Annotate(v)
         \/ SignOut \/ Wipe
         \/ UNCHANGED vars
  PROVE  Typed' /\ \A r \in Slot : run'[r].tab \in {run[r].tab, None}
<1>1. TypeOK /\ RunsFit /\ ControlsFit
  BY DEF Typed
<1>2. ASSUME NEW t \in Tab, Reload(t)
      PROVE  Typed' /\ \A r \in Slot : run'[r].tab \in {run[r].tab, None}
  <2>1. /\ run' = [r \in Slot |-> IF run[r].tab = t THEN Idle ELSE run[r]]
        /\ controller' = [controller EXCEPT ![t] = None]
    BY <1>2 DEF Reload
  <2>2. ASSUME NEW u \in Tab, controller'[u] # None
        PROVE  run'[controller'[u]].tab = u
    <3>1. u # t /\ controller'[u] = controller[u]
      BY <1>1, <2>1, <2>2 DEF RunsFit
    <3>2. controller[u] \in Slot /\ run[controller[u]].tab = u
      BY <1>1, <2>2, <3>1 DEF RunsFit
    <3> QED
      BY <2>1, <3>1, <3>2
  <2>3. RunsFit'
    BY <1>1, <2>1, <2>2, IdleFits DEF RunsFit
  <2>4. TypeOK' /\ ControlsFit'
    <3>1. manifest # None => manifest.status \in Status
      BY <1>1 DEF TypeOK, Manifest
    <3> QED
      BY <1>1, <1>2, <2>3, <3>1 DEF Reload, TypeOK, RunsFit, ControlsFit, world, stored
  <2> QED
    BY <2>1, <2>3, <2>4, IdleFits DEF Typed
<1>3. CASE PublishOnServer
  BY <1>1, <1>3 DEF PublishOnServer, Typed, TypeOK, RunsFit, ControlsFit, Version, stored, tabs, past
<1>4. ASSUME NEW v \in Version, Annotate(v)
      PROVE  Typed' /\ \A r \in Slot : run'[r].tab \in {run[r].tab, None}
  BY <1>1, <1>4 DEF Annotate, Typed, TypeOK, RunsFit, ControlsFit, stored, tabs, past
<1>5. CASE SignOut
  BY <1>1, <1>5 DEF SignOut, Typed, TypeOK, RunsFit, ControlsFit, stored, tabs, past
<1>6. CASE Wipe
  BY <1>1, <1>6 DEF Wipe, Typed, TypeOK, RunsFit, ControlsFit, tabs, past, NoRows, NoPages
<1>7. CASE UNCHANGED vars
  BY <1>1, <1>7 DEF vars, world, stored, tabs, past, Typed, TypeOK, RunsFit, ControlsFit
<1> QED
  BY <1>2, <1>3, <1>4, <1>5, <1>6, <1>7

LEMMA NextTyped == Typed /\ [Next]_vars => Typed'
<1> SUFFICES ASSUME Typed, [Next]_vars PROVE Typed'
  OBVIOUS
<1>1. ASSUME NEW r \in Slot, NEW t \in Tab, StartBookDownload(r, t) \/ RetryBookDownload(r, t)
      PROVE  Typed'
  BY <1>1, LaunchTyped DEF StartBookDownload, RetryBookDownload
<1> QED
  BY <1>1, StepTyped, ControlTyped, RestTyped DEF Next

(* Every reachable state of the downloads has its type, with any number of   *)
(* tabs, runs and versions: in particular the version a removal keeps is     *)
(* one of those it read, and a failure is recorded for a known version.      *)
THEOREM TypeCorrect == Spec => []TypeOK
<1>1. Spec => []Typed
  BY InitTyped, NextTyped, PTL DEF Spec
<1>2. Typed => TypeOK
  BY DEF Typed
<1> QED
  BY <1>1, <1>2, PTL

----
(* A sign-out is final: every later write is refused.                        *)

LEMMA WipedStep ==
  ASSUME WipedStaysEmpty, [Next]_vars
  PROVE  WipedStaysEmpty'
<1>1. CASE account = "wiped"
  <2>1. ASSUME NEW r \in Slot, Step(r) PROVE UNCHANGED <<stored, account>>
    BY <1>1, <2>1 DEF Step, Recall, FetchManifest, CheckReady, ReadPrior, PutRow, PutStaging,
       ReuseVerifiedPages, FetchPage, RecordProgress, PutVerifying, VerifyCompleteBook,
       PublishBook, PutFails, ProgressLost, RecordBookFailure, PutFailure, PutManifest,
       Mutable, stored, world
  <2>2. ASSUME NEW t \in Tab, Control(t) PROVE UNCHANGED <<stored, account>>
    BY <1>1, <2>2 DEF Control, PutCancelled, ReadVersions, ReadPages, CommitRemoval, Mutable,
       stored, world
  <2>3. UNCHANGED <<stored, account>>
    BY <1>1, <2>1, <2>2 DEF Next, StartBookDownload, RetryBookDownload, Launch,
       CancelBookDownload, RemoveBookDownload, Reload, PublishOnServer, Annotate, SignOut, Wipe,
       vars, world
  <2> QED
    BY <1>1, <2>3 DEF WipedStaysEmpty
<1>2. CASE account # "wiped"
  <2>1. account' = "wiped" => stored' = <<NoRows, NoPages, None>>
    <3>1. ASSUME NEW r \in Slot, Step(r) PROVE UNCHANGED account
      BY <3>1 DEF Step, Recall, FetchManifest, CheckReady, ReadPrior, PutRow, PutStaging,
         ReuseVerifiedPages, FetchPage, RecordProgress, PutVerifying, VerifyCompleteBook,
         PublishBook, PutFails, ProgressLost, RecordBookFailure, PutFailure, world
    <3>2. ASSUME NEW t \in Tab, Control(t) PROVE UNCHANGED account
      BY <3>2 DEF Control, PutCancelled, ReadVersions, ReadPages, CommitRemoval, world
    <3> QED
      BY <1>2, <3>1, <3>2 DEF Next, StartBookDownload, RetryBookDownload, Launch,
         CancelBookDownload, RemoveBookDownload, Reload, PublishOnServer, Annotate, SignOut, Wipe,
         vars, world, stored, NoRows, NoPages
  <2> QED
    BY <2>1 DEF WipedStaysEmpty, NoRows, NoPages
<1> QED
  BY <1>1, <1>2

(* With any number of tabs, whose runs may overlap: what a run, a cancel, a  *)
(* removal or a failure of any of them does after the wipe leaves nothing    *)
(* behind (assertPermit, guardWrite).                                        *)
THEOREM NothingAfterWipe == Spec => []WipedStaysEmpty
<1>1. Init => WipedStaysEmpty
  BY DEF Init, WipedStaysEmpty
<1> QED
  BY <1>1, WipedStep, PTL DEF Spec
----
(* One tab, whose runs have not overlapped: its run and its removal exclude  *)
(* each other, so that what either has read is still there when it uses it.  *)

LEMMA InitSeparate == Init => Separate
BY IdleFits DEF Init, Separate

(* An overlap is remembered.                                                 *)
LEMMA OverlapStays ==
  ASSUME [Next]_vars, ~ overlapped'
  PROVE  ~ overlapped /\ open' = open
<1>1. ASSUME NEW r \in Slot, Step(r) PROVE ~ overlapped /\ open' = open
  BY <1>1 DEF Step, Recall, FetchManifest, CheckReady, ReadPrior, PutRow, PutStaging,
     ReuseVerifiedPages, FetchPage, RecordProgress, PutVerifying, VerifyCompleteBook,
     PublishBook, PutFails, ProgressLost, RecordBookFailure, PutFailure, world, past
<1>2. ASSUME NEW t \in Tab, Control(t) PROVE ~ overlapped /\ open' = open
  BY <1>2 DEF Control, PutCancelled, ReadVersions, ReadPages, CommitRemoval, world, past
<1>3. ASSUME NEW r \in Slot, NEW t \in Tab, StartBookDownload(r, t) \/ RetryBookDownload(r, t)
      PROVE  ~ overlapped /\ open' = open
  BY <1>3 DEF StartBookDownload, RetryBookDownload, Launch, world
<1>4. ASSUME NEW t \in Tab, CancelBookDownload(t) \/ RemoveBookDownload(t) \/ Reload(t)
      PROVE  ~ overlapped /\ open' = open
  <2>1. CASE CancelBookDownload(t)
    BY <2>1 DEF CancelBookDownload, world, past
  <2>2. CASE RemoveBookDownload(t)
    BY <2>2 DEF RemoveBookDownload, world
  <2>3. CASE Reload(t)
    BY <2>3 DEF Reload, world
  <2> QED
    BY <1>4, <2>1, <2>2, <2>3
<1>5. CASE PublishOnServer \/ (\E v \in Version : Annotate(v)) \/ SignOut \/ Wipe \/ UNCHANGED vars
  BY <1>5 DEF PublishOnServer, Annotate, SignOut, Wipe, vars, world, past
<1> QED
  BY <1>1, <1>2, <1>3, <1>4, <1>5 DEF Next

LEMMA NextSeparate ==
  ASSUME Typed, ~ overlapped', Separate, [Next]_vars
  PROVE  Separate'
<1>1. ASSUME open' = open, \A r \in Slot : run'[r].tab \in {run[r].tab, None},
             \A t \in Tab : removal'[t] # None => removal[t] # None
      PROVE  Separate'
  BY <1>1 DEF Separate, Unwound
<1>2. RunsFit /\ ControlsFit
  BY DEF Typed
<1>3. ASSUME NEW r \in Slot, NEW t \in Tab, StartBookDownload(r, t) \/ RetryBookDownload(r, t)
      PROVE  Separate'
  <2>1. /\ t \in open /\ Unwound(t) /\ UNCHANGED <<open, removal>>
        /\ \E pc \in {"manifest", "recall"} :
             run' = [run EXCEPT ![r] = [Idle EXCEPT !.pc = pc, !.tab = t]]
    BY <1>3 DEF StartBookDownload, RetryBookDownload, Launch, world
  <2>2. run'[r].tab = t /\ \A q \in Slot \ {r} : run'[q] = run[q]
    BY <1>2, <2>1 DEF RunsFit, Idle
  <2> QED
    BY <2>1, <2>2 DEF Separate, Unwound
<1>4. ASSUME NEW r \in Slot, Step(r)
      PROVE  Separate'
  <2>1. UNCHANGED <<open, removal>>
    BY <1>4 DEF Step, Recall, FetchManifest, CheckReady, ReadPrior, PutRow, PutStaging,
       ReuseVerifiedPages, FetchPage, RecordProgress, PutVerifying, VerifyCompleteBook,
       PublishBook, PutFails, ProgressLost, RecordBookFailure, PutFailure, PutManifest, Ends,
       world, tabs
  <2> QED
    BY <1>1, <1>4, <2>1, StepFits
<1>5. ASSUME NEW t \in Tab, CancelBookDownload(t) \/ Control(t)
      PROVE  Separate'
  <2>1. open' = open /\ \A u \in Tab : removal'[u] # None => removal[u] # None
    BY <1>2, <1>5 DEF CancelBookDownload, Control, PutCancelled, ReadVersions, ReadPages,
       CommitRemoval, ControlsFit, world
  <2> QED
    BY <1>1, <1>5, <2>1, ControlTyped
<1>6. ASSUME NEW t \in Tab, RemoveBookDownload(t)
      PROVE  Separate'
  BY <1>2, <1>6 DEF RemoveBookDownload, Separate, Unwound, ControlsFit, world
<1>7. CASE \/ \E t \in Tab : Reload(t)
           \/ PublishOnServer
           \/ \E v \in Version : Annotate(v)
           \/ SignOut \/ Wipe
           \/ UNCHANGED vars
  <2>1. open' = open /\ \A u \in Tab : removal'[u] # None => removal[u] # None
    BY <1>2, <1>7 DEF Reload, PublishOnServer, Annotate, SignOut, Wipe, ControlsFit, world, tabs, vars
  <2> QED
    BY <1>1, <1>7, <2>1, RestTyped
<1> QED
  BY <1>3, <1>4, <1>5, <1>6, <1>7 DEF Next

LEMMA OneTab ==
  ASSUME Typed, Alone
  PROVE  \E u \in Tab : open = {u}
<1>1. IsFiniteSet(open)
  BY FS_Subset DEF Typed, TypeOK
<1> QED
  BY <1>1, FS_Singleton DEF Typed, TypeOK, Alone

LEMMA OneRun ==
  ASSUME Typed, Alone, Separate, NEW r \in Slot, run[r].pc # "idle"
  PROVE  /\ \A q \in Slot \ {r} : run[q] = Idle
         /\ \A t \in Tab : removal[t] = None
<1>1. PICK u \in Tab : open = {u}
  BY OneTab
<1>2. run[r].tab = u
  BY <1>1, AtWork DEF Separate, Typed
<1>3. \A q \in Slot \ {r} : run[q].tab = None
  BY <1>1, <1>2 DEF Separate
<1> QED
  BY <1>1, <1>2, <1>3 DEF Typed, RunsFit, Fits, Separate, Unwound

LEMMA OneRemoval ==
  ASSUME Typed, Alone, Separate, NEW t \in Tab, removal[t] # None
  PROVE  /\ \A q \in Slot : run[q] = Idle
         /\ \A u \in Tab \ {t} : removal[u] = None
<1>1. PICK u \in Tab : open = {u}
  BY OneTab
<1>2. t = u
  BY <1>1 DEF Separate
<1>3. \A q \in Slot : run[q].tab = None
  BY <1>1, <1>2 DEF Separate, Unwound
<1> QED
  BY <1>1, <1>2, <1>3 DEF Typed, RunsFit, Fits, Separate
----
(* In that tab, what is shown as saved can be opened.                        *)

LEMMA SavedStays ==
  ASSUME Saved, UNCHANGED stored
  PROVE  Saved'
BY DEF Saved, Active, Openable, OnlyActive, stored

(* The manifest is no longer READY, or stays as it was; the rows and pages stay. *)
LEMMA ManifestMoves ==
  ASSUME Saved, UNCHANGED <<rows, pages>>,
         manifest' = manifest \/ manifest'.status # "READY"
  PROVE  Saved'
BY DEF Saved, Active, Openable, OnlyActive

LEMMA StepSaved ==
  ASSUME Typed, Alone, Separate, Saved, account = "owner" => Read,
         NEW r \in Slot, Step(r)
  PROVE  Saved' /\ (account' = "owner" => Read')
<1>1. run[r].pc # "idle" /\ Fits(run[r]) /\ run \in [Slot -> RunType]
  <2>1. run[r].pc # "idle"
    BY DEF Step, Recall, FetchManifest, CheckReady, ReadPrior, PutRow, PutStaging,
       ReuseVerifiedPages, FetchPage, RecordProgress, PutVerifying, VerifyCompleteBook,
       PublishBook, PutFails, ProgressLost, RecordBookFailure, PutFailure, At
  <2> QED
    BY <2>1 DEF Typed, RunsFit
<1>2. /\ \A q \in Slot \ {r} : run[q] = Idle
      /\ \A t \in Tab : removal[t] = None
  BY <1>1, OneRun
<1>3. /\ \A q \in Slot \ {r} : run'[q] = run[q]
      /\ UNCHANGED <<account, removal>>
  BY <1>1 DEF Step, Recall, FetchManifest, CheckReady, ReadPrior, PutRow, PutStaging,
     ReuseVerifiedPages, FetchPage, RecordProgress, PutVerifying, VerifyCompleteBook,
     PublishBook, PutFails, ProgressLost, RecordBookFailure, PutFailure, PutManifest, Ends, Goto,
     Fail, world, tabs
<1>4. RemovalTrue'
  BY <1>2, <1>3 DEF RemovalTrue
<1>5. \A q \in Slot \ {r} : run'[q].pc = "idle"
  BY <1>2, <1>3 DEF Idle
<1>6. ASSUME run'[r].pc = "publish" => pages'[run'[r].version] = Page,
             run'[r].pc \in {"prior", "row"} /\ manifest' # None /\ manifest'.status = "READY"
               => manifest'.active # run'[r].version
      PROVE  Read'
  BY <1>4, <1>5, <1>6 DEF Read, PublishedWhole, NotTheReadyOne, At
<1>7. ASSUME run'[r].pc \notin {"publish", "prior", "row"} PROVE Read'
  BY <1>6, <1>7
<1>8. CASE Recall(r) \/ FetchManifest(r) \/ ReuseVerifiedPages(r) \/ PutFails(r)
           \/ ProgressLost(r) \/ RecordBookFailure(r)
  <2>1. run'[r].pc \in {"manifest", "check", "failing", "pages", "failed"} /\ UNCHANGED stored
    BY <1>1, <1>8 DEF Recall, FetchManifest, ReuseVerifiedPages, PutFails, ProgressLost,
       RecordBookFailure, Fail, RunType
  <2> QED
    BY <1>7, <2>1, SavedStays
<1>9. CASE CheckReady(r)
  <2>1. UNCHANGED stored
    BY <1>9 DEF CheckReady
  <2>2. \/ run'[r].pc = "idle"
        \/ /\ run'[r].pc = "prior" /\ run'[r].version = run[r].version
           /\ ~ (manifest # None /\ manifest.status = "READY" /\ manifest.active = run[r].version)
    BY <1>1, <1>9 DEF CheckReady, Ends, Goto, Idle, RunType
  <2> QED
    BY <1>6, <2>1, <2>2, SavedStays DEF stored
<1>10. CASE ReadPrior(r)
  <2>1. UNCHANGED stored
    BY <1>10 DEF ReadPrior
  <2>2. \/ run'[r].pc \in {"failing", "pages"}
        \/ run[r].pc = "prior" /\ run'[r].pc = "row" /\ run'[r].version = run[r].version
    BY <1>1, <1>10 DEF ReadPrior, Fail, At, RunType
  <2>3. account = "owner" /\ run[r].pc = "prior" /\ manifest # None /\ manifest.status = "READY"
          => manifest.active # run[r].version
    BY DEF Read, NotTheReadyOne
  <2> QED
    BY <1>3, <1>6, <1>7, <2>1, <2>2, <2>3, SavedStays DEF stored
<1>11. CASE PutRow(r)
  <2> DEFINE v == run[r].version
  <2>1. /\ At(r, "row") /\ account = "owner" /\ v \in Version
        /\ rows' = [rows EXCEPT ![v] = [status |-> "STAGED", active |-> FALSE]]
        /\ UNCHANGED <<pages, manifest>>
    BY <1>1, <1>11 DEF PutRow, Mutable, At, Fits, Staging
  <2>2. run'[r].pc = "staging"
    BY <1>1, <1>11 DEF PutRow, Goto, RunType
  <2>3. manifest # None /\ manifest.status = "READY" => manifest.active # v
    BY <2>1 DEF Read, NotTheReadyOne, At
  <2>4. rows \in [Version -> Row \cup {None}]
    BY DEF Typed, TypeOK
  <2> HIDE DEF v
  <2>5. Active' = Active \ {v} /\ Openable' = Openable \ {v}
    BY <2>1, <2>4 DEF Active, Openable
  <2>6. Saved'
    BY <2>1, <2>3, <2>5 DEF Saved, OnlyActive
  <2> QED
    BY <1>7, <2>2, <2>6
<1>12. CASE PutStaging(r) \/ RecordProgress(r) \/ PutVerifying(r)
  <2>1. UNCHANGED <<rows, pages>> /\ manifest'.status # "READY"
    BY <1>12 DEF PutStaging, RecordProgress, PutVerifying, PutManifest
  <2>2. run'[r].pc \in {"reuse", "failing", "pages", "verify"}
    <3>1. CASE RecordProgress(r)
      <4>1. PICK p \in run[r].unrecorded :
              LET rest == run[r].unrecorded \ {p}
              IN  run' = [run EXCEPT ![r].unrecorded = rest,
                    ![r].pc = IF rest = {} /\ run[r].failed # None THEN "failing" ELSE "pages"]
        BY <3>1 DEF RecordProgress
      <4> QED
        BY <1>1, <4>1 DEF RunType
    <3> QED
      BY <1>1, <1>12, <3>1 DEF PutStaging, PutVerifying, Goto, RunType
  <2> QED
    BY <1>7, <2>1, <2>2, ManifestMoves
<1>13. CASE FetchPage(r)
  <2>1. PICK p \in run[r].todo : pages' = [pages EXCEPT ![run[r].version] = @ \cup {p}]
    BY <1>13 DEF FetchPage
  <2>2. p \in Page /\ run'[r].pc = "pages" /\ UNCHANGED <<rows, manifest>>
    BY <1>1, <1>13 DEF FetchPage, At, RunType
  <2>3. \A v \in Version : pages[v] = Page => pages'[v] = Page
    BY <2>1, <2>2 DEF Typed, TypeOK
  <2>4. Active' = Active /\ Openable \subseteq Openable'
    BY <2>2, <2>3 DEF Active, Openable
  <2>5. Saved'
    BY <2>2, <2>4 DEF Saved, OnlyActive
  <2> QED
    BY <1>7, <2>2, <2>5
<1>14. CASE VerifyCompleteBook(r)
  <2>1. UNCHANGED stored
    BY <1>14 DEF VerifyCompleteBook
  <2>2. \/ run'[r].pc \in {"failing", "pages"}
        \/ /\ run'[r].pc = "publish" /\ run'[r].version = run[r].version
           /\ pages[run[r].version] = Page
    BY <1>1, <1>14 DEF VerifyCompleteBook, Goto, Fail, RunType
  <2> QED
    BY <1>6, <1>7, <2>1, <2>2, SavedStays DEF stored
<1>15. CASE PublishBook(r)
  <2> DEFINE v == run[r].version
  <2>1. /\ v \in Version /\ pages[v] = Page /\ rows' = Published(v) /\ UNCHANGED pages
        /\ manifest' = [version |-> v, active |-> v, status |-> "READY"]
    BY <1>1, <1>15 DEF PublishBook, Mutable, Read, PublishedWhole, At, Fits, Staging
  <2>2. run'[r].pc = "idle"
    BY <1>1, <1>15 DEF PublishBook, Ends, Idle
  <2>3. rows \in [Version -> Row \cup {None}]
    BY DEF Typed, TypeOK
  <2> HIDE DEF v
  <2>4. \A w \in Version \ {v} : rows'[w] # None => rows'[w].active = FALSE
    BY <2>1, <2>3 DEF Published, Row
  <2>5. rows'[v] = [status |-> "READY", active |-> TRUE] /\ rows'[v] # None
    <3>1. [status |-> "READY", active |-> TRUE] \in Row
      BY DEF Row
    <3> QED
      BY <2>1, <3>1, NoneIsNoRow DEF Published
  <2>6. Active' = {v}
    BY <2>1, <2>4, <2>5 DEF Active
  <2>7. Openable' = {v}
    BY <2>1, <2>6 DEF Openable
  <2>8. Saved'
    BY <2>1, <2>6, <2>7 DEF Saved, OnlyActive
  <2> QED
    BY <1>7, <2>2, <2>8
<1>16. CASE PutFailure(r)
  <2>1. run[r].failed # "READY"
    BY <1>1, <1>16 DEF PutFailure, At, Fits
  <2>2. UNCHANGED <<rows, pages>> /\ (manifest' = manifest \/ manifest'.status # "READY")
    BY <1>16, <2>1 DEF PutFailure
  <2>3. run'[r].pc = "idle"
    BY <1>1, <1>16 DEF PutFailure, Ends, Idle
  <2> QED
    BY <1>7, <2>2, <2>3, ManifestMoves
<1> QED
  BY <1>8, <1>9, <1>10, <1>11, <1>12, <1>13, <1>14, <1>15, <1>16 DEF Step
(* A removal in one tab finds the rows and pages it has read: the version it *)
(* keeps is whole, and no other stays active.                                *)
LEMMA RemovalSaved ==
  ASSUME Typed, Alone, Separate, Saved, account = "owner" => Read,
         NEW t \in Tab, CommitRemoval(t)
  PROVE  Saved' /\ (account' = "owner" => Read')
<1> DEFINE x == removal[t]
<1>1. x \in Removal /\ x # None /\ x.pc = "commit" /\ removal[t] # None
  BY DEF CommitRemoval, Typed, ControlsFit
<1>2. /\ \A q \in Slot : run[q] = Idle
      /\ \A u \in Tab \ {t} : removal[u] = None
  BY <1>1, OneRemoval
<1>3. /\ \A q \in Slot : run'[q].pc = "idle"
      /\ \A u \in Tab : removal'[u] = None
  BY <1>2 DEF CommitRemoval, Idle, Typed, ControlsFit
<1>4. Read'
  BY <1>3 DEF Read, PublishedWhole, NotTheReadyOne, RemovalTrue, At
<1>5. CASE ~ Mutable
  BY <1>4, <1>5, SavedStays DEF CommitRemoval, stored
<1>6. CASE Mutable
  <2> DEFINE v == HighestRetained(x)
  <2>1. x.rows = rows /\ x.pages = pages
    BY <1>1, <1>6 DEF Mutable, Read, RemovalTrue
  <2>2. rows' = [w \in Version |->
                   IF x.rows[w] = None THEN rows[w]
                   ELSE IF w \notin x.retain THEN None
                   ELSE [x.rows[w] EXCEPT !.active = (w = v)]]
    BY <1>6 DEF CommitRemoval
  <2>3. pages' = KeptPages(x) /\ manifest' = RemovalManifest(x)
    BY <1>6 DEF CommitRemoval
  <2>4. v # None => /\ v \in Version /\ v \in x.retain /\ rows[v] # None
                    /\ rows[v].status = "READY" /\ pages[v] = Page
    BY <1>1, <2>1, HighestRetainedComplete
  <2>5. /\ rows \in [Version -> Row \cup {None}]
        /\ manifest # None => manifest \in Manifest
    BY DEF Typed, TypeOK
  <2>6. manifest' # None /\ manifest'.status = "READY" => v # None /\ manifest'.active = v
    BY <2>3, <2>5 DEF RemovalManifest, Manifest
  <2> HIDE DEF v, x
  <2>7. Active' \subseteq {v}
    <3>1. ASSUME NEW w \in Version, w # v, rows'[w] # None
          PROVE  rows'[w].active = FALSE
      <4>1. rows'[w] = IF rows[w] = None THEN rows[w]
                       ELSE IF w \notin x.retain THEN None
                       ELSE [rows[w] EXCEPT !.active = FALSE]
        BY <2>1, <2>2, <3>1
      <4>2. rows'[w] = [rows[w] EXCEPT !.active = FALSE] /\ rows[w] \in Row
        BY <2>5, <3>1, <4>1
      <4> QED
        BY <4>2 DEF Row
    <3> QED
      BY <3>1 DEF Active
  <2>8. ASSUME v # None
        PROVE  v \in Openable'
    <3>1. rows[v] \in Row /\ rows'[v] = [rows[v] EXCEPT !.active = TRUE]
      BY <2>1, <2>2, <2>4, <2>5, <2>8
    <3>2. rows'[v] \in Row /\ rows'[v].status = "READY" /\ rows'[v].active
      BY <2>4, <2>8, <3>1 DEF Row
    <3>3. pages'[v] = Page
      BY <2>3, <2>4, <2>8 DEF KeptPages
    <3> QED
      BY <2>4, <2>8, <3>2, <3>3, NoneIsNoRow DEF Active, Openable
  <2>9. None \notin Active'
    BY DEF Active
  <2>10. Saved'
    BY <2>6, <2>7, <2>8, <2>9 DEF Saved, OnlyActive
  <2> QED
    BY <1>4, <2>10
<1> QED
  BY <1>5, <1>6

LEMMA NextSaved ==
  ASSUME Typed, Alone, Separate, Saved, account = "owner" => Read, [Next]_vars
  PROVE  Saved' /\ (account' = "owner" => Read')
<1>1. run \in [Slot -> RunType] /\ removal \in [Tab -> Removal \cup {None}] /\ RunsFit
  BY DEF Typed, RunsFit, ControlsFit
<1>2. ASSUME UNCHANGED <<rows, pages>>, account' = "owner" => account = "owner",
             manifest' = manifest \/ manifest'.status # "READY",
             \A r \in Slot : run'[r].pc \in {"publish", "prior", "row"}
               => run'[r].pc = run[r].pc /\ run'[r].version = run[r].version,
             \A t \in Tab : removal'[t] # None =>
               removal'[t] = removal[t] \/ removal'[t].pc = "rows"
      PROVE  Saved' /\ (account' = "owner" => Read')
  BY <1>2, ManifestMoves DEF Read, PublishedWhole, NotTheReadyOne, RemovalTrue, At
<1>3. ASSUME NEW r \in Slot, NEW t \in Tab, StartBookDownload(r, t) \/ RetryBookDownload(r, t)
      PROVE  Saved' /\ (account' = "owner" => Read')
  <2>1. PICK pc \in {"manifest", "recall"} :
          run' = [run EXCEPT ![r] = [Idle EXCEPT !.pc = pc, !.tab = t]]
    BY <1>3 DEF StartBookDownload, RetryBookDownload, Launch
  <2>2. run'[r].pc = pc /\ \A q \in Slot \ {r} : run'[q] = run[q]
    BY <1>1, <2>1 DEF Idle
  <2>3. UNCHANGED <<stored, account, removal>>
    BY <1>3 DEF StartBookDownload, RetryBookDownload, Launch, world
  <2>4. \A q \in Slot : run'[q].pc \in {"publish", "prior", "row"}
           => run'[q].pc = run[q].pc /\ run'[q].version = run[q].version
    BY <2>1, <2>2
  <2> QED
    BY <1>2, <2>3, <2>4 DEF stored
<1>4. ASSUME NEW r \in Slot, Step(r)
      PROVE  Saved' /\ (account' = "owner" => Read')
  BY <1>4, StepSaved
<1>5. ASSUME NEW t \in Tab, CancelBookDownload(t)
      PROVE  Saved' /\ (account' = "owner" => Read')
  <2>1. \A r \in Slot : run'[r].pc = run[r].pc /\ run'[r].version = run[r].version
    BY <1>1, <1>5 DEF CancelBookDownload, RunType
  <2> QED
    BY <1>2, <1>5, <2>1 DEF CancelBookDownload, stored, world
<1>6. ASSUME NEW t \in Tab, PutCancelled(t)
      PROVE  Saved' /\ (account' = "owner" => Read')
  <2>1. manifest' = manifest \/ manifest'.status # "READY"
    BY <1>6 DEF PutCancelled, Typed, ControlsFit, Manifest
  <2> QED
    BY <1>2, <1>6, <2>1 DEF PutCancelled, world
<1>7. ASSUME NEW t \in Tab, RemoveBookDownload(t)
      PROVE  Saved' /\ (account' = "owner" => Read')
  BY <1>1, <1>2, <1>7 DEF RemoveBookDownload, stored, world
<1>8. ASSUME NEW t \in Tab, ReadVersions(t) \/ ReadPages(t)
      PROVE  Saved' /\ (account' = "owner" => Read')
  <2>1. UNCHANGED <<stored, account, run>>
    BY <1>8 DEF ReadVersions, ReadPages, world
  <2>2. removal[t] \in Removal
    BY <1>1, <1>8 DEF ReadVersions, ReadPages
  <2>3. ASSUME account = "owner"
        PROVE  RemovalTrue'
    <3> DEFINE y == [removal[t] EXCEPT !.pc = "pages", !.rows = rows]
    <3> DEFINE z == [removal[t] EXCEPT !.pc = "commit", !.pages = pages]
    <3>1. \/ removal' = [removal EXCEPT ![t] = y]
          \/ /\ removal[t].pc = "pages" /\ removal[t] # None
             /\ removal' = [removal EXCEPT ![t] = z]
      BY <1>1, <1>8 DEF ReadVersions, ReadPages
    <3>2. y.pc = "pages" /\ y.rows = rows /\ z.rows = removal[t].rows /\ z.pages = pages
      BY <2>2 DEF Removal
    <3> HIDE DEF y, z
    <3>3. /\ removal'[t].pc \in {"pages", "commit"} => removal'[t].rows = rows
          /\ removal'[t].pc = "commit" => removal'[t].pages = pages
      BY <1>1, <2>3, <3>1, <3>2 DEF Read, RemovalTrue
    <3>4. \A u \in Tab \ {t} : removal'[u] = removal[u]
      BY <1>1, <3>1
    <3> QED
      BY <2>1, <2>3, <3>3, <3>4 DEF Read, RemovalTrue, stored
  <2> QED
    BY <2>1, <2>3, SavedStays DEF Read, PublishedWhole, NotTheReadyOne, At, stored
<1>9. ASSUME NEW t \in Tab, Reload(t)
      PROVE  Saved' /\ (account' = "owner" => Read')
  BY <1>1, <1>2, <1>9 DEF Reload, Idle, stored, world
<1>10. CASE \/ PublishOnServer
            \/ \E v \in Version : Annotate(v)
            \/ SignOut
            \/ UNCHANGED vars
  BY <1>2, <1>10 DEF PublishOnServer, Annotate, SignOut, vars, stored, tabs, world
<1>11. CASE Wipe
  BY <1>11 DEF Wipe, Saved, Active, Openable, OnlyActive, NoRows
<1> QED
  BY <1>3, <1>4, <1>5, <1>6, <1>7, <1>8, <1>9, <1>10, <1>11, RemovalSaved DEF Next, Control
LEMMA InitIInv == Init => IInv
<1> SUFFICES ASSUME Init PROVE IInv
  OBVIOUS
<1>1. Saved
  BY DEF Init, Saved, Active, Openable, OnlyActive, NoRows
<1>2. Read
  BY IdleFits DEF Init, Read, PublishedWhole, NotTheReadyOne, RemovalTrue, At, Idle
<1> QED
  BY <1>1, <1>2, InitTyped, InitSeparate DEF IInv

LEMMA NextIInv == IInv /\ [Next]_vars => IInv'
<1> SUFFICES ASSUME IInv, [Next]_vars PROVE IInv'
  OBVIOUS
<1>1. Typed'
  BY NextTyped DEF IInv
<1>2. ASSUME ~ overlapped'
      PROVE  Separate' /\ (InTurn' => InTurn)
  BY <1>2, OverlapStays, NextSeparate DEF IInv, InTurn, Alone
<1>3. ASSUME InTurn'
      PROVE  Saved' /\ (account' = "owner" => Read')
  BY <1>2, <1>3, OverlapStays, NextSaved DEF IInv, InTurn
<1> QED
  BY <1>1, <1>2, <1>3 DEF IInv, InTurn

LEMMA IInvariance == Spec => []IInv
BY InitIInv, NextIInv, PTL DEF Spec

(* In one tab, for as long as none of its runs and removals has begun while  *)
(* another was under way, every reload, cancel, failure and removal leaves   *)
(* at most one version active.                                               *)
THEOREM OneIsActive == Spec => []OneActive
<1>1. ASSUME IInv, InTurn PROVE Cardinality(Active) <= 1
  <2>1. CASE Active = {}
    BY <2>1, FS_EmptySet
  <2>2. CASE Active # {}
    <3>1. PICK v : Active = {v}
      BY <1>1, <2>2 DEF IInv, Saved, OnlyActive
    <3>2. Cardinality({v}) = 1
      BY FS_Singleton
    <3> QED
      BY <3>1, <3>2
  <2> QED
    BY <2>1, <2>2
<1>2. IInv => OneActive
  BY <1>1 DEF OneActive
<1> QED
  BY <1>2, IInvariance, PTL

(* In one tab, for as long as its runs and removals have not overlapped, a   *)
(* manifest that says READY names a version that is READY, active and stored *)
(* to its last page.                                                         *)
THEOREM SavedIsOpenable == Spec => []ReadyIsOpenable
<1>1. IInv => ReadyIsOpenable
  BY DEF IInv, Saved, ReadyIsOpenable
<1> QED
  BY <1>1, IInvariance, PTL

(* In one tab, for as long as its runs and removals have not overlapped, the *)
(* reader finds every page of a version that is active.                      *)
THEOREM ActiveIsWhole == Spec => []ActiveIsOpenable
<1>1. IInv => ActiveIsOpenable
  BY DEF IInv, Saved, ActiveIsOpenable
<1> QED
  BY <1>1, IInvariance, PTL

----
(* What a version that can be opened may be lost to.                         *)

LostTo(v) ==
  \/ Openable' # {}
  \/ account' = "wiped"
  \/ removal' # removal
  \/ Restaged(v)

LEMMA StepKeepsPrior ==
  ASSUME IInv, IInv', InTurn, [Next]_vars,
         NEW v \in Openable \ Openable'
  PROVE  LostTo(v)
<1>1. Typed
  BY DEF IInv
<1>2. ~ UNCHANGED <<rows, pages>>
  BY DEF Openable, Active
<1>3. ASSUME NEW r \in Slot, Step(r)
      PROVE  LostTo(v)
  <2>1. CASE PutRow(r)
    <3>1. run[r].version \in Version /\ At(r, "row")
      BY <1>1, <2>1 DEF PutRow, At, Typed, RunsFit, Fits, Staging
    <3>2. v \in Version /\ pages' = pages /\ (v # run[r].version => rows'[v] = rows[v])
      BY <1>1, <2>1 DEF PutRow, Openable, Active, Typed, TypeOK
    <3>3. v = run[r].version
      BY <3>2 DEF Openable, Active
    <3> QED
      BY <3>1, <3>3 DEF LostTo, Restaged
  <2>2. CASE FetchPage(r)
    <3>1. PICK p \in run[r].todo : pages' = [pages EXCEPT ![run[r].version] = @ \cup {p}]
      BY <2>2 DEF FetchPage
    <3>2. p \in Page /\ rows' = rows
      BY <1>1, <2>2 DEF FetchPage, Typed, RunsFit, RunType
    <3>3. v \in Active' /\ pages'[v] = Page
      BY <1>1, <3>1, <3>2 DEF Openable, Active, Typed, TypeOK
    <3> QED
      BY <3>3 DEF Openable
  <2>3. CASE PublishBook(r)
    <3>1. run[r].version \in Version /\ rows' = Published(run[r].version)
      BY <1>1, <2>3 DEF PublishBook, At, Typed, RunsFit, Fits, Staging
    <3>2. run[r].version \in Active'
      <4>1. [status |-> "READY", active |-> TRUE] \in Row
        BY DEF Row
      <4> QED
        BY <3>1, <4>1, NoneIsNoRow DEF Published, Active
    <3>3. InTurn'
      BY <2>3 DEF PublishBook, InTurn, Alone, world, past
    <3>4. run[r].version \in Openable'
      BY <3>2, <3>3 DEF IInv, Saved
    <3> QED
      BY <3>4 DEF LostTo
  <2> QED
    BY <1>2, <1>3, <2>1, <2>2, <2>3 DEF Step, Recall, FetchManifest, CheckReady, ReadPrior,
       PutStaging, ReuseVerifiedPages, RecordProgress, PutVerifying, VerifyCompleteBook,
       PutFails, ProgressLost, RecordBookFailure, PutFailure, PutManifest, stored
<1>4. ASSUME NEW t \in Tab, Control(t)
      PROVE  LostTo(v)
  <2>1. CASE CommitRemoval(t)
    BY <1>1, <2>1 DEF CommitRemoval, LostTo, Typed, ControlsFit
  <2> QED
    BY <1>2, <1>4, <2>1 DEF Control, PutCancelled, ReadVersions, ReadPages, stored
<1>5. CASE Wipe
  BY <1>5 DEF Wipe, LostTo
<1> QED
  BY <1>2, <1>3, <1>4, <1>5 DEF Next, StartBookDownload, RetryBookDownload, Launch,
     CancelBookDownload, RemoveBookDownload, Reload, PublishOnServer, Annotate, SignOut, vars,
     stored

(* In one tab, for as long as its runs and removals have not overlapped, a   *)
(* version the reader can open is lost only to a removal, a sign-out, a      *)
(* newer version published whole, or a new download of that very version.    *)
THEOREM PriorKept == Spec => KeepsPrior
<1>1. ASSUME IInv, IInv', [Next]_vars
      PROVE  InTurn => \A v \in Openable \ Openable' :
               \/ Openable' # {}
               \/ account' = "wiped"
               \/ removal' # removal
               \/ Restaged(v)
  BY <1>1, StepKeepsPrior DEF LostTo
<1> QED
  BY <1>1, IInvariance, PTL DEF Spec, KeepsPrior
=============================================================================
