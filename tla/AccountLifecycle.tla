-------------------------- MODULE AccountLifecycle --------------------------
(* Who owns one browser profile.  Its tabs share the lifecycle record, the  *)
(* sign-out barrier, the deferred-logout marker and the private data in     *)
(* IndexedDB, one refresh cookie, and one cross-tab lock; each has an       *)
(* in-memory owner and access token.  Sign-in, refresh, boot, sign-out and  *)
(* recovery run as processes, one step per awaited statement; reads that    *)
(* follow each other without a write between them are one step.             *)
EXTENDS Naturals, FiniteSets

CONSTANTS
  Tab,
  Slots,       \* bound: asynchronous flows under way at once
  Subject,     \* verified JWT subjects
  MaxStarts,   \* bound, by the tabs open: flows a user or a timer starts
  MaxAbandons, \* bound, by the tabs open: abandoned sign-outs beyond those
  MaxReloads,  \* bound, by the tabs open: pages crashed or reloaded
  None

ASSUME AccountAssumption ==
  /\ Slots \in Nat
  /\ None \notin Subject \cup Tab
  /\ IsFiniteSet(Tab)
  /\ MaxStarts \in [SUBSET Tab -> Nat]
  /\ MaxAbandons \in [SUBSET Tab -> Nat]
  /\ MaxReloads \in [SUBSET Tab -> Nat]

VARIABLES
  open,      \* the tabs that are open
  record,    \* the durable lifecycle record: [subject, epoch]
  barrier,   \* the durable sign-out barrier, or None
  deferred,  \* the durable deferred-logout marker, or None
  data,      \* what IndexedDB holds of each subject
  cookie,    \* whose refresh cookie the browser holds
  live,      \* the subjects whose session of this browser is not revoked
  memory,    \* what each tab holds in memory
  edit,      \* a permitted write of a tab that has not committed yet
  process,
  boots,     \* tabs whose boot effect has not run yet
  notices,   \* tabs an account-exit message is on its way to
  starts,    \* flows started
  reloads,
  torn       \* history: the record was written over a change its writer had not seen

durable == <<record, barrier, deferred, data>>
session == <<cookie, live>>
mail    == <<boots, notices, starts, reloads>>
vars == <<open, durable, session, memory, edit, process, mail, torn>>

Process == 1 .. Slots

Mark    == [subject : Subject, epoch : Nat]
Owner   == [subject : Subject \cup {None}, epoch : Nat]

ASSUME NoneIsNoOwner == None \notin Owner

ASSUME NoneIsNoFlow ==
  None \notin {"signin", "refresh", "boot", "notice", "exit", "abandon", "resume"}

Content == {"none", "synced", "unsynced"}

Fresh == [owner |-> None, mismatch |-> FALSE, authRequired |-> FALSE,
          freezing |-> FALSE, token |-> None]

Idle == [pc |-> "idle", tab |-> None, flow |-> None, locked |-> FALSE,
         after |-> "end", subject |-> None, epoch |-> 0, mark |-> None,
         role |-> None, mode |-> None, settled |-> FALSE, deferredSeen |-> FALSE,
         seen |-> [subject |-> None, epoch |-> 0]]

Init ==
  /\ open \in (SUBSET Tab) \ {{}}
  /\ record = [subject |-> None, epoch |-> 0]
  /\ barrier = None
  /\ deferred = None
  /\ data = [s \in Subject |-> "none"]
  /\ cookie = None
  /\ live = {}
  /\ memory = [t \in Tab |-> Fresh]
  /\ edit = [t \in Tab |-> None]
  /\ process = [p \in Process |-> Idle]
  /\ boots = open
  /\ notices = {}
  /\ starts = 0
  /\ reloads = 0
  /\ torn = FALSE

----
(* The cross-tab lock, permits and the fence.  An operator named Op_Change *)
(* is Op after a plausible mistake; no specification here uses it.         *)

(* withAuthLifecycleLock: a flow waits for another tab's; one that finds a  *)
(* flow of its own tab inside goes along, without holding the lock itself. *)
MayLock(p, t) == \A q \in Process \ {p} : process[q].locked => process[q].tab = t

Unlocked == \A q \in Process : ~ process[q].locked

(* writePermit and requireReplayIdentity.                                  *)
MayWrite(m) ==
  m.owner # None /\ ~ m.mismatch /\ ~ m.authRequired /\ ~ m.freezing

(* guardWrite: a write of a past owner or epoch is refused.                *)
Fenced(owner) == record # owner

Exiting_Deferred == deferred # None

Exiting == barrier # None \/ deferred # None

Restored(m, verified) ==
  IF record.subject = None THEN m
  ELSE [m EXCEPT !.owner = record,
                 !.mismatch = IF verified = None THEN m.mismatch
                              ELSE verified # record.subject]

(* AccountContext.establish: another subject, another epoch.               *)
Established(seen, s) ==
  IF seen.subject = s THEN seen ELSE [subject |-> s, epoch |-> seen.epoch + 1]

----
(* Processes.                                                              *)

At(p, pc) == process[p].pc = pc

TabOf(p) == process[p].tab

Here(p) == memory[TabOf(p)]

Goto(p, pc) ==
  process' = [process EXCEPT ![p] = IF pc = "end" THEN Idle ELSE [process[p] EXCEPT !.pc = pc]]

Remember(p, m) == memory' = [memory EXCEPT ![TabOf(p)] = m]

(* A flow takes the first free slot.  A tab has at most one flow of a kind  *)
(* under way (refreshPromise; the form and the prompt are disabled while    *)
(* they run; a second notice waits), beside any number of other kinds.      *)
Available(p, t, flow) ==
  /\ t \in open
  /\ process[p] = Idle
  /\ \A q \in 1 .. p - 1 : process[q] # Idle
  /\ \A q \in Process : process[q].tab = t => process[q].flow # flow

CountStart == starts < MaxStarts[open] /\ starts' = starts + 1

NewFlow(t, flow, pc, after, s, locked) ==
  [pc |-> pc, tab |-> t, flow |-> flow, locked |-> locked, after |-> after, subject |-> s,
   epoch |-> 0, mark |-> None, role |-> None, mode |-> None, settled |-> FALSE,
   deferredSeen |-> FALSE, seen |-> [subject |-> None, epoch |-> 0]]

Launch(p, t, flow, pc, after, s, locked) ==
  process' = [process EXCEPT ![p] = NewFlow(t, flow, pc, after, s, locked)]

(* Submitting the sign-in or registration form.                            *)
SignIn(p, t, s) ==
  /\ Available(p, t, "signin")
  /\ MayLock(p, t)
  /\ CountStart
  /\ Launch(p, t, "signin", "login", "hydrated", s, Unlocked)
  /\ UNCHANGED <<open, durable, session, memory, edit, boots, notices, reloads, torn>>

(* refreshTokens and bootstrapAuth; a bootstrap restores the owner first.   *)
Refresh(p, t) ==
  /\ Available(p, t, "refresh")
  /\ MayLock(p, t)
  /\ CountStart
  /\ Launch(p, t, "refresh", "origin", "gate", None, Unlocked)
  /\ UNCHANGED <<open, durable, session, memory, edit, boots, notices, reloads, torn>>

Bootstrap(p, t) ==
  /\ Available(p, t, "refresh")
  /\ memory[t].token = None
  /\ CountStart
  /\ Launch(p, t, "refresh", "hydrate", "bootstrap", None, FALSE)
  /\ UNCHANGED <<open, durable, session, memory, edit, boots, notices, reloads, torn>>

BootstrapLocks(p) ==
  /\ At(p, "bootstrap")
  /\ MayLock(p, TabOf(p))
  /\ process' = [process EXCEPT ![p].pc = "origin", ![p].after = "gate", ![p].locked = Unlocked]
  /\ UNCHANGED <<open, durable, session, memory, edit, mail, torn>>

(* The boot effect of a page: an interrupted sign-out is resumed.          *)
Boot(p, t) ==
  /\ t \in boots
  /\ Available(p, t, "boot")
  /\ MayLock(p, t)
  /\ Launch(p, t, "boot", "resume", "end", None, Unlocked)
  /\ boots' = boots \ {t}
  /\ UNCHANGED <<open, durable, session, memory, edit, notices, starts, reloads, torn>>

(* The message of another tab's sign-out: hydrate, without the lock.       *)
HearExit(p, t) ==
  /\ t \in notices
  /\ Available(p, t, "notice")
  /\ Launch(p, t, "notice", "hydrate", "end", None, FALSE)
  /\ notices' = notices \ {t}
  /\ UNCHANGED <<open, durable, session, memory, edit, boots, starts, reloads, torn>>

(* requestAccountExit.                                                     *)
RequestExit(p, t) ==
  /\ Available(p, t, "exit")
  /\ CountStart
  /\ Launch(p, t, "exit", "hydrate", "begin", None, FALSE)
  /\ UNCHANGED <<open, durable, session, memory, edit, boots, notices, reloads, torn>>

(* abandonDeferredLogout, confirmed on a prompt that saw a barrier or a    *)
(* marker; it takes no lock.                                               *)
Abandon(p, t) ==
  /\ Available(p, t, "abandon")
  /\ Exiting
  /\ starts < MaxStarts[open] + MaxAbandons[open]
  /\ starts' = starts + 1
  /\ Launch(p, t, "abandon", "abandon", "end", None, FALSE)
  /\ UNCHANGED <<open, durable, session, memory, edit, boots, notices, reloads, torn>>

----
(* hydrate and resumeExit.                                                 *)

(* Only a refresh hydrates with the subject it verified.                   *)
Verified(pr) == IF pr.flow = "refresh" THEN pr.subject ELSE None

Hydrate(p) ==
  /\ At(p, "hydrate")
  /\ IF Exiting
       THEN Goto(p, "resume") /\ UNCHANGED memory
       ELSE /\ Remember(p, Restored(Here(p), Verified(process[p])))
            /\ Goto(p, process[p].after)
  /\ UNCHANGED <<open, durable, session, edit, mail, torn>>

LatestMark == IF deferred # None THEN deferred ELSE barrier

Resume(p) ==
  /\ At(p, "resume")
  /\ IF Exiting
       THEN process' = [process EXCEPT ![p].pc = "invalidate", ![p].role = "resume",
                          ![p].mark = LatestMark, ![p].deferredSeen = deferred # None]
       ELSE Goto(p, process[p].after)
  /\ UNCHANGED <<open, durable, session, memory, edit, mail, torn>>

AfterInvalidation_NoDefer(pr, settled) ==
  IF pr.role = "exit" \/ settled THEN "wipe" ELSE pr.after

AfterInvalidation(pr, settled) ==
  IF pr.role = "exit" \/ settled THEN "wipe"
  ELSE IF pr.deferredSeen THEN pr.after ELSE "defer"

Invalidated(pr, settled) ==
  LET next == AfterInvalidation(pr, settled)
  IN  IF next = "end" THEN Idle ELSE [pr EXCEPT !.pc = next, !.settled = settled]

(* POST /auth/logout, under the lock: revoked and confirmed; revoked with   *)
(* the answer lost; refused, with the cookie cleared (also without one);   *)
(* not sent.  Flows of the tab that ask meanwhile share the one request.   *)
Invalidate(p) ==
  /\ At(p, "invalidate")
  /\ MayLock(p, TabOf(p))
  /\ \E settled \in BOOLEAN,
        joined \in SUBSET {q \in Process : At(q, "invalidate") /\ TabOf(q) = TabOf(p)} :
       /\ \/ cookie # None /\ live' = live \ {cookie} /\ cookie' = None
          \/ ~ settled /\ cookie' = None /\ UNCHANGED live
          \/ ~ settled /\ UNCHANGED session
       /\ process' = [q \in Process |-> IF q \in joined \cup {p}
                                        THEN Invalidated(process[q], settled) ELSE process[q]]
  /\ UNCHANGED <<open, durable, memory, edit, mail, torn>>

(* clearLocalData: the subject's records in one transaction, whose failure  *)
(* is swallowed, and this tab's access token.                              *)
Wipe(p) ==
  LET pr == process[p]
  IN  /\ At(p, "wipe")
      /\ data' \in {data, [data EXCEPT ![pr.mark.subject] = "none"]}
      /\ Remember(p, [Here(p) EXCEPT !.token = None])
      /\ Goto(p, IF pr.role # "exit" THEN "undefer" ELSE IF pr.settled THEN "unbar" ELSE "defer")
      /\ UNCHANGED <<open, record, barrier, deferred, session, edit, mail, torn>>

Defer(p) ==
  /\ At(p, "defer")
  /\ deferred' = process[p].mark
  /\ Goto(p, IF process[p].role = "exit" THEN "notify" ELSE process[p].after)
  /\ UNCHANGED <<open, record, barrier, data, session, memory, edit, mail, torn>>

ClearDeferred(p) ==
  /\ At(p, "undefer")
  /\ deferred' = None
  /\ Goto(p, IF process[p].role = "exit" THEN "notify" ELSE "unbar")
  /\ UNCHANGED <<open, record, barrier, data, session, memory, edit, mail, torn>>

ClearBarrier(p) ==
  /\ At(p, "unbar")
  /\ barrier' = None
  /\ Goto(p, IF process[p].role = "exit" THEN "undefer" ELSE process[p].after)
  /\ UNCHANGED <<open, record, deferred, data, session, memory, edit, mail, torn>>

AbandonReads(p) ==
  /\ At(p, "abandon")
  /\ process' = [process EXCEPT ![p].mark = LatestMark, ![p].role = "abandon",
                                ![p].pc = IF Exiting THEN "wipe" ELSE "undefer"]
  /\ UNCHANGED <<open, durable, session, memory, edit, mail, torn>>

----
(* Sign-in and refresh.                                                    *)

(* The server opens a session and the browser stores its cookie, or the    *)
(* credentials are refused.                                                *)
Login(p) ==
  /\ At(p, "login")
  /\ \/ /\ live' = live \cup {process[p].subject}
        /\ cookie' = process[p].subject
        /\ Goto(p, "hydrate")
     \/ Goto(p, "end") /\ UNCHANGED session
  /\ UNCHANGED <<open, durable, memory, edit, mail, torn>>

(* completeLocalAuth hydrates, and activateIdentity hydrates again.        *)
HydrateAgain(p) ==
  /\ At(p, "hydrated")
  /\ process' = [process EXCEPT ![p].pc = "hydrate", ![p].after = "gate"]
  /\ UNCHANGED <<open, durable, session, memory, edit, mail, torn>>

(* captureOriginEpoch.                                                     *)
CaptureEpoch(p) ==
  LET owner == Here(p).owner
  IN  /\ At(p, "origin")
      /\ process' = [process EXCEPT ![p].pc = "refresh",
                       ![p].epoch = IF owner # None THEN owner.epoch ELSE record.epoch]
      /\ UNCHANGED <<open, durable, session, memory, edit, mail, torn>>

SignedOff(m) == [m EXCEPT !.authRequired = TRUE, !.token = None]

(* POST /auth/refresh: rotated; rejected, which pauses the tab; rotated    *)
(* with the answer lost, so that the next use of the cookie is a reuse; or *)
(* not reached.                                                            *)
CallRefresh(p) ==
  /\ At(p, "refresh")
  /\ \/ /\ cookie \in live
        /\ process' = [process EXCEPT ![p].pc = "hydrate", ![p].subject = cookie]
        /\ UNCHANGED <<memory, live>>
     \/ /\ cookie \notin live
        /\ Remember(p, SignedOff(Here(p)))
        /\ Goto(p, "end")
        /\ UNCHANGED live
     \/ /\ live' = live \ {cookie}
        /\ Goto(p, "end")
        /\ UNCHANGED memory
     \/ Goto(p, "end") /\ UNCHANGED <<memory, live>>
  /\ UNCHANGED <<open, durable, cookie, edit, mail, torn>>

(* establishIdentity refuses while a sign-out is unfinished.               *)
Gated == deferred # None \/ barrier # None

(* A refresh must still be of the persisted epoch; no flow replaces the    *)
(* owner this tab knows.                                                   *)
Acceptable(p) ==
  LET owner == Here(p).owner
  IN  /\ ~ Gated
      /\ process[p].flow = "refresh" => process[p].epoch = record.epoch
      /\ owner # None => owner.subject = process[p].subject

Gate(p) ==
  /\ At(p, "gate")
  /\ Goto(p, IF Acceptable(p) THEN "establish" ELSE "end")
  /\ UNCHANGED <<open, durable, session, memory, edit, mail, torn>>

(* establish reads the record...                                           *)
EstablishReads(p) ==
  /\ At(p, "establish")
  /\ process' = [process EXCEPT ![p].pc = "establishing", ![p].seen = record]
  /\ Remember(p, [Here(p) EXCEPT !.authRequired = FALSE])
  /\ UNCHANGED <<open, durable, session, edit, mail, torn>>

Tears(p) == torn' = (torn \/ record # process[p].seen)

(* ...writes it, and the token is installed with the ticket.               *)
Establish(p) ==
  LET s   == process[p].subject
      new == Established(process[p].seen, s)
  IN  /\ At(p, "establishing")
      /\ record' = new
      /\ Tears(p)
      /\ Remember(p, [Here(p) EXCEPT !.owner = new, !.mismatch = FALSE, !.token = s])
      /\ Goto(p, "end")
      /\ UNCHANGED <<open, barrier, deferred, data, session, edit, mail>>

----
(* Sign-out.                                                               *)

Complete(p, mode) == process' = [process EXCEPT ![p].pc = "exitlock", ![p].mode = mode]

BeginExit(p) ==
  LET m == Here(p)
  IN  /\ At(p, "begin")
      /\ IF m.owner = None /\ ~ m.freezing
           THEN Complete(p, "drained") /\ UNCHANGED memory
           ELSE Goto(p, "work") /\ Remember(p, [m EXCEPT !.freezing = TRUE])
      /\ UNCHANGED <<open, durable, session, edit, mail, torn>>

(* controlledDrain counts what is queued; it sends nothing.                *)
FullyDrained(m) == m.owner # None /\ data[m.owner.subject] # "unsynced"

ReadWork(p) ==
  /\ At(p, "work")
  /\ IF FullyDrained(Here(p)) THEN Complete(p, "drained") ELSE Goto(p, "dialog")
  /\ UNCHANGED <<open, durable, session, memory, edit, mail, torn>>

Choose(p) ==
  /\ At(p, "dialog")
  /\ \/ \E mode \in {"sync", "discard"} : Complete(p, mode) /\ UNCHANGED memory
     \/ /\ Goto(p, "end")
        /\ Remember(p, [Here(p) EXCEPT !.freezing = FALSE])
  /\ UNCHANGED <<open, durable, session, edit, mail, torn>>

ExitLocks(p) ==
  /\ At(p, "exitlock")
  /\ MayLock(p, TabOf(p))
  /\ process' = [process EXCEPT ![p].pc = "complete", ![p].locked = Unlocked]
  /\ UNCHANGED <<open, durable, session, memory, edit, mail, torn>>

(* completeExit without an owner only drops a barrier nobody is owed, in a  *)
(* step of its own.                                                        *)
CompleteExit(p) ==
  LET owner == Here(p).owner
  IN  /\ At(p, "complete")
      /\ Remember(p, [Here(p) EXCEPT !.freezing = owner # None])
      /\ IF owner # None
           THEN process' = [process EXCEPT ![p].mark = owner, ![p].role = "exit",
                     ![p].pc = IF process[p].mode = "sync" THEN "check" ELSE "bar"]
         ELSE IF deferred # None THEN Goto(p, "end")
         ELSE process' = [process EXCEPT ![p].pc = "unbar", ![p].after = "end"]
      /\ UNCHANGED <<open, durable, session, edit, mail, torn>>

(* Unsynced work: the dialog asks again, the tab stays frozen.             *)
CheckDrained(p) ==
  /\ At(p, "check")
  /\ IF FullyDrained(Here(p))
       THEN Goto(p, "bar")
       ELSE Launch(p, TabOf(p), "exit", "hydrate", "begin", None, FALSE)
  /\ UNCHANGED <<open, durable, session, memory, edit, mail, torn>>

PersistBarrier(p) ==
  /\ At(p, "bar")
  /\ barrier' = process[p].mark
  /\ Goto(p, "clear")
  /\ UNCHANGED <<open, record, deferred, data, session, memory, edit, mail, torn>>

Cleared_KeepsEpoch(seen) == [subject |-> None, epoch |-> seen.epoch]

Cleared(seen) == [subject |-> None, epoch |-> seen.epoch + 1]

(* AccountContext.clear reads the record and writes it.                    *)
ClearReads(p) ==
  /\ At(p, "clear")
  /\ process' = [process EXCEPT ![p].pc = "clearing", ![p].seen = record]
  /\ UNCHANGED <<open, durable, session, memory, edit, mail, torn>>

ClearOwner(p) ==
  /\ At(p, "clearing")
  /\ record' = Cleared(process[p].seen)
  /\ Tears(p)
  /\ Remember(p, [Here(p) EXCEPT !.owner = None, !.mismatch = FALSE,
                                 !.authRequired = FALSE, !.freezing = FALSE])
  /\ Goto(p, "invalidate")
  /\ UNCHANGED <<open, barrier, deferred, data, session, edit, mail>>

Notify(p) ==
  /\ At(p, "notify")
  /\ notices' = notices \cup (open \ {TabOf(p)})
  /\ Goto(p, "end")
  /\ UNCHANGED <<open, durable, session, memory, edit, boots, starts, reloads, torn>>

----
(* Private writes, replay, and pages that go away.                         *)

(* A write asks for its permit...                                          *)
BeginEdit(t) ==
  /\ edit[t] = None
  /\ MayWrite(memory[t])
  /\ edit' = [edit EXCEPT ![t] = memory[t].owner]
  /\ UNCHANGED <<open, durable, session, memory, process, mail, torn>>

(* ...and commits later, behind the fence.                                 *)
CommitEdit(t) ==
  /\ edit[t] # None
  /\ edit' = [edit EXCEPT ![t] = None]
  /\ data' = IF Fenced(edit[t]) THEN data
             ELSE [data EXCEPT ![edit[t].subject] = "unsynced"]
  /\ UNCHANGED <<open, record, barrier, deferred, session, memory, process, mail, torn>>

(* The outbox of the owner is replayed with the tab's access token.        *)
Replay(t) ==
  LET m == memory[t]
  IN  /\ MayWrite(m)
      /\ m.token # None
      /\ data[m.owner.subject] = "unsynced"
      /\ data' = [data EXCEPT ![m.owner.subject] = "synced"]
      /\ UNCHANGED <<open, record, barrier, deferred, session, memory, edit, process, mail, torn>>

(* A page is closed, crashes or reloads in the middle of anything.         *)
Reload(t) ==
  /\ t \in open
  /\ reloads < MaxReloads[open]
  /\ reloads' = reloads + 1
  /\ memory' = [memory EXCEPT ![t] = Fresh]
  /\ edit' = [edit EXCEPT ![t] = None]
  /\ process' = [p \in Process |-> IF TabOf(p) = t THEN Idle ELSE process[p]]
  /\ boots' = boots \cup {t}
  /\ notices' = notices \ {t}
  /\ UNCHANGED <<open, durable, session, starts, torn>>

----

Resuming(p) ==
  \/ Hydrate(p) \/ Resume(p) \/ Invalidate(p) \/ Wipe(p) \/ Defer(p)
  \/ ClearDeferred(p) \/ ClearBarrier(p) \/ AbandonReads(p)

SigningIn(p) ==
  \/ BootstrapLocks(p) \/ Login(p) \/ HydrateAgain(p) \/ CaptureEpoch(p)
  \/ CallRefresh(p) \/ Gate(p) \/ EstablishReads(p) \/ Establish(p)

SigningOut(p) ==
  \/ BeginExit(p) \/ ReadWork(p) \/ Choose(p) \/ ExitLocks(p) \/ CompleteExit(p)
  \/ CheckDrained(p) \/ PersistBarrier(p) \/ ClearReads(p) \/ ClearOwner(p) \/ Notify(p)

Start(p, t) ==
  \/ \E s \in Subject : SignIn(p, t, s)
  \/ Refresh(p, t) \/ Bootstrap(p, t) \/ RequestExit(p, t) \/ Abandon(p, t)

React(p, t) == Boot(p, t) \/ HearExit(p, t)

Step(p) == Resuming(p) \/ SigningIn(p) \/ SigningOut(p)

Next ==
  \/ \E p \in Process, t \in Tab : Start(p, t) \/ React(p, t)
  \/ \E p \in Process : Step(p)
  \/ \E t \in Tab : BeginEdit(t) \/ CommitEdit(t) \/ Replay(t) \/ Reload(t)

Spec == Init /\ [][Next]_vars

(* Awaited statements return, a page that was loaded runs its boot effect, *)
(* and a message to an open page is delivered.                             *)
FairSpec ==
  /\ Spec
  /\ \A p \in Process : WF_vars(Step(p)) /\ WF_vars(\E t \in Tab : React(p, t))

----
(* Properties.                                                             *)

Memory == [owner : Mark \cup {None}, mismatch : BOOLEAN, authRequired : BOOLEAN,
           freezing : BOOLEAN, token : Subject \cup {None}]

Flow == {"signin", "refresh", "boot", "notice", "exit", "abandon", None}

Role == {"exit", "resume", "abandon", None}

Statement ==
  {"idle", "hydrate", "resume", "invalidate", "wipe", "defer", "undefer", "unbar",
   "abandon", "login", "hydrated", "origin", "refresh", "bootstrap", "gate",
   "establish", "establishing", "begin", "work", "dialog", "exitlock", "complete", "check", "bar",
   "clear", "clearing", "notify"}

Return == {"end", "hydrated", "gate", "bootstrap", "begin"}

Local == [pc : Statement, tab : Tab \cup {None}, flow : Flow, locked : BOOLEAN,
          after : Return, subject : Subject \cup {None}, epoch : Nat,
          mark : Mark \cup {None}, role : Role, mode : {"drained", "sync", "discard", None},
          settled : BOOLEAN, deferredSeen : BOOLEAN, seen : Owner]

Cleaning(pr) ==
  pr.pc \in {"invalidate", "wipe", "defer", "check", "bar", "clear", "clearing"}

Identified(pr) ==
  \/ pr.pc \in {"login", "hydrated", "gate", "establish", "establishing"}
  \/ pr.after \in {"hydrated", "gate"} /\ pr.pc \notin {"origin", "refresh"}

(* A running flow is in a tab, a flow that establishes has a verified      *)
(* subject, and one that cleans up knows for whom.                         *)
Sound(pr) ==
  /\ pr \in Local
  /\ pr.pc # "idle" => pr.tab \in Tab
  /\ Identified(pr) => pr.subject \in Subject
  /\ Cleaning(pr) => pr.mark \in Mark

(* Every variable has its type, and every flow is sound.                   *)
TypeOK ==
  /\ open \subseteq Tab
  /\ record \in Owner
  /\ barrier \in Mark \cup {None}
  /\ deferred \in Mark \cup {None}
  /\ data \in [Subject -> Content]
  /\ cookie \in Subject \cup {None}
  /\ live \subseteq Subject
  /\ memory \in [Tab -> Memory]
  /\ edit \in [Tab -> Mark \cup {None}]
  /\ process \in [Process -> Local]
  /\ \A p \in Process : Sound(process[p])
  /\ boots \subseteq Tab
  /\ notices \subseteq Tab
  /\ starts \in Nat
  /\ reloads \in Nat
  /\ torn \in BOOLEAN

(* Every owner, permit and mark anybody still holds.                       *)
Marks ==
  ({barrier, deferred} \cup {memory[t].owner : t \in Tab} \cup {edit[t] : t \in Tab}
   \cup {process[p].mark : p \in Process}) \ {None}

(* No epoch has two owners: whoever holds a mark of the current epoch      *)
(* holds the current owner, so the fence refuses every write that was      *)
(* permitted before a sign-out or for another subject (AccountContext:     *)
(* "advances on every owner change so stale in-flight writes are fenced"), *)
(* unless a flow wrote the record over a change it had not seen.           *)
EpochNamesOwner ==
  ~ torn => \A m \in Marks : m.epoch <= record.epoch /\ (m.epoch = record.epoch => m = record)

(* A flow that, unless its page goes away, lifts the barrier, leaves the    *)
(* marker of a deferred sign-out, or tells another page.                   *)
Resolves(pr) ==
  \/ pr.pc \in {"hydrate", "resume", "abandon", "clear", "clearing", "wipe", "defer", "unbar"}
  \/ pr.pc = "undefer" /\ pr.role # "exit"
  \/ pr.pc = "invalidate" /\ (pr.role = "exit" \/ ~ pr.deferredSeen)
  \/ pr.pc = "notify" /\ open # {pr.tab}

(* However sign-outs, boots, sign-ins and other tabs interleave, and       *)
(* whichever pages go away in the middle of them: a barrier without the    *)
(* marker of a deferred sign-out is in somebody's hands.  A flow resolves  *)
(* it, or a page has yet to run the boot effect or to hear of the sign-out *)
(* (hydrate, resumeExit, notifyOtherTabs).                                 *)
BarrierInHand ==
  barrier # None /\ deferred = None =>
    boots \cup notices # {} \/ \E p \in Process : Resolves(process[p])

(* A barrier is not for ever: the sign-out completes, is resumed, or       *)
(* becomes a deferred one that the recovery prompt offers to abandon       *)
(* (hydrate: "a crash cannot leave activation blocked forever").           *)
ExitResolves == barrier # None ~> barrier = None \/ deferred # None

(* AccountContext.restore: a stale owner "can therefore never report READY *)
(* under a subject the verified session no longer owns".                   *)
ReplayAsOwner ==
  \A t \in Tab : MayWrite(memory[t]) /\ memory[t].token # None
     => memory[t].token = memory[t].owner.subject

----
(* What the comments say and the code does not do.                         *)

(* CompleteExitOptions.drained: "new writes cannot land, so the drain      *)
(* re-check is skipped".  A sign-out nobody chose to discard work with     *)
(* deletes no edit that has not been synced.                               *)
DrainedLosesNothing ==
  [][\A p \in Process :
       /\ At(p, "wipe")
       /\ process[p].role = "exit"
       /\ process[p].mode # "discard"
       /\ process'[p].pc # "wipe"
       /\ data[process[p].mark.subject] = "unsynced"
       => data'[process[p].mark.subject] = "unsynced"]_<<process, data>>

(* completeExit: "activation can never become eligible while old-subject   *)
(* data ... is still live": private data belongs to the owner or to a      *)
(* sign-out that is still marked.                                          *)
WipedBeforeEligible ==
  \A s \in Subject : data[s] # "none" =>
     s = record.subject \/ \E m \in {barrier, deferred} \ {None} : m.subject = s

(* installIdentity: a pending exit "blocks EVERY activation path, including *)
(* a delayed epoch-tagged refresh/login result".                           *)
NoActivationWhileExiting ==
  [][record'.subject # None /\ record' # record => ~ Exiting]_record

(* AccountContext: the epoch "advances on every owner change so stale      *)
(* in-flight writes are fenced".                                           *)
EpochAdvances == [][record'.epoch > record.epoch]_record
=============================================================================
