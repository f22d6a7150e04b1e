----------------------- MODULE AccountLifecycle_proofs -----------------------
(* Proofs about AccountLifecycle for every finite set of tabs, every set of *)
(* subjects and every bound: types, the owner of an epoch, and that a       *)
(* standing barrier is in somebody's hands.                                 *)
EXTENDS AccountLifecycle, FiniteSetTheorems, TLAPS

USE AccountAssumption

----
(* Flows.                                                                  *)

LEMMA Names ==
  /\ "login" \in Statement /\ "origin" \in Statement /\ "hydrate" \in Statement
  /\ "resume" \in Statement /\ "abandon" \in Statement /\ "hydrated" \in Statement
  /\ "gate" \in Statement /\ "bootstrap" \in Statement /\ "begin" \in Statement
  /\ \A a \in Return : a \in Statement \cup {"end"}
  /\ "end" \in Return /\ "hydrated" \in Return /\ "gate" \in Return
  /\ "bootstrap" \in Return /\ "begin" \in Return
  /\ "signin" \in Flow /\ "refresh" \in Flow /\ "boot" \in Flow
  /\ "notice" \in Flow /\ "exit" \in Flow /\ "abandon" \in Flow
BY DEF Statement, Flow, Return

LEMMA IdleSound == Sound(Idle)
BY DEF Return, Sound, Idle, Local, Flow, Role, Statement, Cleaning, Identified, Owner

(* A running flow moves to a statement it is ready for.                    *)
LEMMA MoveSound ==
  ASSUME NEW pr, Sound(pr), pr.pc # "idle", NEW pc \in Statement,
         pr.pc \notin {"origin", "refresh"},
         pc \in {"login", "hydrated", "gate", "establish", "establishing"} => pr.subject \in Subject,
         pc \in {"invalidate", "wipe", "defer", "check", "bar", "clear", "clearing"} => pr.mark \in Mark
  PROVE  /\ Sound([pr EXCEPT !.pc = pc])
         /\ [pr EXCEPT !.pc = pc].mark = pr.mark
BY DEF Sound, Local, Statement, Cleaning, Identified

LEMMA LaunchSound ==
  ASSUME NEW pc \in Statement, pc # "idle", NEW t \in Tab, NEW flow \in Flow,
         NEW after \in Return, NEW s \in Subject \cup {None},
         NEW locked \in BOOLEAN,
         pc \in {"origin", "refresh"} \/ after \notin {"hydrated", "gate"} \/ s \in Subject,
         pc \notin {"hydrated", "gate", "login", "establish", "establishing"} \/ s \in Subject,
         pc \notin {"invalidate", "wipe", "defer", "check", "bar", "clear", "clearing"}
  PROVE  Sound(NewFlow(t, flow, pc, after, s, locked))
<1> DEFINE r == NewFlow(t, flow, pc, after, s, locked)
<1>1. r \in Local
  BY DEF NewFlow, Local, Role, Owner
<1>2. r.pc = pc /\ r.tab = t /\ r.subject = s /\ r.after = after
  BY DEF NewFlow
<1> QED
  BY <1>1, <1>2 DEF Sound, Cleaning, Identified

(* One flow changes.                                                       *)
LEMMA FlowChange ==
  ASSUME TypeOK, NEW p \in Process, NEW r, Sound(r),
         process' = [process EXCEPT ![p] = r]
  PROVE  /\ process' \in [Process -> Local]
         /\ \A q \in Process : Sound(process'[q])
BY DEF TypeOK, Sound

LEMMA GotoKeeps ==
  ASSUME TypeOK, NEW p \in Process, process[p].pc # "idle",
         NEW pc \in Statement \cup {"end"}, Goto(p, pc),
         process[p].pc \in {"origin", "refresh"} => pc = "end",
         pc \in {"login", "hydrated", "gate", "establish", "establishing"} => process[p].subject \in Subject,
         pc \in {"invalidate", "wipe", "defer", "check", "bar", "clear", "clearing"}
           => process[p].mark \in Mark
  PROVE  /\ process' \in [Process -> Local]
         /\ \A q \in Process : Sound(process'[q])
<1>1. Sound(process[p])
  BY DEF TypeOK
<1>2. CASE pc = "end"
  BY <1>2, IdleSound, FlowChange DEF Goto
<1>3. CASE pc # "end"
  BY <1>1, <1>3, MoveSound, FlowChange DEF Goto
<1> QED
  BY <1>2, <1>3

LEMMA ReturnKeeps ==
  ASSUME TypeOK, NEW p \in Process, process[p].pc \notin {"idle", "origin", "refresh"},
         Goto(p, process[p].after)
  PROVE  /\ process' \in [Process -> Local]
         /\ \A q \in Process : Sound(process'[q])
<1>1. process[p].after \in Return
  BY DEF TypeOK, Local
<1>2. process[p].after \in {"hydrated", "gate"} => process[p].subject \in Subject
  BY DEF TypeOK, Sound, Identified
<1> QED
  BY <1>1, <1>2, Names, GotoKeeps DEF Return

----
(* Type correctness.                                                       *)

LEMMA InitType == Init => TypeOK
<1> SUFFICES ASSUME Init PROVE TypeOK
  OBVIOUS
<1>1. process \in [Process -> Local] /\ \A p \in Process : Sound(process[p])
  BY IdleSound DEF Init, Sound
<1>2. memory \in [Tab -> Memory]
  BY DEF Init, Memory, Fresh
<1> QED
  BY <1>1, <1>2 DEF Init, TypeOK, Owner, Content

LEMMA UnlockedType == Unlocked \in BOOLEAN
BY DEF Unlocked

LEMMA StartType ==
  ASSUME TypeOK, NEW p \in Process, NEW t \in Tab, Start(p, t) \/ React(p, t)
  PROVE  TypeOK'
<1> DEFINE Flows == process' \in [Process -> Local] /\ \A q \in Process : Sound(process'[q])
<1>1. Flows
  <2>1. ASSUME NEW s \in Subject, SignIn(p, t, s) PROVE Flows
    BY <2>1, Names, UnlockedType, LaunchSound, FlowChange DEF SignIn, Launch
  <2>2. CASE Refresh(p, t)
    BY <2>2, Names, UnlockedType, LaunchSound, FlowChange DEF Refresh, Launch
  <2>3. CASE Bootstrap(p, t)
    BY <2>3, Names, LaunchSound, FlowChange DEF Bootstrap, Launch
  <2>4. CASE RequestExit(p, t)
    BY <2>4, Names, LaunchSound, FlowChange DEF RequestExit, Launch
  <2>5. CASE Abandon(p, t)
    BY <2>5, Names, LaunchSound, FlowChange DEF Abandon, Launch
  <2>6. CASE Boot(p, t)
    BY <2>6, Names, UnlockedType, LaunchSound, FlowChange DEF Boot, Launch
  <2>7. CASE HearExit(p, t)
    BY <2>7, Names, LaunchSound, FlowChange DEF HearExit, Launch
  <2> QED
    BY <2>1, <2>2, <2>3, <2>4, <2>5, <2>6, <2>7 DEF Start, React
<1>2. UNCHANGED <<open, durable, session, memory, edit, torn>>
  BY Zenon DEF Start, React, SignIn, Refresh, Bootstrap, RequestExit, Abandon, Boot, HearExit
<1>3. boots' \subseteq Tab /\ notices' \subseteq Tab /\ starts' \in Nat /\ reloads' \in Nat
  <2>1. CASE Start(p, t)
    <3>1. starts' = starts + 1 /\ UNCHANGED <<boots, notices, reloads>>
      BY <2>1, Zenon DEF Start, SignIn, Refresh, Bootstrap, RequestExit, Abandon, CountStart
    <3> QED
      BY <3>1 DEF TypeOK
  <2>2. CASE React(p, t)
    BY <2>2 DEF React, Boot, HearExit, TypeOK
  <2> QED
    BY <2>1, <2>2
<1> QED
  BY <1>1, <1>2, <1>3 DEF TypeOK, durable, session
(* A step of a flow keeps the types of everything else.                    *)
Flows == process \in [Process -> Local] /\ \A q \in Process : Sound(process[q])

Others ==
  /\ open \subseteq Tab
  /\ record \in Owner
  /\ barrier \in Mark \cup {None}
  /\ deferred \in Mark \cup {None}
  /\ data \in [Subject -> Content]
  /\ cookie \in Subject \cup {None}
  /\ live \subseteq Subject
  /\ memory \in [Tab -> Memory]
  /\ edit \in [Tab -> Mark \cup {None}]
  /\ boots \subseteq Tab
  /\ notices \subseteq Tab
  /\ starts \in Nat
  /\ reloads \in Nat
  /\ torn \in BOOLEAN

LEMMA TypeSplit == TypeOK <=> Flows /\ Others
BY DEF TypeOK, Flows, Others

(* What a flow at a statement has.                                         *)
LEMMA AtFacts ==
  ASSUME TypeOK, NEW p \in Process, process[p].pc # "idle"
  PROVE  /\ TabOf(p) \in Tab
         /\ Here(p) \in Memory
         /\ Sound(process[p])
         /\ process[p].after \in Return
         /\ process[p].mark \in Mark \cup {None}
         /\ process[p].subject \in Subject \cup {None}
         /\ process[p].seen \in Owner
BY DEF TypeOK, Sound, Local, TabOf, Here

LEMMA RememberKeeps ==
  ASSUME TypeOK, NEW p \in Process, NEW m \in Memory, Remember(p, m)
  PROVE  memory' \in [Tab -> Memory]
BY DEF TypeOK, Remember

LEMMA LatestMarkType ==
  ASSUME TypeOK, Exiting
  PROVE  LatestMark \in Mark
BY DEF TypeOK, Exiting, LatestMark

LEMMA RestoredType ==
  ASSUME TypeOK, NEW m \in Memory, NEW v \in Subject \cup {None}
  PROVE  Restored(m, v) \in Memory
<1>1. CASE record.subject = None
  BY <1>1 DEF Restored
<1>2. CASE record.subject # None
  <2>1. record \in Mark
    BY <1>2 DEF TypeOK, Owner, Mark
  <2> DEFINE flag == IF v = None THEN m.mismatch ELSE v # record.subject
  <2>2. flag \in BOOLEAN
    BY DEF Memory
  <2> HIDE DEF flag
  <2>3. [m EXCEPT !.owner = record, !.mismatch = flag] \in Memory
    BY <2>1, <2>2 DEF Memory
  <2> QED
    BY <1>2, <2>3 DEF Restored, flag
<1> QED
  BY <1>1, <1>2

(* A flow whose request to sign out has returned.                          *)
LEMMA InvalidatedSound ==
  ASSUME NEW pr, Sound(pr), pr.pc = "invalidate", NEW settled \in BOOLEAN
  PROVE  Sound(Invalidated(pr, settled))
<1> DEFINE next == AfterInvalidation(pr, settled)
           r == [pr EXCEPT !.pc = next, !.settled = settled]
<1>1. next \in {"wipe", "defer"} \cup Return
  BY DEF AfterInvalidation, Sound, Local
<1>2. pr.mark \in Mark
  BY DEF Sound, Cleaning
<1>3. CASE next = "end"
  BY <1>3, IdleSound DEF Invalidated
<1>4. CASE next # "end"
  <2>1. next \in Statement /\ next \notin {"idle", "login", "establish", "establishing"}
    BY <1>1, <1>4 DEF Statement, Return
  <2>2. pr.after \in {"hydrated", "gate"} => pr.subject \in Subject
    BY DEF Sound, Identified
  <2>3. next \in {"hydrated", "gate"} => pr.subject \in Subject
    BY <2>2 DEF AfterInvalidation
  <2>4. Invalidated(pr, settled) = r
    BY <1>4 DEF Invalidated
  <2> HIDE DEF next
  <2>5. Sound(r)
    BY <1>2, <2>1, <2>2, <2>3 DEF Sound, Local, Cleaning, Identified
  <2> QED
    BY <2>4, <2>5
<1> QED
  BY <1>3, <1>4

LEMMA ResumingType ==
  ASSUME TypeOK, NEW p \in Process, Resuming(p)
  PROVE  TypeOK'
<1>0. process[p].pc \notin {"idle", "origin", "refresh"}
  BY DEF Resuming, Hydrate, Resume, Invalidate, Wipe, Defer, ClearDeferred, ClearBarrier,
         AbandonReads, At
<1>a. /\ TabOf(p) \in Tab
      /\ Here(p) \in Memory
      /\ Sound(process[p])
      /\ process[p].after \in Return
      /\ process[p].mark \in Mark \cup {None}
      /\ process[p].subject \in Subject \cup {None}
  BY <1>0, AtFacts
<1>b. Cleaning(process[p]) => process[p].mark \in Mark
  BY <1>a DEF Sound
<1>1. CASE Hydrate(p)
  <2>1. Flows'
    <3>1. CASE Goto(p, "resume")
      BY <1>0, <3>1, GotoKeeps DEF Statement, Flows
    <3>2. CASE Goto(p, process[p].after)
      BY <1>0, <1>a, <3>2, ReturnKeeps DEF Flows
    <3> QED
      BY <1>1, <3>1, <3>2 DEF Hydrate
  <2>2. memory' \in [Tab -> Memory]
    <3>1. CASE UNCHANGED memory
      BY <3>1 DEF TypeOK
    <3>2. CASE Remember(p, Restored(Here(p), Verified(process[p])))
      <4>1. Verified(process[p]) \in Subject \cup {None}
        BY <1>a DEF Verified
      <4>2. Restored(Here(p), Verified(process[p])) \in Memory
        BY <1>a, <4>1, RestoredType
      <4> QED
        BY <3>2, <4>2, RememberKeeps
    <3> QED
      BY <1>1, <3>1, <3>2 DEF Hydrate
  <2> QED
    BY <1>1, <2>1, <2>2 DEF Hydrate, durable, session, mail, Others, Flows, TypeOK
<1>2. CASE Resume(p)
  <2>1. Flows'
    <3>1. CASE Exiting
      <4> DEFINE seen == deferred # None
                 r == [process[p] EXCEPT !.pc = "invalidate", !.role = "resume",
                         !.mark = LatestMark, !.deferredSeen = seen]
      <4>1. LatestMark \in Mark
        BY <3>1, LatestMarkType
      <4>2. seen \in BOOLEAN
        OBVIOUS
      <4>4. process' = [process EXCEPT ![p] = r]
        BY <1>2, <3>1, Zenon DEF Resume
      <4> HIDE DEF seen
      <4>3. Sound(r)
        <5>0. process[p] \in Local
          BY <1>a DEF Sound
        <5>1. /\ r.pc = "invalidate" /\ r.tab = process[p].tab
              /\ r.mark = LatestMark /\ r.subject = process[p].subject
              /\ r.after = process[p].after
          BY ONLY <5>0 DEF Local
        <5>2. "invalidate" \in Statement /\ "resume" \in Role
          BY DEF Statement, Role
        <5>3. r \in Local
          BY ONLY <4>1, <4>2, <5>0, <5>2 DEF Local
        <5> HIDE DEF r
        <5> QED
          BY <1>0, <1>a, <4>1, <5>1, <5>3 DEF Sound, Cleaning, Identified
      <4> HIDE DEF r
      <4> QED
        BY <4>3, <4>4, FlowChange DEF Flows
    <3>2. CASE ~ Exiting
      BY <1>0, <1>2, <3>2, ReturnKeeps DEF Resume, Flows
    <3> QED
      BY <3>1, <3>2
  <2> QED
    BY <1>2, <2>1 DEF Resume, durable, session, mail, Flows, TypeOK
<1>3. CASE Invalidate(p)
  <2>1. PICK settled \in BOOLEAN, joined \in SUBSET {q \in Process : At(q, "invalidate")} :
          process' = [q \in Process |-> IF q \in joined \cup {p}
                                       THEN Invalidated(process[q], settled) ELSE process[q]]
    BY <1>3 DEF Invalidate
  <2>2. ASSUME NEW q \in Process, At(q, "invalidate")
        PROVE  Sound(Invalidated(process[q], settled))
    BY <2>2, InvalidatedSound DEF At, TypeOK
  <2>3. \A q \in joined \cup {p} : At(q, "invalidate")
    BY <1>3, <2>1 DEF Invalidate
  <2>4. \A q \in Process : Sound(process'[q])
    BY <2>1, <2>2, <2>3 DEF TypeOK
  <2>5. process' \in [Process -> Local]
    BY <2>1, <2>4 DEF Sound
  <2>6. live' \subseteq Subject /\ cookie' \in Subject \cup {None}
    BY <1>3 DEF Invalidate, session, TypeOK
  <2> QED
    BY <1>3, <2>4, <2>5, <2>6 DEF Invalidate, durable, mail, TypeOK
<1>4. CASE Wipe(p)
  <2>0. process[p].mark \in Mark
    BY <1>4, <1>b DEF Wipe, At, Cleaning, Identified
  <2>1. Flows'
    <3>1. PICK pc \in {"undefer", "unbar", "defer"} : Goto(p, pc)
      BY <1>4 DEF Wipe
    <3> QED
      BY <1>0, <2>0, <3>1, GotoKeeps DEF Flows, Statement
  <2>2. memory' \in [Tab -> Memory]
    <3>1. [Here(p) EXCEPT !.token = None] \in Memory
      BY <1>a DEF Memory
    <3> QED
      BY <1>4, <3>1, RememberKeeps DEF Wipe
  <2>3. data' \in [Subject -> Content]
    BY <1>4 DEF Wipe, TypeOK, Content
  <2> QED
    BY <1>4, <2>1, <2>2, <2>3 DEF Wipe, session, mail, Flows, TypeOK
<1>5. CASE Defer(p)
  <2>0. process[p].mark \in Mark
    BY <1>5, <1>b DEF Defer, At, Cleaning, Identified
  <2>1. Flows'
    <3>1. CASE Goto(p, "notify")
      BY <1>0, <3>1, GotoKeeps DEF Flows, Statement
    <3>2. CASE Goto(p, process[p].after)
      BY <1>0, <3>2, ReturnKeeps DEF Flows
    <3> QED
      BY <1>5, <3>1, <3>2 DEF Defer
  <2> QED
    BY <1>5, <2>0, <2>1 DEF Defer, session, mail, Flows, TypeOK
<1>6. CASE ClearDeferred(p)
  <2>1. Flows'
    <3>1. CASE Goto(p, "notify")
      BY <1>0, <3>1, GotoKeeps DEF Flows, Statement
    <3>2. CASE Goto(p, "unbar")
      BY <1>0, <3>2, GotoKeeps DEF Flows, Statement
    <3> QED
      BY <1>6, <3>1, <3>2 DEF ClearDeferred
  <2> QED
    BY <1>6, <2>1 DEF ClearDeferred, session, mail, Flows, TypeOK
<1>7. CASE ClearBarrier(p)
  <2>1. Flows'
    <3>1. CASE Goto(p, "undefer")
      BY <1>0, <3>1, GotoKeeps DEF Flows, Statement
    <3>2. CASE Goto(p, process[p].after)
      BY <1>0, <3>2, ReturnKeeps DEF Flows
    <3> QED
      BY <1>7, <3>1, <3>2 DEF ClearBarrier
  <2> QED
    BY <1>7, <2>1 DEF ClearBarrier, session, mail, Flows, TypeOK
<1>8. CASE AbandonReads(p)
  <2> DEFINE pc == IF Exiting THEN "wipe" ELSE "undefer"
             r == [process[p] EXCEPT !.mark = LatestMark, !.role = "abandon", !.pc = pc]
  <2>1. LatestMark \in Mark \cup {None}
    BY DEF LatestMark, TypeOK
  <2>2. pc = "wipe" => LatestMark \in Mark
    BY LatestMarkType
  <2>3. pc \in {"wipe", "undefer"}
    OBVIOUS
  <2> HIDE DEF pc
  <2>4. Sound(r)
    BY <1>0, <1>a, <2>1, <2>2, <2>3 DEF Sound, Local, Statement, Role, Cleaning, Identified
  <2>5. process' = [process EXCEPT ![p] = r]
    BY <1>8, Zenon DEF AbandonReads, pc
  <2> HIDE DEF r
  <2>6. Flows'
    BY <2>4, <2>5, FlowChange DEF Flows
  <2> QED
    BY <1>8, <2>6 DEF AbandonReads, durable, session, mail, Flows, TypeOK
<1> QED
  BY <1>1, <1>2, <1>3, <1>4, <1>5, <1>6, <1>7, <1>8 DEF Resuming

LEMMA EstablishedType ==
  ASSUME NEW seen \in Owner, NEW s \in Subject
  PROVE  Established(seen, s) \in Mark
<1>1. CASE seen.subject = s
  BY <1>1 DEF Established, Owner, Mark
<1>2. CASE seen.subject # s
  BY <1>2 DEF Established, Owner, Mark
<1> QED
  BY <1>1, <1>2

(* A flow remembers what it has read.                                      *)
LEMMA ReadsSound ==
  ASSUME TypeOK, NEW p \in Process, NEW pc \in Statement,
         process[p].pc \notin {"idle", "origin", "refresh"},
         pc = "establishing" => process[p].subject \in Subject,
         pc = "clearing" => process[p].mark \in Mark,
         pc \in {"establishing", "clearing"},
         process' = [process EXCEPT ![p].pc = pc, ![p].seen = record]
  PROVE  Flows'
<1> DEFINE r == [process[p] EXCEPT !.pc = pc, !.seen = record]
<1>1. Sound(process[p]) /\ record \in Owner
  BY DEF TypeOK
<1>2. Sound(r)
  BY <1>1 DEF Sound, Local, Cleaning, Identified
<1>3. process' = [process EXCEPT ![p] = r]
  OBVIOUS
<1> HIDE DEF r
<1> QED
  BY <1>2, <1>3, FlowChange DEF Flows

LEMMA SigningInType ==
  ASSUME TypeOK, NEW p \in Process, SigningIn(p)
  PROVE  TypeOK'
<1>0. process[p].pc # "idle"
  BY DEF SigningIn, BootstrapLocks, Login, HydrateAgain, CaptureEpoch, CallRefresh, Gate,
         EstablishReads, Establish, At
<1>a. /\ TabOf(p) \in Tab
      /\ Here(p) \in Memory
      /\ Sound(process[p])
      /\ process[p].after \in Return
      /\ process[p].mark \in Mark \cup {None}
      /\ process[p].subject \in Subject \cup {None}
      /\ process[p].seen \in Owner
  BY <1>0, AtFacts
<1>1. CASE BootstrapLocks(p)
  <2> DEFINE r == [process[p] EXCEPT !.pc = "origin", !.after = "gate", !.locked = Unlocked]
  <2>1. Sound(r)
    <3>1. r \in Local
      BY <1>0, <1>a, UnlockedType DEF Sound, Local, Statement, Return
    <3>2. /\ r.pc = "origin" /\ r.tab = process[p].tab /\ r.subject = process[p].subject
          /\ process[p].tab \in Tab
      BY <1>0, <1>a DEF Sound, Local
    <3> HIDE DEF r
    <3> QED
      BY <3>1, <3>2 DEF Sound, Cleaning, Identified
  <2>2. process' = [process EXCEPT ![p] = r]
    BY <1>1, Zenon DEF BootstrapLocks
  <2> HIDE DEF r
  <2>3. Flows'
    BY <2>1, <2>2, FlowChange DEF Flows
  <2> QED
    BY <1>1, <2>3 DEF BootstrapLocks, durable, session, mail, Flows, TypeOK
<1>2. CASE Login(p)
  <2>1. process[p].subject \in Subject
    BY <1>2, <1>a DEF Login, At, Sound, Identified
  <2>2. Flows'
    <3>1. CASE Goto(p, "hydrate")
      BY <1>0, <1>2, <3>1, GotoKeeps DEF Login, At, Flows, Statement
    <3>2. CASE Goto(p, "end")
      BY <1>0, <3>2, GotoKeeps DEF Flows, Statement
    <3> QED
      BY <1>2, <3>1, <3>2 DEF Login
  <2>3. live' \subseteq Subject /\ cookie' \in Subject \cup {None}
    BY <1>2, <2>1 DEF Login, session, TypeOK
  <2> QED
    BY <1>2, <2>2, <2>3 DEF Login, durable, mail, Flows, TypeOK
<1>3. CASE HydrateAgain(p)
  <2> DEFINE r == [process[p] EXCEPT !.pc = "hydrate", !.after = "gate"]
  <2>0. process[p].subject \in Subject
    BY <1>3, <1>a DEF HydrateAgain, At, Sound, Identified
  <2>1. Sound(r)
    BY <1>0, <1>a, <2>0 DEF Sound, Local, Statement, Return, Cleaning, Identified
  <2>2. process' = [process EXCEPT ![p] = r]
    BY <1>3, Zenon DEF HydrateAgain
  <2> HIDE DEF r
  <2>3. Flows'
    BY <2>1, <2>2, FlowChange DEF Flows
  <2> QED
    BY <1>3, <2>3 DEF HydrateAgain, durable, session, mail, Flows, TypeOK
<1>4. CASE CaptureEpoch(p)
  <2> DEFINE epoch == IF Here(p).owner # None THEN Here(p).owner.epoch ELSE record.epoch
             r == [process[p] EXCEPT !.pc = "refresh", !.epoch = epoch]
  <2>1. epoch \in Nat
    BY <1>a DEF TypeOK, Memory, Owner, Mark
  <2> HIDE DEF epoch
  <2>2. Sound(r)
    <3>1. r \in Local /\ r.pc = "refresh" /\ r.tab = process[p].tab
      BY <1>a, <2>1 DEF Sound, Local, Statement
    <3> HIDE DEF r
    <3> QED
      BY <1>0, <1>a, <3>1 DEF Sound, Cleaning, Identified
  <2>3. process' = [process EXCEPT ![p] = r]
    BY <1>4, Zenon DEF CaptureEpoch, epoch
  <2> HIDE DEF r
  <2>4. Flows'
    BY <2>2, <2>3, FlowChange DEF Flows
  <2> QED
    BY <1>4, <2>4 DEF CaptureEpoch, durable, session, mail, Flows, TypeOK
<1>5. CASE CallRefresh(p)
  <2>1. Flows'
    <3>1. CASE Goto(p, "end")
      BY <1>0, <3>1, GotoKeeps DEF Flows, Statement
    <3>2. CASE /\ cookie \in live
               /\ process' = [process EXCEPT ![p].pc = "hydrate", ![p].subject = cookie]
      <4> DEFINE r == [process[p] EXCEPT !.pc = "hydrate", !.subject = cookie]
      <4>1. Sound(r)
        <5>1. cookie \in Subject
          BY <3>2 DEF TypeOK
        <5>2. /\ r \in Local /\ r.pc = "hydrate" /\ r.tab = process[p].tab
              /\ r.subject = cookie
          BY <1>a, <5>1 DEF Sound, Local, Statement
        <5> HIDE DEF r
        <5> QED
          BY <1>0, <1>a, <5>1, <5>2 DEF Sound, Cleaning, Identified
      <4>2. process' = [process EXCEPT ![p] = r]
        BY <3>2
      <4> HIDE DEF r
      <4> QED
        BY <4>1, <4>2, FlowChange DEF Flows
    <3> QED
      BY <1>5, <3>1, <3>2 DEF CallRefresh
  <2>2. memory' \in [Tab -> Memory]
    <3>1. CASE UNCHANGED memory
      BY <3>1 DEF TypeOK
    <3>2. CASE Remember(p, SignedOff(Here(p)))
      <4>1. SignedOff(Here(p)) \in Memory
        BY <1>a DEF SignedOff, Memory
      <4> QED
        BY <3>2, <4>1, RememberKeeps
    <3> QED
      BY <1>5, <3>1, <3>2 DEF CallRefresh
  <2>3. live' \subseteq Subject
    BY <1>5 DEF CallRefresh, TypeOK
  <2> QED
    BY <1>5, <2>1, <2>2, <2>3 DEF CallRefresh, durable, mail, Flows, TypeOK
<1>6. CASE Gate(p)
  <2>1. Flows'
    <3>1. CASE Goto(p, "establish")
      <4>1. process[p].pc = "gate"
        BY <1>6 DEF Gate, At
      <4>2. process[p].subject \in Subject
        BY <1>a, <4>1 DEF Sound, Identified
      <4> QED
        BY <3>1, <4>1, <4>2, Names, GotoKeeps DEF Flows, Statement
    <3>2. CASE Goto(p, "end")
      BY <1>0, <3>2, GotoKeeps DEF Flows, Statement
    <3> QED
      BY <1>6, <3>1, <3>2 DEF Gate
  <2> QED
    BY <1>6, <2>1 DEF Gate, durable, session, mail, Flows, TypeOK
<1>7. CASE EstablishReads(p)
  <2>1. process[p].subject \in Subject /\ process[p].pc = "establish"
    BY <1>7, <1>a DEF EstablishReads, At, Sound, Identified
  <2>2. Flows'
    BY <1>7, <2>1, ReadsSound DEF EstablishReads, Statement
  <2>3. [Here(p) EXCEPT !.authRequired = FALSE] \in Memory
    BY <1>a DEF Memory
  <2>4. memory' \in [Tab -> Memory]
    BY <1>7, <2>3, RememberKeeps DEF EstablishReads
  <2> QED
    BY <1>7, <2>2, <2>4 DEF EstablishReads, durable, session, mail, Flows, TypeOK
<1>8. CASE Establish(p)
  <2> DEFINE new == Established(process[p].seen, process[p].subject)
  <2>0. process[p].subject \in Subject
    BY <1>8, <1>a DEF Establish, At, Sound, Identified
  <2>1. Flows'
    BY <1>0, <1>8, GotoKeeps DEF Establish, At, Flows, Statement
  <2>2. new \in Mark
    BY <1>a, <2>0, EstablishedType
  <2>3. memory' \in [Tab -> Memory]
    <3> DEFINE m == [Here(p) EXCEPT !.owner = new, !.mismatch = FALSE,
                       !.token = process[p].subject]
    <3>1. m \in Memory
      BY <1>a, <2>0, <2>2 DEF Memory
    <3>2. Remember(p, m)
      BY <1>8, Zenon DEF Establish
    <3> HIDE DEF m
    <3> QED
      BY <3>1, <3>2, RememberKeeps
  <2>4. record' \in Owner
    BY <1>8, <2>2 DEF Establish, Owner, Mark
  <2>5. torn' \in BOOLEAN
    BY <1>8, Zenon DEF Establish, Tears
  <2> QED
    BY <1>8, <2>1, <2>3, <2>4, <2>5 DEF Establish, session, mail, Flows, TypeOK
<1> QED
  BY <1>1, <1>2, <1>3, <1>4, <1>5, <1>6, <1>7, <1>8 DEF SigningIn

LEMMA CheckCases ==
  ASSUME NEW p \in Process, CheckDrained(p)
  PROVE  \/ Goto(p, "bar")
         \/ process' = [process EXCEPT ![p] =
                          NewFlow(TabOf(p), "exit", "hydrate", "begin", None, FALSE)]
BY DEF CheckDrained, Launch

LEMMA CompleteKeeps ==
  ASSUME TypeOK, NEW p \in Process, process[p].pc \notin {"idle", "origin", "refresh"},
         NEW mode \in {"drained", "sync", "discard"}, Complete(p, mode)
  PROVE  Flows'
<1> DEFINE r == [process[p] EXCEPT !.pc = "exitlock", !.mode = mode]
<1>1. Sound(process[p])
  BY DEF TypeOK
<1>2. Sound(r)
  BY <1>1 DEF Sound, Local, Statement, Cleaning, Identified
<1>3. process' = [process EXCEPT ![p] = r]
  BY Zenon DEF Complete
<1> HIDE DEF r
<1> QED
  BY <1>2, <1>3, FlowChange DEF Flows

LEMMA SigningOutType ==
  ASSUME TypeOK, NEW p \in Process, SigningOut(p)
  PROVE  TypeOK'
<1>0. process[p].pc \notin {"idle", "origin", "refresh"}
  BY DEF SigningOut, BeginExit, ReadWork, Choose, ExitLocks, CompleteExit, CheckDrained,
         PersistBarrier, ClearReads, ClearOwner, Notify, At
<1>a. /\ TabOf(p) \in Tab
      /\ Here(p) \in Memory
      /\ Sound(process[p])
      /\ process[p].after \in Return
      /\ process[p].mark \in Mark \cup {None}
      /\ process[p].subject \in Subject \cup {None}
      /\ process[p].seen \in Owner
  BY <1>0, AtFacts
<1>b. Cleaning(process[p]) => process[p].mark \in Mark
  BY <1>a DEF Sound
<1>1. CASE BeginExit(p)
  <2>1. Flows'
    <3>1. CASE Complete(p, "drained")
      BY <1>0, <3>1, CompleteKeeps
    <3>2. CASE Goto(p, "work")
      BY <1>0, <3>2, GotoKeeps DEF Flows, Statement
    <3> QED
      BY <1>1, <3>1, <3>2 DEF BeginExit
  <2>2. memory' \in [Tab -> Memory]
    <3>1. CASE UNCHANGED memory
      BY <3>1 DEF TypeOK
    <3>2. CASE Remember(p, [Here(p) EXCEPT !.freezing = TRUE])
      <4>1. [Here(p) EXCEPT !.freezing = TRUE] \in Memory
        BY <1>a DEF Memory
      <4> QED
        BY <3>2, <4>1, RememberKeeps
    <3> QED
      BY <1>1, <3>1, <3>2 DEF BeginExit
  <2> QED
    BY <1>1, <2>1, <2>2 DEF BeginExit, durable, session, mail, Flows, TypeOK
<1>2. CASE ReadWork(p)
  <2>1. Flows'
    <3>1. CASE Complete(p, "drained")
      BY <1>0, <3>1, CompleteKeeps
    <3>2. CASE Goto(p, "dialog")
      BY <1>0, <3>2, GotoKeeps DEF Flows, Statement
    <3> QED
      BY <1>2, <3>1, <3>2 DEF ReadWork
  <2> QED
    BY <1>2, <2>1 DEF ReadWork, durable, session, mail, Flows, TypeOK
<1>3. CASE Choose(p)
  <2>1. Flows'
    <3>1. ASSUME NEW mode \in {"sync", "discard"}, Complete(p, mode) PROVE Flows'
      BY <1>0, <3>1, CompleteKeeps
    <3>2. CASE Goto(p, "end")
      BY <1>0, <3>2, GotoKeeps DEF Flows, Statement
    <3> QED
      BY <1>3, <3>1, <3>2 DEF Choose
  <2>2. memory' \in [Tab -> Memory]
    <3>1. CASE UNCHANGED memory
      BY <3>1 DEF TypeOK
    <3>2. CASE Remember(p, [Here(p) EXCEPT !.freezing = FALSE])
      <4>1. [Here(p) EXCEPT !.freezing = FALSE] \in Memory
        BY <1>a DEF Memory
      <4> QED
        BY <3>2, <4>1, RememberKeeps
    <3> QED
      BY <1>3, <3>1, <3>2 DEF Choose
  <2> QED
    BY <1>3, <2>1, <2>2 DEF Choose, durable, session, mail, Flows, TypeOK
<1>4. CASE ExitLocks(p)
  <2> DEFINE r == [process[p] EXCEPT !.pc = "complete", !.locked = Unlocked]
  <2>1. Sound(r)
    <3>1. process[p] \in Local
      BY DEF TypeOK
    <3>2. r \in Local
      BY <3>1, UnlockedType DEF Local, Statement
    <3>3. /\ r.pc = "complete" /\ r.tab = process[p].tab /\ r.after = process[p].after
          /\ r.subject = process[p].subject
      BY <3>1 DEF Local
    <3> HIDE DEF r
    <3>4. /\ process[p].tab \in Tab
          /\ process[p].after \in {"hydrated", "gate"} => process[p].subject \in Subject
      BY <1>0, <1>a DEF Sound, Identified
    <3> QED
      BY <3>2, <3>3, <3>4 DEF Sound, Cleaning, Identified
  <2>2. process' = [process EXCEPT ![p] = r]
    BY <1>4, Zenon DEF ExitLocks
  <2> HIDE DEF r
  <2>3. Flows'
    BY <2>1, <2>2, FlowChange DEF Flows
  <2> QED
    BY <1>4, <2>3 DEF ExitLocks, durable, session, mail, Flows, TypeOK
<1>5. CASE CompleteExit(p)
  <2>1. Flows'
    <3>1. CASE Here(p).owner = None
      <4>1. CASE Goto(p, "end")
        BY <1>0, <4>1, GotoKeeps DEF Flows, Statement
      <4>2. CASE process' = [process EXCEPT ![p].pc = "unbar", ![p].after = "end"]
        <5> DEFINE r == [process[p] EXCEPT !.pc = "unbar", !.after = "end"]
        <5>1. Sound(r)
          <6>1. r \in Local
            BY <1>0, <1>a DEF Sound, Local, Statement, Return
          <6>2. r.pc = "unbar" /\ r.after = "end" /\ r.tab \in Tab
            BY <1>0, <1>a DEF Sound, Local
          <6> HIDE DEF r
          <6> QED
            BY <6>1, <6>2 DEF Sound, Cleaning, Identified
        <5>2. process' = [process EXCEPT ![p] = r]
          BY <4>2
        <5> HIDE DEF r
        <5> QED
          BY <5>1, <5>2, FlowChange DEF Flows
      <4> QED
        BY <1>5, <3>1, <4>1, <4>2 DEF CompleteExit
    <3>2. CASE Here(p).owner # None
      <4> DEFINE owner == Here(p).owner
                 pc == IF process[p].mode = "sync" THEN "check" ELSE "bar"
                 r == [process[p] EXCEPT !.mark = owner, !.role = "exit", !.pc = pc]
      <4>1. owner \in Mark
        BY <1>a, <3>2 DEF Memory
      <4>2. pc \in {"check", "bar"}
        OBVIOUS
      <4>3. process' = [process EXCEPT ![p] = r]
        BY <1>5, <3>2 DEF CompleteExit
      <4> HIDE DEF owner, pc
      <4>4. Sound(r)
        BY <1>0, <1>a, <4>1, <4>2 DEF Sound, Local, Statement, Role, Cleaning, Identified
      <4> HIDE DEF r
      <4> QED
        BY <4>3, <4>4, FlowChange DEF Flows
    <3> QED
      BY <3>1, <3>2
  <2>2. memory' \in [Tab -> Memory]
    <3> DEFINE flag == Here(p).owner # None
    <3>1. flag \in BOOLEAN
      OBVIOUS
    <3>2. Remember(p, [Here(p) EXCEPT !.freezing = flag])
      BY <1>5, Zenon DEF CompleteExit
    <3> HIDE DEF flag
    <3>3. [Here(p) EXCEPT !.freezing = flag] \in Memory
      BY <1>a, <3>1 DEF Memory
    <3> QED
      BY <3>2, <3>3, RememberKeeps
  <2> QED
    BY <1>5, <2>1, <2>2 DEF CompleteExit, durable, session, mail, Flows, TypeOK
<1>6. CASE CheckDrained(p)
  <2>1. Flows'
    <3>1. CASE Goto(p, "bar")
      <4>1. process[p].mark \in Mark
        BY <1>6, <1>b DEF CheckDrained, At, Cleaning
      <4> QED
        BY <1>0, <3>1, <4>1, GotoKeeps DEF Flows, Statement
    <3>2. CASE process' = [process EXCEPT ![p] =
                   NewFlow(TabOf(p), "exit", "hydrate", "begin", None, FALSE)]
      BY <1>a, <3>2, Names, LaunchSound, FlowChange DEF Flows
    <3> QED
      BY <1>6, <3>1, <3>2, CheckCases
  <2> QED
    BY <1>6, <2>1 DEF CheckDrained, durable, session, mail, Flows, TypeOK
<1>7. CASE PersistBarrier(p)
  <2>0. process[p].mark \in Mark
    BY <1>7, <1>b DEF PersistBarrier, At, Cleaning
  <2>1. Flows'
    BY <1>0, <1>7, <2>0, GotoKeeps DEF PersistBarrier, Flows, Statement
  <2> QED
    BY <1>7, <2>0, <2>1 DEF PersistBarrier, session, mail, Flows, TypeOK
<1>8. CASE ClearOwner(p)
  <2>0. process[p].mark \in Mark
    BY <1>8, <1>b DEF ClearOwner, At, Cleaning
  <2>1. Flows'
    BY <1>0, <1>8, <2>0, GotoKeeps DEF ClearOwner, Flows, Statement
  <2>2. memory' \in [Tab -> Memory]
    <3> DEFINE m == [Here(p) EXCEPT !.owner = None, !.mismatch = FALSE,
                                    !.authRequired = FALSE, !.freezing = FALSE]
    <3>1. m \in Memory
      BY <1>a DEF Memory
    <3>2. Remember(p, m)
      BY <1>8, Zenon DEF ClearOwner
    <3> HIDE DEF m
    <3> QED
      BY <3>1, <3>2, RememberKeeps
  <2>3. record' \in Owner
    BY <1>8, <1>a DEF ClearOwner, Cleared, Owner
  <2>4. torn' \in BOOLEAN
    BY <1>8, Zenon DEF ClearOwner, Tears
  <2> QED
    BY <1>8, <2>1, <2>2, <2>3, <2>4 DEF ClearOwner, session, mail, Flows, TypeOK
<1>9. CASE Notify(p)
  <2>1. Flows'
    BY <1>0, <1>9, GotoKeeps DEF Notify, Flows, Statement
  <2>2. notices' \subseteq Tab
    BY <1>9 DEF Notify, TypeOK
  <2> QED
    BY <1>9, <2>1, <2>2 DEF Notify, durable, session, Flows, TypeOK
<1>10. CASE ClearReads(p)
  <2>1. process[p].mark \in Mark /\ process[p].pc = "clear"
    BY <1>10, <1>b DEF ClearReads, At, Cleaning
  <2>2. Flows'
    BY <1>10, <2>1, ReadsSound DEF ClearReads, Statement
  <2> QED
    BY <1>10, <2>2 DEF ClearReads, durable, session, mail, Flows, TypeOK
<1> QED
  BY <1>1, <1>2, <1>3, <1>4, <1>5, <1>6, <1>7, <1>8, <1>9, <1>10 DEF SigningOut

LEMMA TabType ==
  ASSUME TypeOK, NEW t \in Tab,
         BeginEdit(t) \/ CommitEdit(t) \/ Replay(t) \/ Reload(t)
  PROVE  TypeOK'
<1>0. memory[t] \in Memory
  BY DEF TypeOK
<1>1. CASE BeginEdit(t)
  <2>1. memory[t].owner \in Mark
    BY <1>0, <1>1 DEF BeginEdit, MayWrite, Memory
  <2> QED
    BY <1>1, <2>1 DEF BeginEdit, durable, session, mail, TypeOK
<1>2. CASE CommitEdit(t)
  <2>1. data' \in [Subject -> Content]
    BY <1>2 DEF CommitEdit, Content, TypeOK
  <2>2. edit' \in [Tab -> Mark \cup {None}]
    BY <1>2 DEF CommitEdit, TypeOK
  <2> QED
    BY <1>2, <2>1, <2>2 DEF CommitEdit, session, mail, TypeOK
<1>3. CASE Replay(t)
  <2>1. data' \in [Subject -> Content]
    BY <1>3 DEF Replay, Content, TypeOK
  <2> QED
    BY <1>3, <2>1 DEF Replay, session, mail, TypeOK
<1>4. CASE Reload(t)
  <2>1. Flows'
    BY <1>4, IdleSound DEF Reload, Flows, TypeOK, Sound
  <2>2. memory' \in [Tab -> Memory]
    BY <1>4 DEF Reload, Memory, Fresh, TypeOK
  <2> QED
    BY <1>4, <2>1, <2>2 DEF Reload, durable, session, Flows, TypeOK
<1> QED
  BY <1>1, <1>2, <1>3, <1>4

LEMMA NextType == TypeOK /\ [Next]_vars => TypeOK'
<1> SUFFICES ASSUME TypeOK, [Next]_vars PROVE TypeOK'
  OBVIOUS
<1>1. ASSUME NEW p \in Process, NEW t \in Tab, Start(p, t) \/ React(p, t) PROVE TypeOK'
  BY <1>1, StartType
<1>2. ASSUME NEW p \in Process, Step(p) PROVE TypeOK'
  BY <1>2, ResumingType, SigningInType, SigningOutType DEF Step
<1>3. ASSUME NEW t \in Tab, BeginEdit(t) \/ CommitEdit(t) \/ Replay(t) \/ Reload(t)
      PROVE  TypeOK'
  BY <1>3, TabType
<1>4. CASE UNCHANGED vars
  BY <1>4 DEF vars, durable, session, mail, TypeOK
<1> QED
  BY <1>1, <1>2, <1>3, <1>4 DEF Next

(* Every reachable state of the account lifecycle has its type: whatever   *)
(* interleaves or crashes, a flow that establishes an owner has a subject  *)
(* the server verified and one that cleans up knows for whom.              *)
THEOREM TypeCorrect == Spec => []TypeOK
BY InitType, NextType, PTL DEF Spec

----
(* One owner per epoch: every owner, permit and mark after a step was      *)
(* there before it or is the record, and the record's epoch only advances  *)
(* unless a write is torn.                                                 *)

Held == Marks \cup {None, record, record'}

Inherits ==
  /\ torn => torn'
  /\ torn' \/ record' = record \/ record'.epoch = record.epoch + 1
  /\ barrier' \in Held
  /\ deferred' \in Held
  /\ \A t \in Tab : memory'[t].owner \in Held
  /\ \A t \in Tab : edit'[t] \in Held
  /\ \A q \in Process : process'[q].mark \in Held

LEMMA HeldBase ==
  /\ None \in Held /\ record \in Held /\ record' \in Held
  /\ barrier \in Held /\ deferred \in Held
  /\ \A t \in Tab : memory[t].owner \in Held
  /\ \A t \in Tab : edit[t] \in Held
  /\ \A q \in Process : process[q].mark \in Held
BY DEF Held, Marks

LEMMA MarksType ==
  ASSUME TypeOK
  PROVE  Marks \subseteq Mark
<1>1. barrier \in Mark \cup {None} /\ deferred \in Mark \cup {None}
  BY DEF TypeOK
<1>2. \A t \in Tab : memory[t].owner \in Mark \cup {None} /\ edit[t] \in Mark \cup {None}
  BY DEF TypeOK, Memory
<1>3. \A q \in Process : process[q].mark \in Mark \cup {None}
  BY DEF TypeOK, Local
<1> QED
  BY <1>1, <1>2, <1>3 DEF Marks

LEMMA InheritsKeeps ==
  ASSUME TypeOK, TypeOK', EpochNamesOwner, Inherits
  PROVE  EpochNamesOwner'
<1> SUFFICES ASSUME ~ torn'
             PROVE  \A m \in Marks' :
                      m.epoch <= record'.epoch /\ (m.epoch = record'.epoch => m = record')
  BY DEF EpochNamesOwner
<1>0. ~ torn
  BY DEF Inherits
<1>1. \A m \in Marks' : m # None /\ m \in Held
  BY DEF Inherits, Marks
<1>2. record.epoch \in Nat /\ record'.epoch \in Nat
  BY DEF TypeOK, Owner
<1>3. record' = record \/ record'.epoch = record.epoch + 1
  BY DEF Inherits
<1>4. ASSUME NEW m \in Marks'
      PROVE  m.epoch <= record'.epoch /\ (m.epoch = record'.epoch => m = record')
  <2>1. CASE m \in Marks
    <3>1. m.epoch <= record.epoch /\ (m.epoch = record.epoch => m = record)
      BY <1>0, <2>1 DEF EpochNamesOwner
    <3>2. m.epoch \in Nat
      BY <2>1, MarksType DEF Mark
    <3> QED
      BY <1>2, <1>3, <3>1, <3>2
  <2>2. CASE m \in {record, record'}
    BY <1>2, <1>3, <2>2
  <2> QED
    BY <1>1, <2>1, <2>2 DEF Held
<1> QED
  BY <1>4

LEMMA InitOwner == Init => EpochNamesOwner
<1> SUFFICES ASSUME Init PROVE EpochNamesOwner
  OBVIOUS
<1>1. Marks = {}
  BY DEF Init, Marks, Fresh, Idle
<1> QED
  BY <1>1 DEF EpochNamesOwner

LEMMA GotoHeld ==
  ASSUME TypeOK, NEW p \in Process, NEW pc, Goto(p, pc)
  PROVE  \A q \in Process : process'[q].mark \in Held
<1>1. process[p] \in Local
  BY DEF TypeOK
<1>2. [process[p] EXCEPT !.pc = pc].mark = process[p].mark
  BY <1>1 DEF Local
<1>3. Idle.mark = None
  BY DEF Idle
<1> QED
  BY <1>2, <1>3, HeldBase DEF Goto, TypeOK

LEMMA CompleteHeld ==
  ASSUME TypeOK, NEW p \in Process, NEW mode, Complete(p, mode)
  PROVE  \A q \in Process : process'[q].mark \in Held
BY HeldBase DEF Complete, TypeOK, Local

LEMMA LaunchHeld ==
  ASSUME TypeOK, NEW p \in Process, NEW t, NEW flow, NEW pc, NEW after, NEW s, NEW locked,
         process' = [process EXCEPT ![p] = NewFlow(t, flow, pc, after, s, locked)]
  PROVE  \A q \in Process : process'[q].mark \in Held
<1>1. NewFlow(t, flow, pc, after, s, locked).mark = None
  BY DEF NewFlow
<1> HIDE DEF NewFlow
<1> QED
  BY <1>1, HeldBase DEF TypeOK

LEMMA RememberHeld ==
  ASSUME TypeOK, NEW p \in Process, NEW m, m.owner \in Held, Remember(p, m)
  PROVE  \A t \in Tab : memory'[t].owner \in Held
BY HeldBase DEF Remember, TypeOK

LEMMA StartInherits ==
  ASSUME TypeOK, NEW p \in Process, NEW t \in Tab, Start(p, t) \/ React(p, t)
  PROVE  Inherits
<1>1. \A q \in Process : process'[q].mark \in Held
  <2>1. ASSUME NEW s \in Subject, SignIn(p, t, s) PROVE \A q \in Process : process'[q].mark \in Held
    BY <2>1, LaunchHeld DEF SignIn, Launch
  <2>2. CASE Refresh(p, t)
    BY <2>2, LaunchHeld DEF Refresh, Launch
  <2>3. CASE Bootstrap(p, t)
    BY <2>3, LaunchHeld DEF Bootstrap, Launch
  <2>4. CASE RequestExit(p, t)
    BY <2>4, LaunchHeld DEF RequestExit, Launch
  <2>5. CASE Abandon(p, t)
    BY <2>5, LaunchHeld DEF Abandon, Launch
  <2>6. CASE Boot(p, t)
    BY <2>6, LaunchHeld DEF Boot, Launch
  <2>7. CASE HearExit(p, t)
    BY <2>7, LaunchHeld DEF HearExit, Launch
  <2> QED
    BY <2>1, <2>2, <2>3, <2>4, <2>5, <2>6, <2>7 DEF Start, React
<1>2. UNCHANGED <<open, durable, session, memory, edit, torn>>
  BY Zenon DEF Start, React, SignIn, Refresh, Bootstrap, RequestExit, Abandon, Boot, HearExit
<1> QED
  BY <1>1, <1>2, HeldBase DEF Inherits, durable

LEMMA ResumingInherits ==
  ASSUME TypeOK, NEW p \in Process, Resuming(p)
  PROVE  Inherits
<1>0. process[p] \in Local
  BY DEF TypeOK
<1>1. CASE Hydrate(p)
  <2>1. PICK pc : Goto(p, pc)
    BY <1>1, Zenon DEF Hydrate
  <2>2. \A t \in Tab : memory'[t].owner \in Held
    <3>1. CASE UNCHANGED memory
      BY <3>1, HeldBase
    <3>2. CASE Remember(p, Restored(Here(p), Verified(process[p])))
      <4>1. Here(p).owner \in Held
        BY <1>0, <1>1, HeldBase, AtFacts DEF Hydrate, At, Here
      <4>2. Here(p) \in Memory
        BY <1>1, AtFacts DEF Hydrate, At
      <4>3. Restored(Here(p), Verified(process[p])).owner \in Held
        BY <4>1, <4>2, HeldBase DEF Restored, Memory
      <4> QED
        BY <3>2, <4>3, RememberHeld
    <3> QED
      BY <1>1, <3>1, <3>2 DEF Hydrate
  <2>3. \A q \in Process : process'[q].mark \in Held
    BY <2>1, GotoHeld
  <2> QED
    BY <1>1, <2>2, <2>3, HeldBase DEF Hydrate, durable, Inherits
<1>2. CASE Resume(p)
  <2>1. CASE Exiting
    <3>1. process' = [process EXCEPT ![p].pc = "invalidate", ![p].role = "resume",
                        ![p].mark = LatestMark, ![p].deferredSeen = deferred # None]
      BY <1>2, <2>1, Zenon DEF Resume
    <3>2. process'[p].mark = LatestMark
      BY <1>0, <3>1 DEF TypeOK, Local
    <3>3. \A q \in Process \ {p} : process'[q] = process[q]
      BY <3>1 DEF TypeOK
    <3>4. \A q \in Process : process'[q].mark \in Held
      BY <3>2, <3>3, HeldBase DEF LatestMark
    <3> QED
      BY <1>2, <3>4, HeldBase DEF Resume, durable, Inherits
  <2>2. CASE ~ Exiting
    <3>1. \A q \in Process : process'[q].mark \in Held
      BY <1>2, <2>2, GotoHeld DEF Resume
    <3> QED
      BY <1>2, <3>1, HeldBase DEF Resume, durable, Inherits
  <2> QED
    BY <2>1, <2>2
<1>3. CASE Invalidate(p)
  <2>1. PICK settled \in BOOLEAN, joined \in SUBSET Process :
          process' = [q \in Process |-> IF q \in joined \cup {p}
                                       THEN Invalidated(process[q], settled) ELSE process[q]]
    BY <1>3 DEF Invalidate
  <2>2. \A q \in Process : Invalidated(process[q], settled).mark \in {process[q].mark, None}
    <3> TAKE q \in Process
    <3>1. process[q] \in Local
      BY DEF TypeOK
    <3> QED
      BY <3>1 DEF Invalidated, Local, Idle
  <2>4. \A q \in Process : process'[q].mark \in Held
    BY <2>1, <2>2, HeldBase
  <2> QED
    BY <1>3, <2>4, HeldBase DEF Invalidate, durable, Inherits
<1>4. CASE Wipe(p)
  <2>1. PICK pc : Goto(p, pc)
    BY <1>4, Zenon DEF Wipe
  <2>2. \A q \in Process : process'[q].mark \in Held
    BY <2>1, GotoHeld
  <2>3. Here(p) \in Memory /\ TabOf(p) \in Tab
    BY <1>4, AtFacts DEF Wipe, At
  <2>4. [Here(p) EXCEPT !.token = None].owner \in Held
    BY <2>3, HeldBase DEF Memory, Here
  <2>5. \A t \in Tab : memory'[t].owner \in Held
    BY <1>4, <2>4, RememberHeld DEF Wipe
  <2> QED
    BY <1>4, <2>2, <2>5, HeldBase DEF Wipe, Inherits
<1>5. CASE Defer(p)
  <2>1. PICK pc : Goto(p, pc)
    BY <1>5, Zenon DEF Defer
  <2>2. \A q \in Process : process'[q].mark \in Held
    BY <2>1, GotoHeld
  <2> QED
    BY <1>5, <2>2, HeldBase DEF Defer, Inherits
<1>6. CASE ClearDeferred(p)
  <2>1. PICK pc : Goto(p, pc)
    BY <1>6, Zenon DEF ClearDeferred
  <2>2. \A q \in Process : process'[q].mark \in Held
    BY <2>1, GotoHeld
  <2> QED
    BY <1>6, <2>2, HeldBase DEF ClearDeferred, Inherits
<1>7. CASE ClearBarrier(p)
  <2>1. PICK pc : Goto(p, pc)
    BY <1>7, Zenon DEF ClearBarrier
  <2>2. \A q \in Process : process'[q].mark \in Held
    BY <2>1, GotoHeld
  <2> QED
    BY <1>7, <2>2, HeldBase DEF ClearBarrier, Inherits
<1>8. CASE AbandonReads(p)
  <2>1. process'[p].mark = LatestMark
    BY <1>0, <1>8 DEF AbandonReads, TypeOK, Local
  <2>2. \A q \in Process \ {p} : process'[q] = process[q]
    BY <1>8 DEF AbandonReads, TypeOK
  <2>3. \A q \in Process : process'[q].mark \in Held
    BY <2>1, <2>2, HeldBase DEF LatestMark
  <2> QED
    BY <1>8, <2>3, HeldBase DEF AbandonReads, durable, Inherits
<1> QED
  BY <1>1, <1>2, <1>3, <1>4, <1>5, <1>6, <1>7, <1>8 DEF Resuming

LEMMA SigningInInherits ==
  ASSUME TypeOK, NEW p \in Process, SigningIn(p)
  PROVE  Inherits
<1>0. process[p] \in Local
  BY DEF TypeOK
<1>1. CASE BootstrapLocks(p)
  <2>1. \A q \in Process : process'[q].mark \in Held
    BY <1>0, <1>1, HeldBase DEF BootstrapLocks, TypeOK, Local
  <2> QED
    BY <1>1, <2>1, HeldBase DEF BootstrapLocks, durable, Inherits
<1>2. CASE Login(p)
  <2>1. PICK pc : Goto(p, pc)
    BY <1>2, Zenon DEF Login
  <2>2. \A q \in Process : process'[q].mark \in Held
    BY <2>1, GotoHeld
  <2> QED
    BY <1>2, <2>2, HeldBase DEF Login, durable, Inherits
<1>3. CASE HydrateAgain(p)
  <2>1. \A q \in Process : process'[q].mark \in Held
    BY <1>0, <1>3, HeldBase DEF HydrateAgain, TypeOK, Local
  <2> QED
    BY <1>3, <2>1, HeldBase DEF HydrateAgain, durable, Inherits
<1>4. CASE CaptureEpoch(p)
  <2>1. \A q \in Process : process'[q].mark \in Held
    BY <1>0, <1>4, HeldBase DEF CaptureEpoch, TypeOK, Local
  <2> QED
    BY <1>4, <2>1, HeldBase DEF CaptureEpoch, durable, Inherits
<1>5. CASE CallRefresh(p)
  <2>1. \A q \in Process : process'[q].mark \in Held
    <3>1. CASE Goto(p, "end")
      BY <3>1, GotoHeld
    <3>2. CASE process' = [process EXCEPT ![p].pc = "hydrate", ![p].subject = cookie]
      BY <1>0, <3>2, HeldBase DEF TypeOK, Local
    <3> QED
      BY <1>5, <3>1, <3>2 DEF CallRefresh
  <2>2. \A t \in Tab : memory'[t].owner \in Held
    <3>1. CASE UNCHANGED memory
      BY <3>1, HeldBase
    <3>2. CASE Remember(p, SignedOff(Here(p)))
      <4>1. Here(p) \in Memory /\ TabOf(p) \in Tab
        BY <1>5, AtFacts DEF CallRefresh, At
      <4>2. SignedOff(Here(p)).owner \in Held
        BY <4>1, HeldBase DEF SignedOff, Memory, Here
      <4> QED
        BY <3>2, <4>2, RememberHeld
    <3> QED
      BY <1>5, <3>1, <3>2 DEF CallRefresh
  <2> QED
    BY <1>5, <2>1, <2>2, HeldBase DEF CallRefresh, durable, Inherits
<1>6. CASE Gate(p)
  <2>1. PICK pc : Goto(p, pc)
    BY <1>6, Zenon DEF Gate
  <2>2. \A q \in Process : process'[q].mark \in Held
    BY <2>1, GotoHeld
  <2> QED
    BY <1>6, <2>2, HeldBase DEF Gate, durable, Inherits
<1>7. CASE EstablishReads(p)
  <2>1. \A q \in Process : process'[q].mark \in Held
    BY <1>0, <1>7, HeldBase DEF EstablishReads, TypeOK, Local
  <2>2. Here(p) \in Memory /\ TabOf(p) \in Tab
    BY <1>7, AtFacts DEF EstablishReads, At
  <2>3. [Here(p) EXCEPT !.authRequired = FALSE].owner \in Held
    BY <2>2, HeldBase DEF Memory, Here
  <2>4. \A t \in Tab : memory'[t].owner \in Held
    BY <1>7, <2>3, RememberHeld DEF EstablishReads
  <2> QED
    BY <1>7, <2>1, <2>4, HeldBase DEF EstablishReads, durable, Inherits
<1>8. CASE Establish(p)
  <2> DEFINE m == [Here(p) EXCEPT !.owner = record', !.mismatch = FALSE,
                     !.token = process[p].subject]
  <2>1. /\ Remember(p, m) /\ Goto(p, "end") /\ Tears(p)
        /\ record' = Established(process[p].seen, process[p].subject)
    BY <1>8, Zenon DEF Establish
  <2>2. Here(p) \in Memory
    BY <1>8, AtFacts DEF Establish, At
  <2>3. m.owner = record'
    BY <2>2 DEF Memory
  <2> HIDE DEF m
  <2>4. \A t \in Tab : memory'[t].owner \in Held
    BY <2>1, <2>3, HeldBase, RememberHeld
  <2>5. \A q \in Process : process'[q].mark \in Held
    BY <2>1, GotoHeld
  <2>6. torn' \/ record' = record \/ record'.epoch = record.epoch + 1
    BY <2>1 DEF Established, Tears
  <2>7. torn => torn'
    BY <2>1 DEF Tears
  <2> QED
    BY <1>8, <2>4, <2>5, <2>6, <2>7, HeldBase DEF Establish, Inherits
<1> QED
  BY <1>1, <1>2, <1>3, <1>4, <1>5, <1>6, <1>7, <1>8 DEF SigningIn

(* The flag of one's own tab changes, not its owner.                       *)
LEMMA FreezeHeld ==
  ASSUME TypeOK, NEW p \in Process, process[p].pc # "idle", NEW flag,
         Remember(p, [Here(p) EXCEPT !.freezing = flag])
  PROVE  \A t \in Tab : memory'[t].owner \in Held
<1>1. Here(p) \in Memory /\ TabOf(p) \in Tab
  BY AtFacts
<1>2. [Here(p) EXCEPT !.freezing = flag].owner \in Held
  BY <1>1, HeldBase DEF Memory, Here
<1> QED
  BY <1>2, RememberHeld

LEMMA SigningOutInherits ==
  ASSUME TypeOK, NEW p \in Process, SigningOut(p)
  PROVE  Inherits
<1>0. process[p] \in Local
  BY DEF TypeOK
<1>1. CASE BeginExit(p)
  <2>1. \A q \in Process : process'[q].mark \in Held
    <3>1. CASE Complete(p, "drained")
      BY <3>1, CompleteHeld
    <3>2. CASE Goto(p, "work")
      BY <3>2, GotoHeld
    <3> QED
      BY <1>1, <3>1, <3>2 DEF BeginExit
  <2>2. \A t \in Tab : memory'[t].owner \in Held
    <3>1. CASE UNCHANGED memory
      BY <3>1, HeldBase
    <3>2. CASE Remember(p, [Here(p) EXCEPT !.freezing = TRUE])
      BY <1>1, <3>2, FreezeHeld DEF BeginExit, At
    <3> QED
      BY <1>1, <3>1, <3>2 DEF BeginExit
  <2> QED
    BY <1>1, <2>1, <2>2, HeldBase DEF BeginExit, durable, Inherits
<1>2. CASE ReadWork(p)
  <2>1. \A q \in Process : process'[q].mark \in Held
    <3>1. CASE Complete(p, "drained")
      BY <3>1, CompleteHeld
    <3>2. CASE Goto(p, "dialog")
      BY <3>2, GotoHeld
    <3> QED
      BY <1>2, <3>1, <3>2 DEF ReadWork
  <2> QED
    BY <1>2, <2>1, HeldBase DEF ReadWork, durable, Inherits
<1>3. CASE Choose(p)
  <2>1. \A q \in Process : process'[q].mark \in Held
    <3>1. ASSUME NEW mode \in {"sync", "discard"}, Complete(p, mode)
          PROVE  \A q \in Process : process'[q].mark \in Held
      BY <3>1, CompleteHeld
    <3>2. CASE Goto(p, "end")
      BY <3>2, GotoHeld
    <3> QED
      BY <1>3, <3>1, <3>2 DEF Choose
  <2>2. \A t \in Tab : memory'[t].owner \in Held
    <3>1. CASE UNCHANGED memory
      BY <3>1, HeldBase
    <3>2. CASE Remember(p, [Here(p) EXCEPT !.freezing = FALSE])
      BY <1>3, <3>2, FreezeHeld DEF Choose, At
    <3> QED
      BY <1>3, <3>1, <3>2 DEF Choose
  <2> QED
    BY <1>3, <2>1, <2>2, HeldBase DEF Choose, durable, Inherits
<1>4. CASE ExitLocks(p)
  <2>1. \A q \in Process : process'[q].mark \in Held
    BY <1>0, <1>4, HeldBase DEF ExitLocks, TypeOK, Local
  <2> QED
    BY <1>4, <2>1, HeldBase DEF ExitLocks, durable, Inherits
<1>5. CASE CompleteExit(p)
  <2>0. process[p].pc # "idle"
    BY <1>5 DEF CompleteExit, At
  <2>1. \A q \in Process : process'[q].mark \in Held
    <3>1. CASE Here(p).owner = None
      <4>1. CASE Goto(p, "end")
        BY <4>1, GotoHeld
      <4>2. CASE process' = [process EXCEPT ![p].pc = "unbar", ![p].after = "end"]
        BY <1>0, <4>2, HeldBase DEF TypeOK, Local
      <4> QED
        BY <1>5, <3>1, <4>1, <4>2 DEF CompleteExit
    <3>2. CASE Here(p).owner # None
      <4>1. TabOf(p) \in Tab
        BY <2>0, AtFacts
      <4>2. Here(p).owner \in Held
        BY <4>1, HeldBase DEF Here
      <4>3. process'[p].mark = Here(p).owner
        BY <1>0, <1>5, <3>2 DEF CompleteExit, TypeOK, Local
      <4>4. \A q \in Process \ {p} : process'[q] = process[q]
        BY <1>5, <3>2 DEF CompleteExit, TypeOK
      <4> QED
        BY <4>2, <4>3, <4>4, HeldBase
    <3> QED
      BY <3>1, <3>2
  <2>2. \A t \in Tab : memory'[t].owner \in Held
    <3> DEFINE flag == Here(p).owner # None
    <3>1. Remember(p, [Here(p) EXCEPT !.freezing = flag])
      BY <1>5, Zenon DEF CompleteExit
    <3> HIDE DEF flag
    <3> QED
      BY <2>0, <3>1, FreezeHeld
  <2> QED
    BY <1>5, <2>1, <2>2, HeldBase DEF CompleteExit, durable, Inherits
<1>6. CASE CheckDrained(p)
  <2>1. \A q \in Process : process'[q].mark \in Held
    <3>1. CASE Goto(p, "bar")
      BY <3>1, GotoHeld
    <3>2. CASE process' = [process EXCEPT ![p] =
                   NewFlow(TabOf(p), "exit", "hydrate", "begin", None, FALSE)]
      BY <3>2, LaunchHeld
    <3> QED
      BY <1>6, <3>1, <3>2, CheckCases
  <2> QED
    BY <1>6, <2>1, HeldBase DEF CheckDrained, durable, Inherits
<1>7. CASE PersistBarrier(p)
  <2>1. PICK pc : Goto(p, pc)
    BY <1>7, Zenon DEF PersistBarrier
  <2>2. \A q \in Process : process'[q].mark \in Held
    BY <2>1, GotoHeld
  <2> QED
    BY <1>7, <2>2, HeldBase DEF PersistBarrier, durable, Inherits
<1>8. CASE ClearOwner(p)
  <2> DEFINE m == [Here(p) EXCEPT !.owner = None, !.mismatch = FALSE,
                                  !.authRequired = FALSE, !.freezing = FALSE]
  <2>1. Here(p) \in Memory
    BY <1>8, AtFacts DEF ClearOwner, At
  <2>2. m.owner = None
    BY <2>1 DEF Memory
  <2>3. Remember(p, m)
    BY <1>8, Zenon DEF ClearOwner
  <2> HIDE DEF m
  <2>4. \A t \in Tab : memory'[t].owner \in Held
    BY <2>2, <2>3, HeldBase, RememberHeld
  <2>5. \A q \in Process : process'[q].mark \in Held
    BY <1>8, GotoHeld DEF ClearOwner
  <2>6. torn' \/ record'.epoch = record.epoch + 1
    BY <1>8 DEF ClearOwner, Cleared, Tears
  <2>7. torn => torn'
    BY <1>8 DEF ClearOwner, Tears
  <2> QED
    BY <1>8, <2>4, <2>5, <2>6, <2>7, HeldBase DEF ClearOwner, Inherits
<1>9. CASE Notify(p)
  <2>1. PICK pc : Goto(p, pc)
    BY <1>9, Zenon DEF Notify
  <2>2. \A q \in Process : process'[q].mark \in Held
    BY <2>1, GotoHeld
  <2> QED
    BY <1>9, <2>2, HeldBase DEF Notify, durable, Inherits
<1>10. CASE ClearReads(p)
  <2>1. \A q \in Process : process'[q].mark \in Held
    BY <1>0, <1>10, HeldBase DEF ClearReads, TypeOK, Local
  <2> QED
    BY <1>10, <2>1, HeldBase DEF ClearReads, durable, Inherits
<1> QED
  BY <1>1, <1>2, <1>3, <1>4, <1>5, <1>6, <1>7, <1>8, <1>9, <1>10 DEF SigningOut

LEMMA TabInherits ==
  ASSUME TypeOK, NEW t \in Tab,
         BeginEdit(t) \/ CommitEdit(t) \/ Replay(t) \/ Reload(t)
  PROVE  Inherits
<1>1. CASE BeginEdit(t)
  BY <1>1, HeldBase DEF BeginEdit, durable, Inherits, TypeOK
<1>2. CASE CommitEdit(t)
  BY <1>2, HeldBase DEF CommitEdit, Inherits, TypeOK
<1>3. CASE Replay(t)
  BY <1>3, HeldBase DEF Replay, Inherits
<1>4. CASE Reload(t)
  <2>0. Idle.mark = None
    BY DEF Idle
  <2>1. \A q \in Process : process'[q].mark \in Held
    BY <1>4, <2>0, HeldBase DEF Reload
  <2>2. \A u \in Tab : memory'[u].owner \in Held
    BY <1>4, HeldBase DEF Reload, Fresh, TypeOK
  <2> QED
    BY <1>4, <2>1, <2>2, HeldBase DEF Reload, durable, Inherits, TypeOK
<1> QED
  BY <1>1, <1>2, <1>3, <1>4

(* As long as no flow wrote the record over a change it had not seen,      *)
(* nobody holds the current epoch for another owner, whatever the tabs do: *)
(* the fence of guardWrite refuses every write of a past owner.            *)
THEOREM EpochOwned == Spec => []EpochNamesOwner
<1>1. TypeOK /\ EpochNamesOwner /\ [Next]_vars => EpochNamesOwner'
  <2> SUFFICES ASSUME TypeOK, EpochNamesOwner, [Next]_vars PROVE EpochNamesOwner'
    OBVIOUS
  <2>1. TypeOK'
    BY NextType
  <2>2. Inherits
    <3>1. ASSUME NEW p \in Process, NEW t \in Tab, Start(p, t) \/ React(p, t) PROVE Inherits
      BY <3>1, StartInherits
    <3>2. ASSUME NEW p \in Process, Step(p) PROVE Inherits
      BY <3>2, ResumingInherits, SigningInInherits, SigningOutInherits DEF Step
    <3>3. ASSUME NEW t \in Tab, BeginEdit(t) \/ CommitEdit(t) \/ Replay(t) \/ Reload(t)
          PROVE  Inherits
      BY <3>3, TabInherits
    <3>4. CASE UNCHANGED vars
      BY <3>4, HeldBase DEF vars, durable, Inherits
    <3> QED
      BY <3>1, <3>2, <3>3, <3>4 DEF Next
  <2> QED
    BY <2>1, <2>2, InheritsKeeps
<1> QED
  BY <1>1, InitOwner, TypeCorrect, PTL DEF Spec

----
(* A standing barrier is in somebody's hands.                              *)

(* The statements of a sign-out from completeExit on.                      *)
Concluding ==
  {"check", "bar", "clear", "clearing", "invalidate", "wipe", "defer", "undefer", "unbar",
   "notify"}

(* Only a sign-out completes a sign-out.                                   *)
ExitFlow(pr) ==
  /\ pr.role = "exit" => pr.flow = "exit" /\ pr.pc \in Concluding
  /\ \/ pr.pc \in {"begin", "work", "dialog", "exitlock", "complete"}
     \/ pr.after = "begin"
     => pr.flow = "exit"
  /\ pr.pc \in {"check", "bar", "clear", "clearing", "notify"} => pr.role = "exit"

(* Flows run in pages that are open, and a page has one sign-out at a time. *)
FlowsOpen == open # {} /\ \A p \in Process : process[p] # Idle => TabOf(p) \in open

ExitsDiffer ==
  \A p, q \in Process :
    process[p].flow = "exit" /\ process[q].flow = "exit" /\ TabOf(p) = TabOf(q) => p = q

(* A sign-out drops its marker after its barrier: if a barrier stands then, *)
(* another page put it up, and that page will be told.                     *)
BarLifted ==
  \A p \in Process : process[p].role = "exit" /\ At(p, "undefer") =>
    barrier = None \/ open # {TabOf(p)}

ExitInv ==
  /\ \A p \in Process : ExitFlow(process[p])
  /\ FlowsOpen /\ ExitsDiffer /\ BarLifted /\ BarrierInHand

LEMMA IdleExits == ExitFlow(Idle) /\ Idle.flow # "exit" /\ Idle.role # "exit" /\ Idle.pc = "idle"
BY NoneIsNoFlow DEF ExitFlow, Idle

(* What a flow keeps when only its statement changes.                      *)
Keeps(pr, r) ==
  /\ r.tab = pr.tab /\ r.flow = pr.flow /\ r.after = pr.after
  /\ r.role = pr.role /\ r.deferredSeen = pr.deferredSeen

Stays(p) == \A q \in Process \ {p} : process'[q] = process[q]

LEMMA ChangeStays ==
  ASSUME TypeOK, NEW p \in Process, NEW r, process' = [process EXCEPT ![p] = r]
  PROVE  process'[p] = r /\ Stays(p)
BY DEF TypeOK, Stays

LEMMA GotoStays ==
  ASSUME TypeOK, NEW p \in Process, NEW pc, Goto(p, pc)
  PROVE  /\ Stays(p)
         /\ \/ pc = "end" /\ process'[p] = Idle
            \/ pc # "end" /\ process'[p].pc = pc /\ Keeps(process[p], process'[p])
<1>1. CASE pc = "end"
  BY <1>1, ChangeStays DEF Goto
<1>2. CASE pc # "end"
  <2> DEFINE r == [process[p] EXCEPT !.pc = pc]
  <2>1. r.pc = pc /\ Keeps(process[p], r)
    BY DEF TypeOK, Local, Keeps
  <2>2. process' = [process EXCEPT ![p] = r]
    BY <1>2 DEF Goto
  <2> HIDE DEF r
  <2> QED
    BY <1>2, <2>1, <2>2, ChangeStays
<1> QED
  BY <1>1, <1>2

LEMMA CompleteStays ==
  ASSUME TypeOK, NEW p \in Process, NEW mode, Complete(p, mode)
  PROVE  Stays(p) /\ process'[p].pc = "exitlock" /\ Keeps(process[p], process'[p])
<1> DEFINE r == [process[p] EXCEPT !.pc = "exitlock", !.mode = mode]
<1>1. r.pc = "exitlock" /\ Keeps(process[p], r)
  BY DEF TypeOK, Local, Keeps
<1>2. process' = [process EXCEPT ![p] = r]
  BY Zenon DEF Complete
<1> HIDE DEF r
<1> QED
  BY <1>1, <1>2, ChangeStays

(* A flow that goes on stays a flow of its tab.                            *)
GoesOn(p) ==
  \/ process'[p] = Idle
  \/ /\ process[p].pc # "idle"
     /\ process'[p].tab = process[p].tab /\ process'[p].flow = process[p].flow
     /\ ExitFlow(process'[p])
     /\ process'[p].role = "exit" /\ process'[p].pc = "undefer" => ClearBarrier(p)

LEMMA GotoGoesOn ==
  ASSUME TypeOK, NEW p \in Process, ExitFlow(process[p]), NEW pc, Goto(p, pc),
         process[p].pc # "idle",
         process[p].role = "exit" => pc \in Concluding \cup {"end"},
         process[p].role = "exit" /\ pc = "undefer" => ClearBarrier(p),
         pc \in {"begin", "work", "dialog", "exitlock", "complete"} => process[p].flow = "exit",
         pc \in {"check", "bar", "clear", "clearing", "notify"} => process[p].role = "exit"
  PROVE  GoesOn(p)
<1>1. CASE process'[p] = Idle
  BY <1>1 DEF GoesOn
<1>2. CASE pc # "end" /\ process'[p].pc = pc /\ Keeps(process[p], process'[p])
  <2>1. process'[p].role = "exit" => process'[p].pc \in Concluding
    BY <1>2 DEF Keeps
  <2> QED
    BY <1>2, <2>1 DEF GoesOn, Keeps, ExitFlow
<1> QED
  BY <1>1, <1>2, GotoStays

(* A flow that returns is not one that completes a sign-out.               *)
LEMMA ReturnGoesOn ==
  ASSUME TypeOK, NEW p \in Process, ExitFlow(process[p]), process[p].pc # "idle",
         process[p].role # "exit", Goto(p, process[p].after)
  PROVE  GoesOn(p)
<1>1. process[p].after \in Return
  BY AtFacts
<1>2. process[p].after = "begin" => process[p].flow = "exit"
  BY DEF ExitFlow
<1> QED
  BY <1>1, <1>2, GotoGoesOn DEF Return

(* A flow whose request to sign out has returned.                          *)
LEMMA InvalidatedGoesOn ==
  ASSUME TypeOK, NEW q \in Process, ExitFlow(process[q]), At(q, "invalidate"),
         NEW settled \in BOOLEAN, process'[q] = Invalidated(process[q], settled)
  PROVE  GoesOn(q)
<1> DEFINE pc == AfterInvalidation(process[q], settled)
           r == [process[q] EXCEPT !.pc = pc, !.settled = settled]
<1>0. process[q] \in Local /\ process[q].pc = "invalidate"
  BY DEF TypeOK, At
<1>1. /\ pc \in {"wipe", "defer", process[q].after}
      /\ process[q].role = "exit" => pc = "wipe"
  BY DEF AfterInvalidation
<1>2. process[q].after \in Return /\ (process[q].after = "begin" => process[q].flow = "exit")
  BY <1>0 DEF Local, ExitFlow
<1>3. process'[q] = Idle \/ process'[q] = r
  BY DEF Invalidated
<1> HIDE DEF pc
<1>4. r.pc = pc /\ Keeps(process[q], r)
  BY <1>0 DEF Local, Keeps
<1> HIDE DEF r
<1>5. pc \notin {"check", "bar", "clear", "clearing", "notify", "work", "dialog", "exitlock",
                 "complete", "undefer"}
  BY <1>1, <1>2 DEF Return
<1>6. r.role = "exit" => r.flow = "exit" /\ r.pc = "wipe"
  BY <1>1, <1>4 DEF Keeps, ExitFlow
<1>7. r.pc = "begin" \/ r.after = "begin" => r.flow = "exit"
  BY <1>1, <1>2, <1>4 DEF Keeps
<1>8. ExitFlow(r)
  BY <1>4, <1>5, <1>6, <1>7 DEF ExitFlow, Concluding
<1> QED
  BY <1>0, <1>3, <1>4, <1>5, <1>8 DEF GoesOn, Keeps

(* The request is shared by the flows of the tab that wait for it.         *)
LEMMA InvalidateJoins ==
  ASSUME TypeOK, NEW p \in Process, Invalidate(p)
  PROVE  \E settled \in BOOLEAN : \A q \in Process :
           \/ q # p /\ process'[q] = process[q]
           \/ At(q, "invalidate") /\ process'[q] = Invalidated(process[q], settled)
<1>1. PICK settled \in BOOLEAN, joined \in SUBSET {q \in Process : At(q, "invalidate")} :
        process' = [q \in Process |-> IF q \in joined \cup {p}
                                     THEN Invalidated(process[q], settled) ELSE process[q]]
  BY DEF Invalidate
<1>2. \A q \in joined \cup {p} : At(q, "invalidate")
  BY <1>1 DEF Invalidate
<1> QED
  BY <1>1, <1>2

LEMMA ResumingGoesOn ==
  ASSUME TypeOK, NEW p \in Process, ExitFlow(process[p]), Resuming(p), ~ Invalidate(p)
  PROVE  GoesOn(p) /\ Stays(p)
<1>0. process[p] \in Local
  BY DEF TypeOK
<1>a. process[p].pc # "idle"
  BY DEF Resuming, Hydrate, Resume, Wipe, Defer, ClearDeferred, ClearBarrier, AbandonReads, At
<1>1. CASE Hydrate(p)
  <2>1. process[p].pc = "hydrate" /\ (Goto(p, "resume") \/ Goto(p, process[p].after))
    BY <1>1 DEF Hydrate, At
  <2>2. process[p].role # "exit"
    BY <2>1 DEF ExitFlow, Concluding
  <2> QED
    BY <2>1, <2>2, GotoGoesOn, ReturnGoesOn, GotoStays
<1>2. CASE Resume(p)
  <2>1. process[p].pc = "resume"
    BY <1>2 DEF Resume, At
  <2>2. process[p].role # "exit"
    BY <2>1 DEF ExitFlow, Concluding
  <2>3. CASE ~ Exiting
    BY <1>2, <2>1, <2>2, <2>3, ReturnGoesOn, GotoStays DEF Resume
  <2>4. CASE Exiting
    <3> DEFINE seen == deferred # None
               r == [process[p] EXCEPT !.pc = "invalidate", !.role = "resume",
                       !.mark = LatestMark, !.deferredSeen = seen]
    <3>1. process' = [process EXCEPT ![p] = r]
      BY <1>2, <2>4, Zenon DEF Resume
    <3> HIDE DEF seen
    <3>2. /\ r.pc = "invalidate" /\ r.role = "resume" /\ r.tab = process[p].tab
          /\ r.flow = process[p].flow /\ r.after = process[p].after
      BY <1>0 DEF Local
    <3> HIDE DEF r
    <3>3. process'[p] = r /\ Stays(p)
      BY <3>1, ChangeStays
    <3> QED
      BY <1>a, <3>2, <3>3 DEF GoesOn, ExitFlow
  <2> QED
    BY <2>3, <2>4
<1>4. CASE Wipe(p)
  <2>1. \/ Goto(p, "undefer") /\ process[p].role # "exit"
        \/ Goto(p, "unbar")
        \/ Goto(p, "defer")
    BY <1>4 DEF Wipe
  <2>2. \A pc : Goto(p, pc) => Stays(p)
    BY GotoStays
  <2> QED
    BY <1>a, <2>1, <2>2, GotoGoesOn DEF Concluding
<1>5. CASE Defer(p)
  <2>1. \/ Goto(p, "notify") /\ process[p].role = "exit"
        \/ Goto(p, process[p].after) /\ process[p].role # "exit"
    BY <1>5 DEF Defer
  <2> QED
    BY <1>a, <2>1, GotoGoesOn, ReturnGoesOn, GotoStays DEF Concluding
<1>6. CASE ClearDeferred(p)
  <2>1. \/ Goto(p, "notify") /\ process[p].role = "exit"
        \/ Goto(p, "unbar") /\ process[p].role # "exit"
    BY <1>6 DEF ClearDeferred
  <2> QED
    BY <1>a, <2>1, GotoGoesOn, GotoStays DEF Concluding
<1>7. CASE ClearBarrier(p)
  <2>1. \/ Goto(p, "undefer") /\ process[p].role = "exit"
        \/ Goto(p, process[p].after) /\ process[p].role # "exit"
    BY <1>7 DEF ClearBarrier
  <2> QED
    BY <1>a, <1>7, <2>1, GotoGoesOn, ReturnGoesOn, GotoStays DEF Concluding
<1>8. CASE AbandonReads(p)
  <2> DEFINE pc == IF Exiting THEN "wipe" ELSE "undefer"
             r == [process[p] EXCEPT !.mark = LatestMark, !.role = "abandon", !.pc = pc]
  <2>1. process' = [process EXCEPT ![p] = r]
    BY <1>8, Zenon DEF AbandonReads
  <2>2. pc \in {"wipe", "undefer"}
    OBVIOUS
  <2> HIDE DEF pc
  <2>3. /\ r.pc = pc /\ r.role = "abandon" /\ r.tab = process[p].tab
        /\ r.flow = process[p].flow /\ r.after = process[p].after
    BY <1>0 DEF Local
  <2> HIDE DEF r
  <2>4. process'[p] = r /\ Stays(p)
    BY <2>1, ChangeStays
  <2> QED
    BY <1>a, <2>2, <2>3, <2>4 DEF GoesOn, ExitFlow
<1> QED
  BY <1>1, <1>2, <1>4, <1>5, <1>6, <1>7, <1>8 DEF Resuming

LEMMA SigningInGoesOn ==
  ASSUME TypeOK, NEW p \in Process, ExitFlow(process[p]), SigningIn(p)
  PROVE  GoesOn(p) /\ Stays(p)
<1>0. process[p] \in Local
  BY DEF TypeOK
<1>1. process[p].pc \in {"bootstrap", "login", "hydrated", "origin", "refresh", "gate",
                         "establish", "establishing"}
  BY DEF SigningIn, BootstrapLocks, Login, HydrateAgain, CaptureEpoch, CallRefresh, Gate,
         EstablishReads, Establish, At
<1>2. process[p].role # "exit"
  BY <1>1 DEF ExitFlow, Concluding
<1>3. ASSUME NEW pc \in {"hydrate", "establish", "end"}, Goto(p, pc)
      PROVE  GoesOn(p) /\ Stays(p)
  BY <1>1, <1>2, <1>3, GotoGoesOn, GotoStays
<1>4. ASSUME NEW r, process' = [process EXCEPT ![p] = r],
             r.tab = process[p].tab, r.flow = process[p].flow, r.role = process[p].role,
             r.pc \in {"origin", "hydrate", "refresh", "establishing"},
             r.after \in {process[p].after, "gate"}
      PROVE  GoesOn(p) /\ Stays(p)
  <2>1. process'[p] = r /\ Stays(p)
    BY <1>4, ChangeStays
  <2> QED
    BY <1>1, <1>2, <1>4, <2>1 DEF GoesOn, ExitFlow
<1>5. CASE BootstrapLocks(p)
  <2> DEFINE r == [process[p] EXCEPT !.pc = "origin", !.after = "gate", !.locked = Unlocked]
  <2>1. /\ r.tab = process[p].tab /\ r.flow = process[p].flow /\ r.role = process[p].role
        /\ r.pc = "origin" /\ r.after = "gate"
    BY <1>0 DEF Local
  <2>2. process' = [process EXCEPT ![p] = r]
    BY <1>5, Zenon DEF BootstrapLocks
  <2> HIDE DEF r
  <2> QED
    BY <1>4, <2>1, <2>2
<1>6. CASE HydrateAgain(p)
  <2> DEFINE r == [process[p] EXCEPT !.pc = "hydrate", !.after = "gate"]
  <2>1. /\ r.tab = process[p].tab /\ r.flow = process[p].flow /\ r.role = process[p].role
        /\ r.pc = "hydrate" /\ r.after = "gate"
    BY <1>0 DEF Local
  <2>2. process' = [process EXCEPT ![p] = r]
    BY <1>6, Zenon DEF HydrateAgain
  <2> HIDE DEF r
  <2> QED
    BY <1>4, <2>1, <2>2
<1>7. CASE CaptureEpoch(p)
  <2> DEFINE epoch == IF Here(p).owner # None THEN Here(p).owner.epoch ELSE record.epoch
             r == [process[p] EXCEPT !.pc = "refresh", !.epoch = epoch]
  <2>1. process' = [process EXCEPT ![p] = r]
    BY <1>7, Zenon DEF CaptureEpoch
  <2> HIDE DEF epoch
  <2>2. /\ r.tab = process[p].tab /\ r.flow = process[p].flow /\ r.role = process[p].role
        /\ r.pc = "refresh" /\ r.after = process[p].after
    BY <1>0 DEF Local
  <2> HIDE DEF r
  <2> QED
    BY <1>4, <2>1, <2>2
<1>8. CASE CallRefresh(p)
  <2>1. \/ process' = [process EXCEPT ![p].pc = "hydrate", ![p].subject = cookie]
        \/ Goto(p, "end")
    BY <1>8, Zenon DEF CallRefresh
  <2>2. CASE process' = [process EXCEPT ![p].pc = "hydrate", ![p].subject = cookie]
    <3> DEFINE r == [process[p] EXCEPT !.pc = "hydrate", !.subject = cookie]
    <3>1. /\ r.tab = process[p].tab /\ r.flow = process[p].flow /\ r.role = process[p].role
          /\ r.pc = "hydrate" /\ r.after = process[p].after
      BY <1>0 DEF Local
    <3>2. process' = [process EXCEPT ![p] = r]
      BY <2>2
    <3> HIDE DEF r
    <3> QED
      BY <1>4, <3>1, <3>2
  <2> QED
    BY <1>3, <2>1, <2>2
<1>9. CASE Login(p) \/ Gate(p) \/ Establish(p)
  <2>1. \E pc \in {"hydrate", "establish", "end"} : Goto(p, pc)
    BY <1>9, Zenon DEF Login, Gate, Establish
  <2> QED
    BY <1>3, <2>1
<1>10. CASE EstablishReads(p)
  <2> DEFINE r == [process[p] EXCEPT !.pc = "establishing", !.seen = record]
  <2>1. /\ r.tab = process[p].tab /\ r.flow = process[p].flow /\ r.role = process[p].role
        /\ r.pc = "establishing" /\ r.after = process[p].after
    BY <1>0 DEF Local
  <2>2. process' = [process EXCEPT ![p] = r]
    BY <1>10, Zenon DEF EstablishReads
  <2> HIDE DEF r
  <2> QED
    BY <1>4, <2>1, <2>2
<1> QED
  BY <1>5, <1>6, <1>7, <1>8, <1>9, <1>10 DEF SigningIn

LEMMA SigningOutGoesOn ==
  ASSUME TypeOK, NEW p \in Process, ExitFlow(process[p]), SigningOut(p)
  PROVE  GoesOn(p) /\ Stays(p)
<1>0. process[p] \in Local
  BY DEF TypeOK
<1>a. process[p].pc # "idle"
  BY DEF SigningOut, BeginExit, ReadWork, Choose, ExitLocks, CompleteExit, CheckDrained,
         PersistBarrier, ClearReads, ClearOwner, Notify, At
<1>1. CASE BeginExit(p) \/ ReadWork(p) \/ Choose(p)
  <2>1. process[p].pc \in {"begin", "work", "dialog"}
    BY <1>1 DEF BeginExit, ReadWork, Choose, At
  <2>2. process[p].flow = "exit" /\ process[p].role # "exit"
    BY <2>1 DEF ExitFlow, Concluding
  <2>3. \/ \E pc \in {"work", "dialog", "end"} : Goto(p, pc)
        \/ \E mode \in {"drained", "sync", "discard"} : Complete(p, mode)
    BY <1>1, Zenon DEF BeginExit, ReadWork, Choose
  <2>4. ASSUME NEW pc \in {"work", "dialog", "end"}, Goto(p, pc) PROVE GoesOn(p) /\ Stays(p)
    BY <1>a, <2>2, <2>4, GotoGoesOn, GotoStays
  <2>5. ASSUME NEW mode, Complete(p, mode) PROVE GoesOn(p) /\ Stays(p)
    <3>1. Stays(p) /\ process'[p].pc = "exitlock" /\ Keeps(process[p], process'[p])
      BY <2>5, CompleteStays
    <3> QED
      BY <1>a, <2>2, <3>1 DEF GoesOn, Keeps, ExitFlow
  <2> QED
    BY <2>3, <2>4, <2>5
<1>2. CASE ExitLocks(p)
  <2> DEFINE r == [process[p] EXCEPT !.pc = "complete", !.locked = Unlocked]
  <2>1. /\ r.tab = process[p].tab /\ r.flow = process[p].flow /\ r.role = process[p].role
        /\ r.pc = "complete"
    BY <1>0 DEF Local
  <2>2. process' = [process EXCEPT ![p] = r] /\ process[p].pc = "exitlock"
    BY <1>2, Zenon DEF ExitLocks, At
  <2>3. process[p].flow = "exit" /\ process[p].role # "exit"
    BY <2>2 DEF ExitFlow, Concluding
  <2> HIDE DEF r
  <2>4. process'[p] = r /\ Stays(p)
    BY <2>2, ChangeStays
  <2> QED
    BY <1>a, <2>1, <2>3, <2>4 DEF GoesOn, ExitFlow
<1>3. CASE CompleteExit(p)
  <2>1. process[p].pc = "complete"
    BY <1>3 DEF CompleteExit, At
  <2>2. process[p].flow = "exit" /\ process[p].role # "exit"
    BY <2>1 DEF ExitFlow, Concluding
  <2>3. CASE Here(p).owner = None /\ deferred # None
    <3>1. Goto(p, "end")
      BY <1>3, <2>3 DEF CompleteExit
    <3> QED
      BY <3>1, GotoStays DEF GoesOn
  <2>4. CASE Here(p).owner = None /\ deferred = None
    <3> DEFINE r == [process[p] EXCEPT !.pc = "unbar", !.after = "end"]
    <3>1. process' = [process EXCEPT ![p] = r]
      BY <1>3, <2>4 DEF CompleteExit
    <3>2. /\ r.tab = process[p].tab /\ r.flow = process[p].flow /\ r.role = process[p].role
          /\ r.pc = "unbar" /\ r.after = "end"
      BY <1>0 DEF Local
    <3> HIDE DEF r
    <3>3. process'[p] = r /\ Stays(p)
      BY <3>1, ChangeStays
    <3> QED
      BY <1>a, <2>2, <3>2, <3>3 DEF GoesOn, ExitFlow
  <2>5. CASE Here(p).owner # None
    <3> DEFINE pc == IF process[p].mode = "sync" THEN "check" ELSE "bar"
               owner == Here(p).owner
               r == [process[p] EXCEPT !.mark = owner, !.role = "exit", !.pc = pc]
    <3>1. process' = [process EXCEPT ![p] = r]
      BY <1>3, <2>5 DEF CompleteExit
    <3> HIDE DEF owner
    <3>2. pc \in {"check", "bar"}
      OBVIOUS
    <3> HIDE DEF pc
    <3>3. /\ r.tab = process[p].tab /\ r.flow = process[p].flow
          /\ r.role = "exit" /\ r.pc = pc
      BY <1>0 DEF Local
    <3> HIDE DEF r
    <3>4. process'[p] = r /\ Stays(p)
      BY <3>1, ChangeStays
    <3> QED
      BY <1>a, <2>2, <3>2, <3>3, <3>4 DEF GoesOn, ExitFlow, Concluding
  <2> QED
    BY <2>3, <2>4, <2>5
<1>4. CASE CheckDrained(p)
  <2>1. process[p].pc = "check"
    BY <1>4 DEF CheckDrained, At
  <2>2. process[p].role = "exit" /\ process[p].flow = "exit"
    BY <2>1 DEF ExitFlow
  <2>3. CASE Goto(p, "bar")
    BY <1>a, <2>2, <2>3, GotoGoesOn, GotoStays DEF Concluding
  <2>4. CASE process' = [process EXCEPT ![p] =
                  NewFlow(TabOf(p), "exit", "hydrate", "begin", None, FALSE)]
    <3> DEFINE r == NewFlow(TabOf(p), "exit", "hydrate", "begin", None, FALSE)
    <3>1. /\ r.tab = process[p].tab /\ r.flow = "exit" /\ r.role = None
          /\ r.pc = "hydrate"
      BY DEF NewFlow, TabOf
    <3>2. process'[p] = r /\ Stays(p)
      BY <2>4, ChangeStays
    <3> HIDE DEF r
    <3> QED
      BY <1>a, <2>2, <3>1, <3>2, NoneIsNoFlow DEF GoesOn, ExitFlow
  <2> QED
    BY <1>4, <2>3, <2>4, CheckCases
<1>5. CASE PersistBarrier(p) \/ ClearOwner(p)
  <2>1. process[p].pc \in {"bar", "clearing"} /\ (Goto(p, "clear") \/ Goto(p, "invalidate"))
    BY <1>5 DEF PersistBarrier, ClearOwner, At
  <2>2. process[p].role = "exit"
    BY <2>1 DEF ExitFlow
  <2> QED
    BY <1>a, <2>1, <2>2, GotoGoesOn, GotoStays DEF Concluding
<1>6. CASE ClearReads(p)
  <2> DEFINE r == [process[p] EXCEPT !.pc = "clearing", !.seen = record]
  <2>1. /\ r.tab = process[p].tab /\ r.flow = process[p].flow /\ r.role = process[p].role
        /\ r.pc = "clearing"
    BY <1>0 DEF Local
  <2>2. process' = [process EXCEPT ![p] = r] /\ process[p].pc = "clear"
    BY <1>6, Zenon DEF ClearReads, At
  <2>3. process[p].role = "exit" /\ process[p].flow = "exit"
    BY <2>2 DEF ExitFlow
  <2> HIDE DEF r
  <2>4. process'[p] = r /\ Stays(p)
    BY <2>2, ChangeStays
  <2> QED
    BY <1>a, <2>1, <2>3, <2>4 DEF GoesOn, ExitFlow, Concluding
<1>7. CASE Notify(p)
  BY <1>7, GotoStays DEF Notify, GoesOn
<1> QED
  BY <1>1, <1>2, <1>3, <1>4, <1>5, <1>6, <1>7 DEF SigningOut

(* In a step of a flow every flow stays as it is or goes on.               *)
LEMMA StepGoesOn ==
  ASSUME TypeOK, NEW p \in Process, \A q \in Process : ExitFlow(process[q]), Step(p)
  PROVE  \A q \in Process : process'[q] = process[q] \/ GoesOn(q)
<1>1. CASE Invalidate(p)
  BY <1>1, InvalidateJoins, InvalidatedGoesOn
<1>2. CASE ~ Invalidate(p)
  BY <1>2, ResumingGoesOn, SigningInGoesOn, SigningOutGoesOn DEF Step, Stays
<1> QED
  BY <1>1, <1>2


(* How a flow starts.                                                      *)
StartsAs(p, t) ==
  /\ Stays(p) /\ t \in open /\ UNCHANGED <<open, barrier, deferred>>
  /\ process[p] = Idle /\ process'[p].tab = t
  /\ ExitFlow(process'[p])
  /\ process'[p].role = None
  /\ \A q \in Process : process[q].tab = t => process[q].flow # process'[p].flow
  /\ UNCHANGED <<boots, notices>> \/ process'[p].pc \in {"resume", "hydrate"}

LEMMA StartsFresh ==
  ASSUME TypeOK, NEW p \in Process, NEW t \in Tab, Start(p, t) \/ React(p, t)
  PROVE  StartsAs(p, t)
<1> DEFINE Goal == StartsAs(p, t)
<1>1. ASSUME NEW flow, NEW pc, NEW after, NEW s, NEW locked, Available(p, t, flow),
             Launch(p, t, flow, pc, after, s, locked),
             pc \in {"login", "origin", "hydrate", "resume", "abandon"},
             after # "begin" \/ flow = "exit",
             UNCHANGED <<boots, notices>> \/ pc \in {"resume", "hydrate"},
             UNCHANGED <<open, barrier, deferred>>
      PROVE  Goal
  <2> DEFINE r == NewFlow(t, flow, pc, after, s, locked)
  <2>1. /\ r.tab = t /\ r.flow = flow /\ r.pc = pc /\ r.after = after /\ r.role = None
    BY DEF NewFlow
  <2>2. process' = [process EXCEPT ![p] = r]
    BY <1>1 DEF Launch
  <2> HIDE DEF r
  <2>3. process'[p] = r /\ Stays(p)
    BY <2>2, ChangeStays
  <2>4. ExitFlow(r)
    BY <1>1, <2>1, NoneIsNoFlow DEF ExitFlow
  <2>5. /\ process[p] = Idle /\ t \in open
        /\ \A q \in Process : process[q].tab = t => process[q].flow # flow
    BY <1>1 DEF Available
  <2>6. UNCHANGED <<boots, notices>> \/ process'[p].pc \in {"resume", "hydrate"}
    BY <1>1, <2>1, <2>3
  <2>7. /\ process'[p].tab = t /\ process'[p].role = None /\ ExitFlow(process'[p])
        /\ process'[p].flow = flow
    BY <2>1, <2>3, <2>4
  <2> QED
    BY <1>1, <2>3, <2>5, <2>6, <2>7 DEF StartsAs
<1>2. ASSUME NEW s \in Subject, SignIn(p, t, s) PROVE Goal
  <2>1. /\ Available(p, t, "signin") /\ Launch(p, t, "signin", "login", "hydrated", s, Unlocked)
        /\ UNCHANGED <<boots, notices>> /\ UNCHANGED <<open, barrier, deferred>>
    BY <1>2, Zenon DEF SignIn, durable
  <2> QED
    BY <1>1, <2>1
<1>3. ASSUME Refresh(p, t) PROVE Goal
  <2>1. /\ Available(p, t, "refresh") /\ Launch(p, t, "refresh", "origin", "gate", None, Unlocked)
        /\ UNCHANGED <<boots, notices>> /\ UNCHANGED <<open, barrier, deferred>>
    BY <1>3, Zenon DEF Refresh, durable
  <2> QED
    BY <1>1, <2>1
<1>4. ASSUME Bootstrap(p, t) PROVE Goal
  <2>1. /\ Available(p, t, "refresh")
        /\ Launch(p, t, "refresh", "hydrate", "bootstrap", None, FALSE)
        /\ UNCHANGED <<open, barrier, deferred>>
    BY <1>4, Zenon DEF Bootstrap, durable
  <2> QED
    BY <1>1, <2>1
<1>5. ASSUME RequestExit(p, t) PROVE Goal
  <2>1. /\ Available(p, t, "exit")
        /\ Launch(p, t, "exit", "hydrate", "begin", None, FALSE)
        /\ UNCHANGED <<open, barrier, deferred>>
    BY <1>5, Zenon DEF RequestExit, durable
  <2> QED
    BY <1>1, <2>1
<1>6. ASSUME Abandon(p, t) PROVE Goal
  <2>1. /\ Available(p, t, "abandon")
        /\ Launch(p, t, "abandon", "abandon", "end", None, FALSE)
        /\ UNCHANGED <<boots, notices>> /\ UNCHANGED <<open, barrier, deferred>>
    BY <1>6, Zenon DEF Abandon, durable
  <2> QED
    BY <1>1, <2>1
<1>7. ASSUME Boot(p, t) PROVE Goal
  <2>1. /\ Available(p, t, "boot") /\ Launch(p, t, "boot", "resume", "end", None, Unlocked)
        /\ UNCHANGED <<open, barrier, deferred>>
    BY <1>7, Zenon DEF Boot, durable
  <2> QED
    BY <1>1, <2>1
<1>8. ASSUME HearExit(p, t) PROVE Goal
  <2>1. /\ Available(p, t, "notice")
        /\ Launch(p, t, "notice", "hydrate", "end", None, FALSE)
        /\ UNCHANGED <<open, barrier, deferred>>
    BY <1>8, Zenon DEF HearExit, durable
  <2> QED
    BY <1>1, <2>1
<1> QED
  BY <1>2, <1>3, <1>4, <1>5, <1>6, <1>7, <1>8 DEF Start, React

(* A page that goes away takes its flows with it; a write touches none.    *)
LEMMA PageStep ==
  ASSUME TypeOK, NEW t \in Tab, BeginEdit(t) \/ CommitEdit(t) \/ Replay(t) \/ Reload(t)
  PROVE  /\ UNCHANGED <<open, barrier, deferred>>
         /\ \A q \in Process : process'[q] = process[q] \/ process'[q] = Idle
         /\ boots' # {} \/ UNCHANGED <<process, boots, notices>>
<1>1. CASE BeginEdit(t) \/ CommitEdit(t) \/ Replay(t)
  BY <1>1, Zenon DEF BeginEdit, CommitEdit, Replay, durable, mail
<1>2. CASE Reload(t)
  <2>1. /\ process' = [p \in Process |-> IF TabOf(p) = t THEN Idle ELSE process[p]]
        /\ boots' = boots \cup {t} /\ UNCHANGED <<open, barrier, deferred>>
    BY <1>2, Zenon DEF Reload, durable
  <2> QED
    BY <2>1
<1> QED
  BY <1>1, <1>2

(* A flow leaves the boot effects to run, and only adds notices.           *)
LEMMA StepMail ==
  ASSUME NEW p \in Process, Step(p)
  PROVE  UNCHANGED <<open, boots>> /\ notices \subseteq notices'
<1>1. CASE Resuming(p)
  BY <1>1, Zenon DEF Resuming, Hydrate, Resume, Invalidate, Wipe, Defer, ClearDeferred,
     ClearBarrier, AbandonReads, mail
<1>2. CASE SigningIn(p)
  BY <1>2, Zenon DEF SigningIn, BootstrapLocks, Login, HydrateAgain, CaptureEpoch, CallRefresh,
     Gate, EstablishReads, Establish, mail
<1>3. CASE SigningOut(p)
  <2>1. CASE Notify(p)
    BY <2>1 DEF Notify
  <2> QED
    BY <1>3, <2>1, Zenon DEF SigningOut, BeginExit, ReadWork, Choose, ExitLocks, CompleteExit,
       CheckDrained, PersistBarrier, ClearReads, ClearOwner, mail
<1> QED
  BY <1>1, <1>2, <1>3 DEF Step

(* Who writes the barrier and the marker.                                  *)
LEMMA StepMarks ==
  ASSUME NEW p \in Process, Step(p)
  PROVE  /\ barrier' = barrier \/ barrier' = None \/ PersistBarrier(p)
         /\ deferred' = deferred \/ Defer(p) \/ ClearDeferred(p)
<1>1. CASE Resuming(p)
  BY <1>1, Zenon DEF Resuming, Hydrate, Resume, Invalidate, Wipe, Defer, ClearDeferred,
     ClearBarrier, AbandonReads, durable
<1>2. CASE SigningIn(p)
  BY <1>2, Zenon DEF SigningIn, BootstrapLocks, Login, HydrateAgain, CaptureEpoch,
     CallRefresh, Gate, EstablishReads, Establish, durable
<1>3. CASE SigningOut(p)
  BY <1>3, Zenon DEF SigningOut, BeginExit, ReadWork, Choose, ExitLocks, CompleteExit,
     CheckDrained, PersistBarrier, ClearReads, ClearOwner, Notify, durable
<1> QED
  BY <1>1, <1>2, <1>3 DEF Step

(* What a step of any kind leaves of the flows.                            *)
LEMMA FlowsStep ==
  ASSUME TypeOK, \A q \in Process : ExitFlow(process[q]), [Next]_vars
  PROVE  /\ open' = open
         /\ \/ \E p \in Process, t \in Tab : StartsAs(p, t)
            \/ \A q \in Process : process'[q] = process[q] \/ process'[q] = Idle \/ GoesOn(q)
<1>1. ASSUME NEW p \in Process, NEW t \in Tab, Start(p, t) \/ React(p, t)
      PROVE  open' = open /\ StartsAs(p, t)
  BY <1>1, StartsFresh DEF StartsAs
<1>2. ASSUME NEW p \in Process, Step(p)
      PROVE  open' = open /\ \A q \in Process : process'[q] = process[q] \/ GoesOn(q)
  BY <1>2, StepGoesOn, StepMail
<1>3. ASSUME NEW t \in Tab, BeginEdit(t) \/ CommitEdit(t) \/ Replay(t) \/ Reload(t)
      PROVE  open' = open /\ \A q \in Process : process'[q] = process[q] \/ process'[q] = Idle
  BY <1>3, PageStep
<1>4. CASE UNCHANGED vars
  BY <1>4 DEF vars
<1> QED
  BY <1>1, <1>2, <1>3, <1>4 DEF Next

LEMMA ExitFlowsStep ==
  ASSUME TypeOK, ExitInv, [Next]_vars
  PROVE  (\A p \in Process : ExitFlow(process'[p])) /\ FlowsOpen' /\ ExitsDiffer'
<1> DEFINE Goal == (\A p \in Process : ExitFlow(process'[p])) /\ FlowsOpen' /\ ExitsDiffer'
<1>1. /\ \A p \in Process : ExitFlow(process[p])
      /\ open # {} /\ \A p \in Process : process[p] # Idle => process[p].tab \in open
      /\ \A p, q \in Process :
           /\ process[p].flow = "exit" /\ process[q].flow = "exit"
           /\ process[p].tab = process[q].tab
           => p = q
  BY DEF ExitInv, FlowsOpen, ExitsDiffer, TabOf
<1>2. ASSUME \A p \in Process : ExitFlow(process'[p]),
             open' # {}, \A p \in Process : process'[p] # Idle => process'[p].tab \in open',
             \A p, q \in Process :
               /\ process'[p].flow = "exit" /\ process'[q].flow = "exit"
               /\ process'[p].tab = process'[q].tab
               => p = q
      PROVE  Goal
  BY <1>2 DEF FlowsOpen, ExitsDiffer, TabOf
<1>3. ASSUME NEW p \in Process, NEW t \in Tab, StartsAs(p, t)
      PROVE  Goal
  <2>1. /\ \A q \in Process \ {p} : process'[q] = process[q]
        /\ t \in open /\ open' = open /\ process'[p].tab = t /\ ExitFlow(process'[p])
        /\ \A q \in Process : process[q].tab = t => process[q].flow # process'[p].flow
    BY <1>3 DEF StartsAs, Stays
  <2>2. \A q \in Process : ExitFlow(process'[q])
    BY <1>1, <2>1
  <2>3. \A q \in Process : process'[q] # Idle => process'[q].tab \in open'
    BY <1>1, <2>1
  <2>4. \A q, r \in Process :
          /\ process'[q].flow = "exit" /\ process'[r].flow = "exit"
          /\ process'[q].tab = process'[r].tab
          => q = r
    BY <1>1, <2>1
  <2> QED
    BY <1>1, <1>2, <2>1, <2>2, <2>3, <2>4
<1>4. ASSUME open' = open,
             \A q \in Process : process'[q] = process[q] \/ process'[q] = Idle \/ GoesOn(q)
      PROVE  Goal
  <2>1. \A q \in Process :
          \/ process'[q] = Idle
          \/ /\ process'[q].tab = process[q].tab /\ process'[q].flow = process[q].flow
             /\ process[q] # Idle /\ ExitFlow(process'[q])
    BY <1>1, <1>4, IdleExits DEF GoesOn
  <2>2. \A q \in Process : ExitFlow(process'[q])
    BY <2>1, IdleExits
  <2>3. \A q \in Process : process'[q] # Idle => process'[q].tab \in open'
    BY <1>1, <1>4, <2>1
  <2>4. \A q, r \in Process :
          /\ process'[q].flow = "exit" /\ process'[r].flow = "exit"
          /\ process'[q].tab = process'[r].tab
          => q = r
    BY <1>1, <2>1, IdleExits
  <2> QED
    BY <1>1, <1>2, <1>4, <2>2, <2>3, <2>4
<1> QED
  BY <1>1, <1>3, <1>4, FlowsStep

LEMMA BarLiftedStep ==
  ASSUME TypeOK, ExitInv, [Next]_vars
  PROVE  BarLifted'
<1> SUFFICES ASSUME NEW q \in Process, process'[q].role = "exit", process'[q].pc = "undefer"
             PROVE  barrier' = None \/ open' # {process'[q].tab}
  BY DEF BarLifted, At, TabOf
<1>1. /\ \A p \in Process : ExitFlow(process[p])
      /\ process[q].role = "exit" /\ process[q].pc = "undefer" =>
           barrier = None \/ open # {process[q].tab}
  BY DEF ExitInv, BarLifted, At, TabOf
<1>2. Idle.role # "exit" /\ None # "exit"
  BY IdleExits, NoneIsNoFlow
<1>3. ASSUME NEW p \in Process, NEW t \in Tab, Start(p, t) \/ React(p, t)
      PROVE  barrier' = None \/ open' # {process'[q].tab}
  <2>1. StartsAs(p, t)
    BY <1>3, StartsFresh
  <2> QED
    BY <1>1, <1>2, <2>1 DEF StartsAs, Stays
<1>4. ASSUME NEW p \in Process, Step(p)
      PROVE  barrier' = None \/ open' # {process'[q].tab}
  <2>1. open' = open /\ (process'[q] = process[q] \/ GoesOn(q))
    BY <1>1, <1>4, StepGoesOn, StepMail
  <2>2. CASE GoesOn(q)
    <3>1. ClearBarrier(q)
      BY <1>2, <2>2 DEF GoesOn
    <3> QED
      BY <3>1 DEF ClearBarrier
  <2>3. CASE process'[q] = process[q]
    <3>1. process[q].flow = "exit"
      BY <1>1, <2>3 DEF ExitFlow
    <3>2. ASSUME PersistBarrier(p) PROVE open # {process[q].tab}
      <4>1. process[p].pc = "bar"
        BY <3>2 DEF PersistBarrier, At
      <4>2. process[p].flow = "exit" /\ process[p] # Idle
        BY <1>1, <4>1, IdleExits DEF ExitFlow
      <4>3. process[p].tab # process[q].tab
        BY <2>3, <3>1, <4>1, <4>2 DEF ExitInv, ExitsDiffer, TabOf
      <4> QED
        BY <4>2, <4>3 DEF ExitInv, FlowsOpen, TabOf
    <3> QED
      BY <1>1, <1>4, <2>1, <2>3, <3>2, StepMarks
  <2> QED
    BY <2>1, <2>2, <2>3
<1>5. ASSUME NEW t \in Tab, BeginEdit(t) \/ CommitEdit(t) \/ Replay(t) \/ Reload(t)
      PROVE  barrier' = None \/ open' # {process'[q].tab}
  BY <1>1, <1>2, <1>5, PageStep
<1>6. CASE UNCHANGED vars
  BY <1>1, <1>6 DEF vars, durable
<1> QED
  BY <1>3, <1>4, <1>5, <1>6 DEF Next

(* The marker of a deferred sign-out is one.                               *)
LEMMA DeferMarks ==
  ASSUME TypeOK, NEW p \in Process, Defer(p)
  PROVE  deferred' # None
<1>1. process[p].mark \in Mark
  BY DEF Defer, At, TypeOK, Sound, Cleaning
<1> QED
  BY <1>1, NoneIsNoOwner DEF Defer, Mark, Owner

(* A flow that has the barrier in hand keeps it, lifts it, leaves the      *)
(* marker or tells another page.                                           *)
Onward(p) == (Resolves(process[p]))' \/ notices' # {}

LEMMA InvalidateOn ==
  ASSUME TypeOK, NEW p \in Process, NEW q \in Process, Invalidate(p),
         process'[q] # process[q], Resolves(process[q])
  PROVE  Onward(q)
<1>1. PICK settled \in BOOLEAN :
        process'[q] = Invalidated(process[q], settled) /\ At(q, "invalidate")
  BY InvalidateJoins
<1>2. process[q].role = "exit" \/ ~ process[q].deferredSeen
  BY <1>1 DEF At, Resolves
<1> DEFINE next == AfterInvalidation(process[q], settled)
           r == [process[q] EXCEPT !.pc = next, !.settled = settled]
<1>3. next \in {"wipe", "defer"}
  BY <1>2 DEF AfterInvalidation
<1>4. process'[q] = r
  BY <1>1, <1>3 DEF Invalidated
<1> HIDE DEF next
<1>5. process[q] \in Local
  BY DEF TypeOK
<1>6. r.pc = next
  BY <1>5 DEF Local
<1> HIDE DEF r
<1> QED
  BY <1>3, <1>4, <1>6 DEF Onward, Resolves

LEMMA GotoOn ==
  ASSUME TypeOK, NEW p \in Process, NEW pc \in {"resume", "wipe", "defer", "unbar"}, Goto(p, pc)
  PROVE  Onward(p)
BY GotoStays DEF Onward, Resolves

LEMMA ResolvesOn ==
  ASSUME TypeOK, FlowsOpen, NEW p \in Process, Step(p), ~ Invalidate(p),
         ExitFlow(process[p]), Resolves(process[p]),
         barrier # None, deferred = None, barrier' # None, deferred' = None
  PROVE  Onward(p)
<1>0. Exiting /\ process[p] \in Local
  BY DEF Exiting, TypeOK
<1>1. process[p].pc \in {"hydrate", "resume", "abandon", "clear", "clearing", "wipe", "defer",
                         "unbar", "undefer", "invalidate", "notify"}
  BY DEF Resolves
<1>2. \/ Hydrate(p) \/ Resume(p) \/ Wipe(p) \/ Defer(p) \/ ClearDeferred(p) \/ ClearBarrier(p)
      \/ AbandonReads(p) \/ ClearReads(p) \/ ClearOwner(p) \/ Notify(p)
  <2>1. ~ SigningIn(p)
    BY <1>1 DEF SigningIn, BootstrapLocks, Login, HydrateAgain, CaptureEpoch, CallRefresh, Gate,
                EstablishReads, Establish, At
  <2>2. SigningOut(p) => ClearReads(p) \/ ClearOwner(p) \/ Notify(p)
    BY <1>1 DEF SigningOut, BeginExit, ReadWork, Choose, ExitLocks, CompleteExit,
                CheckDrained, PersistBarrier, At
  <2> QED
    BY <2>1, <2>2 DEF Step, Resuming
<1>3. CASE Hydrate(p)
  <2>1. Goto(p, "resume")
    BY <1>0, <1>3 DEF Hydrate
  <2> QED
    BY <2>1, GotoOn
<1>4. CASE Resume(p)
  <2> DEFINE seen == deferred # None
             r == [process[p] EXCEPT !.pc = "invalidate", !.role = "resume",
                     !.mark = LatestMark, !.deferredSeen = seen]
  <2>1. process' = [process EXCEPT ![p] = r]
    BY <1>0, <1>4, Zenon DEF Resume
  <2>2. seen = FALSE
    OBVIOUS
  <2> HIDE DEF seen
  <2>3. r.pc = "invalidate" /\ r.deferredSeen = seen
    BY <1>0 DEF Local
  <2> HIDE DEF r
  <2>4. process'[p] = r
    BY <2>1, ChangeStays
  <2> QED
    BY <2>2, <2>3, <2>4 DEF Onward, Resolves
<1>5. CASE Wipe(p)
  <2>1. \/ process[p].role # "exit" /\ Goto(p, "undefer")
        \/ Goto(p, "unbar")
        \/ Goto(p, "defer")
    BY <1>5 DEF Wipe
  <2>2. CASE process[p].role # "exit" /\ Goto(p, "undefer")
    BY <2>2, GotoStays DEF Onward, Resolves, Keeps
  <2> QED
    BY <2>1, <2>2, GotoOn
<1>6. CASE Defer(p)
  BY <1>6, DeferMarks
<1>7. CASE ClearDeferred(p)
  <2>1. process[p].role # "exit"
    BY <1>7 DEF ClearDeferred, At, Resolves
  <2>2. Goto(p, "unbar")
    BY <1>7, <2>1 DEF ClearDeferred
  <2> QED
    BY <2>2, GotoOn
<1>8. CASE ClearBarrier(p)
  BY <1>8 DEF ClearBarrier
<1>9. CASE AbandonReads(p)
  <2> DEFINE pc == IF Exiting THEN "wipe" ELSE "undefer"
             r == [process[p] EXCEPT !.mark = LatestMark, !.role = "abandon", !.pc = pc]
  <2>1. process' = [process EXCEPT ![p] = r]
    BY <1>9, Zenon DEF AbandonReads
  <2>2. pc = "wipe"
    BY <1>0
  <2> HIDE DEF pc
  <2>3. r.pc = pc
    BY <1>0 DEF Local
  <2> HIDE DEF r
  <2>4. process'[p] = r
    BY <2>1, ChangeStays
  <2> QED
    BY <2>2, <2>3, <2>4 DEF Onward, Resolves
<1>10. CASE ClearReads(p)
  <2> DEFINE r == [process[p] EXCEPT !.pc = "clearing", !.seen = record]
  <2>1. process' = [process EXCEPT ![p] = r]
    BY <1>10, Zenon DEF ClearReads
  <2>2. r.pc = "clearing"
    BY <1>0 DEF Local
  <2> HIDE DEF r
  <2>3. process'[p] = r
    BY <2>1, ChangeStays
  <2> QED
    BY <2>2, <2>3 DEF Onward, Resolves
<1>11. CASE ClearOwner(p)
  <2>1. process[p].pc = "clearing" /\ Goto(p, "invalidate")
    BY <1>11 DEF ClearOwner, At
  <2>2. process[p].role = "exit"
    BY <2>1 DEF ExitFlow
  <2> QED
    BY <2>1, <2>2, GotoStays DEF Onward, Resolves, Keeps
<1>12. CASE Notify(p)
  <2>1. open # {} /\ open # {TabOf(p)}
    BY <1>12 DEF Notify, At, Resolves, TabOf, FlowsOpen
  <2>2. open \ {TabOf(p)} # {}
    BY <2>1
  <2> QED
    BY <1>12, <2>2 DEF Notify, Onward
<1> QED
  BY <1>2, <1>3, <1>4, <1>5, <1>6, <1>7, <1>8, <1>9, <1>10, <1>11, <1>12

(* A sign-out that drops its marker over another page's barrier tells it.  *)
LEMMA ClearDeferredOn ==
  ASSUME TypeOK, ExitInv, NEW p \in Process, ClearDeferred(p), barrier' # None
  PROVE  Onward(p)
<1>1. process[p].pc = "undefer" /\ barrier' = barrier /\ open' = open
  BY DEF ClearDeferred, At
<1>2. CASE process[p].role = "exit"
  <2>1. Goto(p, "notify")
    BY <1>2 DEF ClearDeferred
  <2>2. open # {process[p].tab}
    BY <1>1, <1>2 DEF ExitInv, BarLifted, At, TabOf
  <2> QED
    BY <1>1, <2>1, <2>2, GotoStays DEF Onward, Resolves, Keeps
<1>3. CASE process[p].role # "exit"
  <2>1. Goto(p, "unbar")
    BY <1>3 DEF ClearDeferred
  <2> QED
    BY <2>1, GotoOn
<1> QED
  BY <1>2, <1>3

LEMMA BarrierStep ==
  ASSUME TypeOK, ExitInv, [Next]_vars
  PROVE  BarrierInHand'
<1> DEFINE Kept == boots' \cup notices' # {} \/ \E q \in Process : (Resolves(process[q]))'
<1> SUFFICES ASSUME barrier' # None, deferred' = None
             PROVE  Kept
  BY DEF BarrierInHand
<1>1. ASSUME barrier' = barrier, deferred' = deferred
      PROVE  boots \cup notices # {} \/ \E q \in Process : Resolves(process[q])
  BY <1>1 DEF ExitInv, BarrierInHand
<1>2. ASSUME NEW q \in Process, Resolves(process[q]), process'[q] = process[q], open' = open
      PROVE  Kept
  BY <1>2 DEF Resolves
<1>3. ASSUME NEW p \in Process, NEW t \in Tab, Start(p, t) \/ React(p, t)
      PROVE  Kept
  <2>1. /\ Stays(p) /\ barrier' = barrier /\ deferred' = deferred /\ open' = open
        /\ process[p] = Idle
        /\ UNCHANGED <<boots, notices>> \/ process'[p].pc \in {"resume", "hydrate"}
    BY <1>3, StartsFresh DEF StartsAs
  <2>2. CASE process'[p].pc \in {"resume", "hydrate"}
    BY <2>2 DEF Resolves
  <2>3. CASE UNCHANGED <<boots, notices>>
    <3>1. CASE boots \cup notices # {}
      BY <2>3, <3>1
    <3>2. ASSUME NEW q \in Process, Resolves(process[q]) PROVE Kept
      <4>1. q # p
        BY <2>1, <3>2, IdleExits DEF Resolves
      <4> QED
        BY <1>2, <2>1, <3>2, <4>1 DEF Stays
    <3> QED
      BY <1>1, <2>1, <3>1, <3>2
  <2> QED
    BY <2>1, <2>2, <2>3
<1>4. ASSUME NEW p \in Process, Step(p)
      PROVE  Kept
  <2>0. open' = open /\ boots' = boots /\ notices \subseteq notices'
    BY <1>4, StepMail
  <2>1. ASSUME NEW q \in Process, Onward(q) PROVE Kept
    BY <2>1 DEF Onward
  <2>2. CASE PersistBarrier(p)
    <3>1. Goto(p, "clear")
      BY <2>2 DEF PersistBarrier
    <3> QED
      BY <3>1, GotoStays DEF Resolves
  <2>3. CASE barrier' = barrier /\ deferred' = deferred
    <3>1. CASE boots \cup notices # {}
      BY <2>0, <3>1
    <3>2. ASSUME NEW q \in Process, Resolves(process[q]) PROVE Kept
      <4>1. CASE process'[q] = process[q]
        BY <1>2, <2>0, <3>2, <4>1
      <4>2. CASE Invalidate(p) /\ process'[q] # process[q]
        BY <2>1, <3>2, <4>2, InvalidateOn
      <4>3. CASE ~ Invalidate(p) /\ process'[q] # process[q]
        <5>1. q = p
          BY <1>4, <4>3, ResumingGoesOn, SigningInGoesOn, SigningOutGoesOn
             DEF Step, Stays, ExitInv
        <5>2. Onward(p)
          BY <1>4, <2>3, <3>2, <4>3, <5>1, ResolvesOn DEF ExitInv
        <5> QED
          BY <2>1, <5>2
      <4> QED
        BY <4>1, <4>2, <4>3
    <3> QED
      BY <1>1, <2>3, <3>1, <3>2
  <2>4. CASE Defer(p)
    BY <2>4, DeferMarks
  <2>5. CASE ClearDeferred(p)
    BY <2>1, <2>5, ClearDeferredOn
  <2> QED
    BY <1>4, <2>2, <2>3, <2>4, <2>5, StepMarks
<1>5. ASSUME NEW t \in Tab, BeginEdit(t) \/ CommitEdit(t) \/ Replay(t) \/ Reload(t)
      PROVE  Kept
  <2>1. /\ UNCHANGED <<open, barrier, deferred>>
        /\ boots' # {} \/ UNCHANGED <<process, boots, notices>>
    BY <1>5, PageStep
  <2> QED
    BY <1>1, <1>2, <2>1
<1>6. CASE UNCHANGED vars
  <2>1. UNCHANGED <<open, barrier, deferred, process, boots, notices>>
    BY <1>6 DEF vars, durable, mail
  <2> QED
    BY <1>1, <1>2, <2>1
<1> QED
  BY <1>3, <1>4, <1>5, <1>6 DEF Next

(* However sign-outs, boots, sign-ins and other tabs interleave, and        *)
(* whichever pages go away in the middle of them: a sign-out barrier that   *)
(* stands without a deferred marker is about to be lifted, marked or told   *)
(* to another page by some flow, or a page has yet to run the boot effect   *)
(* or to hear of the sign-out that takes it up (hydrate: "a crash cannot    *)
(* leave activation blocked forever").                                      *)
THEOREM BarrierIsTakenUp == Spec => []BarrierInHand
<1>1. Init => ExitInv
  <2> SUFFICES ASSUME Init PROVE ExitInv
    OBVIOUS
  <2>1. \A p \in Process : process[p] = Idle
    BY DEF Init
  <2>2. \A p \in Process : ExitFlow(process[p]) /\ process[p].flow # "exit"
                           /\ process[p].role # "exit"
    BY <2>1, IdleExits
  <2>3. barrier = None /\ open # {}
    <3>1. open \in (SUBSET Tab) \ {{}} /\ barrier = None
      BY DEF Init
    <3> QED
      BY <3>1, Zenon
  <2> QED
    BY <2>1, <2>2, <2>3 DEF ExitInv, FlowsOpen, ExitsDiffer, BarLifted, BarrierInHand
<1>2. TypeOK /\ ExitInv /\ [Next]_vars => ExitInv'
  BY ExitFlowsStep, BarLiftedStep, BarrierStep DEF ExitInv
<1>3. ExitInv => BarrierInHand
  BY DEF ExitInv
<1> QED
  BY <1>1, <1>2, <1>3, TypeCorrect, PTL DEF Spec
===============================================================================
