--------------------------- MODULE BookConversion ---------------------------
(***************************************************************************)
(* The conversion of one book: ConversionRunner and ConversionJobService,  *)
(* run by any number of worker processes over the shared job queue.  A job *)
(* whose worker is slow or dead is taken over after 15 minutes, so several *)
(* workers may convert the same book, even for the same job; an upload or  *)
(* a retry adds another job while earlier ones still run.                  *)
(*                                                                         *)
(* A step is one statement or one transaction of a worker.  What the       *)
(* worker holds between two statements is in worker[w].                    *)
(***************************************************************************)
EXTENDS Naturals

CONSTANTS
  Worker,      \* conversion worker processes
  Admin,       \* users that may ask for a retry
  MaxJobs,     \* bound: jobs ever created
  MaxAttempts, \* MAX_CONVERSION_ATTEMPTS
  MaxCrashes   \* bound: times a worker dies or a statement of it fails

ASSUME ConversionConstants ==
  /\ MaxJobs \in Nat
  /\ MaxAttempts \in Nat \ {0}
  /\ MaxCrashes \in Nat

Job == 1 .. MaxJobs  \* in the order of createdAt

VARIABLES
  conversionStatus,  \* Book.conversionStatus
  contentVersion,    \* Book.contentVersion, the pointer
  projection,        \* the version book_pages and book_toc_entries show, 0 for none
  published,         \* the versions that have an immutable BookContentVersion
  jobs,              \* the rows of book_conversion_jobs
  worker,            \* what each worker is doing
  retrying,          \* admins whose retry has passed its precondition
  crashes

book == <<conversionStatus, contentVersion, projection, published>>
vars == <<book, jobs, worker, retrying, crashes>>

NoJob == [status |-> "ABSENT", attempts |-> 0, stale |-> FALSE]
Idle == [pc |-> "idle", job |-> 0, version |-> 0, attempts |-> 0]

JobStatus == {"ABSENT", "PENDING", "PROCESSING", "READY", "FAILED"}
WorkerStep == {"idle", "claimed", "reserved", "committed", "failing", "counting",
               "condemning"}

Init ==
  /\ conversionStatus = "NOT_APPLICABLE"
  /\ contentVersion = 1
  /\ projection = 0
  /\ published = {}
  /\ jobs = [j \in Job |-> NoJob]
  /\ worker = [w \in Worker |-> Idle]
  /\ retrying = {}
  /\ crashes = 0

----
(* The queue.                                                              *)

IsOldest(j, candidates) == j \in candidates /\ \A k \in candidates : j <= k

(* A job is created.                                                       *)
Enqueue ==
  \E j \in Job :
    /\ IsOldest(j, {k \in Job : jobs[k].status = "ABSENT"})
    /\ jobs' = [jobs EXCEPT ![j] = [NoJob EXCEPT !.status = "PENDING"]]

(* uploadBookFile: the pending book and its job are one transaction.       *)
Upload ==
  /\ Enqueue
  /\ conversionStatus' = "PENDING"
  /\ UNCHANGED <<contentVersion, projection, published, worker, retrying, crashes>>

(* retryConversion checks the status, and enqueues in a later transaction. *)
CheckRetry(a) ==
  /\ a \notin retrying
  /\ conversionStatus = "FAILED"
  /\ retrying' = retrying \cup {a}
  /\ UNCHANGED <<book, jobs, worker, crashes>>

Retry(a) ==
  /\ a \in retrying
  /\ Enqueue
  /\ conversionStatus' = "PENDING"
  /\ retrying' = retrying \ {a}
  /\ UNCHANGED <<contentVersion, projection, published, worker, crashes>>

Claimable(job) == job.status = "PENDING" \/ (job.status = "PROCESSING" /\ job.stale)

(* claimNext: the oldest job that is pending, or whose lock is stale.      *)
ClaimNext(w) ==
  /\ worker[w].pc = "idle"
  /\ \E j \in Job :
       /\ IsOldest(j, {k \in Job : Claimable(jobs[k])})
       /\ jobs' = [jobs EXCEPT ![j].status = "PROCESSING", ![j].stale = FALSE]
       /\ worker' = [worker EXCEPT ![w] = [Idle EXCEPT !.pc = "claimed", !.job = j]]
  /\ UNCHANGED <<book, retrying, crashes>>

(* Fifteen minutes pass since the job was locked.                          *)
GoStale(j) ==
  /\ jobs[j].status = "PROCESSING"
  /\ ~ jobs[j].stale
  /\ jobs' = [jobs EXCEPT ![j].stale = TRUE]
  /\ UNCHANGED <<book, worker, retrying, crashes>>

(* requeueStale, the sweep of every worker loop.                           *)
RequeueStale ==
  /\ \E j \in Job : jobs[j].status = "PROCESSING" /\ jobs[j].stale
  /\ jobs' = [j \in Job |-> IF jobs[j].status = "PROCESSING" /\ jobs[j].stale
                              THEN [jobs[j] EXCEPT !.status = "PENDING", !.stale = FALSE]
                              ELSE jobs[j]]
  /\ UNCHANGED <<book, worker, retrying, crashes>>

----
(* One run of ConversionRunner.runOnce.                                    *)

Goto(w, step) == worker' = [worker EXCEPT ![w].pc = step, ![w].version = 0,
                                          ![w].attempts = 0]

Mishap == crashes < MaxCrashes /\ crashes' = crashes + 1

(* The original cannot be read.                                            *)
LoadFails(w) ==
  /\ worker[w].pc = "claimed"
  /\ Goto(w, "failing")
  /\ UNCHANGED <<book, jobs, retrying, crashes>>

(* Definitions named <operator>_<mistake> are what that operator would be   *)
(* after a plausible mistake; no specification here uses them.             *)

ReservedVersion_AfterShown(version) == IF projection = 0 THEN 2 ELSE projection + 1

ReservedVersion(version) == version + 1

(* The version is allocated by one atomic increment, before the render.    *)
Reserve(w) ==
  /\ worker[w].pc = "claimed"
  /\ contentVersion' = ReservedVersion(contentVersion)
  /\ worker' = [worker EXCEPT ![w].pc = "reserved", ![w].version = contentVersion']
  /\ UNCHANGED <<conversionStatus, projection, published, jobs, retrying, crashes>>

OwnsPointer_Always(version) == TRUE

(* The gate of the projection swap: nobody has reserved a later version.   *)
OwnsPointer(version) == contentVersion = version

(* The render succeeded and the transaction commits: the immutable version, *)
(* and the projection if the pointer is still this run's.                  *)
Publish(w) ==
  LET version == worker[w].version
  IN  /\ worker[w].pc = "reserved"
      /\ version \notin published   \* unique (bookId, contentVersion)
      /\ published' = published \cup {version}
      /\ IF OwnsPointer(version)
           THEN conversionStatus' = "READY" /\ projection' = version
           ELSE UNCHANGED <<conversionStatus, projection>>
      /\ Goto(w, "committed")
      /\ UNCHANGED <<contentVersion, jobs, retrying, crashes>>

(* The reservation is returned only while nobody reserved after it.        *)
ReleasedPointer(version) ==
  IF contentVersion = version THEN contentVersion - 1 ELSE contentVersion

(* The render or the transaction failed; the reservation is released,      *)
(* unless the release fails as well.                                       *)
Abandon(w) ==
  /\ worker[w].pc = "reserved"
  /\ \/ contentVersion' = ReleasedPointer(worker[w].version) /\ UNCHANGED crashes
     \/ UNCHANGED contentVersion /\ Mishap
  /\ Goto(w, "failing")
  /\ UNCHANGED <<conversionStatus, projection, published, jobs, retrying>>

(* complete: unconditional, whoever holds the job by now.                  *)
Complete(w) ==
  /\ worker[w].pc = "committed"
  /\ jobs' = [jobs EXCEPT ![worker[w].job].status = "READY",
                          ![worker[w].job].stale = FALSE]
  /\ worker' = [worker EXCEPT ![w] = Idle]
  /\ UNCHANGED <<book, retrying, crashes>>

(* complete is inside the try: when it fails, the run counts as failed.    *)
CompleteFails(w) ==
  /\ worker[w].pc = "committed"
  /\ Mishap
  /\ Goto(w, "failing")
  /\ UNCHANGED <<book, jobs, retrying>>

(* fail: the attempts are read first...                                    *)
ReadAttempts(w) ==
  /\ worker[w].pc = "failing"
  /\ worker' = [worker EXCEPT ![w].pc = "counting",
                              ![w].attempts = jobs[worker[w].job].attempts]
  /\ UNCHANGED <<book, jobs, retrying, crashes>>

NextAttempts_Lost(attempts) == attempts

NextAttempts(attempts) == attempts + 1

IsLastAttempt(attempts) == attempts + 1 >= MaxAttempts

(* ...then the job is failed or returned to the queue, unconditionally...  *)
RecordFailure(w) ==
  LET j == worker[w].job
      last == IsLastAttempt(worker[w].attempts)
  IN  /\ worker[w].pc = "counting"
      /\ jobs' = [jobs EXCEPT ![j] = [status |-> IF last THEN "FAILED" ELSE "PENDING",
                                      attempts |-> NextAttempts(jobs[j].attempts),
                                      stale |-> FALSE]]
      /\ IF last THEN Goto(w, "condemning")
                 ELSE worker' = [worker EXCEPT ![w] = Idle]
      /\ UNCHANGED <<book, retrying, crashes>>

(* ...and the book of a failed job is marked in a statement of its own.    *)
Condemn(w) ==
  /\ worker[w].pc = "condemning"
  /\ conversionStatus' = "FAILED"
  /\ worker' = [worker EXCEPT ![w] = Idle]
  /\ UNCHANGED <<contentVersion, projection, published, jobs, retrying, crashes>>

(* The process dies, or an update of the job queue fails and the worker    *)
(* loop goes on without it.                                                *)
Crash(w) ==
  /\ worker[w].pc # "idle"
  /\ Mishap
  /\ worker' = [worker EXCEPT ![w] = Idle]
  /\ UNCHANGED <<book, jobs, retrying>>

Progress(w) ==
  \/ Reserve(w) \/ Publish(w) \/ Complete(w)
  \/ ReadAttempts(w) \/ RecordFailure(w) \/ Condemn(w)

Setback(w) == LoadFails(w) \/ Abandon(w) \/ CompleteFails(w) \/ Crash(w)

Next ==
  \/ Upload
  \/ \E a \in Admin : CheckRetry(a) \/ Retry(a)
  \/ \E w \in Worker : ClaimNext(w) \/ Progress(w) \/ Setback(w)
  \/ \E j \in Job : GoStale(j)
  \/ RequeueStale

Spec == Init /\ [][Next]_vars

(* Workers poll and their statements return; locks age.                    *)
FairSpec ==
  /\ Spec
  /\ \A w \in Worker : WF_vars(ClaimNext(w)) /\ WF_vars(Progress(w))
  /\ \A j \in Job : WF_vars(GoStale(j))

----
(* Properties.                                                             *)

(* Every variable has its type; a working worker has a job that exists.    *)
TypeOK ==
  /\ conversionStatus \in {"NOT_APPLICABLE", "PENDING", "READY", "FAILED"}
  /\ contentVersion \in Nat \ {0}
  /\ projection \in Nat
  /\ published \in SUBSET (Nat \ {0})
  /\ jobs \in [Job -> [status : JobStatus, attempts : Nat, stale : BOOLEAN]]
  /\ worker \in [Worker -> [pc : WorkerStep, job : Job \cup {0}, version : Nat,
                            attempts : Nat]]
  /\ retrying \in SUBSET Admin
  /\ crashes \in 0 .. MaxCrashes
  /\ \A w \in Worker : worker[w].pc # "idle" => worker[w].job \in Job

Holding(w) == worker[w].pc = "reserved"

(* Two runs never render into one asset prefix, and no run renders into    *)
(* the prefix of a published version (process: "two concurrent jobs for    *)
(* one book can never pick the same number").                              *)
NoSharedVersion ==
  \A w \in Worker : Holding(w) =>
    /\ worker[w].version \notin published
    /\ \A other \in Worker \ {w} : Holding(other) => worker[other].version # worker[w].version

(* What readers are shown never goes back to an older version: a slow run  *)
(* cannot put its pages over those of a later one (process: "must not      *)
(* clobber the newer projection").                                         *)
ProjectionAdvances == [][projection' >= projection]_projection

(* Every job that is waiting is finished or given up: the attempts are     *)
(* bounded and a dead worker's job is taken over.                          *)
EveryJobEnds ==
  \A j \in Job : jobs[j].status = "PENDING" ~> jobs[j].status \in {"READY", "FAILED"}

(* The comment of the projection swap: it "keeps the pointer and projection *)
(* in lockstep even when a lower-version job commits after a higher-version *)
(* one".  A pointer at a published version is the projection.              *)
PointerInLockstep == contentVersion \in published => projection = contentVersion

(* The comments of uploadBookFile and retryConversion: "a crash can never  *)
(* leave a PENDING book with no job".  A run that has not ended counts.    *)
PendingHasJob ==
  conversionStatus = "PENDING" =>
    \/ \E j \in Job : jobs[j].status \in {"PENDING", "PROCESSING"}
    \/ \E w \in Worker : worker[w].pc # "idle"
=============================================================================
