------------------------ MODULE BookConversion_proofs -----------------------
(***************************************************************************)
(* Proofs about BookConversion, for any number of workers, jobs, attempts  *)
(* and crashes: no two runs share a version, the projection advances, and  *)
(* a job is given up only when its attempts are spent.                     *)
(*                                                                         *)
(* The pointer bounds every version in use.  That is what makes the next   *)
(* increment fresh, and what makes the conditional release safe: when the  *)
(* pointer equals a reservation, every other version in use is below it.   *)
(***************************************************************************)
EXTENDS BookConversion, TLAPS

(* Every version reserved or published is at most the pointer, and at      *)
(* least 2; what is shown was published.                                   *)
PointerBounds ==
  /\ \A v \in published : v <= contentVersion
  /\ \A w \in Worker : Holding(w) =>
       worker[w].version \in Nat /\ 2 <= worker[w].version
         /\ worker[w].version <= contentVersion
  /\ projection \in published \cup {0}

Inv == TypeOK /\ NoSharedVersion /\ PointerBounds

----
LEMMA InitInv == Init => Inv
  BY ConversionConstants
     DEF Init, Inv, TypeOK, NoSharedVersion, PointerBounds, Holding, Idle, NoJob, JobStatus,
         WorkerStep

(* A step that changes no version in use.                                  *)
LEMMA VersionsKept ==
  ASSUME Inv, UNCHANGED <<contentVersion, published, projection>>,
         \A w \in Worker : Holding(w)' => Holding(w) /\ worker'[w].version = worker[w].version
  PROVE  NoSharedVersion' /\ PointerBounds'
  BY DEF Inv, NoSharedVersion, PointerBounds, Holding

JobType == [status : JobStatus, attempts : Nat, stale : BOOLEAN]

LEMMA JobSteps ==
  ASSUME NEW job \in JobType, NEW status \in JobStatus
  PROVE  [job EXCEPT !.status = status, !.stale = FALSE] \in JobType
  BY DEF JobType

LEMMA EnqueueType ==
  ASSUME Inv, Enqueue
  PROVE  jobs' \in [Job -> JobType]
<1>1. PICK j \in Job : jobs' = [jobs EXCEPT ![j] = [NoJob EXCEPT !.status = "PENDING"]]
  BY DEF Enqueue
<1>2. [NoJob EXCEPT !.status = "PENDING"] \in JobType
  BY DEF NoJob, JobStatus, JobType
<1> QED
  BY <1>1, <1>2 DEF Inv, TypeOK, JobType

(* Steps that touch only the queue and the status of the book.             *)
LEMMA QueueKeeps ==
  ASSUME Inv, \/ Upload \/ RequeueStale
              \/ \E a \in Admin : CheckRetry(a) \/ Retry(a)
              \/ \E j \in Job : GoStale(j)
  PROVE  Inv'
<1>1. UNCHANGED <<contentVersion, published, projection, worker, crashes>>
  BY DEF Upload, RequeueStale, CheckRetry, Retry, GoStale, book
<1>2. NoSharedVersion' /\ PointerBounds'
  BY <1>1, VersionsKept DEF Holding
<1>3. conversionStatus' \in {"NOT_APPLICABLE", "PENDING", "READY", "FAILED"}
      /\ retrying' \in SUBSET Admin
  BY DEF Upload, RequeueStale, CheckRetry, Retry, GoStale, book, Inv, TypeOK
<1>4. jobs' \in [Job -> JobType]
  <2>1. CASE Upload \/ \E a \in Admin : Retry(a)
    <3>1. Enqueue
      BY <2>1 DEF Upload, Retry
    <3> QED
      BY <3>1, EnqueueType
  <2>2. CASE RequeueStale
    <3> DEFINE requeued(job) == [job EXCEPT !.status = "PENDING", !.stale = FALSE]
    <3>1. "PENDING" \in JobStatus /\ jobs \in [Job -> JobType]
      BY DEF Inv, TypeOK, JobType, JobStatus
    <3>2. \A job \in JobType : requeued(job) \in JobType
      BY <3>1, JobSteps
    <3>3. jobs' = [j \in Job |-> IF jobs[j].status = "PROCESSING" /\ jobs[j].stale
                                  THEN requeued(jobs[j]) ELSE jobs[j]]
      BY <2>2 DEF RequeueStale
    <3> HIDE DEF requeued
    <3> QED
      BY <3>1, <3>2, <3>3
  <2>3. CASE \E a \in Admin : CheckRetry(a)
    BY <2>3 DEF CheckRetry, Inv, TypeOK, JobType
  <2>4. CASE \E j \in Job : GoStale(j)
    <3>1. PICK j \in Job : jobs' = [jobs EXCEPT ![j].stale = TRUE]
      BY <2>4 DEF GoStale
    <3>2. jobs \in [Job -> JobType]
      BY DEF Inv, TypeOK, JobType
    <3>3. [jobs[j] EXCEPT !.stale = TRUE] \in JobType
      BY <3>2 DEF JobType
    <3> QED
      BY <3>1, <3>2, <3>3
  <2> QED
    BY <2>1, <2>2, <2>3, <2>4
<1> QED
  BY <1>1, <1>2, <1>3, <1>4 DEF Inv, TypeOK, JobType

WorkerType == [pc : WorkerStep, job : Job \cup {0}, version : Nat, attempts : Nat]

(* A step of one worker that ends a hold, if there was one.                *)
LEMMA GotoType ==
  ASSUME Inv, NEW w \in Worker, worker[w].pc # "idle", NEW step \in WorkerStep \ {"reserved"},
         Goto(w, step) \/ worker' = [worker EXCEPT ![w] = Idle]
  PROVE  /\ worker' \in [Worker -> WorkerType]
         /\ \A s \in Worker : worker'[s].pc # "idle" => worker'[s].job \in Job
         /\ \A s \in Worker : Holding(s)' => s # w /\ Holding(s) /\ worker'[s] = worker[s]
<1>1. worker \in [Worker -> WorkerType] /\ worker[w].job \in Job
  BY DEF Inv, TypeOK, WorkerType
<1>2. Idle \in WorkerType
  BY DEF Idle, WorkerType, WorkerStep
<1>3. CASE Goto(w, step)
  <2> DEFINE new == [worker[w] EXCEPT !.pc = step, !.version = 0, !.attempts = 0]
  <2>1. new \in WorkerType /\ new.pc = step /\ new.job = worker[w].job
    BY <1>1 DEF WorkerType
  <2>2. worker' = [worker EXCEPT ![w] = new]
    BY <1>1, <1>3 DEF Goto, WorkerType
  <2> HIDE DEF new
  <2> QED
    BY <1>1, <2>1, <2>2 DEF Inv, TypeOK, Holding
<1>4. CASE worker' = [worker EXCEPT ![w] = Idle]
  BY <1>1, <1>2, <1>4 DEF Inv, TypeOK, Holding, Idle
<1> QED
  BY <1>3, <1>4

LEMMA ClaimKeeps ==
  ASSUME Inv, NEW w \in Worker, ClaimNext(w)
  PROVE  Inv'
<1> DEFINE claimed(j) == [Idle EXCEPT !.pc = "claimed", !.job = j]
<1>1. PICK j \in Job :
        /\ jobs' = [jobs EXCEPT ![j].status = "PROCESSING", ![j].stale = FALSE]
        /\ worker' = [worker EXCEPT ![w] = claimed(j)]
  BY DEF ClaimNext
<1>2. claimed(j) \in WorkerType /\ claimed(j).pc = "claimed" /\ claimed(j).job = j
  BY DEF Idle, WorkerType, WorkerStep
<1> HIDE DEF claimed
<1>3. UNCHANGED <<conversionStatus, contentVersion, projection, published, retrying, crashes>>
  BY DEF ClaimNext, book
<1>4. worker \in [Worker -> WorkerType]
  BY DEF Inv, TypeOK, WorkerType
<1>5. NoSharedVersion' /\ PointerBounds'
  BY <1>1, <1>2, <1>3, <1>4, VersionsKept DEF Holding
<1>6. jobs' \in [Job -> JobType]
  <2> DEFINE new == [jobs[j] EXCEPT !.status = "PROCESSING", !.stale = FALSE]
  <2>1. jobs \in [Job -> JobType] /\ "PROCESSING" \in JobStatus
    BY DEF Inv, TypeOK, JobType, JobStatus
  <2>2. new \in JobType
    BY <2>1, JobSteps
  <2>3. jobs' = [jobs EXCEPT ![j] = new]
    BY <1>1, <2>1
  <2> HIDE DEF new
  <2> QED
    BY <2>1, <2>2, <2>3
<1>7. worker' \in [Worker -> WorkerType]
      /\ \A s \in Worker : worker'[s].pc # "idle" => worker'[s].job \in Job
  BY <1>1, <1>2, <1>4 DEF Inv, TypeOK
<1> QED
  BY <1>3, <1>5, <1>6, <1>7 DEF Inv, TypeOK, WorkerType, JobType

LEMMA ReservedRow ==
  ASSUME NEW row \in WorkerType, NEW n \in Nat
  PROVE  /\ [row EXCEPT !.pc = "reserved", !.version = n] \in WorkerType
         /\ [row EXCEPT !.pc = "reserved", !.version = n].pc = "reserved"
         /\ [row EXCEPT !.pc = "reserved", !.version = n].version = n
         /\ [row EXCEPT !.pc = "reserved", !.version = n].job = row.job
<1>1. "reserved" \in WorkerStep
  BY DEF WorkerStep
<1> QED
  BY <1>1 DEF WorkerType

LEMMA ReserveKeeps ==
  ASSUME Inv, NEW w \in Worker, Reserve(w)
  PROVE  Inv'
<1> DEFINE n == contentVersion + 1
           new == [worker[w] EXCEPT !.pc = "reserved", !.version = n]
<1>1. worker \in [Worker -> WorkerType] /\ contentVersion \in Nat \ {0}
      /\ worker[w].pc = "claimed" /\ worker[w].job \in Job
  BY DEF Inv, TypeOK, WorkerType, Reserve
<1>2. new \in WorkerType /\ new.pc = "reserved" /\ new.version = n /\ new.job = worker[w].job
  <2>1. n \in Nat
    BY <1>1
  <2>2. worker[w] \in WorkerType
    BY <1>1
  <2> HIDE DEF n
  <2> QED
    BY ONLY <2>1, <2>2, ReservedRow DEF new
<1>3. contentVersion' = n /\ worker' = [worker EXCEPT ![w] = new]
  BY <1>1 DEF Reserve, ReservedVersion
<1>4. UNCHANGED <<conversionStatus, projection, published, jobs, retrying, crashes>>
  BY DEF Reserve
<1>5. n \in Nat /\ n >= 2 /\ n > contentVersion
  BY <1>1
<1> HIDE DEF n, new
<1>6. worker' \in [Worker -> WorkerType]
      /\ \A s \in Worker : worker'[s].pc # "idle" => worker'[s].job \in Job
  BY <1>1, <1>2, <1>3 DEF Inv, TypeOK
<1>7. /\ Holding(w)' /\ worker'[w].version = n
      /\ \A s \in Worker \ {w} : worker'[s] = worker[s] /\ (Holding(s)' <=> Holding(s))
  BY <1>1, <1>2, <1>3 DEF Holding
<1>8. \A v \in published : v \in Nat /\ v <= contentVersion
  BY DEF Inv, TypeOK, PointerBounds
<1>9. \A s \in Worker \ {w} : Holding(s) =>
        worker[s].version \in Nat /\ 2 <= worker[s].version /\ worker[s].version <= contentVersion
  BY DEF Inv, PointerBounds
<1>10. NoSharedVersion'
  <2> SUFFICES ASSUME NEW s \in Worker, Holding(s)'
               PROVE  /\ worker'[s].version \notin published
                      /\ \A other \in Worker \ {s} :
                           Holding(other)' => worker'[other].version # worker'[s].version
    BY <1>4 DEF NoSharedVersion
  <2>1. CASE s = w
    BY <1>1, <1>5, <1>7, <1>8, <1>9, <2>1
  <2>2. CASE s # w
    <3>1. worker'[s].version \notin published /\ worker'[s].version # n
      BY <1>1, <1>5, <1>7, <1>9, <2>2 DEF Inv, NoSharedVersion
    <3> QED
      BY <1>7, <2>2, <3>1 DEF Inv, NoSharedVersion
  <2> QED
    BY <2>1, <2>2
<1>11. PointerBounds'
  <2>1. \A v \in published : v <= n
    BY <1>1, <1>5, <1>8
  <2>2. \A s \in Worker : Holding(s)' =>
          worker'[s].version \in Nat /\ 2 <= worker'[s].version /\ worker'[s].version <= n
    BY <1>1, <1>5, <1>7, <1>9
  <2> QED
    BY <1>3, <1>4, <2>1, <2>2 DEF Inv, PointerBounds
<1> QED
  BY <1>1, <1>3, <1>4, <1>5, <1>6, <1>10, <1>11 DEF Inv, TypeOK, WorkerType

(* Every other step of a run ends its hold, if it had one.                 *)
LEMMA PublishKeeps ==
  ASSUME Inv, NEW w \in Worker, Publish(w)
  PROVE  Inv' /\ projection' >= projection
<1> DEFINE v == worker[w].version
<1>1. /\ worker[w].pc = "reserved" /\ Holding(w) /\ published' = published \cup {v}
      /\ Goto(w, "committed") /\ UNCHANGED <<contentVersion, jobs, retrying, crashes>>
      /\ \/ conversionStatus' = "READY" /\ projection' = v /\ contentVersion = v
         \/ UNCHANGED <<conversionStatus, projection>>
  BY DEF Publish, Holding, OwnsPointer
<1>2. v \in Nat /\ 2 <= v /\ v <= contentVersion
  BY <1>1 DEF Inv, PointerBounds
<1>3. /\ worker' \in [Worker -> WorkerType]
      /\ \A s \in Worker : worker'[s].pc # "idle" => worker'[s].job \in Job
      /\ \A s \in Worker : Holding(s)' => s # w /\ Holding(s) /\ worker'[s] = worker[s]
  <2>1. "committed" \in WorkerStep \ {"reserved"}
    BY DEF WorkerStep
  <2> QED
    BY <1>1, <2>1, GotoType
<1>4. NoSharedVersion'
  BY <1>1, <1>3 DEF Inv, NoSharedVersion
<1>5. PointerBounds'
  BY <1>1, <1>2, <1>3 DEF Inv, PointerBounds
<1>6. TypeOK'
  <2>1. conversionStatus' \in {"NOT_APPLICABLE", "PENDING", "READY", "FAILED"}
        /\ projection' \in Nat
    BY <1>1, <1>2 DEF Inv, TypeOK
  <2>2. published' \in SUBSET (Nat \ {0})
    <3>1. v \in Nat \ {0}
      BY <1>2
    <3> QED
      BY <1>1, <3>1 DEF Inv, TypeOK
  <2> QED
    BY <1>1, <1>3, <2>1, <2>2 DEF Inv, TypeOK, WorkerType
<1>7. projection' >= projection
  BY <1>1, <1>2 DEF Inv, TypeOK, PointerBounds
<1> QED
  BY <1>4, <1>5, <1>6, <1>7 DEF Inv

LEMMA AbandonKeeps ==
  ASSUME Inv, NEW w \in Worker, Abandon(w)
  PROVE  Inv'
<1> DEFINE v == worker[w].version
<1>1. /\ worker[w].pc = "reserved" /\ Holding(w) /\ Goto(w, "failing")
      /\ UNCHANGED <<conversionStatus, projection, published, jobs, retrying>>
      /\ \/ contentVersion = v /\ contentVersion' = contentVersion - 1
         \/ contentVersion' = contentVersion
      /\ crashes' \in 0 .. MaxCrashes
  BY ConversionConstants DEF Abandon, Holding, ReleasedPointer, Mishap, Inv, TypeOK
<1>2. v \in Nat /\ 2 <= v /\ v <= contentVersion /\ v \notin published
      /\ contentVersion \in Nat \ {0}
  BY <1>1 DEF Inv, TypeOK, PointerBounds, NoSharedVersion
<1>3. /\ worker' \in [Worker -> WorkerType]
      /\ \A s \in Worker : worker'[s].pc # "idle" => worker'[s].job \in Job
      /\ \A s \in Worker : Holding(s)' => s # w /\ Holding(s) /\ worker'[s] = worker[s]
  <2>1. "failing" \in WorkerStep \ {"reserved"}
    BY DEF WorkerStep
  <2> QED
    BY <1>1, <2>1, GotoType
<1>4. NoSharedVersion'
  BY <1>1, <1>3 DEF Inv, NoSharedVersion
<1>5. PointerBounds'
  <2>1. \A p \in published : p \in Nat /\ p <= contentVersion /\ p # v
    BY <1>2 DEF Inv, TypeOK, PointerBounds
  <2>2. \A s \in Worker : Holding(s)' =>
          /\ worker'[s].version \in Nat /\ 2 <= worker'[s].version
          /\ worker'[s].version <= contentVersion /\ worker'[s].version # v
    BY <1>1, <1>3 DEF Inv, PointerBounds, NoSharedVersion
  <2> QED
    BY <1>1, <1>2, <2>1, <2>2 DEF Inv, PointerBounds
<1>6. TypeOK'
  <2>1. contentVersion' \in Nat \ {0}
    BY <1>1, <1>2
  <2> QED
    BY <1>1, <1>3, <2>1 DEF Inv, TypeOK, WorkerType
<1> QED
  BY <1>4, <1>5, <1>6 DEF Inv

(* The steps that touch neither a version nor the projection.              *)
LEMMA EndingKeeps ==
  ASSUME Inv, NEW w \in Worker, worker[w].pc # "idle", NEW step \in WorkerStep \ {"reserved"},
         Goto(w, step) \/ worker' = [worker EXCEPT ![w] = Idle],
         UNCHANGED <<contentVersion, projection, published, retrying>>,
         conversionStatus' \in {conversionStatus, "FAILED"}, jobs' \in [Job -> JobType],
         crashes' \in 0 .. MaxCrashes
  PROVE  Inv'
<1>1. /\ worker' \in [Worker -> WorkerType]
      /\ \A s \in Worker : worker'[s].pc # "idle" => worker'[s].job \in Job
      /\ \A s \in Worker : Holding(s)' => s # w /\ Holding(s) /\ worker'[s] = worker[s]
  BY GotoType
<1>2. NoSharedVersion' /\ PointerBounds'
  BY <1>1, VersionsKept
<1> QED
  BY <1>1, <1>2 DEF Inv, TypeOK, WorkerType, JobType

LEMMA MishapType == ASSUME Inv, Mishap PROVE crashes' \in 0 .. MaxCrashes
  BY ConversionConstants DEF Inv, TypeOK, Mishap

LEMMA FailingIsStep ==
  /\ {"failing", "counting", "condemning"} \subseteq WorkerStep \ {"reserved"}
  /\ {"PENDING", "READY", "FAILED"} \subseteq JobStatus
  BY DEF WorkerStep, JobStatus

LEMMA SetbackKeeps ==
  ASSUME Inv, NEW w \in Worker, LoadFails(w) \/ CompleteFails(w) \/ Crash(w)
  PROVE  Inv'
<1>1. worker[w].pc # "idle" /\ UNCHANGED <<book, jobs, retrying>>
      /\ (Goto(w, "failing") \/ worker' = [worker EXCEPT ![w] = Idle])
  BY DEF LoadFails, CompleteFails, Crash
<1>2. crashes' \in 0 .. MaxCrashes
  BY MishapType DEF LoadFails, CompleteFails, Crash, Inv, TypeOK
<1>3. jobs' \in [Job -> JobType]
  BY <1>1 DEF Inv, TypeOK, JobType
<1> QED
  BY <1>1, <1>2, <1>3, EndingKeeps, FailingIsStep DEF book

LEMMA CompleteKeeps ==
  ASSUME Inv, NEW w \in Worker, Complete(w)
  PROVE  Inv'
<1> DEFINE j == worker[w].job
           new == [jobs[j] EXCEPT !.status = "READY", !.stale = FALSE]
<1>1. /\ worker[w].pc # "idle" /\ UNCHANGED <<book, retrying, crashes>>
      /\ worker' = [worker EXCEPT ![w] = Idle]
  BY DEF Complete
<1>2. j \in Job /\ jobs \in [Job -> JobType]
  BY <1>1 DEF Inv, TypeOK, JobType
<1>3. new \in JobType
  BY <1>2, JobSteps, FailingIsStep
<1>4. jobs' = [jobs EXCEPT ![j] = new]
  BY <1>2 DEF Complete
<1> HIDE DEF j, new
<1>5. jobs' \in [Job -> JobType] /\ crashes' \in 0 .. MaxCrashes
  BY <1>1, <1>2, <1>3, <1>4 DEF Inv, TypeOK
<1> QED
  BY <1>1, <1>5, EndingKeeps, FailingIsStep DEF book

LEMMA CondemnKeeps ==
  ASSUME Inv, NEW w \in Worker, Condemn(w)
  PROVE  Inv'
<1>1. /\ worker[w].pc # "idle" /\ worker' = [worker EXCEPT ![w] = Idle]
      /\ conversionStatus' = "FAILED"
      /\ UNCHANGED <<contentVersion, projection, published, jobs, retrying, crashes>>
  BY DEF Condemn
<1>2. jobs' \in [Job -> JobType] /\ crashes' \in 0 .. MaxCrashes
  BY <1>1 DEF Inv, TypeOK, JobType
<1> QED
  BY <1>1, <1>2, EndingKeeps, FailingIsStep

LEMMA RecordFailureKeeps ==
  ASSUME Inv, NEW w \in Worker, RecordFailure(w)
  PROVE  Inv'
<1> DEFINE j == worker[w].job
           last == IsLastAttempt(worker[w].attempts)
           n == NextAttempts(jobs[j].attempts)
           new == [status |-> IF last THEN "FAILED" ELSE "PENDING", attempts |-> n,
                   stale |-> FALSE]
<1>1. /\ worker[w].pc # "idle" /\ UNCHANGED <<book, retrying, crashes>>
      /\ Goto(w, "condemning") \/ worker' = [worker EXCEPT ![w] = Idle]
      /\ jobs' = [jobs EXCEPT ![j] = new]
  BY DEF RecordFailure
<1>2. j \in Job /\ jobs \in [Job -> JobType]
  BY <1>1 DEF Inv, TypeOK, JobType
<1>3. n \in Nat
  <2>1. jobs[j].attempts \in Nat
    BY <1>2 DEF JobType
  <2> HIDE DEF j
  <2> QED
    BY <2>1 DEF NextAttempts
<1> HIDE DEF n, last
<1>4. new \in JobType
  BY <1>3, FailingIsStep DEF JobType
<1> HIDE DEF j, new
<1>5. jobs' \in [Job -> JobType] /\ crashes' \in 0 .. MaxCrashes
  BY <1>1, <1>2, <1>4 DEF Inv, TypeOK
<1> QED
  BY <1>1, <1>5, EndingKeeps, FailingIsStep DEF book

LEMMA ReadAttemptsKeeps ==
  ASSUME Inv, NEW w \in Worker, ReadAttempts(w)
  PROVE  Inv'
<1> DEFINE n == jobs[worker[w].job].attempts
           new == [worker[w] EXCEPT !.pc = "counting", !.attempts = n]
<1>1. /\ worker \in [Worker -> WorkerType] /\ worker[w].pc = "failing"
      /\ worker[w].job \in Job /\ UNCHANGED <<book, jobs, retrying, crashes>>
  BY DEF Inv, TypeOK, WorkerType, ReadAttempts
<1>2. n \in Nat
  BY <1>1 DEF Inv, TypeOK
<1>3. worker' = [worker EXCEPT ![w] = new]
  BY <1>1 DEF ReadAttempts
<1> HIDE DEF n
<1>4. new \in WorkerType /\ new.pc = "counting" /\ new.job = worker[w].job
  BY <1>1, <1>2, FailingIsStep DEF WorkerType
<1> HIDE DEF new
<1>5. /\ worker' \in [Worker -> WorkerType]
      /\ \A s \in Worker : worker'[s].pc # "idle" => worker'[s].job \in Job
      /\ \A s \in Worker : Holding(s)' => s # w /\ Holding(s) /\ worker'[s] = worker[s]
  BY <1>1, <1>3, <1>4 DEF Inv, TypeOK, Holding
<1>6. NoSharedVersion' /\ PointerBounds'
  BY <1>1, <1>5, VersionsKept DEF book
<1> QED
  BY <1>1, <1>5, <1>6 DEF Inv, TypeOK, WorkerType, book

(* Every step keeps the invariant, and none takes the projection back.     *)
LEMMA NextKeeps ==
  ASSUME Inv, [Next]_vars
  PROVE  Inv' /\ (projection' = projection \/ projection' >= projection)
<1>1. CASE \/ Upload \/ RequeueStale
           \/ \E a \in Admin : CheckRetry(a) \/ Retry(a)
           \/ \E j \in Job : GoStale(j)
  <2>1. projection' = projection
    BY <1>1 DEF Upload, RequeueStale, CheckRetry, Retry, GoStale, book
  <2> QED
    BY <1>1, <2>1, QueueKeeps
<1>2. CASE \E w \in Worker : ClaimNext(w) \/ Progress(w) \/ Setback(w)
  <2> PICK w \in Worker : ClaimNext(w) \/ Progress(w) \/ Setback(w)
    BY <1>2
  <2>1. CASE Publish(w)
    BY <2>1, PublishKeeps
  <2>2. CASE ~ Publish(w)
    <3>1. \/ ClaimNext(w) \/ Reserve(w) \/ Complete(w) \/ ReadAttempts(w)
          \/ RecordFailure(w) \/ Condemn(w) \/ Abandon(w)
          \/ LoadFails(w) \/ CompleteFails(w) \/ Crash(w)
      BY <2>2 DEF Progress, Setback
    <3>2. projection' = projection
      BY <3>1 DEF ClaimNext, Reserve, Complete, ReadAttempts, RecordFailure, Condemn, Abandon,
                  LoadFails, CompleteFails, Crash, book
    <3> QED
      BY <3>1, <3>2, ClaimKeeps, ReserveKeeps, CompleteKeeps, ReadAttemptsKeeps,
         RecordFailureKeeps, CondemnKeeps, AbandonKeeps, SetbackKeeps
  <2> QED
    BY <2>1, <2>2
<1>3. CASE UNCHANGED vars
  BY <1>3 DEF vars, book, Inv, TypeOK, NoSharedVersion, PointerBounds, Holding
<1> QED
  BY <1>1, <1>2, <1>3 DEF Next

----
(* In every reachable state the variables have their types, no two runs    *)
(* share a version, and the pointer bounds every version in use.           *)
THEOREM Invariance == Spec => []Inv
<1>1. Inv /\ [Next]_vars => Inv'
  BY NextKeeps
<1> QED
  BY InitInv, <1>1, PTL DEF Spec

(* Every variable of the conversion has its type (ConversionRunner and     *)
(* ConversionJobService, the row of the book and the rows of the queue).   *)
THEOREM TypeCorrect == Spec => []TypeOK
<1>1. Inv => TypeOK
  BY DEF Inv
<1> QED
  BY Invariance, <1>1, PTL

(* Two runs never render into one asset prefix, nor into the prefix of a   *)
(* published version: ConversionRunner.process's reservation is safe for   *)
(* any number of workers, failures and take-overs.                         *)
THEOREM VersionsNotShared == Spec => []NoSharedVersion
<1>1. Inv => NoSharedVersion
  BY DEF Inv
<1> QED
  BY Invariance, <1>1, PTL

(* What readers are shown never goes back to an older version: the gate of *)
(* ConversionRunner.process's projection swap is enough.                   *)
THEOREM ProjectionOnlyAdvances == Spec => ProjectionAdvances
<1>1. Inv /\ [Next]_vars => [projection' >= projection]_projection
  BY NextKeeps
<1> QED
  BY Invariance, <1>1, PTL DEF Spec, ProjectionAdvances

----
(* Giving up.  A worker reads the attempts of its job in one statement and *)
(* records a failure in the next, so what it read may be old; but attempts *)
(* only grow, so it never counts more of them than there were.             *)

Spent(j) == jobs[j].attempts >= MaxAttempts

(* A job is given up only when its attempts are spent, and a book is marked *)
(* FAILED only for such a job.                                             *)
GivenUpWhenSpent ==
  /\ \A j \in Job : jobs[j].status = "FAILED" => Spent(j)
  /\ conversionStatus = "FAILED" => \E j \in Job : Spent(j)

(* What a worker has read of the attempts, and when it condemns a book.    *)
CountsTrue ==
  /\ \A j \in Job : jobs[j].status = "ABSENT" => jobs[j].attempts = 0
  /\ \A w \in Worker :
       /\ worker[w].pc = "counting" => worker[w].attempts <= jobs[worker[w].job].attempts
       /\ worker[w].pc = "condemning" => Spent(worker[w].job)

(* A step of the queue fails no job.                                       *)
Mild(j) ==
  /\ jobs'[j].attempts = jobs[j].attempts
  /\ jobs'[j].status \notin {"FAILED", "ABSENT"} \/ jobs'[j] = jobs[j]

LEMMA EnqueueMild ==
  ASSUME Inv, CountsTrue, Enqueue, NEW j \in Job
  PROVE  Mild(j)
<1>1. PICK k \in Job : /\ jobs[k].status = "ABSENT"
                       /\ jobs' = [jobs EXCEPT ![k] = [NoJob EXCEPT !.status = "PENDING"]]
  BY DEF Enqueue, IsOldest
<1>2. jobs[k].attempts = 0 /\ jobs \in [Job -> JobType]
  BY <1>1 DEF CountsTrue, Inv, TypeOK, JobType
<1>3. /\ [NoJob EXCEPT !.status = "PENDING"].attempts = 0
      /\ [NoJob EXCEPT !.status = "PENDING"].status = "PENDING"
  BY DEF NoJob
<1> QED
  BY <1>1, <1>2, <1>3 DEF Mild

LEMMA Revised ==
  ASSUME NEW job \in JobType, NEW status
  PROVE  /\ [job EXCEPT !.status = status, !.stale = FALSE].status = status
         /\ [job EXCEPT !.status = status, !.stale = FALSE].attempts = job.attempts
  BY DEF JobType

LEMMA QueueMild ==
  ASSUME Inv, CountsTrue, NEW j \in Job,
         \/ Upload \/ RequeueStale
         \/ \E a \in Admin : CheckRetry(a) \/ Retry(a)
         \/ \E k \in Job : GoStale(k)
         \/ \E w \in Worker : ClaimNext(w) \/ Complete(w)
  PROVE  Mild(j)
<1>1. jobs \in [Job -> JobType]
  BY DEF Inv, TypeOK, JobType
<1>2. CASE Upload \/ \E a \in Admin : Retry(a)
  BY <1>2, EnqueueMild DEF Upload, Retry
<1>3. CASE RequeueStale
  <2>1. jobs'[j] = IF jobs[j].status = "PROCESSING" /\ jobs[j].stale
                     THEN [jobs[j] EXCEPT !.status = "PENDING", !.stale = FALSE] ELSE jobs[j]
    BY <1>3 DEF RequeueStale
  <2> QED
    BY <1>1, <2>1, Revised DEF Mild
<1>4. CASE \E a \in Admin : CheckRetry(a)
  BY <1>4 DEF CheckRetry, Mild
<1>5. CASE \E k \in Job : GoStale(k)
  BY <1>1, <1>5 DEF GoStale, Mild, JobType
<1>6. ASSUME NEW w \in Worker, ClaimNext(w)
      PROVE  Mild(j)
  <2>1. PICK k \in Job :
          jobs' = [jobs EXCEPT ![k] = [jobs[k] EXCEPT !.status = "PROCESSING", !.stale = FALSE]]
    BY <1>1, <1>6 DEF ClaimNext
  <2> QED
    BY <1>1, <2>1, Revised DEF Mild
<1>7. ASSUME NEW w \in Worker, Complete(w)
      PROVE  Mild(j)
  <2>1. jobs' = [jobs EXCEPT ![worker[w].job] =
                   [jobs[worker[w].job] EXCEPT !.status = "READY", !.stale = FALSE]]
    BY <1>1, <1>7 DEF Complete
  <2> QED
    BY <1>1, <2>1, Revised DEF Mild
<1> QED
  BY <1>2, <1>3, <1>4, <1>5, <1>6, <1>7

GivingUp == CountsTrue /\ GivenUpWhenSpent

(* A step that fails no job, and leaves every worker where it was or away   *)
(* from recording a failure.                                               *)
LEMMA MildKeeps ==
  ASSUME Inv, GivingUp, \A j \in Job : Mild(j),
         \A w \in Worker : worker'[w] = worker[w] \/ worker'[w].pc \notin {"counting", "condemning"},
         conversionStatus' = "FAILED" => conversionStatus = "FAILED"
  PROVE  GivingUp'
<1> USE DEF GivingUp
<1>1. \A j \in Job : Spent(j) <=> jobs'[j].attempts >= MaxAttempts
  BY DEF Mild, Spent
<1>2. \A w \in Worker : worker[w].pc # "idle" => worker[w].job \in Job
  BY DEF Inv, TypeOK
<1>3. CountsTrue'
  <2>1. \A j \in Job : jobs'[j].status = "ABSENT" => jobs'[j].attempts = 0
    BY DEF Mild, CountsTrue
  <2>2. ASSUME NEW w \in Worker, worker'[w].pc \in {"counting", "condemning"}
        PROVE  /\ worker'[w] = worker[w] /\ worker[w].job \in Job
    BY <1>2, <2>2
  <2>3. ASSUME NEW w \in Worker, worker'[w].pc = "counting"
        PROVE  worker'[w].attempts <= jobs'[worker'[w].job].attempts
    BY <2>2, <2>3 DEF CountsTrue, Mild
  <2>4. ASSUME NEW w \in Worker, worker'[w].pc = "condemning"
        PROVE  jobs'[worker'[w].job].attempts >= MaxAttempts
    <3>1. worker'[w] = worker[w] /\ worker[w].job \in Job /\ Spent(worker[w].job)
      BY <2>2, <2>4 DEF CountsTrue
    <3>2. jobs'[worker[w].job].attempts = jobs[worker[w].job].attempts
      BY <3>1 DEF Mild
    <3> QED
      BY <3>1, <3>2 DEF Spent
  <2> QED
    BY <2>1, <2>3, <2>4 DEF CountsTrue, Spent
<1>4. GivenUpWhenSpent'
  BY <1>1 DEF GivenUpWhenSpent, Mild, Spent
<1> QED
  BY <1>3, <1>4

(* The failure is recorded with one more attempt than there were, so with   *)
(* at least one more than the worker counted.                              *)
LEMMA RecordFailureGivesUp ==
  ASSUME Inv, GivingUp, NEW w \in Worker, RecordFailure(w)
  PROVE  GivingUp'
<1> USE DEF GivingUp
<1> DEFINE j == worker[w].job
           last == IsLastAttempt(worker[w].attempts)
           n == NextAttempts(jobs[j].attempts)
           new == [status |-> IF last THEN "FAILED" ELSE "PENDING", attempts |-> n,
                   stale |-> FALSE]
<1>1. /\ worker[w].pc = "counting" /\ conversionStatus' = conversionStatus
      /\ jobs' = [jobs EXCEPT ![j] = new]
      /\ IF last THEN Goto(w, "condemning") ELSE worker' = [worker EXCEPT ![w] = Idle]
  BY DEF RecordFailure, book
<1>2. /\ j \in Job /\ jobs \in [Job -> JobType] /\ jobs[j].attempts \in Nat
      /\ worker \in [Worker -> WorkerType] /\ worker[w].attempts \in Nat
  BY <1>1 DEF Inv, TypeOK, JobType, WorkerType
<1>3. worker[w].attempts <= jobs[j].attempts
  BY <1>1 DEF CountsTrue
<1>4. /\ n = jobs[j].attempts + 1 /\ n \in Nat
      /\ last => n >= MaxAttempts
  <2> HIDE DEF j
  <2> QED
    BY <1>2, <1>3, ConversionConstants DEF NextAttempts, IsLastAttempt
<1>5. last \in BOOLEAN
  BY DEF IsLastAttempt
<1> HIDE DEF n, last
<1>6. new.attempts = n /\ new.status # "ABSENT" /\ (new.status = "FAILED" => last)
  BY <1>5
<1>7. /\ worker'[w].pc = "condemning" => last /\ worker'[w].job = j
      /\ worker'[w].pc # "counting"
      /\ \A s \in Worker \ {w} : worker'[s] = worker[s]
  BY <1>1, <1>2 DEF Goto, WorkerType, Idle
<1> HIDE DEF j, new
<1>8. jobs'[j] = new /\ \A k \in Job \ {j} : jobs'[k] = jobs[k]
  BY <1>1, <1>2
<1>9. \A k \in Job : /\ jobs[k].attempts \in Nat /\ jobs'[k].attempts \in Nat
                     /\ jobs[k].attempts <= jobs'[k].attempts
  BY <1>2, <1>4, <1>6, <1>8 DEF JobType
<1>10. /\ \A k \in Job : Spent(k) => jobs'[k].attempts >= MaxAttempts
       /\ last => jobs'[j].attempts >= MaxAttempts
  BY <1>2, <1>4, <1>6, <1>8, <1>9, ConversionConstants DEF Spent
<1>11. GivenUpWhenSpent'
  <2>1. ASSUME NEW k \in Job, jobs'[k].status = "FAILED"
        PROVE  jobs'[k].attempts >= MaxAttempts
    BY <1>6, <1>8, <1>10, <2>1 DEF GivenUpWhenSpent
  <2>2. conversionStatus' = "FAILED" => \E k \in Job : jobs'[k].attempts >= MaxAttempts
    BY <1>1, <1>10 DEF GivenUpWhenSpent
  <2> QED
    BY <2>1, <2>2 DEF GivenUpWhenSpent, Spent
<1>12. CountsTrue'
  <2>1. \A k \in Job : jobs'[k].status = "ABSENT" => jobs'[k].attempts = 0
    BY <1>6, <1>8 DEF CountsTrue
  <2>2. ASSUME NEW s \in Worker, worker'[s].pc = "counting"
        PROVE  worker'[s].attempts <= jobs'[worker'[s].job].attempts
    <3>1. s # w /\ worker'[s] = worker[s]
      BY <1>7, <2>2
    <3>2. worker[s].job \in Job /\ worker[s].attempts \in Nat
      BY <1>2, <2>2, <3>1 DEF Inv, TypeOK, WorkerType
    <3>3. worker[s].attempts <= jobs[worker[s].job].attempts
      BY <2>2, <3>1 DEF CountsTrue
    <3> QED
      BY <1>9, <3>1, <3>2, <3>3
  <2>3. ASSUME NEW s \in Worker, worker'[s].pc = "condemning"
        PROVE  jobs'[worker'[s].job].attempts >= MaxAttempts
    <3>1. CASE s = w
      BY <1>7, <1>10, <2>3, <3>1
    <3>2. CASE s # w
      <4>1. worker'[s] = worker[s]
        BY <1>7, <3>2
      <4>2. worker[s].job \in Job /\ Spent(worker[s].job)
        BY <2>3, <4>1 DEF CountsTrue, Inv, TypeOK
      <4>3. jobs'[worker[s].job].attempts >= MaxAttempts
        BY <1>9, <4>1, <4>2, ConversionConstants DEF Spent
      <4> QED
        BY <4>1, <4>3
    <3> QED
      BY <3>1, <3>2
  <2> QED
    BY <2>1, <2>2, <2>3 DEF CountsTrue, Spent
<1> QED
  BY <1>11, <1>12

LEMMA GivingUpStep ==
  ASSUME Inv, GivingUp, [Next]_vars
  PROVE  GivingUp'
<1>0. worker \in [Worker -> WorkerType]
  BY DEF Inv, TypeOK, WorkerType
<1>1. CASE UNCHANGED vars
  BY <1>1 DEF vars, book, GivingUp, CountsTrue, GivenUpWhenSpent, Spent
<1>2. CASE \/ Upload \/ RequeueStale
           \/ \E a \in Admin : CheckRetry(a) \/ Retry(a)
           \/ \E k \in Job : GoStale(k)
  <2>1. \A j \in Job : Mild(j)
    BY <1>2, QueueMild DEF GivingUp
  <2>2. worker' = worker /\ (conversionStatus' = "FAILED" => conversionStatus = "FAILED")
    BY <1>2 DEF Upload, RequeueStale, CheckRetry, Retry, GoStale, book
  <2> QED
    BY <2>1, <2>2, MildKeeps
<1>3. ASSUME NEW w \in Worker, ClaimNext(w) \/ Complete(w)
      PROVE  GivingUp'
  <2>1. \A j \in Job : Mild(j)
    BY <1>3, QueueMild DEF GivingUp
  <2>2. conversionStatus' = conversionStatus
    BY <1>3 DEF ClaimNext, Complete, book
  <2>3. \A s \in Worker : worker'[s] = worker[s] \/ worker'[s].pc \notin {"counting", "condemning"}
    <3>1. CASE ClaimNext(w)
      <4>1. PICK j \in Job : worker' = [worker EXCEPT ![w] = [Idle EXCEPT !.pc = "claimed", !.job = j]]
        BY <3>1 DEF ClaimNext
      <4>2. [Idle EXCEPT !.pc = "claimed", !.job = j].pc = "claimed"
        BY DEF Idle
      <4> QED
        BY <1>0, <4>1, <4>2
    <3>2. CASE Complete(w)
      BY <1>0, <3>2 DEF Complete, Idle
    <3> QED
      BY <1>3, <3>1, <3>2
  <2> QED
    BY <2>1, <2>2, <2>3, MildKeeps
<1>4. ASSUME NEW w \in Worker,
             LoadFails(w) \/ Reserve(w) \/ Publish(w) \/ Abandon(w) \/ CompleteFails(w) \/ Crash(w)
      PROVE  GivingUp'
  <2>1. jobs' = jobs /\ (conversionStatus' = "FAILED" => conversionStatus = "FAILED")
    BY <1>4 DEF LoadFails, Reserve, Publish, Abandon, CompleteFails, Crash, book
  <2>2. \A j \in Job : Mild(j)
    BY <2>1 DEF Mild
  <2>3. \A s \in Worker : worker'[s] = worker[s] \/ worker'[s].pc \notin {"counting", "condemning"}
    <3>1. CASE LoadFails(w) \/ Publish(w) \/ Abandon(w) \/ CompleteFails(w)
      <4>1. Goto(w, "failing") \/ Goto(w, "committed")
        BY <3>1 DEF LoadFails, Publish, Abandon, CompleteFails
      <4> QED
        BY <1>0, <4>1 DEF Goto, WorkerType
    <3>2. CASE Reserve(w)
      BY <1>0, <3>2 DEF Reserve, WorkerType
    <3>3. CASE Crash(w)
      BY <1>0, <3>3 DEF Crash, Idle
    <3> QED
      BY <1>4, <3>1, <3>2, <3>3
  <2> QED
    BY <2>1, <2>2, <2>3, MildKeeps
<1>5. ASSUME NEW w \in Worker, ReadAttempts(w)
      PROVE  GivingUp'
  <2>1. /\ jobs' = jobs /\ conversionStatus' = conversionStatus
        /\ worker' = [worker EXCEPT ![w].pc = "counting",
                                    ![w].attempts = jobs[worker[w].job].attempts]
        /\ worker[w].job \in Job
    BY <1>5 DEF ReadAttempts, book, Inv, TypeOK
  <2>2. /\ worker'[w].pc = "counting" /\ worker'[w].job = worker[w].job
        /\ worker'[w].attempts = jobs[worker[w].job].attempts
        /\ \A s \in Worker \ {w} : worker'[s] = worker[s]
    BY <1>0, <2>1 DEF WorkerType
  <2>3. jobs[worker[w].job].attempts \in Nat
    BY <2>1 DEF Inv, TypeOK
  <2>4. CountsTrue'
    <3>1. ASSUME NEW s \in Worker, worker'[s].pc = "counting"
          PROVE  worker'[s].attempts <= jobs'[worker'[s].job].attempts
      <4>1. CASE s = w
        BY <2>1, <2>2, <2>3, <4>1
      <4>2. CASE s # w
        BY <2>1, <2>2, <3>1, <4>2 DEF GivingUp, CountsTrue
      <4> QED
        BY <4>1, <4>2
    <3>2. ASSUME NEW s \in Worker, worker'[s].pc = "condemning"
          PROVE  jobs'[worker'[s].job].attempts >= MaxAttempts
      <4>1. s # w /\ worker'[s] = worker[s]
        BY <2>2, <3>2
      <4> QED
        BY <2>1, <3>2, <4>1 DEF GivingUp, CountsTrue, Spent
    <3>3. \A j \in Job : jobs'[j].status = "ABSENT" => jobs'[j].attempts = 0
      BY <2>1 DEF GivingUp, CountsTrue
    <3> QED
      BY <3>1, <3>2, <3>3 DEF CountsTrue, Spent
  <2> QED
    BY <2>1, <2>4 DEF GivingUp, GivenUpWhenSpent, Spent
<1>6. ASSUME NEW w \in Worker, Condemn(w)
      PROVE  GivingUp'
  <2>1. /\ jobs' = jobs /\ worker' = [worker EXCEPT ![w] = Idle]
        /\ worker[w].job \in Job /\ Spent(worker[w].job)
    BY <1>6 DEF Condemn, Inv, TypeOK, GivingUp, CountsTrue
  <2>2. \A s \in Worker : worker'[s] = worker[s] \/ worker'[s].pc = "idle"
    BY <1>0, <2>1 DEF Idle
  <2> QED
    BY <2>1, <2>2 DEF GivingUp, CountsTrue, GivenUpWhenSpent, Spent
<1> QED
  BY <1>1, <1>2, <1>3, <1>4, <1>5, <1>6, RecordFailureGivesUp DEF Next, Progress, Setback

(* A job is given up only after MAX_CONVERSION_ATTEMPTS failures of it were *)
(* recorded, and a book is marked FAILED only for such a job, however many  *)
(* workers run one job and whatever they read before others recorded theirs *)
(* (ConversionJobService.fail).                                            *)
THEOREM GivenUpLate == Spec => []GivenUpWhenSpent
<1>1. Init => GivingUp
  BY DEF Init, GivingUp, CountsTrue, GivenUpWhenSpent, NoJob, Idle
<1>2. Inv /\ GivingUp /\ [Next]_vars => GivingUp'
  BY GivingUpStep
<1>3. GivingUp => GivenUpWhenSpent
  BY DEF GivingUp
<1> QED
  BY <1>1, <1>2, <1>3, Invariance, PTL DEF Spec
=============================================================================
