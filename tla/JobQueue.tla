------------------------------ MODULE JobQueue ------------------------------
(***************************************************************************)
(* The PostgreSQL job queue of the backend: JobService, JobRepository,     *)
(* JobWorker and the job operations of AdminService, run by any number of  *)
(* worker processes and by the API.                                        *)
(*                                                                         *)
(* A worker process has one scheduler thread, which either polls (claim,   *)
(* run the handler, settle the job) or sweeps expired leases.  Every       *)
(* method of JobService is a transaction: it reads rows, changes the       *)
(* entities in memory and flushes them when it commits, and the flush      *)
(* fails when @Version of a row moved since the read (worker.fresh is      *)
(* "STALE") or when a database constraint rejects the new row.  A claim    *)
(* reads its row FOR UPDATE SKIP LOCKED, so nobody else writes that row    *)
(* until the claim ends.                                                   *)
(*                                                                         *)
(* Time is abstracted.  `order by priority, available_at, created_at`      *)
(* (priority is always 100) is the order in which jobs became available,   *)
(* so the available jobs form the FIFO `queue`; a RETRY job outside it is  *)
(* waiting for its delay.  A lease older than JOB_LEASE_DURATION is in     *)
(* `expired`; nothing renews a lease (JobService.heartbeat has no caller). *)
(***************************************************************************)
EXTENDS Job, SequencesExt

CONSTANTS
  N,                \* number of jobs; job i is the i-th one created
  Kind,             \* [1..N -> Kinds]
  Resource,         \* [1..N -> resource id]: the quiz or source of a job
  MaxAttempts,      \* [1..N -> positive number]: max_attempts
  LeaseOutlivesRun, \* TRUE: no handler runs longer than the lease
  MaxRetries,       \* bound: retries by owners and administrators
  MaxCrashes        \* bound: crashes of worker processes

JobIds == 1 .. N

ASSUME QueueAssumptions ==
  /\ N \in Nat
  /\ Kind \in [JobIds -> Kinds]
  /\ MaxAttempts \in [JobIds -> Nat \ {0}]
  /\ LeaseOutlivesRun \in BOOLEAN
  /\ MaxRetries \in Nat /\ MaxCrashes \in Nat

VARIABLES
  job,        \* [JobIds -> Row]: table jobs
  queue,      \* the claimable jobs whose available_at has passed, in order
  expired,    \* RUNNING jobs whose heartbeat_at is older than the lease
  worker,     \* [Workers -> Worker]: the scheduler thread of each process
  redis,      \* concurrency leases held in Redis: pairs <<job, admission>>
  admissions, \* AI admissions granted per job
  usage,      \* AI operations recorded in account_reputations per job
  told,       \* what the quiz or source of the job was told last
  retries, crashes

ai == <<redis, admissions, usage>>
budget == <<retries, crashes>>
vars == <<job, queue, expired, worker, redis, admissions, usage, told,
          retries, crashes>>

NoRows == [j \in JobIds |-> AbsentRow]
RowFor(j, row) == [NoRows EXCEPT ![j] = row]
Settlements == {"succeed", "defer", "fail", "failForGood"}
Ops == Settlements \union {"none", "claim", "sweep"}

Worker == [pc: {"down", "idle", "tx", "handling", "settling"},
           op: Ops,
           job: JobIds \union {0},   \* the job being processed
           seen: Nat,                \* attempts of the entity claim returned
           reads: SUBSET JobIds,     \* entities of the open transaction
           rows: [JobIds -> Row],    \* and what will be flushed for them
           fresh: {"FRESH", "STALE"},
           bill: 0 .. 1]             \* usage recorded by the transaction

IdleWorker == [pc |-> "idle", op |-> "none", job |-> 0, seen |-> 0,
               reads |-> {}, rows |-> NoRows, fresh |-> "FRESH", bill |-> 0]

Init ==
  /\ job = [j \in JobIds |-> AbsentRow]
  /\ queue = <<>>
  /\ expired = {}
  /\ worker = [w \in Workers |-> IdleWorker]
  /\ redis = {}
  /\ admissions = [j \in JobIds |-> 0]
  /\ usage = [j \in JobIds |-> 0]
  /\ told = [j \in JobIds |-> "NOTHING"]
  /\ retries = 0
  /\ crashes = 0

-----------------------------------------------------------------------------
(* Transactions.                                                           *)

\* The row lock of an open claim (for update).
\* Mutant: without `for update` nothing is locked.
NothingLocked(j) == FALSE
Locked(j) == \E w \in Workers : worker[w].op = "claim" /\ j \in worker[w].reads

\* Workers after the rows of S were committed by w, which becomes `next`:
\* every other open transaction that read one of them now fails its
\* version check.
\* Mutant: no @Version, nobody notices.
MovedUnseen(S, w, next) == [worker EXCEPT ![w] = next]
Moved(S, w, next) ==
  [u \in Workers |->
     IF u = w THEN next
     ELSE [worker[u] EXCEPT
             !.fresh = IF worker[u].reads \cap S = {} THEN @ ELSE "STALE"]]

\* The same for a commit of the API, which is no worker.
Overtaken(S) == Moved(S, NoWorker, IdleWorker)

\* The table after worker w flushes its entities.
Flushed(w) ==
  [j \in JobIds |->
     IF j \in worker[w].reads THEN worker[w].rows[j] ELSE job[j]]

\* ck_jobs_attempts.
AttemptsOK(t) == \A j \in JobIds : t[j].attempts <= MaxAttempts[j]

\* uq_jobs_active_quiz_generation.
OneActiveGeneration(t) ==
  \A i, j \in JobIds :
    /\ i # j /\ Resource[i] = Resource[j]
    /\ Kind[i] \in QuizKinds /\ Kind[j] \in QuizKinds
    => ~(t[i].status \in Active /\ t[j].status \in Active)

\* The @Version check of every entity that is flushed.
VersionOK(w) == worker[w].fresh = "FRESH"

CanCommit(w) ==
  /\ VersionOK(w)
  /\ AttemptsOK(Flushed(w)) /\ OneActiveGeneration(Flushed(w))

\* A flush waits for the row lock of another worker's claim.
NotBlocked(w) == worker[w].op = "claim" \/ \A j \in worker[w].reads : ~Locked(j)

\* The queue once j is not claimable or its available_at lies ahead.
\* Mutant: a settled job stays on offer.
StaysQueued(j) == queue
Dequeued(j) ==
  IF \E i \in 1 .. Len(queue) : queue[i] = j
  THEN RemoveAt(queue, CHOOSE i \in 1 .. Len(queue) : queue[i] = j)
  ELSE queue

\* The n jobs of S in the order of created_at.
InCreationOrder(s, n, S) ==
  /\ \A i \in 1 .. n : s[i] \in S
  /\ \A j \in S : \E i \in 1 .. n : s[i] = j
  /\ \A i, k \in 1 .. n : i < k => s[i] < s[k]

-----------------------------------------------------------------------------
(* The API: enqueue, retry and cancel.                                     *)

\* A QUIZ_GENERATION job needs an AI admission.
Admission(j) == IF Kind[j] \in QuizKinds THEN admissions[j] + 1 ELSE 0
Admit(j) ==
  /\ admissions' = [admissions EXCEPT ![j] = IF Admission(j) = 0 THEN @ ELSE Admission(j)]
  /\ redis' = redis \union (IF Admission(j) = 0 THEN {} ELSE {<<j, Admission(j)>>})

\* A later call with the same idempotency key returns the job: no step.
Enqueue(j) ==
  /\ job[j].status = "ABSENT"
  /\ \A i \in JobIds : i < j => job[i].status # "ABSENT"
  /\ job' = [job EXCEPT ![j] = NewJob(Admission(j))]
  /\ OneActiveGeneration(job')
  /\ Admit(j)
  /\ queue' = Append(queue, j)
  /\ UNCHANGED <<expired, worker, usage, told, budget>>

AdminRetry(j) ==
  /\ retries < MaxRetries
  /\ CanRetry(job[j])
  /\ job' = [job EXCEPT ![j] = RetriedByAdmin(@, Admission(j))]
  /\ OneActiveGeneration(job')
  /\ Admit(j)
  /\ queue' = Append(queue, j)
  /\ worker' = Overtaken({j})
  /\ retries' = retries + 1
  /\ UNCHANGED <<expired, usage, told, crashes>>

\* The owner retries the latest generation of the quiz.
IsLatestGeneration(j) ==
  /\ Kind[j] \in QuizKinds
  /\ \A i \in JobIds : i > j /\ Kind[i] \in QuizKinds /\ Resource[i] = Resource[j]
                         => job[i].status = "ABSENT"

OwnerRetry(j) ==
  /\ retries < MaxRetries
  /\ IsLatestGeneration(j) /\ CanRetry(job[j])
  /\ job' = [job EXCEPT ![j] = RetriedByOwner(@, Admission(j))]
  /\ OneActiveGeneration(job')
  /\ Admit(j)
  /\ queue' = Append(queue, j)
  /\ worker' = Overtaken({j})
  /\ retries' = retries + 1
  /\ UNCHANGED <<expired, usage, told, crashes>>

AdminCancel(j) ==
  /\ CanCancel(job[j]) /\ ~Locked(j)
  /\ job' = [job EXCEPT ![j] = Cancelled(@, Kind[j])]
  /\ redis' = redis \ {<<j, job[j].lease>>}
  /\ queue' = Dequeued(j)
  /\ worker' = Overtaken({j})
  /\ UNCHANGED <<expired, admissions, usage, told, budget>>

-----------------------------------------------------------------------------
(* Time.                                                                   *)

BecomesAvailable(j) ==
  /\ job[j].status = "RETRY"
  /\ \A i \in 1 .. Len(queue) : queue[i] # j
  /\ queue' = Append(queue, j)
  /\ UNCHANGED <<job, expired, worker, ai, told, budget>>

LeaseExpires(j) ==
  /\ job[j].status = "RUNNING" /\ j \notin expired
  /\ LeaseOutlivesRun => \A w \in Workers : worker[w].job # j
  /\ expired' = expired \union {j}
  /\ UNCHANGED <<job, queue, worker, ai, told, budget>>

-----------------------------------------------------------------------------
(* A worker process: poll.                                                 *)

\* lockNextAvailable, then Job.claim in memory.
\* Mutant: the job that became available last goes first.
LockNewest(w) ==
  /\ worker[w].pc = "idle"
  /\ \E i \in 1 .. Len(queue) :
       /\ ~Locked(queue[i]) /\ \A k \in i + 1 .. Len(queue) : Locked(queue[k])
       /\ worker' = [worker EXCEPT ![w] =
            [IdleWorker EXCEPT !.pc = "tx", !.op = "claim", !.job = queue[i],
               !.seen = job[queue[i]].attempts + 1, !.reads = {queue[i]},
               !.rows = RowFor(queue[i], Claimed(job[queue[i]], w))]]
  /\ UNCHANGED <<job, queue, expired, ai, told, budget>>

LockNext(w) ==
  /\ worker[w].pc = "idle"
  /\ \E i \in 1 .. Len(queue) :
       /\ ~Locked(queue[i]) /\ \A k \in 1 .. i - 1 : Locked(queue[k])
       /\ CanClaim(job[queue[i]])
       /\ worker' = [worker EXCEPT ![w] =
            [IdleWorker EXCEPT !.pc = "tx", !.op = "claim", !.job = queue[i],
               !.seen = job[queue[i]].attempts + 1,
               !.reads = {queue[i]},
               !.rows = RowFor(queue[i], Claimed(job[queue[i]], w))]]
  /\ UNCHANGED <<job, queue, expired, ai, told, budget>>

CommitClaim(w) ==
  /\ worker[w].pc = "tx" /\ worker[w].op = "claim"
  /\ CanCommit(w)
  /\ job' = Flushed(w)
  /\ queue' = Dequeued(worker[w].job)
  /\ expired' = expired \ {worker[w].job}
  /\ worker' = Moved({worker[w].job}, w,
                     [worker[w] EXCEPT !.pc = "handling", !.op = "none",
                                        !.reads = {}, !.rows = NoRows])
  /\ UNCHANGED <<ai, told, budget>>

\* A transaction of the handler on its own job: progress or checkpoint.
Progress(w) ==
  /\ worker[w].pc = "handling" /\ ~Locked(worker[w].job)
  /\ worker' = Moved({worker[w].job}, w, worker[w])
  /\ UNCHANGED <<job, queue, expired, ai, told, budget>>

\* processWithTrace decides from the entity that claim returned, not from the
\* row, whether the failure is terminal, and then marks the source or the
\* created quiz FAILED.
\* Mutant: the last attempt is not recognised.
SeesTerminalLate(w, o) ==
  o = "failForGood" \/ (o = "fail" /\ worker[w].seen > MaxAttempts[worker[w].job])
SeesTerminal(w, o) ==
  o = "failForGood" \/ (o = "fail" /\ worker[w].seen >= MaxAttempts[worker[w].job])
ToldAfter(w, o) ==
  [told EXCEPT ![worker[w].job] =
     IF o = "succeed" THEN "DONE"
     ELSE IF SeesTerminal(w, o) /\ Kind[worker[w].job] \in {"CREATE_QUIZ", "SOURCE"}
          THEN "FAILED" ELSE @]

\* The handler returns, asks to be deferred, or throws.
Handled(w, o) ==
  /\ worker[w].pc = "handling"
  /\ told' = ToldAfter(w, o)
  /\ worker' = [worker EXCEPT ![w].pc = "settling", ![w].op = o]
  /\ UNCHANGED <<job, queue, expired, ai, budget>>

Settled(row, o, j) ==
  CASE o = "succeed" -> Succeeded(row, Kind[j])
    [] o = "defer" -> Deferred(row)
    [] o = "fail" -> Failed(row, FALSE, MaxAttempts[j], Kind[j])
    [] o = "failForGood" -> Failed(row, TRUE, MaxAttempts[j], Kind[j])

\* JobService.succeed, defer or fail up to the flush.  The concurrency lease
\* is released in Redis before the transaction commits, and stays released
\* if it does not.
BeginSettle(w) ==
  LET j == worker[w].job
      o == worker[w].op
      row == Settled(job[j], o, j)
  IN
  /\ worker[w].pc = "settling"
  /\ worker' = [worker EXCEPT ![w].pc = "tx", ![w].reads = {j}, ![w].rows = RowFor(j, row),
                  ![w].fresh = "FRESH",
                  ![w].bill = IF o = "succeed" /\ job[j].lease # 0 THEN 1 ELSE 0]
  /\ redis' = IF row.lease = 0 THEN redis \ {<<j, job[j].lease>>} ELSE redis
  /\ UNCHANGED <<job, queue, expired, admissions, usage, told, budget>>

CommitSettle(w) ==
  LET j == worker[w].job IN
  /\ worker[w].pc = "tx" /\ worker[w].op \in Settlements
  /\ NotBlocked(w) /\ CanCommit(w)
  /\ job' = Flushed(w)
  /\ queue' = Dequeued(j)
  /\ expired' = expired \ {j}
  /\ usage' = [usage EXCEPT ![j] = @ + worker[w].bill]
  /\ worker' = Moved({j}, w, IdleWorker)
  /\ UNCHANGED <<redis, admissions, told, budget>>

-----------------------------------------------------------------------------
(* A worker process: reclaimStale, failed transactions, crash and restart. *)

\* Mutants of findStaleRunning: heartbeat_at is ignored; only jobs with
\* attempts left are taken back.
EveryRunning == {j \in JobIds : job[j].status = "RUNNING"}
StaleWithAttempts ==
  {j \in expired : job[j].status = "RUNNING" /\ job[j].attempts < MaxAttempts[j]}

StaleRunning == {j \in expired : job[j].status = "RUNNING"}

BeginSweep(w) ==
  /\ worker[w].pc = "idle" /\ StaleRunning # {}
  /\ worker' = [worker EXCEPT ![w] =
       [IdleWorker EXCEPT !.pc = "tx", !.op = "sweep",
          !.reads = StaleRunning,
          !.rows = [j \in JobIds |->
             IF j \in StaleRunning THEN Reclaimed(job[j]) ELSE AbsentRow]]]
  /\ UNCHANGED <<job, queue, expired, ai, told, budget>>

CommitSweep(w) ==
  LET stale == worker[w].reads IN
  /\ worker[w].pc = "tx" /\ worker[w].op = "sweep"
  /\ NotBlocked(w) /\ CanCommit(w)
  /\ job' = Flushed(w)
  /\ \E n \in 1 .. N : \E s \in [1 .. n -> stale] :
       InCreationOrder(s, n, stale) /\ queue' = queue \o s
  /\ expired' = expired \ stale
  /\ worker' = Moved(stale, w, IdleWorker)
  /\ UNCHANGED <<ai, told, budget>>

\* The flush throws.  In JobService.succeed the exception is caught by
\* processWithTrace like a failure of the handler; elsewhere it ends the run.
Rollback(w) ==
  /\ worker[w].pc = "tx" /\ ~CanCommit(w)
  /\ IF worker[w].op = "succeed"
     THEN /\ worker' = [worker EXCEPT ![w] =
                          [@ EXCEPT !.pc = "settling", !.op = "fail",
                             !.reads = {}, !.rows = NoRows, !.fresh = "FRESH", !.bill = 0]]
          /\ told' = ToldAfter(w, "fail")
     ELSE /\ worker' = [worker EXCEPT ![w] = IdleWorker]
          /\ UNCHANGED told
  /\ UNCHANGED <<job, queue, expired, ai, budget>>

Crash(w) ==
  /\ crashes < MaxCrashes
  /\ worker[w].pc # "down"
  /\ worker' = [worker EXCEPT ![w] = [IdleWorker EXCEPT !.pc = "down"]]
  /\ crashes' = crashes + 1
  /\ UNCHANGED <<job, queue, expired, ai, told, retries>>

Restart(w) ==
  /\ worker[w].pc = "down"
  /\ worker' = [worker EXCEPT ![w] = IdleWorker]
  /\ UNCHANGED <<job, queue, expired, ai, told, budget>>

-----------------------------------------------------------------------------
JobStep(j) ==
  \/ Enqueue(j) \/ AdminRetry(j) \/ OwnerRetry(j) \/ AdminCancel(j)
  \/ BecomesAvailable(j) \/ LeaseExpires(j)

WorkerStep(w) ==
  \/ LockNext(w) \/ CommitClaim(w) \/ Progress(w)
  \/ \E o \in Settlements : Handled(w, o)
  \/ BeginSettle(w) \/ CommitSettle(w)
  \/ BeginSweep(w) \/ CommitSweep(w)
  \/ Rollback(w) \/ Crash(w) \/ Restart(w)

Next == (\E j \in JobIds : JobStep(j)) \/ (\E w \in Workers : WorkerStep(w))

Spec == Init /\ [][Next]_vars

\* Fairness: the scheduler of a live process keeps polling and sweeping, its
\* transactions end, handlers end (their HTTP calls have timeouts), delays
\* and leases run out, and the supervisor restarts a dead process.  Nothing
\* is assumed of users, administrators or crashes.
FairSpec ==
  /\ Spec
  /\ \A w \in Workers :
       /\ WF_vars(LockNext(w)) /\ WF_vars(CommitClaim(w))
       /\ WF_vars(\E o \in Settlements : Handled(w, o))
       /\ WF_vars(BeginSettle(w)) /\ WF_vars(CommitSettle(w))
       /\ SF_vars(BeginSweep(w)) /\ WF_vars(CommitSweep(w))
       /\ WF_vars(Rollback(w)) /\ WF_vars(Restart(w))
  /\ \A j \in JobIds : WF_vars(BecomesAvailable(j)) /\ WF_vars(LeaseExpires(j))

-----------------------------------------------------------------------------
(* Properties.                                                             *)

InQueue(j) == \E i \in 1 .. Len(queue) : queue[i] = j
Processing(w) == worker[w].pc \in {"handling", "settling"} \/ worker[w].op \in Settlements

\* Types of the table, the queue and the worker threads.
TypeOK ==
  /\ job \in [JobIds -> Row]
  /\ queue \in Seq(JobIds)
  /\ expired \subseteq JobIds
  /\ worker \in [Workers -> Worker]
  /\ redis \subseteq JobIds \X Nat
  /\ admissions \in [JobIds -> Nat]
  /\ usage \in [JobIds -> Nat]
  /\ told \in [JobIds -> {"NOTHING", "DONE", "FAILED"}]
  /\ retries \in 0 .. MaxRetries
  /\ crashes \in 0 .. MaxCrashes

\* No lost update: whatever sweeps, retries, cancels and other workers commit
\* while a transaction of JobService is open, a transaction that still passes
\* the version check writes the successor of the row as it is now, never the
\* successor of a row somebody has replaced since.
FlushesCurrentRow ==
  \A w \in Workers : worker[w].fresh = "FRESH" =>
    \A j \in worker[w].reads :
      worker[w].rows[j] =
        CASE worker[w].op = "claim" -> Claimed(job[j], w)
          [] worker[w].op = "sweep" -> Reclaimed(job[j])
          [] OTHER -> Settled(job[j], worker[w].op, j)

\* `for update skip locked`: two processes never hold the same candidate row,
\* and what a claim read cannot change before the claim ends.
ClaimsAreExclusive ==
  \A w \in Workers : worker[w].op = "claim" =>
    /\ worker[w].fresh = "FRESH"
    /\ \A u \in Workers \ {w} : worker[u].op = "claim" => worker[u].job # worker[w].job

\* JobRepository.lockNextAvailable and @Version together: among any number of
\* processes no write is lost and no job is claimed twice.
WritesAreSerial == FlushesCurrentRow /\ ClaimsAreExclusive

\* The queue forgets no job and offers no job twice: it lists exactly
\* claimable jobs, each once, and a QUEUED job is always in it, so that only
\* a RETRY job whose delay runs can be claimable and not listed.
QueueIsExact ==
  /\ \A i, k \in 1 .. Len(queue) : i # k => queue[i] # queue[k]
  /\ \A i \in 1 .. Len(queue) : job[queue[i]].status \in Claimable
  /\ \A j \in JobIds : job[j].status = "QUEUED" => InQueue(j)

\* A slot of the AI concurrency limit is never orphaned: each lease held in
\* Redis is the one its job row still names, and the job is active, so some
\* later settlement or cancel releases it (even though releases happen before
\* the commit and two workers may settle one job).
NoOrphanLease ==
  \A l \in redis : job[l[1]].lease = l[2] /\ job[l[1]].status \in Active

\* AI usage is recorded at most once per admission, however many workers
\* report success of the same job.
UsageOncePerAdmission ==
  \A j \in JobIds :
    usage[j] <= admissions[j] - (IF job[j].lease # 0 THEN 1 ELSE 0)

\* The Redis lease, the job row and the usage record of an AI operation agree,
\* although they are written apart and two workers may settle one job.
AiIsAccounted == NoOrphanLease /\ UsageOncePerAdmission

\* When runs end within their lease, a job is processed by one process at a
\* time, across crashes, sweeps and retries.
SoleRunner ==
  \A u, w \in Workers :
    u # w /\ Processing(u) /\ Processing(w) => worker[u].job # worker[w].job

\* When runs end within their lease, a worker settles only a job that it
\* still owns: the row is RUNNING under its name with the attempts that it
\* was given by the claim.
SettlesOwnJob ==
  \A w \in Workers : Processing(w) =>
    LET row == job[worker[w].job] IN
    /\ row.status = "RUNNING" /\ row.lockedBy = w
    /\ row.attempts = worker[w].seen

\* When runs end within their lease, the run of a job is alone from its claim
\* to its settlement.
RunsAreExclusive == SoleRunner /\ SettlesOwnJob

\* When runs end within their lease, a finished job leaves its final status
\* only through an explicit retry.
TerminalIsFinal ==
  [][\A j \in JobIds :
       job[j].status \in Terminal /\ job'[j].status # job[j].status
         => job[j].status = "FAILED" /\ retries' = retries + 1]_vars

\* When runs end within their lease, the job and its resource agree: a
\* SUCCEEDED job has told its resource so, and a quiz creation or a source
\* whose job FAILED in a run is marked failed (the mark is decided from the
\* claimed entity, the job status from the row).
OutcomesAgree ==
  \A j \in JobIds :
    /\ job[j].status = "SUCCEEDED" => told[j] = "DONE"
    /\ /\ job[j].status = "FAILED" /\ job[j].error = "RUN_FAILED"
       /\ Kind[j] \in {"CREATE_QUIZ", "SOURCE"}
       => told[j] = "FAILED"

\* When runs end within their lease, and as long as nobody has retried a job
\* by hand, an e-mail job that can still run has its (encrypted) payload.
EmailKeepsPayload ==
  retries = 0 =>
    \A j \in JobIds :
      Kind[j] = "EMAIL" /\ job[j].status \in Active => job[j].payload = "KEPT"

\* When runs end within their lease, what a job leaves behind fits its status:
\* the mark on its resource, and the payload it needs to run again.
OutcomesAreKept == OutcomesAgree /\ EmailKeepsPayload

\* First come, first served: a job that became available is eventually taken
\* (or cancelled), whatever the jobs before and behind it do, unless a job
\* without attempts left is put on offer (by a sweep, or by an administrator's
\* retry, which keeps the attempts): no claim of that one ever commits, and it
\* may hold up those behind it.
SpentJobOffered == \E j \in JobIds : InQueue(j) /\ job[j].attempts >= MaxAttempts[j]
AvailableJobIsTaken ==
  \A j \in JobIds : InQueue(j) ~> ~InQueue(j) \/ SpentJobOffered

\* A job never stays RUNNING for ever: the run ends, or its process dies and
\* a sweep takes the job back.
RunningJobIsReleased ==
  \A j \in JobIds : job[j].status = "RUNNING" ~> job[j].status # "RUNNING"

\* Neither an available nor a RUNNING job is left behind.
JobsMoveOn == AvailableJobIsTaken /\ RunningJobIsReleased

\* When runs end within their lease, the queue with its rows, versions,
\* leases and sweeps is a OneRunnerQueue: every commit of a worker, a sweep or
\* the API is one of its steps or none, runs end and abandoned jobs return.
AbstractState(s) == CASE s = "ABSENT" -> "absent"
                      [] s \in Claimable -> "waiting"
                      [] s = "RUNNING" -> "running"
                      [] s = "SUCCEEDED" -> "done"
                      [] s = "FAILED" -> "failed"
Runners(j) == {w \in Workers : Processing(w) /\ worker[w].job = j}
Promise == INSTANCE OneRunnerQueue WITH
  Jobs <- JobIds,
  state <- [j \in JobIds |-> AbstractState(job[j].status)],
  runners <- [j \in JobIds |-> Runners(j)]
KeepsPromise == Promise!FairSpec
=============================================================================
