-------------------------------- MODULE Job --------------------------------
(***************************************************************************)
(* The row of table `jobs` and the transitions of entity Job (Job.java).   *)
(* Each operator maps a row to the row the method leaves behind; the       *)
(* guards of claim, retryByAdmin, retryByOwner and cancelByAdmin (which    *)
(* throw) are stated beside them.  succeed, fail, defer and reclaimIfStale *)
(* have no guard: the entity never asks who calls it or in which state.    *)
(*                                                                         *)
(* Data kept: status, attempts, the lease owner, why the job failed,       *)
(* whether the payload is still there and the AI admission lease (0: none, *)
(* n: the n-th admission of this job).  available_at lives in the queue    *)
(* order of JobQueue, heartbeat_at in its set of expired leases.           *)
(***************************************************************************)
EXTENDS Integers

CONSTANTS Workers,  \* worker processes, identified by workerId
          NoWorker  \* lockedBy = null

ASSUME NoWorkerAssumption == NoWorker \notin Workers

Kinds == {"CREATE_QUIZ", "APPEND_QUIZ", "EMAIL", "SOURCE"}
QuizKinds == {"CREATE_QUIZ", "APPEND_QUIZ"}

Claimable == {"QUEUED", "RETRY"}
Active == Claimable \union {"RUNNING"}
Terminal == {"SUCCEEDED", "FAILED"}
Statuses == {"ABSENT"} \union Active \union Terminal

Payloads == {"KEPT", "SCRUBBED"}
Errors == {"NONE", "RUN_FAILED", "CANCELLED_BY_ADMIN"}

Row == [status: Statuses, attempts: Nat, lockedBy: Workers \union {NoWorker},
        error: Errors, payload: Payloads, lease: Nat]

AbsentRow == [status |-> "ABSENT", attempts |-> 0, lockedBy |-> NoWorker,
              error |-> "NONE", payload |-> "SCRUBBED", lease |-> 0]

\* The constructor; `admission` is 0 for a job that needs no AI admission.
NewJob(admission) ==
  [status |-> "QUEUED", attempts |-> 0, lockedBy |-> NoWorker,
   error |-> "NONE", payload |-> "KEPT", lease |-> admission]

\* scrubSensitivePayload: only the payload of an AUTH_EMAIL job is dropped.
ScrubPayload(row, kind) == IF kind = "EMAIL" THEN "SCRUBBED" ELSE row.payload

CanClaim(row) == row.status \in Claimable
Claimed(row, w) ==
  [row EXCEPT !.status = "RUNNING", !.attempts = @ + 1, !.lockedBy = w]

\* JobService.succeed: Job.succeed, then completeAiAccounting clears the
\* admission.
\* Mutant: the admission is kept.
SucceededKeepsLease(row, kind) ==
  [row EXCEPT !.status = "SUCCEEDED", !.error = "NONE", !.lockedBy = NoWorker,
              !.payload = ScrubPayload(row, kind)]
Succeeded(row, kind) ==
  [row EXCEPT !.status = "SUCCEEDED", !.error = "NONE", !.lockedBy = NoWorker,
              !.payload = ScrubPayload(row, kind), !.lease = 0]

\* JobService.fail: Job.fail, then releaseAiIfTerminal.
FailsForGood(row, permanent, max) == permanent \/ row.attempts >= max
\* Mutants: the admission is kept, the payload dropped before a retry.
FailedKeepsLease(row, permanent, max, kind) ==
  [row EXCEPT !.status = IF FailsForGood(row, permanent, max) THEN "FAILED" ELSE "RETRY",
              !.error = "RUN_FAILED", !.lockedBy = NoWorker]
FailedScrubsAlways(row, permanent, max, kind) ==
  [row EXCEPT !.status = IF FailsForGood(row, permanent, max) THEN "FAILED" ELSE "RETRY",
              !.error = "RUN_FAILED", !.lockedBy = NoWorker,
              !.payload = ScrubPayload(row, kind),
              !.lease = IF FailsForGood(row, permanent, max) THEN 0 ELSE @]
Failed(row, permanent, max, kind) ==
  IF FailsForGood(row, permanent, max)
  THEN [row EXCEPT !.status = "FAILED", !.error = "RUN_FAILED",
                   !.lockedBy = NoWorker, !.payload = ScrubPayload(row, kind),
                   !.lease = 0]
  ELSE [row EXCEPT !.status = "RETRY", !.error = "RUN_FAILED",
                   !.lockedBy = NoWorker]

\* Mutant: one attempt too many is given back, without the lower bound.
DeferredTooMuch(row) ==
  [row EXCEPT !.status = "RETRY", !.lockedBy = NoWorker, !.error = "NONE",
              !.attempts = @ - 2]
Deferred(row) ==
  [row EXCEPT !.status = "RETRY", !.lockedBy = NoWorker, !.error = "NONE",
              !.attempts = IF @ = 0 THEN 0 ELSE @ - 1]

Reclaimed(row) == [row EXCEPT !.status = "RETRY", !.lockedBy = NoWorker]

\* AdminService.retryJob: retryByAdmin keeps the attempts already spent.
CanRetry(row) == row.status = "FAILED"
RetriedByAdmin(row, admission) ==
  [row EXCEPT !.status = "RETRY", !.error = "NONE", !.lockedBy = NoWorker,
              !.lease = IF admission = 0 THEN @ ELSE admission]

\* JobService.retryOwnedQuizGeneration: retryByOwner resets the attempts.
RetriedByOwner(row, admission) ==
  [row EXCEPT !.status = "RETRY", !.error = "NONE", !.lockedBy = NoWorker,
              !.attempts = 0, !.lease = admission]

\* AdminService.cancelJob: cancelByAdmin, then the admission is released.
\* Mutants: a running job, or any job, can be cancelled.
CanCancelActive(row) == row.status \in Active
CanCancelAny(row) == row.status # "ABSENT"
CanCancel(row) == row.status \in Claimable
Cancelled(row, kind) ==
  [row EXCEPT !.status = "FAILED", !.error = "CANCELLED_BY_ADMIN",
              !.lockedBy = NoWorker, !.payload = ScrubPayload(row, kind),
              !.lease = 0]
=============================================================================
