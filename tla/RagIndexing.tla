----------------------------- MODULE RagIndexing -----------------------------
(***************************************************************************)
(* Asynchronous indexing in rag-service, for the documents of one owner:   *)
(* IndexingJobService, AsyncDocumentService/AsyncDocumentProcessor, the    *)
(* Celery tasks, the v2 routes that change jobs and documents, and the     *)
(* owner's vector index.                                                   *)
(*                                                                         *)
(* Threads are the Celery workers (pool "solo": one task at a time each)   *)
(* and the request threads of the API.  A method of IndexingJobService     *)
(* reads its rows, decides, and flushes at the commit (autoflush=False);   *)
(* nothing checks that the rows are still as they were read.  Only         *)
(* _commit_if_running holds a row lock (FOR UPDATE) on its job, from its   *)
(* check of RUNNING, over the embedding and the swap of the index, to the  *)
(* commit that makes the document READY.  SQLAlchemy writes only the       *)
(* attributes that changed against the value read.                         *)
(*                                                                         *)
(* Abstractions: the index is the set of documents that have chunks in the *)
(* active snapshot; replace_document reads the snapshot before it takes    *)
(* the Redis lock, so the read and the swap are two steps; equal messages  *)
(* waiting in the broker are one; files in object storage are left out     *)
(* (a missing file is a permanent failure of the parse).                   *)
(***************************************************************************)
EXTENDS Naturals, FiniteSets

CONSTANTS
  Docs, Jobs, NoDoc, NoJob,
  DocOf,            \* [Jobs -> Docs]
  Operation,        \* [Jobs -> {"UPLOAD", "REINDEX"}]
  Workers, Clients,
  MaxAttempts,      \* INDEXING_JOB_MAX_ATTEMPTS
  MaxTaskRetries,   \* max_retries of the Celery task
  HeartbeatsKeepUp, \* TRUE: no step of a run outlasts INDEXING_JOB_STALE_SECONDS
  PatientOwner,     \* TRUE: the owner retries a job only when no run of it is left
  ShortTx,          \* TRUE: a transaction that waits for no lock is not overtaken
  MaxUserOps,       \* bound: cancels, retries and deletes by the owner
  MaxCrashes        \* bound: crashes of workers

Threads == Workers \union Clients

ASSUME IndexingAssumptions ==
  /\ DocOf \in [Jobs -> Docs]
  /\ Operation \in [Jobs -> {"UPLOAD", "REINDEX"}]
  \* An upload creates its document together with its job.
  /\ \A i, j \in Jobs :
       Operation[i] = "UPLOAD" /\ Operation[j] = "UPLOAD" /\ DocOf[i] = DocOf[j] => i = j
  /\ Workers \cap Clients = {}
  /\ NoDoc \notin Docs /\ NoJob \notin Jobs
  /\ MaxAttempts \in Nat \ {0} /\ MaxTaskRetries \in Nat
  /\ {HeartbeatsKeepUp, PatientOwner, ShortTx} \subseteq BOOLEAN
  /\ MaxUserOps \in Nat /\ MaxCrashes \in Nat

VARIABLES
  doc,     \* [Docs -> DocStatuses]: table documents
  job,     \* [Jobs -> JobRow]: table indexing_jobs
  stale,   \* RUNNING jobs whose heartbeat_at is before the cutoff
  broker,  \* Celery messages <<job, retries>> not delivered yet
  index,   \* documents with chunks in the owner's active snapshot
  thread,  \* [Threads -> Thread]
  ops, crashes

vars == <<doc, job, stale, broker, index, thread, ops, crashes>>

DocStatuses == {"ABSENT", "PROCESSING", "READY", "FAILED", "DELETED"}
ActiveJob == {"PENDING", "RUNNING"}
FinalJob == {"SUCCEEDED", "FAILED", "CANCELLED"}
JobStatuses == {"ABSENT"} \union ActiveJob \union FinalJob
JobRow == [status: JobStatuses, attempts: Nat]

\* What an open transaction will flush: a status for some jobs, whether it
\* resets attempt_count, and a document with its new status ("KEEP": only
\* other columns of the document change).
Write == [jobs: SUBSET Jobs, status: JobStatuses, reset: BOOLEAN,
          doc: Docs \union {NoDoc}, to: DocStatuses \union {"KEEP"}]
NoWrite == [jobs |-> {}, status |-> "ABSENT", reset |-> FALSE,
            doc |-> NoDoc, to |-> "KEEP"]

Thread == [pc: {"idle", "claimed", "working", "indexing", "publishing",
                "restoring", "indexed", "failing", "failed", "tx",
                "deleting", "unindexing", "rebuilding"},
           job: Jobs \union {NoJob}, retries: 0 .. MaxTaskRetries,
           err: {"NONE", "PERMANENT", "TRANSIENT"},
           holds: Jobs \union {NoJob},     \* the row locked FOR UPDATE
           doc: Docs \union {NoDoc},
           snap: SUBSET Docs,              \* the snapshot read before a swap
           had: BOOLEAN,                   \* previous_chunks is not empty
           write: Write, next: {"idle", "indexed", "failed", "deleting"},
           sends: SUBSET (Jobs \X (0 .. MaxTaskRetries))]

IdleThread == [pc |-> "idle", job |-> NoJob, retries |-> 0, err |-> "NONE",
               holds |-> NoJob, doc |-> NoDoc, snap |-> {}, had |-> FALSE,
               write |-> NoWrite, next |-> "idle", sends |-> {}]

Init ==
  /\ doc = [d \in Docs |-> "ABSENT"]
  /\ job = [j \in Jobs |-> [status |-> "ABSENT", attempts |-> 0]]
  /\ stale = {} /\ broker = {} /\ index = {}
  /\ thread = [t \in Threads |-> IdleThread]
  /\ ops = 0 /\ crashes = 0

-----------------------------------------------------------------------------
(* Transactions.                                                           *)

\* SELECT ... FOR UPDATE of _commit_if_running.
\* Mutant: a plain SELECT locks nothing.
NeverLocked(t, j) == FALSE
LockedAgainst(t, j) == \E u \in Threads \ {t} : thread[u].holds = j

Waits(t) == \E j \in thread[t].write.jobs : LockedAgainst(t, j)

\* With ShortTx nobody reads or goes on between the read and the commit of
\* another thread's transaction, unless that one waits for a row lock.
Undisturbed(t) ==
  ShortTx => \A u \in Threads \ {t} : thread[u].pc = "tx" => Waits(u)

\* Thread t opens a transaction that will flush `write`, send `sends` once it
\* has committed, and go on at `next`; without a change it goes on at once.
Open(t, write, sends, next) ==
  thread' = [thread EXCEPT ![t] =
    IF write = NoWrite
    THEN IF next = "idle" THEN IdleThread ELSE [@ EXCEPT !.pc = next]
    ELSE [@ EXCEPT !.pc = "tx", !.write = write, !.sends = sends, !.next = next]]

JobsAfter(write) ==
  [j \in Jobs |->
     IF j \in write.jobs
     THEN [status |-> write.status,
           attempts |-> IF write.reset THEN 0 ELSE job[j].attempts]
     ELSE job[j]]

\* uq_indexing_jobs_document_active.
OneActivePerDocument(t) ==
  \A i, j \in Jobs :
    i # j /\ DocOf[i] = DocOf[j]
      => ~(t[i].status \in ActiveJob /\ t[j].status \in ActiveJob)

\* session.commit(); a dispatch that follows may get lost with the broker
\* or the process.
Commit(t) ==
  LET write == thread[t].write IN
  /\ thread[t].pc = "tx" /\ ~Waits(t)
  /\ job' = JobsAfter(write)
  /\ OneActivePerDocument(job')
  /\ doc' = [d \in Docs |-> IF d = write.doc /\ write.to # "KEEP" THEN write.to ELSE doc[d]]
  /\ \/ broker' = broker \union thread[t].sends
     \/ broker' = broker /\ thread[t].sends # {}
  /\ thread' = [thread EXCEPT ![t] =
       IF @.next = "idle" THEN IdleThread
       ELSE [@ EXCEPT !.pc = thread[t].next, !.write = NoWrite, !.sends = {}, !.holds = NoJob]]
  /\ UNCHANGED <<stale, index, ops, crashes>>

\* IntegrityError: the request or the task ends.
Reject(t) ==
  /\ thread[t].pc = "tx" /\ ~Waits(t)
  /\ ~OneActivePerDocument(JobsAfter(thread[t].write))
  /\ thread' = [thread EXCEPT ![t] = IdleThread]
  /\ UNCHANGED <<doc, job, stale, broker, index, ops, crashes>>

\* _commit_if_running has locked the job and flushes the document, while
\* another transaction has flushed the document and waits for the job:
\* PostgreSQL aborts one of them.
Deadlock(t, u) ==
  /\ thread[t].pc = "tx" /\ thread[u].pc = "tx"
  /\ thread[u].holds \in thread[t].write.jobs
  /\ thread[t].write.doc = thread[u].write.doc /\ thread[u].write.doc # NoDoc
  /\ \/ thread' = [thread EXCEPT ![t] = IdleThread]
     \/ thread' = [thread EXCEPT ![u] =
          [@ EXCEPT !.pc = "restoring", !.err = "TRANSIENT", !.holds = NoJob,
                    !.write = NoWrite, !.snap = index]]
  /\ UNCHANGED <<doc, job, stale, broker, index, ops, crashes>>

-----------------------------------------------------------------------------
(* What the methods of IndexingJobService write, from the rows they read.  *)

\* Whether the document's status follows the one of the job.
\* Mutants: a deleted document, the document of a REINDEX are not spared.
TouchesReindexed(j) == doc[DocOf[j]] # "DELETED"
TouchesDeleted(j) == Operation[j] # "REINDEX"
TouchesDoc(j) == Operation[j] # "REINDEX" /\ doc[DocOf[j]] # "DELETED"

Change(j, status, reset, docStatus) ==
  [jobs |-> {j}, status |-> status, reset |-> reset,
   doc |-> IF TouchesDoc(j) THEN DocOf[j] ELSE NoDoc,
   to |-> IF TouchesDoc(j) /\ doc[DocOf[j]] # docStatus THEN docStatus ELSE "KEEP"]

\* Mutant: a cancelled job may succeed.
SucceedAlways(j) == [NoWrite EXCEPT !.jobs = {j}, !.status = "SUCCEEDED"]
Succeed(j) ==
  IF job[j].status \in {"CANCELLED", "SUCCEEDED"} THEN NoWrite
  ELSE [NoWrite EXCEPT !.jobs = {j}, !.status = "SUCCEEDED"]

Fail(j) ==
  IF job[j].status \in {"CANCELLED", "FAILED"} THEN NoWrite
  ELSE Change(j, "FAILED", FALSE, "FAILED")

Cancel(j) ==
  IF job[j].status \in FinalJob THEN NoWrite
  ELSE Change(j, "CANCELLED", FALSE, "FAILED")

\* Mutant: every finished job can be retried.
CanRetryFinished(j, reset) ==
  job[j].status \in FinalJob /\ (reset \/ job[j].attempts < MaxAttempts)
CanRetry(j, reset) ==
  /\ job[j].status \in {"FAILED", "CANCELLED"}
  /\ reset \/ job[j].attempts < MaxAttempts
Retry(j, reset) == Change(j, "PENDING", reset /\ job[j].attempts # 0, "PROCESSING")

\* Mutant: the last attempt is recovered as well.
EveryStale == {j \in stale : job[j].status = "RUNNING"}
Recoverable == {j \in stale : job[j].status = "RUNNING" /\ job[j].attempts < MaxAttempts}

-----------------------------------------------------------------------------
(* The owner's requests.                                                   *)

Send(m) == broker' = broker \union {m} \/ broker' = broker

\* POST /user-documents: the document and its job in one transaction.
Upload(c, j) ==
  /\ thread[c].pc = "idle" /\ Undisturbed(c)
  /\ Operation[j] = "UPLOAD"
  /\ job[j].status = "ABSENT" /\ doc[DocOf[j]] = "ABSENT"
  /\ doc' = [doc EXCEPT ![DocOf[j]] = "PROCESSING"]
  /\ job' = [job EXCEPT ![j] = [status |-> "PENDING", attempts |-> 0]]
  /\ Send(<<j, 0>>)
  /\ UNCHANGED <<stale, index, thread, ops, crashes>>

\* POST /user-documents/{id}/reindex, when no job of the document is active
\* (otherwise the active job is returned).
Reindex(c, j) ==
  /\ thread[c].pc = "idle" /\ Undisturbed(c)
  /\ Operation[j] = "REINDEX"
  /\ job[j].status = "ABSENT" /\ doc[DocOf[j]] = "READY"
  /\ \A i \in Jobs : DocOf[i] = DocOf[j] => job[i].status \notin ActiveJob
  /\ Open(c, [NoWrite EXCEPT !.jobs = {j}, !.status = "PENDING"], {<<j, 0>>}, "idle")
  /\ UNCHANGED <<doc, job, stale, broker, index, ops, crashes>>

UserOp(c) ==
  /\ thread[c].pc = "idle" /\ Undisturbed(c)
  /\ ops < MaxUserOps /\ ops' = ops + 1
  /\ UNCHANGED <<doc, job, stale, broker, index, crashes>>

\* POST /indexing-jobs/{id}/cancel
RequestCancel(c, j) ==
  /\ UserOp(c)
  /\ job[j].status # "ABSENT" /\ Cancel(j) # NoWrite
  /\ Open(c, Cancel(j), {}, "idle")

\* POST /indexing-jobs/{id}/retry
RequestRetry(c, j) ==
  /\ UserOp(c)
  /\ CanRetry(j, TRUE)
  /\ PatientOwner => \A w \in Workers : thread[w].job # j
  /\ Open(c, Retry(j, TRUE), {<<j, 0>>}, "idle")

\* DELETE /user-documents/{id}: cancel_for_document, which finds at most one
\* active job, then UserDocumentService.delete.
RequestDelete(c, d) ==
  /\ UserOp(c)
  /\ doc[d] # "ABSENT"
  /\ IF \E j \in Jobs : DocOf[j] = d /\ job[j].status \in ActiveJob
     THEN \E j \in Jobs :
            /\ DocOf[j] = d /\ job[j].status \in ActiveJob
            /\ thread' = [thread EXCEPT ![c] =
                 [@ EXCEPT !.pc = "tx", !.doc = d, !.write = Cancel(j), !.next = "deleting"]]
     ELSE thread' = [thread EXCEPT ![c] = [@ EXCEPT !.pc = "deleting", !.doc = d]]

DeleteRecord(c) ==
  LET d == thread[c].doc IN
  /\ thread[c].pc = "deleting" /\ Undisturbed(c)
  /\ IF doc[d] = "DELETED"
     THEN thread' = [thread EXCEPT ![c] = IdleThread] /\ UNCHANGED doc
     ELSE /\ doc' = [doc EXCEPT ![d] = "DELETED"]
          /\ thread' = [thread EXCEPT ![c] =
               [@ EXCEPT !.pc = "unindexing", !.snap = index, !.had = FALSE]]
  /\ UNCHANGED <<job, stale, broker, index, ops, crashes>>

\* remove_document; a failure is swallowed.
Unindex(c) ==
  /\ thread[c].pc = "unindexing" /\ Undisturbed(c)
  /\ index' = thread[c].snap \ {thread[c].doc} \/ UNCHANGED index
  /\ thread' = [thread EXCEPT ![c] = IdleThread]
  /\ UNCHANGED <<doc, job, stale, broker, ops, crashes>>

ReadyDocs == {d \in Docs : doc[d] = "READY"}
\* Mutant: documents missing in the index go unnoticed.
NothingExtra == index \subseteq ReadyDocs
IsConsistent == index = ReadyDocs

\* A search compares the index with the READY documents and rebuilds it from
\* them when they differ.
Search(c) ==
  /\ thread[c].pc = "idle" /\ Undisturbed(c)
  /\ ~IsConsistent
  /\ thread' = [thread EXCEPT ![c] = [@ EXCEPT !.pc = "rebuilding", !.snap = ReadyDocs]]
  /\ UNCHANGED <<doc, job, stale, broker, index, ops, crashes>>

Rebuild(c) ==
  /\ thread[c].pc = "rebuilding" /\ Undisturbed(c)
  /\ index' = thread[c].snap
  /\ thread' = [thread EXCEPT ![c] = IdleThread]
  /\ UNCHANGED <<doc, job, stale, broker, ops, crashes>>

-----------------------------------------------------------------------------
(* A Celery worker: process_indexing_job.                                  *)

\* Mutant: a redelivered message restarts a RUNNING job.
ClaimableAgain(j) == job[j].status \in ActiveJob
Claimable(j) == job[j].status = "PENDING"

\* Delivery and IndexingJobService.claim, one conditional UPDATE; a message
\* for a job that is not PENDING has no effect.
Deliver(w, m) ==
  LET j == m[1] IN
  /\ thread[w].pc = "idle" /\ Undisturbed(w)
  /\ m \in broker /\ ~LockedAgainst(w, j)
  /\ broker' = broker \ {m}
  /\ IF Claimable(j)
     THEN /\ job' = [job EXCEPT ![j] = [status |-> "RUNNING", attempts |-> @.attempts + 1]]
          /\ stale' = stale \ {j}
          /\ thread' = [thread EXCEPT ![w] =
               [IdleThread EXCEPT !.pc = "claimed", !.job = j, !.retries = m[2]]]
     ELSE UNCHANGED <<job, stale, thread>>
  /\ UNCHANGED <<doc, index, ops, crashes>>

\* process: a deleted document or a cancelled job ends the run.
Start(w) ==
  LET j == thread[w].job IN
  /\ thread[w].pc = "claimed" /\ Undisturbed(w)
  /\ IF doc[DocOf[j]] = "DELETED" \/ job[j].status = "CANCELLED"
     THEN Open(w, Cancel(j), {}, "idle")
     ELSE thread' = [thread EXCEPT ![w].pc = "working"]
  /\ UNCHANGED <<doc, job, stale, broker, index, ops, crashes>>

Throws(w, err) ==
  thread' = [thread EXCEPT ![w] =
    [@ EXCEPT !.pc = "failing", !.err = err, !.holds = NoJob]]

\* _step between parsing, chunking, embedding and committing: it refreshes
\* the heartbeat of a RUNNING job and gives up otherwise.
Step(w) ==
  LET j == thread[w].job IN
  /\ thread[w].pc = "working" /\ Undisturbed(w) /\ ~LockedAgainst(w, j)
  /\ IF job[j].status = "RUNNING"
     THEN stale' = stale \ {j} /\ UNCHANGED thread
     ELSE Throws(w, "PERMANENT") /\ UNCHANGED stale
  /\ UNCHANGED <<doc, job, broker, index, ops, crashes>>

\* is_cancelled after EMBEDDING: the run just ends.
SeesCancel(w) ==
  /\ thread[w].pc = "working" /\ Undisturbed(w)
  /\ job[thread[w].job].status = "CANCELLED"
  /\ thread' = [thread EXCEPT ![w] = IdleThread]
  /\ UNCHANGED <<doc, job, stale, broker, index, ops, crashes>>

\* Parsing or chunking fails: an unreadable file for good, anything else
\* (status >= 500 or retryable) not.
ParseFails(w) ==
  /\ thread[w].pc = "working" /\ Undisturbed(w)
  /\ \E err \in {"PERMANENT", "TRANSIENT"} : Throws(w, err)
  /\ UNCHANGED <<doc, job, stale, broker, index, ops, crashes>>

\* Mutant: the status is not looked at again.
CommitsAlways(j) == TRUE
MayCommit(j) == job[j].status = "RUNNING"

\* _commit_if_running up to the read of the snapshot.
LockJob(w) ==
  LET j == thread[w].job IN
  /\ thread[w].pc = "working" /\ Undisturbed(w) /\ ~LockedAgainst(w, j)
  /\ IF MayCommit(j)
     THEN thread' = [thread EXCEPT ![w] =
            [@ EXCEPT !.pc = "indexing", !.holds = j, !.snap = index,
                      !.had = DocOf[j] \in index]]
     ELSE Throws(w, "PERMANENT")
  /\ UNCHANGED <<doc, job, stale, broker, index, ops, crashes>>

\* replace_document: embedding, then the swap of the snapshot.
SwapIndex(w) ==
  /\ thread[w].pc = "indexing" /\ Undisturbed(w)
  /\ \/ /\ index' = thread[w].snap \union {DocOf[thread[w].job]}
        /\ thread' = [thread EXCEPT ![w].pc = "publishing"]
     \/ Throws(w, "TRANSIENT") /\ UNCHANGED index
  /\ UNCHANGED <<doc, job, stale, broker, ops, crashes>>

\* The document becomes READY in the transaction that holds the job's lock.
Publish(w) ==
  LET d == DocOf[thread[w].job] IN
  /\ thread[w].pc = "publishing" /\ Undisturbed(w)
  /\ thread' = [thread EXCEPT ![w] =
       IF doc[d] = "DELETED"
       THEN [@ EXCEPT !.pc = "restoring", !.err = "PERMANENT", !.holds = NoJob,
                      !.snap = index]
       ELSE [@ EXCEPT !.pc = "tx", !.next = "indexed",
                      !.write = [NoWrite EXCEPT !.doc = d,
                                   !.to = IF doc[d] = "READY" THEN "KEEP" ELSE "READY"]]]
  /\ UNCHANGED <<doc, job, stale, broker, index, ops, crashes>>

\* The exception handler puts the previous chunks of the document back.
Restore(w) ==
  LET d == DocOf[thread[w].job] IN
  /\ thread[w].pc = "restoring" /\ Undisturbed(w)
  /\ \/ /\ index' = (thread[w].snap \ {d}) \union (IF thread[w].had THEN {d} ELSE {})
        /\ thread' = [thread EXCEPT ![w].pc = "failing"]
     \/ Throws(w, "TRANSIENT") /\ UNCHANGED index
  /\ UNCHANGED <<doc, job, stale, broker, ops, crashes>>

Finish(w) ==
  /\ thread[w].pc = "indexed" /\ Undisturbed(w)
  /\ Open(w, Succeed(thread[w].job), {}, "idle")
  /\ UNCHANGED <<doc, job, stale, broker, index, ops, crashes>>

RecordFailure(w) ==
  /\ thread[w].pc = "failing" /\ Undisturbed(w)
  /\ Open(w, Fail(thread[w].job), {}, "failed")
  /\ UNCHANGED <<doc, job, stale, broker, index, ops, crashes>>

\* Mutant: the retries of the task are not counted.
RetriesAlways(w) == thread[w].err = "TRANSIENT"
MayRetryTask(w) == thread[w].err = "TRANSIENT" /\ thread[w].retries < MaxTaskRetries

\* The except clause of the task: a transient failure is retried through
\* IndexingJobService.retry and a new message.
RetryTask(w) ==
  LET j == thread[w].job IN
  /\ thread[w].pc = "failed" /\ Undisturbed(w)
  /\ IF MayRetryTask(w) /\ CanRetry(j, FALSE)
     THEN Open(w, Retry(j, FALSE), {<<j, thread[w].retries + 1>>}, "idle")
     ELSE thread' = [thread EXCEPT ![w] = IdleThread]
  /\ UNCHANGED <<doc, job, stale, broker, index, ops, crashes>>

-----------------------------------------------------------------------------
(* Beat tasks, time and crashes.                                           *)

\* rag.recover_stale_jobs
Recover(w) ==
  /\ thread[w].pc = "idle" /\ Undisturbed(w)
  /\ Recoverable # {}
  /\ Open(w, [NoWrite EXCEPT !.jobs = Recoverable, !.status = "PENDING"],
          Recoverable \X {0}, "idle")
  /\ UNCHANGED <<doc, job, stale, broker, index, ops, crashes>>

\* Mutant: nothing is reconciled.
NothingPending == {}
Pending == {j \in Jobs : job[j].status = "PENDING"}

\* rag.reconcile_pending_jobs
Reconcile(w) ==
  /\ thread[w].pc = "idle" /\ Undisturbed(w)
  /\ broker' = broker \union (Pending \X {0})
  /\ UNCHANGED <<doc, job, stale, index, thread, ops, crashes>>

HeartbeatAges(j) ==
  /\ job[j].status = "RUNNING" /\ j \notin stale
  /\ HeartbeatsKeepUp => \A w \in Workers : thread[w].job # j
  /\ stale' = stale \union {j}
  /\ UNCHANGED <<doc, job, broker, index, thread, ops, crashes>>

\* A worker dies and is restarted; acks_late redelivers its message.
Crash(w) ==
  /\ crashes < MaxCrashes /\ thread[w].pc # "idle"
  /\ thread' = [thread EXCEPT ![w] = IdleThread]
  /\ broker' = broker \union
       (IF thread[w].job = NoJob THEN {} ELSE {<<thread[w].job, thread[w].retries>>})
  /\ crashes' = crashes + 1
  /\ UNCHANGED <<doc, job, stale, index, ops>>

-----------------------------------------------------------------------------
ClientStep(c) ==
  \/ \E j \in Jobs : Upload(c, j) \/ Reindex(c, j) \/ RequestCancel(c, j) \/ RequestRetry(c, j)
  \/ \E d \in Docs : RequestDelete(c, d)
  \/ DeleteRecord(c) \/ Unindex(c) \/ Search(c) \/ Rebuild(c)

WorkerStep(w) ==
  \/ \E m \in broker : Deliver(w, m)
  \/ Start(w) \/ Step(w) \/ SeesCancel(w) \/ ParseFails(w) \/ LockJob(w)
  \/ SwapIndex(w) \/ Publish(w) \/ Restore(w) \/ Finish(w)
  \/ RecordFailure(w) \/ RetryTask(w) \/ Recover(w) \/ Reconcile(w) \/ Crash(w)

Next ==
  \/ \E c \in Clients : ClientStep(c)
  \/ \E w \in Workers : WorkerStep(w)
  \/ \E t \in Threads : Commit(t) \/ Reject(t)
  \/ \E t, u \in Threads : Deadlock(t, u)
  \/ \E j \in Jobs : HeartbeatAges(j)

Spec == Init /\ [][Next]_vars

\* Fairness: a worker goes on with its task, transactions end, messages are
\* delivered, beat keeps sending its two tasks and heartbeats age.  Nothing is
\* assumed of the owner, of crashes or of failures.
GoesOn(w) ==
  Start(w) \/ LockJob(w) \/ SwapIndex(w) \/ Publish(w) \/ Restore(w)
    \/ Finish(w) \/ RecordFailure(w) \/ RetryTask(w)
Ends(t) == Commit(t) \/ Reject(t)
FairSpec ==
  /\ Spec
  /\ \A t \in Threads : WF_vars(Ends(t))
  /\ \A w \in Workers :
       /\ WF_vars(GoesOn(w)) /\ WF_vars(\E m \in broker : Deliver(w, m))
       /\ WF_vars(Recover(w)) /\ WF_vars(Reconcile(w))
  /\ \A c \in Clients : WF_vars(DeleteRecord(c)) /\ WF_vars(Unindex(c)) /\ WF_vars(Rebuild(c))
  /\ \A j \in Jobs : WF_vars(HeartbeatAges(j))

\* The owner searches again as long as a search finds the index inconsistent.
SearchingSpec == FairSpec /\ \A c \in Clients : WF_vars(Search(c))

-----------------------------------------------------------------------------
(* Properties.                                                             *)

\* Types of the tables, the broker and the threads.
TypeOK ==
  /\ doc \in [Docs -> DocStatuses]
  /\ job \in [Jobs -> JobRow]
  /\ stale \subseteq Jobs
  /\ broker \subseteq Jobs \X (0 .. MaxTaskRetries)
  /\ index \subseteq Docs
  /\ thread \in [Threads -> Thread]
  /\ ops \in 0 .. MaxUserOps /\ crashes \in 0 .. MaxCrashes

\* _commit_if_running: from its check to its commit, over the embedding and
\* the swap of the index, the job stays RUNNING and no other thread publishes
\* it, whatever cancels, recoveries, failures and retries are under way.
CommitSeesRunning ==
  \A t \in Threads : thread[t].holds # NoJob =>
    /\ job[thread[t].holds].status = "RUNNING"
    /\ \A u \in Threads \ {t} : thread[u].holds # thread[t].holds

\* The tables, the broker and the threads have their types, and a commit that
\* publishes sees its job RUNNING to its end.
TablesAreSound == TypeOK /\ CommitSeesRunning

\* A document becomes READY only by a run whose job is RUNNING, after its
\* chunks are in a snapshot that this run committed.
PublishesOnlyRunning ==
  [][\A d \in Docs : doc[d] # "READY" /\ doc'[d] = "READY" =>
       \E j \in Jobs, w \in Workers :
         /\ DocOf[j] = d /\ thread[w].holds = j
         /\ job[j].status = "RUNNING" /\ job'[j].status = "RUNNING"]_vars

\* When heartbeats keep up, transactions are not overtaken and the owner does
\* not retry under a running worker, one worker at a time runs a job, across
\* crashes, redeliveries, recoveries, cancels and retries.
SoleIndexer ==
  \A u, w \in Workers : u # w /\ thread[u].job # NoJob => thread[u].job # thread[w].job

\* In these circumstances job and document agree, although cancels, failures
\* and recoveries write both without a version check and a cancel may wait
\* for a commit that publishes the document.
StatusesAgree ==
  \A j \in Jobs : Operation[j] = "UPLOAD" =>
    LET s == doc[DocOf[j]] IN
    CASE job[j].status = "ABSENT" -> s = "ABSENT"
      [] job[j].status \in ActiveJob -> s \in {"PROCESSING", "READY", "DELETED"}
      [] job[j].status = "SUCCEEDED" -> s \in {"READY", "DELETED"}
      [] OTHER -> s \in {"FAILED", "DELETED"}

\* In these circumstances automatic retries, redeliveries and recoveries
\* together never run a job more than INDEXING_JOB_MAX_ATTEMPTS times.
AttemptsBounded == \A j \in Jobs : job[j].attempts <= MaxAttempts

\* In these circumstances one worker at a time indexes a document, its status
\* follows the job's, and no job is run more often than it may.
RunsAgree == SoleIndexer /\ StatusesAgree /\ AttemptsBounded

\* In these circumstances nothing resurrects a deleted document.
DeletedIsFinal ==
  [][\A d \in Docs : doc[d] = "DELETED" => doc'[d] = "DELETED"]_vars

\* In these circumstances a document whose upload is done stays READY for
\* searches until its owner deletes it, however often a reindex fails, is
\* cancelled, retried or dies.
ReadyIsKept ==
  [][\A d \in Docs : doc[d] = "READY" /\ doc'[d] \notin {"READY", "DELETED"} =>
       \E j \in Jobs : DocOf[j] = d /\ Operation[j] = "UPLOAD" /\ job[j].status \in ActiveJob]_vars

\* SUCCEEDED is final: Spring stops polling at it.
SucceededIsFinal ==
  [][\A j \in Jobs : job[j].status = "SUCCEEDED" => job'[j].status = "SUCCEEDED"]_vars

\* In these circumstances what is finished stays so: a job that SUCCEEDED, a
\* document that was deleted, and one that is READY for searches.
FinalsStay == SucceededIsFinal /\ DeletedIsFinal /\ ReadyIsKept

\* A PENDING job is eventually taken, even when its message was lost.
PendingIsRun == \A j \in Jobs : job[j].status = "PENDING" ~> job[j].status # "PENDING"

\* If the owner keeps searching, lost updates of the index, swaps without a
\* commit and failed clean-ups heal: in the end the index holds the READY
\* documents.
IndexConverges == <>[](index = ReadyDocs)

\* Every PENDING job is run, and the index ends up with the READY documents.
IndexingConverges == IndexConverges /\ PendingIsRun
=============================================================================
