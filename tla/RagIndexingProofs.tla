------------------------- MODULE RagIndexingProofs -------------------------
(***************************************************************************)
(* Proofs about RagIndexing for any documents, jobs, workers and request   *)
(* threads, with transactions overtaken and heartbeats lapsing at will:    *)
(* the row lock of _commit_if_running is enough to keep a job RUNNING from *)
(* the check to the commit that publishes its document.                    *)
(***************************************************************************)
EXTENDS RagIndexing, TLAPS

Runs == {"claimed", "working", "indexing", "publishing", "restoring",
         "indexed", "failing", "failed"}
Locking == {"indexing", "publishing"}

\* What the program counter of a thread says of its other fields: which
\* threads run a job, that a lock is held only from the check to the commit,
\* and that only a transaction with the lock makes a document READY.
Shape(t, th) ==
  /\ th.pc \in Runs => t \in Workers /\ th.job \in Jobs
  /\ th.pc \in {"deleting", "unindexing"} => th.doc \in Docs
  /\ th.pc \in Locking => th.holds = th.job
  /\ th.holds # NoJob => th.pc \in Locking \union {"tx"}
  /\ th.pc = "tx" =>
       /\ th.next \in {"indexed", "failed"} => t \in Workers /\ th.job \in Jobs
       /\ th.next = "deleting" => th.doc \in Docs
       /\ th.holds # NoJob => th.next = "indexed" /\ th.write.jobs = {}
       /\ th.write.to = "READY" =>
            t \in Workers /\ th.holds \in Jobs /\ th.write.doc = DocOf[th.holds]
ThreadShape == \A t \in Threads : Shape(t, thread[t])

RagInv == TypeOK /\ ThreadShape /\ CommitSeesRunning

\* The constant records.
LEMMA ConstantTypes ==
  NoWrite \in Write /\ IdleThread \in Thread /\ \A t : Shape(t, IdleThread)
<1>1. NoWrite \in Write
  BY DEF NoWrite, Write, JobStatuses
<1>2. IdleThread \in Thread
  BY <1>1, IndexingAssumptions DEF IdleThread, Thread
<1>3. \A t : Shape(t, IdleThread)
  BY DEF Shape, IdleThread, Runs, Locking
<1>. QED
  BY <1>1, <1>2, <1>3

\* What a method of IndexingJobService writes for job j is well typed, names
\* only j and never makes a document READY.
LEMMA WriteTypes ==
  ASSUME TypeOK, NEW j \in Jobs, NEW reset \in BOOLEAN
  PROVE  \A wr \in {Succeed(j), Fail(j), Cancel(j), Retry(j, reset)} :
           wr \in Write /\ wr.jobs \subseteq {j} /\ wr.to # "READY"
<1> USE DEF Write, JobStatuses, ActiveJob, FinalJob, DocStatuses
<1>0. NoWrite \in Write /\ NoWrite.jobs = {} /\ NoWrite.to = "KEEP"
  BY ConstantTypes DEF NoWrite
<1>1. DocOf[j] \in Docs /\ job[j].attempts \in Nat
  BY IndexingAssumptions DEF TypeOK, JobRow
<1>2. ASSUME NEW s \in JobStatuses, NEW r \in BOOLEAN, NEW ds \in {"FAILED", "PROCESSING"}
      PROVE  LET c == Change(j, s, r, ds) IN c \in Write /\ c.jobs \subseteq {j} /\ c.to # "READY"
  BY <1>1 DEF Change
<1>3. Succeed(j) \in Write /\ Succeed(j).jobs \subseteq {j} /\ Succeed(j).to # "READY"
  BY <1>0 DEF Succeed, NoWrite
<1>4. Fail(j) \in Write /\ Fail(j).jobs \subseteq {j} /\ Fail(j).to # "READY"
  BY <1>0, <1>2 DEF Fail
<1>5. Cancel(j) \in Write /\ Cancel(j).jobs \subseteq {j} /\ Cancel(j).to # "READY"
  BY <1>0, <1>2 DEF Cancel
<1>6. Retry(j, reset) \in Write /\ Retry(j, reset).jobs \subseteq {j} /\ Retry(j, reset).to # "READY"
  BY <1>1, <1>2 DEF Retry
<1>. QED
  BY <1>3, <1>4, <1>5, <1>6

\* A step that changes one thread, takes no lock and changes no job under
\* a lock keeps the invariant about threads.
LEMMA OneThreadMoves ==
  ASSUME RagInv, NEW t \in Threads, NEW th \in Thread, Shape(t, th),
         thread' = [thread EXCEPT ![t] = th],
         th.holds \in {NoJob, thread[t].holds},
         \A u \in Threads : thread[u].holds # NoJob =>
           job'[thread[u].holds].status = job[thread[u].holds].status
  PROVE  thread' \in [Threads -> Thread] /\ ThreadShape' /\ CommitSeesRunning'
<1>1. thread' \in [Threads -> Thread]
  BY DEF RagInv, TypeOK
<1>2. \A u \in Threads : thread'[u] = IF u = t THEN th ELSE thread[u]
  BY DEF RagInv, TypeOK
<1>3. ThreadShape'
  BY <1>2 DEF RagInv, ThreadShape, Shape
<1>4. \A u \in Threads : thread'[u].holds \in {NoJob, thread[u].holds}
  BY <1>2
<1>5. CommitSeesRunning'
  BY <1>4 DEF RagInv, CommitSeesRunning
<1>. QED
  BY <1>1, <1>3, <1>5

\* Opening a transaction that publishes nothing moves only its thread.
LEMMA OpenMoves ==
  ASSUME RagInv, NEW t \in Threads, NEW wr \in Write, wr.to # "READY",
         NEW sends \in SUBSET (Jobs \X (0 .. MaxTaskRetries)),
         NEW next \in {"idle", "failed"},
         next = "failed" => t \in Workers /\ thread[t].job \in Jobs,
         thread[t].holds = NoJob,
         Open(t, wr, sends, next), UNCHANGED job
  PROVE  thread' \in [Threads -> Thread] /\ ThreadShape' /\ CommitSeesRunning'
<1> DEFINE th == IF wr = NoWrite
                 THEN IF next = "idle" THEN IdleThread ELSE [thread[t] EXCEPT !.pc = next]
                 ELSE [thread[t] EXCEPT !.pc = "tx", !.write = wr, !.sends = sends, !.next = next]
<1>0. thread[t] \in Thread /\ Shape(t, thread[t])
  BY DEF RagInv, TypeOK, ThreadShape
<1>a. [thread[t] EXCEPT !.pc = next] \in Thread
  BY <1>0 DEF Thread
<1>b. [thread[t] EXCEPT !.pc = "tx", !.write = wr, !.sends = sends, !.next = next] \in Thread
  <2>1. thread[t] \in Thread
    BY <1>0
  <2>2. wr \in Write
    OBVIOUS
  <2>. QED BY ONLY <2>1, <2>2, sends \in SUBSET (Jobs \X (0 .. MaxTaskRetries)),
                   next \in {"idle", "failed"} DEF Thread
<1>1. th \in Thread
  BY <1>a, <1>b, ConstantTypes
<1>2. Shape(t, th)
  BY <1>0, ConstantTypes DEF Shape, Thread, Runs, Locking
<1>3. th.holds = NoJob
  BY <1>0, ConstantTypes DEF Thread, IdleThread
<1>4. thread' = [thread EXCEPT ![t] = th]
  BY DEF Open, RagInv, TypeOK
<1> HIDE DEF th
<1>. QED
  BY <1>1, <1>2, <1>3, <1>4, OneThreadMoves

\* A thread that ends its request or task.
LEMMA IdleMoves ==
  ASSUME RagInv, NEW t \in Threads, thread' = [thread EXCEPT ![t] = IdleThread], UNCHANGED job
  PROVE  thread' \in [Threads -> Thread] /\ ThreadShape' /\ CommitSeesRunning'
<1>1. IdleThread.holds = NoJob
  BY DEF IdleThread
<1>. QED
  BY <1>1, ConstantTypes, OneThreadMoves

\* A worker that throws.
LEMMA ThrowMoves ==
  ASSUME RagInv, NEW w \in Workers, thread[w].pc \in Runs,
         NEW err \in {"PERMANENT", "TRANSIENT"}, Throws(w, err), UNCHANGED job
  PROVE  thread' \in [Threads -> Thread] /\ ThreadShape' /\ CommitSeesRunning'
<1> DEFINE th == [thread[w] EXCEPT !.pc = "failing", !.err = err, !.holds = NoJob]
<1>0. w \in Threads /\ thread[w] \in Thread /\ Shape(w, thread[w])
  BY DEF RagInv, TypeOK, ThreadShape, Threads
<1>1. th \in Thread
  BY <1>0 DEF Thread
<1>2. Shape(w, th) /\ th.holds = NoJob
  BY <1>0 DEF Shape, Thread, Runs, Locking
<1>3. thread' = [thread EXCEPT ![w] = th]
  BY DEF Throws
<1> HIDE DEF th
<1>. QED
  BY <1>0, <1>1, <1>2, <1>3, OneThreadMoves

\* Initially the invariant holds.
LEMMA InitInv == Init => RagInv
<1> SUFFICES ASSUME Init PROVE RagInv
  OBVIOUS
<1>1. TypeOK
  BY ConstantTypes, IndexingAssumptions DEF Init, TypeOK, DocStatuses, JobRow, JobStatuses
<1>2. \A t \in Threads : thread[t] = IdleThread
  BY DEF Init
<1>3. ThreadShape
  BY <1>2, ConstantTypes DEF ThreadShape
<1>4. CommitSeesRunning
  BY <1>2 DEF CommitSeesRunning, IdleThread
<1>. QED
  BY <1>1, <1>3, <1>4 DEF RagInv

\* The owner's requests keep the invariant.
LEMMA ClientStepInv ==
  ASSUME RagInv, NEW c \in Clients, ClientStep(c)
  PROVE  RagInv'
<1>0. c \in Threads /\ thread[c] \in Thread /\ Shape(c, thread[c])
  BY DEF RagInv, TypeOK, ThreadShape, Threads
<1>1. thread[c].pc = "idle" => thread[c].holds = NoJob
  BY <1>0 DEF Shape, Locking
<1>2. ASSUME NEW j \in Jobs, Upload(c, j) PROVE RagInv'
  <2>a. [status |-> "PENDING", attempts |-> 0] \in JobRow
    BY DEF JobRow, JobStatuses, ActiveJob
  <2>b. job' \in [Jobs -> JobRow] /\ doc' \in [Docs -> DocStatuses]
    BY <1>2, <2>a DEF Upload, RagInv, TypeOK, DocStatuses
  <2>c. <<j, 0>> \in Jobs \X (0 .. MaxTaskRetries)
    BY IndexingAssumptions
  <2>d. broker' \subseteq Jobs \X (0 .. MaxTaskRetries)
    BY <1>2, <2>c DEF Upload, Send, RagInv, TypeOK
  <2>1. /\ job' \in [Jobs -> JobRow] /\ doc' \in [Docs -> DocStatuses]
        /\ broker' \subseteq Jobs \X (0 .. MaxTaskRetries)
    BY <2>b, <2>d
  <2>2. \A i \in Jobs : i # j => job'[i] = job[i]
    BY <1>2 DEF Upload, RagInv, TypeOK
  <2>3. \A t \in Threads : thread[t].holds # NoJob => thread[t].holds # j /\ thread[t].holds \in Jobs
    BY <1>2 DEF Upload, RagInv, CommitSeesRunning, TypeOK, Thread
  <2>4. ThreadShape' /\ CommitSeesRunning'
    BY <1>2, <2>2, <2>3 DEF Upload, RagInv, ThreadShape, Shape, CommitSeesRunning
  <2>. QED
    BY <1>2, <2>1, <2>4 DEF Upload, RagInv, TypeOK
<1>3. ASSUME NEW j \in Jobs, Reindex(c, j) PROVE RagInv'
  <2> DEFINE wr == [NoWrite EXCEPT !.jobs = {j}, !.status = "PENDING"]
  <2>1. wr \in Write /\ wr.to # "READY"
    BY ConstantTypes DEF NoWrite, Write, JobStatuses, ActiveJob
  <2>2. {<<j, 0>>} \in SUBSET (Jobs \X (0 .. MaxTaskRetries))
    BY IndexingAssumptions
  <2>3. Open(c, wr, {<<j, 0>>}, "idle") /\ UNCHANGED job
    BY <1>3 DEF Reindex
  <2> HIDE DEF wr
  <2>4. thread' \in [Threads -> Thread] /\ ThreadShape' /\ CommitSeesRunning'
    BY <1>0, <1>1, <1>3, <2>1, <2>2, <2>3, OpenMoves DEF Reindex
  <2>. QED
    BY <1>3, <2>4 DEF Reindex, RagInv, TypeOK
<1>4. ASSUME NEW j \in Jobs, RequestCancel(c, j) PROVE RagInv'
  <2>1. Cancel(j) \in Write /\ Cancel(j).to # "READY"
    BY WriteTypes DEF RagInv
  <2>2. thread' \in [Threads -> Thread] /\ ThreadShape' /\ CommitSeesRunning'
    BY <1>0, <1>1, <1>4, <2>1, OpenMoves DEF RequestCancel, UserOp
  <2>. QED
    BY <1>4, <2>2, IndexingAssumptions DEF RequestCancel, UserOp, RagInv, TypeOK
<1>5. ASSUME NEW j \in Jobs, RequestRetry(c, j) PROVE RagInv'
  <2>1. Retry(j, TRUE) \in Write /\ Retry(j, TRUE).to # "READY"
    BY WriteTypes DEF RagInv
  <2>2. {<<j, 0>>} \in SUBSET (Jobs \X (0 .. MaxTaskRetries))
    BY IndexingAssumptions
  <2>3. thread' \in [Threads -> Thread] /\ ThreadShape' /\ CommitSeesRunning'
    BY <1>0, <1>1, <1>5, <2>1, <2>2, OpenMoves DEF RequestRetry, UserOp
  <2>. QED
    BY <1>5, <2>3, IndexingAssumptions DEF RequestRetry, UserOp, RagInv, TypeOK
<1>6. ASSUME NEW d \in Docs, RequestDelete(c, d) PROVE RagInv'
  <2>1. thread[c].holds = NoJob /\ UNCHANGED <<doc, job, stale, broker, index, crashes>>
    BY <1>1, <1>6 DEF RequestDelete, UserOp
  <2>a. ops \in 0 .. MaxUserOps /\ ops < MaxUserOps /\ ops' = ops + 1
    BY <1>6 DEF RequestDelete, UserOp, RagInv, TypeOK
  <2>2. ops' \in 0 .. MaxUserOps
    BY <2>a, IndexingAssumptions
  <2>3. thread' \in [Threads -> Thread] /\ ThreadShape' /\ CommitSeesRunning'
    <3>1. ASSUME NEW j \in Jobs,
                 thread' = [thread EXCEPT ![c] =
                   [@ EXCEPT !.pc = "tx", !.doc = d, !.write = Cancel(j), !.next = "deleting"]]
          PROVE  thread' \in [Threads -> Thread] /\ ThreadShape' /\ CommitSeesRunning'
      <4> DEFINE th == [thread[c] EXCEPT !.pc = "tx", !.doc = d, !.write = Cancel(j),
                                         !.next = "deleting"]
      <4>1. Cancel(j) \in Write /\ Cancel(j).to # "READY"
        BY WriteTypes DEF RagInv
      <4>2. th \in Thread /\ th.holds = NoJob
        BY <1>0, <2>1, <4>1 DEF Thread
      <4>3. Shape(c, th)
        BY <1>0, <2>1, <4>1 DEF Shape, Thread, Runs, Locking
      <4>4. thread' = [thread EXCEPT ![c] = th]
        BY <3>1
      <4> HIDE DEF th
      <4>. QED
        BY <1>0, <2>1, <4>2, <4>3, <4>4, OneThreadMoves
    <3>2. ASSUME thread' = [thread EXCEPT ![c] = [@ EXCEPT !.pc = "deleting", !.doc = d]]
          PROVE  thread' \in [Threads -> Thread] /\ ThreadShape' /\ CommitSeesRunning'
      <4> DEFINE th == [thread[c] EXCEPT !.pc = "deleting", !.doc = d]
      <4>1. th \in Thread /\ th.holds = NoJob
        BY <1>0, <2>1 DEF Thread
      <4>2. Shape(c, th)
        BY <1>0, <2>1 DEF Shape, Thread, Runs, Locking
      <4>3. thread' = [thread EXCEPT ![c] = th]
        BY <3>2
      <4> HIDE DEF th
      <4>. QED
        BY <1>0, <2>1, <4>1, <4>2, <4>3, OneThreadMoves
    <3>. QED
      BY <1>6, <3>1, <3>2 DEF RequestDelete
  <2>. QED
    BY <2>1, <2>2, <2>3 DEF RagInv, TypeOK
<1>7. CASE DeleteRecord(c)
  <2> DEFINE th == IF doc[thread[c].doc] = "DELETED" THEN IdleThread
                   ELSE [thread[c] EXCEPT !.pc = "unindexing", !.snap = index, !.had = FALSE]
  <2>0. thread[c].doc \in Docs /\ thread[c].holds = NoJob /\ index \subseteq Docs
    BY <1>0, <1>7 DEF DeleteRecord, Shape, Locking, RagInv, TypeOK
  <2>a. [thread[c] EXCEPT !.pc = "unindexing", !.snap = index, !.had = FALSE] \in Thread
    BY <1>0, <2>0 DEF Thread
  <2>b. th \in Thread
    BY <2>a, ConstantTypes
  <2>1. th \in Thread /\ th.holds = NoJob
    BY <1>0, <2>0, <2>b DEF Thread, IdleThread
  <2>2. Shape(c, th)
    BY <1>0, <2>0, ConstantTypes DEF Shape, Thread, Runs, Locking
  <2>3. thread' = [thread EXCEPT ![c] = th]
    BY <1>7 DEF DeleteRecord
  <2> HIDE DEF th
  <2>4. thread' \in [Threads -> Thread] /\ ThreadShape' /\ CommitSeesRunning'
    BY <1>0, <1>7, <2>1, <2>2, <2>3, OneThreadMoves DEF DeleteRecord
  <2>5. doc' \in [Docs -> DocStatuses]
    BY <1>7 DEF DeleteRecord, RagInv, TypeOK, DocStatuses
  <2>. QED
    BY <1>7, <2>4, <2>5 DEF DeleteRecord, RagInv, TypeOK
<1>8. CASE Unindex(c)
  <2>1. thread' \in [Threads -> Thread] /\ ThreadShape' /\ CommitSeesRunning'
    BY <1>0, <1>8, IdleMoves DEF Unindex
  <2>2. index' \subseteq Docs
    BY <1>0, <1>8 DEF Unindex, RagInv, TypeOK, Thread
  <2>. QED
    BY <1>8, <2>1, <2>2 DEF Unindex, RagInv, TypeOK
<1>9. CASE Search(c)
  <2> DEFINE th == [thread[c] EXCEPT !.pc = "rebuilding", !.snap = ReadyDocs]
  <2>0. thread[c].holds = NoJob /\ ReadyDocs \subseteq Docs
    BY <1>1, <1>9 DEF Search, ReadyDocs
  <2>1. th \in Thread /\ th.holds = NoJob
    BY <1>0, <2>0 DEF Thread
  <2>2. Shape(c, th)
    BY <1>0, <2>0 DEF Shape, Thread, Runs, Locking
  <2>3. thread' = [thread EXCEPT ![c] = th]
    BY <1>9 DEF Search
  <2> HIDE DEF th
  <2>4. thread' \in [Threads -> Thread] /\ ThreadShape' /\ CommitSeesRunning'
    BY <1>0, <1>9, <2>1, <2>2, <2>3, OneThreadMoves DEF Search
  <2>. QED
    BY <1>9, <2>4 DEF Search, RagInv, TypeOK
<1>10. CASE Rebuild(c)
  <2>1. thread' \in [Threads -> Thread] /\ ThreadShape' /\ CommitSeesRunning'
    BY <1>0, <1>10, IdleMoves DEF Rebuild
  <2>2. index' \subseteq Docs
    BY <1>0, <1>10 DEF Rebuild, Thread
  <2>. QED
    BY <1>10, <2>1, <2>2 DEF Rebuild, RagInv, TypeOK
<1>. QED
  BY <1>2, <1>3, <1>4, <1>5, <1>6, <1>7, <1>8, <1>9, <1>10 DEF ClientStep

\* Only the thread part of the invariant is at stake when a step moves
\* a thread and nothing else.
LEMMA OnlyThreads ==
  ASSUME RagInv, UNCHANGED <<doc, job, stale, broker, index, ops, crashes>>,
         thread' \in [Threads -> Thread] /\ ThreadShape' /\ CommitSeesRunning'
  PROVE  RagInv'
  BY DEF RagInv, TypeOK

\* The steps of a run keep the invariant.
LEMMA RunStepInv ==
  ASSUME RagInv, NEW w \in Workers,
         \/ Start(w) \/ Step(w) \/ SeesCancel(w) \/ ParseFails(w) \/ LockJob(w)
         \/ SwapIndex(w) \/ Publish(w) \/ Restore(w) \/ Finish(w)
         \/ RecordFailure(w) \/ RetryTask(w)
  PROVE  RagInv'
<1> DEFINE j == thread[w].job
<1>0. w \in Threads /\ thread[w] \in Thread /\ Shape(w, thread[w])
  BY DEF RagInv, TypeOK, ThreadShape, Threads
<1>1. thread[w].pc \in Runs => j \in Jobs
  BY <1>0 DEF Shape
<1>2. thread[w].pc \in Runs \ Locking => thread[w].holds = NoJob
  BY <1>0 DEF Shape, Runs, Locking
<1>3. index \subseteq Docs /\ thread \in [Threads -> Thread]
  BY DEF RagInv, TypeOK
<1> HIDE DEF j
<1>a. CASE Start(w)
  <2>0. thread[w].pc = "claimed" /\ j \in Jobs /\ thread[w].holds = NoJob
    BY <1>1, <1>2, <1>a DEF Start, Runs, Locking
  <2>1. Cancel(j) \in Write /\ Cancel(j).to # "READY"
    BY <2>0, WriteTypes DEF RagInv
  <2>2. CASE Open(w, Cancel(j), {}, "idle")
    <3>1. thread' \in [Threads -> Thread] /\ ThreadShape' /\ CommitSeesRunning'
      BY <1>0, <1>a, <2>0, <2>1, <2>2, OpenMoves DEF Start
    <3>. QED
      BY <1>a, <3>1, OnlyThreads DEF Start
  <2>3. CASE thread' = [thread EXCEPT ![w].pc = "working"]
    <3> DEFINE th == [thread[w] EXCEPT !.pc = "working"]
    <3>1. th \in Thread /\ th.holds = NoJob /\ Shape(w, th)
      BY <1>0, <2>0 DEF Thread, Shape, Runs, Locking, j
    <3>2. thread' = [thread EXCEPT ![w] = th]
      BY <1>3, <2>3
    <3> HIDE DEF th
    <3>3. thread' \in [Threads -> Thread] /\ ThreadShape' /\ CommitSeesRunning'
      BY <1>0, <1>a, <3>1, <3>2, OneThreadMoves DEF Start
    <3>. QED
      BY <1>a, <3>3, OnlyThreads DEF Start
  <2>. QED
    BY <1>a, <2>2, <2>3 DEF Start, j
<1>b. CASE Step(w)
  <2>1. CASE stale' = stale \ {j} /\ UNCHANGED thread
    BY <1>b, <2>1 DEF Step, RagInv, TypeOK, ThreadShape, Shape, CommitSeesRunning
  <2>2. CASE Throws(w, "PERMANENT") /\ UNCHANGED stale
    <3>1. thread' \in [Threads -> Thread] /\ ThreadShape' /\ CommitSeesRunning'
      BY <1>b, <2>2, ThrowMoves DEF Step, Runs
    <3>. QED
      BY <1>b, <2>2, <3>1, OnlyThreads DEF Step
  <2>. QED
    BY <1>b, <2>1, <2>2 DEF Step, j
<1>c. CASE SeesCancel(w)
  <2>1. thread' \in [Threads -> Thread] /\ ThreadShape' /\ CommitSeesRunning'
    BY <1>0, <1>c, IdleMoves DEF SeesCancel
  <2>. QED
    BY <1>c, <2>1, OnlyThreads DEF SeesCancel
<1>d. CASE ParseFails(w)
  <2>1. thread' \in [Threads -> Thread] /\ ThreadShape' /\ CommitSeesRunning'
    BY <1>d, ThrowMoves DEF ParseFails, Runs
  <2>. QED
    BY <1>d, <2>1, OnlyThreads DEF ParseFails
<1>e. CASE LockJob(w)
  <2>0. j \in Jobs /\ thread[w].pc = "working" /\ thread[w].holds = NoJob
    BY <1>1, <1>2, <1>e DEF LockJob, Runs, Locking
  <2>1. CASE ~MayCommit(j)
    <3>1. thread' \in [Threads -> Thread] /\ ThreadShape' /\ CommitSeesRunning'
      BY <1>e, <2>1, ThrowMoves DEF LockJob, Runs, j
    <3>. QED
      BY <1>e, <3>1, OnlyThreads DEF LockJob
  <2>2. CASE MayCommit(j)
    <3> DEFINE had == DocOf[j] \in index
               th == [thread[w] EXCEPT !.pc = "indexing", !.holds = j, !.snap = index,
                                       !.had = had]
    <3>0. had \in BOOLEAN
      OBVIOUS
    <3>a. thread' = [thread EXCEPT ![w] = th]
      BY <1>e, <2>2 DEF LockJob, j
    <3> HIDE DEF had
    <3>1. th \in Thread
      <4>1. thread[w] \in Thread /\ index \in SUBSET Docs /\ j \in Jobs
        BY <1>0, <1>3, <2>0
      <4> HIDE DEF j
      <4>. QED BY ONLY <4>1, <3>0 DEF Thread
    <3>2. Shape(w, th) /\ th.holds = j
      BY <1>0, <2>0 DEF Shape, Thread, Runs, Locking, j
    <3>3. thread' = [thread EXCEPT ![w] = th]
      BY <3>a
    <3> HIDE DEF th
    <3>4. \A u \in Threads : thread'[u] = IF u = w THEN th ELSE thread[u]
      BY <1>0, <1>3, <3>3
    <3>5. thread' \in [Threads -> Thread] /\ ThreadShape'
      BY <1>0, <1>3, <3>1, <3>2, <3>3, <3>4 DEF RagInv, ThreadShape, Shape
    <3>6. \A u \in Threads \ {w} : thread[u].holds # j
      BY <1>e DEF LockJob, LockedAgainst, j
    <3>7. CommitSeesRunning'
      BY <1>e, <2>0, <2>2, <3>2, <3>4, <3>6
      DEF LockJob, MayCommit, RagInv, CommitSeesRunning
    <3>. QED
      BY <1>e, <3>5, <3>7, OnlyThreads DEF LockJob
  <2>. QED
    BY <2>1, <2>2
<1>f. CASE SwapIndex(w)
  <2>0. thread[w].pc = "indexing" /\ j \in Jobs
    BY <1>1, <1>f DEF SwapIndex, Runs
  <2>1. index' \subseteq Docs
    BY <1>0, <1>3, <1>f, <2>0, IndexingAssumptions DEF SwapIndex, Thread, j
  <2>2. CASE thread' = [thread EXCEPT ![w].pc = "publishing"]
    <3> DEFINE th == [thread[w] EXCEPT !.pc = "publishing"]
    <3>1. th \in Thread /\ th.holds = thread[w].holds /\ Shape(w, th)
      BY <1>0, <2>0 DEF Thread, Shape, Runs, Locking, j
    <3>2. thread' = [thread EXCEPT ![w] = th]
      BY <1>3, <2>2
    <3> HIDE DEF th
    <3>3. thread' \in [Threads -> Thread] /\ ThreadShape' /\ CommitSeesRunning'
      BY <1>0, <1>f, <3>1, <3>2, OneThreadMoves DEF SwapIndex
    <3>. QED
      BY <1>f, <2>1, <3>3 DEF SwapIndex, RagInv, TypeOK
  <2>3. CASE Throws(w, "TRANSIENT")
    <3>1. thread' \in [Threads -> Thread] /\ ThreadShape' /\ CommitSeesRunning'
      BY <1>f, <2>3, ThrowMoves DEF SwapIndex, Runs
    <3>. QED
      BY <1>f, <2>1, <3>1 DEF SwapIndex, RagInv, TypeOK
  <2>. QED
    BY <1>f, <2>2, <2>3 DEF SwapIndex
<1>g. CASE Publish(w)
  <2>0. /\ thread[w].pc = "publishing" /\ j \in Jobs /\ DocOf[j] \in Docs
        /\ thread[w].holds = j
    BY <1>0, <1>1, <1>g, IndexingAssumptions DEF Publish, Runs, Shape, Locking, j
  <2>1. CASE doc[DocOf[j]] = "DELETED"
    <3> DEFINE th == [thread[w] EXCEPT !.pc = "restoring", !.err = "PERMANENT",
                                       !.holds = NoJob, !.snap = index]
    <3>1. th \in Thread /\ th.holds = NoJob /\ Shape(w, th)
      BY <1>0, <1>3, <2>0 DEF Thread, Shape, Runs, Locking, j
    <3>2. thread' = [thread EXCEPT ![w] = th]
      BY <1>g, <2>1 DEF Publish, j
    <3> HIDE DEF th
    <3>3. thread' \in [Threads -> Thread] /\ ThreadShape' /\ CommitSeesRunning'
      BY <1>0, <1>g, <3>1, <3>2, OneThreadMoves DEF Publish
    <3>. QED
      BY <1>g, <3>3, OnlyThreads DEF Publish
  <2>2. CASE doc[DocOf[j]] # "DELETED"
    <3> DEFINE wr == [NoWrite EXCEPT !.doc = DocOf[j],
                        !.to = IF doc[DocOf[j]] = "READY" THEN "KEEP" ELSE "READY"]
               th == [thread[w] EXCEPT !.pc = "tx", !.next = "indexed", !.write = wr]
    <3>1. wr \in Write /\ wr.jobs = {} /\ wr.doc = DocOf[j]
      BY <2>0 DEF NoWrite, Write, JobStatuses, DocStatuses
    <3>2. thread' = [thread EXCEPT ![w] = th]
      BY <1>g, <2>2 DEF Publish, j
    <3> HIDE DEF wr
    <3>3. th \in Thread /\ th.holds = thread[w].holds
      BY <1>0, <3>1 DEF Thread
    <3>4. Shape(w, th)
      BY <1>0, <2>0, <3>1 DEF Thread, Shape, Runs, Locking, j
    <3> HIDE DEF th
    <3>5. thread' \in [Threads -> Thread] /\ ThreadShape' /\ CommitSeesRunning'
      BY <1>0, <1>g, <3>2, <3>3, <3>4, OneThreadMoves DEF Publish
    <3>. QED
      BY <1>g, <3>5, OnlyThreads DEF Publish
  <2>. QED
    BY <2>1, <2>2
<1>h. CASE Restore(w)
  <2>0. thread[w].pc = "restoring" /\ j \in Jobs /\ thread[w].holds = NoJob
    BY <1>1, <1>2, <1>h DEF Restore, Runs, Locking
  <2>1. index' \subseteq Docs
    BY <1>0, <1>3, <1>h, <2>0, IndexingAssumptions DEF Restore, Thread, j
  <2>2. CASE thread' = [thread EXCEPT ![w].pc = "failing"]
    <3> DEFINE th == [thread[w] EXCEPT !.pc = "failing"]
    <3>1. th \in Thread /\ th.holds = NoJob /\ Shape(w, th)
      BY <1>0, <2>0 DEF Thread, Shape, Runs, Locking, j
    <3>2. thread' = [thread EXCEPT ![w] = th]
      BY <1>3, <2>2
    <3> HIDE DEF th
    <3>3. thread' \in [Threads -> Thread] /\ ThreadShape' /\ CommitSeesRunning'
      BY <1>0, <1>h, <3>1, <3>2, OneThreadMoves DEF Restore
    <3>. QED
      BY <1>h, <2>1, <3>3 DEF Restore, RagInv, TypeOK
  <2>3. CASE Throws(w, "TRANSIENT")
    <3>1. thread' \in [Threads -> Thread] /\ ThreadShape' /\ CommitSeesRunning'
      BY <1>h, <2>3, ThrowMoves DEF Restore, Runs
    <3>. QED
      BY <1>h, <2>1, <3>1 DEF Restore, RagInv, TypeOK
  <2>. QED
    BY <1>h, <2>2, <2>3 DEF Restore
<1>i. CASE Finish(w)
  <2>0. thread[w].pc = "indexed" /\ j \in Jobs /\ thread[w].holds = NoJob
    BY <1>1, <1>2, <1>i DEF Finish, Runs, Locking
  <2>1. Succeed(j) \in Write /\ Succeed(j).to # "READY"
    BY <2>0, WriteTypes DEF RagInv
  <2>2. Open(w, Succeed(j), {}, "idle") /\ UNCHANGED job
    BY <1>i DEF Finish, j
  <2>3. thread' \in [Threads -> Thread] /\ ThreadShape' /\ CommitSeesRunning'
    BY <1>0, <2>0, <2>1, <2>2, OpenMoves
  <2>. QED
    BY <1>i, <2>3, OnlyThreads DEF Finish
<1>j. CASE RecordFailure(w)
  <2>0. thread[w].pc = "failing" /\ j \in Jobs /\ thread[w].holds = NoJob
    BY <1>1, <1>2, <1>j DEF RecordFailure, Runs, Locking
  <2>1. Fail(j) \in Write /\ Fail(j).to # "READY"
    BY <2>0, WriteTypes DEF RagInv
  <2>2. Open(w, Fail(j), {}, "failed") /\ UNCHANGED job
    BY <1>j DEF RecordFailure, j
  <2>3. thread' \in [Threads -> Thread] /\ ThreadShape' /\ CommitSeesRunning'
    BY <1>0, <2>0, <2>1, <2>2, OpenMoves DEF j
  <2>. QED
    BY <1>j, <2>3, OnlyThreads DEF RecordFailure
<1>k. CASE RetryTask(w)
  <2>0. thread[w].pc = "failed" /\ j \in Jobs /\ thread[w].holds = NoJob
    BY <1>1, <1>2, <1>k DEF RetryTask, Runs, Locking
  <2>1. CASE MayRetryTask(w) /\ CanRetry(j, FALSE)
    <3>1. Retry(j, FALSE) \in Write /\ Retry(j, FALSE).to # "READY"
      BY <2>0, WriteTypes DEF RagInv
    <3>2. thread[w].retries \in 0 .. MaxTaskRetries
      BY <1>0 DEF Thread
    <3>3. thread[w].retries + 1 \in 0 .. MaxTaskRetries
      BY <2>1, <3>2, IndexingAssumptions DEF MayRetryTask
    <3>4. {<<j, thread[w].retries + 1>>} \in SUBSET (Jobs \X (0 .. MaxTaskRetries))
      BY <2>0, <3>3
    <3>5. Open(w, Retry(j, FALSE), {<<j, thread[w].retries + 1>>}, "idle") /\ UNCHANGED job
      BY <1>k, <2>1 DEF RetryTask, j
    <3>6. thread' \in [Threads -> Thread] /\ ThreadShape' /\ CommitSeesRunning'
      BY <1>0, <2>0, <3>1, <3>4, <3>5, OpenMoves
    <3>. QED
      BY <1>k, <3>6, OnlyThreads DEF RetryTask
  <2>2. CASE ~(MayRetryTask(w) /\ CanRetry(j, FALSE))
    <3>1. thread' \in [Threads -> Thread] /\ ThreadShape' /\ CommitSeesRunning'
      BY <1>0, <1>k, <2>2, IdleMoves DEF RetryTask, j
    <3>. QED
      BY <1>k, <3>1, OnlyThreads DEF RetryTask
  <2>. QED
    BY <2>1, <2>2
<1>. QED
  BY <1>a, <1>b, <1>c, <1>d, <1>e, <1>f, <1>g, <1>h, <1>i, <1>j, <1>k

\* Delivery and claim keep the invariant: a PENDING job is locked by nobody.
LEMMA DeliverInv ==
  ASSUME RagInv, NEW w \in Workers, NEW m \in broker, Deliver(w, m)
  PROVE  RagInv'
<1> DEFINE j == m[1]
           th == [IdleThread EXCEPT !.pc = "claimed", !.job = j, !.retries = m[2]]
<1>0. /\ w \in Threads /\ thread[w] \in Thread /\ Shape(w, thread[w])
      /\ j \in Jobs /\ m[2] \in 0 .. MaxTaskRetries
      /\ broker' \subseteq Jobs \X (0 .. MaxTaskRetries)
  BY DEF RagInv, TypeOK, ThreadShape, Threads, Deliver
<1>1. CASE ~Claimable(j)
  <2>1. UNCHANGED <<doc, job, stale, index, thread, ops, crashes>>
    BY <1>1 DEF Deliver
  <2>. QED
    BY <1>0, <2>1 DEF RagInv, TypeOK, ThreadShape, Shape, CommitSeesRunning
<1>2. CASE Claimable(j)
  <2>1. /\ job' = [job EXCEPT ![j] = [status |-> "RUNNING", attempts |-> @.attempts + 1]]
        /\ stale' = stale \ {j} /\ thread' = [thread EXCEPT ![w] = th]
        /\ UNCHANGED <<doc, index, ops, crashes>>
    BY <1>2 DEF Deliver
  <2>2. [status |-> "RUNNING", attempts |-> job[j].attempts + 1] \in JobRow
    BY <1>0 DEF RagInv, TypeOK, JobRow, JobStatuses, ActiveJob
  <2>3. job' \in [Jobs -> JobRow]
    BY <1>0, <2>1, <2>2 DEF RagInv, TypeOK
  <2>4. th \in Thread /\ th.holds = NoJob
    <3>1. j \in Jobs /\ m[2] \in 0 .. MaxTaskRetries
      BY <1>0
    <3>2. th \in Thread
      BY ONLY <3>1, ConstantTypes DEF Thread
    <3>3. th.holds = NoJob
      BY DEF IdleThread
    <3>. QED BY <3>2, <3>3
  <2>5. Shape(w, th)
    BY <1>0 DEF Shape, IdleThread, Runs, Locking
  <2>6. \A u \in Threads : thread[u].holds # NoJob => thread[u].holds # j /\ thread[u].holds \in Jobs
    BY <1>2 DEF Claimable, RagInv, CommitSeesRunning, TypeOK, Thread
  <2>7. \A u \in Threads : thread[u].holds # NoJob =>
          job'[thread[u].holds].status = job[thread[u].holds].status
    BY <2>1, <2>6 DEF RagInv, TypeOK
  <2> HIDE DEF th
  <2>8. thread' \in [Threads -> Thread] /\ ThreadShape' /\ CommitSeesRunning'
    BY <1>0, <2>1, <2>4, <2>5, <2>7, OneThreadMoves
  <2>. QED
    BY <1>0, <2>1, <2>3, <2>8 DEF RagInv, TypeOK
<1>. QED
  BY <1>1, <1>2

\* The beat tasks and crashes keep the invariant.
LEMMA EnvironmentInv ==
  ASSUME RagInv, NEW w \in Workers, Recover(w) \/ Reconcile(w) \/ Crash(w)
  PROVE  RagInv'
<1>0. w \in Threads /\ thread[w] \in Thread /\ Shape(w, thread[w])
  BY DEF RagInv, TypeOK, ThreadShape, Threads
<1>1. CASE Recover(w)
  <2> DEFINE wr == [NoWrite EXCEPT !.jobs = Recoverable, !.status = "PENDING"]
  <2>0. thread[w].holds = NoJob /\ Recoverable \subseteq Jobs
    BY <1>0, <1>1 DEF Recover, Shape, Locking, Recoverable, RagInv, TypeOK
  <2>1. wr \in Write /\ wr.to # "READY"
    BY <2>0, ConstantTypes DEF NoWrite, Write, JobStatuses, ActiveJob
  <2>2. Recoverable \X {0} \in SUBSET (Jobs \X (0 .. MaxTaskRetries))
    BY <2>0, IndexingAssumptions
  <2>3. Open(w, wr, Recoverable \X {0}, "idle") /\ UNCHANGED job
    BY <1>1 DEF Recover
  <2> HIDE DEF wr
  <2>4. thread' \in [Threads -> Thread] /\ ThreadShape' /\ CommitSeesRunning'
    BY <1>0, <2>0, <2>1, <2>2, <2>3, OpenMoves
  <2>. QED
    BY <1>1, <2>4, OnlyThreads DEF Recover
<1>2. CASE Reconcile(w)
  <2>1. Pending \subseteq Jobs /\ 0 \in 0 .. MaxTaskRetries
    BY IndexingAssumptions DEF Pending
  <2>2. broker' \subseteq Jobs \X (0 .. MaxTaskRetries)
    BY <1>2, <2>1 DEF Reconcile, RagInv, TypeOK
  <2>. QED
    BY <1>2, <2>2 DEF Reconcile, RagInv, TypeOK, ThreadShape, Shape, CommitSeesRunning
<1>3. CASE Crash(w)
  <2>1. thread' \in [Threads -> Thread] /\ ThreadShape' /\ CommitSeesRunning'
    BY <1>0, <1>3, IdleMoves DEF Crash
  <2>2. crashes \in 0 .. MaxCrashes /\ crashes < MaxCrashes /\ crashes' = crashes + 1
    BY <1>3 DEF Crash, RagInv, TypeOK
  <2>3. crashes' \in 0 .. MaxCrashes
    BY <2>2, IndexingAssumptions
  <2>4. thread[w].job # NoJob => <<thread[w].job, thread[w].retries>> \in Jobs \X (0 .. MaxTaskRetries)
    BY <1>0 DEF Thread
  <2>5. broker' \subseteq Jobs \X (0 .. MaxTaskRetries)
    BY <1>3, <2>4 DEF Crash, RagInv, TypeOK
  <2>. QED
    BY <1>3, <2>1, <2>3, <2>5 DEF Crash, RagInv, TypeOK
<1>. QED
  BY <1>1, <1>2, <1>3

\* The end of a transaction: a commit writes no job that another thread has
\* locked, and the holder of a lock writes no job at all.
LEMMA CommitInv ==
  ASSUME RagInv, NEW t \in Threads, Commit(t)
  PROVE  RagInv'
<1> DEFINE wr == thread[t].write
           th == IF thread[t].next = "idle" THEN IdleThread
                 ELSE [thread[t] EXCEPT !.pc = thread[t].next, !.write = NoWrite,
                                        !.sends = {}, !.holds = NoJob]
<1>0. thread[t] \in Thread /\ Shape(t, thread[t]) /\ thread[t].pc = "tx"
  BY DEF RagInv, TypeOK, ThreadShape, Commit
<1>1. wr \in Write /\ thread[t].sends \subseteq Jobs \X (0 .. MaxTaskRetries)
  BY <1>0 DEF Thread
<1>2. th \in Thread
  <2>1. [thread[t] EXCEPT !.pc = thread[t].next, !.write = NoWrite,
                          !.sends = {}, !.holds = NoJob] \in Thread
    BY <1>0, ConstantTypes DEF Thread
  <2>. QED
    BY <2>1, ConstantTypes
<1>3. th.holds = NoJob
  BY <1>0 DEF IdleThread, Thread
<1>4. Shape(t, th)
  BY <1>0, ConstantTypes DEF Shape, Thread, Runs, Locking
<1>5. thread' = [thread EXCEPT ![t] = th]
  BY DEF Commit, RagInv, TypeOK
<1>6. job' = JobsAfter(wr)
  BY DEF Commit
<1>7. job' \in [Jobs -> JobRow]
  BY <1>1, <1>6 DEF JobsAfter, RagInv, TypeOK, JobRow, Write
<1>8. \A u \in Threads : thread[u].holds \in Jobs => thread[u].holds \notin wr.jobs
  <2>1. \A i \in wr.jobs, u \in Threads \ {t} : thread[u].holds # i
    BY DEF Commit, Waits, LockedAgainst
  <2>2. thread[t].holds \in Jobs => wr.jobs = {}
    BY <1>0, IndexingAssumptions DEF Shape
  <2>. QED
    BY <2>1, <2>2
<1>9. \A u \in Threads : thread[u].holds # NoJob =>
        job'[thread[u].holds].status = job[thread[u].holds].status
  <2>1. \A u \in Threads : thread[u].holds # NoJob => thread[u].holds \in Jobs
    BY DEF RagInv, TypeOK, Thread
  <2>. QED
    BY <1>6, <1>8, <2>1 DEF JobsAfter
<1>10. doc' \in [Docs -> DocStatuses]
  BY <1>1 DEF Commit, RagInv, TypeOK, Write
<1>11. broker' \subseteq Jobs \X (0 .. MaxTaskRetries)
  BY <1>1 DEF Commit, RagInv, TypeOK
<1> HIDE DEF wr, th
<1>12. thread' \in [Threads -> Thread] /\ ThreadShape' /\ CommitSeesRunning'
  BY <1>2, <1>3, <1>4, <1>5, <1>9, OneThreadMoves
<1>. QED
  BY <1>7, <1>10, <1>11, <1>12 DEF Commit, RagInv, TypeOK

\* A transaction that the database aborts.
LEMMA AbortInv ==
  ASSUME RagInv, NEW t \in Threads, NEW u \in Threads, Reject(t) \/ Deadlock(t, u)
  PROVE  RagInv'
<1>1. CASE Reject(t)
  <2>1. thread' \in [Threads -> Thread] /\ ThreadShape' /\ CommitSeesRunning'
    BY <1>1, IdleMoves DEF Reject
  <2>. QED
    BY <1>1, <2>1, OnlyThreads DEF Reject
<1>2. CASE Deadlock(t, u)
  <2>1. CASE thread' = [thread EXCEPT ![t] = IdleThread]
    <3>1. thread' \in [Threads -> Thread] /\ ThreadShape' /\ CommitSeesRunning'
      BY <1>2, <2>1, IdleMoves DEF Deadlock
    <3>. QED
      BY <1>2, <3>1, OnlyThreads DEF Deadlock
  <2> DEFINE th == [thread[u] EXCEPT !.pc = "restoring", !.err = "TRANSIENT", !.holds = NoJob,
                                     !.write = NoWrite, !.snap = index]
  <2>2. CASE thread' = [thread EXCEPT ![u] = th]
    <3>0. /\ thread[u] \in Thread /\ Shape(u, thread[u]) /\ index \subseteq Docs
          /\ thread[t].write \in Write
      BY DEF RagInv, TypeOK, ThreadShape, Thread
    <3>1. thread[u].pc = "tx" /\ thread[u].holds \in Jobs
      BY <1>2, <3>0 DEF Deadlock, Write
    <3>2. u \in Workers /\ thread[u].job \in Jobs
      BY <3>0, <3>1, IndexingAssumptions DEF Shape
    <3>3. th \in Thread
      <4>1. thread[u] \in Thread /\ NoWrite \in Write /\ index \in SUBSET Docs
        BY <3>0, ConstantTypes
      <4>. QED BY ONLY <4>1 DEF Thread
    <3>4. th.holds = NoJob /\ Shape(u, th)
      BY <3>0, <3>2 DEF Shape, Thread, Runs, Locking
    <3> HIDE DEF th
    <3>5. thread' \in [Threads -> Thread] /\ ThreadShape' /\ CommitSeesRunning'
      BY <1>2, <2>2, <3>3, <3>4, OneThreadMoves DEF Deadlock
    <3>. QED
      BY <1>2, <3>5, OnlyThreads DEF Deadlock
  <2>. QED
    BY <1>2, <2>1, <2>2 DEF Deadlock
<1>. QED
  BY <1>1, <1>2

\* Every step keeps the invariant.
LEMMA NextInv == RagInv /\ [Next]_vars => RagInv'
<1> SUFFICES ASSUME RagInv, [Next]_vars PROVE RagInv'
  OBVIOUS
<1>1. CASE UNCHANGED vars
  BY <1>1 DEF vars, RagInv, TypeOK, ThreadShape, Shape, CommitSeesRunning
<1>2. ASSUME NEW w \in Workers, WorkerStep(w) PROVE RagInv'
  BY <1>2, DeliverInv, RunStepInv, EnvironmentInv DEF WorkerStep
<1>3. ASSUME NEW j \in Jobs, HeartbeatAges(j) PROVE RagInv'
  BY <1>3 DEF HeartbeatAges, RagInv, TypeOK, ThreadShape, Shape, CommitSeesRunning
<1>. QED
  BY <1>1, <1>2, <1>3, ClientStepInv, CommitInv, AbortInv DEF Next

\* The tables, the broker and the threads of the indexing service keep their
\* types, whatever is interleaved.
THEOREM RagTypeCorrect == Spec => []TypeOK
<1>1. RagInv => TypeOK
  BY DEF RagInv
<1>. QED
  BY <1>1, InitInv, NextInv, PTL DEF Spec

\* The tables keep their types, and the FOR UPDATE lock of _commit_if_running
\* keeps its job RUNNING and its own from the check to the commit, for any
\* number of workers and requests, and although no other method checks what
\* it overwrites.
THEOREM LockedJobRuns == Spec => []TablesAreSound
<1>1. RagInv => TablesAreSound
  BY DEF RagInv, TablesAreSound
<1>. QED
  BY <1>1, InitInv, NextInv, PTL DEF Spec

\* The only step that makes a document READY is the commit of a transaction
\* that holds the lock of a RUNNING job of that document.
LEMMA PublishStep ==
  ASSUME RagInv, [Next]_vars, NEW d \in Docs, doc[d] # "READY", doc'[d] = "READY"
  PROVE  \E j \in Jobs, w \in Workers :
           /\ DocOf[j] = d /\ thread[w].holds = j
           /\ job[j].status = "RUNNING" /\ job'[j].status = "RUNNING"
<1>1. PICK t \in Threads : Commit(t)
  <2>1. ~UNCHANGED doc
    OBVIOUS
  <2>2. ASSUME NEW c \in Clients, ClientStep(c) PROVE FALSE
    <3>1. ASSUME NEW j \in Jobs, Upload(c, j) PROVE FALSE
      BY <3>1 DEF Upload, RagInv, TypeOK
    <3>2. CASE DeleteRecord(c)
      BY <3>2 DEF DeleteRecord, RagInv, TypeOK
    <3>. QED
      BY <2>1, <2>2, <3>1, <3>2
      DEF ClientStep, Reindex, RequestCancel, RequestRetry, RequestDelete, UserOp,
          Unindex, Search, Rebuild
  <2>3. ASSUME NEW w \in Workers, WorkerStep(w) PROVE FALSE
    BY <2>1, <2>3
    DEF WorkerStep, Deliver, Start, Step, SeesCancel, ParseFails, LockJob, SwapIndex, Publish,
        Restore, Finish, RecordFailure, RetryTask, Recover, Reconcile, Crash
  <2>. QED
    BY <2>1, <2>2, <2>3 DEF Next, vars, Reject, Deadlock, HeartbeatAges
<1>2. thread[t].pc = "tx" /\ thread[t].write.doc = d /\ thread[t].write.to = "READY"
  BY <1>1 DEF Commit
<1>3. /\ t \in Workers /\ thread[t].holds \in Jobs /\ d = DocOf[thread[t].holds]
      /\ thread[t].write.jobs = {}
  BY <1>2, IndexingAssumptions DEF RagInv, ThreadShape, Shape
<1>4. job[thread[t].holds].status = "RUNNING"
  BY <1>3, IndexingAssumptions DEF RagInv, CommitSeesRunning
<1>5. job'[thread[t].holds] = job[thread[t].holds]
  BY <1>1, <1>3 DEF Commit, JobsAfter
<1>. QED
  BY <1>3, <1>4, <1>5

\* A document becomes READY only while a job of it is RUNNING and locked: no
\* late worker of a cancelled, failed, recovered or finished job publishes.
THEOREM PublishedWhileRunning == Spec => PublishesOnlyRunning
<1> DEFINE Publishes ==
             \A d \in Docs : doc[d] # "READY" /\ doc'[d] = "READY" =>
               \E j \in Jobs, w \in Workers :
                 /\ DocOf[j] = d /\ thread[w].holds = j
                 /\ job[j].status = "RUNNING" /\ job'[j].status = "RUNNING"
<1>1. RagInv /\ [Next]_vars => [Publishes]_vars
  BY PublishStep
<1> HIDE DEF Publishes
<1>2. Spec => [][Publishes]_vars
  BY <1>1, InitInv, NextInv, PTL DEF Spec
<1>. QED
  BY <1>2 DEF PublishesOnlyRunning, Publishes

-----------------------------------------------------------------------------
(***************************************************************************)
(* Proofs about RagIndexing for any documents, jobs and workers, when      *)
(* heartbeats keep up, transactions are not overtaken, and the owner makes *)
(* one request at a time and retries no job under a running worker: job    *)
(* and document agree although no write checks what it overwrites.         *)
(*                                                                         *)
(* The invariant says of every open transaction that what it will write    *)
(* still fits the rows.  Only a cancel of the owner ever waits for a row   *)
(* lock, so at most one transaction of a worker and one cancel are open    *)
(* together; they concern different jobs, and no job is run twice, so      *)
(* neither can spoil what the other has read.                              *)
(***************************************************************************)

UploadDone(d) ==
  \E i \in Jobs : Operation[i] = "UPLOAD" /\ DocOf[i] = d /\ job[i].status = "SUCCEEDED"

\* The rows: a job follows its document, a REINDEX its upload, and a job that
\* waits for a worker has an attempt left.
RowsAgree ==
  /\ StatusesAgree
  /\ \A d \in Docs :
       doc[d] # "ABSENT" => \E i \in Jobs : Operation[i] = "UPLOAD" /\ DocOf[i] = d
  /\ \A j \in Jobs :
       /\ Operation[j] = "REINDEX" /\ job[j].status # "ABSENT" => UploadDone(DocOf[j])
       /\ job[j].attempts <= MaxAttempts
       /\ job[j].status \in {"ABSENT", "PENDING"} => job[j].attempts < MaxAttempts

\* A worker with a job is its only one, and nobody has moved the job on, save
\* for a cancel, or for the worker itself when it recorded a failure.
RunOK(w) ==
  /\ thread[w].pc = "idle" => thread[w].job = NoJob
  /\ thread[w].holds # NoJob => thread[w].holds = thread[w].job
  /\ thread[w].job # NoJob =>
       /\ thread[w].job \notin stale
       /\ \/ job[thread[w].job].status \in {"RUNNING", "CANCELLED"}
          \/ job[thread[w].job].status = "FAILED" /\ thread[w].pc \in {"failed", "tx"}
       /\ thread[w].pc = "indexed" /\ job[thread[w].job].status = "RUNNING"
            /\ Operation[thread[w].job] = "UPLOAD"
          => doc[DocOf[thread[w].job]] \in {"READY", "DELETED"}

\* A request runs no job, and deletes a document that exists.
RequestOK(c) ==
  /\ thread[c].job = NoJob /\ thread[c].holds = NoJob
  /\ thread[c].pc = "deleting" \/ (thread[c].pc = "tx" /\ thread[c].next = "deleting")
     => doc[thread[c].doc] # "ABSENT"

\* The document that a write of job j changes, and to what.
Follows(wr, j, to) ==
  IF TouchesDoc(j) THEN wr.doc = DocOf[j] /\ wr.to = to ELSE wr.doc = NoDoc

\* The writes that can be under way: an active job is cancelled or fails, ...
EndsJob(wr, j) ==
  /\ wr.jobs = {j} /\ wr.status \in {"CANCELLED", "FAILED"}
  /\ job[j].status \in ActiveJob /\ Follows(wr, j, "FAILED")
\* ... a RUNNING job whose document is published succeeds, ...
SucceedsJob(wr, j) ==
  /\ wr.jobs = {j} /\ wr.status = "SUCCEEDED" /\ wr.doc = NoDoc
  /\ job[j].status = "RUNNING"
  /\ Operation[j] = "UPLOAD" => doc[DocOf[j]] \in {"READY", "DELETED"}
\* ... a failed or cancelled job is retried, ...
RetriesJob(wr, j) ==
  /\ wr.jobs = {j} /\ wr.status = "PENDING"
  /\ wr.reset \/ job[j].attempts < MaxAttempts
  /\ job[j].status \in {"FAILED", "CANCELLED"} /\ Follows(wr, j, "PROCESSING")
\* ... a reindex is created, ...
CreatesJob(wr, j) ==
  /\ wr.jobs = {j} /\ wr.status = "PENDING" /\ wr.doc = NoDoc
  /\ Operation[j] = "REINDEX" /\ job[j].status = "ABSENT" /\ UploadDone(DocOf[j])
\* ... jobs that no worker runs are recovered, ...
Unclaimed(j) == \A w \in Workers : thread[w].job # j
RecoversJobs(wr) ==
  /\ wr.status = "PENDING" /\ wr.doc = NoDoc
  /\ \A j \in wr.jobs :
       job[j].status = "RUNNING" /\ job[j].attempts < MaxAttempts /\ Unclaimed(j)
\* ... or the document of a locked job is published.
PublishesDoc(wr, j) ==
  /\ wr.jobs = {} /\ wr.doc = DocOf[j] /\ doc[DocOf[j]] # "DELETED"
  /\ wr.to = "READY" \/ (wr.to = "KEEP" /\ doc[DocOf[j]] = "READY")

WorkerTx(w) ==
  thread[w].pc = "tx" =>
    \/ /\ thread[w].holds \in Jobs /\ thread[w].next = "indexed"
       /\ PublishesDoc(thread[w].write, thread[w].holds)
    \/ /\ thread[w].holds = NoJob /\ thread[w].job \in Jobs
       /\ \/ /\ EndsJob(thread[w].write, thread[w].job)
             /\ thread[w].next = IF thread[w].write.status = "FAILED" THEN "failed" ELSE "idle"
          \/ SucceedsJob(thread[w].write, thread[w].job) /\ thread[w].next = "idle"
          \/ RetriesJob(thread[w].write, thread[w].job) /\ thread[w].next = "idle"
    \/ /\ thread[w].holds = NoJob /\ thread[w].job = NoJob /\ thread[w].next = "idle"
       /\ RecoversJobs(thread[w].write)

RequestTx(c) ==
  thread[c].pc = "tx" =>
    \E j \in Jobs :
      \/ EndsJob(thread[c].write, j) /\ thread[c].write.status = "CANCELLED"
      \/ /\ RetriesJob(thread[c].write, j) \/ CreatesJob(thread[c].write, j)
         /\ Unclaimed(j) /\ thread[c].next = "idle"

\* What is open together.
OpenTogether ==
  /\ \A u, w \in Workers : thread[u].pc = "tx" /\ thread[w].pc = "tx" => u = w
  /\ \A c \in Clients, w \in Workers :
       thread[c].pc = "tx" /\ thread[w].pc = "tx" =>
         /\ thread[c].write.status = "CANCELLED"
         /\ \A j \in thread[c].write.jobs :
              job[j].status = "RUNNING" /\ j \notin thread[w].write.jobs

ThreadsAgree ==
  /\ SoleIndexer
  /\ \A w \in Workers : RunOK(w) /\ WorkerTx(w)
  /\ \A c \in Clients : RequestOK(c) /\ RequestTx(c)
  /\ OpenTogether

OutcomeInv == RagInv /\ RowsAgree /\ ThreadsAgree

\* The circumstances.  One request at a time: a cancel that waits for a lock
\* would otherwise overwrite what another request has deleted meanwhile.
CalmOwner == HeartbeatsKeepUp /\ PatientOwner /\ ShortTx /\ \A b, c \in Clients : b = c

-----------------------------------------------------------------------------
(* Who waits, and who is open together.                                    *)

\* What is known of the types of one thread.
LEMMA ThreadTypes ==
  ASSUME OutcomeInv, NEW t \in Threads
  PROVE  /\ thread[t] \in Thread /\ Shape(t, thread[t])
         /\ thread[t].job \in Jobs \union {NoJob} /\ thread[t].holds \in Jobs \union {NoJob}
         /\ thread[t].write.jobs \subseteq Jobs
         /\ thread[t].write.doc \in Docs \union {NoDoc}
         /\ thread[t].doc \in Docs \union {NoDoc}
         /\ NoJob \notin Jobs /\ NoDoc \notin Docs
  BY IndexingAssumptions DEF OutcomeInv, RagInv, TypeOK, ThreadShape, Thread, Write

\* Only workers hold locks, each on the job that it runs.
LEMMA Holders ==
  ASSUME OutcomeInv, NEW u \in Threads, thread[u].holds # NoJob
  PROVE  /\ u \in Workers /\ thread[u].job = thread[u].holds /\ thread[u].holds \in Jobs
         /\ job[thread[u].holds].status = "RUNNING"
<1>1. u \in Workers
  BY DEF OutcomeInv, ThreadsAgree, RequestOK, Threads
<1>2. thread[u].holds = thread[u].job
  BY <1>1 DEF OutcomeInv, ThreadsAgree, RunOK
<1>3. job[thread[u].holds].status = "RUNNING"
  BY DEF OutcomeInv, RagInv, CommitSeesRunning
<1> QED BY <1>1, <1>2, <1>3, ThreadTypes

\* The transactions of workers wait for nobody.
LEMMA WorkersNeverWait ==
  ASSUME OutcomeInv, NEW w \in Workers, thread[w].pc = "tx"
  PROVE  ~Waits(w)
<1> SUFFICES ASSUME NEW j \in thread[w].write.jobs, NEW u \in Threads \ {w}, thread[u].holds = j
             PROVE  FALSE
  BY DEF Waits, LockedAgainst
<1>1. w \in Threads /\ WorkerTx(w) /\ SoleIndexer
  BY DEF OutcomeInv, ThreadsAgree, Threads
<1>2. j \in Jobs /\ j # NoJob
  BY <1>1, ThreadTypes
<1>3. u \in Workers /\ thread[u].job = j
  BY <1>2, Holders
<1>4. CASE thread[w].write.jobs = {}
  BY <1>4
<1>5. CASE thread[w].write.jobs = {thread[w].job}
  BY <1>1, <1>2, <1>3, <1>5 DEF SoleIndexer
<1>6. CASE RecoversJobs(thread[w].write)
  BY <1>3, <1>6 DEF RecoversJobs, Unclaimed
<1> QED BY <1>1, <1>4, <1>5, <1>6 DEF WorkerTx, PublishesDoc, EndsJob, SucceedsJob, RetriesJob

\* A request that goes on finds no transaction open.
LEMMA RequestAlone ==
  ASSUME OutcomeInv, CalmOwner, NEW c \in Clients, Undisturbed(c)
  PROVE  \A u \in Threads \ {c} : thread[u].pc # "tx"
<1> SUFFICES ASSUME NEW u \in Threads \ {c}, thread[u].pc = "tx" PROVE FALSE
  OBVIOUS
<1>1. u \in Workers
  BY DEF CalmOwner, Threads
<1>2. Waits(u)
  BY DEF CalmOwner, Undisturbed
<1> QED BY <1>1, <1>2, WorkersNeverWait

\* A worker that goes on finds at most a cancel open, which waits for the
\* RUNNING job of a worker that has locked it.
LEMMA WorkerMeets ==
  ASSUME OutcomeInv, CalmOwner, NEW w \in Workers, Undisturbed(w)
  PROVE  /\ \A u \in Workers \ {w} : thread[u].pc # "tx"
         /\ \A c \in Clients : thread[c].pc = "tx" =>
              /\ thread[c].write.status = "CANCELLED"
              /\ \A j \in thread[c].write.jobs :
                   /\ job[j].status = "RUNNING"
                   /\ \E u \in Workers : thread[u].holds = j /\ thread[u].job = j
<1>1. ASSUME NEW u \in Workers \ {w}, thread[u].pc = "tx" PROVE FALSE
  <2>1. Waits(u)
    BY <1>1 DEF CalmOwner, Undisturbed, Threads
  <2> QED BY <1>1, <2>1, WorkersNeverWait
<1>2. ASSUME NEW c \in Clients, thread[c].pc = "tx"
      PROVE  /\ thread[c].write.status = "CANCELLED"
             /\ \A j \in thread[c].write.jobs :
                  /\ job[j].status = "RUNNING"
                  /\ \E u \in Workers : thread[u].holds = j /\ thread[u].job = j
  <2>1. c \in Threads \ {w}
    BY IndexingAssumptions DEF Threads
  <2>2. PICK j \in thread[c].write.jobs, u \in Threads \ {c} : thread[u].holds = j
    BY <1>2, <2>1 DEF CalmOwner, Undisturbed, Waits, LockedAgainst
  <2>3. j \in Jobs /\ j # NoJob
    BY <2>1, ThreadTypes
  <2>4. u \in Workers /\ thread[u].job = j /\ job[j].status = "RUNNING"
    BY <2>2, <2>3, Holders
  <2>5. RequestTx(c)
    BY DEF OutcomeInv, ThreadsAgree
  <2>6. thread[c].write.jobs = {j} /\ thread[c].write.status = "CANCELLED"
    BY <1>2, <2>2, <2>4, <2>5 DEF RequestTx, EndsJob, RetriesJob, CreatesJob
  <2> QED BY <2>2, <2>4, <2>6
<1> QED BY <1>1, <1>2

-----------------------------------------------------------------------------
(* Steps that leave the rows alone.                                        *)

\* The rows agree as long as nobody writes them.
LEMMA RowsStay ==
  ASSUME RowsAgree, job' = job, doc' = doc
  PROVE  RowsAgree'
  BY DEF RowsAgree, StatusesAgree, UploadDone

\* What a transaction has read stands as long as nobody writes, and no worker
\* takes a job.
LEMMA TxStays ==
  ASSUME job' = job, doc' = doc, NEW t, thread'[t] = thread[t],
         \A w \in Workers : thread'[w].job \in {NoJob, thread[w].job},
         NoJob \notin Jobs, thread[t].write.jobs \subseteq Jobs
  PROVE  /\ WorkerTx(t) => WorkerTx(t)'
         /\ RequestTx(t) => RequestTx(t)'
<1>1. \A j \in Jobs : Unclaimed(j) => Unclaimed(j)'
  BY DEF Unclaimed
<1>2. \A j \in Jobs : EndsJob(thread[t].write, j) => EndsJob(thread[t].write, j)'
  BY DEF EndsJob, Follows, TouchesDoc
<1>3. \A j \in Jobs : SucceedsJob(thread[t].write, j) => SucceedsJob(thread[t].write, j)'
  BY DEF SucceedsJob
<1>4. \A j \in Jobs : RetriesJob(thread[t].write, j) => RetriesJob(thread[t].write, j)'
  BY DEF RetriesJob, Follows, TouchesDoc
<1>5. \A j \in Jobs : CreatesJob(thread[t].write, j) => CreatesJob(thread[t].write, j)'
  BY DEF CreatesJob, UploadDone
<1>6. RecoversJobs(thread[t].write) => RecoversJobs(thread[t].write)'
  BY <1>1 DEF RecoversJobs
<1>7. \A j \in Jobs : PublishesDoc(thread[t].write, j) => PublishesDoc(thread[t].write, j)'
  BY DEF PublishesDoc
<1>8. WorkerTx(t) => WorkerTx(t)'
  BY <1>2, <1>3, <1>4, <1>6, <1>7 DEF WorkerTx
<1>9. RequestTx(t) => RequestTx(t)'
  BY <1>1, <1>2, <1>4, <1>5 DEF RequestTx
<1> QED BY <1>8, <1>9

\* A thread goes on, drops what it did, or ends; no transaction is opened.
LEMMA QuietStep ==
  ASSUME OutcomeInv, NEW t \in Threads, NEW th \in Thread,
         thread' = [thread EXCEPT ![t] = th], job' = job, doc' = doc,
         \A j \in stale' : j \in stale \/ Unclaimed(j),
         th.pc \notin {"tx", "indexed"}, th.job \in {NoJob, thread[t].job},
         th.holds \in {NoJob, th.job}, th.pc = "idle" => th.job = NoJob,
         th.job # NoJob => job[th.job].status # "FAILED" \/ th.pc = "failed",
         th.pc = "deleting" => doc[th.doc] # "ABSENT"
  PROVE  RowsAgree' /\ ThreadsAgree'
<1>0. \A u \in Threads : thread'[u] = IF u = t THEN th ELSE thread[u]
  BY DEF OutcomeInv, RagInv, TypeOK
<1>1. \A w \in Workers : w \in Threads /\ thread'[w].job \in {NoJob, thread[w].job}
  BY <1>0 DEF Threads
<1>2. SoleIndexer'
  BY <1>1 DEF OutcomeInv, ThreadsAgree, SoleIndexer
<1>3. ASSUME NEW w \in Workers PROVE RunOK(w)'
  <2>1. RunOK(w)
    BY DEF OutcomeInv, ThreadsAgree
  <2>2. thread[w].job \in stale' => thread[w].job \in stale
    BY DEF Unclaimed
  <2>3. CASE w = t
    BY <1>0, <1>1, <2>1, <2>2, <2>3 DEF RunOK
  <2>4. CASE w # t
    BY <1>0, <1>1, <2>1, <2>2, <2>4 DEF RunOK
  <2> QED BY <2>3, <2>4
<1>4. ASSUME NEW c \in Clients PROVE RequestOK(c)'
  <2>1. RequestOK(c) /\ c \in Threads
    BY DEF OutcomeInv, ThreadsAgree, Threads
  <2> QED BY <1>0, <2>1 DEF RequestOK
<1>5. ASSUME NEW u \in Threads, u # t
      PROVE  (WorkerTx(u) => WorkerTx(u)') /\ (RequestTx(u) => RequestTx(u)')
  BY <1>0, <1>1, <1>5, TxStays, ThreadTypes
<1>6. WorkerTx(t)' /\ RequestTx(t)'
  BY <1>0 DEF WorkerTx, RequestTx
<1>7. \A w \in Workers : WorkerTx(w)'
  BY <1>1, <1>5, <1>6 DEF OutcomeInv, ThreadsAgree
<1>8. \A c \in Clients : RequestTx(c)'
  BY <1>5, <1>6 DEF OutcomeInv, ThreadsAgree, Threads
<1>9. OpenTogether'
  <2>1. \A u \in Threads : thread'[u].pc = "tx" => thread[u].pc = "tx" /\ thread'[u] = thread[u]
    BY <1>0
  <2> QED BY <2>1 DEF OutcomeInv, ThreadsAgree, OpenTogether, Threads
<1>10. RowsAgree'
  BY RowsStay DEF OutcomeInv
<1> QED BY <1>2, <1>3, <1>4, <1>7, <1>8, <1>9, <1>10 DEF ThreadsAgree

\* A thread opens a transaction.
LEMMA OpenStep ==
  ASSUME OutcomeInv, NEW t \in Threads, NEW th \in Thread,
         thread' = [thread EXCEPT ![t] = th], job' = job, doc' = doc, stale' = stale,
         th.pc = "tx", th.job = thread[t].job, th.holds \in {NoJob, th.job},
         t \in Workers => WorkerTx(t)' /\ \A u \in Workers \ {t} : thread[u].pc # "tx",
         t \in Clients =>
           /\ RequestTx(t)' /\ \A u \in Threads \ {t} : thread[u].pc # "tx"
           /\ th.next = "deleting" => doc[th.doc] # "ABSENT",
         t \in Workers => \A c \in Clients : thread[c].pc = "tx" =>
           /\ thread[c].write.status = "CANCELLED"
           /\ \A j \in thread[c].write.jobs :
                job[j].status = "RUNNING" /\ j \notin th.write.jobs
  PROVE  RowsAgree' /\ ThreadsAgree'
<1>0. /\ \A u \in Threads : thread'[u] = IF u = t THEN th ELSE thread[u]
      /\ Workers \cap Clients = {}
  BY IndexingAssumptions DEF OutcomeInv, RagInv, TypeOK
<1>1. \A w \in Workers : w \in Threads /\ thread'[w].job = thread[w].job
  BY <1>0 DEF Threads
<1>2. SoleIndexer'
  BY <1>1 DEF OutcomeInv, ThreadsAgree, SoleIndexer
<1>3. ASSUME NEW w \in Workers PROVE RunOK(w)'
  <2>1. RunOK(w)
    BY DEF OutcomeInv, ThreadsAgree
  <2>2. CASE w = t
    BY <1>0, <1>1, <2>1, <2>2 DEF RunOK
  <2>3. CASE w # t
    BY <1>0, <1>1, <2>1, <2>3 DEF RunOK
  <2> QED BY <2>2, <2>3
<1>4. ASSUME NEW c \in Clients PROVE RequestOK(c)'
  <2>1. RequestOK(c) /\ c \in Threads
    BY DEF OutcomeInv, ThreadsAgree, Threads
  <2> QED BY <1>0, <2>1 DEF RequestOK
<1>5. ASSUME NEW u \in Threads, u # t
      PROVE  (WorkerTx(u) => WorkerTx(u)') /\ (RequestTx(u) => RequestTx(u)')
  BY <1>0, <1>1, <1>5, TxStays, ThreadTypes
<1>7. \A w \in Workers : WorkerTx(w)'
  BY <1>1, <1>5 DEF OutcomeInv, ThreadsAgree
<1>8. \A c \in Clients : RequestTx(c)'
  BY <1>5 DEF OutcomeInv, ThreadsAgree, Threads
<1>9. OpenTogether'
  <2>1. OpenTogether /\ Workers \subseteq Threads /\ Clients \subseteq Threads
    BY DEF OutcomeInv, ThreadsAgree, Threads
  <2>2. CASE t \in Workers
    <3>1. \A u, w \in Workers : thread'[u].pc = "tx" /\ thread'[w].pc = "tx" => u = w
      BY <1>0, <2>1, <2>2
    <3>2. ASSUME NEW c \in Clients, NEW w \in Workers, thread'[c].pc = "tx", thread'[w].pc = "tx"
          PROVE  /\ thread'[c].write.status = "CANCELLED"
                 /\ \A j \in thread'[c].write.jobs :
                      job'[j].status = "RUNNING" /\ j \notin thread'[w].write.jobs
      <4>1. thread'[c] = thread[c] /\ w = t /\ thread'[w] = th
        BY <1>0, <2>1, <2>2, <3>1, <3>2
      <4> QED BY <2>2, <3>2, <4>1
    <3> QED BY <3>1, <3>2 DEF OpenTogether
  <2>3. CASE t \in Clients
    <3>1. \A u \in Workers : thread'[u].pc # "tx"
      BY <1>0, <2>1, <2>3
    <3> QED BY <3>1 DEF OpenTogether
  <2> QED BY <2>2, <2>3 DEF Threads
<1>10. RowsAgree'
  BY RowsStay DEF OutcomeInv
<1> QED BY <1>2, <1>3, <1>4, <1>7, <1>8, <1>9, <1>10 DEF ThreadsAgree

-----------------------------------------------------------------------------
(* What the methods of IndexingJobService write.                           *)

\* A change of one job writes that job and, if it does not spare it, the
\* document of the job.
LEMMA ChangeFields ==
  ASSUME NEW j \in Jobs, NEW s, NEW r, NEW to, doc[DocOf[j]] # to
  PROVE  /\ Change(j, s, r, to).jobs = {j} /\ Change(j, s, r, to).status = s
         /\ Change(j, s, r, to).reset = r /\ Follows(Change(j, s, r, to), j, to)
         /\ Change(j, s, r, to) # NoWrite
<1>1. /\ Change(j, s, r, to).jobs = {j} /\ Change(j, s, r, to).status = s
      /\ Change(j, s, r, to).reset = r
      /\ Change(j, s, r, to).doc = IF TouchesDoc(j) THEN DocOf[j] ELSE NoDoc
      /\ Change(j, s, r, to).to = IF TouchesDoc(j) /\ doc[DocOf[j]] # to THEN to ELSE "KEEP"
  BY DEF Change
<1>2. NoWrite.jobs = {}
  BY DEF NoWrite
<1> QED BY <1>1, <1>2 DEF Follows

\* The document of an active upload is not FAILED, and the one of a failed or
\* cancelled upload is not PROCESSING: the writes set it.
LEMMA DocumentDiffers ==
  ASSUME RowsAgree, TypeOK, NEW j \in Jobs, Operation[j] = "UPLOAD"
  PROVE  /\ job[j].status \in ActiveJob => doc[DocOf[j]] # "FAILED"
         /\ job[j].status \in {"FAILED", "CANCELLED"} => doc[DocOf[j]] \in {"FAILED", "DELETED"}
         /\ job[j].status = "SUCCEEDED" => doc[DocOf[j]] \in {"READY", "DELETED"}
<1> DEFINE s == doc[DocOf[j]]
<1>1. (CASE job[j].status = "ABSENT" -> s = "ABSENT"
         [] job[j].status \in ActiveJob -> s \in {"PROCESSING", "READY", "DELETED"}
         [] job[j].status = "SUCCEEDED" -> s \in {"READY", "DELETED"}
         [] OTHER -> s \in {"FAILED", "DELETED"})
  BY DEF RowsAgree, StatusesAgree
<1> QED BY <1>1 DEF ActiveJob

\* The same for the reindex of a document: it touches no document.
LEMMA SparedDocument ==
  ASSUME NEW j \in Jobs, Operation[j] # "UPLOAD"
  PROVE  ~TouchesDoc(j)
  BY IndexingAssumptions DEF TouchesDoc

\* Cancelling or failing an active job.
LEMMA EndingWrites ==
  ASSUME RowsAgree, TypeOK, NEW j \in Jobs, job[j].status \in ActiveJob,
         NEW s \in {"CANCELLED", "FAILED"}
  PROVE  /\ EndsJob(Change(j, s, FALSE, "FAILED"), j)
         /\ Change(j, s, FALSE, "FAILED").status = s /\ Change(j, s, FALSE, "FAILED") # NoWrite
<1>1. CASE Operation[j] = "UPLOAD"
  <2>1. doc[DocOf[j]] # "FAILED"
    BY <1>1, DocumentDiffers
  <2> QED BY <2>1 DEF EndsJob, Follows, Change, NoWrite
<1>2. CASE Operation[j] # "UPLOAD"
  <2>1. ~TouchesDoc(j)
    BY <1>2, SparedDocument
  <2> QED BY <2>1 DEF EndsJob, Follows, Change, NoWrite
<1> QED BY <1>1, <1>2

\* Retrying a failed or cancelled job.
LEMMA RetryingWrites ==
  ASSUME RowsAgree, TypeOK, NEW j \in Jobs, NEW reset \in BOOLEAN, CanRetry(j, reset)
  PROVE  RetriesJob(Retry(j, reset), j) /\ Retry(j, reset) # NoWrite
<1>1. /\ job[j].status \in {"FAILED", "CANCELLED"} /\ job[j].attempts \in Nat
      /\ reset \/ job[j].attempts < MaxAttempts
  BY DEF CanRetry, TypeOK, JobRow
<1>2. (reset /\ job[j].attempts # 0) \/ job[j].attempts < MaxAttempts
  BY <1>1, IndexingAssumptions
<1>3. CASE Operation[j] = "UPLOAD"
  <2>1. doc[DocOf[j]] # "PROCESSING"
    BY <1>1, <1>3, DocumentDiffers
  <2> QED BY <1>1, <1>2, <2>1, ChangeFields DEF RetriesJob, Retry
<1>4. CASE Operation[j] # "UPLOAD"
  <2>1. ~TouchesDoc(j)
    BY <1>4, SparedDocument
  <2> QED BY <1>1, <1>2, <2>1 DEF RetriesJob, Follows, Retry, Change, NoWrite
<1> QED BY <1>3, <1>4

-----------------------------------------------------------------------------
(* The steps of a run.                                                     *)

\* The thread a worker becomes by Open.
LEMMA OpensOrGoesOn ==
  ASSUME OutcomeInv, CalmOwner, NEW w \in Workers, Undisturbed(w), thread[w].holds = NoJob,
         thread[w].pc \in {"claimed", "indexed", "failing", "failed"},
         NEW wr \in Write, NEW sends \in SUBSET (Jobs \X (0 .. MaxTaskRetries)),
         NEW next \in {"idle", "failed"}, Open(w, wr, sends, next),
         UNCHANGED <<doc, job, stale>>,
         wr # NoWrite =>
           \/ EndsJob(wr, thread[w].job) /\ next = IF wr.status = "FAILED" THEN "failed" ELSE "idle"
           \/ SucceedsJob(wr, thread[w].job) /\ next = "idle"
           \/ RetriesJob(wr, thread[w].job) /\ next = "idle"
  PROVE  RowsAgree' /\ ThreadsAgree'
<1>0. /\ w \in Threads /\ thread[w] \in Thread /\ thread[w].job \in Jobs /\ NoJob \notin Jobs
      /\ RunOK(w) /\ thread \in [Threads -> Thread]
  <2>1. w \in Threads
    BY DEF Threads
  <2>2. Shape(w, thread[w])
    BY <2>1, ThreadTypes
  <2> QED BY <2>1, <2>2, ThreadTypes DEF Shape, Runs, OutcomeInv, ThreadsAgree, RagInv, TypeOK
<1>1. CASE wr = NoWrite
  <2> DEFINE th == IF next = "idle" THEN IdleThread ELSE [thread[w] EXCEPT !.pc = next]
  <2>1. thread' = [thread EXCEPT ![w] = th]
    BY <1>0, <1>1 DEF Open
  <2>2. /\ th \in Thread /\ th.job \in {NoJob, thread[w].job} /\ th.holds = NoJob
        /\ th.pc = next
        /\ th.pc = "idle" => th.job = NoJob
    BY <1>0, ConstantTypes DEF Thread, IdleThread
  <2>3. th.job # NoJob => th.pc = "failed"
    BY <2>2
  <2> HIDE DEF th
  <2> QED BY <1>0, <2>1, <2>2, <2>3, QuietStep
<1>2. CASE wr # NoWrite
  <2> DEFINE th == [thread[w] EXCEPT !.pc = "tx", !.write = wr, !.sends = sends, !.next = next]
  <2>1. thread' = [thread EXCEPT ![w] = th]
    BY <1>0, <1>2 DEF Open
  <2>2. /\ th \in Thread /\ th.job = thread[w].job /\ th.holds = NoJob /\ th.pc = "tx"
        /\ th.write = wr /\ th.next = next
    BY <1>0 DEF Thread
  <2> HIDE DEF th
  <2>3. thread'[w] = th
    BY <1>0, <2>1
  <2>4. wr.jobs = {thread[w].job}
    BY <1>2 DEF EndsJob, SucceedsJob, RetriesJob
  <2>5. WorkerTx(w)'
    BY <1>0, <1>2, <2>2, <2>3 DEF WorkerTx, EndsJob, SucceedsJob, RetriesJob, Follows, TouchesDoc
  <2>6. \A u \in Workers \ {w} : thread[u].pc # "tx"
    BY WorkerMeets
  <2>7. \A c \in Clients : thread[c].pc = "tx" =>
          /\ thread[c].write.status = "CANCELLED"
          /\ \A j \in thread[c].write.jobs : job[j].status = "RUNNING" /\ j \notin th.write.jobs
    <3>1. ASSUME NEW c \in Clients, thread[c].pc = "tx", NEW j \in thread[c].write.jobs
          PROVE  j # thread[w].job
      <4>1. PICK u \in Workers : thread[u].holds = j /\ thread[u].job = j
        BY <3>1, WorkerMeets
      <4>2. j \in Jobs
        BY <3>1, ThreadTypes DEF Threads
      <4>3. u # w
        BY <1>0, <4>1, <4>2
      <4> QED BY <1>0, <4>1, <4>3 DEF OutcomeInv, ThreadsAgree, SoleIndexer
    <3> QED BY <2>2, <2>4, <3>1, WorkerMeets
  <2>8. w \notin Clients
    BY IndexingAssumptions
  <2> QED BY <1>0, <2>1, <2>2, <2>5, <2>6, <2>7, <2>8, OpenStep
<1> QED BY <1>1, <1>2

\* A thread that ends its request or task.
LEMMA EndingStep ==
  ASSUME OutcomeInv, NEW t \in Threads, thread' = [thread EXCEPT ![t] = IdleThread],
         job' = job, doc' = doc, \A j \in stale' : j \in stale \/ Unclaimed(j)
  PROVE  RowsAgree' /\ ThreadsAgree'
<1>1. /\ IdleThread \in Thread /\ IdleThread.pc = "idle" /\ IdleThread.job = NoJob
      /\ IdleThread.holds = NoJob
  BY ConstantTypes DEF IdleThread
<1> QED BY <1>1, QuietStep

\* What is known of a worker that runs a job.
LEMMA RunFacts ==
  ASSUME OutcomeInv, NEW w \in Workers, thread[w].pc \in Runs
  PROVE  /\ w \in Threads /\ thread[w] \in Thread /\ thread[w].job \in Jobs
         /\ thread[w].job # NoJob /\ RunOK(w)
         /\ thread[w].pc \in Locking => thread[w].holds = thread[w].job
         /\ thread[w].pc \notin Locking => thread[w].holds = NoJob
         /\ thread[w].pc # "failed" => job[thread[w].job].status \in {"RUNNING", "CANCELLED"}
         /\ thread \in [Threads -> Thread]
<1>1. w \in Threads
  BY DEF Threads
<1>2. thread[w].job \in Jobs /\ NoJob \notin Jobs /\ thread[w] \in Thread /\ Shape(w, thread[w])
  BY <1>1, ThreadTypes DEF Shape
<1>3. RunOK(w) /\ thread \in [Threads -> Thread]
  BY DEF OutcomeInv, ThreadsAgree, RagInv, TypeOK
<1>4. thread[w].pc # "tx"
  BY DEF Runs
<1>5. thread[w].pc # "failed" => job[thread[w].job].status \in {"RUNNING", "CANCELLED"}
  BY <1>2, <1>3, <1>4 DEF RunOK
<1> QED BY <1>1, <1>2, <1>3, <1>4, <1>5 DEF Shape

\* A worker that throws.
LEMMA ThrowingStep ==
  ASSUME OutcomeInv, NEW w \in Workers, thread[w].pc \in Runs \ {"failed"},
         NEW err \in {"PERMANENT", "TRANSIENT"}, Throws(w, err), UNCHANGED <<doc, job, stale>>
  PROVE  RowsAgree' /\ ThreadsAgree'
<1> DEFINE th == [thread[w] EXCEPT !.pc = "failing", !.err = err, !.holds = NoJob]
<1>1. thread' = [thread EXCEPT ![w] = th]
  BY DEF Throws
<1>2. thread[w] \in Thread /\ job[thread[w].job].status # "FAILED" /\ w \in Threads
  BY RunFacts
<1>3. th \in Thread /\ th.pc = "failing" /\ th.job = thread[w].job /\ th.holds = NoJob
  BY <1>2 DEF Thread
<1> HIDE DEF th
<1> QED BY <1>1, <1>2, <1>3, QuietStep

\* A worker that goes on with its job at another place.
LEMMA GoingOn ==
  ASSUME OutcomeInv, NEW w \in Workers, thread[w].pc \in Runs \ {"failed"},
         NEW th \in Thread, thread' = [thread EXCEPT ![w] = th], UNCHANGED <<doc, job>>,
         stale' \subseteq stale, th.pc \notin {"tx", "indexed", "idle", "deleting"},
         th.job = thread[w].job, th.holds \in {NoJob, th.job}
  PROVE  RowsAgree' /\ ThreadsAgree'
<1>1. job[th.job].status # "FAILED" /\ w \in Threads
  BY RunFacts
<1> QED BY <1>1, QuietStep

-----------------------------------------------------------------------------
\* The steps of a run that write a job.
LEMMA WritingSteps ==
  ASSUME OutcomeInv, CalmOwner, NEW w \in Workers,
         Start(w) \/ Finish(w) \/ RecordFailure(w) \/ RetryTask(w)
  PROVE  RowsAgree' /\ ThreadsAgree'
<1> DEFINE j == thread[w].job
<1>0. RowsAgree /\ TypeOK /\ {} \in SUBSET (Jobs \X (0 .. MaxTaskRetries))
  BY DEF OutcomeInv, RagInv
<1>1. ASSUME Start(w) PROVE RowsAgree' /\ ThreadsAgree'
  <2>1. /\ thread[w].pc = "claimed" /\ Undisturbed(w) /\ UNCHANGED <<doc, job, stale>>
        /\ thread[w].pc \in Runs \ {"failed"} /\ thread[w].pc \notin Locking
    BY <1>1 DEF Start, Runs, Locking
  <2>2. j \in Jobs /\ thread[w].holds = NoJob /\ job[j].status \in {"RUNNING", "CANCELLED"}
    BY <2>1, RunFacts
  <2>3. CASE doc[DocOf[j]] = "DELETED" \/ job[j].status = "CANCELLED"
    <3>1. Open(w, Cancel(j), {}, "idle")
      BY <1>1, <2>3 DEF Start
    <3>2. Cancel(j) \in Write
      BY <1>0, <2>2, WriteTypes
    <3>3. Cancel(j) # NoWrite => EndsJob(Cancel(j), j) /\ Cancel(j).status = "CANCELLED"
      BY <1>0, <2>2, EndingWrites DEF Cancel, ActiveJob, FinalJob
    <3> QED BY <1>0, <2>1, <2>2, <3>1, <3>2, <3>3, OpensOrGoesOn
  <2>4. CASE ~(doc[DocOf[j]] = "DELETED" \/ job[j].status = "CANCELLED")
    <3> DEFINE th == [thread[w] EXCEPT !.pc = "working"]
    <3>1. thread' = [thread EXCEPT ![w] = th]
      BY <1>1, <2>4 DEF Start
    <3>2. th \in Thread /\ th.pc = "working" /\ th.job = thread[w].job /\ th.holds = NoJob
      BY <2>1, <2>2, RunFacts DEF Thread
    <3> HIDE DEF th
    <3> QED BY <2>1, <3>1, <3>2, GoingOn
  <2> QED BY <2>3, <2>4
<1>2. ASSUME Finish(w) PROVE RowsAgree' /\ ThreadsAgree'
  <2>1. /\ thread[w].pc = "indexed" /\ Undisturbed(w) /\ UNCHANGED <<doc, job, stale>>
        /\ Open(w, Succeed(j), {}, "idle")
        /\ thread[w].pc \in Runs \ {"failed"} /\ thread[w].pc \notin Locking
    BY <1>2 DEF Finish, Runs, Locking
  <2>2. /\ j \in Jobs /\ thread[w].holds = NoJob /\ job[j].status \in {"RUNNING", "CANCELLED"}
        /\ j # NoJob /\ RunOK(w)
    BY <2>1, RunFacts
  <2>3. Succeed(j) \in Write
    BY <1>0, <2>2, WriteTypes
  <2>4. job[j].status = "RUNNING" /\ Operation[j] = "UPLOAD" => doc[DocOf[j]] \in {"READY", "DELETED"}
    BY <2>1, <2>2 DEF RunOK
  <2>5. Succeed(j) # NoWrite => SucceedsJob(Succeed(j), j)
    BY <2>2, <2>4 DEF Succeed, SucceedsJob, NoWrite
  <2> QED BY <1>0, <2>1, <2>2, <2>3, <2>5, OpensOrGoesOn
<1>3. ASSUME RecordFailure(w) PROVE RowsAgree' /\ ThreadsAgree'
  <2>1. /\ thread[w].pc = "failing" /\ Undisturbed(w) /\ UNCHANGED <<doc, job, stale>>
        /\ Open(w, Fail(j), {}, "failed")
        /\ thread[w].pc \in Runs \ {"failed"} /\ thread[w].pc \notin Locking
    BY <1>3 DEF RecordFailure, Runs, Locking
  <2>2. j \in Jobs /\ thread[w].holds = NoJob /\ job[j].status \in {"RUNNING", "CANCELLED"}
    BY <2>1, RunFacts
  <2>3. Fail(j) \in Write
    BY <1>0, <2>2, WriteTypes
  <2>4. Fail(j) # NoWrite => EndsJob(Fail(j), j) /\ Fail(j).status = "FAILED"
    BY <1>0, <2>2, EndingWrites DEF Fail, ActiveJob
  <2> QED BY <1>0, <2>1, <2>2, <2>3, <2>4, OpensOrGoesOn
<1>4. ASSUME RetryTask(w) PROVE RowsAgree' /\ ThreadsAgree'
  <2>1. /\ thread[w].pc = "failed" /\ Undisturbed(w) /\ UNCHANGED <<doc, job, stale>>
        /\ thread[w].pc \in Runs /\ thread[w].pc \notin Locking
    BY <1>4 DEF RetryTask, Runs, Locking
  <2>2. /\ j \in Jobs /\ thread[w].holds = NoJob /\ w \in Threads
        /\ thread[w].retries \in 0 .. MaxTaskRetries
    BY <2>1, RunFacts DEF Thread
  <2>3. CASE MayRetryTask(w) /\ CanRetry(j, FALSE)
    <3>1. Open(w, Retry(j, FALSE), {<<j, thread[w].retries + 1>>}, "idle")
      BY <1>4, <2>3 DEF RetryTask
    <3>2. Retry(j, FALSE) \in Write
      BY <1>0, <2>2, WriteTypes
    <3>3. thread[w].retries + 1 \in 0 .. MaxTaskRetries
      BY <2>2, <2>3, IndexingAssumptions DEF MayRetryTask
    <3>4. {<<j, thread[w].retries + 1>>} \in SUBSET (Jobs \X (0 .. MaxTaskRetries))
      BY <2>2, <3>3
    <3>5. RetriesJob(Retry(j, FALSE), j)
      BY <1>0, <2>2, <2>3, RetryingWrites
    <3> QED BY <2>1, <2>2, <3>1, <3>2, <3>4, <3>5, OpensOrGoesOn
  <2>4. CASE ~(MayRetryTask(w) /\ CanRetry(j, FALSE))
    <3>1. thread' = [thread EXCEPT ![w] = IdleThread]
      BY <1>4, <2>4 DEF RetryTask
    <3> QED BY <2>1, <2>2, <3>1, EndingStep
  <2> QED BY <2>3, <2>4
<1> QED BY <1>1, <1>2, <1>3, <1>4

\* The steps of a run that write no job.
LEMMA RunningSteps ==
  ASSUME OutcomeInv, CalmOwner, NEW w \in Workers,
         \/ Step(w) \/ SeesCancel(w) \/ ParseFails(w) \/ LockJob(w)
         \/ SwapIndex(w) \/ Publish(w) \/ Restore(w)
  PROVE  RowsAgree' /\ ThreadsAgree'
<1> DEFINE j == thread[w].job
<1>0. index \subseteq Docs
  BY DEF OutcomeInv, RagInv, TypeOK
<1>1. ASSUME Step(w) PROVE RowsAgree' /\ ThreadsAgree'
  <2>1. thread[w].pc \in Runs \ {"failed"} /\ thread[w].pc = "working" /\ thread[w].pc \notin Locking
    BY <1>1 DEF Step, Runs, Locking
  <2>2. UNCHANGED <<doc, job>>
    BY <1>1 DEF Step
  <2>3. CASE job[j].status = "RUNNING"
    <3>1. stale' \subseteq stale /\ thread' = thread
      BY <1>1, <2>3 DEF Step
    <3>2. /\ thread[w] \in Thread /\ thread[w].holds = NoJob
          /\ thread' = [thread EXCEPT ![w] = thread[w]]
      BY <2>1, <3>1, RunFacts
    <3> QED BY <2>1, <2>2, <3>1, <3>2, GoingOn
  <2>4. CASE job[j].status # "RUNNING"
    BY <1>1, <2>1, <2>2, <2>4, ThrowingStep DEF Step
  <2> QED BY <2>3, <2>4
<1>2. ASSUME SeesCancel(w) PROVE RowsAgree' /\ ThreadsAgree'
  BY <1>2, EndingStep DEF SeesCancel, Threads
<1>3. ASSUME ParseFails(w) PROVE RowsAgree' /\ ThreadsAgree'
  <2>1. thread[w].pc \in Runs \ {"failed"}
    BY <1>3 DEF ParseFails, Runs
  <2> QED BY <1>3, <2>1, ThrowingStep DEF ParseFails
<1>4. ASSUME LockJob(w) PROVE RowsAgree' /\ ThreadsAgree'
  <2>1. thread[w].pc \in Runs \ {"failed"} /\ UNCHANGED <<doc, job, stale>>
    BY <1>4 DEF LockJob, Runs
  <2>2. CASE MayCommit(j)
    <3> DEFINE th == [thread[w] EXCEPT !.pc = "indexing", !.holds = j, !.snap = index,
                                       !.had = DocOf[j] \in index]
    <3>1. thread' = [thread EXCEPT ![w] = th]
      BY <1>4, <2>2 DEF LockJob
    <3>2. thread[w] \in Thread /\ j \in Jobs /\ (DocOf[j] \in index) \in BOOLEAN
      BY <2>1, RunFacts
    <3>3. th \in Thread /\ th.pc = "indexing" /\ th.job = j /\ th.holds = j
      BY <1>0, <3>2 DEF Thread
    <3> HIDE DEF th
    <3> QED BY <2>1, <3>1, <3>3, GoingOn
  <2>3. CASE ~MayCommit(j)
    BY <1>4, <2>1, <2>3, ThrowingStep DEF LockJob
  <2> QED BY <2>2, <2>3
<1>5. ASSUME SwapIndex(w) PROVE RowsAgree' /\ ThreadsAgree'
  <2>1. /\ thread[w].pc \in Runs \ {"failed"} /\ thread[w].pc \in Locking
        /\ UNCHANGED <<doc, job, stale>>
    BY <1>5 DEF SwapIndex, Runs, Locking
  <2>2. CASE Throws(w, "TRANSIENT")
    BY <2>1, <2>2, ThrowingStep
  <2>3. CASE thread' = [thread EXCEPT ![w].pc = "publishing"]
    <3> DEFINE th == [thread[w] EXCEPT !.pc = "publishing"]
    <3>1. thread' = [thread EXCEPT ![w] = th]
      BY <2>3
    <3>2. th \in Thread /\ th.pc = "publishing" /\ th.job = j /\ th.holds = j
      BY <2>1, RunFacts DEF Thread
    <3> HIDE DEF th
    <3> QED BY <2>1, <3>1, <3>2, GoingOn
  <2> QED BY <1>5, <2>2, <2>3 DEF SwapIndex
<1>6. ASSUME Publish(w) PROVE RowsAgree' /\ ThreadsAgree'
  <2> DEFINE d == DocOf[j]
  <2>1. /\ thread[w].pc \in Runs \ {"failed"} /\ thread[w].pc \in Locking
        /\ Undisturbed(w) /\ UNCHANGED <<doc, job, stale>>
    BY <1>6 DEF Publish, Runs, Locking
  <2>2. /\ thread[w] \in Thread /\ j \in Jobs /\ thread[w].holds = j /\ w \in Threads /\ d \in Docs
        /\ thread \in [Threads -> Thread]
    BY <2>1, RunFacts, IndexingAssumptions
  <2>3. CASE doc[d] = "DELETED"
    <3> DEFINE th == [thread[w] EXCEPT !.pc = "restoring", !.err = "PERMANENT",
                                       !.holds = NoJob, !.snap = index]
    <3>1. thread' = [thread EXCEPT ![w] = th]
      BY <1>6, <2>3 DEF Publish
    <3>2. th \in Thread /\ th.pc = "restoring" /\ th.job = j /\ th.holds = NoJob
      BY <1>0, <2>2 DEF Thread
    <3> HIDE DEF th
    <3> QED BY <2>1, <3>1, <3>2, GoingOn
  <2>4. CASE doc[d] # "DELETED"
    <3> DEFINE wr == [NoWrite EXCEPT !.doc = d, !.to = IF doc[d] = "READY" THEN "KEEP" ELSE "READY"]
               th == [thread[w] EXCEPT !.pc = "tx", !.next = "indexed", !.write = wr]
    <3>1. thread' = [thread EXCEPT ![w] = th]
      BY <1>6, <2>4 DEF Publish
    <3>2. /\ wr \in Write /\ wr.jobs = {} /\ wr.doc = d
          /\ wr.to = "READY" \/ (wr.to = "KEEP" /\ doc[d] = "READY")
      BY <2>2, ConstantTypes DEF NoWrite, Write, DocStatuses
    <3> HIDE DEF wr
    <3>3. /\ th \in Thread /\ th.pc = "tx" /\ th.job = j /\ th.holds = j /\ th.write = wr
          /\ th.next = "indexed"
      BY <2>2, <3>2 DEF Thread
    <3> HIDE DEF th
    <3>4. thread'[w] = th
      BY <2>2, <3>1
    <3>5. WorkerTx(w)'
      BY <2>1, <2>2, <2>4, <3>2, <3>3, <3>4 DEF WorkerTx, PublishesDoc
    <3>6. w \notin Clients
      BY IndexingAssumptions
    <3>7. \A u \in Workers \ {w} : thread[u].pc # "tx"
      BY <2>1, WorkerMeets
    <3>8. \A c \in Clients : thread[c].pc = "tx" =>
            /\ thread[c].write.status = "CANCELLED"
            /\ \A i \in thread[c].write.jobs : job[i].status = "RUNNING" /\ i \notin th.write.jobs
      BY <2>1, <3>2, <3>3, WorkerMeets
    <3> QED BY <2>1, <2>2, <3>1, <3>3, <3>5, <3>6, <3>7, <3>8, OpenStep
  <2> QED BY <2>3, <2>4
<1>7. ASSUME Restore(w) PROVE RowsAgree' /\ ThreadsAgree'
  <2>1. /\ thread[w].pc \in Runs \ {"failed"} /\ thread[w].pc \notin Locking
        /\ UNCHANGED <<doc, job, stale>>
    BY <1>7 DEF Restore, Runs, Locking
  <2>2. CASE Throws(w, "TRANSIENT")
    BY <2>1, <2>2, ThrowingStep
  <2>3. CASE thread' = [thread EXCEPT ![w].pc = "failing"]
    <3> DEFINE th == [thread[w] EXCEPT !.pc = "failing"]
    <3>1. thread' = [thread EXCEPT ![w] = th]
      BY <2>3
    <3>2. th \in Thread /\ th.pc = "failing" /\ th.job = j /\ th.holds = NoJob
      BY <2>1, RunFacts DEF Thread
    <3> HIDE DEF th
    <3> QED BY <2>1, <3>1, <3>2, GoingOn
  <2> QED BY <1>7, <2>2, <2>3 DEF Restore
<1> QED BY <1>1, <1>2, <1>3, <1>4, <1>5, <1>6, <1>7

-----------------------------------------------------------------------------
(* Beat tasks, time, crashes and aborted transactions.                     *)

\* What is known of a worker without a task.
LEMMA IdleFacts ==
  ASSUME OutcomeInv, NEW t \in Threads, thread[t].pc = "idle"
  PROVE  /\ thread[t] \in Thread /\ thread[t].holds = NoJob /\ thread[t].job = NoJob
         /\ thread \in [Threads -> Thread]
<1>1. Shape(t, thread[t]) /\ thread[t] \in Thread /\ thread \in [Threads -> Thread]
  BY ThreadTypes DEF OutcomeInv, RagInv, TypeOK
<1>2. thread[t].job = NoJob
  BY DEF OutcomeInv, ThreadsAgree, RunOK, RequestOK, Threads
<1> QED BY <1>1, <1>2 DEF Shape, Locking

\* rag.recover_stale_jobs finds only jobs that no worker runs.
LEMMA RecoverStep ==
  ASSUME OutcomeInv, CalmOwner, NEW w \in Workers, Recover(w)
  PROVE  RowsAgree' /\ ThreadsAgree'
<1> DEFINE wr == [NoWrite EXCEPT !.jobs = Recoverable, !.status = "PENDING"]
           th == [thread[w] EXCEPT !.pc = "tx", !.write = wr, !.sends = Recoverable \X {0},
                                   !.next = "idle"]
<1>1. /\ w \in Threads /\ thread[w].pc = "idle" /\ Undisturbed(w) /\ UNCHANGED <<doc, job, stale>>
      /\ w \notin Clients /\ stale \subseteq Jobs
  BY IndexingAssumptions DEF Recover, Threads, OutcomeInv, RagInv, TypeOK
<1>2. /\ thread[w] \in Thread /\ thread[w].holds = NoJob /\ thread[w].job = NoJob
      /\ thread \in [Threads -> Thread]
  BY <1>1, IdleFacts
<1>3. /\ wr \in Write /\ wr.jobs = Recoverable /\ wr.status = "PENDING" /\ wr.doc = NoDoc
      /\ Recoverable \subseteq Jobs
  BY <1>1, ConstantTypes DEF NoWrite, Write, JobStatuses, ActiveJob, Recoverable
<1>4. wr # NoWrite
  BY <1>3 DEF NoWrite, Recover
<1>5. thread' = [thread EXCEPT ![w] = th]
  BY <1>4 DEF Recover, Open
<1>6. Recoverable \X {0} \in SUBSET (Jobs \X (0 .. MaxTaskRetries))
  BY <1>3, IndexingAssumptions
<1> HIDE DEF wr
<1>7. /\ th \in Thread /\ th.pc = "tx" /\ th.job = NoJob /\ th.holds = NoJob /\ th.write = wr
      /\ th.next = "idle"
  <2>. PICK sends : sends = Recoverable \X {0}
    OBVIOUS
  <2>1. /\ thread[w] \in Thread /\ thread[w].job = NoJob /\ thread[w].holds = NoJob
        /\ wr \in Write /\ sends \in SUBSET (Jobs \X (0 .. MaxTaskRetries))
        /\ th = [thread[w] EXCEPT !.pc = "tx", !.write = wr, !.sends = sends, !.next = "idle"]
    BY <1>2, <1>3, <1>6
  <2>. HIDE DEF th
  <2>. QED BY ONLY <2>1 DEF Thread
<1> HIDE DEF th
<1>8. /\ thread'[w] = th
      /\ \A u \in Workers : thread'[u].job = thread[u].job
  BY <1>1, <1>2, <1>5, <1>7 DEF Threads
<1>9. ASSUME NEW i \in Recoverable
      PROVE  job[i].status = "RUNNING" /\ job[i].attempts < MaxAttempts /\ Unclaimed(i)
  <2>1. i \in stale /\ i \in Jobs /\ i # NoJob
    BY <1>3, IndexingAssumptions DEF Recoverable
  <2>2. \A u \in Workers : thread[u].job # i
    BY <2>1 DEF OutcomeInv, ThreadsAgree, RunOK
  <2> QED BY <2>2 DEF Recoverable, Unclaimed
<1>10. WorkerTx(w)'
  BY <1>1, <1>3, <1>7, <1>8, <1>9 DEF WorkerTx, RecoversJobs, Unclaimed
<1>11. \A u \in Workers \ {w} : thread[u].pc # "tx"
  BY <1>1, WorkerMeets
<1>12. \A c \in Clients : thread[c].pc = "tx" =>
         /\ thread[c].write.status = "CANCELLED"
         /\ \A i \in thread[c].write.jobs : job[i].status = "RUNNING" /\ i \notin th.write.jobs
  <2>1. ASSUME NEW i \in Jobs, \E u \in Workers : thread[u].job = i PROVE i \notin Recoverable
    BY <1>9, <2>1 DEF Unclaimed
  <2>2. \A c \in Clients : thread[c].write.jobs \subseteq Jobs
    BY ThreadTypes DEF Threads
  <2> QED BY <1>1, <1>3, <1>7, <2>1, <2>2, WorkerMeets
<1> QED BY <1>1, <1>2, <1>5, <1>7, <1>10, <1>11, <1>12, OpenStep

\* The other steps of beat and time, and those that end a thread's work.
LEMMA QuietEnvironment ==
  ASSUME OutcomeInv, CalmOwner,
         \/ \E w \in Workers : Reconcile(w) \/ Crash(w)
         \/ \E t \in Threads : Reject(t)
         \/ \E t, u \in Threads : Deadlock(t, u)
         \/ \E j \in Jobs : HeartbeatAges(j)
  PROVE  RowsAgree' /\ ThreadsAgree'
<1>0. thread \in [Threads -> Thread] /\ index \subseteq Docs
  BY DEF OutcomeInv, RagInv, TypeOK
<1>1. ASSUME NEW w \in Workers, Crash(w) PROVE RowsAgree' /\ ThreadsAgree'
  BY <1>1, EndingStep DEF Crash, Threads
<1>2. ASSUME NEW t \in Threads, Reject(t) PROVE RowsAgree' /\ ThreadsAgree'
  BY <1>2, EndingStep DEF Reject
<1>3. ASSUME NEW w \in Workers, Reconcile(w) PROVE RowsAgree' /\ ThreadsAgree'
  <2>1. w \in Threads /\ thread[w].pc = "idle" /\ UNCHANGED <<doc, job, stale, thread>>
    BY <1>3 DEF Reconcile, Threads
  <2>2. thread[w] \in Thread /\ thread[w].holds = NoJob /\ thread[w].job = NoJob
    BY <2>1, IdleFacts
  <2>3. thread' = [thread EXCEPT ![w] = thread[w]]
    BY <1>0, <2>1
  <2> QED BY <2>1, <2>2, <2>3, QuietStep
<1>4. ASSUME NEW t \in Threads, NEW u \in Threads, Deadlock(t, u) PROVE RowsAgree' /\ ThreadsAgree'
  <2>1. UNCHANGED <<doc, job, stale>> /\ thread[u].pc = "tx"
    BY <1>4 DEF Deadlock
  <2>2. CASE thread' = [thread EXCEPT ![t] = IdleThread]
    BY <2>1, <2>2, EndingStep
  <2>3. CASE thread' = [thread EXCEPT ![u] =
               [@ EXCEPT !.pc = "restoring", !.err = "TRANSIENT", !.holds = NoJob,
                         !.write = NoWrite, !.snap = index]]
    <3> DEFINE th == [thread[u] EXCEPT !.pc = "restoring", !.err = "TRANSIENT", !.holds = NoJob,
                                       !.write = NoWrite, !.snap = index]
    <3>1. thread' = [thread EXCEPT ![u] = th]
      BY <2>3
    <3>2. th \in Thread /\ th.pc = "restoring" /\ th.job = thread[u].job /\ th.holds = NoJob
      <4>1. thread[u] \in Thread /\ NoWrite \in Write /\ index \in SUBSET Docs
        BY <1>0, ConstantTypes
      <4>2. th \in Thread
        BY ONLY <4>1 DEF Thread
      <4>. QED BY ONLY <4>1, <4>2 DEF Thread
    <3> HIDE DEF th
    <3>3. thread[u].holds # NoJob
      <4>1. thread[t].write.jobs \subseteq Jobs /\ NoJob \notin Jobs
        BY ThreadTypes
      <4> QED BY <1>4, <4>1 DEF Deadlock
    <3>4. job[th.job].status # "FAILED"
      BY <3>2, <3>3, Holders
    <3> QED BY <2>1, <3>1, <3>2, <3>4, QuietStep
  <2> QED BY <1>4, <2>2, <2>3 DEF Deadlock
<1>5. ASSUME NEW j \in Jobs, HeartbeatAges(j) PROVE RowsAgree' /\ ThreadsAgree'
  <2>1. Unclaimed(j) /\ stale' = stale \union {j} /\ UNCHANGED <<doc, job, thread>>
    BY <1>5 DEF HeartbeatAges, CalmOwner, Unclaimed
  <2>2. RowsAgree'
    BY <2>1, RowsStay DEF OutcomeInv
  <2>3. ASSUME NEW w \in Workers PROVE RunOK(w)'
    BY <2>1 DEF OutcomeInv, ThreadsAgree, RunOK, Unclaimed
  <2>4. ASSUME NEW t \in Threads
        PROVE (WorkerTx(t) => WorkerTx(t)') /\ (RequestTx(t) => RequestTx(t)')
    BY <2>1, TxStays, ThreadTypes
  <2>5. \A w \in Workers : WorkerTx(w)'
    BY <2>4 DEF OutcomeInv, ThreadsAgree, Threads
  <2>6. \A c \in Clients : RequestTx(c)'
    BY <2>4 DEF OutcomeInv, ThreadsAgree, Threads
  <2>7. SoleIndexer' /\ OpenTogether' /\ \A c \in Clients : RequestOK(c)'
    BY <2>1 DEF OutcomeInv, ThreadsAgree, SoleIndexer, OpenTogether, RequestOK
  <2> QED BY <2>2, <2>3, <2>5, <2>6, <2>7 DEF ThreadsAgree
<1> QED BY <1>1, <1>2, <1>3, <1>4, <1>5

-----------------------------------------------------------------------------
(* A message is delivered.                                                 *)

\* Claiming a PENDING job: no worker has it, and it has an attempt left.
LEMMA DeliverStep ==
  ASSUME OutcomeInv, CalmOwner, NEW w \in Workers, NEW m \in broker, Deliver(w, m)
  PROVE  RowsAgree' /\ ThreadsAgree'
<1> DEFINE j == m[1]
<1>0. /\ w \in Threads /\ thread[w].pc = "idle" /\ Undisturbed(w) /\ doc' = doc
      /\ m[1] \in Jobs /\ m[2] \in 0 .. MaxTaskRetries /\ NoJob \notin Jobs
      /\ job \in [Jobs -> JobRow] /\ thread \in [Threads -> Thread] /\ w \notin Clients
  BY IndexingAssumptions DEF Deliver, Threads, OutcomeInv, RagInv, TypeOK
<1>1. CASE ~Claimable(j)
  <2>1. UNCHANGED <<job, stale, thread>>
    BY <1>1 DEF Deliver
  <2>2. thread[w] \in Thread /\ thread[w].holds = NoJob /\ thread[w].job = NoJob
    BY <1>0, IdleFacts
  <2>3. thread' = [thread EXCEPT ![w] = thread[w]]
    BY <1>0, <2>1
  <2> QED BY <1>0, <2>1, <2>2, <2>3, QuietStep
<1>2. CASE Claimable(j)
  <2> DEFINE th == [IdleThread EXCEPT !.pc = "claimed", !.job = j, !.retries = m[2]]
             row == [status |-> "RUNNING", attempts |-> job[j].attempts + 1]
  <2>1. /\ job' = [job EXCEPT ![j] = row] /\ stale' = stale \ {j}
        /\ thread' = [thread EXCEPT ![w] = th] /\ job[j].status = "PENDING"
    BY <1>2 DEF Deliver, Claimable
  <2>2. th.pc = "claimed" /\ th.job = j /\ th.holds = NoJob
    BY DEF IdleThread
  <2>3. row.status = "RUNNING" /\ row.attempts = job[j].attempts + 1
    OBVIOUS
  <2>4. job[j].attempts \in Nat /\ job[j].attempts < MaxAttempts
    BY <1>0, <2>1 DEF OutcomeInv, RowsAgree, JobRow
  <2>5. row.attempts <= MaxAttempts
    BY <2>3, <2>4, IndexingAssumptions
  <2> HIDE DEF th, row
  <2>6. /\ \A i \in Jobs : job'[i] = IF i = j THEN row ELSE job[i]
        /\ \A u \in Threads : thread'[u] = IF u = w THEN th ELSE thread[u]
    BY <1>0, <2>1
  <2>7. Unclaimed(j)
    BY <1>0, <2>1 DEF OutcomeInv, ThreadsAgree, RunOK, Unclaimed
  <2>8. SoleIndexer'
    BY <2>2, <2>6, <2>7 DEF OutcomeInv, ThreadsAgree, SoleIndexer, Unclaimed, Threads
  <2>9. RowsAgree'
    <3>1. ASSUME NEW i \in Jobs
          PROVE  (CASE job'[i].status = "ABSENT" -> doc[DocOf[i]] = "ABSENT"
                    [] job'[i].status \in ActiveJob -> doc[DocOf[i]] \in {"PROCESSING", "READY", "DELETED"}
                    [] job'[i].status = "SUCCEEDED" -> doc[DocOf[i]] \in {"READY", "DELETED"}
                    [] OTHER -> doc[DocOf[i]] \in {"FAILED", "DELETED"})
                 <=>
                 (CASE job[i].status = "ABSENT" -> doc[DocOf[i]] = "ABSENT"
                    [] job[i].status \in ActiveJob -> doc[DocOf[i]] \in {"PROCESSING", "READY", "DELETED"}
                    [] job[i].status = "SUCCEEDED" -> doc[DocOf[i]] \in {"READY", "DELETED"}
                    [] OTHER -> doc[DocOf[i]] \in {"FAILED", "DELETED"})
      BY <2>1, <2>3, <2>6 DEF ActiveJob
    <3>2. StatusesAgree'
      BY <1>0, <3>1 DEF OutcomeInv, RowsAgree, StatusesAgree
    <3>3. \A d : UploadDone(d) => UploadDone(d)'
      BY <2>1, <2>6 DEF UploadDone
    <3>4. ASSUME NEW i \in Jobs
          PROVE  /\ Operation[i] = "REINDEX" /\ job'[i].status # "ABSENT" => UploadDone(DocOf[i])'
                 /\ job'[i].attempts <= MaxAttempts
                 /\ job'[i].status \in {"ABSENT", "PENDING"} => job'[i].attempts < MaxAttempts
      BY <2>1, <2>3, <2>5, <2>6, <3>3 DEF OutcomeInv, RowsAgree
    <3> QED BY <1>0, <3>2, <3>4 DEF OutcomeInv, RowsAgree
  <2>10. ASSUME NEW u \in Workers PROVE RunOK(u)'
    <3>1. RunOK(u) /\ u \in Threads
      BY DEF OutcomeInv, ThreadsAgree, Threads
    <3>2. CASE u = w
      BY <1>0, <2>1, <2>2, <2>3, <2>6, <3>1, <3>2 DEF RunOK
    <3>3. CASE u # w
      <4>1. thread'[u] = thread[u] /\ thread[u].job # j
        BY <2>6, <2>7, <3>1, <3>3 DEF Unclaimed
      <4>2. thread[u].job # NoJob => job'[thread[u].job] = job[thread[u].job]
        BY <2>6, <3>1, <4>1, ThreadTypes
      <4> QED BY <1>0, <2>1, <3>1, <4>1, <4>2 DEF RunOK
    <3> QED BY <3>2, <3>3
  <2>11. \A c \in Clients : RequestOK(c)'
    BY <1>0, <2>6 DEF OutcomeInv, ThreadsAgree, RequestOK, Threads
  <2>12. \A u \in Workers : thread'[u].pc # "tx"
    <3>1. \A u \in Workers \ {w} : thread[u].pc # "tx"
      BY <1>0, WorkerMeets
    <3> QED BY <2>2, <2>6, <3>1 DEF Threads
  <2>13. ASSUME NEW c \in Clients PROVE RequestTx(c)'
    <3>1. RequestTx(c) /\ thread'[c] = thread[c]
      BY <1>0, <2>6 DEF OutcomeInv, ThreadsAgree, Threads
    <3> SUFFICES ASSUME thread[c].pc = "tx" PROVE RequestTx(c)'
      BY <3>1 DEF RequestTx
    <3>2. /\ thread[c].write.status = "CANCELLED"
          /\ \A i \in thread[c].write.jobs : job[i].status = "RUNNING"
      BY <1>0, WorkerMeets
    <3>3. PICK i \in Jobs : EndsJob(thread[c].write, i)
      BY <3>1, <3>2 DEF RequestTx, RetriesJob, CreatesJob
    <3>4. i # j
      BY <2>1, <3>2, <3>3 DEF EndsJob
    <3>5. job'[i] = job[i]
      BY <2>6, <3>4
    <3>6. EndsJob(thread[c].write, i)'
      BY <1>0, <3>1, <3>3, <3>5 DEF EndsJob, Follows, TouchesDoc
    <3> QED BY <3>1, <3>2, <3>6 DEF RequestTx
  <2> QED BY <2>8, <2>9, <2>10, <2>11, <2>12, <2>13 DEF ThreadsAgree, WorkerTx, OpenTogether
<1> QED BY <1>1, <1>2

-----------------------------------------------------------------------------
(* The owner's requests.                                                   *)

\* A request that opens a transaction.
LEMMA RequestOpens ==
  ASSUME OutcomeInv, CalmOwner, NEW c \in Clients, thread[c].pc = "idle", Undisturbed(c),
         NEW wr \in Write, wr # NoWrite, NEW sends \in SUBSET (Jobs \X (0 .. MaxTaskRetries)),
         Open(c, wr, sends, "idle"), UNCHANGED <<doc, job, stale>>, NEW j \in Jobs,
         \/ EndsJob(wr, j) /\ wr.status = "CANCELLED"
         \/ (RetriesJob(wr, j) \/ CreatesJob(wr, j)) /\ Unclaimed(j)
  PROVE  RowsAgree' /\ ThreadsAgree'
<1> DEFINE th == [thread[c] EXCEPT !.pc = "tx", !.write = wr, !.sends = sends, !.next = "idle"]
<1>1. c \in Threads /\ c \notin Workers
  BY IndexingAssumptions DEF Threads
<1>2. /\ thread[c] \in Thread /\ thread[c].holds = NoJob /\ thread[c].job = NoJob
      /\ thread \in [Threads -> Thread]
  BY <1>1, IdleFacts
<1>3. thread' = [thread EXCEPT ![c] = th]
  BY DEF Open
<1>4. /\ th \in Thread /\ th.pc = "tx" /\ th.job = NoJob /\ th.holds = NoJob /\ th.write = wr
      /\ th.next = "idle"
  BY <1>2 DEF Thread
<1> HIDE DEF th
<1>5. thread'[c] = th /\ \A u \in Workers : thread'[u].job = thread[u].job
  BY <1>1, <1>2, <1>3 DEF Threads
<1>6. \A i \in Jobs : Unclaimed(i) => Unclaimed(i)'
  BY <1>5 DEF Unclaimed
<1>7. EndsJob(wr, j) => EndsJob(thread[c].write, j)'
  BY <1>4, <1>5 DEF EndsJob, Follows, TouchesDoc
<1>8. RetriesJob(wr, j) => RetriesJob(thread[c].write, j)'
  BY <1>4, <1>5 DEF RetriesJob, Follows, TouchesDoc
<1>9. CreatesJob(wr, j) => CreatesJob(thread[c].write, j)'
  BY <1>4, <1>5 DEF CreatesJob, UploadDone
<1>10. RequestTx(c)'
  BY <1>4, <1>5, <1>6, <1>7, <1>8, <1>9 DEF RequestTx
<1> QED BY <1>1, <1>2, <1>3, <1>4, <1>10, OpenStep, RequestAlone

\* Uploads, reindexes, cancels and retries.
LEMMA RequestSteps ==
  ASSUME OutcomeInv, CalmOwner, NEW c \in Clients, NEW j \in Jobs,
         Reindex(c, j) \/ RequestCancel(c, j) \/ RequestRetry(c, j)
  PROVE  RowsAgree' /\ ThreadsAgree'
<1>0. /\ RowsAgree /\ TypeOK /\ job[j].status \in JobStatuses
      /\ {} \in SUBSET (Jobs \X (0 .. MaxTaskRetries))
      /\ {<<j, 0>>} \in SUBSET (Jobs \X (0 .. MaxTaskRetries))
  BY IndexingAssumptions DEF OutcomeInv, RagInv, TypeOK, JobRow
<1>1. ASSUME Reindex(c, j) PROVE RowsAgree' /\ ThreadsAgree'
  <2> DEFINE wr == [NoWrite EXCEPT !.jobs = {j}, !.status = "PENDING"]
  <2>1. wr \in Write /\ wr.jobs = {j} /\ wr.status = "PENDING" /\ wr.doc = NoDoc /\ wr # NoWrite
    BY ConstantTypes DEF NoWrite, Write, JobStatuses, ActiveJob
  <2>2. /\ Open(c, wr, {<<j, 0>>}, "idle") /\ thread[c].pc = "idle" /\ Undisturbed(c)
        /\ UNCHANGED <<doc, job, stale>> /\ Operation[j] = "REINDEX" /\ job[j].status = "ABSENT"
        /\ doc[DocOf[j]] = "READY"
        /\ \A i \in Jobs : DocOf[i] = DocOf[j] => job[i].status \notin ActiveJob
    BY <1>1 DEF Reindex
  <2> HIDE DEF wr
  <2>3. PICK i \in Jobs : Operation[i] = "UPLOAD" /\ DocOf[i] = DocOf[j]
    BY <1>0, <2>2, IndexingAssumptions DEF RowsAgree
  <2>4. job[i].status \notin {"ABSENT", "FAILED", "CANCELLED"} \union ActiveJob
    <3>1. (CASE job[i].status = "ABSENT" -> doc[DocOf[i]] = "ABSENT"
             [] job[i].status \in ActiveJob -> doc[DocOf[i]] \in {"PROCESSING", "READY", "DELETED"}
             [] job[i].status = "SUCCEEDED" -> doc[DocOf[i]] \in {"READY", "DELETED"}
             [] OTHER -> doc[DocOf[i]] \in {"FAILED", "DELETED"})
      BY <1>0, <2>3 DEF RowsAgree, StatusesAgree
    <3> QED BY <2>2, <2>3, <3>1 DEF ActiveJob
  <2>5. UploadDone(DocOf[j])
    <3>1. job[i].status \in JobStatuses
      BY <1>0 DEF TypeOK, JobRow
    <3> QED BY <2>3, <2>4, <3>1 DEF UploadDone, JobStatuses, FinalJob
  <2>6. Unclaimed(j)
    BY <2>2, IndexingAssumptions DEF OutcomeInv, ThreadsAgree, RunOK, Unclaimed
  <2>7. CreatesJob(wr, j)
    BY <2>1, <2>2, <2>5 DEF CreatesJob
  <2> QED BY <1>0, <2>1, <2>2, <2>6, <2>7, RequestOpens
<1>2. ASSUME RequestCancel(c, j) PROVE RowsAgree' /\ ThreadsAgree'
  <2>1. /\ Open(c, Cancel(j), {}, "idle") /\ thread[c].pc = "idle" /\ Undisturbed(c)
        /\ UNCHANGED <<doc, job, stale>> /\ job[j].status # "ABSENT" /\ Cancel(j) # NoWrite
    BY <1>2 DEF RequestCancel, UserOp
  <2>2. Cancel(j) \in Write
    BY <1>0, WriteTypes
  <2>3. job[j].status \in ActiveJob /\ Cancel(j) = Change(j, "CANCELLED", FALSE, "FAILED")
    BY <1>0, <2>1 DEF Cancel, JobStatuses
  <2>4. EndsJob(Cancel(j), j) /\ Cancel(j).status = "CANCELLED"
    BY <1>0, <2>3, EndingWrites
  <2> QED BY <1>0, <2>1, <2>2, <2>4, RequestOpens
<1>3. ASSUME RequestRetry(c, j) PROVE RowsAgree' /\ ThreadsAgree'
  <2>1. /\ Open(c, Retry(j, TRUE), {<<j, 0>>}, "idle") /\ thread[c].pc = "idle" /\ Undisturbed(c)
        /\ UNCHANGED <<doc, job, stale>> /\ CanRetry(j, TRUE) /\ Unclaimed(j)
    BY <1>3 DEF RequestRetry, UserOp, CalmOwner, Unclaimed
  <2>2. Retry(j, TRUE) \in Write
    BY <1>0, WriteTypes
  <2>3. RetriesJob(Retry(j, TRUE), j) /\ Retry(j, TRUE) # NoWrite
    BY <1>0, <2>1, RetryingWrites
  <2> QED BY <1>0, <2>1, <2>2, <2>3, RequestOpens
<1> QED BY <1>1, <1>2, <1>3

\* Only the documents' rows and those of jobs that nobody runs change, no
\* transaction is open, and nothing published goes back.
LEMMA RowStep ==
  ASSUME OutcomeInv, NEW c \in Clients, NEW th \in Thread,
         \A u \in Threads : thread[u].pc # "tx",
         thread' = [thread EXCEPT ![c] = th], stale' = stale, RowsAgree',
         th.pc \notin {"tx", "deleting"}, th.job = NoJob, th.holds = NoJob,
         \A i \in Jobs : ~Unclaimed(i) =>
           /\ job'[i] = job[i]
           /\ doc[DocOf[i]] \in {"READY", "DELETED"} => doc'[DocOf[i]] \in {"READY", "DELETED"},
         \A b \in Clients : b = c
  PROVE  RowsAgree' /\ ThreadsAgree'
<1>1. /\ \A u \in Threads : thread'[u] = IF u = c THEN th ELSE thread[u]
      /\ c \in Threads /\ c \notin Workers
  BY IndexingAssumptions DEF OutcomeInv, RagInv, TypeOK, Threads
<1>2. \A w \in Workers : w \in Threads /\ thread'[w] = thread[w]
  BY <1>1 DEF Threads
<1>3. SoleIndexer'
  BY <1>2 DEF OutcomeInv, ThreadsAgree, SoleIndexer
<1>4. ASSUME NEW w \in Workers PROVE RunOK(w)'
  <2>1. RunOK(w) /\ thread'[w] = thread[w]
    BY <1>2 DEF OutcomeInv, ThreadsAgree
  <2>2. thread[w].job # NoJob => thread[w].job \in Jobs /\ ~Unclaimed(thread[w].job)
    BY <1>2, ThreadTypes DEF Unclaimed
  <2> QED BY <2>1, <2>2 DEF RunOK
<1>5. \A b \in Clients : RequestOK(b)'
  BY <1>1 DEF RequestOK
<1>6. \A u \in Threads : thread'[u].pc # "tx"
  BY <1>1
<1> QED BY <1>3, <1>4, <1>5, <1>6 DEF ThreadsAgree, WorkerTx, RequestTx, OpenTogether, Threads

\* POST /user-documents
LEMMA UploadStep ==
  ASSUME OutcomeInv, CalmOwner, NEW c \in Clients, NEW j \in Jobs, Upload(c, j)
  PROVE  RowsAgree' /\ ThreadsAgree'
<1> DEFINE d == DocOf[j]
           row == [status |-> "PENDING", attempts |-> 0]
<1>1. /\ c \in Threads /\ thread[c].pc = "idle" /\ Undisturbed(c) /\ UNCHANGED <<stale, thread>>
      /\ Operation[j] = "UPLOAD" /\ job[j].status = "ABSENT" /\ doc[d] = "ABSENT" /\ d \in Docs
      /\ doc' = [doc EXCEPT ![d] = "PROCESSING"] /\ job' = [job EXCEPT ![j] = row]
      /\ DocOf \in [Jobs -> Docs]
  BY IndexingAssumptions DEF Upload, Threads
<1>2. row.status = "PENDING" /\ row.attempts = 0
  OBVIOUS
<1> HIDE DEF row
<1>3. /\ RowsAgree /\ StatusesAgree
      /\ \A i \in Jobs : job'[i] = IF i = j THEN row ELSE job[i]
      /\ \A e \in Docs : doc'[e] = IF e = d THEN "PROCESSING" ELSE doc[e]
  BY <1>1 DEF OutcomeInv, RowsAgree, RagInv, TypeOK
<1>4. 0 < MaxAttempts /\ 0 <= MaxAttempts
  BY IndexingAssumptions
<1>5. \A i \in Jobs : Operation[i] = "UPLOAD" /\ DocOf[i] = d => i = j
  BY <1>1, IndexingAssumptions
<1>6. RowsAgree'
  <2>1. ASSUME NEW i \in Jobs, Operation[i] = "UPLOAD"
        PROVE  (CASE job'[i].status = "ABSENT" -> doc'[DocOf[i]] = "ABSENT"
                  [] job'[i].status \in ActiveJob -> doc'[DocOf[i]] \in {"PROCESSING", "READY", "DELETED"}
                  [] job'[i].status = "SUCCEEDED" -> doc'[DocOf[i]] \in {"READY", "DELETED"}
                  [] OTHER -> doc'[DocOf[i]] \in {"FAILED", "DELETED"})
    <3>1. CASE i = j
      <4>1. job'[i].status = "PENDING" /\ doc'[DocOf[i]] = "PROCESSING"
        BY <1>1, <1>2, <1>3, <3>1
      <4> QED BY <4>1 DEF ActiveJob
    <3>2. CASE i # j
      <4>1. job'[i] = job[i] /\ doc'[DocOf[i]] = doc[DocOf[i]]
        BY <1>1, <1>3, <1>5, <2>1, <3>2
      <4> QED BY <1>3, <2>1, <4>1 DEF StatusesAgree
    <3> QED BY <3>1, <3>2
  <2>2. StatusesAgree'
    BY <2>1 DEF StatusesAgree
  <2>3. \A e : UploadDone(e) => UploadDone(e)'
    BY <1>1, <1>3 DEF UploadDone
  <2>4. \A e \in Docs : doc'[e] # "ABSENT" => \E i \in Jobs : Operation[i] = "UPLOAD" /\ DocOf[i] = e
    BY <1>1, <1>3 DEF RowsAgree
  <2>5. ASSUME NEW i \in Jobs
        PROVE  /\ Operation[i] = "REINDEX" /\ job'[i].status # "ABSENT" => UploadDone(DocOf[i])'
               /\ job'[i].attempts <= MaxAttempts
               /\ job'[i].status \in {"ABSENT", "PENDING"} => job'[i].attempts < MaxAttempts
    BY <1>1, <1>2, <1>3, <1>4, <2>3 DEF RowsAgree
  <2> QED BY <2>2, <2>4, <2>5 DEF RowsAgree
<1>7. PICK th \in Thread : th = thread[c]
  BY <1>1, IdleFacts
<1>a. /\ th.holds = NoJob /\ th.job = NoJob /\ th.pc = "idle"
      /\ thread' = [thread EXCEPT ![c] = th]
  BY <1>1, <1>7, IdleFacts
<1>8. \A u \in Threads : thread[u].pc # "tx"
  BY <1>1, RequestAlone
<1>9. \A i \in Jobs : ~Unclaimed(i) =>
           /\ job'[i] = job[i]
           /\ doc[DocOf[i]] \in {"READY", "DELETED"} => doc'[DocOf[i]] \in {"READY", "DELETED"}
  <2>1. Unclaimed(j)
    BY <1>1, IndexingAssumptions DEF OutcomeInv, ThreadsAgree, RunOK, Unclaimed
  <2> QED BY <1>1, <1>3, <2>1
<1>b. \A b \in Clients : b = c
  BY DEF CalmOwner
<1> QED BY <1>1, <1>6, <1>8, <1>9, <1>a, <1>b, RowStep

\* DELETE /user-documents/{id}, its second transaction.
LEMMA DeleteStep ==
  ASSUME OutcomeInv, CalmOwner, NEW c \in Clients, DeleteRecord(c)
  PROVE  RowsAgree' /\ ThreadsAgree'
<1> DEFINE d == thread[c].doc
<1>1. /\ c \in Threads /\ thread[c].pc = "deleting" /\ Undisturbed(c) /\ UNCHANGED <<job, stale>>
      /\ thread[c] \in Thread /\ index \subseteq Docs
  BY ThreadTypes DEF DeleteRecord, Threads, OutcomeInv, RagInv, TypeOK
<1>2. /\ thread[c].job = NoJob /\ thread[c].holds = NoJob /\ doc[d] # "ABSENT" /\ d \in Docs
      /\ DocOf \in [Jobs -> Docs]
  BY <1>1, ThreadTypes, IndexingAssumptions DEF OutcomeInv, ThreadsAgree, RequestOK, Shape
<1>3. CASE doc[d] = "DELETED"
  <2>1. thread' = [thread EXCEPT ![c] = IdleThread] /\ doc' = doc
    BY <1>3 DEF DeleteRecord
  <2> QED BY <1>1, <2>1, EndingStep
<1>4. CASE doc[d] # "DELETED"
  <2> DEFINE th == [thread[c] EXCEPT !.pc = "unindexing", !.snap = index, !.had = FALSE]
  <2>1. thread' = [thread EXCEPT ![c] = th] /\ doc' = [doc EXCEPT ![d] = "DELETED"]
    BY <1>4 DEF DeleteRecord
  <2>2. th \in Thread /\ th.pc = "unindexing" /\ th.job = NoJob /\ th.holds = NoJob
    BY <1>1, <1>2 DEF Thread
  <2> HIDE DEF th
  <2>3. /\ \A e \in Docs : doc'[e] = IF e = d THEN "DELETED" ELSE doc[e]
        /\ RowsAgree /\ StatusesAgree
    BY <2>1 DEF OutcomeInv, RowsAgree, RagInv, TypeOK
  <2>4. RowsAgree'
    <3>1. ASSUME NEW i \in Jobs, Operation[i] = "UPLOAD"
          PROVE  (CASE job'[i].status = "ABSENT" -> doc'[DocOf[i]] = "ABSENT"
                    [] job'[i].status \in ActiveJob -> doc'[DocOf[i]] \in {"PROCESSING", "READY", "DELETED"}
                    [] job'[i].status = "SUCCEEDED" -> doc'[DocOf[i]] \in {"READY", "DELETED"}
                    [] OTHER -> doc'[DocOf[i]] \in {"FAILED", "DELETED"})
      <4>1. (CASE job[i].status = "ABSENT" -> doc[DocOf[i]] = "ABSENT"
               [] job[i].status \in ActiveJob -> doc[DocOf[i]] \in {"PROCESSING", "READY", "DELETED"}
               [] job[i].status = "SUCCEEDED" -> doc[DocOf[i]] \in {"READY", "DELETED"}
               [] OTHER -> doc[DocOf[i]] \in {"FAILED", "DELETED"})
        BY <2>3, <3>1 DEF StatusesAgree
      <4>2. DocOf[i] \in Docs /\ job'[i] = job[i]
        BY <1>1, <1>2
      <4>3. CASE DocOf[i] # d
        BY <2>3, <4>1, <4>2, <4>3
      <4>4. CASE DocOf[i] = d
        <5>1. job'[i].status # "ABSENT" /\ doc'[DocOf[i]] = "DELETED"
          BY <1>2, <2>3, <4>1, <4>2, <4>4 DEF ActiveJob
        <5> QED BY <5>1
      <4> QED BY <4>3, <4>4
    <3>2. StatusesAgree'
      BY <3>1 DEF StatusesAgree
    <3>3. \A e \in Docs : doc'[e] # "ABSENT" => \E i \in Jobs : Operation[i] = "UPLOAD" /\ DocOf[i] = e
      BY <1>2, <2>3 DEF RowsAgree
    <3>4. \A e : UploadDone(e) => UploadDone(e)'
      BY <1>1 DEF UploadDone
    <3> QED BY <1>1, <2>3, <3>2, <3>3, <3>4 DEF RowsAgree
  <2>5. \A u \in Threads : thread[u].pc # "tx"
    BY <1>1, RequestAlone
  <2>6. \A i \in Jobs : ~Unclaimed(i) =>
             /\ job'[i] = job[i]
             /\ doc[DocOf[i]] \in {"READY", "DELETED"} => doc'[DocOf[i]] \in {"READY", "DELETED"}
    BY <1>1, <1>2, <2>3
  <2> QED BY <1>1, <2>1, <2>2, <2>4, <2>5, <2>6, RowStep DEF CalmOwner
<1> QED BY <1>3, <1>4

\* DELETE /user-documents/{id}, its first transaction.
LEMMA RequestDeleteStep ==
  ASSUME OutcomeInv, CalmOwner, NEW c \in Clients, NEW d \in Docs, RequestDelete(c, d)
  PROVE  RowsAgree' /\ ThreadsAgree'
<1>1. /\ c \in Threads /\ c \notin Workers /\ thread[c].pc = "idle" /\ Undisturbed(c)
      /\ UNCHANGED <<doc, job, stale>> /\ doc[d] # "ABSENT" /\ RowsAgree /\ TypeOK
  BY IndexingAssumptions DEF RequestDelete, UserOp, Threads, OutcomeInv, RagInv
<1>2. /\ thread[c] \in Thread /\ thread[c].holds = NoJob /\ thread[c].job = NoJob
      /\ thread \in [Threads -> Thread]
  BY <1>1, IdleFacts
<1>3. ASSUME NEW j \in Jobs, job[j].status \in ActiveJob,
             thread' = [thread EXCEPT ![c] =
               [@ EXCEPT !.pc = "tx", !.doc = d, !.write = Cancel(j), !.next = "deleting"]]
      PROVE  RowsAgree' /\ ThreadsAgree'
  <2> DEFINE th == [thread[c] EXCEPT !.pc = "tx", !.doc = d, !.write = Cancel(j),
                                     !.next = "deleting"]
  <2>1. thread' = [thread EXCEPT ![c] = th]
    BY <1>3
  <2>2. Cancel(j) \in Write
    BY <1>1, WriteTypes
  <2>3. /\ th \in Thread /\ th.pc = "tx" /\ th.job = NoJob /\ th.holds = NoJob
        /\ th.write = Cancel(j) /\ th.next = "deleting" /\ th.doc = d
    BY <1>2, <2>2 DEF Thread
  <2> HIDE DEF th
  <2>4. Cancel(j) = Change(j, "CANCELLED", FALSE, "FAILED")
    BY <1>3 DEF Cancel, ActiveJob, FinalJob
  <2>5. EndsJob(Cancel(j), j) /\ Cancel(j).status = "CANCELLED"
    BY <1>1, <1>3, <2>4, EndingWrites
  <2>6. thread'[c] = th
    BY <1>1, <1>2, <2>1
  <2>7. EndsJob(thread[c].write, j)'
    BY <1>1, <2>3, <2>5, <2>6 DEF EndsJob, Follows, TouchesDoc
  <2>8. RequestTx(c)'
    BY <2>3, <2>5, <2>6, <2>7 DEF RequestTx
  <2> QED BY <1>1, <1>2, <2>1, <2>3, <2>8, OpenStep, RequestAlone
<1>4. ASSUME thread' = [thread EXCEPT ![c] = [@ EXCEPT !.pc = "deleting", !.doc = d]]
      PROVE  RowsAgree' /\ ThreadsAgree'
  <2> DEFINE th == [thread[c] EXCEPT !.pc = "deleting", !.doc = d]
  <2>1. thread' = [thread EXCEPT ![c] = th]
    BY <1>4
  <2>2. th \in Thread /\ th.pc = "deleting" /\ th.job = NoJob /\ th.holds = NoJob /\ th.doc = d
    BY <1>2 DEF Thread
  <2> HIDE DEF th
  <2> QED BY <1>1, <2>1, <2>2, QuietStep
<1> QED BY <1>3, <1>4 DEF RequestDelete

\* Every step of the owner.
LEMMA ClientSteps ==
  ASSUME OutcomeInv, CalmOwner, NEW c \in Clients, ClientStep(c)
  PROVE  RowsAgree' /\ ThreadsAgree'
<1>0. c \in Threads
  BY DEF Threads
<1>1. CASE Unindex(c) \/ Rebuild(c)
  BY <1>0, <1>1, EndingStep DEF Unindex, Rebuild
<1>2. CASE Search(c)
  <2> DEFINE th == [thread[c] EXCEPT !.pc = "rebuilding", !.snap = ReadyDocs]
  <2>1. thread' = [thread EXCEPT ![c] = th] /\ thread[c].pc = "idle" /\ UNCHANGED <<doc, job, stale>>
    BY <1>2 DEF Search
  <2>2. thread[c] \in Thread /\ thread[c].holds = NoJob /\ thread[c].job = NoJob
    BY <1>0, <2>1, IdleFacts
  <2>3. th \in Thread /\ th.pc = "rebuilding" /\ th.job = NoJob /\ th.holds = NoJob
    BY <2>2 DEF Thread, ReadyDocs
  <2> HIDE DEF th
  <2> QED BY <1>0, <2>1, <2>3, QuietStep
<1>3. CASE DeleteRecord(c)
  BY <1>3, DeleteStep
<1>4. ASSUME NEW d \in Docs, RequestDelete(c, d) PROVE RowsAgree' /\ ThreadsAgree'
  BY <1>4, RequestDeleteStep
<1>5. ASSUME NEW j \in Jobs, Upload(c, j) PROVE RowsAgree' /\ ThreadsAgree'
  BY <1>5, UploadStep
<1>6. ASSUME NEW j \in Jobs, Reindex(c, j) \/ RequestCancel(c, j) \/ RequestRetry(c, j)
      PROVE  RowsAgree' /\ ThreadsAgree'
  BY <1>6, RequestSteps
<1> QED BY <1>1, <1>2, <1>3, <1>4, <1>5, <1>6 DEF ClientStep

-----------------------------------------------------------------------------
(* Commits.                                                                *)

\* What FinalsStay says of one step.
KeepsFinals ==
  /\ \A j \in Jobs : job[j].status = "SUCCEEDED" => job'[j].status = "SUCCEEDED"
  /\ \A d \in Docs : doc[d] = "DELETED" => doc'[d] = "DELETED"
  /\ \A d \in Docs : doc[d] = "READY" /\ doc'[d] \notin {"READY", "DELETED"} =>
       \E j \in Jobs : DocOf[j] = d /\ Operation[j] = "UPLOAD" /\ job[j].status \in ActiveJob

\* What a commit leaves of what other threads have read.
Effects(wr) ==
  /\ \A i \in Jobs \ wr.jobs : job'[i] = job[i]
  /\ \A d \in Docs : doc'[d] = "DELETED" <=> doc[d] = "DELETED"
  /\ \A d \in Docs : doc[d] # "ABSENT" => doc'[d] # "ABSENT"
  /\ \A i \in Jobs \ wr.jobs :
       Operation[i] = "UPLOAD" /\ doc[DocOf[i]] = "READY" => doc'[DocOf[i]] = "READY"
  /\ \A d \in Docs : UploadDone(d) /\ doc[d] = "READY" => doc'[d] = "READY"
  /\ \A d \in Docs : UploadDone(d) => UploadDone(d)'

\* The rows after a commit.
Committed(wr) ==
  /\ job' = JobsAfter(wr)
  /\ doc' = [d \in Docs |-> IF d = wr.doc /\ wr.to # "KEEP" THEN wr.to ELSE doc[d]]

\* A commit that moves one job on, and its document with it.
LEMMA OneJobCommits ==
  ASSUME RowsAgree, TypeOK, NEW wr \in Write, Committed(wr), NEW j \in Jobs,
         EndsJob(wr, j) \/ SucceedsJob(wr, j) \/ RetriesJob(wr, j) \/ CreatesJob(wr, j)
  PROVE  RowsAgree' /\ Effects(wr) /\ KeepsFinals
<1>0. /\ DocOf \in [Jobs -> Docs] /\ NoDoc \notin Docs /\ DocOf[j] \in Docs
      /\ Operation[j] \in {"UPLOAD", "REINDEX"} /\ 0 < MaxAttempts /\ 0 <= MaxAttempts
      /\ job[j].attempts \in Nat
  BY IndexingAssumptions DEF TypeOK, JobRow
<1>1. /\ wr.jobs = {j} /\ job[j].status # "SUCCEEDED"
      /\ job'[j].status = wr.status
      /\ job'[j].attempts = IF wr.reset THEN 0 ELSE job[j].attempts
      /\ \A i \in Jobs : i # j => job'[i] = job[i]
  BY DEF Committed, JobsAfter, EndsJob, SucceedsJob, RetriesJob, CreatesJob, ActiveJob
<1>2. \A d \in Docs : doc'[d] = IF d = wr.doc /\ wr.to # "KEEP" THEN wr.to ELSE doc[d]
  BY DEF Committed
\* The document follows.
<1>3. /\ EndsJob(wr, j) /\ TouchesDoc(j) => doc'[DocOf[j]] = "FAILED"
      /\ RetriesJob(wr, j) /\ TouchesDoc(j) => doc'[DocOf[j]] = "PROCESSING"
      /\ SucceedsJob(wr, j) \/ CreatesJob(wr, j) \/ ~TouchesDoc(j) => doc'[DocOf[j]] = doc[DocOf[j]]
  BY <1>0, <1>2 DEF EndsJob, SucceedsJob, RetriesJob, CreatesJob, Follows
<1>4. \A d \in Docs \ {DocOf[j]} : doc'[d] = doc[d]
  BY <1>0, <1>2 DEF EndsJob, SucceedsJob, RetriesJob, CreatesJob, Follows
<1>5. \A i \in Jobs : Operation[i] = "UPLOAD" /\ i # j => doc'[DocOf[i]] = doc[DocOf[i]]
  <2> SUFFICES ASSUME NEW i \in Jobs, Operation[i] = "UPLOAD", i # j, DocOf[i] = DocOf[j]
               PROVE  doc'[DocOf[i]] = doc[DocOf[i]]
    BY <1>0, <1>4
  <2>1. ~TouchesDoc(j)
    BY IndexingAssumptions DEF TouchesDoc
  <2> QED BY <1>3, <2>1
<1>6. TouchesDoc(j) => Operation[j] = "UPLOAD" /\ doc[DocOf[j]] # "DELETED"
  BY <1>0 DEF TouchesDoc
\* The rows agree.
<1>7. ASSUME NEW i \in Jobs, Operation[i] = "UPLOAD"
      PROVE  (CASE job'[i].status = "ABSENT" -> doc'[DocOf[i]] = "ABSENT"
                [] job'[i].status \in ActiveJob -> doc'[DocOf[i]] \in {"PROCESSING", "READY", "DELETED"}
                [] job'[i].status = "SUCCEEDED" -> doc'[DocOf[i]] \in {"READY", "DELETED"}
                [] OTHER -> doc'[DocOf[i]] \in {"FAILED", "DELETED"})
  <2>1. CASE i # j
    <3>1. job'[i] = job[i] /\ doc'[DocOf[i]] = doc[DocOf[i]] /\ StatusesAgree
      BY <1>1, <1>5, <1>7, <2>1 DEF RowsAgree
    <3> QED BY <1>7, <3>1 DEF StatusesAgree
  <2>2. CASE i = j
    <3>1. ~TouchesDoc(j) => doc[DocOf[j]] = "DELETED"
      BY <1>7, <2>2 DEF TouchesDoc
    <3>2. CASE EndsJob(wr, j)
      <4>1. job'[j].status \in {"CANCELLED", "FAILED"} /\ doc'[DocOf[j]] \in {"FAILED", "DELETED"}
        BY <1>1, <1>3, <3>1, <3>2 DEF EndsJob
      <4> QED BY <2>2, <4>1 DEF ActiveJob
    <3>3. CASE SucceedsJob(wr, j)
      <4>1. job'[j].status = "SUCCEEDED" /\ doc'[DocOf[j]] \in {"READY", "DELETED"}
        BY <1>1, <1>3, <1>7, <2>2, <3>3 DEF SucceedsJob
      <4> QED BY <2>2, <4>1 DEF ActiveJob
    <3>4. CASE RetriesJob(wr, j)
      <4>1. job'[j].status = "PENDING" /\ doc'[DocOf[j]] \in {"PROCESSING", "DELETED"}
        BY <1>1, <1>3, <3>1, <3>4 DEF RetriesJob
      <4> QED BY <2>2, <4>1 DEF ActiveJob
    <3>5. ~CreatesJob(wr, j)
      BY <1>7, <2>2 DEF CreatesJob
    <3> QED BY <3>2, <3>3, <3>4, <3>5
  <2> QED BY <2>1, <2>2
<1>8. \A d : UploadDone(d) => UploadDone(d)'
  BY <1>1 DEF UploadDone
<1>9. \A d \in Docs : UploadDone(d) => doc'[d] = doc[d]
  <2> SUFFICES ASSUME UploadDone(DocOf[j]) PROVE doc'[DocOf[j]] = doc[DocOf[j]]
    BY <1>4
  <2>1. PICK i \in Jobs : Operation[i] = "UPLOAD" /\ DocOf[i] = DocOf[j] /\ job[i].status = "SUCCEEDED"
    BY DEF UploadDone
  <2> QED BY <1>1, <1>5, <2>1
<1>10. \A d \in Docs : (doc'[d] = "DELETED" <=> doc[d] = "DELETED")
  BY <1>3, <1>4, <1>6
<1>11. \A d \in Docs : doc[d] # "ABSENT" => doc'[d] # "ABSENT"
  BY <1>3, <1>4
<1>12. \A d \in Docs : doc'[d] # "ABSENT" => \E i \in Jobs : Operation[i] = "UPLOAD" /\ DocOf[i] = d
  BY <1>4, <1>3, <1>6 DEF RowsAgree
<1>13. ASSUME NEW i \in Jobs
       PROVE  /\ Operation[i] = "REINDEX" /\ job'[i].status # "ABSENT" => UploadDone(DocOf[i])'
              /\ job'[i].attempts <= MaxAttempts
              /\ job'[i].status \in {"ABSENT", "PENDING"} => job'[i].attempts < MaxAttempts
  <2>1. CASE i # j
    BY <1>1, <1>8, <2>1 DEF RowsAgree
  <2>2. CASE i = j
    <3>1. Operation[j] = "REINDEX" => UploadDone(DocOf[j])'
      <4>1. CreatesJob(wr, j) \/ job[j].status # "ABSENT"
        BY DEF EndsJob, SucceedsJob, RetriesJob, ActiveJob
      <4>2. Operation[j] = "REINDEX" => UploadDone(DocOf[j])
        BY <4>1 DEF CreatesJob, RowsAgree
      <4> QED BY <1>8, <4>2
    <3>2. job[j].attempts <= MaxAttempts
      BY DEF RowsAgree
    <3>3. job'[j].attempts <= MaxAttempts
      BY <1>0, <1>1, <3>2
    <3>4. job'[j].status \in {"ABSENT", "PENDING"} => wr.reset \/ job[j].attempts < MaxAttempts
      BY <1>1 DEF EndsJob, SucceedsJob, RetriesJob, CreatesJob, RowsAgree
    <3>5. job'[j].status \in {"ABSENT", "PENDING"} => job'[j].attempts < MaxAttempts
      BY <1>0, <1>1, <3>4
    <3> QED BY <2>2, <3>1, <3>3, <3>5
  <2> QED BY <2>1, <2>2
<1>14. StatusesAgree'
  BY <1>7 DEF StatusesAgree
<1>15. RowsAgree'
  BY <1>12, <1>13, <1>14 DEF RowsAgree
<1>16. Effects(wr)
  BY <1>1, <1>5, <1>8, <1>9, <1>10, <1>11 DEF Effects
<1>17. \A d \in Docs : doc[d] = "READY" /\ doc'[d] \notin {"READY", "DELETED"} =>
         \E i \in Jobs : DocOf[i] = d /\ Operation[i] = "UPLOAD" /\ job[i].status \in ActiveJob
  <2> SUFFICES ASSUME doc[DocOf[j]] = "READY", doc'[DocOf[j]] # "READY"
               PROVE  Operation[j] = "UPLOAD" /\ job[j].status \in ActiveJob
    BY <1>4
  <2>1. TouchesDoc(j) /\ Operation[j] = "UPLOAD"
    BY <1>3, <1>6
  <2>2. ~RetriesJob(wr, j)
    BY <2>1, DocumentDiffers DEF RetriesJob
  <2>3. EndsJob(wr, j)
    BY <1>3, <2>1, <2>2
  <2> QED BY <2>1, <2>3 DEF EndsJob
<1>18. KeepsFinals
  BY <1>1, <1>10, <1>17 DEF KeepsFinals
<1> QED BY <1>15, <1>16, <1>18

\* A commit that recovers stale jobs.
LEMMA RecoveryCommits ==
  ASSUME RowsAgree, TypeOK, NEW wr \in Write, Committed(wr), RecoversJobs(wr)
  PROVE  RowsAgree' /\ Effects(wr) /\ KeepsFinals
<1>0. /\ NoDoc \notin Docs /\ 0 < MaxAttempts /\ wr.jobs \subseteq Jobs
      /\ doc \in [Docs -> DocStatuses] /\ DocOf \in [Jobs -> Docs]
  BY IndexingAssumptions DEF TypeOK, Write
<1>1. doc' = doc
  BY <1>0 DEF Committed, RecoversJobs
<1>2. /\ \A i \in Jobs \ wr.jobs : job'[i] = job[i]
      /\ \A i \in wr.jobs : /\ job'[i].status = "PENDING" /\ job[i].status = "RUNNING"
                            /\ job'[i].attempts = IF wr.reset THEN 0 ELSE job[i].attempts
                            /\ job[i].attempts < MaxAttempts /\ job[i].attempts \in Nat
  BY <1>0 DEF Committed, RecoversJobs, JobsAfter, TypeOK, JobRow
<1>3. \A i \in wr.jobs : job'[i].attempts < MaxAttempts /\ job'[i].attempts <= MaxAttempts
  <2>1. \A i \in wr.jobs : job'[i].attempts \in Nat /\ job'[i].attempts < MaxAttempts
    BY <1>0, <1>2
  <2> QED BY <2>1, IndexingAssumptions
<1>4. ASSUME NEW i \in Jobs, Operation[i] = "UPLOAD"
      PROVE  (CASE job'[i].status = "ABSENT" -> doc'[DocOf[i]] = "ABSENT"
                [] job'[i].status \in ActiveJob -> doc'[DocOf[i]] \in {"PROCESSING", "READY", "DELETED"}
                [] job'[i].status = "SUCCEEDED" -> doc'[DocOf[i]] \in {"READY", "DELETED"}
                [] OTHER -> doc'[DocOf[i]] \in {"FAILED", "DELETED"})
  <2>1. (CASE job[i].status = "ABSENT" -> doc[DocOf[i]] = "ABSENT"
           [] job[i].status \in ActiveJob -> doc[DocOf[i]] \in {"PROCESSING", "READY", "DELETED"}
           [] job[i].status = "SUCCEEDED" -> doc[DocOf[i]] \in {"READY", "DELETED"}
           [] OTHER -> doc[DocOf[i]] \in {"FAILED", "DELETED"})
    BY <1>4 DEF RowsAgree, StatusesAgree
  <2>2. CASE i \in wr.jobs
    <3>1. job'[i].status = "PENDING" /\ job[i].status = "RUNNING"
      BY <1>2, <2>2
    <3>2. doc[DocOf[i]] \in {"PROCESSING", "READY", "DELETED"}
      BY <2>1, <3>1 DEF ActiveJob
    <3> QED BY <1>1, <3>1, <3>2 DEF ActiveJob
  <2>3. CASE i \notin wr.jobs
    BY <1>1, <1>2, <2>1, <2>3
  <2> QED BY <2>2, <2>3
<1>5. StatusesAgree'
  BY <1>4 DEF StatusesAgree
<1>6. \A d : UploadDone(d) => UploadDone(d)'
  BY <1>2 DEF UploadDone
<1>7. ASSUME NEW i \in Jobs
      PROVE  /\ Operation[i] = "REINDEX" /\ job'[i].status # "ABSENT" => UploadDone(DocOf[i])'
             /\ job'[i].attempts <= MaxAttempts
             /\ job'[i].status \in {"ABSENT", "PENDING"} => job'[i].attempts < MaxAttempts
  <2>1. CASE i \in wr.jobs
    <3>1. job[i].status # "ABSENT"
      BY <1>2, <2>1
    <3> QED BY <1>3, <1>6, <2>1, <3>1 DEF RowsAgree
  <2>2. CASE i \notin wr.jobs
    BY <1>2, <1>6, <2>2 DEF RowsAgree
  <2> QED BY <2>1, <2>2
<1>8. RowsAgree'
  BY <1>1, <1>5, <1>7 DEF RowsAgree
<1>9. Effects(wr)
  BY <1>1, <1>2, <1>6 DEF Effects
<1>10. KeepsFinals
  BY <1>1, <1>2 DEF KeepsFinals
<1> QED BY <1>8, <1>9, <1>10

\* A commit that publishes the document of a RUNNING job.
LEMMA PublicationCommits ==
  ASSUME RowsAgree, TypeOK, NEW wr \in Write, Committed(wr), NEW j \in Jobs,
         PublishesDoc(wr, j), job[j].status = "RUNNING"
  PROVE  /\ RowsAgree' /\ Effects(wr) /\ KeepsFinals
         /\ job' = job /\ doc'[DocOf[j]] = "READY"
<1>0. /\ DocOf \in [Jobs -> Docs] /\ DocOf[j] \in Docs /\ Operation[j] \in {"UPLOAD", "REINDEX"}
      /\ job \in [Jobs -> JobRow]
  BY IndexingAssumptions DEF TypeOK
<1>1. job' = job
  BY <1>0 DEF Committed, JobsAfter, PublishesDoc
<1>2. /\ \A d \in Docs \ {DocOf[j]} : doc'[d] = doc[d]
      /\ doc'[DocOf[j]] = "READY" /\ doc[DocOf[j]] # "DELETED"
  BY <1>0 DEF Committed, PublishesDoc
<1>3. ASSUME NEW i \in Jobs, Operation[i] = "UPLOAD", DocOf[i] = DocOf[j]
      PROVE  job[i].status \in {"RUNNING", "SUCCEEDED"}
  <2>1. CASE Operation[j] = "UPLOAD"
    BY <1>3, <2>1, IndexingAssumptions
  <2>2. CASE Operation[j] = "REINDEX"
    <3>1. UploadDone(DocOf[j])
      BY <2>2 DEF RowsAgree
    <3>2. PICK k \in Jobs : Operation[k] = "UPLOAD" /\ DocOf[k] = DocOf[j] /\ job[k].status = "SUCCEEDED"
      BY <3>1 DEF UploadDone
    <3>3. k = i
      BY <1>3, <3>2, IndexingAssumptions
    <3> QED BY <3>2, <3>3
  <2> QED BY <1>0, <2>1, <2>2
<1>4. ASSUME NEW i \in Jobs, Operation[i] = "UPLOAD"
      PROVE  (CASE job'[i].status = "ABSENT" -> doc'[DocOf[i]] = "ABSENT"
                [] job'[i].status \in ActiveJob -> doc'[DocOf[i]] \in {"PROCESSING", "READY", "DELETED"}
                [] job'[i].status = "SUCCEEDED" -> doc'[DocOf[i]] \in {"READY", "DELETED"}
                [] OTHER -> doc'[DocOf[i]] \in {"FAILED", "DELETED"})
  <2>1. CASE DocOf[i] = DocOf[j]
    <3>1. job'[i].status \in {"RUNNING", "SUCCEEDED"} /\ doc'[DocOf[i]] = "READY"
      BY <1>1, <1>2, <1>3, <1>4, <2>1
    <3> QED BY <3>1 DEF ActiveJob
  <2>2. CASE DocOf[i] # DocOf[j]
    <3>1. job'[i] = job[i] /\ doc'[DocOf[i]] = doc[DocOf[i]] /\ StatusesAgree
      BY <1>0, <1>1, <1>2, <2>2 DEF RowsAgree
    <3> QED BY <1>4, <3>1 DEF StatusesAgree
  <2> QED BY <2>1, <2>2
<1>5. StatusesAgree'
  BY <1>4 DEF StatusesAgree
<1>6. \A d : UploadDone(d) => UploadDone(d)'
  BY <1>1 DEF UploadDone
<1>7. \A d \in Docs : doc'[d] # "ABSENT" => \E i \in Jobs : Operation[i] = "UPLOAD" /\ DocOf[i] = d
  <2>1. \E i \in Jobs : Operation[i] = "UPLOAD" /\ DocOf[i] = DocOf[j]
    BY <1>0 DEF RowsAgree, UploadDone
  <2> QED BY <1>2, <2>1 DEF RowsAgree
<1>8. RowsAgree'
  BY <1>1, <1>5, <1>6, <1>7 DEF RowsAgree
<1>9. Effects(wr)
  BY <1>0, <1>1, <1>2, <1>6 DEF Effects
<1>10. KeepsFinals
  BY <1>1, <1>2 DEF KeepsFinals
<1> QED BY <1>1, <1>2, <1>8, <1>9, <1>10

\* What another transaction will write of a job that the commit does not.
LEMMA WriteSurvives ==
  ASSUME RowsAgree, NEW wr, Effects(wr), NEW x, NEW j \in Jobs \ wr.jobs
  PROVE  /\ EndsJob(x, j) => EndsJob(x, j)'
         /\ SucceedsJob(x, j) => SucceedsJob(x, j)'
         /\ RetriesJob(x, j) => RetriesJob(x, j)'
         /\ PublishesDoc(x, j) /\ job[j].status # "ABSENT" => PublishesDoc(x, j)'
<1>1. /\ DocOf[j] \in Docs /\ Operation[j] \in {"UPLOAD", "REINDEX"} /\ job'[j] = job[j]
      /\ doc'[DocOf[j]] = "DELETED" <=> doc[DocOf[j]] = "DELETED"
  BY IndexingAssumptions DEF Effects
<1>2. Operation[j] = "UPLOAD" \/ UploadDone(DocOf[j]) =>
        (doc[DocOf[j]] = "READY" => doc'[DocOf[j]] = "READY")
  BY <1>1 DEF Effects
<1>3. TouchesDoc(j)' <=> TouchesDoc(j)
  BY <1>1 DEF TouchesDoc
<1>4. EndsJob(x, j) => EndsJob(x, j)'
  BY <1>1, <1>3 DEF EndsJob, Follows
<1>5. SucceedsJob(x, j) => SucceedsJob(x, j)'
  BY <1>1, <1>2 DEF SucceedsJob
<1>6. RetriesJob(x, j) => RetriesJob(x, j)'
  BY <1>1, <1>3 DEF RetriesJob, Follows
<1>7. job[j].status # "ABSENT" => Operation[j] = "UPLOAD" \/ UploadDone(DocOf[j])
  BY <1>1 DEF RowsAgree
<1>8. PublishesDoc(x, j) /\ job[j].status # "ABSENT" => PublishesDoc(x, j)'
  BY <1>1, <1>2, <1>7 DEF PublishesDoc
<1> QED BY <1>4, <1>5, <1>6, <1>8

\* A commit: the rows agree again, the other runs, requests and transactions
\* still fit them, and nothing final is undone.
LEMMA CommitStep ==
  ASSUME OutcomeInv, CalmOwner, NEW t \in Threads, Commit(t)
  PROVE  RowsAgree' /\ ThreadsAgree' /\ KeepsFinals
<1> DEFINE wr == thread[t].write
           th == IF thread[t].next = "idle" THEN IdleThread
                 ELSE [thread[t] EXCEPT !.pc = thread[t].next, !.write = NoWrite, !.sends = {},
                                        !.holds = NoJob]
<1>0. /\ thread[t].pc = "tx" /\ ~Waits(t) /\ stale' = stale
      /\ thread' = [thread EXCEPT ![t] = th] /\ Committed(wr)
  BY DEF Commit, Committed
<1>1. /\ thread[t] \in Thread /\ Shape(t, thread[t]) /\ wr \in Write /\ RowsAgree /\ TypeOK
      /\ thread \in [Threads -> Thread] /\ NoJob \notin Jobs
      /\ thread[t].next \in {"idle", "indexed", "failed", "deleting"}
      /\ SoleIndexer /\ OpenTogether
      /\ Workers \cap Clients = {} /\ \A b, c \in Clients : b = c
  BY ThreadTypes, IndexingAssumptions
     DEF OutcomeInv, ThreadsAgree, RagInv, TypeOK, Thread, CalmOwner
<1>2. /\ th.job \in {NoJob, thread[t].job} /\ th.holds = NoJob /\ th.pc = thread[t].next
      /\ th.pc = "idle" => th.job = NoJob
      /\ th.pc # "idle" => th.job = thread[t].job /\ th.doc = thread[t].doc
  BY <1>1 DEF Thread, IdleThread
<1> HIDE DEF th
<1>3. \A u \in Threads : thread'[u] = IF u = t THEN th ELSE thread[u]
  BY <1>0, <1>1
<1>4. \A u \in Workers : u \in Threads /\ thread'[u].job \in {NoJob, thread[u].job}
  BY <1>2, <1>3 DEF Threads
<1>5. \A j \in Jobs : Unclaimed(j) => Unclaimed(j)'
  BY <1>1, <1>4 DEF Unclaimed
<1>6. t \in Workers => WorkerTx(t) /\ RunOK(t)
  BY DEF OutcomeInv, ThreadsAgree
<1>7. t \in Clients => RequestTx(t) /\ RequestOK(t)
  BY DEF OutcomeInv, ThreadsAgree
\* What is committed.
<1>8. RowsAgree' /\ Effects(wr) /\ KeepsFinals
  <2>1. ASSUME NEW j \in Jobs,
               EndsJob(wr, j) \/ SucceedsJob(wr, j) \/ RetriesJob(wr, j) \/ CreatesJob(wr, j)
        PROVE  RowsAgree' /\ Effects(wr) /\ KeepsFinals
    BY <1>0, <1>1, <2>1, OneJobCommits
  <2>2. ASSUME RecoversJobs(wr) PROVE RowsAgree' /\ Effects(wr) /\ KeepsFinals
    BY <1>0, <1>1, <2>2, RecoveryCommits
  <2>3. ASSUME thread[t].holds \in Jobs, PublishesDoc(wr, thread[t].holds)
        PROVE  RowsAgree' /\ Effects(wr) /\ KeepsFinals
    <3>1. job[thread[t].holds].status = "RUNNING"
      BY <1>1, <2>3, Holders
    <3> QED BY <1>0, <1>1, <2>3, <3>1, PublicationCommits
  <2>4. CASE t \in Workers
    BY <1>0, <1>6, <2>1, <2>2, <2>3, <2>4 DEF WorkerTx
  <2>5. CASE t \in Clients
    BY <1>0, <1>7, <2>1, <2>5 DEF RequestTx
  <2> QED BY <2>4, <2>5 DEF Threads
<1>9. SoleIndexer'
  BY <1>1, <1>4 DEF SoleIndexer
\* The thread that has committed.
<1>10. ASSUME t \in Workers PROVE RunOK(t)'
  <2> DEFINE j == thread[t].job
  <2>1. CASE thread[t].next = "idle"
    BY <1>2, <1>3, <2>1 DEF RunOK
  <2>2. CASE thread[t].next = "failed"
    <3>1. EndsJob(wr, j) /\ wr.status = "FAILED" /\ j \in Jobs
      BY <1>0, <1>6, <1>10, <2>2 DEF WorkerTx
    <3>2. job'[j].status = "FAILED"
      BY <1>0, <3>1 DEF Committed, JobsAfter, EndsJob
    <3>3. thread'[t] = th /\ th.pc = "failed" /\ th.job = j /\ j # NoJob
      BY <1>1, <1>2, <1>3, <2>2, <3>1
    <3> QED BY <1>0, <1>2, <1>6, <1>10, <3>2, <3>3 DEF RunOK
  <2>3. CASE thread[t].next = "indexed"
    <3>1. thread[t].holds \in Jobs /\ PublishesDoc(wr, thread[t].holds)
      BY <1>0, <1>6, <1>10, <2>3 DEF WorkerTx
    <3>2. thread[t].holds = j /\ j \in Jobs /\ job[j].status = "RUNNING"
      BY <1>1, <3>1, Holders
    <3>3. job' = job /\ doc'[DocOf[j]] = "READY"
      BY <1>0, <1>1, <3>1, <3>2, PublicationCommits
    <3>4. thread'[t] = th /\ th.pc = "indexed" /\ th.job = j /\ j # NoJob
      BY <1>1, <1>2, <1>3, <2>3, <3>2
    <3> QED BY <1>0, <1>2, <1>6, <1>10, <3>2, <3>3, <3>4 DEF RunOK
  <2>4. thread[t].next # "deleting"
    BY <1>0, <1>6, <1>10 DEF WorkerTx
  <2> QED BY <1>1, <2>1, <2>2, <2>3, <2>4
\* The runs of other workers.
<1>11. ASSUME NEW u \in Workers, u # t PROVE RunOK(u)'
  <2> DEFINE j == thread[u].job
  <2>1. RunOK(u) /\ thread'[u] = thread[u]
    BY <1>3, <1>4, <1>11 DEF OutcomeInv, ThreadsAgree
  <2>2. CASE j = NoJob
    BY <1>0, <2>1, <2>2 DEF RunOK
  <2>3. CASE j # NoJob /\ j \notin wr.jobs
    <3>1. j \in Jobs /\ DocOf[j] \in Docs
      BY <1>4, <2>3, ThreadTypes, IndexingAssumptions
    <3>2. job'[j] = job[j]
      BY <1>8, <2>3, <3>1 DEF Effects
    <3>3. Operation[j] = "UPLOAD" /\ doc[DocOf[j]] \in {"READY", "DELETED"}
            => doc'[DocOf[j]] \in {"READY", "DELETED"}
      BY <1>8, <2>3, <3>1 DEF Effects
    <3> QED BY <1>0, <2>1, <3>2, <3>3 DEF RunOK
  <2>4. CASE j # NoJob /\ j \in wr.jobs
    <3>1. ~Unclaimed(j)
      BY DEF Unclaimed
    <3>2. t \notin Workers
      <4> SUFFICES ASSUME t \in Workers PROVE FALSE
        OBVIOUS
      <4>1. thread[t].job # j
        BY <1>1, <1>11, <2>4 DEF SoleIndexer
      <4> QED BY <1>0, <1>6, <2>4, <3>1, <4>1
              DEF WorkerTx, PublishesDoc, EndsJob, SucceedsJob, RetriesJob, RecoversJobs
    <3>3. RequestTx(t)
      BY <1>7, <3>2 DEF Threads
    <3>4. EndsJob(wr, j) /\ wr.status = "CANCELLED" /\ j \in Jobs
      BY <1>0, <2>4, <3>1, <3>3 DEF RequestTx, EndsJob, RetriesJob, CreatesJob
    <3>5. job'[j].status = "CANCELLED"
      BY <1>0, <3>4 DEF Committed, JobsAfter, EndsJob
    <3> QED BY <1>0, <2>1, <3>5 DEF RunOK
  <2> QED BY <2>2, <2>3, <2>4
\* The requests.
<1>12. ASSUME NEW c \in Clients PROVE RequestOK(c)'
  <2>1. RequestOK(c) /\ c \in Threads
    BY DEF OutcomeInv, ThreadsAgree, Threads
  <2>2. \A d \in Docs : doc[d] # "ABSENT" => doc'[d] # "ABSENT"
    BY <1>8 DEF Effects
  <2>3. CASE c = t
    <3>1. thread[t].next # "idle" => thread[t].next = "deleting" /\ thread[t].doc \in Docs
      BY <1>0, <1>1, <1>12, <2>3 DEF Shape
    <3>2. thread'[c] = th
      BY <1>3, <2>1, <2>3
    <3>3. th.pc \in {"idle", "deleting"} /\ th.job = NoJob /\ th.holds = NoJob
      BY <1>2, <2>1, <2>3, <3>1 DEF RequestOK
    <3>4. th.pc = "deleting" => th.doc \in Docs /\ doc[th.doc] # "ABSENT"
      BY <1>0, <1>2, <2>1, <2>3, <3>1 DEF RequestOK
    <3> QED BY <2>2, <3>2, <3>3, <3>4 DEF RequestOK
  <2>4. CASE c # t
    <3>1. /\ thread'[c] = thread[c]
          /\ thread[c].pc = "deleting" \/ (thread[c].pc = "tx" /\ thread[c].next = "deleting")
             => thread[c].doc \in Docs
      BY <1>3, <2>1, <2>4, ThreadTypes DEF Shape
    <3> QED BY <2>1, <2>2, <3>1 DEF RequestOK
  <2> QED BY <2>3, <2>4
\* The transactions of the others.
<1>13. ASSUME NEW u \in Threads, thread'[u].pc = "tx"
       PROVE  u # t /\ thread'[u] = thread[u] /\ thread[u].pc = "tx"
  BY <1>1, <1>2, <1>3, <1>13
<1>14. ASSUME NEW w \in Workers PROVE WorkerTx(w)'
  <2> SUFFICES ASSUME thread'[w].pc = "tx" PROVE WorkerTx(w)'
    BY DEF WorkerTx
  <2>1. w \in Threads /\ w # t /\ thread'[w] = thread[w] /\ thread[w].pc = "tx"
    BY <1>4, <1>13
  <2>2. t \in Clients
    BY <1>0, <1>1, <2>1 DEF OpenTogether, Threads
  <2>3. PICK i \in Jobs : EndsJob(wr, i)
    <3>1. wr.status = "CANCELLED"
      BY <1>0, <1>1, <2>1, <2>2 DEF OpenTogether
    <3> QED BY <1>0, <1>7, <2>2, <3>1 DEF RequestTx, RetriesJob, CreatesJob
  <2>4. wr.jobs = {i} /\ i \notin thread[w].write.jobs
    BY <1>0, <1>1, <2>1, <2>2, <2>3 DEF OpenTogether, EndsJob
  <2>5. thread[w].holds # i
    BY <1>0, <1>1, <2>1, <2>3, <2>4 DEF Waits, LockedAgainst
  <2>6. PICK x \in Write : x = thread[w].write
    BY <1>1, <2>1 DEF Thread
  <2>7. WorkerTx(w)
    BY DEF OutcomeInv, ThreadsAgree
  <2>8. CASE thread[w].holds \in Jobs /\ thread[w].next = "indexed" /\ PublishesDoc(x, thread[w].holds)
    <3>1. PICK h \in Jobs : h = thread[w].holds
      BY <2>8
    <3>2. job[h].status = "RUNNING" /\ h \notin wr.jobs
      BY <1>1, <2>1, <2>4, <2>5, <3>1, Holders
    <3>3. PublishesDoc(x, h)'
      BY <1>1, <1>8, <2>8, <3>1, <3>2, WriteSurvives
    <3> QED BY <2>1, <2>6, <2>8, <3>1, <3>3 DEF WorkerTx
  <2>9. CASE /\ thread[w].holds = NoJob /\ thread[w].job \in Jobs
             /\ \/ /\ EndsJob(x, thread[w].job)
                   /\ thread[w].next = IF x.status = "FAILED" THEN "failed" ELSE "idle"
                \/ SucceedsJob(x, thread[w].job) /\ thread[w].next = "idle"
                \/ RetriesJob(x, thread[w].job) /\ thread[w].next = "idle"
    <3>1. PICK h \in Jobs : h = thread[w].job
      BY <2>9
    <3>2. h \notin wr.jobs
      BY <2>4, <2>6, <2>9, <3>1 DEF EndsJob, SucceedsJob, RetriesJob
    <3>3. \/ /\ EndsJob(x, h)' /\ thread[w].next = IF x.status = "FAILED" THEN "failed" ELSE "idle"
          \/ SucceedsJob(x, h)' /\ thread[w].next = "idle"
          \/ RetriesJob(x, h)' /\ thread[w].next = "idle"
      BY <1>1, <1>8, <2>9, <3>1, <3>2, WriteSurvives
    <3> QED BY <2>1, <2>6, <2>9, <3>1, <3>3 DEF WorkerTx
  <2>10. CASE /\ thread[w].holds = NoJob /\ thread[w].job = NoJob /\ thread[w].next = "idle"
              /\ RecoversJobs(x)
    <3>1. \A h \in x.jobs : h \in Jobs \ wr.jobs
      BY <2>4, <2>6 DEF Write
    <3>2. \A h \in x.jobs : job'[h] = job[h] /\ Unclaimed(h)'
      BY <1>5, <1>8, <2>10, <3>1 DEF Effects, RecoversJobs
    <3>3. RecoversJobs(x)'
      BY <2>10, <3>2 DEF RecoversJobs
    <3> QED BY <2>1, <2>6, <2>10, <3>3 DEF WorkerTx
  <2> QED BY <2>1, <2>6, <2>7, <2>8, <2>9, <2>10 DEF WorkerTx
<1>15. ASSUME NEW c \in Clients PROVE RequestTx(c)'
  <2> SUFFICES ASSUME thread'[c].pc = "tx" PROVE RequestTx(c)'
    BY DEF RequestTx
  <2>1. c \in Threads /\ c # t /\ thread'[c] = thread[c] /\ thread[c].pc = "tx"
    BY <1>13 DEF Threads
  <2>2. t \in Workers
    BY <1>1, <2>1 DEF Threads
  <2>3. /\ thread[c].write.status = "CANCELLED"
        /\ \A i \in thread[c].write.jobs : i \notin wr.jobs
    BY <1>0, <1>1, <2>1, <2>2 DEF OpenTogether
  <2>4. PICK x \in Write : x = thread[c].write
    BY <1>1, <2>1 DEF Thread
  <2>5. RequestTx(c)
    BY DEF OutcomeInv, ThreadsAgree
  <2>6. PICK i \in Jobs : EndsJob(x, i)
    BY <2>1, <2>3, <2>4, <2>5 DEF RequestTx, RetriesJob, CreatesJob
  <2>7. i \notin wr.jobs
    BY <2>3, <2>4, <2>6 DEF EndsJob
  <2>8. EndsJob(x, i)'
    BY <1>1, <1>8, <2>6, <2>7, WriteSurvives
  <2> QED BY <2>1, <2>3, <2>4, <2>8 DEF RequestTx
<1>16. OpenTogether'
  <2>1. \A u, w \in Workers : thread'[u].pc = "tx" /\ thread'[w].pc = "tx" => u = w
    BY <1>1, <1>4, <1>13 DEF OpenTogether
  <2>2. \A c \in Clients, w \in Workers : ~(thread'[c].pc = "tx" /\ thread'[w].pc = "tx")
    <3> SUFFICES ASSUME NEW c \in Clients, NEW w \in Workers, thread'[c].pc = "tx", thread'[w].pc = "tx"
                 PROVE  FALSE
      OBVIOUS
    <3>1. c # t /\ w # t /\ thread[w].pc = "tx"
      BY <1>13 DEF Threads
    <3>2. t \in Workers
      BY <1>1, <3>1 DEF Threads
    <3> QED BY <1>0, <1>1, <3>1, <3>2 DEF OpenTogether
  <2> QED BY <2>1, <2>2 DEF OpenTogether
<1> QED BY <1>8, <1>9, <1>10, <1>11, <1>12, <1>14, <1>15, <1>16 DEF ThreadsAgree

-----------------------------------------------------------------------------
(* The invariant and what follows from it.                                 *)

\* Initially nothing exists, and every thread is idle.
LEMMA InitOutcome == Init => OutcomeInv
<1> SUFFICES ASSUME Init PROVE OutcomeInv
  OBVIOUS
<1>1. \A t \in Threads : thread[t].pc = "idle" /\ thread[t].job = NoJob /\ thread[t].holds = NoJob
  BY DEF Init, IdleThread
<1>2. \A w \in Workers : w \in Threads
  BY DEF Threads
<1>3. \A c \in Clients : c \in Threads
  BY DEF Threads
<1>4. ThreadsAgree
  BY <1>1, <1>2, <1>3
     DEF ThreadsAgree, SoleIndexer, RunOK, WorkerTx, RequestOK, RequestTx, OpenTogether
<1>5. RowsAgree
  <2>1. \A j \in Jobs : job[j].status = "ABSENT" /\ job[j].attempts = 0 /\ doc[DocOf[j]] = "ABSENT"
    BY IndexingAssumptions DEF Init
  <2>2. StatusesAgree
    BY <2>1 DEF StatusesAgree, ActiveJob
  <2>3. 0 < MaxAttempts /\ 0 <= MaxAttempts
    BY IndexingAssumptions
  <2>4. \A d \in Docs : doc[d] = "ABSENT"
    BY DEF Init
  <2> QED BY <2>1, <2>2, <2>3, <2>4 DEF RowsAgree
<1> QED BY <1>4, <1>5, InitInv DEF OutcomeInv

\* A step without a write undoes nothing final.
LEMMA FinalsUntouched ==
  ASSUME job' = job, doc' = doc
  PROVE  KeepsFinals
  BY DEF KeepsFinals

\* A step keeps the agreement, and nothing final is undone.
LEMMA StepOutcome ==
  ASSUME OutcomeInv, CalmOwner, Next
  PROVE  RowsAgree' /\ ThreadsAgree' /\ KeepsFinals
<1>1. ASSUME NEW c \in Clients, ClientStep(c) PROVE RowsAgree' /\ ThreadsAgree' /\ KeepsFinals
  <2>1. RowsAgree' /\ ThreadsAgree'
    BY <1>1, ClientSteps
  <2>2. ASSUME NEW j \in Jobs, Upload(c, j) PROVE KeepsFinals
    <3>1. /\ job[j].status = "ABSENT" /\ doc[DocOf[j]] = "ABSENT" /\ DocOf[j] \in Docs
          /\ doc' = [doc EXCEPT ![DocOf[j]] = "PROCESSING"]
          /\ \A i \in Jobs : i # j => job'[i] = job[i]
      BY <2>2, IndexingAssumptions DEF Upload, OutcomeInv, RagInv, TypeOK
    <3>2. \A d \in Docs : d # DocOf[j] => doc'[d] = doc[d]
      BY <3>1 DEF OutcomeInv, RagInv, TypeOK
    <3> QED BY <3>1, <3>2 DEF KeepsFinals
  <2>3. ASSUME DeleteRecord(c) PROVE KeepsFinals
    <3>1. /\ job' = job
          /\ doc' = doc \/ doc' = [doc EXCEPT ![thread[c].doc] = "DELETED"]
      BY <2>3 DEF DeleteRecord
    <3>2. \A d \in Docs : doc'[d] = doc[d] \/ doc'[d] = "DELETED"
      BY <3>1 DEF OutcomeInv, RagInv, TypeOK
    <3> QED BY <3>1, <3>2 DEF KeepsFinals
  <2>4. ASSUME NEW j \in Jobs, Reindex(c, j) \/ RequestCancel(c, j) \/ RequestRetry(c, j)
        PROVE  KeepsFinals
    BY <2>4, FinalsUntouched DEF Reindex, RequestCancel, RequestRetry, UserOp
  <2>5. ASSUME NEW d \in Docs, RequestDelete(c, d) PROVE KeepsFinals
    BY <2>5, FinalsUntouched DEF RequestDelete, UserOp
  <2>6. ASSUME Unindex(c) \/ Search(c) \/ Rebuild(c) PROVE KeepsFinals
    BY <2>6, FinalsUntouched DEF Unindex, Search, Rebuild
  <2> QED BY <1>1, <2>1, <2>2, <2>3, <2>4, <2>5, <2>6 DEF ClientStep
<1>2. ASSUME NEW w \in Workers, WorkerStep(w) PROVE RowsAgree' /\ ThreadsAgree' /\ KeepsFinals
  <2>1. ASSUME NEW m \in broker, Deliver(w, m) PROVE RowsAgree' /\ ThreadsAgree' /\ KeepsFinals
    <3>1. m[1] \in Jobs /\ doc' = doc /\ job \in [Jobs -> JobRow]
      BY <2>1 DEF Deliver, OutcomeInv, RagInv, TypeOK
    <3>2. \A i \in Jobs : job'[i] = job[i] \/ job[i].status = "PENDING"
      BY <2>1, <3>1 DEF Deliver, Claimable
    <3> QED BY <2>1, <3>1, <3>2, DeliverStep DEF KeepsFinals
  <2>2. ASSUME Start(w) \/ Finish(w) \/ RecordFailure(w) \/ RetryTask(w)
        PROVE  RowsAgree' /\ ThreadsAgree' /\ KeepsFinals
    BY <2>2, WritingSteps, FinalsUntouched DEF Start, Finish, RecordFailure, RetryTask
  <2>3. ASSUME \/ Step(w) \/ SeesCancel(w) \/ ParseFails(w) \/ LockJob(w)
               \/ SwapIndex(w) \/ Publish(w) \/ Restore(w)
        PROVE  RowsAgree' /\ ThreadsAgree' /\ KeepsFinals
    <3>1. UNCHANGED <<doc, job>>
      BY <2>3 DEF Step, SeesCancel, ParseFails, LockJob, SwapIndex, Publish, Restore
    <3> QED BY <2>3, <3>1, RunningSteps, FinalsUntouched
  <2>4. ASSUME Recover(w) PROVE RowsAgree' /\ ThreadsAgree' /\ KeepsFinals
    BY <2>4, RecoverStep, FinalsUntouched DEF Recover
  <2>5. ASSUME Reconcile(w) \/ Crash(w) PROVE RowsAgree' /\ ThreadsAgree' /\ KeepsFinals
    BY <2>5, QuietEnvironment, FinalsUntouched DEF Reconcile, Crash
  <2> QED BY <1>2, <2>1, <2>2, <2>3, <2>4, <2>5 DEF WorkerStep
<1>3. ASSUME NEW t \in Threads, Commit(t) PROVE RowsAgree' /\ ThreadsAgree' /\ KeepsFinals
  BY <1>3, CommitStep
<1>4. ASSUME NEW t \in Threads, Reject(t) PROVE RowsAgree' /\ ThreadsAgree' /\ KeepsFinals
  BY <1>4, QuietEnvironment, FinalsUntouched DEF Reject
<1>5. ASSUME NEW t \in Threads, NEW u \in Threads, Deadlock(t, u)
      PROVE  RowsAgree' /\ ThreadsAgree' /\ KeepsFinals
  BY <1>5, QuietEnvironment, FinalsUntouched DEF Deadlock
<1>6. ASSUME NEW j \in Jobs, HeartbeatAges(j) PROVE RowsAgree' /\ ThreadsAgree' /\ KeepsFinals
  BY <1>6, QuietEnvironment, FinalsUntouched DEF HeartbeatAges
<1> QED BY <1>1, <1>2, <1>3, <1>4, <1>5, <1>6 DEF Next

\* A stuttering step keeps everything.
LEMMA StutterOutcome ==
  ASSUME OutcomeInv, UNCHANGED vars
  PROVE  RowsAgree' /\ ThreadsAgree' /\ KeepsFinals
<1>1. \A t : (WorkerTx(t) => WorkerTx(t)') /\ (RequestTx(t) => RequestTx(t)')
  BY DEF vars, WorkerTx, RequestTx, PublishesDoc, EndsJob, SucceedsJob, RetriesJob, CreatesJob,
         RecoversJobs, Unclaimed, Follows, TouchesDoc, UploadDone
<1>2. SoleIndexer' /\ OpenTogether' /\ \A t : (RunOK(t) => RunOK(t)') /\ (RequestOK(t) => RequestOK(t)')
  BY DEF vars, OutcomeInv, ThreadsAgree, SoleIndexer, OpenTogether, RunOK, RequestOK
<1> QED BY <1>1, <1>2, RowsStay, FinalsUntouched DEF vars, OutcomeInv, ThreadsAgree

\* The invariant is inductive.
LEMMA NextOutcome ==
  ASSUME CalmOwner, OutcomeInv, [Next]_vars
  PROVE  OutcomeInv' /\ KeepsFinals
<1>1. RagInv'
  BY NextInv DEF OutcomeInv
<1>2. RowsAgree' /\ ThreadsAgree' /\ KeepsFinals
  BY StepOutcome, StutterOutcome
<1> QED BY <1>1, <1>2 DEF OutcomeInv

\* However workers crash, messages are lost and redelivered, stale jobs are
\* recovered and the owner cancels, retries and deletes: one worker at a time
\* runs a job, the document of an upload has the status that its job says, and
\* no job is run more often than it may.
THEOREM RunsStayAgreed == ASSUME CalmOwner PROVE Spec => []RunsAgree
<1>1. Init => OutcomeInv
  BY InitOutcome
<1>2. OutcomeInv /\ [Next]_vars => OutcomeInv'
  BY NextOutcome
<1>3. OutcomeInv => RunsAgree
  BY DEF OutcomeInv, RowsAgree, ThreadsAgree, RunsAgree, AttemptsBounded
<1> QED BY <1>1, <1>2, <1>3, PTL DEF Spec

\* In the same circumstances a job that SUCCEEDED stays so, a deleted document
\* stays deleted, and a READY one is READY until it is deleted, unless the run
\* of its own upload has not ended yet.
THEOREM FinalsAreKept == ASSUME CalmOwner PROVE Spec => FinalsStay
<1>1. Init => OutcomeInv
  BY InitOutcome
<1>2. OutcomeInv /\ [Next]_vars => OutcomeInv'
  BY NextOutcome
<1>3. OutcomeInv /\ [Next]_vars => KeepsFinals
  BY NextOutcome
<1>4. KeepsFinals =>
        [\A j \in Jobs : job[j].status = "SUCCEEDED" => job'[j].status = "SUCCEEDED"]_vars
  BY DEF KeepsFinals
<1>5. KeepsFinals => [\A d \in Docs : doc[d] = "DELETED" => doc'[d] = "DELETED"]_vars
  BY DEF KeepsFinals
<1>6. KeepsFinals =>
        [\A d \in Docs : doc[d] = "READY" /\ doc'[d] \notin {"READY", "DELETED"} =>
           \E j \in Jobs : DocOf[j] = d /\ Operation[j] = "UPLOAD" /\ job[j].status \in ActiveJob]_vars
  BY DEF KeepsFinals
<1> QED BY <1>1, <1>2, <1>3, <1>4, <1>5, <1>6, PTL
        DEF Spec, FinalsStay, SucceededIsFinal, DeletedIsFinal, ReadyIsKept

=============================================================================
