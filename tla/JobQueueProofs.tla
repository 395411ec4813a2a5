--------------------------- MODULE JobQueueProofs ---------------------------
(***************************************************************************)
(* Proofs about JobQueue for every number of jobs and processes, every     *)
(* attempt budget and both lease regimes: types and row locks first, then  *)
(* what locking buys the queue.  Whether or not runs outlast their leases, *)
(* the AI bookkeeping survives two workers that settle one job, and the    *)
(* queue lists exactly what can be claimed.  When runs end within their    *)
(* lease, every job is run and settled by its owner only, a final status   *)
(* stays, and the job and what it leaves behind agree.                     *)
(***************************************************************************)
EXTENDS JobQueue, TLAPS

\* What the program counter of a scheduler thread says of its other fields.
Shape(t) ==
  /\ t.pc \in {"idle", "down"} => t.op = "none" /\ t.job = 0 /\ t.reads = {}
  /\ t.pc = "handling" => t.op = "none" /\ t.job \in JobIds /\ t.reads = {}
  /\ t.pc = "settling" => t.op \in Settlements /\ t.job \in JobIds /\ t.reads = {}
  /\ t.pc = "tx" =>
       \/ t.op \in Settlements \union {"claim"} /\ t.job \in JobIds /\ t.reads = {t.job}
       \/ t.op = "sweep" /\ t.job = 0
ThreadShape == \A w \in Workers : Shape(worker[w])

\* Every transition of the entity maps a row to a row.
LEMMA RowTransitions ==
  ASSUME NEW row \in Row, NEW kind, NEW max, NEW permanent, NEW a \in Nat
  PROVE  /\ AbsentRow \in Row
         /\ NewJob(a) \in Row
         /\ \A w \in Workers : Claimed(row, w) \in Row
         /\ Succeeded(row, kind) \in Row
         /\ Failed(row, permanent, max, kind) \in Row
         /\ Deferred(row) \in Row
         /\ Reclaimed(row) \in Row
         /\ RetriedByAdmin(row, a) \in Row
         /\ RetriedByOwner(row, a) \in Row
         /\ Cancelled(row, kind) \in Row
<1> USE DEF Row, Statuses, Active, Claimable, Terminal, Errors, Payloads
<1>1. ScrubPayload(row, kind) \in Payloads
  BY DEF ScrubPayload
<1>2. AbsentRow \in Row /\ NewJob(a) \in Row
  BY DEF AbsentRow, NewJob
<1>3. (\A w \in Workers : Claimed(row, w) \in Row) /\ Reclaimed(row) \in Row
  <2>1. row.attempts \in Nat /\ row.attempts + 1 \in Nat
    OBVIOUS
  <2>2. ASSUME NEW w \in Workers PROVE Claimed(row, w) \in Row
    BY <2>1 DEF Claimed
  <2>3. Reclaimed(row) \in Row
    BY DEF Reclaimed
  <2>. QED
    BY <2>2, <2>3
<1>4. Succeeded(row, kind) \in Row /\ Cancelled(row, kind) \in Row
  BY <1>1 DEF Succeeded, Cancelled
<1>5. Failed(row, permanent, max, kind) \in Row
  <2>1. CASE FailsForGood(row, permanent, max)
    BY <1>1, <2>1 DEF Failed
  <2>2. CASE ~FailsForGood(row, permanent, max)
    BY <2>2 DEF Failed
  <2>. QED
    BY <2>1, <2>2
<1>6. Deferred(row) \in Row
  <2> DEFINE left == IF row.attempts = 0 THEN 0 ELSE row.attempts - 1
  <2>1. row.attempts \in Nat /\ left \in Nat
    OBVIOUS
  <2>2. Deferred(row) = [row EXCEPT !.status = "RETRY", !.lockedBy = NoWorker,
                                    !.error = "NONE", !.attempts = left]
    BY DEF Deferred
  <2> HIDE DEF left
  <2>. QED
    BY <2>1, <2>2
<1>7. RetriedByAdmin(row, a) \in Row /\ RetriedByOwner(row, a) \in Row
  BY DEF RetriedByAdmin, RetriedByOwner
<1>. QED
  BY <1>2, <1>3, <1>4, <1>5, <1>6, <1>7

\* Removing a job leaves a sequence of jobs.
LEMMA DequeuedType ==
  ASSUME queue \in Seq(JobIds), NEW j
  PROVE  Dequeued(j) \in Seq(JobIds)
<1>1. CASE \E i \in 1 .. Len(queue) : queue[i] = j
  <2> DEFINE k == CHOOSE i \in 1 .. Len(queue) : queue[i] = j
  <2>1. k \in 1 .. Len(queue)
    BY <1>1
  <2> HIDE DEF k
  <2>2. /\ SubSeq(queue, 1, k - 1) \in Seq(JobIds)
        /\ SubSeq(queue, k + 1, Len(queue)) \in Seq(JobIds)
    BY <2>1
  <2>3. RemoveAt(queue, k) \in Seq(JobIds)
    BY <2>2 DEF RemoveAt
  <2>. QED
    BY <1>1, <2>3 DEF Dequeued, k
<1>2. CASE ~\E i \in 1 .. Len(queue) : queue[i] = j
  BY <1>2 DEF Dequeued
<1>. QED
  BY <1>1, <1>2

\* The constant rows and worker records.
LEMMA ConstantTypes ==
  AbsentRow \in Row /\ NoRows \in [JobIds -> Row] /\ IdleWorker \in Worker
<1>1. AbsentRow \in Row
  BY DEF AbsentRow, Row, Statuses, Active, Claimable, Terminal, Errors, Payloads
<1>2. NoRows \in [JobIds -> Row]
  BY <1>1 DEF NoRows
<1>3. IdleWorker \in Worker
  BY <1>2 DEF IdleWorker, Worker, Ops, Settlements
<1>. QED
  BY <1>1, <1>2, <1>3

\* A commit leaves every worker record well typed.
LEMMA MovedType ==
  ASSUME TypeOK, NEW S, NEW v, NEW next \in Worker
  PROVE  Moved(S, v, next) \in [Workers -> Worker]
<1>1. ASSUME NEW u \in Workers
      PROVE  [worker[u] EXCEPT !.fresh = IF worker[u].reads \cap S = {} THEN @ ELSE "STALE"] \in Worker
  <2>1. worker[u] \in Worker
    BY DEF TypeOK
  <2>. QED BY ONLY <2>1 DEF Worker
<1>. QED BY <1>1 DEF Moved

\* So does a commit of the API.
LEMMA OvertakenType ==
  ASSUME TypeOK, NEW S
  PROVE  Overtaken(S) \in [Workers -> Worker]
  BY MovedType, ConstantTypes DEF Overtaken

\* A flush writes rows.
LEMMA FlushedType ==
  ASSUME TypeOK, NEW w \in Workers
  PROVE  Flushed(w) \in [JobIds -> Row]
  BY DEF Flushed, TypeOK, Worker

\* The admission of a job is a number and moves only the AI bookkeeping.
LEMMA AdmitTypes ==
  ASSUME TypeOK, NEW j \in JobIds
  PROVE  /\ Admission(j) \in Nat
         /\ Admit(j) => admissions' \in [JobIds -> Nat] /\ redis' \subseteq JobIds \X Nat
<1>1. Admission(j) \in Nat
  BY DEF TypeOK, Admission
<1>2. ASSUME Admit(j) PROVE admissions' \in [JobIds -> Nat]
  BY <1>1, <1>2 DEF TypeOK, Admit
<1>3. ASSUME Admit(j) PROVE redis' \subseteq JobIds \X Nat
  BY <1>1, <1>3 DEF TypeOK, Admit
<1>. QED
  BY <1>1, <1>2, <1>3

\* Initially every variable has its type.
LEMMA InitTypeOK == Init => TypeOK
  BY ConstantTypes, QueueAssumptions DEF Init, TypeOK

\* Steps of the API and of time keep the types.
LEMMA JobStepTypeOK ==
  ASSUME TypeOK, NEW j \in JobIds, JobStep(j)
  PROVE  TypeOK'
<1>0. /\ job[j] \in Row /\ Kind[j] \in Kinds /\ job \in [JobIds -> Row]
      /\ Admission(j) \in Nat
  BY AdmitTypes, QueueAssumptions DEF TypeOK
<1>1. CASE Enqueue(j)
  <2>1. NewJob(Admission(j)) \in Row
    BY <1>0, RowTransitions
  <2>2. job' \in [JobIds -> Row] /\ queue' \in Seq(JobIds)
    BY <1>0, <1>1, <2>1 DEF Enqueue, TypeOK
  <2>. QED
    BY <1>1, <2>2, AdmitTypes DEF Enqueue, TypeOK, budget
<1>2. CASE AdminRetry(j)
  <2>1. RetriedByAdmin(job[j], Admission(j)) \in Row
    BY <1>0, RowTransitions
  <2>2. job' \in [JobIds -> Row] /\ queue' \in Seq(JobIds)
    BY <1>0, <1>2, <2>1 DEF AdminRetry, TypeOK
  <2>3. worker' \in [Workers -> Worker]
    BY <1>2, OvertakenType DEF AdminRetry
  <2>4. retries' \in 0 .. MaxRetries
    BY <1>2, QueueAssumptions DEF AdminRetry, TypeOK
  <2>. QED
    BY <1>2, <2>2, <2>3, <2>4, AdmitTypes DEF AdminRetry, TypeOK
<1>3. CASE OwnerRetry(j)
  <2>1. RetriedByOwner(job[j], Admission(j)) \in Row
    BY <1>0, RowTransitions
  <2>2. job' \in [JobIds -> Row] /\ queue' \in Seq(JobIds)
    BY <1>0, <1>3, <2>1 DEF OwnerRetry, TypeOK
  <2>3. worker' \in [Workers -> Worker]
    BY <1>3, OvertakenType DEF OwnerRetry
  <2>4. retries' \in 0 .. MaxRetries
    BY <1>3, QueueAssumptions DEF OwnerRetry, TypeOK
  <2>. QED
    BY <1>3, <2>2, <2>3, <2>4, AdmitTypes DEF OwnerRetry, TypeOK
<1>4. CASE AdminCancel(j)
  <2>1. Cancelled(job[j], Kind[j]) \in Row
    BY <1>0, RowTransitions
  <2>2. job' \in [JobIds -> Row]
    BY <1>0, <1>4, <2>1 DEF AdminCancel
  <2>3. queue' \in Seq(JobIds)
    BY <1>4, DequeuedType DEF AdminCancel, TypeOK
  <2>4. worker' \in [Workers -> Worker]
    BY <1>4, OvertakenType DEF AdminCancel
  <2>. QED
    BY <1>4, <2>2, <2>3, <2>4 DEF AdminCancel, TypeOK, budget
<1>5. CASE BecomesAvailable(j)
  BY <1>5 DEF BecomesAvailable, TypeOK, ai, budget
<1>6. CASE LeaseExpires(j)
  BY <1>6 DEF LeaseExpires, TypeOK, ai, budget
<1>. QED
  BY <1>1, <1>2, <1>3, <1>4, <1>5, <1>6 DEF JobStep

\* Steps of a worker process keep the types.
LEMMA WorkerStepTypeOK ==
  ASSUME TypeOK, ThreadShape, NEW w \in Workers, WorkerStep(w)
  PROVE  TypeOK'
<1> DEFINE me == worker[w]
<1>0. /\ me \in Worker /\ job \in [JobIds -> Row] /\ worker \in [Workers -> Worker]
      /\ queue \in Seq(JobIds)
  BY DEF TypeOK
<1>1. CASE LockNext(w)
  <2>1. PICK i \in 1 .. Len(queue) : worker' = [worker EXCEPT ![w] =
            [IdleWorker EXCEPT !.pc = "tx", !.op = "claim", !.job = queue[i],
               !.seen = job[queue[i]].attempts + 1, !.reads = {queue[i]},
               !.rows = RowFor(queue[i], Claimed(job[queue[i]], w))]]
    BY <1>1 DEF LockNext
  <2>2. queue[i] \in JobIds
    BY <1>0
  <2> HIDE DEF me
  <2>a. job[queue[i]] \in Row
    BY <1>0, <2>2
  <2>b. Claimed(job[queue[i]], w) \in Row
    BY <2>a, RowTransitions
  <2>3. Claimed(job[queue[i]], w) \in Row /\ job[queue[i]].attempts + 1 \in Nat
    BY <2>a, <2>b DEF Row
  <2>4. RowFor(queue[i], Claimed(job[queue[i]], w)) \in [JobIds -> Row]
    BY <2>2, <2>3, ConstantTypes DEF RowFor
  <2>5. worker' \in [Workers -> Worker]
    <3> PICK k, n, rows : /\ k = queue[i] /\ n = job[queue[i]].attempts + 1
                          /\ rows = RowFor(queue[i], Claimed(job[queue[i]], w))
      OBVIOUS
    <3> PICK new : new = [IdleWorker EXCEPT !.pc = "tx", !.op = "claim", !.job = k,
                                            !.seen = n, !.reads = {k}, !.rows = rows]
      OBVIOUS
    <3>1. k \in JobIds /\ n \in Nat /\ rows \in [JobIds -> Row]
      BY <2>2, <2>3, <2>4
    <3>2. IdleWorker \in Worker /\ "claim" \in Ops
      BY ConstantTypes DEF Ops
    <3>3. new \in Worker
      BY ONLY <3>1, <3>2, new = [IdleWorker EXCEPT !.pc = "tx", !.op = "claim", !.job = k,
                                                   !.seen = n, !.reads = {k}, !.rows = rows]
         DEF Worker
    <3>4. worker' = [worker EXCEPT ![w] = new]
      BY <2>1
    <3> QED BY ONLY <1>0, <3>3, <3>4
  <2>. QED
    BY <1>1, <2>5 DEF LockNext, TypeOK, ai, budget
<1>2. CASE CommitClaim(w)
  <2>1. [me EXCEPT !.pc = "handling", !.op = "none", !.reads = {}, !.rows = NoRows] \in Worker
    BY <1>0, ConstantTypes DEF Worker, Ops
  <2>2. worker' \in [Workers -> Worker]
    BY <1>2, <2>1, MovedType DEF CommitClaim
  <2>. QED
    BY <1>2, <2>2, FlushedType, DequeuedType DEF CommitClaim, TypeOK, ai, budget
<1>3. CASE Progress(w)
  BY <1>0, <1>3, MovedType DEF Progress, TypeOK, ai, budget
<1>4. ASSUME NEW o \in Settlements, Handled(w, o) PROVE TypeOK'
  <2>1. told' \in [JobIds -> {"NOTHING", "DONE", "FAILED"}]
    BY <1>4 DEF Handled, ToldAfter, TypeOK
  <2>2. worker' \in [Workers -> Worker]
    BY <1>0, <1>4 DEF Handled, Worker, Ops
  <2>. QED
    BY <1>4, <2>1, <2>2 DEF Handled, TypeOK, ai, budget
<1>5. CASE BeginSettle(w)
  <2> DEFINE j == me.job
             row == Settled(job[j], me.op, j)
             b == IF me.op = "succeed" /\ job[j].lease # 0 THEN 1 ELSE 0
  <2>1. j \in JobIds /\ me.op \in Settlements
    BY <1>5 DEF BeginSettle, ThreadShape, Shape
  <2>2. row \in Row
    BY <1>0, <2>1, RowTransitions DEF Settled, Settlements
  <2>3. RowFor(j, row) \in [JobIds -> Row]
    BY <2>1, <2>2, ConstantTypes DEF RowFor
  <2>4. redis' \subseteq JobIds \X Nat
    BY <1>5 DEF BeginSettle, TypeOK
  <2> HIDE DEF row
  <2>5. worker' = [worker EXCEPT ![w] = [me EXCEPT
          !.pc = "tx", !.reads = {j}, !.rows = RowFor(j, row), !.fresh = "FRESH",
          !.bill = b]]
    BY <1>0, <1>5 DEF BeginSettle, row
  <2>6. b \in 0 .. 1
    OBVIOUS
  <2> HIDE DEF b, me, j
  <2>7. worker' \in [Workers -> Worker]
    BY <1>0, <2>1, <2>3, <2>5, <2>6 DEF Worker, Ops
  <2>. QED
    BY <1>5, <2>4, <2>7 DEF BeginSettle, TypeOK, budget
<1>6. CASE CommitSettle(w)
  <2>a. me.bill \in Nat /\ usage \in [JobIds -> Nat]
    BY <1>0 DEF TypeOK, Worker
  <2>b. usage' = [usage EXCEPT ![me.job] = @ + me.bill]
    BY <1>6 DEF CommitSettle
  <2> HIDE DEF me
  <2>c. \A k \in JobIds : usage[k] + me.bill \in Nat
    BY <2>a
  <2>1. usage' \in [JobIds -> Nat]
    BY <2>a, <2>b, <2>c
  <2> USE DEF me
  <2>2. worker' \in [Workers -> Worker]
    BY <1>6, MovedType, ConstantTypes DEF CommitSettle
  <2>3. job' \in [JobIds -> Row] /\ queue' \in Seq(JobIds) /\ expired' \subseteq JobIds
    BY <1>0, <1>6, FlushedType, DequeuedType DEF CommitSettle, TypeOK
  <2>. QED
    BY <1>6, <2>1, <2>2, <2>3 DEF CommitSettle, TypeOK, budget
<1>7. CASE BeginSweep(w)
  <2> DEFINE rows == [j \in JobIds |->
                        IF j \in StaleRunning THEN Reclaimed(job[j]) ELSE AbsentRow]
  <2>1. \A j \in JobIds : Reclaimed(job[j]) \in Row
    BY <1>0, RowTransitions
  <2>2. rows \in [JobIds -> Row] /\ StaleRunning \subseteq JobIds
    BY <2>1, ConstantTypes DEF StaleRunning, TypeOK
  <2>3. worker' = [worker EXCEPT ![w] = [IdleWorker EXCEPT
          !.pc = "tx", !.op = "sweep", !.reads = StaleRunning, !.rows = rows]]
    BY <1>7 DEF BeginSweep
  <2> HIDE DEF rows
  <2>4. worker' \in [Workers -> Worker]
    BY <1>0, <2>2, <2>3, ConstantTypes DEF Worker, Ops
  <2>. QED
    BY <1>7, <2>4 DEF BeginSweep, TypeOK, ai, budget
<1>8. CASE CommitSweep(w)
  <2>1. worker' \in [Workers -> Worker]
    BY <1>8, MovedType, ConstantTypes DEF CommitSweep
  <2>2. PICK n \in 1 .. N : \E s \in [1 .. n -> me.reads] : queue' = queue \o s
    BY <1>8 DEF CommitSweep
  <2>3. PICK s \in [1 .. n -> me.reads] : queue' = queue \o s
    BY <2>2
  <2>4. n \in Nat /\ me.reads \subseteq JobIds
    BY <1>0, QueueAssumptions DEF Worker
  <2>5. s \in Seq(JobIds)
    BY <2>3, <2>4
  <2>6. queue' \in Seq(JobIds)
    BY <1>0, <2>3, <2>5
  <2>7. job' \in [JobIds -> Row]
    BY <1>8, FlushedType DEF CommitSweep
  <2>. QED
    BY <1>8, <2>1, <2>6, <2>7 DEF CommitSweep, TypeOK, ai, budget
<1>9. CASE Rollback(w)
  <2>1. told' \in [JobIds -> {"NOTHING", "DONE", "FAILED"}]
    BY <1>9 DEF Rollback, ToldAfter, TypeOK
  <2> DEFINE redo == [me EXCEPT !.pc = "settling", !.op = "fail", !.reads = {},
                        !.rows = NoRows, !.fresh = "FRESH", !.bill = 0]
  <2>z. 0 \in 0 .. 1
    OBVIOUS
  <2> HIDE DEF me
  <2>a. redo \in Worker
    BY <1>0, <2>z, ConstantTypes DEF Worker, Ops, Settlements
  <2> USE DEF me
  <2>b. \/ worker' = [worker EXCEPT ![w] = redo]
        \/ worker' = [worker EXCEPT ![w] = IdleWorker]
    BY <1>0, <1>9 DEF Rollback
  <2> HIDE DEF redo
  <2>2. worker' \in [Workers -> Worker]
    BY <1>0, <2>a, <2>b, ConstantTypes
  <2>. QED
    BY <1>9, <2>1, <2>2 DEF Rollback, TypeOK, ai, budget
<1>10. CASE Crash(w)
  <2>1. worker' \in [Workers -> Worker]
    BY <1>0, <1>10, ConstantTypes DEF Crash, Worker
  <2>2. crashes' \in 0 .. MaxCrashes
    BY <1>10, QueueAssumptions DEF Crash, TypeOK
  <2>. QED
    BY <1>10, <2>1, <2>2 DEF Crash, TypeOK, ai
<1>11. CASE Restart(w)
  <2>1. worker' \in [Workers -> Worker]
    BY <1>0, <1>11, ConstantTypes DEF Restart
  <2>. QED
    BY <1>11, <2>1 DEF Restart, TypeOK, ai, budget
<1>. QED
  BY <1>1, <1>2, <1>3, <1>4, <1>5, <1>6, <1>7, <1>8, <1>9, <1>10, <1>11 DEF WorkerStep

-----------------------------------------------------------------------------
\* A commit by v changes nothing of another thread but its freshness.
LEMMA MovedFrame ==
  ASSUME TypeOK, NEW S, NEW v, NEW next, NEW u \in Workers, u # v
  PROVE  LET t == Moved(S, v, next)[u] IN
         /\ t.pc = worker[u].pc /\ t.op = worker[u].op /\ t.job = worker[u].job
         /\ t.seen = worker[u].seen /\ t.reads = worker[u].reads
         /\ t.rows = worker[u].rows /\ t.bill = worker[u].bill
         /\ t.fresh = IF worker[u].reads \cap S = {} THEN worker[u].fresh ELSE "STALE"
  BY DEF Moved, TypeOK, Worker

\* The record that v itself gets.
LEMMA MovedSelf ==
  ASSUME NEW S, NEW v \in Workers, NEW next
  PROVE  Moved(S, v, next)[v] = next
  BY DEF Moved

\* A commit of the API is nobody's own step.
LEMMA OvertakenFrame ==
  ASSUME TypeOK, NEW S, NEW u \in Workers
  PROVE  LET t == Overtaken(S)[u] IN
         /\ t.pc = worker[u].pc /\ t.op = worker[u].op /\ t.job = worker[u].job
         /\ t.seen = worker[u].seen /\ t.reads = worker[u].reads
         /\ t.rows = worker[u].rows /\ t.bill = worker[u].bill
         /\ t.fresh = IF worker[u].reads \cap S = {} THEN worker[u].fresh ELSE "STALE"
  BY MovedFrame, NoWorkerAssumption DEF Overtaken

\* Every step keeps the shape of every thread.
LEMMA ThreadShapeStep ==
  ASSUME TypeOK, ThreadShape, Next
  PROVE  ThreadShape'
<1>1. ASSUME NEW j \in JobIds, JobStep(j) PROVE ThreadShape'
  <2>1. worker' = worker \/ worker' = Overtaken({j})
    BY <1>1 DEF JobStep, Enqueue, AdminRetry, OwnerRetry, AdminCancel,
                BecomesAvailable, LeaseExpires
  <2>2. CASE worker' = worker
    BY <2>2 DEF ThreadShape, Shape
  <2>3. CASE worker' = Overtaken({j})
    BY <2>3, OvertakenFrame DEF ThreadShape, Shape
  <2>. QED
    BY <2>1, <2>2, <2>3
<1>2. ASSUME NEW w \in Workers, WorkerStep(w) PROVE ThreadShape'
  <2>0. worker \in [Workers -> Worker] /\ queue \in Seq(JobIds) /\ Shape(worker[w])
    BY DEF TypeOK, ThreadShape
  <2>1. ASSUME NEW u \in Workers, u # w PROVE Shape(worker'[u])
    <3>1. \/ worker'[u] = worker[u]
          \/ \E S, next : worker' = Moved(S, w, next)
      BY <1>2, <2>0, <2>1 DEF WorkerStep, LockNext, CommitClaim, Progress, Handled,
           BeginSettle, CommitSettle, BeginSweep, CommitSweep, Rollback, Crash, Restart
    <3>. QED
      BY <3>1, <2>1, MovedFrame DEF ThreadShape, Shape
  <2>2. Shape(worker'[w])
    <3>1. CASE LockNext(w)
      BY <2>0, <3>1 DEF LockNext, Shape, IdleWorker
    <3>2. CASE CommitClaim(w)
      <4>1. worker'[w] = [worker[w] EXCEPT !.pc = "handling", !.op = "none",
                                           !.reads = {}, !.rows = NoRows]
        BY <3>2, MovedSelf DEF CommitClaim
      <4>2. /\ worker'[w].pc = "handling" /\ worker'[w].op = "none"
            /\ worker'[w].job = worker[w].job /\ worker'[w].reads = {}
        BY <2>0, <4>1 DEF Worker
      <4>. QED
        BY <2>0, <3>2, <4>2 DEF CommitClaim, Shape, Settlements
    <3>3. CASE Progress(w)
      BY <2>0, <3>3, MovedSelf DEF Progress, Shape
    <3>4. ASSUME NEW o \in Settlements, Handled(w, o) PROVE Shape(worker'[w])
      BY <2>0, <3>4 DEF Handled, Shape, Worker
    <3>5. CASE BeginSettle(w)
      <4>1. /\ worker'[w].pc = "tx" /\ worker'[w].op = worker[w].op
            /\ worker'[w].job = worker[w].job /\ worker'[w].reads = {worker[w].job}
        BY <2>0, <3>5 DEF BeginSettle, Worker
      <4>. QED
        BY <2>0, <3>5, <4>1 DEF BeginSettle, Shape
    <3>6. CASE CommitSettle(w) \/ CommitSweep(w)
      BY <3>6, MovedSelf DEF CommitSettle, CommitSweep, Shape, IdleWorker
    <3>7. CASE BeginSweep(w)
      BY <2>0, <3>7 DEF BeginSweep, Shape, IdleWorker
    <3>8. CASE Rollback(w)
      <4>1. CASE worker[w].op = "succeed"
        <5>1. /\ worker'[w].pc = "settling" /\ worker'[w].op = "fail"
              /\ worker'[w].job = worker[w].job /\ worker'[w].reads = {}
          <6>1. worker' = [worker EXCEPT ![w] =
                             [worker[w] EXCEPT !.pc = "settling", !.op = "fail", !.reads = {},
                                               !.rows = NoRows, !.fresh = "FRESH", !.bill = 0]]
            BY <3>8, <4>1 DEF Rollback
          <6>. QED BY ONLY <6>1, <2>0, w \in Workers DEF Worker
        <5>. QED
          BY <2>0, <3>8, <4>1, <5>1 DEF Rollback, Shape, Settlements
      <4>2. CASE worker[w].op # "succeed"
        BY <2>0, <3>8, <4>2 DEF Rollback, Shape, IdleWorker
      <4>. QED
        BY <4>1, <4>2
    <3>9. CASE Crash(w) \/ Restart(w)
      BY <2>0, <3>9 DEF Crash, Restart, Shape, IdleWorker
    <3>. QED
      BY <1>2, <3>1, <3>2, <3>3, <3>4, <3>5, <3>6, <3>7, <3>8, <3>9 DEF WorkerStep
  <2>. QED
    BY <2>1, <2>2 DEF ThreadShape
<1>. QED
  BY <1>1, <1>2 DEF Next

\* Type correctness of the queue, the table and the threads, with the shape
\* of the threads that the step needs.
THEOREM TypeCorrect == Spec => [](TypeOK /\ ThreadShape)
<1>1. Init => TypeOK /\ ThreadShape
  BY InitTypeOK DEF Init, ThreadShape, Shape, IdleWorker
<1>2. TypeOK /\ ThreadShape /\ [Next]_vars => (TypeOK /\ ThreadShape)'
  <2>1. ASSUME TypeOK, ThreadShape, Next PROVE (TypeOK /\ ThreadShape)'
    BY <2>1, JobStepTypeOK, WorkerStepTypeOK, ThreadShapeStep DEF Next
  <2>2. ASSUME TypeOK, ThreadShape, UNCHANGED vars PROVE (TypeOK /\ ThreadShape)'
    BY <2>2 DEF vars, TypeOK, ThreadShape, Shape
  <2>. QED
    BY <2>1, <2>2
<1>. QED
  BY <1>1, <1>2, PTL DEF Spec

-----------------------------------------------------------------------------
(* What @Version and `for update skip locked` guarantee together, for any   *)
(* number of jobs and processes and whether or not runs outlast their       *)
(* leases: no transaction of JobService overwrites a row it has not seen,   *)
(* and claims are exclusive.                                                *)

\* FlushesCurrentRow for one thread.
FlushesCurrent(w) ==
  worker[w].fresh = "FRESH" =>
    \A j \in worker[w].reads :
      worker[w].rows[j] =
        CASE worker[w].op = "claim" -> Claimed(job[j], w)
          [] worker[w].op = "sweep" -> Reclaimed(job[j])
          [] OTHER -> Settled(job[j], worker[w].op, j)

\* What a claim locked has not moved and can still be claimed.
HoldsOffer(w) ==
  worker[w].op = "claim" =>
    worker[w].fresh = "FRESH" /\ job[worker[w].job].status \in Claimable

\* A thread only deals with jobs that were enqueued.
KnowsItsJobs(w) ==
  \A j \in JobIds :
    j = worker[w].job \/ j \in worker[w].reads => job[j].status # "ABSENT"

LockInv ==
  /\ TypeOK /\ ThreadShape
  /\ \A w \in Workers : FlushesCurrent(w) /\ HoldsOffer(w) /\ KnowsItsJobs(w)
  /\ ClaimsAreExclusive

\* A step that is not u's own leaves u's transaction alone, except that it may
\* make it stale; it touches no row that u locked for a claim.
Bystander(u) ==
  /\ worker'[u].pc = worker[u].pc /\ worker'[u].op = worker[u].op
  /\ worker'[u].job = worker[u].job /\ worker'[u].seen = worker[u].seen
  /\ worker'[u].bill = worker[u].bill
  /\ worker'[u].reads = worker[u].reads /\ worker'[u].rows = worker[u].rows
  /\ worker'[u].fresh = "FRESH" =>
       worker[u].fresh = "FRESH" /\ \A j \in worker[u].reads : job'[j] = job[j]
  /\ worker[u].op = "claim" =>
       worker'[u].fresh = worker[u].fresh /\ \A j \in worker[u].reads : job'[j] = job[j]

\* A claim reads exactly its job.
LEMMA ClaimReads ==
  ASSUME TypeOK, ThreadShape, NEW u \in Workers, worker[u].op = "claim"
  PROVE  /\ worker[u].pc = "tx" /\ worker[u].job \in JobIds
         /\ worker[u].reads = {worker[u].job} /\ Locked(worker[u].job)
<1>1. worker[u] \in Worker /\ Shape(worker[u])
  BY DEF TypeOK, ThreadShape
<1>2. worker[u].pc = "tx" /\ worker[u].job \in JobIds /\ worker[u].reads = {worker[u].job}
  BY <1>1 DEF Worker, Shape, Settlements
<1>. QED
  BY <1>2 DEF Locked

\* Transitions of the entity never make a row disappear.
LEMMA TransitionsExist ==
  ASSUME NEW row \in Row, row.status # "ABSENT", NEW j, NEW a
  PROVE  /\ \A w : Claimed(row, w).status # "ABSENT"
         /\ Reclaimed(row).status # "ABSENT"
         /\ \A o \in Settlements : Settled(row, o, j).status # "ABSENT"
         /\ RetriedByAdmin(row, a).status # "ABSENT"
         /\ RetriedByOwner(row, a).status # "ABSENT"
         /\ Cancelled(row, Kind[j]).status # "ABSENT"
<1>1. \A o \in Settlements : Settled(row, o, j).status # "ABSENT"
  BY DEF Settled, Settlements, Row, Succeeded, Deferred, Failed
<1>. QED
  BY <1>1 DEF Row, Claimed, Reclaimed, RetriedByAdmin, RetriedByOwner, Cancelled

\* Steps of the API and of time disturb no claim and no fresh transaction.
LEMMA JobStepBystander ==
  ASSUME LockInv, NEW j \in JobIds, JobStep(j), NEW u \in Workers
  PROVE  Bystander(u)
<1>0. /\ TypeOK /\ ThreadShape /\ KnowsItsJobs(u) /\ HoldsOffer(u)
      /\ job \in [JobIds -> Row] /\ worker[u].reads \subseteq JobIds
  BY DEF LockInv, TypeOK, Worker
<1>1. CASE Enqueue(j)
  <2>1. worker' = worker /\ job' = [job EXCEPT ![j] = NewJob(Admission(j))]
    BY <1>1 DEF Enqueue
  <2>2. j \notin worker[u].reads
    BY <1>0, <1>1 DEF Enqueue, KnowsItsJobs
  <2>. QED
    BY <1>0, <2>1, <2>2 DEF Bystander
<1>2. CASE AdminRetry(j) \/ OwnerRetry(j) \/ AdminCancel(j)
  <2>1. worker' = Overtaken({j}) /\ \E row : job' = [job EXCEPT ![j] = row]
    BY <1>2 DEF AdminRetry, OwnerRetry, AdminCancel
  <2>2. worker[u].op = "claim" => j \notin worker[u].reads
    BY <1>0, <1>2, ClaimReads DEF AdminRetry, OwnerRetry, AdminCancel, CanRetry,
         HoldsOffer, Claimable
  <2>. QED
    BY <1>0, <2>1, <2>2, OvertakenFrame DEF Bystander
<1>3. CASE BecomesAvailable(j) \/ LeaseExpires(j)
  BY <1>3 DEF BecomesAvailable, LeaseExpires, Bystander
<1>. QED
  BY <1>1, <1>2, <1>3 DEF JobStep

\* Neither does a step of another worker.
LEMMA WorkerStepBystander ==
  ASSUME LockInv, NEW w \in Workers, WorkerStep(w), NEW u \in Workers, u # w
  PROVE  Bystander(u)
<1>0. /\ TypeOK /\ ThreadShape /\ job \in [JobIds -> Row]
      /\ worker \in [Workers -> Worker] /\ worker[u].reads \subseteq JobIds
      /\ worker[w].reads \subseteq JobIds
  BY DEF LockInv, TypeOK, Worker
<1>1. CASE CommitClaim(w) \/ CommitSettle(w) \/ CommitSweep(w)
  <2>1. /\ job' = Flushed(w)
        /\ \E next : worker' = Moved(worker[w].reads, w, next)
    BY <1>0, <1>1 DEF CommitClaim, CommitSettle, CommitSweep, ThreadShape, Shape, Settlements
  <2>2. worker[u].op = "claim" => worker[u].reads \cap worker[w].reads = {}
    <3>1. ASSUME worker[u].op = "claim" PROVE worker[u].job \notin worker[w].reads
      <4>1. CASE CommitClaim(w)
        BY <1>0, <3>1, <4>1, ClaimReads DEF CommitClaim, LockInv, ClaimsAreExclusive
      <4>2. CASE CommitSettle(w) \/ CommitSweep(w)
        BY <1>0, <3>1, <4>2, ClaimReads DEF CommitSettle, CommitSweep, NotBlocked, Settlements
      <4>. QED
        BY <1>1, <4>1, <4>2
    <3>. QED
      BY <1>0, <3>1, ClaimReads
  <2>3. \A j \in worker[u].reads : j \notin worker[w].reads => job'[j] = job[j]
    BY <1>0, <2>1 DEF Flushed
  <2>. QED
    BY <1>0, <2>1, <2>2, <2>3, MovedFrame DEF Bystander
<1>2. CASE Progress(w)
  <2>1. worker' = Moved({worker[w].job}, w, worker[w]) /\ job' = job
    BY <1>2 DEF Progress
  <2>2. worker[u].op = "claim" => worker[u].reads \cap {worker[w].job} = {}
    BY <1>0, <1>2, ClaimReads DEF Progress
  <2>. QED
    BY <1>0, <2>1, <2>2, MovedFrame DEF Bystander
<1>3. ASSUME worker'[u] = worker[u], job' = job PROVE Bystander(u)
  BY <1>3 DEF Bystander
<1>. QED
  BY <1>0, <1>1, <1>2, <1>3 DEF WorkerStep, LockNext, Handled, BeginSettle, BeginSweep,
       Rollback, Crash, Restart

\* A job that was enqueued stays in the table.
LEMMA JobsStay ==
  ASSUME LockInv, Next, NEW k \in JobIds, job[k].status # "ABSENT"
  PROVE  job'[k].status # "ABSENT"
<1>0. /\ TypeOK /\ ThreadShape /\ job \in [JobIds -> Row] /\ job[k] \in Row
      /\ worker \in [Workers -> Worker]
  BY DEF LockInv, TypeOK
<1>1. ASSUME NEW j \in JobIds, JobStep(j) PROVE job'[k].status # "ABSENT"
  <2>1. CASE k # j
    BY <1>0, <1>1, <2>1 DEF JobStep, Enqueue, AdminRetry, OwnerRetry, AdminCancel,
         BecomesAvailable, LeaseExpires
  <2>2. CASE k = j
    <3>1. \/ job'[k] = job[k]
          \/ job'[k] = RetriedByAdmin(job[k], Admission(k))
          \/ job'[k] = RetriedByOwner(job[k], Admission(k))
          \/ job'[k] = Cancelled(job[k], Kind[k])
      BY <1>0, <1>1, <2>2 DEF JobStep, Enqueue, AdminRetry, OwnerRetry, AdminCancel,
           BecomesAvailable, LeaseExpires
    <3>. QED
      BY <1>0, <3>1, TransitionsExist
  <2>. QED
    BY <2>1, <2>2
<1>2. ASSUME NEW w \in Workers, WorkerStep(w) PROVE job'[k].status # "ABSENT"
  <2>1. CASE job' = job
    BY <2>1
  <2>2. CASE CommitClaim(w) \/ CommitSettle(w) \/ CommitSweep(w)
    <3>1. job' = Flushed(w) /\ worker[w].fresh = "FRESH" /\ worker[w].pc = "tx"
      BY <2>2 DEF CommitClaim, CommitSettle, CommitSweep, CanCommit, VersionOK
    <3>2. worker[w].op \in Settlements \union {"claim", "sweep"}
      BY <2>2 DEF CommitClaim, CommitSettle, CommitSweep
    <3>3. CASE k \notin worker[w].reads
      BY <3>1, <3>3 DEF Flushed
    <3>4. CASE k \in worker[w].reads
      <4>1. job'[k] = worker[w].rows[k] /\ FlushesCurrent(w)
        BY <3>1, <3>4 DEF Flushed, LockInv
      <4>2. \/ job'[k] = Claimed(job[k], w)
            \/ job'[k] = Reclaimed(job[k])
            \/ worker[w].op \in Settlements /\ job'[k] = Settled(job[k], worker[w].op, k)
        BY <3>1, <3>2, <3>4, <4>1 DEF FlushesCurrent
      <4>. QED
        BY <1>0, <4>2, TransitionsExist
    <3>. QED
      BY <3>3, <3>4
  <2>. QED
    BY <1>2, <2>1, <2>2 DEF WorkerStep, LockNext, Progress, Handled, BeginSettle,
         BeginSweep, Rollback, Crash, Restart
<1>. QED
  BY <1>1, <1>2 DEF Next

\* So a bystander keeps its part of the invariant.
LEMMA BystanderKeeps ==
  ASSUME LockInv, Next, NEW u \in Workers, Bystander(u)
  PROVE  (FlushesCurrent(u) /\ HoldsOffer(u) /\ KnowsItsJobs(u))'
<1>0. /\ FlushesCurrent(u) /\ HoldsOffer(u) /\ KnowsItsJobs(u)
      /\ TypeOK /\ ThreadShape
  BY DEF LockInv
<1>1. FlushesCurrent(u)'
  BY <1>0 DEF FlushesCurrent, Bystander
<1>2. HoldsOffer(u)'
  BY <1>0, ClaimReads DEF HoldsOffer, Bystander
<1>3. KnowsItsJobs(u)'
  BY <1>0, JobsStay DEF KnowsItsJobs, Bystander
<1>. QED
  BY <1>1, <1>2, <1>3

\* The row a transaction computes for the one job it reads.
LEMMA RowForSelf ==
  ASSUME NEW j \in JobIds, NEW row
  PROVE  RowFor(j, row)[j] = row
  BY DEF RowFor, NoRows

\* A transaction that fails is over.
LEMMA RollbackFields ==
  ASSUME TypeOK, NEW w \in Workers, Rollback(w)
  PROVE  /\ worker'[w].reads = {} /\ worker'[w].op # "claim"
         /\ worker'[w].job \in {0, worker[w].job}
<1>0. worker \in [Workers -> Worker] /\ worker[w] \in Worker
  BY DEF TypeOK
<1>1. CASE worker[w].op = "succeed"
  <2>1. worker'[w] = [worker[w] EXCEPT !.pc = "settling", !.op = "fail", !.reads = {},
                        !.rows = NoRows, !.fresh = "FRESH", !.bill = 0]
    BY <1>0, <1>1 DEF Rollback
  <2>. QED
    BY <1>0, <2>1 DEF Worker
<1>2. CASE worker[w].op # "succeed"
  BY <1>0, <1>2 DEF Rollback, IdleWorker
<1>. QED
  BY <1>1, <1>2

\* A worker's own step: it either reads current rows or ends its transaction.
LEMMA OwnStepKeeps ==
  ASSUME LockInv, NEW w \in Workers, WorkerStep(w)
  PROVE  (FlushesCurrent(w) /\ HoldsOffer(w) /\ KnowsItsJobs(w))'
<1>0. /\ TypeOK /\ ThreadShape /\ Shape(worker[w]) /\ worker[w] \in Worker
      /\ worker \in [Workers -> Worker] /\ queue \in Seq(JobIds)
      /\ job \in [JobIds -> Row] /\ KnowsItsJobs(w) /\ expired \subseteq JobIds
  BY DEF LockInv, TypeOK, ThreadShape
<1>z. 0 \notin JobIds /\ Next
  BY QueueAssumptions DEF JobIds, Next
<1>1. CASE LockNext(w)
  <2>1. PICK i \in 1 .. Len(queue) :
          /\ CanClaim(job[queue[i]])
          /\ worker' = [worker EXCEPT ![w] =
               [IdleWorker EXCEPT !.pc = "tx", !.op = "claim", !.job = queue[i],
                  !.seen = job[queue[i]].attempts + 1, !.reads = {queue[i]},
                  !.rows = RowFor(queue[i], Claimed(job[queue[i]], w))]]
    BY <1>1 DEF LockNext
  <2>2. queue[i] \in JobIds /\ job' = job
    BY <1>0, <1>1 DEF LockNext
  <2>3. /\ worker'[w].op = "claim" /\ worker'[w].job = queue[i]
        /\ worker'[w].reads = {queue[i]} /\ worker'[w].fresh = "FRESH"
        /\ worker'[w].rows = RowFor(queue[i], Claimed(job[queue[i]], w))
    BY <1>0, <2>1 DEF IdleWorker
  <2>4. FlushesCurrent(w)'
    BY <2>2, <2>3, RowForSelf DEF FlushesCurrent
  <2>5. HoldsOffer(w)'
    BY <2>1, <2>2, <2>3 DEF HoldsOffer, CanClaim
  <2>6. KnowsItsJobs(w)'
    BY <2>1, <2>2, <2>3 DEF KnowsItsJobs, CanClaim, Claimable
  <2>. QED
    BY <2>4, <2>5, <2>6
<1>2. CASE BeginSettle(w)
  <2> DEFINE j == worker[w].job
             o == worker[w].op
  <2>1. j \in JobIds /\ o \in Settlements /\ job' = job
    BY <1>0, <1>2 DEF BeginSettle, Shape
  <2>2. /\ worker'[w].op = o /\ worker'[w].job = j /\ worker'[w].reads = {j}
        /\ worker'[w].rows = RowFor(j, Settled(job[j], o, j))
    BY <1>0, <1>2 DEF BeginSettle, Worker
  <2> HIDE DEF j, o
  <2>3. worker'[w].rows[j] = Settled(job[j], o, j) /\ o # "claim" /\ o # "sweep"
    BY <2>1, <2>2, RowForSelf DEF Settlements
  <2>4. FlushesCurrent(w)'
    BY <2>1, <2>2, <2>3 DEF FlushesCurrent
  <2>5. HoldsOffer(w)'
    BY <2>2, <2>3 DEF HoldsOffer
  <2>6. KnowsItsJobs(w)'
    BY <1>0, <2>1, <2>2 DEF KnowsItsJobs, j
  <2>. QED
    BY <2>4, <2>5, <2>6
<1>3. CASE BeginSweep(w)
  <2>1. /\ worker'[w].op = "sweep" /\ worker'[w].job = 0
        /\ worker'[w].reads = StaleRunning
        /\ worker'[w].rows = [j \in JobIds |->
              IF j \in StaleRunning THEN Reclaimed(job[j]) ELSE AbsentRow]
    BY <1>0, <1>3 DEF BeginSweep, IdleWorker
  <2>2. job' = job /\ StaleRunning \subseteq JobIds
    BY <1>0, <1>3 DEF BeginSweep, StaleRunning
  <2>3. FlushesCurrent(w)'
    BY <2>1, <2>2 DEF FlushesCurrent
  <2>4. KnowsItsJobs(w)'
    BY <1>0, <1>z, <2>1, <2>2 DEF KnowsItsJobs, StaleRunning
  <2>. QED
    BY <2>1, <2>3, <2>4 DEF HoldsOffer
<1>4. ASSUME worker'[w].reads = {}, worker'[w].op # "claim",
             worker'[w].job \in {0, worker[w].job}
      PROVE  (FlushesCurrent(w) /\ HoldsOffer(w) /\ KnowsItsJobs(w))'
  <2>1. KnowsItsJobs(w)'
    BY <1>0, <1>z, <1>4, JobsStay DEF KnowsItsJobs
  <2>. QED
    BY <1>4, <2>1 DEF FlushesCurrent, HoldsOffer
<1>5. CASE CommitClaim(w)
  <2>1. worker'[w] = [worker[w] EXCEPT !.pc = "handling", !.op = "none",
                                       !.reads = {}, !.rows = NoRows]
    BY <1>5, MovedSelf DEF CommitClaim
  <2>. QED
    BY <1>0, <1>4, <2>1 DEF Worker
<1>6. CASE Progress(w)
  BY <1>0, <1>4, <1>6, MovedSelf DEF Progress, Shape
<1>7. ASSUME NEW o \in Settlements, Handled(w, o)
      PROVE  (FlushesCurrent(w) /\ HoldsOffer(w) /\ KnowsItsJobs(w))'
  <2>1. worker'[w].reads = {} /\ worker'[w].op = o /\ worker'[w].job = worker[w].job
    BY <1>0, <1>7 DEF Handled, Shape, Worker
  <2>. QED
    BY <1>4, <2>1 DEF Settlements
<1>8. CASE CommitSettle(w) \/ CommitSweep(w)
  BY <1>4, <1>8, MovedSelf DEF CommitSettle, CommitSweep, IdleWorker
<1>9. CASE Rollback(w)
  BY <1>0, <1>4, <1>9, RollbackFields
<1>10. CASE Crash(w) \/ Restart(w)
  BY <1>0, <1>4, <1>10 DEF Crash, Restart, IdleWorker
<1>. QED
  BY <1>1, <1>2, <1>3, <1>5, <1>6, <1>7, <1>8, <1>9, <1>10 DEF WorkerStep

\* Only LockNext starts a claim, and it skips locked rows.
LEMMA ExclusiveStep ==
  ASSUME LockInv, Next,
         \A w \in Workers : HoldsOffer(w)'
  PROVE  ClaimsAreExclusive'
<1>0. /\ TypeOK /\ ThreadShape /\ ClaimsAreExclusive
      /\ worker \in [Workers -> Worker] /\ queue \in Seq(JobIds)
  BY DEF LockInv, TypeOK
<1>1. SUFFICES ASSUME NEW w \in Workers, NEW u \in Workers, u # w,
                      worker'[w].op = "claim", worker'[u].op = "claim"
               PROVE  worker'[u].job # worker'[w].job
  BY DEF ClaimsAreExclusive, HoldsOffer
<1>2. ASSUME Bystander(u), Bystander(w) PROVE worker'[u].job # worker'[w].job
  BY <1>0, <1>1, <1>2 DEF Bystander, ClaimsAreExclusive
<1>3. ASSUME NEW a \in Workers, NEW b \in Workers, a # b, Bystander(b),
             worker'[a].op = "claim", worker'[b].op = "claim", WorkerStep(a)
      PROVE  worker'[a].job # worker'[b].job
  <2>0. worker[a] \in Worker /\ Shape(worker[a])
    BY <1>0 DEF ThreadShape
  <2>1. worker[b].op = "claim" /\ worker'[b].job = worker[b].job
    BY <1>3 DEF Bystander
  <2>2. CASE LockNext(a)
    <3>1. PICK i \in 1 .. Len(queue) :
            /\ ~Locked(queue[i])
            /\ worker' = [worker EXCEPT ![a] =
                 [IdleWorker EXCEPT !.pc = "tx", !.op = "claim", !.job = queue[i],
                    !.seen = job[queue[i]].attempts + 1, !.reads = {queue[i]},
                    !.rows = RowFor(queue[i], Claimed(job[queue[i]], a))]]
      BY <2>2 DEF LockNext
    <3>2. worker'[a].job = queue[i]
      BY <1>0, <3>1 DEF IdleWorker
    <3>. QED
      BY <1>0, <2>1, <3>1, <3>2, ClaimReads
  <2>3. CASE CommitClaim(a)
    <3>1. worker'[a] = [worker[a] EXCEPT !.pc = "handling", !.op = "none",
                                         !.reads = {}, !.rows = NoRows]
      BY <2>3, MovedSelf DEF CommitClaim
    <3>. QED
      BY <1>3, <2>0, <3>1 DEF Worker
  <2>4. CASE Progress(a)
    BY <1>3, <2>0, <2>4, MovedSelf DEF Progress, Shape
  <2>5. ASSUME NEW o \in Settlements, Handled(a, o) PROVE FALSE
    BY <1>0, <1>3, <2>0, <2>5 DEF Handled, Worker, Settlements
  <2>6. CASE BeginSettle(a)
    BY <1>0, <1>3, <2>0, <2>6 DEF BeginSettle, Worker, Shape, Settlements
  <2>7. CASE CommitSettle(a) \/ CommitSweep(a)
    BY <1>3, <2>7, MovedSelf DEF CommitSettle, CommitSweep, IdleWorker
  <2>8. CASE BeginSweep(a)
    BY <1>0, <1>3, <2>8 DEF BeginSweep, IdleWorker
  <2>9. CASE Rollback(a)
    BY <1>0, <1>3, <2>9, RollbackFields
  <2>10. CASE Crash(a) \/ Restart(a)
    BY <1>0, <1>3, <2>10 DEF Crash, Restart, IdleWorker
  <2>. QED
    BY <1>3, <2>2, <2>3, <2>4, <2>5, <2>6, <2>7, <2>8, <2>9, <2>10 DEF WorkerStep
<1>. QED
  BY <1>1, <1>2, <1>3, JobStepBystander, WorkerStepBystander DEF Next

\* LockInv is inductive.
LEMMA LockInvStep ==
  ASSUME LockInv, Next
  PROVE  LockInv'
<1>1. TypeOK' /\ ThreadShape'
  BY JobStepTypeOK, WorkerStepTypeOK, ThreadShapeStep DEF Next, LockInv
<1>2. ASSUME NEW u \in Workers
      PROVE  (FlushesCurrent(u) /\ HoldsOffer(u) /\ KnowsItsJobs(u))'
  BY JobStepBystander, WorkerStepBystander, BystanderKeeps, OwnStepKeeps DEF Next
<1>3. ClaimsAreExclusive'
  BY <1>2, ExclusiveStep
<1>. QED
  BY <1>1, <1>2, <1>3 DEF LockInv

\* It holds of the empty queue.
LEMMA LockInvInit == Init => LockInv
<1>1. SUFFICES ASSUME Init PROVE LockInv
  OBVIOUS
<1>0. 0 \notin JobIds
  BY QueueAssumptions DEF JobIds
<1>2. \A w \in Workers : /\ worker[w].pc = "idle" /\ worker[w].op = "none"
                         /\ worker[w].job = 0 /\ worker[w].reads = {}
  BY <1>1 DEF Init, IdleWorker
<1>3. ThreadShape
  BY <1>2 DEF ThreadShape, Shape
<1>4. \A w \in Workers : FlushesCurrent(w) /\ HoldsOffer(w) /\ KnowsItsJobs(w)
  BY <1>0, <1>2 DEF FlushesCurrent, HoldsOffer, KnowsItsJobs
<1>. QED
  BY <1>1, <1>2, <1>3, <1>4, InitTypeOK DEF LockInv, ClaimsAreExclusive

\* No lost update and exclusive claims, for any number of jobs and worker
\* processes, whether or not a run outlasts its lease: a transaction of
\* JobService that passes the version check writes the successor of the
\* current row, and no two claims hold the same candidate.
THEOREM NoLostUpdate == Spec => []WritesAreSerial
<1>1. LockInv /\ UNCHANGED vars => LockInv'
  BY DEF LockInv, vars, TypeOK, ThreadShape, Shape, FlushesCurrent, HoldsOffer,
         KnowsItsJobs, ClaimsAreExclusive
<1>2. LockInv /\ [Next]_vars => LockInv'
  BY <1>1, LockInvStep
<1>3. LockInv => WritesAreSerial
  BY DEF LockInv, WritesAreSerial, FlushesCurrentRow, FlushesCurrent
<1>. QED
  BY <1>2, <1>3, LockInvInit, PTL DEF Spec

-----------------------------------------------------------------------------
(* What locking buys the queue.                                            *)

\* A settlement that records usage found the admission in the row it read.
BillsAdmission(w) ==
  worker[w].bill # 0 =>
    /\ worker[w].pc = "tx" /\ worker[w].op = "succeed"
    /\ worker[w].fresh = "FRESH" => job[worker[w].job].lease # 0

\* A settlement that clears the admission has released it in Redis.
ReleasedFirst(w) ==
  worker[w].pc = "tx" /\ worker[w].op \in Settlements /\ worker[w].fresh = "FRESH"
    /\ worker[w].rows[worker[w].job].lease = 0
  => \A l \in redis : l[1] # worker[w].job

AiInv ==
  /\ LockInv
  /\ \A w \in Workers : BillsAdmission(w) /\ ReleasedFirst(w)
  /\ NoOrphanLease /\ UsageOncePerAdmission

\* Settling clears the admission, or keeps it and leaves the job waiting for
\* its next attempt.
LEMMA SettledLease ==
  ASSUME NEW row \in Row, NEW o \in Settlements, NEW j
  PROVE  /\ \/ Settled(row, o, j).lease = 0
            \/ /\ Settled(row, o, j).lease = row.lease
               /\ Settled(row, o, j).status = "RETRY"
         /\ o = "succeed" => Settled(row, o, j).lease = 0
<1>1. Succeeded(row, Kind[j]).lease = 0
  BY DEF Succeeded, Row
<1>2. Deferred(row).lease = row.lease /\ Deferred(row).status = "RETRY"
  BY DEF Deferred, Row
<1>3. ASSUME NEW b \in BOOLEAN
      PROVE  \/ Failed(row, b, MaxAttempts[j], Kind[j]).lease = 0
             \/ /\ Failed(row, b, MaxAttempts[j], Kind[j]).lease = row.lease
                /\ Failed(row, b, MaxAttempts[j], Kind[j]).status = "RETRY"
  <2>1. CASE FailsForGood(row, b, MaxAttempts[j])
    BY <2>1 DEF Failed, Row
  <2>2. CASE ~FailsForGood(row, b, MaxAttempts[j])
    BY <2>2 DEF Failed, Row
  <2>. QED
    BY <2>1, <2>2
<1>4. CASE o = "succeed"
  BY <1>1, <1>4 DEF Settled
<1>5. CASE o = "defer"
  BY <1>2, <1>5 DEF Settled
<1>6. CASE o = "fail" \/ o = "failForGood"
  BY <1>3, <1>6 DEF Settled
<1>. QED
  BY <1>4, <1>5, <1>6 DEF Settlements

\* A retry with a new admission puts it into the row.
LEMMA RetriedLease ==
  ASSUME NEW row \in Row, NEW a
  PROVE  /\ RetriedByAdmin(row, a).status = "RETRY"
         /\ RetriedByAdmin(row, a).lease = IF a = 0 THEN row.lease ELSE a
         /\ RetriedByOwner(row, a).status = "RETRY"
         /\ RetriedByOwner(row, a).lease = a
  BY DEF RetriedByAdmin, RetriedByOwner, Row

\* Claims and sweeps keep the admission and leave the job active.
LEMMA ClaimedLease ==
  ASSUME NEW row \in Row, NEW w
  PROVE  /\ Claimed(row, w).lease = row.lease /\ Claimed(row, w).status = "RUNNING"
         /\ Reclaimed(row).lease = row.lease /\ Reclaimed(row).status = "RETRY"
  BY DEF Claimed, Reclaimed, Row

\* What a commit of worker w does to the row of job j.
LEMMA CommitEffect ==
  ASSUME LockInv, NEW w \in Workers, NEW j \in JobIds,
         CommitClaim(w) \/ CommitSettle(w) \/ CommitSweep(w)
  PROVE  /\ worker[w].pc = "tx" /\ worker[w].fresh = "FRESH"
         /\ \/ j \notin worker[w].reads /\ job'[j] = job[j]
            \/ CommitClaim(w) /\ j = worker[w].job /\ job'[j] = Claimed(job[j], w)
            \/ CommitSweep(w) /\ job'[j] = Reclaimed(job[j]) /\ j \in worker[w].reads
            \/ /\ CommitSettle(w) /\ j = worker[w].job
               /\ job'[j] = Settled(job[j], worker[w].op, j)
               /\ job'[j] = worker[w].rows[j]
<1>0. /\ Shape(worker[w]) /\ worker[w].reads \subseteq JobIds /\ FlushesCurrent(w)
  BY DEF LockInv, TypeOK, ThreadShape, Worker
<1>1. job' = Flushed(w) /\ worker[w].pc = "tx" /\ worker[w].fresh = "FRESH"
  BY DEF CommitClaim, CommitSettle, CommitSweep, CanCommit, VersionOK
<1>2. CASE j \notin worker[w].reads
  BY <1>1, <1>2 DEF Flushed
<1>3. CASE j \in worker[w].reads
  <2>1. job'[j] = worker[w].rows[j]
    BY <1>1, <1>3 DEF Flushed
  <2>2. CASE CommitClaim(w)
    <3>1. worker[w].op = "claim" /\ j = worker[w].job
      BY <1>0, <1>3, <2>2 DEF CommitClaim, Shape
    <3>2. worker[w].rows[j] = Claimed(job[j], w)
      BY <1>0, <1>1, <1>3, <3>1 DEF FlushesCurrent
    <3>. QED
      BY <1>1, <2>1, <2>2, <3>1, <3>2
  <2>3. CASE CommitSweep(w)
    <3>1. worker[w].op = "sweep"
      BY <2>3 DEF CommitSweep
    <3>2. worker[w].rows[j] = Reclaimed(job[j])
      BY <1>0, <1>1, <1>3, <3>1 DEF FlushesCurrent
    <3>. QED
      BY <1>1, <1>3, <2>1, <2>3, <3>2
  <2>4. CASE CommitSettle(w)
    <3>1. /\ worker[w].op \in Settlements /\ j = worker[w].job
          /\ worker[w].op # "claim" /\ worker[w].op # "sweep"
      BY <1>0, <1>3, <2>4 DEF CommitSettle, Shape, Settlements
    <3>2. worker[w].rows[j] = Settled(job[j], worker[w].op, j)
      BY <1>0, <1>1, <1>3, <3>1 DEF FlushesCurrent
    <3>. QED
      BY <1>1, <2>1, <2>4, <3>1, <3>2
  <2>. QED
    BY <2>2, <2>3, <2>4
<1>. QED
  BY <1>1, <1>2, <1>3

-----------------------------------------------------------------------------
\* Steps of the API: an admission goes to Redis and to the row together, and
\* leaves both together.
LEMMA JobStepLease ==
  ASSUME AiInv, NEW j \in JobIds, JobStep(j)
  PROVE  NoOrphanLease' /\ \A l \in redis' : l \in redis \/ job'[l[1]] # job[l[1]]
<1>0. /\ job \in [JobIds -> Row] /\ redis \subseteq JobIds \X Nat /\ NoOrphanLease
      /\ Kind[j] \in Kinds
  BY QueueAssumptions DEF AiInv, LockInv, TypeOK
<1>1. CASE Enqueue(j)
  <2>1. /\ job' = [job EXCEPT ![j] = NewJob(Admission(j))]
        /\ redis' = redis \union (IF Admission(j) = 0 THEN {} ELSE {<<j, Admission(j)>>})
        /\ job[j].status = "ABSENT"
    BY <1>1 DEF Enqueue, Admit
  <2>2. \A l \in redis : l[1] # j
    BY <1>0, <2>1 DEF NoOrphanLease, Active, Claimable
  <2>3. /\ job'[j].lease = Admission(j) /\ job'[j].status = "QUEUED"
        /\ \A k \in JobIds : k # j => job'[k] = job[k]
    BY <1>0, <2>1 DEF NewJob
  <2>4. job'[j] # job[j]
    BY <2>1, <2>3
  <2>. QED
    BY <1>0, <2>1, <2>2, <2>3, <2>4 DEF NoOrphanLease, Active, Claimable
<1>2. CASE AdminRetry(j) \/ OwnerRetry(j)
  <2>1. /\ redis' = redis \union (IF Admission(j) = 0 THEN {} ELSE {<<j, Admission(j)>>})
        /\ job[j].status = "FAILED"
        /\ \/ job' = [job EXCEPT ![j] = RetriedByAdmin(job[j], Admission(j))]
           \/ job' = [job EXCEPT ![j] = RetriedByOwner(job[j], Admission(j))]
    BY <1>2 DEF AdminRetry, OwnerRetry, Admit, CanRetry
  <2>2. \A l \in redis : l[1] # j
    BY <1>0, <2>1 DEF NoOrphanLease, Active, Claimable
  <2>3. /\ Admission(j) # 0 => job'[j].lease = Admission(j)
        /\ job'[j].status = "RETRY"
        /\ \A k \in JobIds : k # j => job'[k] = job[k]
    BY <1>0, <2>1, RetriedLease
  <2>4. job'[j] # job[j]
    BY <2>1, <2>3
  <2>. QED
    BY <1>0, <2>1, <2>2, <2>3, <2>4 DEF NoOrphanLease, Active, Claimable
<1>3. CASE AdminCancel(j)
  <2>1. /\ redis' = redis \ {<<j, job[j].lease>>}
        /\ \A k \in JobIds : k # j => job'[k] = job[k]
    BY <1>0, <1>3 DEF AdminCancel
  <2>2. \A l \in redis : l[1] = j => l = <<j, job[j].lease>>
    BY <1>0 DEF NoOrphanLease
  <2>. QED
    BY <1>0, <2>1, <2>2 DEF NoOrphanLease
<1>4. CASE BecomesAvailable(j) \/ LeaseExpires(j)
  BY <1>0, <1>4 DEF BecomesAvailable, LeaseExpires, ai, NoOrphanLease
<1>. QED
  BY <1>1, <1>2, <1>3, <1>4 DEF JobStep

\* Steps of the workers only take leases away, and a job whose row loses the
\* lease or stops being active has none left.
LEMMA WorkerStepLease ==
  ASSUME AiInv, NEW w \in Workers, WorkerStep(w)
  PROVE  NoOrphanLease' /\ redis' \subseteq redis
<1>0. /\ job \in [JobIds -> Row] /\ redis \subseteq JobIds \X Nat /\ NoOrphanLease
      /\ LockInv /\ ReleasedFirst(w)
  BY DEF AiInv, LockInv, TypeOK
<1>1. CASE job' = job /\ redis' \subseteq redis
  BY <1>0, <1>1 DEF NoOrphanLease
<1>2. CASE CommitClaim(w) \/ CommitSettle(w) \/ CommitSweep(w)
  <2>1. redis' = redis
    BY <1>2 DEF CommitClaim, CommitSettle, CommitSweep, ai
  <2>2. ASSUME NEW l \in redis
        PROVE  job'[l[1]].lease = l[2] /\ job'[l[1]].status \in Active
    <3>1. /\ l[1] \in JobIds /\ job[l[1]].lease = l[2] /\ job[l[1]].status \in Active
          /\ job[l[1]] \in Row
      BY <1>0, <2>2 DEF NoOrphanLease
    <3> DEFINE k == l[1]
    <3>2. CASE job'[k] = job[k]
      BY <3>1, <3>2
    <3>3. CASE job'[k] = Claimed(job[k], w) \/ job'[k] = Reclaimed(job[k])
      BY <3>1, <3>3, ClaimedLease DEF Active, Claimable
    <3>4. CASE /\ CommitSettle(w) /\ k = worker[w].job
               /\ job'[k] = Settled(job[k], worker[w].op, k) /\ job'[k] = worker[w].rows[k]
      <4>1. worker[w].op \in Settlements /\ worker[w].pc = "tx" /\ worker[w].fresh = "FRESH"
        BY <3>4 DEF CommitSettle, CanCommit, VersionOK
      <4>2. job'[k].lease # 0
        BY <1>0, <2>2, <3>4, <4>1 DEF ReleasedFirst
      <4> HIDE DEF k
      <4>3. job'[k].lease = job[k].lease /\ job'[k].status = "RETRY"
        <5>1. job[k] \in Row
          BY <3>1 DEF k
        <5>2. \/ Settled(job[k], worker[w].op, k).lease = 0
              \/ /\ Settled(job[k], worker[w].op, k).lease = job[k].lease
                 /\ Settled(job[k], worker[w].op, k).status = "RETRY"
          BY <4>1, <5>1, SettledLease
        <5>. QED
          BY <3>4, <4>2, <5>2
      <4> USE DEF k
      <4>. QED
        BY <3>1, <4>3 DEF Active, Claimable
    <3>. QED
      BY <1>0, <1>2, <3>1, <3>2, <3>3, <3>4, CommitEffect
  <2>. QED
    BY <2>1, <2>2 DEF NoOrphanLease
<1>3. CASE BeginSettle(w)
  BY <1>1, <1>3 DEF BeginSettle
<1>. QED
  BY <1>1, <1>2, <1>3 DEF WorkerStep, LockNext, Progress, Handled, BeginSweep,
       Rollback, Crash, Restart, ai

\* A bystander keeps its part of the bookkeeping: a lease that appears in
\* Redis belongs to a row that changed, and the change made it stale.
LEMMA BystanderBooks ==
  ASSUME AiInv, NEW u \in Workers, Bystander(u),
         \A l \in redis' : l \in redis \/ job'[l[1]] # job[l[1]]
  PROVE  (BillsAdmission(u) /\ ReleasedFirst(u))'
<1>0. /\ BillsAdmission(u) /\ ReleasedFirst(u) /\ Shape(worker[u]) /\ worker[u] \in Worker
  BY DEF AiInv, LockInv, ThreadShape, TypeOK
<1>1. worker[u].op \in Settlements /\ worker[u].pc = "tx" => worker[u].reads = {worker[u].job}
  BY <1>0 DEF Shape, Settlements
<1>2. ReleasedFirst(u)'
  BY <1>0, <1>1 DEF ReleasedFirst, Bystander
<1>3. BillsAdmission(u)'
  BY <1>0, <1>1 DEF BillsAdmission, Bystander, Settlements
<1>. QED
  BY <1>2, <1>3

\* A worker's own step: releasing and billing happen on the row as it is.
LEMMA OwnBooks ==
  ASSUME AiInv, NEW w \in Workers, WorkerStep(w)
  PROVE  (BillsAdmission(w) /\ ReleasedFirst(w))'
<1>0. /\ BillsAdmission(w) /\ Shape(worker[w]) /\ worker[w] \in Worker
      /\ worker \in [Workers -> Worker] /\ job \in [JobIds -> Row] /\ TypeOK
      /\ redis \subseteq JobIds \X Nat /\ NoOrphanLease
  BY DEF AiInv, LockInv, ThreadShape, TypeOK
<1>1. ASSUME worker'[w].bill = 0,
             worker'[w].pc # "tx" \/ worker'[w].op \notin Settlements
      PROVE  (BillsAdmission(w) /\ ReleasedFirst(w))'
  BY <1>1 DEF BillsAdmission, ReleasedFirst
<1>2. CASE BeginSettle(w)
  <2> DEFINE j == worker[w].job
             row == Settled(job[j], worker[w].op, j)
  <2>1. j \in JobIds /\ worker[w].op \in Settlements /\ job' = job
    BY <1>0, <1>2 DEF BeginSettle, Shape
  <2>2. /\ worker'[w].pc = "tx" /\ worker'[w].op = worker[w].op /\ worker'[w].job = j
        /\ worker'[w].rows = RowFor(j, row)
        /\ worker'[w].bill = IF worker[w].op = "succeed" /\ job[j].lease # 0 THEN 1 ELSE 0
        /\ redis' = IF row.lease = 0 THEN redis \ {<<j, job[j].lease>>} ELSE redis
    BY <1>0, <1>2 DEF BeginSettle, Worker
  <2> HIDE DEF j, row
  <2>3. BillsAdmission(w)'
    BY <2>1, <2>2 DEF BillsAdmission
  <2>4. worker'[w].rows[j] = row
    BY <2>1, <2>2, RowForSelf
  <2>5. \A l \in redis : l[1] = j => l = <<j, job[j].lease>>
    BY <1>0 DEF NoOrphanLease
  <2>6. ReleasedFirst(w)'
    BY <2>2, <2>4, <2>5 DEF ReleasedFirst
  <2>. QED
    BY <2>3, <2>6
<1>3. CASE LockNext(w)
  BY <1>0, <1>1, <1>3 DEF LockNext, IdleWorker, Settlements
<1>4. CASE CommitClaim(w)
  <2>1. worker'[w] = [worker[w] EXCEPT !.pc = "handling", !.op = "none",
                                       !.reads = {}, !.rows = NoRows]
    BY <1>4, MovedSelf DEF CommitClaim
  <2>2. worker'[w].pc = "handling" /\ worker'[w].bill = worker[w].bill
    BY <1>0, <2>1 DEF Worker
  <2>3. worker[w].bill = 0
    BY <1>0, <1>4 DEF CommitClaim, BillsAdmission
  <2>. QED
    BY <1>1, <2>2, <2>3
<1>5. CASE Progress(w)
  BY <1>0, <1>1, <1>5, MovedSelf DEF Progress, BillsAdmission
<1>6. ASSUME NEW o \in Settlements, Handled(w, o)
      PROVE  (BillsAdmission(w) /\ ReleasedFirst(w))'
  <2>1. worker'[w].pc = "settling" /\ worker'[w].bill = worker[w].bill
    BY <1>0, <1>6 DEF Handled, Worker
  <2>2. worker[w].bill = 0
    BY <1>0, <1>6 DEF Handled, BillsAdmission
  <2>. QED
    BY <1>1, <2>1, <2>2
<1>7. CASE CommitSettle(w) \/ CommitSweep(w)
  BY <1>1, <1>7, MovedSelf DEF CommitSettle, CommitSweep, IdleWorker
<1>8. CASE BeginSweep(w)
  BY <1>0, <1>1, <1>8 DEF BeginSweep, IdleWorker, Settlements
<1>9. CASE Rollback(w)
  <2>1. CASE worker[w].op = "succeed"
    <3>1. worker'[w] = [worker[w] EXCEPT !.pc = "settling", !.op = "fail", !.reads = {},
                          !.rows = NoRows, !.fresh = "FRESH", !.bill = 0]
      BY <1>0, <1>9, <2>1 DEF Rollback
    <3>2. worker'[w].pc = "settling" /\ worker'[w].bill = 0
      BY <1>0, <3>1 DEF Worker
    <3>. QED
      BY <1>1, <3>2
  <2>2. CASE worker[w].op # "succeed"
    BY <1>0, <1>1, <1>9, <2>2 DEF Rollback, IdleWorker
  <2>. QED
    BY <2>1, <2>2
<1>10. CASE Crash(w) \/ Restart(w)
  BY <1>0, <1>1, <1>10 DEF Crash, Restart, IdleWorker
<1>. QED
  BY <1>2, <1>3, <1>4, <1>5, <1>6, <1>7, <1>8, <1>9, <1>10 DEF WorkerStep

\* Usage grows only when the row gives up its admission.
LEMMA UsageStep ==
  ASSUME AiInv, Next
  PROVE  UsageOncePerAdmission'
<1>0. /\ job \in [JobIds -> Row] /\ usage \in [JobIds -> Nat]
      /\ admissions \in [JobIds -> Nat] /\ LockInv
      /\ \A k \in JobIds : usage[k] <= admissions[k] - (IF job[k].lease # 0 THEN 1 ELSE 0)
  BY DEF AiInv, LockInv, TypeOK, UsageOncePerAdmission
<1>1. SUFFICES ASSUME NEW k \in JobIds
               PROVE  usage'[k] <= admissions'[k] - (IF job'[k].lease # 0 THEN 1 ELSE 0)
  BY DEF UsageOncePerAdmission
<1>2. usage[k] \in Nat /\ admissions[k] \in Nat /\ job[k] \in Row
  BY <1>0
<1>3. ASSUME usage'[k] = usage[k], admissions'[k] = admissions[k],
             job'[k].lease \in {0, job[k].lease}
      PROVE  usage'[k] <= admissions'[k] - (IF job'[k].lease # 0 THEN 1 ELSE 0)
  BY <1>0, <1>2, <1>3
<1>4. ASSUME usage'[k] = usage[k], admissions'[k] = admissions[k] + 1
      PROVE  usage'[k] <= admissions'[k] - (IF job'[k].lease # 0 THEN 1 ELSE 0)
  <2>1. usage[k] <= admissions[k]
    BY <1>0, <1>2
  <2>. QED
    BY <1>2, <1>4, <2>1
<1>5. ASSUME NEW j \in JobIds, JobStep(j)
      PROVE  usage'[k] <= admissions'[k] - (IF job'[k].lease # 0 THEN 1 ELSE 0)
  <2>1. usage' = usage
    BY <1>5 DEF JobStep, Enqueue, AdminRetry, OwnerRetry, AdminCancel,
         BecomesAvailable, LeaseExpires, ai
  <2>2. CASE k # j
    <3>1. job'[k] = job[k] /\ admissions'[k] = admissions[k]
      BY <1>0, <1>5, <2>2 DEF JobStep, Enqueue, AdminRetry, OwnerRetry, AdminCancel,
           BecomesAvailable, LeaseExpires, Admit, ai
    <3>. QED
      BY <1>3, <2>1, <3>1
  <2>3. CASE k = j /\ (Enqueue(j) \/ AdminRetry(j) \/ OwnerRetry(j))
    <3>1. admissions' = [admissions EXCEPT ![j] = IF Admission(j) = 0 THEN @ ELSE Admission(j)]
      BY <2>3 DEF Enqueue, AdminRetry, OwnerRetry, Admit
    <3>2. CASE Kind[j] \in QuizKinds
      <4>1. admissions'[k] = admissions[k] + 1
        BY <1>0, <1>2, <2>3, <3>1, <3>2 DEF Admission
      <4>. QED
        BY <1>4, <2>1, <4>1
    <3>3. CASE Kind[j] \notin QuizKinds
      <4>1. Admission(j) = 0 /\ admissions'[k] = admissions[k]
        BY <1>0, <2>3, <3>1, <3>3 DEF Admission
      <4>2. \/ job' = [job EXCEPT ![j] = NewJob(0)]
            \/ job' = [job EXCEPT ![j] = RetriedByAdmin(job[j], 0)]
        BY <2>3, <3>3, <4>1 DEF Enqueue, AdminRetry, OwnerRetry, IsLatestGeneration
      <4>3. job'[k].lease \in {0, job[k].lease}
        BY <1>0, <1>2, <2>3, <4>2, RetriedLease DEF NewJob
      <4>. QED
        BY <1>3, <2>1, <4>1, <4>3
    <3>. QED
      BY <3>2, <3>3
  <2>4. CASE k = j /\ AdminCancel(j)
    <3>1. job'[k] = Cancelled(job[k], Kind[k]) /\ admissions' = admissions
      BY <1>0, <2>4 DEF AdminCancel
    <3>2. job'[k].lease = 0
      BY <1>2, <3>1 DEF Cancelled, Row
    <3>. QED
      BY <1>3, <2>1, <3>1, <3>2
  <2>5. CASE BecomesAvailable(j) \/ LeaseExpires(j)
    BY <1>3, <2>1, <2>5 DEF BecomesAvailable, LeaseExpires, ai
  <2>. QED
    BY <1>5, <2>2, <2>3, <2>4, <2>5 DEF JobStep
<1>6. ASSUME NEW w \in Workers, WorkerStep(w)
      PROVE  usage'[k] <= admissions'[k] - (IF job'[k].lease # 0 THEN 1 ELSE 0)
  <2>1. admissions' = admissions
    BY <1>6 DEF WorkerStep, LockNext, CommitClaim, Progress, Handled, BeginSettle,
         CommitSettle, BeginSweep, CommitSweep, Rollback, Crash, Restart, ai
  <2>2. CASE CommitSettle(w) /\ k = worker[w].job
    <3>1. /\ usage'[k] = usage[k] + worker[w].bill /\ worker[w].bill \in 0 .. 1
          /\ worker[w].op \in Settlements /\ worker[w].fresh = "FRESH"
          /\ BillsAdmission(w) /\ Shape(worker[w]) /\ worker[w].pc = "tx"
      BY <1>0, <2>2 DEF CommitSettle, CanCommit, VersionOK, LockInv, TypeOK, Worker, AiInv,
           ThreadShape
    <3>2. worker[w].reads = {k}
      BY <2>2, <3>1 DEF Shape, Settlements
    <3>3. job'[k] = Settled(job[k], worker[w].op, k)
      BY <1>0, <2>2, <3>1, <3>2, CommitEffect DEF CommitClaim, CommitSweep, Settlements
    <3>4. /\ job'[k].lease \in {0, job[k].lease}
          /\ worker[w].op = "succeed" => job'[k].lease = 0
      BY <1>2, <3>1, <3>3, SettledLease
    <3>5. CASE worker[w].bill = 0
      BY <1>2, <1>3, <2>1, <3>1, <3>4, <3>5
    <3>6. CASE worker[w].bill = 1
      <4>1. job[k].lease # 0 /\ job'[k].lease = 0
        BY <2>2, <3>1, <3>4, <3>6 DEF BillsAdmission
      <4>. QED
        BY <1>0, <1>2, <2>1, <3>1, <3>6, <4>1
    <3>. QED
      BY <3>1, <3>5, <3>6
  <2>3. CASE CommitSettle(w) /\ k # worker[w].job
    <3>1. usage'[k] = usage[k]
      BY <1>0, <2>3 DEF CommitSettle
    <3>2. job'[k] = job[k]
      BY <1>0, <2>3, CommitEffect DEF CommitSettle, CommitClaim, CommitSweep, Settlements
    <3>. QED
      BY <1>3, <2>1, <3>1, <3>2
  <2>4. CASE CommitClaim(w) \/ CommitSweep(w)
    <3>1. usage' = usage
      BY <2>4 DEF CommitClaim, CommitSweep, ai
    <3>2. job'[k].lease = job[k].lease
      <4>1. ~CommitSettle(w)
        BY <2>4 DEF CommitSettle, CommitClaim, CommitSweep, Settlements
      <4>2. job'[k] \in {job[k], Claimed(job[k], w), Reclaimed(job[k])}
        BY <1>0, <2>4, <4>1, CommitEffect
      <4>. QED
        BY <1>2, <4>2, ClaimedLease
    <3>. QED
      BY <1>3, <2>1, <3>1, <3>2
  <2>5. CASE job' = job /\ usage' = usage
    BY <1>3, <2>1, <2>5
  <2>. QED
    BY <1>6, <2>2, <2>3, <2>4, <2>5 DEF WorkerStep, LockNext, Progress, Handled,
         BeginSettle, BeginSweep, Rollback, Crash, Restart, ai
<1>. QED
  BY <1>5, <1>6 DEF Next

\* AiInv is inductive.
LEMMA AiInvStep ==
  ASSUME AiInv, Next
  PROVE  AiInv'
<1>0. LockInv
  BY DEF AiInv
<1>1. LockInv' /\ UsageOncePerAdmission'
  BY <1>0, LockInvStep, UsageStep
<1>2. ASSUME NEW j \in JobIds, JobStep(j)
      PROVE  /\ NoOrphanLease'
             /\ \A u \in Workers : (BillsAdmission(u) /\ ReleasedFirst(u))'
  BY <1>0, <1>2, JobStepLease, JobStepBystander, BystanderBooks
<1>3. ASSUME NEW w \in Workers, WorkerStep(w)
      PROVE  /\ NoOrphanLease'
             /\ \A u \in Workers : (BillsAdmission(u) /\ ReleasedFirst(u))'
  <2>1. NoOrphanLease' /\ redis' \subseteq redis
    BY <1>3, WorkerStepLease
  <2>2. ASSUME NEW u \in Workers, u # w PROVE (BillsAdmission(u) /\ ReleasedFirst(u))'
    BY <1>0, <1>3, <2>1, <2>2, WorkerStepBystander, BystanderBooks
  <2>3. (BillsAdmission(w) /\ ReleasedFirst(w))'
    BY <1>3, OwnBooks
  <2>. QED
    BY <2>1, <2>2, <2>3
<1>. QED
  BY <1>1, <1>2, <1>3 DEF Next, AiInv

\* The AI bookkeeping is exact for any number of jobs and workers, although
\* Redis is released before the commit and a late worker may settle a job
\* again: no concurrency lease is orphaned in Redis, and usage is recorded at
\* most once per admission.
THEOREM AiBookkeeping == Spec => []AiIsAccounted
<1>1. Init => AiInv
  <2>1. SUFFICES ASSUME Init PROVE AiInv
    OBVIOUS
  <2>2. \A w \in Workers : worker[w].bill = 0 /\ worker[w].pc = "idle"
    BY <2>1 DEF Init, IdleWorker
  <2>3. \A w \in Workers : BillsAdmission(w) /\ ReleasedFirst(w)
    BY <2>2 DEF BillsAdmission, ReleasedFirst
  <2>4. NoOrphanLease /\ UsageOncePerAdmission
    BY <2>1 DEF Init, NoOrphanLease, UsageOncePerAdmission, AbsentRow
  <2>. QED
    BY <2>1, <2>3, <2>4, LockInvInit DEF AiInv
<1>2. AiInv /\ UNCHANGED vars => AiInv'
  BY DEF AiInv, LockInv, vars, TypeOK, ThreadShape, Shape, FlushesCurrent, HoldsOffer,
         KnowsItsJobs, ClaimsAreExclusive, BillsAdmission, ReleasedFirst, NoOrphanLease,
         UsageOncePerAdmission
<1>3. AiInv /\ [Next]_vars => AiInv'
  BY <1>2, AiInvStep
<1>4. AiInv => AiIsAccounted
  BY DEF AiInv, AiIsAccounted
<1>. QED
  BY <1>1, <1>3, <1>4, PTL DEF Spec

-----------------------------------------------------------------------------
(* When runs end within their lease.                                       *)

\* A process that handles or settles a job owns it, and its lease is alive.
OwnsJob(w) ==
  Processing(w) =>
    /\ job[worker[w].job].status = "RUNNING" /\ job[worker[w].job].lockedBy = w
    /\ job[worker[w].job].attempts = worker[w].seen
    /\ worker[w].job \notin expired

\* A sweep that can commit takes back expired jobs only.
SweepsExpired(w) ==
  worker[w].op = "sweep" /\ worker[w].fresh = "FRESH" =>
    \A j \in worker[w].reads : j \in expired /\ job[j].status = "RUNNING"

\* A claim hands out the number of the attempt that it starts.
CountsAttempt(w) ==
  worker[w].op = "claim" => worker[w].seen = job[worker[w].job].attempts + 1

RunInv ==
  /\ LockInv
  /\ \A w \in Workers : OwnsJob(w) /\ SweepsExpired(w) /\ CountsAttempt(w)

\* A processing thread has a job.
LEMMA ProcessingJob ==
  ASSUME LockInv, NEW w \in Workers, Processing(w)
  PROVE  worker[w].job \in JobIds /\ worker[w].op # "claim" /\ worker[w].op # "sweep"
<1>1. Shape(worker[w]) /\ worker[w] \in Worker
  BY DEF LockInv, ThreadShape, TypeOK
<1>. QED
  BY <1>1 DEF Processing, Shape, Worker, Settlements

\* A step of the API or of time takes no running job from its owner.
LEMMA JobStepRuns ==
  ASSUME RunInv, LeaseOutlivesRun, NEW j \in JobIds, JobStep(j), NEW u \in Workers
  PROVE  (OwnsJob(u) /\ SweepsExpired(u) /\ CountsAttempt(u))'
<1>0. /\ LockInv /\ OwnsJob(u) /\ SweepsExpired(u) /\ CountsAttempt(u) /\ Bystander(u)
      /\ job \in [JobIds -> Row] /\ TypeOK /\ ThreadShape
  BY JobStepBystander DEF RunInv, LockInv, TypeOK
<1>1. expired \subseteq expired'
  BY DEF JobStep, Enqueue, AdminRetry, OwnerRetry, AdminCancel, BecomesAvailable, LeaseExpires
<1>2. OwnsJob(u)'
  <2>1. SUFFICES ASSUME Processing(u)'
                 PROVE  LET k == worker[u].job IN
                        /\ job'[k].status = "RUNNING" /\ job'[k].lockedBy = u
                        /\ job'[k].attempts = worker[u].seen /\ k \notin expired'
    BY <1>0 DEF OwnsJob, Bystander
  <2>2. Processing(u)
    BY <1>0, <2>1 DEF Processing, Bystander
  <2> DEFINE k == worker[u].job
  <2>3. /\ k \in JobIds /\ job[k].status = "RUNNING" /\ job[k].lockedBy = u
        /\ job[k].attempts = worker[u].seen /\ k \notin expired
    BY <1>0, <2>2, ProcessingJob DEF OwnsJob
  <2> HIDE DEF k
  <2>4. job'[k] = job[k]
    BY <1>0, <2>3 DEF JobStep, Enqueue, AdminRetry, OwnerRetry, AdminCancel, CanRetry,
         CanCancel, Claimable, BecomesAvailable, LeaseExpires
  <2>5. k \notin expired'
    <3>1. CASE LeaseExpires(j)
      <4>1. k # j
        BY <3>1 DEF LeaseExpires, k
      <4>. QED
        BY <2>3, <3>1, <4>1 DEF LeaseExpires
    <3>2. CASE ~LeaseExpires(j)
      BY <2>3, <3>2 DEF JobStep, Enqueue, AdminRetry, OwnerRetry, AdminCancel, BecomesAvailable
    <3>. QED
      BY <3>1, <3>2
  <2>. QED
    BY <2>3, <2>4, <2>5 DEF k
<1>3. SweepsExpired(u)'
  BY <1>0, <1>1 DEF SweepsExpired, Bystander
<1>4. CountsAttempt(u)'
  BY <1>0, ClaimReads DEF CountsAttempt, Bystander
<1>. QED
  BY <1>2, <1>3, <1>4

\* Neither does a step of another worker.
LEMMA WorkerStepRuns ==
  ASSUME RunInv, NEW w \in Workers, WorkerStep(w), NEW u \in Workers, u # w
  PROVE  (OwnsJob(u) /\ SweepsExpired(u) /\ CountsAttempt(u))'
<1>0. /\ LockInv /\ OwnsJob(u) /\ SweepsExpired(u) /\ CountsAttempt(u) /\ Bystander(u)
      /\ OwnsJob(w) /\ SweepsExpired(w) /\ HoldsOffer(w) /\ Shape(worker[w])
      /\ job \in [JobIds -> Row] /\ TypeOK /\ ThreadShape
  BY WorkerStepBystander DEF RunInv, LockInv, TypeOK, ThreadShape
<1>c. CASE CommitClaim(w) \/ CommitSettle(w) \/ CommitSweep(w)
  <2>1. /\ expired' = expired \ worker[w].reads
        /\ \E next : worker' = Moved(worker[w].reads, w, next)
    BY <1>0, <1>c DEF CommitClaim, CommitSettle, CommitSweep, Shape, Settlements
  <2>2. OwnsJob(u)'
    <3>1. SUFFICES ASSUME Processing(u)'
                   PROVE  LET k == worker[u].job IN
                          /\ job'[k].status = "RUNNING" /\ job'[k].lockedBy = u
                          /\ job'[k].attempts = worker[u].seen /\ k \notin expired'
      BY <1>0 DEF OwnsJob, Bystander
    <3>2. Processing(u)
      BY <1>0, <3>1 DEF Processing, Bystander
    <3> DEFINE k == worker[u].job
    <3>3. /\ k \in JobIds /\ job[k].status = "RUNNING" /\ job[k].lockedBy = u
          /\ job[k].attempts = worker[u].seen /\ k \notin expired
      BY <1>0, <3>2, ProcessingJob DEF OwnsJob
    <3> HIDE DEF k
    <3>4. ~(CommitClaim(w) /\ k = worker[w].job)
      BY <1>0, <3>3 DEF CommitClaim, HoldsOffer, Claimable
    <3>5. ~(CommitSettle(w) /\ k = worker[w].job)
      BY <1>0, <3>3 DEF CommitSettle, OwnsJob, Processing
    <3>6. ~(CommitSweep(w) /\ k \in worker[w].reads)
      BY <1>0, <3>3 DEF CommitSweep, SweepsExpired, CanCommit, VersionOK
    <3>7. job'[k] = job[k]
      BY <1>0, <1>c, <3>3, <3>4, <3>5, <3>6, CommitEffect
    <3>. QED
      BY <2>1, <3>3, <3>7 DEF k
  <2>3. SweepsExpired(u)'
    <3>1. worker'[u].fresh = "FRESH" => worker[u].reads \cap worker[w].reads = {}
      BY <1>0, <2>1, MovedFrame
    <3>. QED
      BY <1>0, <2>1, <3>1 DEF SweepsExpired, Bystander
  <2>4. CountsAttempt(u)'
    BY <1>0, ClaimReads DEF CountsAttempt, Bystander
  <2>. QED
    BY <2>2, <2>3, <2>4
<1>o. CASE job' = job /\ expired' = expired
  <2>1. OwnsJob(u)'
    BY <1>0, <1>o DEF OwnsJob, Processing, Bystander
  <2>. QED
    BY <1>0, <1>o, <2>1 DEF SweepsExpired, CountsAttempt, Bystander
<1>. QED
  BY <1>c, <1>o DEF WorkerStep, LockNext, Progress, Handled, BeginSettle, BeginSweep,
       Rollback, Crash, Restart

\* A worker's own step: it owns what it claimed until it settles it.
LEMMA OwnRuns ==
  ASSUME RunInv, NEW w \in Workers, WorkerStep(w)
  PROVE  (OwnsJob(w) /\ SweepsExpired(w) /\ CountsAttempt(w))'
<1>0. /\ LockInv /\ OwnsJob(w) /\ CountsAttempt(w) /\ Shape(worker[w])
      /\ worker[w] \in Worker /\ worker \in [Workers -> Worker]
      /\ job \in [JobIds -> Row] /\ TypeOK /\ ThreadShape
      /\ queue \in Seq(JobIds)
  BY DEF RunInv, LockInv, TypeOK, ThreadShape
<1>1. ASSUME worker'[w].op \notin {"claim", "sweep"},
             Processing(w)' => /\ Processing(w) /\ worker'[w].job = worker[w].job
                               /\ worker'[w].seen = worker[w].seen,
             job' = job, expired' = expired
      PROVE  (OwnsJob(w) /\ SweepsExpired(w) /\ CountsAttempt(w))'
  <2>1. OwnsJob(w)'
    BY <1>0, <1>1 DEF OwnsJob
  <2>. QED
    BY <1>1, <2>1 DEF SweepsExpired, CountsAttempt
<1>2. ASSUME worker'[w].op = "none", worker'[w].pc \in {"idle", "down"}
      PROVE  (OwnsJob(w) /\ SweepsExpired(w) /\ CountsAttempt(w))'
  BY <1>2 DEF OwnsJob, SweepsExpired, CountsAttempt, Processing, Settlements
<1>3. CASE LockNext(w)
  <2>1. PICK i \in 1 .. Len(queue) :
          worker' = [worker EXCEPT ![w] =
               [IdleWorker EXCEPT !.pc = "tx", !.op = "claim", !.job = queue[i],
                  !.seen = job[queue[i]].attempts + 1, !.reads = {queue[i]},
                  !.rows = RowFor(queue[i], Claimed(job[queue[i]], w))]]
    BY <1>3 DEF LockNext
  <2>2. /\ worker'[w].op = "claim" /\ worker'[w].pc = "tx" /\ worker'[w].job = queue[i]
        /\ worker'[w].seen = job[queue[i]].attempts + 1 /\ job' = job
    BY <1>0, <1>3, <2>1 DEF IdleWorker, LockNext
  <2>. QED
    BY <2>2 DEF OwnsJob, SweepsExpired, CountsAttempt, Processing, Settlements
<1>4. CASE CommitClaim(w)
  <2> DEFINE j == worker[w].job
  <2>1. worker'[w] = [worker[w] EXCEPT !.pc = "handling", !.op = "none",
                                       !.reads = {}, !.rows = NoRows]
    BY <1>4, MovedSelf DEF CommitClaim
  <2>2. /\ worker'[w].op = "none" /\ worker'[w].job = j
        /\ worker'[w].seen = worker[w].seen
    BY <1>0, <2>1 DEF Worker
  <2>3. /\ j \in JobIds /\ worker[w].seen = job[j].attempts + 1 /\ expired' = expired \ {j}
        /\ worker[w].reads = {j} /\ job[j] \in Row
    BY <1>0, <1>4, ClaimReads DEF CommitClaim, CountsAttempt
  <2> HIDE DEF j
  <2>4. job'[j] = Claimed(job[j], w)
    BY <1>0, <1>4, <2>3, CommitEffect DEF CommitClaim, CommitSettle, CommitSweep, Settlements
  <2>5. /\ job'[j].status = "RUNNING" /\ job'[j].lockedBy = w
        /\ job'[j].attempts = worker[w].seen
    BY <2>3, <2>4 DEF Claimed, Row
  <2>6. OwnsJob(w)'
    BY <2>2, <2>3, <2>5 DEF OwnsJob
  <2>. QED
    BY <2>2, <2>6 DEF SweepsExpired, CountsAttempt
<1>5. CASE Progress(w)
  <2>1. worker'[w] = worker[w] /\ worker[w].op = "none"
    BY <1>0, <1>5, MovedSelf DEF Progress, Shape
  <2>. QED
    BY <1>1, <1>5, <2>1 DEF Progress, Processing
<1>6. ASSUME NEW o \in Settlements, Handled(w, o)
      PROVE  (OwnsJob(w) /\ SweepsExpired(w) /\ CountsAttempt(w))'
  <2>1. /\ worker'[w].op = o /\ worker'[w].job = worker[w].job
        /\ worker'[w].seen = worker[w].seen
    BY <1>0, <1>6 DEF Handled, Worker
  <2>. QED
    BY <1>1, <1>6, <2>1 DEF Handled, Processing, Settlements
<1>7. CASE BeginSettle(w)
  <2>1. /\ worker'[w].op = worker[w].op /\ worker'[w].job = worker[w].job
        /\ worker'[w].seen = worker[w].seen
    BY <1>0, <1>7 DEF BeginSettle, Worker
  <2>2. worker[w].op \in Settlements
    BY <1>0, <1>7 DEF BeginSettle, Shape
  <2>. QED
    BY <1>1, <1>7, <2>1, <2>2 DEF BeginSettle, Processing, Settlements
<1>8. CASE CommitSettle(w) \/ CommitSweep(w)
  BY <1>2, <1>8, MovedSelf DEF CommitSettle, CommitSweep, IdleWorker
<1>9. CASE BeginSweep(w)
  <2>1. /\ worker'[w].op = "sweep" /\ worker'[w].pc = "tx"
        /\ worker'[w].reads = StaleRunning /\ job' = job /\ expired' = expired
    BY <1>0, <1>9 DEF BeginSweep, IdleWorker
  <2>. QED
    BY <2>1 DEF OwnsJob, SweepsExpired, CountsAttempt, Processing, Settlements, StaleRunning
<1>10. CASE Rollback(w)
  <2>1. CASE worker[w].op = "succeed"
    <3>1. worker'[w] = [worker[w] EXCEPT !.pc = "settling", !.op = "fail", !.reads = {},
                          !.rows = NoRows, !.fresh = "FRESH", !.bill = 0]
      BY <1>0, <1>10, <2>1 DEF Rollback
    <3>2. /\ worker'[w].op = "fail" /\ worker'[w].job = worker[w].job
          /\ worker'[w].seen = worker[w].seen
      BY <1>0, <3>1 DEF Worker
    <3>. QED
      BY <1>1, <1>10, <2>1, <3>2 DEF Rollback, Processing, Settlements
  <2>2. CASE worker[w].op # "succeed"
    BY <1>0, <1>2, <1>10, <2>2 DEF Rollback, IdleWorker
  <2>. QED
    BY <2>1, <2>2
<1>11. CASE Crash(w) \/ Restart(w)
  BY <1>0, <1>2, <1>11 DEF Crash, Restart, IdleWorker
<1>. QED
  BY <1>3, <1>4, <1>5, <1>6, <1>7, <1>8, <1>9, <1>10, <1>11 DEF WorkerStep

\* RunInv holds throughout, if runs end within their lease.
LEMMA RunInvHolds ==
  ASSUME LeaseOutlivesRun
  PROVE  Spec => []RunInv
<1>1. Init => RunInv
  <2>1. SUFFICES ASSUME Init PROVE RunInv
    OBVIOUS
  <2>2. \A w \in Workers : worker[w].op = "none" /\ worker[w].pc = "idle"
    BY <2>1 DEF Init, IdleWorker
  <2>3. \A w \in Workers : OwnsJob(w) /\ SweepsExpired(w) /\ CountsAttempt(w)
    BY <2>2 DEF OwnsJob, SweepsExpired, CountsAttempt, Processing, Settlements
  <2>. QED
    BY <2>1, <2>3, LockInvInit DEF RunInv
<1>2. RunInv /\ [Next]_vars => RunInv'
  <2>1. SUFFICES ASSUME RunInv, [Next]_vars PROVE RunInv'
    OBVIOUS
  <2>2. CASE Next
    <3>1. LockInv'
      BY <2>1, <2>2, LockInvStep DEF RunInv
    <3>2. ASSUME NEW u \in Workers
          PROVE  (OwnsJob(u) /\ SweepsExpired(u) /\ CountsAttempt(u))'
      BY <2>1, <2>2, JobStepRuns, WorkerStepRuns, OwnRuns DEF Next
    <3>. QED
      BY <3>1, <3>2 DEF RunInv
  <2>3. CASE UNCHANGED vars
    BY <2>1, <2>3 DEF RunInv, LockInv, vars, TypeOK, ThreadShape, Shape, FlushesCurrent,
         HoldsOffer, KnowsItsJobs, ClaimsAreExclusive, OwnsJob, Processing, SweepsExpired,
         CountsAttempt
  <2>. QED
    BY <2>1, <2>2, <2>3
<1>. QED
  BY <1>1, <1>2, PTL DEF Spec

\* If every run ends within its lease, then across crashes, sweeps, retries
\* and cancels no two processes run the same job, and a process settles only
\* the attempt it owns: succeed, fail and defer need no guard of their own.
THEOREM LeasedRunsAreExclusive ==
  ASSUME LeaseOutlivesRun
  PROVE  Spec => []RunsAreExclusive
<1>1. RunInv => RunsAreExclusive
  BY DEF RunInv, OwnsJob, RunsAreExclusive, SoleRunner, SettlesOwnJob
<1>. QED
  BY <1>1, RunInvHolds, PTL

\* If every run ends within its lease, a finished job leaves its final status
\* only by an explicit retry of a FAILED job.
THEOREM FinalStatusStays ==
  ASSUME LeaseOutlivesRun
  PROVE  Spec => TerminalIsFinal
<1> DEFINE Stays == \A j \in JobIds :
              job[j].status \in Terminal /\ job'[j].status # job[j].status
                => job[j].status = "FAILED" /\ retries' = retries + 1
<1>1. RunInv /\ [Next]_vars => [Stays]_vars
  <2>1. SUFFICES ASSUME RunInv, Next, NEW k \in JobIds,
                        job[k].status \in Terminal, job'[k].status # job[k].status
                 PROVE  job[k].status = "FAILED" /\ retries' = retries + 1
    OBVIOUS
  <2>0. LockInv /\ job \in [JobIds -> Row]
    BY <2>1 DEF RunInv, LockInv, TypeOK
  <2>2. ASSUME NEW j \in JobIds, JobStep(j)
        PROVE  job[k].status = "FAILED" /\ retries' = retries + 1
    <3>1. CASE AdminRetry(j) \/ OwnerRetry(j)
      BY <2>0, <2>1, <3>1 DEF AdminRetry, OwnerRetry, CanRetry
    <3>2. CASE Enqueue(j) \/ AdminCancel(j) \/ BecomesAvailable(j) \/ LeaseExpires(j)
      BY <2>0, <2>1, <3>2 DEF Enqueue, AdminCancel, CanCancel, BecomesAvailable,
           LeaseExpires, Claimable, Terminal
    <3>. QED
      BY <2>2, <3>1, <3>2 DEF JobStep
  <2>3. ASSUME NEW w \in Workers, WorkerStep(w) PROVE FALSE
    <3>0. OwnsJob(w) /\ SweepsExpired(w) /\ HoldsOffer(w)
      BY <2>1 DEF RunInv, LockInv
    <3>1. CommitClaim(w) \/ CommitSettle(w) \/ CommitSweep(w)
      BY <2>1, <2>3 DEF WorkerStep, LockNext, Progress, Handled, BeginSettle, BeginSweep,
           Rollback, Crash, Restart
    <3>2. ~(CommitClaim(w) /\ k = worker[w].job)
      BY <2>1, <3>0 DEF CommitClaim, HoldsOffer, Claimable, Terminal
    <3>3. ~(CommitSettle(w) /\ k = worker[w].job)
      BY <2>1, <3>0 DEF CommitSettle, OwnsJob, Processing, Terminal
    <3>4. ~(CommitSweep(w) /\ k \in worker[w].reads)
      BY <2>1, <3>0 DEF CommitSweep, SweepsExpired, CanCommit, VersionOK, Terminal
    <3>5. job'[k] = job[k]
      BY <2>0, <3>1, <3>2, <3>3, <3>4, CommitEffect
    <3>. QED
      BY <2>1, <3>5
  <2>. QED
    BY <2>1, <2>2, <2>3 DEF Next
<1>2. [][Stays]_vars => TerminalIsFinal
  BY DEF TerminalIsFinal
<1>. QED
  BY <1>1, <1>2, RunInvHolds, PTL DEF Spec

-----------------------------------------------------------------------------
(* The queue itself: who is on offer, and how often.                       *)

\* The two ways a sequence of jobs is read by QueueIsExact.
Distinct(q) == \A i, k \in 1 .. Len(q) : i # k => q[i] # q[k]
Lists(q, j) == \E i \in 1 .. Len(q) : q[i] = j

\* A job that is put at the end of the queue.
LEMMA Appended ==
  ASSUME NEW q \in Seq(JobIds), NEW j \in JobIds, Distinct(q), ~Lists(q, j)
  PROVE  /\ Distinct(Append(q, j))
         /\ \A k \in JobIds : Lists(Append(q, j), k) <=> Lists(q, k) \/ k = j
<1> DEFINE r == Append(q, j)
<1>1. /\ Len(r) = Len(q) + 1 /\ Len(q) \in Nat /\ r[Len(q) + 1] = j
      /\ \A i \in 1 .. Len(q) : r[i] = q[i]
  OBVIOUS
<1> HIDE DEF r
<1>2. \A i \in 1 .. Len(r) : i \in 1 .. Len(q) \/ i = Len(q) + 1
  BY <1>1
<1>3. Distinct(r)
  BY <1>1, <1>2 DEF Distinct, Lists
<1>4. ASSUME NEW k \in JobIds PROVE Lists(r, k) <=> Lists(q, k) \/ k = j
  <2>1. Lists(r, k) => Lists(q, k) \/ k = j
    BY <1>1, <1>2 DEF Lists
  <2>2. \A i \in 1 .. Len(q) : i \in 1 .. Len(r)
    BY <1>1
  <2>3. Len(q) + 1 \in 1 .. Len(r)
    BY <1>1
  <2> QED BY <1>1, <2>1, <2>2, <2>3 DEF Lists
<1> QED BY <1>3, <1>4 DEF r

\* The jobs that a sweep puts at the end.
LEMMA Concatenated ==
  ASSUME NEW q \in Seq(JobIds), NEW S \in SUBSET JobIds, NEW n \in Nat, NEW s \in [1 .. n -> S],
         InCreationOrder(s, n, S), Distinct(q), \A j \in S : ~Lists(q, j)
  PROVE  /\ Distinct(q \o s)
         /\ \A k \in JobIds : Lists(q \o s, k) <=> Lists(q, k) \/ k \in S
<1> DEFINE r == q \o s
<1>1. s \in Seq(JobIds) /\ Len(s) = n /\ Len(q) \in Nat
  OBVIOUS
<1>2. /\ Len(r) = Len(q) + n
      /\ \A i \in 1 .. Len(q) : r[i] = q[i]
      /\ \A i \in 1 .. n : r[Len(q) + i] = s[i]
  BY <1>1
<1> HIDE DEF r
<1>3. \A i \in 1 .. Len(r) : i \in 1 .. Len(q) \/ \E k \in 1 .. n : i = Len(q) + k
  <2> TAKE i \in 1 .. Len(r)
  <2>1. CASE i <= Len(q)
    BY <1>1, <1>2, <2>1
  <2>2. CASE i > Len(q)
    <3>1. i - Len(q) \in 1 .. n /\ i = Len(q) + (i - Len(q))
      BY <1>1, <1>2, <2>2
    <3> QED BY <3>1
  <2> QED BY <1>1, <2>1, <2>2
<1>4. \A i, k \in 1 .. n : i # k => s[i] # s[k]
  <2> TAKE i, k \in 1 .. n
  <2>1. s[i] \in JobIds /\ s[k] \in JobIds /\ (i < k => s[i] < s[k]) /\ (k < i => s[k] < s[i])
    BY DEF InCreationOrder
  <2> QED BY <2>1, QueueAssumptions DEF JobIds
<1>5. Distinct(r)
  <2> SUFFICES ASSUME NEW i \in 1 .. Len(r), NEW k \in 1 .. Len(r), i # k PROVE r[i] # r[k]
    BY DEF Distinct
  <2>1. CASE i \in 1 .. Len(q) /\ k \in 1 .. Len(q)
    BY <1>2, <2>1 DEF Distinct
  <2>2. ASSUME NEW a \in 1 .. n, NEW b \in 1 .. n, i = Len(q) + a, k = Len(q) + b
        PROVE  r[i] # r[k]
    BY <1>2, <1>4, <2>2
  <2>3. ASSUME NEW a \in 1 .. n, NEW b \in 1 .. Len(q) PROVE r[Len(q) + a] # r[b]
    BY <1>2 DEF Lists
  <2> QED BY <1>3, <2>1, <2>2, <2>3
<1>6. ASSUME NEW k \in JobIds PROVE Lists(r, k) <=> Lists(q, k) \/ k \in S
  <2>1. Lists(r, k) => Lists(q, k) \/ k \in S
    <3>1. ASSUME NEW i \in 1 .. Len(r) PROVE Lists(q, r[i]) \/ r[i] \in S
      <4>1. CASE i \in 1 .. Len(q)
        BY <1>2, <4>1 DEF Lists
      <4>2. ASSUME NEW a \in 1 .. n, i = Len(q) + a PROVE r[i] \in S
        <5>1. r[i] = s[a]
          BY <1>2, <4>2
        <5> QED BY <5>1
      <4> QED BY <1>3, <4>1, <4>2
    <3> QED BY <3>1 DEF Lists
  <2>2. Lists(q, k) => Lists(r, k)
    <3>1. \A i \in 1 .. Len(q) : i \in 1 .. Len(r)
      BY <1>1, <1>2
    <3> QED BY <1>2, <3>1 DEF Lists
  <2>3. k \in S => Lists(r, k)
    <3>1. \A i \in 1 .. n : Len(q) + i \in 1 .. Len(r)
      BY <1>1, <1>2
    <3>2. k \in S => \E i \in 1 .. n : s[i] = k
      BY DEF InCreationOrder
    <3> QED BY <1>2, <3>1, <3>2 DEF Lists
  <2> QED BY <2>1, <2>2, <2>3
<1> QED BY <1>5, <1>6 DEF r

\* A job that leaves the queue leaves it altogether, and no other job does.
LEMMA DequeuedLists ==
  ASSUME queue \in Seq(JobIds), Distinct(queue), NEW j \in JobIds
  PROVE  /\ Distinct(Dequeued(j))
         /\ \A k \in JobIds : Lists(Dequeued(j), k) <=> Lists(queue, k) /\ k # j
<1>1. CASE \E i \in 1 .. Len(queue) : queue[i] = j
  <2> DEFINE m == CHOOSE i \in 1 .. Len(queue) : queue[i] = j
             r == RemoveAt(queue, m)
  <2>1. m \in 1 .. Len(queue) /\ queue[m] = j
    BY <1>1
  <2> HIDE DEF m
  <2>2. /\ Len(r) = Len(queue) - 1 /\ Len(queue) \in Nat
        /\ \A i \in 1 .. Len(r) : r[i] = IF i < m THEN queue[i] ELSE queue[i + 1]
    <3> DEFINE a == SubSeq(queue, 1, m - 1)
               b == SubSeq(queue, m + 1, Len(queue))
    <3>1. Len(queue) \in Nat /\ m \in Nat /\ 1 <= m /\ m <= Len(queue)
      BY <2>1
    <3>2. a \in Seq(JobIds) /\ Len(a) = m - 1 /\ \A i \in 1 .. m - 1 : a[i] = queue[i]
      BY <3>1
    <3>3. /\ b \in Seq(JobIds) /\ Len(b) = Len(queue) - m
          /\ \A i \in 1 .. Len(queue) - m : b[i] = queue[m + i]
      BY <3>1
    <3>4. r = a \o b
      BY DEF RemoveAt
    <3> HIDE DEF a, b, r
    <3>5. Len(r) = Len(queue) - 1
      <4>1. Len(r) = Len(a) + Len(b)
        BY <3>2, <3>3, <3>4
      <4> QED BY <3>1, <3>2, <3>3, <4>1
    <3>6. ASSUME NEW i \in 1 .. Len(r) PROVE r[i] = IF i < m THEN queue[i] ELSE queue[i + 1]
      <4>1. CASE i < m
        BY <3>1, <3>2, <3>3, <3>4, <3>5, <4>1
      <4>2. CASE ~(i < m)
        <5>1. i - (m - 1) \in 1 .. Len(queue) - m /\ m + (i - (m - 1)) = i + 1
          BY <3>1, <3>5, <4>2
        <5>2. r[i] = b[i - (m - 1)]
          BY <3>1, <3>2, <3>3, <3>4, <3>5, <4>2
        <5> QED BY <3>3, <4>2, <5>1, <5>2
      <4> QED BY <4>1, <4>2
    <3> QED BY <3>1, <3>5, <3>6
  <2>3. Dequeued(j) = r
    BY <1>1 DEF Dequeued, m
  <2> HIDE DEF r
  <2>4. Distinct(r)
    <3> SUFFICES ASSUME NEW i \in 1 .. Len(r), NEW k \in 1 .. Len(r), i # k PROVE r[i] # r[k]
      BY DEF Distinct
    <3>1. PICK a \in 1 .. Len(queue) : r[i] = queue[a] /\ a = IF i < m THEN i ELSE i + 1
      BY <2>1, <2>2
    <3>2. PICK b \in 1 .. Len(queue) : r[k] = queue[b] /\ b = IF k < m THEN k ELSE k + 1
      BY <2>1, <2>2
    <3>3. a # b
      BY <2>1, <2>2, <3>1, <3>2
    <3> QED BY <3>1, <3>2, <3>3 DEF Distinct
  <2>5. ASSUME NEW k \in JobIds PROVE Lists(r, k) <=> Lists(queue, k) /\ k # j
    <3>1. ASSUME NEW i \in 1 .. Len(r) PROVE Lists(queue, r[i]) /\ r[i] # j
      <4>1. PICK a \in 1 .. Len(queue) : r[i] = queue[a] /\ a = IF i < m THEN i ELSE i + 1
        BY <2>1, <2>2
      <4>2. a # m
        BY <2>1, <4>1
      <4> QED BY <2>1, <4>1, <4>2 DEF Lists, Distinct
    <3>2. ASSUME NEW a \in 1 .. Len(queue), a # m PROVE Lists(r, queue[a])
      <4>1. PICK i \in 1 .. Len(r) : a = IF i < m THEN i ELSE i + 1
        <5>1. CASE a < m
          BY <2>1, <2>2, <5>1
        <5>2. CASE a > m
          <6>1. a - 1 \in 1 .. Len(r) /\ ~(a - 1 < m) /\ a = (a - 1) + 1
            BY <2>1, <2>2, <5>2
          <6> QED BY <6>1
        <5> QED BY <2>1, <3>2, <5>1, <5>2
      <4> QED BY <2>2, <4>1 DEF Lists
    <3> QED BY <2>1, <3>1, <3>2 DEF Lists
  <2> QED BY <2>3, <2>4, <2>5
<1>2. CASE ~\E i \in 1 .. Len(queue) : queue[i] = j
  BY <1>2 DEF Dequeued, Lists
<1> QED BY <1>1, <1>2


\* A sweep that can still commit takes back RUNNING jobs only.
SweepsRunning(w) ==
  worker[w].op = "sweep" /\ worker[w].fresh = "FRESH" =>
    \A j \in worker[w].reads : job[j].status = "RUNNING"

OfferInv ==
  /\ LockInv
  /\ \A w \in Workers : SweepsRunning(w)
  /\ Distinct(queue)
  /\ \A j \in JobIds : Lists(queue, j) => job[j].status \in Claimable
  /\ \A j \in JobIds : job[j].status = "QUEUED" => Lists(queue, j)

\* The statuses that the transitions lead to.
LEMMA NewStatuses ==
  ASSUME NEW row \in Row, NEW j, NEW a, NEW w
  PROVE  /\ NewJob(a).status = "QUEUED"
         /\ RetriedByAdmin(row, a).status = "RETRY" /\ RetriedByOwner(row, a).status = "RETRY"
         /\ Cancelled(row, Kind[j]).status = "FAILED"
         /\ Claimed(row, w).status = "RUNNING" /\ Reclaimed(row).status = "RETRY"
         /\ \A o \in Settlements : Settled(row, o, j).status \in Terminal \cup {"RETRY"}
<1>1. \A o \in Settlements : Settled(row, o, j).status \in Terminal \cup {"RETRY"}
  BY DEF Settled, Settlements, Row, Succeeded, Deferred, Failed, Terminal
<1> QED BY <1>1 DEF Row, NewJob, RetriedByAdmin, RetriedByOwner, Cancelled, Claimed, Reclaimed

LEMMA OfferJobStep ==
  ASSUME OfferInv, NEW j \in JobIds, JobStep(j)
  PROVE  /\ Distinct(queue')
         /\ \A k \in JobIds : Lists(queue', k) => job'[k].status \in Claimable
         /\ \A k \in JobIds : job'[k].status = "QUEUED" => Lists(queue', k)
<1>0. queue \in Seq(JobIds) /\ job \in [JobIds -> Row] /\ job[j] \in Row /\ Distinct(queue)
  BY DEF OfferInv, LockInv, TypeOK
<1>1. CASE Enqueue(j)
  <2>1. /\ job' = [job EXCEPT ![j] = NewJob(Admission(j))] /\ queue' = Append(queue, j)
        /\ job[j].status = "ABSENT"
    BY <1>1 DEF Enqueue
  <2>2. ~Lists(queue, j)
    BY <2>1 DEF OfferInv, Claimable
  <2>3. /\ Distinct(queue')
        /\ \A k \in JobIds : Lists(queue', k) <=> Lists(queue, k) \/ k = j
    BY <1>0, <2>1, <2>2, Appended
  <2>4. job'[j].status = "QUEUED" /\ \A k \in JobIds \ {j} : job'[k] = job[k]
    <3>1. NewJob(Admission(j)).status = "QUEUED"
      BY <1>0, NewStatuses
    <3> QED BY ONLY <1>0, <2>1, <3>1, j \in JobIds
  <2> QED BY <2>3, <2>4 DEF OfferInv, Claimable
<1>2. CASE AdminRetry(j) \/ OwnerRetry(j)
  <2>1. /\ job[j].status = "FAILED" /\ queue' = Append(queue, j)
        /\ \/ job' = [job EXCEPT ![j] = RetriedByAdmin(job[j], Admission(j))]
           \/ job' = [job EXCEPT ![j] = RetriedByOwner(job[j], Admission(j))]
    BY <1>0, <1>2 DEF AdminRetry, OwnerRetry, CanRetry
  <2>2. ~Lists(queue, j)
    BY <2>1 DEF OfferInv, Claimable
  <2>3. /\ Distinct(queue')
        /\ \A k \in JobIds : Lists(queue', k) <=> Lists(queue, k) \/ k = j
    BY <1>0, <2>1, <2>2, Appended
  <2>4. job'[j].status = "RETRY" /\ \A k \in JobIds \ {j} : job'[k] = job[k]
    <3>1. /\ RetriedByAdmin(job[j], Admission(j)).status = "RETRY"
          /\ RetriedByOwner(job[j], Admission(j)).status = "RETRY"
      BY <1>0, NewStatuses
    <3> QED BY ONLY <1>0, <2>1, <3>1, j \in JobIds
  <2> QED BY <2>3, <2>4 DEF OfferInv, Claimable
<1>3. CASE AdminCancel(j)
  <2>1. job' = [job EXCEPT ![j] = Cancelled(job[j], Kind[j])] /\ queue' = Dequeued(j)
    BY <1>0, <1>3 DEF AdminCancel
  <2>2. /\ Distinct(queue')
        /\ \A k \in JobIds : Lists(queue', k) <=> Lists(queue, k) /\ k # j
    BY <1>0, <2>1, DequeuedLists
  <2>3. job'[j].status = "FAILED" /\ \A k \in JobIds \ {j} : job'[k] = job[k]
    BY <1>0, <2>1, NewStatuses
  <2> QED BY <2>2, <2>3 DEF OfferInv
<1>4. CASE BecomesAvailable(j)
  <2>1. /\ job' = job /\ queue' = Append(queue, j) /\ job[j].status = "RETRY"
        /\ ~Lists(queue, j)
    BY <1>4 DEF BecomesAvailable, Lists
  <2>2. /\ Distinct(queue')
        /\ \A k \in JobIds : Lists(queue', k) <=> Lists(queue, k) \/ k = j
    BY <1>0, <2>1, Appended
  <2> QED BY <2>1, <2>2 DEF OfferInv, Claimable
<1>5. CASE LeaseExpires(j)
  BY <1>5 DEF LeaseExpires, OfferInv
<1> QED BY <1>1, <1>2, <1>3, <1>4, <1>5 DEF JobStep

LEMMA OfferWorkerStep ==
  ASSUME OfferInv, NEW w \in Workers, WorkerStep(w)
  PROVE  /\ Distinct(queue')
         /\ \A k \in JobIds : Lists(queue', k) => job'[k].status \in Claimable
         /\ \A k \in JobIds : job'[k].status = "QUEUED" => Lists(queue', k)
<1>0. /\ queue \in Seq(JobIds) /\ job \in [JobIds -> Row] /\ Distinct(queue) /\ LockInv
      /\ worker[w] \in Worker /\ Shape(worker[w]) /\ worker[w].reads \subseteq JobIds
  BY DEF OfferInv, LockInv, TypeOK, ThreadShape, Worker
<1>1. CASE CommitClaim(w) \/ CommitSettle(w)
  <2>1. PICK j \in JobIds : j = worker[w].job
    BY <1>0, <1>1, ClaimReads DEF CommitClaim, CommitSettle, LockInv, Shape, Settlements
  <2>2. queue' = Dequeued(j)
    BY <1>1, <2>1 DEF CommitClaim, CommitSettle
  <2>3. /\ Distinct(queue')
        /\ \A k \in JobIds : Lists(queue', k) <=> Lists(queue, k) /\ k # j
    BY <1>0, <2>2, DequeuedLists
  <2>4. worker[w].reads = {j} /\ ~CommitSweep(w)
    BY <1>0, <1>1, <2>1, ClaimReads
       DEF CommitClaim, CommitSettle, CommitSweep, LockInv, Shape, Settlements
  <2>5. \A k \in JobIds \ {j} : job'[k] = job[k]
    BY <1>0, <1>1, <2>1, <2>4, CommitEffect
  <2>6. job'[j].status # "QUEUED"
    <3>1. \/ job'[j] = Claimed(job[j], w)
          \/ CommitSettle(w) /\ job'[j] = Settled(job[j], worker[w].op, j)
      BY <1>0, <1>1, <2>4, CommitEffect
    <3>2. CommitSettle(w) => worker[w].op \in Settlements
      BY DEF CommitSettle
    <3> QED BY <1>0, <3>1, <3>2, NewStatuses DEF Terminal
  <2> QED BY <2>3, <2>5, <2>6 DEF OfferInv
<1>2. CASE CommitSweep(w)
  <2> DEFINE S == worker[w].reads
  <2>10. PICK n \in 1 .. N : \E s \in [1 .. n -> S] :
                                 InCreationOrder(s, n, S) /\ queue' = (queue \o s)
    BY <1>2 DEF CommitSweep
  <2>1. PICK s \in [1 .. n -> S] : InCreationOrder(s, n, S) /\ queue' = (queue \o s)
    BY <2>10
  <2>2. worker[w].op = "sweep" /\ worker[w].fresh = "FRESH" /\ worker[w].op \notin Settlements
    BY <1>2 DEF CommitSweep, CanCommit, VersionOK, Settlements
  <2>3. \A j \in S : job[j].status = "RUNNING"
    BY <2>2 DEF OfferInv, SweepsRunning
  <2>4. S \in SUBSET JobIds /\ n \in Nat /\ \A j \in S : ~Lists(queue, j)
    BY <1>0, <2>3, QueueAssumptions DEF OfferInv, Claimable
  <2> HIDE DEF S
  <2>5. /\ Distinct(queue')
        /\ \A k \in JobIds : Lists(queue', k) <=> Lists(queue, k) \/ k \in S
    BY <1>0, <2>1, <2>4, Concatenated
  <2>6. \A k \in JobIds : IF k \in S THEN job'[k] = Reclaimed(job[k]) ELSE job'[k] = job[k]
    BY <1>0, <1>2, <2>2, CommitEffect DEF S, CommitClaim, CommitSettle
  <2>7. \A k \in S : job'[k].status = "RETRY"
    BY <1>0, <2>4, <2>6, NewStatuses
  <2> QED BY <2>5, <2>6, <2>7 DEF OfferInv, Claimable
<1>3. CASE UNCHANGED <<job, queue>>
  BY <1>3 DEF OfferInv
<1> QED BY <1>1, <1>2, <1>3 DEF WorkerStep, LockNext, Progress, Handled, BeginSettle, BeginSweep,
       Rollback, Crash, Restart

LEMMA SweepsStay ==
  ASSUME OfferInv, Next, NEW u \in Workers
  PROVE  SweepsRunning(u)'
<1>0. LockInv /\ SweepsRunning(u) /\ TypeOK
  BY DEF OfferInv, LockInv
<1>1. CASE Bystander(u)
  BY <1>0, <1>1 DEF SweepsRunning, Bystander
<1>2. CASE WorkerStep(u)
  <2>0. worker \in [Workers -> Worker] /\ worker[u] \in Worker /\ Shape(worker[u])
    BY <1>0 DEF TypeOK, OfferInv, LockInv, ThreadShape
  <2>1. CASE BeginSweep(u)
    <3>1. worker'[u].reads = StaleRunning /\ job' = job
      BY <2>0, <2>1 DEF BeginSweep, IdleWorker
    <3> QED BY <3>1 DEF SweepsRunning, StaleRunning
  <2>2. CASE LockNext(u)
    <3>1. worker'[u].op = "claim"
      BY <2>0, <2>2 DEF LockNext, IdleWorker
    <3> QED BY <3>1 DEF SweepsRunning
  <2>3. CASE CommitClaim(u)
    <3>1. worker'[u] = [worker[u] EXCEPT !.pc = "handling", !.op = "none",
                                         !.reads = {}, !.rows = NoRows]
      BY <2>3, MovedSelf DEF CommitClaim
    <3>2. worker'[u].op = "none"
      BY <2>0, <3>1 DEF Worker
    <3> QED BY <3>2 DEF SweepsRunning
  <2>4. CASE CommitSettle(u) \/ CommitSweep(u)
    <3>1. worker'[u] = IdleWorker
      BY <2>4, MovedSelf DEF CommitSettle, CommitSweep
    <3> QED BY <3>1 DEF SweepsRunning, IdleWorker
  <2>5. CASE Progress(u)
    <3>1. worker'[u] = worker[u] /\ job' = job
      BY <2>5, MovedSelf DEF Progress
    <3> QED BY <1>0, <3>1 DEF SweepsRunning
  <2>6. ASSUME NEW o \in Settlements, Handled(u, o) PROVE SweepsRunning(u)'
    <3>1. worker'[u].op = o
      BY <2>0, <2>6 DEF Handled, Worker
    <3> QED BY <3>1 DEF SweepsRunning, Settlements
  <2>7. CASE BeginSettle(u)
    <3>1. worker'[u].op = worker[u].op
      BY <2>0, <2>7 DEF BeginSettle, Worker
    <3>2. worker[u].op \in Settlements
      BY <2>0, <2>7 DEF BeginSettle, Shape
    <3> QED BY <3>1, <3>2 DEF SweepsRunning, Settlements
  <2>8. CASE Rollback(u)
    <3>1. worker'[u].reads = {}
      BY <1>0, <2>8, RollbackFields
    <3> QED BY <3>1 DEF SweepsRunning
  <2>9. CASE Crash(u) \/ Restart(u)
    <3>1. worker'[u].op = "none"
      BY <2>0, <2>9 DEF Crash, Restart, IdleWorker
    <3> QED BY <3>1 DEF SweepsRunning
  <2> QED BY <1>2, <2>1, <2>2, <2>3, <2>4, <2>5, <2>6, <2>7, <2>8, <2>9 DEF WorkerStep
<1> QED BY <1>0, <1>1, <1>2, JobStepBystander, WorkerStepBystander DEF Next

\* For any number of jobs and worker processes, and although settlements,
\* sweeps, retries and cancels move jobs in and out apart from the claims: the
\* queue offers each claimable job at most once, nothing else, and forgets no
\* QUEUED job.  It needs no bound on runs.
THEOREM QueueStaysExact == Spec => []QueueIsExact
<1>1. Init => OfferInv
  <2> SUFFICES ASSUME Init PROVE OfferInv
    OBVIOUS
  <2>1. /\ \A w \in Workers : worker[w].op = "none"
        /\ \A j \in JobIds : job[j].status = "ABSENT"
        /\ queue = <<>>
    BY DEF Init, IdleWorker, AbsentRow
  <2> QED BY <2>1, LockInvInit DEF OfferInv, SweepsRunning, Distinct, Lists
<1>2. OfferInv /\ [Next]_vars => OfferInv'
  <2>1. CASE OfferInv /\ Next
    <3>1. LockInv' /\ \A u \in Workers : SweepsRunning(u)'
      BY <2>1, LockInvStep, SweepsStay DEF OfferInv
    <3>2. /\ Distinct(queue')
          /\ \A k \in JobIds : Lists(queue', k) => job'[k].status \in Claimable
          /\ \A k \in JobIds : job'[k].status = "QUEUED" => Lists(queue', k)
      BY <2>1, OfferJobStep, OfferWorkerStep DEF Next
    <3> QED BY <3>1, <3>2 DEF OfferInv
  <2>2. CASE OfferInv /\ UNCHANGED vars
    BY <2>2 DEF OfferInv, LockInv, vars, TypeOK, ThreadShape, Shape, FlushesCurrent, HoldsOffer,
         KnowsItsJobs, ClaimsAreExclusive, SweepsRunning
  <2> QED BY <2>1, <2>2
<1>3. OfferInv => QueueIsExact
  <2> SUFFICES ASSUME OfferInv PROVE QueueIsExact
    OBVIOUS
  <2>1. \A i \in 1 .. Len(queue) : queue[i] \in JobIds /\ Lists(queue, queue[i])
    BY DEF OfferInv, LockInv, TypeOK, Lists
  <2> QED BY <2>1 DEF OfferInv, QueueIsExact, Distinct, Lists, InQueue
<1> QED BY <1>1, <1>2, <1>3, PTL DEF Spec

-----------------------------------------------------------------------------
(* The job and its resource.                                               *)

MarksFailure(j) == Kind[j] \in {"CREATE_QUIZ", "SOURCE"}

\* Once the handler is through, the resource knows what the settlement will
\* write: success, or the failure that leaves no attempt.
TellsOutcome(w) ==
  Processing(w) =>
    /\ worker[w].op = "succeed" => told[worker[w].job] = "DONE"
    /\ SeesTerminal(w, worker[w].op) /\ MarksFailure(worker[w].job)
       => told[worker[w].job] = "FAILED"

OutcomeInv ==
  /\ RunInv
  /\ \A w \in Workers : TellsOutcome(w)
  /\ OutcomesAgree /\ EmailKeepsPayload

\* The final statuses that a settlement writes, and the payload of a row that
\* will run again.
LEMMA SettledOutcome ==
  ASSUME NEW row \in Row, NEW o \in Settlements, NEW j \in JobIds
  PROVE  /\ Settled(row, o, j).status = "SUCCEEDED" => o = "succeed"
         /\ Settled(row, o, j).status = "FAILED"
            => o = "failForGood" \/ (o = "fail" /\ row.attempts >= MaxAttempts[j])
         /\ Settled(row, o, j).status \in Active => Settled(row, o, j).payload = row.payload
<1>1. /\ Succeeded(row, Kind[j]).status = "SUCCEEDED"
      /\ Deferred(row).status = "RETRY" /\ Deferred(row).payload = row.payload
  BY DEF Succeeded, Deferred, Row
<1>2. ASSUME NEW b \in BOOLEAN
      PROVE  /\ FailsForGood(row, b, MaxAttempts[j])
                => Failed(row, b, MaxAttempts[j], Kind[j]).status = "FAILED"
             /\ ~FailsForGood(row, b, MaxAttempts[j])
                => /\ Failed(row, b, MaxAttempts[j], Kind[j]).status = "RETRY"
                   /\ Failed(row, b, MaxAttempts[j], Kind[j]).payload = row.payload
  BY DEF Failed, Row
<1>3. CASE o = "succeed"
  BY <1>1, <1>3 DEF Settled, Active, Claimable
<1>4. CASE o = "defer"
  BY <1>1, <1>4 DEF Settled
<1>5. CASE o = "fail"
  <2>1. Settled(row, o, j) = Failed(row, FALSE, MaxAttempts[j], Kind[j])
    BY <1>5 DEF Settled
  <2>2. FailsForGood(row, FALSE, MaxAttempts[j]) <=> row.attempts >= MaxAttempts[j]
    BY DEF FailsForGood
  <2> QED BY <1>2, <1>5, <2>1, <2>2 DEF Active, Claimable
<1>6. CASE o = "failForGood"
  <2>1. Settled(row, o, j) = Failed(row, TRUE, MaxAttempts[j], Kind[j])
    BY <1>6 DEF Settled
  <2>2. FailsForGood(row, TRUE, MaxAttempts[j])
    BY DEF FailsForGood
  <2> QED BY <1>2, <1>6, <2>1, <2>2 DEF Active, Claimable
<1> QED BY <1>3, <1>4, <1>5, <1>6 DEF Settlements

\* The transitions that keep an active job active keep its payload.
LEMMA KeptPayload ==
  ASSUME NEW row \in Row, NEW w, NEW a, NEW kind
  PROVE  /\ NewJob(a).payload = "KEPT" /\ NewJob(a).status = "QUEUED"
         /\ Claimed(row, w).payload = row.payload /\ Claimed(row, w).status = "RUNNING"
         /\ Reclaimed(row).payload = row.payload /\ Reclaimed(row).status = "RETRY"
         /\ Cancelled(row, kind).status = "FAILED"
         /\ Cancelled(row, kind).error = "CANCELLED_BY_ADMIN"
  BY DEF Row, NewJob, Claimed, Reclaimed, Cancelled

\* Steps of the API and of time tell a resource nothing, and make no job
\* SUCCEEDED or failed by its run.
LEMMA JobStepOutcome ==
  ASSUME OutcomeInv, NEW j \in JobIds, JobStep(j)
  PROVE  /\ \A u \in Workers : TellsOutcome(u)'
         /\ OutcomesAgree' /\ EmailKeepsPayload'
<1>0. /\ LockInv /\ TypeOK /\ ThreadShape /\ job \in [JobIds -> Row] /\ job[j] \in Row
      /\ OutcomesAgree /\ EmailKeepsPayload /\ retries \in Nat
  BY QueueAssumptions DEF OutcomeInv, RunInv, LockInv, TypeOK
<1>1. told' = told
  BY DEF JobStep, Enqueue, AdminRetry, OwnerRetry, AdminCancel, BecomesAvailable, LeaseExpires
<1>2. ASSUME NEW u \in Workers PROVE TellsOutcome(u)'
  <2>1. Bystander(u) /\ TellsOutcome(u)
    BY <1>0, JobStepBystander DEF OutcomeInv
  <2> QED BY <1>1, <2>1 DEF TellsOutcome, Bystander, Processing, SeesTerminal
<1>3. CASE BecomesAvailable(j) \/ LeaseExpires(j)
  <2>1. job' = job /\ retries' = retries
    BY <1>3 DEF BecomesAvailable, LeaseExpires, budget
  <2> QED BY <1>0, <1>1, <1>2, <2>1 DEF OutcomesAgree, EmailKeepsPayload
<1>4. CASE Enqueue(j) \/ AdminCancel(j)
  <2>1. /\ \A k \in JobIds \ {j} : job'[k] = job[k]
        /\ retries' = retries
        /\ job'[j] = NewJob(Admission(j)) \/ job'[j] = Cancelled(job[j], Kind[j])
    BY <1>0, <1>4 DEF Enqueue, AdminCancel, budget
  <2>2. \/ job'[j].payload = "KEPT" /\ job'[j].status = "QUEUED"
        \/ job'[j].status = "FAILED" /\ job'[j].error = "CANCELLED_BY_ADMIN"
    BY <1>0, <2>1, KeptPayload
  <2>3. OutcomesAgree'
    BY <1>0, <1>1, <2>1, <2>2 DEF OutcomesAgree
  <2>4. EmailKeepsPayload'
    BY <1>0, <2>1, <2>2 DEF EmailKeepsPayload, Active, Claimable
  <2> QED BY <1>2, <2>3, <2>4
<1>5. CASE AdminRetry(j) \/ OwnerRetry(j)
  <2>1. /\ retries' = retries + 1
        /\ \/ job' = [job EXCEPT ![j] = RetriedByAdmin(job[j], Admission(j))]
           \/ job' = [job EXCEPT ![j] = RetriedByOwner(job[j], Admission(j))]
    BY <1>5 DEF AdminRetry, OwnerRetry
  <2>2. job'[j].status = "RETRY" /\ \A k \in JobIds \ {j} : job'[k] = job[k]
    BY <1>0, <2>1, RetriedLease
  <2>3. OutcomesAgree'
    BY <1>0, <1>1, <2>2 DEF OutcomesAgree
  <2>4. EmailKeepsPayload'
    BY <1>0, <2>1 DEF EmailKeepsPayload
  <2> QED BY <1>2, <2>3, <2>4
<1> QED BY <1>3, <1>4, <1>5 DEF JobStep

\* Only the owner of a running job tells its resource anything.
LEMMA WorkerTells ==
  ASSUME OutcomeInv, NEW w \in Workers, WorkerStep(w)
  PROVE  /\ \A k \in JobIds : told'[k] # told[k] =>
              k = worker[w].job /\ job[k].status = "RUNNING" /\ job[k].lockedBy = w /\ job' = job
         /\ TellsOutcome(w)'
<1>0. /\ LockInv /\ OwnsJob(w) /\ TellsOutcome(w) /\ Shape(worker[w]) /\ worker[w] \in Worker
      /\ worker \in [Workers -> Worker]
      /\ told \in [JobIds -> {"NOTHING", "DONE", "FAILED"}]
  BY DEF OutcomeInv, RunInv, LockInv, TypeOK, ThreadShape
<1>1. ASSUME NEW o \in Settlements, told' = ToldAfter(w, o), worker[w].job \in JobIds,
             Processing(w), job' = job,
             worker'[w].op = o, worker'[w].job = worker[w].job, worker'[w].seen = worker[w].seen
      PROVE  /\ \A k \in JobIds : told'[k] # told[k] =>
                  k = worker[w].job /\ job[k].status = "RUNNING" /\ job[k].lockedBy = w
                  /\ job' = job
             /\ TellsOutcome(w)'
  <2>1. \A k \in JobIds \ {worker[w].job} : told'[k] = told[k]
    BY <1>0, <1>1 DEF ToldAfter
  <2>2. /\ o = "succeed" => told'[worker[w].job] = "DONE"
        /\ SeesTerminal(w, o) /\ MarksFailure(worker[w].job) => told'[worker[w].job] = "FAILED"
    BY <1>0, <1>1 DEF ToldAfter, MarksFailure, SeesTerminal
  <2>3. SeesTerminal(w, worker[w].op)' => SeesTerminal(w, o)
    BY <1>1 DEF SeesTerminal
  <2>4. TellsOutcome(w)'
    BY <1>1, <2>2, <2>3 DEF TellsOutcome, MarksFailure
  <2> QED BY <1>0, <1>1, <2>1, <2>4 DEF OwnsJob
<1>2. ASSUME told' = told, worker'[w].op \notin Settlements
      PROVE  /\ \A k \in JobIds : told'[k] = told[k]
             /\ TellsOutcome(w)'
  BY <1>2 DEF TellsOutcome, SeesTerminal, Settlements
<1>3. ASSUME NEW o \in Settlements, Handled(w, o)
      PROVE  /\ \A k \in JobIds : told'[k] # told[k] =>
                  k = worker[w].job /\ job[k].status = "RUNNING" /\ job[k].lockedBy = w
                  /\ job' = job
             /\ TellsOutcome(w)'
  <2>1. /\ worker'[w].op = o /\ worker'[w].job = worker[w].job /\ worker'[w].seen = worker[w].seen
        /\ told' = ToldAfter(w, o) /\ job' = job /\ Processing(w) /\ worker[w].job \in JobIds
    BY <1>0, <1>3 DEF Handled, Worker, Processing, Shape
  <2> QED BY <1>1, <2>1
<1>4. CASE BeginSettle(w)
  <2>1. /\ worker'[w].op = worker[w].op /\ worker'[w].job = worker[w].job
        /\ worker'[w].seen = worker[w].seen /\ told' = told /\ Processing(w)
    BY <1>0, <1>4 DEF BeginSettle, Worker, Processing
  <2> QED BY <1>0, <2>1 DEF TellsOutcome, SeesTerminal
<1>5. CASE Rollback(w)
  <2>1. CASE worker[w].op = "succeed"
    <3>1. /\ worker'[w] = [worker[w] EXCEPT !.pc = "settling", !.op = "fail", !.reads = {},
                             !.rows = NoRows, !.fresh = "FRESH", !.bill = 0]
          /\ told' = ToldAfter(w, "fail") /\ job' = job /\ worker[w].pc = "tx"
      BY <1>0, <1>5, <2>1 DEF Rollback
    <3>2. /\ worker'[w].op = "fail" /\ worker'[w].job = worker[w].job
          /\ worker'[w].seen = worker[w].seen
          /\ Processing(w) /\ worker[w].job \in JobIds
      BY <1>0, <2>1, <3>1 DEF Worker, Processing, Settlements, Shape
    <3> QED BY <1>1, <3>1, <3>2 DEF Settlements
  <2>2. CASE worker[w].op # "succeed"
    <3>1. worker'[w] = IdleWorker /\ told' = told
      BY <1>0, <1>5, <2>2 DEF Rollback
    <3> QED BY <1>2, <3>1 DEF IdleWorker, Settlements
  <2> QED BY <2>1, <2>2
<1>6. CASE LockNext(w) \/ BeginSweep(w) \/ Crash(w) \/ Restart(w)
  <2>1. told' = told
    BY <1>6 DEF LockNext, BeginSweep, Crash, Restart
  <2>2. LockNext(w) => worker'[w].op = "claim"
    BY <1>0 DEF LockNext, IdleWorker
  <2>3. BeginSweep(w) => worker'[w].op = "sweep"
    BY <1>0 DEF BeginSweep, IdleWorker
  <2>4. Crash(w) \/ Restart(w) => worker'[w].op = "none"
    BY <1>0 DEF Crash, Restart, IdleWorker
  <2>5. worker'[w].op \notin Settlements
    BY <1>6, <2>2, <2>3, <2>4 DEF Settlements
  <2> QED BY <1>2, <2>1, <2>5
<1>7. CASE CommitClaim(w)
  <2>1. worker'[w] = [worker[w] EXCEPT !.pc = "handling", !.op = "none",
                                       !.reads = {}, !.rows = NoRows]
    BY <1>7, MovedSelf DEF CommitClaim
  <2>2. worker'[w].op = "none" /\ told' = told
    BY <1>0, <1>7, <2>1 DEF Worker, CommitClaim
  <2> QED BY <1>2, <2>2 DEF Settlements
<1>8. CASE CommitSettle(w) \/ CommitSweep(w)
  <2>1. worker'[w].op = "none" /\ told' = told
    BY <1>8, MovedSelf DEF CommitSettle, CommitSweep, IdleWorker
  <2> QED BY <1>2, <2>1 DEF Settlements
<1>9. CASE Progress(w)
  <2>1. worker'[w] = worker[w] /\ told' = told /\ worker[w].op = "none"
    BY <1>0, <1>9, MovedSelf DEF Progress, Shape
  <2> QED BY <1>2, <2>1 DEF Settlements
<1> QED BY <1>3, <1>4, <1>5, <1>6, <1>7, <1>8, <1>9 DEF WorkerStep

\* A commit of a worker writes a final status only when its resource knows.
LEMMA WorkerStepOutcome ==
  ASSUME OutcomeInv, NEW w \in Workers, WorkerStep(w)
  PROVE  /\ \A u \in Workers : TellsOutcome(u)'
         /\ OutcomesAgree' /\ EmailKeepsPayload'
<1>0. /\ LockInv /\ TypeOK /\ ThreadShape /\ job \in [JobIds -> Row]
      /\ OutcomesAgree /\ EmailKeepsPayload /\ OwnsJob(w) /\ TellsOutcome(w) /\ HoldsOffer(w)
      /\ SweepsExpired(w) /\ Shape(worker[w])
  BY DEF OutcomeInv, RunInv, LockInv, TypeOK, ThreadShape
<1>1. /\ \A k \in JobIds : told'[k] # told[k] =>
           k = worker[w].job /\ job[k].status = "RUNNING" /\ job[k].lockedBy = w /\ job' = job
      /\ TellsOutcome(w)'
  BY WorkerTells
<1>2. ASSUME NEW u \in Workers, u # w PROVE TellsOutcome(u)'
  <2>1. Bystander(u) /\ TellsOutcome(u) /\ OwnsJob(u)
    BY <1>0, <1>2, WorkerStepBystander DEF OutcomeInv, RunInv
  <2>2. Processing(u) => worker[u].job \in JobIds /\ told'[worker[u].job] = told[worker[u].job]
    BY <1>0, <1>1, <1>2, <2>1, ProcessingJob DEF OwnsJob
  <2>3. (Processing(u)' <=> Processing(u)) /\ (SeesTerminal(u, worker[u].op)' <=> SeesTerminal(u, worker[u].op))
    BY <2>1 DEF Bystander, Processing, SeesTerminal
  <2> QED BY <2>1, <2>2, <2>3 DEF TellsOutcome, Bystander
<1>3. CASE job' = job
  <2>1. retries' = retries
    BY DEF WorkerStep, LockNext, CommitClaim, Progress, Handled, BeginSettle,
         CommitSettle, BeginSweep, CommitSweep, Rollback, Crash, Restart, budget
  <2>2. EmailKeepsPayload'
    BY <1>0, <1>3, <2>1 DEF EmailKeepsPayload
  <2>3. OutcomesAgree'
    <3> SUFFICES ASSUME NEW k \in JobIds
                 PROVE  /\ job[k].status = "SUCCEEDED" => told'[k] = "DONE"
                        /\ /\ job[k].status = "FAILED" /\ job[k].error = "RUN_FAILED"
                           /\ Kind[k] \in {"CREATE_QUIZ", "SOURCE"}
                           => told'[k] = "FAILED"
      BY <1>3 DEF OutcomesAgree
    <3> QED BY <1>0, <1>1 DEF OutcomesAgree
  <2> QED BY <1>1, <1>2, <2>2, <2>3
<1>4. CASE CommitClaim(w) \/ CommitSettle(w) \/ CommitSweep(w)
  <2>1. told' = told /\ retries' = retries
    BY <1>4 DEF CommitClaim, CommitSettle, CommitSweep, budget
  <2>2. ASSUME NEW k \in JobIds
        PROVE  /\ job'[k].status = "SUCCEEDED" => told[k] = "DONE"
               /\ job'[k].status = "FAILED" /\ job'[k].error = "RUN_FAILED" /\ MarksFailure(k)
                  => told[k] = "FAILED"
               /\ retries = 0 /\ Kind[k] = "EMAIL" /\ job'[k].status \in Active
                  => job'[k].payload = "KEPT"
    <3>0. /\ job[k] \in Row
          /\ job[k].status = "SUCCEEDED" => told[k] = "DONE"
          /\ job[k].status = "FAILED" /\ job[k].error = "RUN_FAILED" /\ MarksFailure(k)
             => told[k] = "FAILED"
          /\ retries = 0 /\ Kind[k] = "EMAIL" /\ job[k].status \in Active
             => job[k].payload = "KEPT"
      BY <1>0 DEF OutcomesAgree, EmailKeepsPayload, MarksFailure
    <3>1. CASE job'[k] = job[k]
      BY <3>0, <3>1
    <3>2. CASE CommitClaim(w) /\ k = worker[w].job /\ job'[k] = Claimed(job[k], w)
      <4>1. job[k].status \in Active
        BY <1>0, <3>2 DEF CommitClaim, HoldsOffer, Active
      <4> QED BY <3>0, <3>2, <4>1, KeptPayload
    <3>3. CASE CommitSweep(w) /\ job'[k] = Reclaimed(job[k]) /\ k \in worker[w].reads
      <4>1. job[k].status \in Active
        BY <1>0, <3>3 DEF CommitSweep, SweepsExpired, CanCommit, VersionOK, Active
      <4> QED BY <3>0, <3>3, <4>1, KeptPayload
    <3>4. CASE /\ CommitSettle(w) /\ k = worker[w].job
               /\ job'[k] = Settled(job[k], worker[w].op, k)
      <4>1. worker[w].op \in Settlements /\ Processing(w)
        BY <3>4 DEF CommitSettle, Processing
      <4>2. /\ job[k].status \in Active /\ job[k].attempts = worker[w].seen
            /\ worker[w].op = "succeed" => told[k] = "DONE"
            /\ SeesTerminal(w, worker[w].op) /\ MarksFailure(k) => told[k] = "FAILED"
        BY <1>0, <3>4, <4>1 DEF OwnsJob, TellsOutcome, Active
      <4> DEFINE o == worker[w].op
      <4>3. SeesTerminal(w, o) <=> \/ o = "failForGood"
                                   \/ o = "fail" /\ job[k].attempts >= MaxAttempts[k]
        BY <3>4, <4>2 DEF SeesTerminal
      <4> HIDE DEF o
      <4>4. /\ Settled(job[k], o, k).status = "SUCCEEDED" => o = "succeed"
            /\ Settled(job[k], o, k).status = "FAILED"
               => o = "failForGood" \/ (o = "fail" /\ job[k].attempts >= MaxAttempts[k])
            /\ Settled(job[k], o, k).status \in Active
               => Settled(job[k], o, k).payload = job[k].payload
        BY <3>0, <4>1, SettledOutcome DEF o
      <4>5. job'[k] = Settled(job[k], o, k)
        BY <3>4 DEF o
      <4> QED BY <3>0, <4>2, <4>3, <4>4, <4>5 DEF o
    <3> QED BY <1>0, <1>4, <3>1, <3>2, <3>3, <3>4, CommitEffect
  <2>3. OutcomesAgree'
    BY <2>1, <2>2 DEF OutcomesAgree, MarksFailure
  <2>4. EmailKeepsPayload'
    BY <2>1, <2>2 DEF EmailKeepsPayload
  <2> QED BY <1>1, <1>2, <2>3, <2>4
<1> QED BY <1>3, <1>4 DEF WorkerStep, LockNext, Progress, Handled, BeginSettle, BeginSweep,
       Rollback, Crash, Restart

\* If every run ends within its lease, what a job leaves behind fits its
\* status: the resource of a SUCCEEDED job knows, a quiz or source whose job
\* failed in a run is marked FAILED although the mark is decided from the
\* claimed entity and the status from the row, and an e-mail job that nobody
\* retried by hand keeps its payload as long as it can run.
THEOREM OutcomesStay ==
  ASSUME LeaseOutlivesRun
  PROVE  Spec => []OutcomesAreKept
<1>1. Init => OutcomesAgree /\ EmailKeepsPayload /\ \A w \in Workers : TellsOutcome(w)
  <2> SUFFICES ASSUME Init
               PROVE  OutcomesAgree /\ EmailKeepsPayload /\ \A w \in Workers : TellsOutcome(w)
    OBVIOUS
  <2>1. /\ \A w \in Workers : worker[w].op = "none" /\ worker[w].pc = "idle"
        /\ \A j \in JobIds : job[j].status = "ABSENT"
    BY DEF Init, IdleWorker, AbsentRow
  <2> QED BY <2>1 DEF OutcomesAgree, EmailKeepsPayload, TellsOutcome, Processing, Settlements,
                      Active, Claimable
<1> DEFINE Told == OutcomesAgree /\ EmailKeepsPayload /\ \A w \in Workers : TellsOutcome(w)
<1>2. RunInv /\ Told /\ [Next]_vars => Told'
  <2>1. CASE RunInv /\ Told /\ Next
    BY <2>1, JobStepOutcome, WorkerStepOutcome DEF OutcomeInv, Next
  <2>2. CASE RunInv /\ Told /\ UNCHANGED vars
    BY <2>2 DEF vars, OutcomesAgree, EmailKeepsPayload, TellsOutcome, Processing, SeesTerminal
  <2> QED BY <2>1, <2>2
<1>3. Told => OutcomesAreKept
  BY DEF OutcomesAreKept
<1>4. Init => Told
  BY <1>1
<1> HIDE DEF Told
<1> QED BY <1>2, <1>3, <1>4, RunInvHolds, PTL DEF Spec


-----------------------------------------------------------------------------
(* JobQueue implements OneRunnerQueue when no run outlasts its lease: the   *)
(* step simulation, for any number of jobs and processes.  The fairness of  *)
(* OneRunnerQueue is model-checked (KeepsPromise).                          *)

State == [j \in JobIds |-> AbstractState(job[j].status)]
AtWork == [j \in JobIds |-> Runners(j)]

\* The values of the mapping.
LEMMA AbstractStates ==
  /\ AbstractState("ABSENT") = "absent" /\ AbstractState("QUEUED") = "waiting"
  /\ AbstractState("RETRY") = "waiting" /\ AbstractState("RUNNING") = "running"
  /\ AbstractState("SUCCEEDED") = "done" /\ AbstractState("FAILED") = "failed"
  BY DEF AbstractState, Claimable

\* A job at work is RUNNING, has one runner and is not expired.
LEMMA RunnersOwn ==
  ASSUME RunInv, NEW j \in JobIds, NEW w \in Runners(j)
  PROVE  job[j].status = "RUNNING" /\ Runners(j) = {w} /\ j \notin expired
  BY DEF RunInv, OwnsJob, Runners

\* Who else is at work does not change by a step of w.
LEMMA RunnersFrame ==
  ASSUME RunInv, NEW w \in Workers, WorkerStep(w), NEW j \in JobIds, NEW u \in Workers, u # w
  PROVE  u \in Runners(j)' <=> u \in Runners(j)
<1>1. Bystander(u)
  BY WorkerStepBystander DEF RunInv, LockInv
<1>. QED
  BY <1>1 DEF Bystander, Runners, Processing

\* A step of the API or of time: submit, retry, withdraw or nothing.
LEMMA JobStepSimulates ==
  ASSUME RunInv, NEW j \in JobIds, JobStep(j)
  PROVE  Promise!Next \/ (State' = State /\ AtWork' = AtWork)
<1>0. job \in [JobIds -> Row]
  BY DEF RunInv, LockInv, TypeOK
<1>1. AtWork' = AtWork
  <2>1. ASSUME NEW u \in Workers
        PROVE  Processing(u)' = Processing(u) /\ worker'[u].job = worker[u].job
    BY JobStepBystander DEF RunInv, LockInv, Bystander, Processing
  <2>. QED
    BY <2>1 DEF AtWork, Runners
<1>2. ASSUME \A i \in JobIds : i # j => job'[i] = job[i]
      PROVE  State' = [State EXCEPT ![j] = AbstractState(job'[j].status)]
  BY <1>2 DEF State
<1>3. State[j] = AbstractState(job[j].status)
  BY DEF State
<1>4. CASE Enqueue(j)
  <2>1. State[j] = "absent"
    BY <1>3, <1>4, AbstractStates DEF Enqueue
  <2>2. State' = [State EXCEPT ![j] = "waiting"]
    <3>1. job'[j].status = "QUEUED" /\ \A i \in JobIds : i # j => job'[i] = job[i]
      BY <1>0, <1>4 DEF Enqueue, NewJob
    <3>. QED
      BY <1>2, <3>1, AbstractStates
  <2>3. Promise!Submit(j)
    BY <1>1, <2>1, <2>2 DEF Promise!Submit, State, AtWork
  <2>. QED
    BY <2>3 DEF Promise!Next
<1>5. CASE AdminRetry(j) \/ OwnerRetry(j)
  <2>1. State[j] = "failed"
    BY <1>3, <1>5, AbstractStates DEF AdminRetry, OwnerRetry, CanRetry
  <2>2. State' = [State EXCEPT ![j] = "waiting"]
    <3>1. job'[j].status = "RETRY" /\ \A i \in JobIds : i # j => job'[i] = job[i]
      BY <1>0, <1>5, RetriedLease DEF AdminRetry, OwnerRetry
    <3>. QED
      BY <1>2, <3>1, AbstractStates
  <2>3. Promise!Retry(j)
    BY <1>1, <2>1, <2>2 DEF Promise!Retry, State, AtWork
  <2>. QED
    BY <2>3 DEF Promise!Next
<1>6. CASE AdminCancel(j)
  <2>1. State[j] = "waiting"
    BY <1>3, <1>6, AbstractStates DEF AdminCancel, CanCancel, Claimable
  <2>2. State' = [State EXCEPT ![j] = "failed"]
    <3>1. Cancelled(job[j], Kind[j]).status = "FAILED"
      BY <1>0 DEF Cancelled, Row
    <3>2. job'[j].status = "FAILED" /\ \A i \in JobIds : i # j => job'[i] = job[i]
      BY <1>0, <1>6, <3>1 DEF AdminCancel
    <3>. QED
      BY <1>2, <3>2, AbstractStates
  <2>3. Promise!Withdraw(j)
    BY <1>1, <2>1, <2>2 DEF Promise!Withdraw, State, AtWork
  <2>. QED
    BY <2>3 DEF Promise!Next
<1>7. CASE BecomesAvailable(j) \/ LeaseExpires(j)
  BY <1>1, <1>7 DEF BecomesAvailable, LeaseExpires, State
<1>. QED
  BY <1>4, <1>5, <1>6, <1>7 DEF JobStep

\* A step of a worker that commits nothing: it stays at its job, or leaves it.
LEMMA QuietStepSimulates ==
  ASSUME RunInv, NEW w \in Workers, WorkerStep(w), job' = job, ~CommitClaim(w)
  PROVE  Promise!Next \/ (State' = State /\ AtWork' = AtWork)
<1>0. /\ LockInv /\ Shape(worker[w]) /\ worker[w] \in Worker
      /\ worker \in [Workers -> Worker] /\ State' = State
  BY DEF RunInv, LockInv, ThreadShape, TypeOK, State
<1>1. CASE Processing(w)' /\ Processing(w) /\ worker'[w].job = worker[w].job
  <2>1. \A j \in JobIds : Runners(j)' = Runners(j)
    BY <1>1, RunnersFrame DEF Runners
  <2>. QED
    BY <1>0, <2>1 DEF AtWork
<1>2. CASE ~Processing(w)' /\ ~Processing(w)
  <2>1. \A j \in JobIds : Runners(j)' = Runners(j)
    BY <1>2, RunnersFrame DEF Runners
  <2>. QED
    BY <1>0, <2>1 DEF AtWork
<1>3. CASE ~Processing(w)' /\ Processing(w)
  <2>0. PICK k \in JobIds : k = worker[w].job
    BY <1>0, <1>3, ProcessingJob
  <2>1. k \in JobIds /\ w \in Runners(k)
    BY <1>3, <2>0 DEF Runners
  <2>2. job[k].status = "RUNNING" /\ Runners(k) = {w}
    BY <2>1, RunnersOwn
  <2>3. Runners(k)' = {}
    BY <1>3, <2>1, <2>2, RunnersFrame DEF Runners
  <2>4. ASSUME NEW j \in JobIds, j # k PROVE Runners(j)' = Runners(j)
    <3>1. w \notin Runners(j) /\ w \notin Runners(j)'
      BY <1>3, <2>0, <2>4 DEF Runners
    <3>. QED
      BY <3>1, RunnersFrame DEF Runners
  <2>5. AtWork' = [AtWork EXCEPT ![k] = {}]
    BY <2>1, <2>3, <2>4 DEF AtWork
  <2>6. State[k] = "running" /\ AtWork[k] # {}
    BY <2>1, <2>2, AbstractStates DEF State, AtWork
  <2>7. Promise!Abandon(k)
    BY <1>0, <2>5, <2>6 DEF Promise!Abandon, State, AtWork
  <2>. QED
    BY <2>1, <2>7 DEF Promise!Next
<1>4. ~Processing(w)' \/ (Processing(w) /\ worker'[w].job = worker[w].job)
  <2>1. CASE LockNext(w) \/ BeginSweep(w)
    <3>1. worker'[w].pc = "tx" /\ worker'[w].op \in {"claim", "sweep"}
      <4>1. CASE LockNext(w)
        BY <1>0, <4>1 DEF LockNext, IdleWorker
      <4>2. CASE BeginSweep(w)
        BY <1>0, <4>2 DEF BeginSweep, IdleWorker
      <4>. QED BY <2>1, <4>1, <4>2
    <3>. QED
      BY <3>1 DEF Processing, Settlements
  <2>2. CASE Progress(w)
    BY <2>2, MovedSelf DEF Progress, Processing
  <2>3. ASSUME NEW o \in Settlements, Handled(w, o)
        PROVE  Processing(w) /\ worker'[w].job = worker[w].job
    BY <1>0, <2>3 DEF Handled, Processing, Worker
  <2>4. CASE BeginSettle(w)
    BY <1>0, <2>4 DEF BeginSettle, Processing, Worker
  <2>5. CASE CommitSettle(w) \/ CommitSweep(w)
    BY <2>5, MovedSelf DEF CommitSettle, CommitSweep, IdleWorker, Processing, Settlements
  <2>6. CASE Rollback(w) /\ worker[w].op = "succeed"
    <3>1. worker'[w] = [worker[w] EXCEPT !.pc = "settling", !.op = "fail", !.reads = {},
                          !.rows = NoRows, !.fresh = "FRESH", !.bill = 0]
      BY <1>0, <2>6 DEF Rollback
    <3>. QED
      BY <1>0, <2>6, <3>1 DEF Worker, Processing, Settlements
  <2>7. CASE (Rollback(w) /\ worker[w].op # "succeed") \/ Crash(w) \/ Restart(w)
    <3>1. worker'[w].op = "none" /\ worker'[w].pc \in {"idle", "down"}
      BY <1>0, <2>7 DEF Rollback, Crash, Restart, IdleWorker
    <3>. QED
      BY <3>1 DEF Processing, Settlements
  <2>. QED
    BY <2>1, <2>2, <2>3, <2>4, <2>5, <2>6, <2>7 DEF WorkerStep
<1>. QED
  BY <1>1, <1>2, <1>3, <1>4

\* A claim that commits: the job starts at its worker.
LEMMA ClaimSimulates ==
  ASSUME RunInv, NEW w \in Workers, CommitClaim(w)
  PROVE  Promise!Next
<1>0. /\ LockInv /\ HoldsOffer(w) /\ Shape(worker[w]) /\ worker[w] \in Worker
      /\ job \in [JobIds -> Row] /\ WorkerStep(w)
  BY DEF RunInv, LockInv, ThreadShape, TypeOK, WorkerStep
<1>k. PICK k \in JobIds : k = worker[w].job
  BY <1>0, ClaimReads DEF CommitClaim, LockInv
<1>1. /\ k \in JobIds /\ job[k].status \in Claimable /\ worker[w].pc = "tx"
      /\ worker[w].op = "claim" /\ job[k] \in Row
  BY <1>0, <1>k, ClaimReads DEF CommitClaim, HoldsOffer, LockInv
<1>2. worker'[w].pc = "handling" /\ worker'[w].job = k
  <2>1. worker'[w] = [worker[w] EXCEPT !.pc = "handling", !.op = "none",
                                       !.reads = {}, !.rows = NoRows]
    BY MovedSelf DEF CommitClaim
  <2>. QED
    BY <1>0, <1>k, <2>1 DEF Worker
<1>3. job'[k] = Claimed(job[k], w) /\ \A j \in JobIds : j # k => job'[j] = job[j]
  <2>1. worker[w].reads = {k}
    BY <1>0, <1>1, <1>k, ClaimReads DEF LockInv
  <2>2. ~CommitSettle(w) /\ ~CommitSweep(w)
    BY <1>1 DEF CommitSettle, CommitSweep, Settlements
  <2>. QED
    BY <1>0, <1>1, <1>k, <2>1, <2>2, CommitEffect
<1>4. State[k] = "waiting" /\ State' = [State EXCEPT ![k] = "running"]
  <2>1. job'[k].status = "RUNNING"
    BY <1>1, <1>3, ClaimedLease
  <2>2. State[k] = "waiting"
    BY <1>1, AbstractStates DEF State, Claimable
  <2>. QED
    BY <1>1, <1>3, <2>1, <2>2, AbstractStates DEF State
<1>5. Runners(k) = {}
  <2>1. job[k].status # "RUNNING"
    BY <1>1 DEF Claimable
  <2>. QED
    BY <1>1, <2>1, RunnersOwn DEF Runners
<1>6. \A j \in JobIds : w \notin Runners(j)
  BY <1>1 DEF Runners, Processing, Settlements
<1>7. AtWork' = [AtWork EXCEPT ![k] = {w}]
  <2>1. \A j \in JobIds : w \in Runners(j)' <=> j = k
    BY <1>2 DEF Runners, Processing
  <2>2. Runners(k)' = {w}
    BY <1>0, <1>1, <1>5, <2>1, RunnersFrame DEF Runners
  <2>3. \A j \in JobIds : j # k => Runners(j)' = Runners(j)
    BY <1>0, <1>6, <2>1, RunnersFrame DEF Runners
  <2>. QED
    BY <2>2, <2>3 DEF AtWork
<1>8. Promise!Start(k, w)
  BY <1>4, <1>6, <1>7 DEF Promise!Start, State, AtWork
<1>. QED
  BY <1>1, <1>8 DEF Promise!Next

\* A settlement that commits ends the only run of its job.
LEMMA SettleSimulates ==
  ASSUME RunInv, NEW w \in Workers, CommitSettle(w)
  PROVE  Promise!Next
<1>0. /\ LockInv /\ Shape(worker[w]) /\ worker[w] \in Worker
      /\ job \in [JobIds -> Row] /\ WorkerStep(w) /\ Processing(w)
  BY DEF RunInv, LockInv, ThreadShape, TypeOK, WorkerStep, CommitSettle, Processing
<1>k. PICK k \in JobIds : k = worker[w].job
  BY <1>0, ProcessingJob
<1>1. k \in JobIds /\ w \in Runners(k) /\ worker[w].op \in Settlements /\ worker[w].pc = "tx"
  BY <1>0, <1>k DEF Runners, CommitSettle
<1>2. worker'[w] = IdleWorker
  BY MovedSelf DEF CommitSettle
<1>3. job[k].status = "RUNNING" /\ Runners(k) = {w} /\ job[k] \in Row
  BY <1>0, <1>1, RunnersOwn
<1>4. /\ job'[k] = Settled(job[k], worker[w].op, k)
      /\ \A j \in JobIds : j # k => job'[j] = job[j]
  <2>1. worker[w].reads = {k}
    BY <1>0, <1>1, <1>k DEF Shape, Settlements
  <2>2. ~CommitClaim(w) /\ ~CommitSweep(w)
    BY <1>1 DEF CommitClaim, CommitSweep, Settlements
  <2>. QED
    BY <1>0, <1>1, <1>k, <2>1, <2>2, CommitEffect
<1>5. job'[k].status \in {"SUCCEEDED", "RETRY", "FAILED"}
  BY <1>1, <1>3, <1>4 DEF Settled, Settlements, Succeeded, Deferred, Failed, Row
<1>6. PICK s \in {"done", "waiting", "failed"} : AbstractState(job'[k].status) = s
  BY <1>5, AbstractStates
<1>7. State[k] = "running" /\ State' = [State EXCEPT ![k] = s]
  <2>1. State[k] = "running"
    BY <1>1, <1>3, AbstractStates DEF State
  <2>. QED
    BY <1>1, <1>4, <1>6, <2>1 DEF State
<1>8. AtWork[k] # {} /\ AtWork' = [AtWork EXCEPT ![k] = {}]
  <2>1. \A j \in JobIds : w \notin Runners(j)'
    BY <1>2 DEF Runners, Processing, IdleWorker, Settlements
  <2>2. Runners(k)' = {}
    BY <1>0, <1>1, <1>3, <2>1, RunnersFrame DEF Runners
  <2>3. \A j \in JobIds : j # k => w \notin Runners(j)
    BY <1>k DEF Runners
  <2>4. \A j \in JobIds : j # k => Runners(j)' = Runners(j)
    BY <1>0, <2>1, <2>3, RunnersFrame DEF Runners
  <2>. QED
    BY <1>1, <1>3, <2>2, <2>4 DEF AtWork
<1>9. Promise!Finish(k, s)
  BY <1>6, <1>7, <1>8 DEF Promise!Finish, State, AtWork
<1>. QED
  BY <1>1, <1>6, <1>9 DEF Promise!Next, Promise!States

\* A sweep that commits recovers jobs that nobody works on.
LEMMA SweepSimulates ==
  ASSUME RunInv, NEW w \in Workers, CommitSweep(w)
  PROVE  Promise!Next \/ (State' = State /\ AtWork' = AtWork)
<1>0. /\ LockInv /\ Shape(worker[w]) /\ worker[w] \in Worker /\ SweepsExpired(w)
      /\ job \in [JobIds -> Row] /\ WorkerStep(w)
  BY DEF RunInv, LockInv, ThreadShape, TypeOK, WorkerStep
<1>k. PICK S : S = worker[w].reads
  OBVIOUS
<1>1. /\ S \subseteq JobIds /\ worker[w].pc = "tx" /\ worker[w].op = "sweep"
      /\ \A j \in S : j \in expired /\ job[j].status = "RUNNING"
  BY <1>0, <1>k DEF CommitSweep, CanCommit, VersionOK, SweepsExpired, Worker
<1>2. worker'[w] = IdleWorker
  BY MovedSelf DEF CommitSweep
<1>3. \A j \in JobIds : job'[j] = IF j \in S THEN Reclaimed(job[j]) ELSE job[j]
  <2>1. ~CommitClaim(w) /\ ~CommitSettle(w)
    BY <1>1 DEF CommitClaim, CommitSettle, Settlements
  <2>2. \A j \in S : worker[w].rows[j] = Reclaimed(job[j])
    BY <1>0, <1>1, <1>k DEF LockInv, FlushesCurrent, CommitSweep, CanCommit, VersionOK
  <2>3. job' = Flushed(w)
    BY DEF CommitSweep
  <2>. QED
    BY <1>k, <2>2, <2>3 DEF Flushed
<1>4. AtWork' = AtWork
  <2>1. \A j \in JobIds : w \notin Runners(j)' /\ w \notin Runners(j)
    BY <1>1, <1>2 DEF Runners, Processing, IdleWorker, Settlements
  <2>2. \A j \in JobIds : Runners(j)' = Runners(j)
    BY <1>0, <2>1, RunnersFrame DEF Runners
  <2>. QED
    BY <2>2 DEF AtWork
<1>5. State' = [j \in JobIds |-> IF j \in S THEN "waiting" ELSE State[j]]
  <2>1. \A j \in S : Reclaimed(job[j]).status = "RETRY"
    BY <1>0, <1>1, ClaimedLease
  <2>. QED
    BY <1>3, <2>1, AbstractStates DEF State
<1>6. \A j \in S : State[j] = "running" /\ AtWork[j] = {}
  <2>1. \A j \in S : Runners(j) = {}
    BY <1>1, RunnersOwn
  <2>. QED
    BY <1>1, <2>1, AbstractStates DEF State, AtWork
<1>7. CASE S = {}
  <2>1. State' = State
    BY <1>5, <1>7 DEF State
  <2>. QED
    BY <1>4, <2>1
<1>8. CASE S # {}
  <2>1. Promise!Recover(S)
    BY <1>1, <1>4, <1>5, <1>6, <1>8 DEF Promise!Recover, State, AtWork
  <2>. QED
    BY <1>1, <2>1 DEF Promise!Next
<1>. QED
  BY <1>7, <1>8

\* The queue implements the safety part of OneRunnerQueue, for any number of
\* jobs and processes, if every run ends within its lease.
THEOREM ImplementsOneRunnerQueue ==
  ASSUME LeaseOutlivesRun
  PROVE  Spec => Promise!Spec
<1>1. Init => Promise!Init
  <2>1. SUFFICES ASSUME Init PROVE Promise!Init
    OBVIOUS
  <2>2. \A j \in JobIds : Runners(j) = {} /\ job[j].status = "ABSENT"
    BY <2>1 DEF Init, IdleWorker, AbsentRow, Runners, Processing, Settlements
  <2>. QED
    BY <2>2, AbstractStates DEF Promise!Init
<1>2. RunInv /\ [Next]_vars => [Promise!Next]_(Promise!vars)
  <2>1. SUFFICES ASSUME RunInv, [Next]_vars
                 PROVE  Promise!Next \/ (State' = State /\ AtWork' = AtWork)
    BY DEF Promise!vars, State, AtWork
  <2>2. ASSUME NEW j \in JobIds, JobStep(j)
        PROVE  Promise!Next \/ (State' = State /\ AtWork' = AtWork)
    BY <2>1, <2>2, JobStepSimulates
  <2>3. ASSUME NEW w \in Workers, WorkerStep(w)
        PROVE  Promise!Next \/ (State' = State /\ AtWork' = AtWork)
    <3>1. CASE CommitClaim(w) \/ CommitSettle(w) \/ CommitSweep(w)
      BY <2>1, <3>1, ClaimSimulates, SettleSimulates, SweepSimulates
    <3>2. CASE ~CommitClaim(w) /\ ~CommitSettle(w) /\ ~CommitSweep(w)
      <4>1. job' = job
        BY <2>3, <3>2 DEF WorkerStep, LockNext, Progress, Handled, BeginSettle, BeginSweep,
             Rollback, Crash, Restart
      <4>. QED
        BY <2>1, <2>3, <3>2, <4>1, QuietStepSimulates
    <3>. QED
      BY <3>1, <3>2
  <2>4. CASE UNCHANGED vars
    BY <2>4 DEF vars, State, AtWork, Runners, Processing
  <2>. QED
    BY <2>1, <2>2, <2>3, <2>4 DEF Next
<1>. QED
  BY <1>1, <1>2, RunInvHolds, PTL DEF Spec, Promise!Spec
=============================================================================
