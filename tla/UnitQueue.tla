------------------------------ MODULE UnitQueue ------------------------------
(***************************************************************************)
(* The queue of independent units that preprocesses the corpus on a Colab  *)
(* machine (AI/data_preprocessing/colab_orchestrator_v5).  A notebook cell *)
(* talks to one coordinator process (daemon.py), which computes one unit   *)
(* at a time on the local disk with a pool of model workers, copies the    *)
(* result ZIP to Drive and then writes a receipt.  Only Drive survives the *)
(* machine: after a loss, a scan of Drive decides what is done.            *)
(*                                                                         *)
(* Units are numbered in the order of the upload index; a unit is a set of *)
(* jobs, each one document of it.                                          *)
(***************************************************************************)
EXTENDS Naturals, Sequences, FiniteSets, FiniteSetsExt

CONSTANTS
  NUnits,         \* bundles of UPLOAD_INDEX.json
  JobsOf,         \* JobsOf[u]: the jobs of unit u
  LayoutJobs,     \* jobs with layout_required: discovery before inference
  VlmJobs,        \* jobs with a request that asks for the VLM
  Excluded,       \* EXCLUDED_UNITS of the notebook cell
  RetryFailed,    \* RETRY_FAILED of the notebook cell
  Daemons,        \* process identities a coordinator may run under
  NoDaemon,
  MaxZips,        \* bound: result ZIPs of one unit on Drive
  MaxFaults       \* bound: machine losses, kills, restarts, Drive faults

Units == 1..NUnits

ASSUME UnitQueueAssumption ==
  /\ NUnits \in Nat \ {0} /\ MaxZips \in Nat /\ MaxFaults \in Nat
  /\ \A u \in Units : IsFiniteSet(JobsOf[u]) /\ JobsOf[u] # {}
  /\ Excluded \subseteq Units /\ RetryFailed \in BOOLEAN
  /\ NoDaemon \notin Daemons

VARIABLES
  results,   \* Drive: results[u], the ZIPs of unit u, oldest first
  receipt,   \* Drive: receipt[u], the ZIP the receipt names, 0 without one
  previous,  \* Drive: units with a whole result under the previous BASE
  uploaded,  \* Drive: units whose input ZIP has arrived
  failed,    \* Drive: the units of auto_skipped_units.json
  attempts,  \* local disk: attempt directories, as <<unit, daemon>>
  lock,      \* the daemon that holds the CoordinatorLock of BASE
  daemon,    \* daemon[d]: a coordinator process and its model workers
  notebook,  \* the notebook cell
  faults     \* faults so far

drive == <<results, receipt, previous, uploaded, failed>>
rest == <<previous, uploaded, failed, attempts, lock, notebook, faults>>
vars == <<drive, attempts, lock, daemon, notebook, faults>>

-----------------------------------------------------------------------------
(* The stages of Coordinator.run, between the staging of the input and the *)
(* export of the result.                                                   *)
RunOrder == <<"input", "native", "ocr", "structure", "docling", "discovery",
              "ocr_regions", "formula", "table", "vlm", "merge", "export">>

PaddleRoles == {"ocr", "structure", "ocr_regions", "formula", "table"}

(* A result is a ZIP on Drive: what Drive has done to it, and the jobs its *)
(* summary counts as executed.                                             *)
Zips == [state : {"whole", "damaged", "lost"}, jobs : SUBSET UNION {JobsOf[u] : u \in Units}]

Pcs == {"off", "idle", "scan", "reuse", "reused", "run", "saved", "kept"}

(* A coordinator: its command loop, the store it keeps in memory, the unit *)
(* it computes and the model workers it owns.  unreceipted is history: the *)
(* units it copied to Drive since its scan without getting their receipt.  *)
Daemon ==
  [pc : Pcs, open : BOOLEAN, reply : {"none", "ok", "error"},
   completed : SUBSET Units, todo : SUBSET Units, unreceipted : SUBSET Units,
   unit : 0..NUnits, step : 0..Len(RunOrder),
   blocked : SUBSET UNION {JobsOf[u] : u \in Units},
   merged : SUBSET UNION {JobsOf[u] : u \in Units},
   vlm : {"none", "gpu", "parked"}, docling : BOOLEAN, paddle : BOOLEAN]

Off == [pc |-> "off", open |-> FALSE, reply |-> "none", completed |-> {}, todo |-> {},
        unreceipted |-> {}, unit |-> 0, step |-> 0, blocked |-> {}, merged |-> {},
        vlm |-> "none", docling |-> FALSE, paddle |-> FALSE]

Notebook == [pc : {"off", "ready", "wait"}, session : Daemons \cup {NoDaemon},
             attempted : SUBSET Units, unit : 0..NUnits]

NewKernel == [pc |-> "off", session |-> NoDaemon, attempted |-> {}, unit |-> 0]

Init ==
  /\ results = [u \in Units |-> <<>>]
  /\ receipt = [u \in Units |-> 0]
  /\ previous \in SUBSET Units
  /\ uploaded = {}
  /\ failed = {}
  /\ attempts = {}
  /\ lock = NoDaemon
  /\ daemon = [d \in Daemons |-> Off]
  /\ notebook = NewKernel
  /\ faults = 0

-----------------------------------------------------------------------------
(* UnitStore: what counts as done.                                         *)

(* The completion gate on an archive: identity, inventory, member hashes,  *)
(* pages of every run, and the summary's evidence that all jobs executed.  *)
InspectResult(z, u) == z.state = "whole" /\ z.jobs = JobsOf[u]

(* Mutant: a receipt is believed without looking at the ZIP it names. *)
ReceiptTrusted(u) == receipt[u] # 0

(* A receipt counts when the ZIP it names is there, has the recorded hash  *)
(* and passes the gate.                                                    *)
ReceiptValid(u) == receipt[u] # 0 /\ InspectResult(results[u][receipt[u]], u)

(* Mutant: ZIPs without a receipt are not looked for. *)
NoRecovery(u) == {}

(* ZIPs a scan may recover when the receipt does not count.                *)
Recoverable(u) == {i \in 1..Len(results[u]) : InspectResult(results[u][i], u)}

(* Mutant: the receipt is for the copy after this one. *)
RememberNext(u, i) == receipt' = [receipt EXCEPT ![u] = i + 1]

(* The receipt replaces the previous one.                                  *)
Remember(u, i) == receipt' = [receipt EXCEPT ![u] = i]

(* The verified copy to a new name under BASE/results: the ZIP appears     *)
(* whole or not at all.                                                    *)
CopyVerified(u, jobs) ==
  /\ Len(results[u]) < MaxZips
  /\ results' = [results EXCEPT ![u] = Append(@, [state |-> "whole", jobs |-> jobs])]

-----------------------------------------------------------------------------
(* The scan command: reconcile Drive, adopt results of the previous BASE,  *)
(* discard the local attempts.                                             *)

(* One unit of UnitStore.scan.                                             *)
ScanUnit(d) ==
  LET u == Min(daemon[d].todo)
      left == daemon[d].todo \ {u}
      found == ReceiptValid(u) \/ Recoverable(u) # {}
      done == daemon[d].completed \cup (IF found THEN {u} ELSE {})
  IN  /\ daemon[d].pc = "scan"
      /\ IF ReceiptValid(u) \/ Recoverable(u) = {} THEN UNCHANGED receipt
         ELSE Remember(u, Max(Recoverable(u)))
      /\ daemon' = [daemon EXCEPT
           ![d].completed = done,
           ![d].todo = IF left = {} THEN Units \ done ELSE left,
           ![d].pc = IF left = {} THEN "reuse" ELSE "scan"]
      /\ UNCHANGED <<results, rest>>

(* A whole result of the previous BASE, or a precompleted seed, is         *)
(* published under this one.                                               *)
ReuseUnit(d) ==
  LET u == Min(daemon[d].todo)
  IN  /\ daemon[d].pc = "reuse" /\ daemon[d].todo # {}
      /\ \/ /\ u \in previous
            /\ CopyVerified(u, JobsOf[u])
            /\ daemon' = [daemon EXCEPT ![d].pc = "reused"]
         \/ /\ u \notin previous
            /\ daemon' = [daemon EXCEPT ![d].todo = @ \ {u}]
            /\ UNCHANGED results
      /\ UNCHANGED <<receipt, rest>>

ReuseRemember(d) ==
  LET u == Min(daemon[d].todo)
  IN  /\ daemon[d].pc = "reused"
      /\ Remember(u, Len(results[u]))
      /\ daemon' = [daemon EXCEPT ![d].completed = @ \cup {u}, ![d].todo = @ \ {u},
                                  ![d].pc = "reuse"]
      /\ UNCHANGED <<results, rest>>

(* A copy or a receipt fails: adoption notes the issue and goes on.        *)
ReuseFails(d) ==
  /\ faults < MaxFaults
  /\ daemon[d].pc \in {"reuse", "reused"} /\ daemon[d].todo # {}
  /\ Min(daemon[d].todo) \in previous
  /\ daemon' = [daemon EXCEPT
       ![d].todo = @ \ {Min(@)}, ![d].pc = "reuse",
       ![d].unreceipted = IF daemon[d].pc = "reused" THEN @ \cup {Min(daemon[d].todo)} ELSE @]
  /\ faults' = faults + 1
  /\ UNCHANGED <<drive, attempts, lock, notebook>>

(* Restart semantics: every marked local attempt is deleted.               *)
EndScan(d) ==
  /\ daemon[d].pc = "reuse" /\ daemon[d].todo = {}
  /\ attempts' = {}
  /\ daemon' = [daemon EXCEPT ![d].pc = "idle", ![d].reply = "ok"]
  /\ UNCHANGED <<drive, lock, notebook, faults>>

-----------------------------------------------------------------------------
(* ModelPool and the model workers.                                        *)

(* Mutant: Qwen is left where it is. *)
NoPark(w) == w

(* Qwen moves to host memory; without a worker, or a loaded model, nothing *)
(* happens.                                                                *)
Park(w) == IF w.vlm = "gpu" THEN [w EXCEPT !.vlm = "parked"] ELSE w

(* All workers of the pool end, and the specialist's worker with them.     *)
ClosePool(w) == [w EXCEPT !.vlm = "none", !.docling = FALSE, !.paddle = FALSE]

-----------------------------------------------------------------------------
(* The process command: one unit from its input to its receipt.            *)

Step(d) == RunOrder[daemon[d].step]
Jobs(d) == JobsOf[daemon[d].unit]
Next1(w) == [w EXCEPT !.step = @ + 1]

(* The jobs a group stage still has to run, by needs_stage: a job without  *)
(* layout is recognised by the first OCR stage already, and a job whose    *)
(* layout is not ready takes no part in inference.                         *)
Pending(d) ==
  CASE Step(d) = "ocr" -> Jobs(d)
    [] Step(d) \in {"structure", "docling"} -> Jobs(d) \cap LayoutJobs
    [] Step(d) = "ocr_regions" -> (Jobs(d) \cap LayoutJobs) \ daemon[d].blocked
    [] Step(d) \in {"formula", "table"} -> Jobs(d) \ daemon[d].blocked
    [] Step(d) = "vlm" -> (Jobs(d) \cap VlmJobs) \ daemon[d].blocked

(* The input ZIP is copied to the local disk, every member verified, and   *)
(* the unit's engine, plan, jobs and sources checked against the index.    *)
StageInput(d) ==
  /\ daemon[d].pc = "run" /\ Step(d) = "input"
  /\ daemon' = [daemon EXCEPT ![d] = Next1(@)]
  /\ UNCHANGED <<results, receipt, rest>>

(* The native stage runs in a guarded subprocess, or the machine seed of   *)
(* the job is taken over, for exactly the pages of the unit.               *)
Prepare(d) ==
  /\ daemon[d].pc = "run" /\ Step(d) = "native"
  /\ daemon' = [daemon EXCEPT ![d] = Next1(@)]
  /\ UNCHANGED <<results, receipt, rest>>

(* A group stage with nothing pending returns at once; otherwise Qwen is   *)
(* parked and a specialist's worker is started, Docling's is kept, or Qwen *)
(* itself is called.                                                       *)
BeginStage(d) ==
  /\ daemon[d].pc = "run" /\ Step(d) \in PaddleRoles \cup {"docling", "vlm"}
  /\ ~daemon[d].paddle /\ (Step(d) = "vlm" => daemon[d].vlm # "gpu")
  /\ daemon' = [daemon EXCEPT ![d] =
       IF Pending(d) = {} THEN Next1(@)
       ELSE IF Step(d) = "vlm" THEN [@ EXCEPT !.vlm = "gpu"]
       ELSE IF Step(d) = "docling" THEN Next1([Park(@) EXCEPT !.docling = TRUE])
       ELSE [Park(@) EXCEPT !.paddle = TRUE]]
  /\ UNCHANGED <<results, receipt, rest>>

(* All batches of the stage have answered, some with an error that is      *)
(* recorded: the specialist's worker is closed, Qwen is parked.            *)
EndStage(d) ==
  /\ daemon[d].pc = "run"
  /\ daemon[d].paddle \/ (Step(d) = "vlm" /\ daemon[d].vlm = "gpu")
  /\ daemon' = [daemon EXCEPT ![d] =
       Next1(IF @.paddle THEN [@ EXCEPT !.paddle = FALSE] ELSE Park(@))]
  /\ UNCHANGED <<results, receipt, rest>>

(* Discovery is merged job by job; a failure is noted, and a job whose     *)
(* layout inventory is not ready is blocked.                               *)
MergeDiscovery(d) ==
  /\ daemon[d].pc = "run" /\ Step(d) = "discovery"
  /\ \E notReady \in SUBSET (Jobs(d) \cap LayoutJobs) :
       daemon' = [daemon EXCEPT ![d] = Next1([@ EXCEPT !.blocked = notReady])]
  /\ UNCHANGED <<results, receipt, rest>>

(* Mutant: blocked jobs count as executed. *)
BlockedCounts(w) == w.merged \cup w.blocked

(* The jobs a summary counts as executed: the ones whose inference is      *)
(* merged.                                                                 *)
Executed(w) == w.merged

MergeInference(d) ==
  /\ daemon[d].pc = "run" /\ Step(d) = "merge"
  /\ daemon' = [daemon EXCEPT ![d] = Next1([@ EXCEPT !.merged = Jobs(d) \ daemon[d].blocked])]
  /\ UNCHANGED <<results, receipt, rest>>

(* A unit with all jobs executed is exported and its archive, inspected    *)
(* once more, is copied to Drive.                                          *)
Publish(d) ==
  /\ daemon[d].pc = "run" /\ Step(d) = "export"
  /\ Executed(daemon[d]) = Jobs(d)
  /\ CopyVerified(daemon[d].unit, daemon[d].merged)
  /\ daemon' = [daemon EXCEPT ![d].pc = "saved"]
  /\ UNCHANGED <<receipt, rest>>

WriteReceipt(d) ==
  LET u == daemon[d].unit
  IN  /\ daemon[d].pc = "saved"
      /\ Remember(u, Len(results[u]))
      /\ daemon' = [daemon EXCEPT ![d].completed = @ \cup {u}, ![d].pc = "kept"]
      /\ UNCHANGED <<results, rest>>

(* The attempt directory goes, the reply is written.                       *)
AnswerProcess(d) ==
  /\ daemon[d].pc = "kept"
  /\ attempts' = attempts \ {<<daemon[d].unit, d>>}
  /\ daemon' = [daemon EXCEPT ![d].pc = "idle", ![d].reply = "ok", ![d].unit = 0, ![d].step = 0,
                             ![d].blocked = {}, ![d].merged = {}]
  /\ UNCHANGED <<drive, lock, notebook, faults>>

(* What can raise between the attempt directory and the reply: a changed   *)
(* or unsafe input; a guarded subprocess over its time, memory or disk     *)
(* limit; a model worker that dies, times out or cannot be parked, or a    *)
(* fatal Docling batch; jobs left unexecuted; a copy that does not verify; *)
(* a receipt or a state file that cannot be written.                       *)
InputRefused(d) == daemon[d].pc = "run" /\ Step(d) = "input"
GuardTrips(d) == daemon[d].pc = "run" /\ Step(d) \in {"native", "merge"}
WorkerFails(d) ==
  /\ daemon[d].pc = "run" /\ Step(d) \in PaddleRoles \cup {"docling", "vlm"}
  /\ Pending(d) # {}
Unexecuted(d) == daemon[d].pc = "run" /\ Step(d) = "export" /\ Executed(daemon[d]) # Jobs(d)
CopyFails(d) == daemon[d].pc = "run" /\ Step(d) = "export"
StoreFails(d) == daemon[d].pc \in {"saved", "kept"}

(* The pool is closed, the attempt directory stays, the reply is an error. *)
FailUnit(d) ==
  /\ \/ InputRefused(d) \/ GuardTrips(d) \/ WorkerFails(d)
     \/ Unexecuted(d) \/ CopyFails(d) \/ StoreFails(d)
  /\ daemon' = [daemon EXCEPT ![d] =
       [ClosePool(daemon[d]) EXCEPT !.pc = "idle", !.reply = "error", !.unit = 0, !.step = 0,
                            !.blocked = {}, !.merged = {},
                            !.unreceipted = @ \cup (IF daemon[d].pc = "saved"
                                                     THEN {daemon[d].unit} ELSE {})]]
  /\ UNCHANGED <<results, receipt, rest>>

(* The process and its workers end; the system releases the lock.          *)
Stopped(d) ==
  /\ daemon' = [daemon EXCEPT ![d] = Off]
  /\ lock' = IF lock = d THEN NoDaemon ELSE lock

(* End of input on the command loop: the pool is closed and the lock goes  *)
(* with the process.                                                       *)
Exit(d) ==
  /\ daemon[d].pc = "idle" /\ ~daemon[d].open
  /\ Stopped(d)
  /\ UNCHANGED <<drive, attempts, notebook, faults>>

-----------------------------------------------------------------------------
(* The notebook cell and its Session.                                      *)

Alive(d) == d # NoDaemon /\ daemon[d].pc # "off"

(* Mutant: a coordinator starts without the lock. *)
StartsUnlocked(d) == daemon[d].pc = "off"

(* A coordinator that does not get the lock of BASE exits at once.         *)
MayStart(d) == daemon[d].pc = "off" /\ lock = NoDaemon

(* The cell reuses a living session or starts a coordinator, and sends the *)
(* scan command.                                                           *)
StartCell(d) ==
  /\ notebook.pc = "off"
  /\ IF Alive(notebook.session)
     THEN d = notebook.session /\ UNCHANGED lock
     ELSE MayStart(d) /\ lock' = d
  /\ daemon' = [daemon EXCEPT ![d].pc = "scan", ![d].open = TRUE, ![d].reply = "none",
                             ![d].completed = {}, ![d].todo = Units, ![d].unreceipted = {}]
  /\ notebook' = [pc |-> "wait", session |-> d, attempted |-> {}, unit |-> 0]
  /\ UNCHANGED <<drive, attempts, faults>>

(* The first eligible pending unit is processed; the cell ends when there  *)
(* is none, or when its input has not arrived, and closes the session when *)
(* nothing is pending.                                                     *)
Blocked == Excluded \cup (IF RetryFailed THEN {} ELSE failed)

ChooseUnit ==
  LET d == notebook.session
      pending == Units \ daemon[d].completed
      eligible == pending \ (Blocked \cup notebook.attempted)
      u == Min(eligible)
  IN  /\ notebook.pc = "ready"
      /\ \/ /\ eligible # {} /\ u \in uploaded
            /\ daemon' = [daemon EXCEPT ![d].pc = "run", ![d].reply = "none",
                                       ![d].unit = u, ![d].step = 1]
            /\ attempts' = attempts \cup {<<u, d>>}
            /\ notebook' = [notebook EXCEPT !.pc = "wait", !.unit = u,
                                           !.attempted = @ \cup {u}]
            /\ UNCHANGED lock
         \/ /\ ~(eligible # {} /\ u \in uploaded)
            /\ notebook' = [notebook EXCEPT !.pc = "off"]
            /\ IF pending = {} THEN Stopped(d) ELSE UNCHANGED <<daemon, lock>>
            /\ UNCHANGED attempts
      /\ UNCHANGED <<drive, faults>>

(* The reply of the coordinator, or its end, is noticed: a failed unit is  *)
(* logged and skipped, a saved one leaves the log; the cell stops with the *)
(* coordinator, and at an error that is not the unit's own.                *)
Answered ==
  LET d == notebook.session
      u == notebook.unit
      ok == daemon[d].reply = "ok"
  IN  /\ notebook.pc = "wait"
      /\ daemon[d].reply # "none" \/ daemon[d].pc = "off"
      /\ failed' = IF ok THEN failed \ {u} ELSE failed \cup ({u} \cap Units)
      /\ \E stops \in IF ok THEN {FALSE} ELSE IF Alive(d) THEN BOOLEAN ELSE {TRUE} :
           notebook' = [notebook EXCEPT !.pc = IF stops THEN "off" ELSE "ready", !.unit = 0]
      /\ UNCHANGED <<results, receipt, previous, uploaded, attempts, lock, daemon, faults>>

-----------------------------------------------------------------------------
(* Faults and the outside world.                                           *)

(* The command deadline: the session kills the coordinator and the workers *)
(* it owns; the local disk stays.                                          *)
Deadline ==
  LET d == notebook.session
  IN  /\ faults < MaxFaults
      /\ notebook.pc = "wait" /\ Alive(d) /\ daemon[d].reply = "none"
      /\ Stopped(d)
      /\ faults' = faults + 1
      /\ UNCHANGED <<drive, attempts, notebook>>

(* The notebook's kernel restarts: its coordinator finishes the command it *)
(* works on and then finds its input closed.                               *)
KernelRestart ==
  /\ faults < MaxFaults
  /\ notebook.session # NoDaemon
  /\ daemon' = [daemon EXCEPT ![notebook.session].open = FALSE]
  /\ notebook' = NewKernel
  /\ faults' = faults + 1
  /\ UNCHANGED <<drive, attempts, lock>>

(* The machine is lost with everything but Drive.                          *)
MachineLost ==
  /\ faults < MaxFaults
  /\ daemon' = [d \in Daemons |-> Off]
  /\ attempts' = {}
  /\ lock' = NoDaemon
  /\ notebook' = NewKernel
  /\ faults' = faults + 1
  /\ UNCHANGED drive

(* Drive loses or damages a stored ZIP.                                    *)
DriveFault(u) ==
  /\ faults < MaxFaults
  /\ \E i \in 1..Len(results[u]), s \in {"damaged", "lost"} :
       /\ results[u][i].state = "whole"
       /\ results' = [results EXCEPT ![u][i].state = s]
  /\ faults' = faults + 1
  /\ UNCHANGED <<receipt, previous, uploaded, failed, attempts, lock, daemon, notebook>>

Upload(u) ==
  /\ u \notin uploaded
  /\ uploaded' = uploaded \cup {u}
  /\ UNCHANGED <<results, receipt, previous, failed, attempts, lock, daemon, notebook, faults>>

-----------------------------------------------------------------------------
Work(d) ==
  \/ ScanUnit(d) \/ ReuseUnit(d) \/ ReuseRemember(d) \/ EndScan(d)
  \/ StageInput(d) \/ Prepare(d) \/ BeginStage(d) \/ EndStage(d) \/ MergeDiscovery(d)
  \/ MergeInference(d) \/ Publish(d) \/ WriteReceipt(d) \/ AnswerProcess(d)
  \/ Exit(d)

Next ==
  \/ \E d \in Daemons : Work(d) \/ FailUnit(d) \/ ReuseFails(d) \/ StartCell(d)
  \/ ChooseUnit \/ Answered
  \/ Deadline \/ KernelRestart \/ MachineLost
  \/ \E u \in Units : DriveFault(u) \/ Upload(u)

Spec == Init /\ [][Next]_vars

(* A running process makes progress or fails, an input is uploaded in the  *)
(* end, and the user runs the cell again whenever it has stopped; no fault *)
(* and no failure is assumed to happen.                                    *)
Fairness ==
  /\ \A d \in Daemons : WF_vars(Work(d) \/ FailUnit(d))
  /\ WF_vars(\E d \in Daemons : StartCell(d))
  /\ WF_vars(ChooseUnit) /\ WF_vars(Answered)
  /\ \A u \in Units : WF_vars(Upload(u))

FairSpec == Spec /\ Fairness

-----------------------------------------------------------------------------
(* The coordinator's state, the notebook's and Drive's have their types.   *)
TypeOK ==
  /\ \A u \in Units : /\ results[u] \in Seq(Zips) /\ Len(results[u]) <= MaxZips
                      /\ receipt[u] \in 0..Len(results[u])
  /\ previous \subseteq Units /\ uploaded \subseteq Units /\ failed \subseteq Units
  /\ attempts \subseteq Units \X Daemons
  /\ lock \in Daemons \cup {NoDaemon}
  /\ daemon \in [Daemons -> Daemon]
  /\ notebook \in Notebook
  /\ faults \in 0..MaxFaults

(* unit_queue.py:183, unit_store.py:73.  Whatever crashes, a receipt only  *)
(* ever names an archive in which every job of the unit was executed.      *)
ReceiptNamesWholeUnit ==
  \A u \in Units : receipt[u] # 0 => results[u][receipt[u]].jobs = JobsOf[u]

(* ownership.py:1, unit_queue.py:63.  The scan that discards left-over     *)
(* attempts never deletes the directory a coordinator is working in, also  *)
(* when the notebook's kernel restarted under a coordinator.               *)
AttemptDirectoryStays ==
  \A d \in Daemons : daemon[d].pc \in {"run", "saved", "kept"}
                        => <<daemon[d].unit, d>> \in attempts

(* orchestrator.py:279, warm_worker.py:67.  Qwen is never on the GPU while *)
(* a Paddle worker runs, through failures, retries and reuse of the pool.  *)
OneModelOnGpu ==
  \A d, e \in Daemons : daemon[d].paddle => daemon[e].vlm # "gpu"

(* The coordinators of a notebook and of its restarted kernel never spoil  *)
(* a result, a directory or the GPU for each other.                        *)
UnitSafety ==
  TypeOK /\ ReceiptNamesWholeUnit /\ AttemptDirectoryStays /\ OneModelOnGpu

(* A whole result of u is on Drive; and the receipt names one.             *)
OnDrive(u) == \E i \in 1..Len(results[u]) : results[u][i].state = "whole"
Saved(u) == receipt[u] # 0 /\ results[u][receipt[u]].state = "whole"

(* unit_store.py:118.  A unit is computed only while no whole result of it *)
(* is on Drive: a ZIP saved before a crash, without its receipt or under a *)
(* receipt that names a lost ZIP, is found by the scan and not recomputed. *)
(* The exception is a ZIP the same coordinator copied after its scan and   *)
(* whose receipt it then failed to write.                                  *)
SavedIsNotRecomputed ==
  [][\A d \in Daemons, u \in Units :
       (daemon[d].unit # u /\ daemon'[d].unit = u) => ~OnDrive(u) \/ u \in daemon[d].unreceipted]_vars

(* unit_store.py:118.  A whole result on Drive is under a receipt sooner   *)
(* or later, unless Drive loses it first: the scan of a later run repairs  *)
(* what a crash between the copy and the receipt has left.                 *)
SavedGetsReceipt ==
  \A u \in Units : OnDrive(u) ~> (Saved(u) \/ ~OnDrive(u))

(* COLAB_AUTO_SKIP_CELL: with a finite number of faults every unit comes   *)
(* to have a whole result under a receipt that names it, or is in the log  *)
(* of failed units, or is excluded.                                        *)
UnitsSettle ==
  \A u \in Units : <>[](Saved(u) \/ u \in failed \/ u \in Excluded)

(* What is on Drive gets its receipt, and every unit its end.              *)
SavedGetsSettled == SavedGetsReceipt /\ UnitsSettle
=============================================================================
