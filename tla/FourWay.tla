------------------------------- MODULE FourWay -------------------------------
(***************************************************************************)
(* The four-way comparison (comparison_tools): base, CPT, SFT and CPT+SFT  *)
(* on one frozen test.  build_comparison freezes the input; the Colab      *)
(* notebook trains the missing SFT-only adapter (train_sft of the          *)
(* completed-native release, started from a fresh LoRA), evaluates the     *)
(* four variants one process after the other, caching every sample on      *)
(* Drive, and reports; the returned archive is audited on the local        *)
(* machine.  Sessions may end anywhere and continue on another machine,    *)
(* the input may be rebuilt meanwhile, and a file on Drive may be altered. *)
(*                                                                         *)
(* The dataset is pinned (build asserts its digest); what a rebuild can    *)
(* change is the bundled runtime, so an input is its number.  A digest is  *)
(* the value it is taken of.                                               *)
(***************************************************************************)
EXTENDS Integers, FiniteSets, FiniteSetsExt, Sequences, SequencesExt

CONSTANTS
  Question,      \* test question -> [course, correct: sequence of BOOLEAN]
  HashOrder,     \* the questions in the order of their digests
  Reply,         \* variant -> question -> [labels: set or None, quiz] the model answers
  Machines,      \* Colab machines: [gpu, build: packages and dtype]
  Runs,          \* RUN_NAMEs, each a directory on Drive
  GenerationCounts,   \* GENERATION_COUNT, 12 or 40 in the code
  Steps,         \* checkpoints of a whole training
  None, Torn,    \* no file; a file whose writing was cut off
  MaxBuilds, MaxSessions, MaxDamage   \* bounds of the instance

VARIABLES
  input,         \* the input directory on the local machine
  drive,         \* on Drive: [zip, notebook], the input each belongs to
  run,           \* run name -> sft_only_training directory
  eval,          \* run name -> variant -> evaluation directory
  archive,       \* run name -> four_way_results.zip
  session,       \* the notebook running: [run, count, vm, venv, at: its cell, n], or None
  audit,         \* AUDIT.json with the extracted files, or None
  builds, sessions, damage   \* counters of the bounds

vars == <<input, drive, run, eval, archive, session, audit, builds, sessions, damage>>

Variants == {"base", "cpt", "sft", "cpt_sft"}
Tasks == DOMAIN Question
EmptyRun == [identity |-> None, ckpt |-> 0, takes |-> 0, adapter |-> None, packaging |-> None,
             zip |-> None, bundle |-> None, completed |-> None]
EmptyEval == [identity |-> None, rows |-> <<>>, completed |-> None]

-----------------------------------------------------------------------------
(* build_tasks: the answer key, and the order in which questions are also  *)
(* asked as grounded quizzes: round robin over the courses.                *)
Gold(t) == { i \in DOMAIN Question[t].correct : Question[t].correct[i] }
Labels(t) == DOMAIN Question[t].correct
ASSUME TasksAssumption == \A t \in Tasks : Gold(t) # {} /\ Gold(t) # Labels(t)
GenerationOrder ==
  LET Turn(i) == Cardinality({ j \in 1..(i - 1) : Question[HashOrder[j]].course = Question[HashOrder[i]].course })
      Before(j, i) == \/ Turn(j) < Turn(i)
                      \/ Turn(j) = Turn(i) /\ Question[HashOrder[j]].course < Question[HashOrder[i]].course
      Place(i) == Cardinality({ j \in DOMAIN HashOrder : Before(j, i) })
  IN  [ k \in DOMAIN HashOrder |-> HashOrder[CHOOSE i \in DOMAIN HashOrder : Place(i) = k - 1] ]

(* score_mcq: a nonempty set of the question's labels, and the right one.  *)
score_mcq(labels, t) ==
  LET valid == labels # None /\ labels # {} /\ labels \subseteq Labels(t)
  IN  [valid |-> valid, match |-> valid /\ labels = Gold(t)]
(* score_quiz: one question of the schema with quoted citations; the       *)
(* answer is judged only when prompt and options are the reference's.      *)
score_quiz(q) ==
  [valid |-> q.json /\ ~q.errors, match |-> IF q.json /\ ~q.errors /\ q.aligned THEN q.same ELSE None]

Answered(v, t, count) ==
  [labels |-> Reply[v][t].labels, score |-> score_mcq(Reply[v][t].labels, t),
   quiz |-> IF t \in ToSet(SubSeq(GenerationOrder, 1, count)) THEN score_quiz(Reply[v][t].quiz) ELSE None]

-----------------------------------------------------------------------------
Init ==
  /\ input = 0 /\ drive = [zip |-> 0, notebook |-> 0]
  /\ run = [ r \in Runs |-> EmptyRun ]
  /\ eval = [ r \in Runs |-> [ v \in Variants |-> EmptyEval ] ]
  /\ archive = [ r \in Runs |-> None ] /\ session = None /\ audit = None
  /\ builds = 0 /\ sessions = 0 /\ damage = 0

(* build: the directory is rewritten in place, then the archive and the    *)
(* notebook that names its digest.  The owner uploads the two one by one.  *)
Build ==
  /\ builds < MaxBuilds /\ builds' = builds + 1 /\ input' = input + 1
  /\ UNCHANGED <<drive, run, eval, archive, session, audit, sessions, damage>>
Upload(f) ==
  /\ drive[f] # input /\ drive' = [drive EXCEPT ![f] = input]
  /\ UNCHANGED <<input, run, eval, archive, session, audit, builds, sessions, damage>>

-----------------------------------------------------------------------------
(* The notebook: the archive it names is unpacked and every file of it is  *)
(* as registered; then the cells in order, each stopping it when it fails. *)
Open(r, count, vm) ==
  /\ session = None /\ sessions < MaxSessions /\ sessions' = sessions + 1
  /\ drive.zip = drive.notebook
  /\ session' = [run |-> r, count |-> count, vm |-> vm, input |-> drive.zip,
                 venv |-> "none", at |-> "venv", n |-> 0]
  /\ UNCHANGED <<input, drive, run, eval, archive, audit, builds, damage>>
At(cell) == session # None /\ session.at = cell
GoTo(cell) == session' = [session EXCEPT !.at = cell, !.n = 0]
Stop ==
  /\ session # None /\ session' = None
  /\ UNCHANGED <<input, drive, run, eval, archive, audit, builds, sessions, damage>>

(* ensure_colab_venv: an interpreter is made without pip, then pip is      *)
(* installed into it and the result tried before it is used.               *)
ensure_colab_venv ==
  /\ At("venv")
  /\ IF session.venv = "none" THEN session' = [session EXCEPT !.venv = "nopip"]
     ELSE session' = [session EXCEPT !.venv = "healthy", !.at = "preflight"]
  /\ UNCHANGED <<input, drive, run, eval, archive, audit, builds, sessions, damage>>

-----------------------------------------------------------------------------
(* train_sft, started from a fresh LoRA; resumed when the directory has an *)
(* identity.  The identity of a run names no GPU.                          *)
RunIdentity == [input |-> session.input, build |-> session.vm.build, origin |-> "base"]
(* latest_checkpoint: only complete checkpoints count.                     *)
latest_checkpoint(d) == d.ckpt
StartTraining ==
  /\ At("preflight")
  /\ LET d == run[session.run]
     IN  \/ /\ d.identity = None
            /\ run' = [run EXCEPT ![session.run].identity = RunIdentity]
            /\ GoTo("train")
         \/ /\ d.identity = RunIdentity /\ UNCHANGED run
            /\ \/ /\ d.completed # None /\ d.completed = d.adapter /\ d.bundle = d.zip
                  /\ GoTo("base")
               \/ /\ d.completed = None /\ d.packaging # None /\ d.packaging = d.adapter
                  /\ GoTo("zip")
               \/ /\ d.completed = None /\ d.packaging = None /\ latest_checkpoint(d) > 0
                  /\ session' = [session EXCEPT !.at = "train", !.n = latest_checkpoint(d)]
  /\ UNCHANGED <<input, drive, eval, archive, audit, builds, sessions, damage>>

TrainStep ==
  /\ At("train") /\ session.n < Steps
  /\ run' = [run EXCEPT ![session.run].ckpt = session.n + 1]
  /\ session' = [session EXCEPT !.n = @ + 1]
  /\ UNCHANGED <<input, drive, eval, archive, audit, builds, sessions, damage>>
(* Training again from a checkpoint need not reproduce the weights, so an  *)
(* adapter is a take of its run.                                           *)
SaveAdapter ==
  /\ At("train") /\ session.n = Steps
  /\ run' = [run EXCEPT ![session.run].takes = @ + 1,
                        ![session.run].adapter = [run |-> session.run, take |-> run[session.run].takes + 1]]
  /\ GoTo("package")
  /\ UNCHANGED <<input, drive, eval, archive, audit, builds, sessions, damage>>
(* finalize_artifact: packaging_report.json with the digests of what was   *)
(* trained, the archive, RESULT_BUNDLE with its digest, completed.json.    *)
(* Mutant: completion is published before the archive. *)
FinalizeEarly(d, at) ==
  CASE at = "package" -> [d EXCEPT !.packaging = d.adapter]
    [] at = "zip" -> [d EXCEPT !.completed = d.packaging]
    [] at = "bundle" -> [d EXCEPT !.zip = d.packaging]
    [] at = "complete" -> [d EXCEPT !.bundle = d.zip]
Finalize(d, at) ==
  CASE at = "package" -> [d EXCEPT !.packaging = d.adapter]
    [] at = "zip" -> [d EXCEPT !.zip = d.adapter]
    [] at = "bundle" -> [d EXCEPT !.bundle = d.zip]
    [] at = "complete" -> [d EXCEPT !.completed = d.packaging]
finalize_artifact ==
  /\ session # None /\ session.at \in {"package", "zip", "bundle", "complete"}
  /\ run' = [run EXCEPT ![session.run] = Finalize(@, session.at)]
  /\ GoTo(CASE session.at = "package" -> "zip" [] session.at = "zip" -> "bundle"
             [] session.at = "bundle" -> "complete" [] session.at = "complete" -> "base")
  /\ UNCHANGED <<input, drive, eval, archive, audit, builds, sessions, damage>>

-----------------------------------------------------------------------------
(* evaluate_four_way. *)

(* adapter_for: the bundled adapters, or that of the completed SFT-only    *)
(* run, unchanged; which runtime trained it is not asked.                  *)
adapter_for(v) ==
  CASE v = "base" -> None
    [] v \in {"cpt", "cpt_sft"} -> v
    [] v = "sft" -> run[session.run].adapter
Admitted(v) == v = "sft" => LET d == run[session.run] IN d.completed # None /\ d.completed = d.adapter
(* Mutant: the GPU is left out, as it is in the identity of a training. *)
EvalIdentityAnyGpu(v) ==
  [variant |-> v, input |-> session.input, adapter |-> adapter_for(v),
   machine |-> [gpu |-> "any", build |-> session.vm.build], count |-> session.count]
EvalIdentity(v) ==
  [variant |-> v, input |-> session.input, adapter |-> adapter_for(v), machine |-> session.vm, count |-> session.count]
StartEvaluation(v) ==
  /\ At(v) /\ session.n = 0 /\ Admitted(v)
  /\ eval[session.run][v].identity \in {None, EvalIdentity(v)}
  /\ eval' = [eval EXCEPT ![session.run][v].identity = EvalIdentity(v)]
  /\ session' = [session EXCEPT !.n = 1]
  /\ UNCHANGED <<input, drive, run, archive, audit, builds, sessions, damage>>

After(v) == CASE v = "base" -> "cpt" [] v = "cpt" -> "sft" [] v = "sft" -> "cpt_sft" [] v = "cpt_sft" -> "report"
(* One sample, stored with the digest of its record and of the identity;   *)
(* a cached one is taken over when both are right.  "on" is where it was   *)
(* computed, which only the properties look at.                            *)
Evaluate(v) ==
  /\ At(v) /\ session.n > 0
  /\ LET e == eval[session.run][v]
         rec == Answered(v, HashOrder[session.n], session.count)
     IN  \/ /\ session.n > Len(HashOrder)
            /\ eval' = [eval EXCEPT ![session.run][v].completed = [identity |-> e.identity, rows |-> e.rows]]
            /\ GoTo(After(v))
         \/ /\ session.n \in DOMAIN e.rows
            /\ e.rows[session.n].sum = e.rows[session.n].record /\ e.rows[session.n].identity = e.identity
            /\ session' = [session EXCEPT !.n = @ + 1] /\ UNCHANGED eval
         \/ /\ session.n = Len(e.rows) + 1 /\ session.n <= Len(HashOrder)
            /\ eval' = [eval EXCEPT ![session.run][v].rows =
                           Append(@, [record |-> rec, sum |-> rec, identity |-> e.identity,
                                     on |-> <<session.input, session.vm>>])]
            /\ session' = [session EXCEPT !.n = @ + 1]
  /\ UNCHANGED <<input, drive, run, archive, audit, builds, sessions, damage>>

(* A file on Drive is altered in place and its digests are not: a stored   *)
(* sample, or the adapter.                                                 *)
Damage(r) ==
  /\ damage < MaxDamage /\ damage' = damage + 1
  /\ \/ /\ \E v \in Variants : \E k \in DOMAIN eval[r][v].rows :
              eval' = [eval EXCEPT ![r][v].rows[k].record.score.match = ~@]
        /\ UNCHANGED run
     \/ /\ run[r].adapter # None /\ run' = [run EXCEPT ![r].adapter.take = 0] /\ UNCHANGED eval
  /\ UNCHANGED <<input, drive, archive, session, audit, builds, sessions>>

(* report: four complete, unchanged directories of one protocol.  The      *)
(* archive takes them and the run's files; it is written in place.         *)
SameProtocol(a, b) == a.input = b.input /\ a.count = b.count /\ a.machine = b.machine
Report ==
  /\ At("report")
  /\ \A v \in Variants : LET e == eval[session.run][v]
                         IN  /\ e.completed = [identity |-> e.identity, rows |-> e.rows]
                             /\ Len(e.rows) = Cardinality(Tasks)
                             /\ SameProtocol(e.identity, eval[session.run]["base"].identity)
  /\ archive' = [archive EXCEPT ![session.run] = Torn] /\ GoTo("pack")
  /\ UNCHANGED <<input, drive, run, eval, audit, builds, sessions, damage>>
Export(d) == [identity |-> d.identity, completed |-> d.completed, adapter |-> d.adapter]
Pack ==
  /\ At("pack")
  /\ archive' = [archive EXCEPT ![session.run] = [eval |-> eval[session.run], training |-> Export(run[session.run])]]
  /\ session' = None
  /\ UNCHANGED <<input, drive, run, eval, audit, builds, sessions, damage>>

-----------------------------------------------------------------------------
(* audit_returned_comparison. *)

(* Every sample under its directory's identity and with its own digest,    *)
(* its score recomputed; all the questions of the test.                    *)
(* Mutant: only the file digests of completed.json are verified. *)
SamplesHashed(e) == e.completed = [identity |-> e.identity, rows |-> e.rows]
SamplesHold(e) ==
  /\ e.completed = [identity |-> e.identity, rows |-> e.rows] /\ Len(e.rows) = Cardinality(Tasks)
  /\ \A k \in DOMAIN e.rows :
       /\ e.rows[k].sum = e.rows[k].record /\ e.rows[k].identity = e.identity
       /\ e.rows[k].record.score = score_mcq(e.rows[k].record.labels, HashOrder[k])
(* The exported run was trained with this runtime and configuration, its   *)
(* files are those it completed with, and its adapter the one evaluated.   *)
TrainingHolds(t, evaluated) ==
  /\ t.identity # None /\ t.identity.input = input /\ t.identity.origin = "base"
  /\ t.completed = t.adapter /\ t.adapter = evaluated
Audit(r) ==
  /\ archive[r] \notin {None, Torn} /\ audit # archive[r]
  /\ LET a == archive[r]
     IN  /\ \A v \in Variants : LET e == a.eval[v]
                                IN  /\ e.identity.input = input /\ SamplesHold(e)
                                    /\ e.identity.machine = a.eval["base"].identity.machine
                                    /\ e.identity.count = a.eval["base"].identity.count
                                    /\ v \in {"cpt", "cpt_sft"} => e.identity.adapter = v
         /\ TrainingHolds(a.training, a.eval["sft"].identity.adapter)
  /\ audit' = archive[r]
  /\ UNCHANGED <<input, drive, run, eval, archive, session, builds, sessions, damage>>

-----------------------------------------------------------------------------
Next ==
  \/ Build \/ (\E f \in {"zip", "notebook"} : Upload(f))
  \/ \E r \in Runs, c \in GenerationCounts, vm \in Machines : Open(r, c, vm)
  \/ ensure_colab_venv \/ StartTraining \/ TrainStep \/ SaveAdapter \/ finalize_artifact
  \/ (\E v \in Variants : StartEvaluation(v) \/ Evaluate(v))
  \/ (\E r \in Runs : Damage(r) \/ Audit(r)) \/ Report \/ Pack \/ Stop

Spec == Init /\ [][Next]_vars

-----------------------------------------------------------------------------
(* audit_returned_comparison: an archive that passes holds, for each of    *)
(* the four, what this model answered to every question and its true       *)
(* score, all from one input and on one kind of machine; and the adapter   *)
(* it exports is the one evaluated, trained from that input.               *)
AuditedIsTrue ==
  audit # None =>
    /\ \A v, w \in Variants :
         LET a == audit.eval[v].identity
             b == audit.eval[w].identity
         IN  a.input = b.input /\ a.machine = b.machine /\ a.count = b.count
    /\ \A v \in Variants : \A k \in DOMAIN HashOrder :
         LET rec == audit.eval[v].rows[k].record
         IN  rec.labels = Reply[v][HashOrder[k]].labels /\ (rec.score.match <=> rec.labels = Gold(HashOrder[k]))
    /\ audit.training.adapter = audit.eval["sft"].identity.adapter
    /\ audit.training.identity.input = audit.eval["sft"].identity.input

(* report, EvalIdentity: all that comparison.json sets side by side was    *)
(* computed from one input on one machine, whatever sessions it was spread *)
(* over, with one choice of questions, and the SFT column is a training    *)
(* that completed.                                                         *)
ComparedAlike ==
  \A r \in Runs : archive[r] \notin {None, Torn} =>
    LET a == archive[r]
    IN  /\ \A v \in Variants, k \in DOMAIN HashOrder : a.eval[v].rows[k].on = a.eval["base"].rows[1].on
        /\ \A v \in Variants, t \in DOMAIN HashOrder :
             (a.eval[v].rows[t].record.quiz = None) <=> (a.eval["base"].rows[t].record.quiz = None)
        /\ a.training.completed = a.eval["sft"].identity.adapter

(* finalize_artifact: a run that says it is completed has its archive and  *)
(* the digest of it on record, wherever its sessions were cut off, and     *)
(* was not trained again after it was listed as finished.                  *)
BundleIsWhole ==
  \A r \in Runs : LET d == run[r] IN d.completed # None =>
    d.zip # None /\ d.bundle = d.zip /\ (damage = 0 => d.zip = d.completed /\ d.adapter = d.completed)

(* All that is compared was computed alike, from a run that is whole.      *)
ComparisonIsWhole == ComparedAlike /\ BundleIsWhole
=============================================================================
