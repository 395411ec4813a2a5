--------------------------- MODULE TheoryTraining ---------------------------
(***************************************************************************)
(* From the theory data to the tested adapter (sft_v2_tools): the local    *)
(* commands prepare made and build_release, the Colab notebooks that     *)
(* train (train_v2) and test (evaluate_v2) from archives on Drive, and the *)
(* report.  A command or a session may stop after any file it writes; the  *)
(* next one finds what was written.                                        *)
(*                                                                         *)
(* The files of a preparation are a function of the editorial exclusions,  *)
(* and their manifests name the exclusions (through PREPARATION_REPORT and *)
(* source_full_manifest_sha256): the set of exclusions stands for the      *)
(* content of each file and for its digest.                                *)
(***************************************************************************)
EXTENDS TheoryData

CONSTANTS
  Editable,      \* facts the editor may exclude
  Runs,          \* RUN_NAMEs of the training notebook
  Setups,        \* runtime and configuration of a session: GPU, packages, epochs
  Saves,         \* setup -> number of checkpoints of a whole training
  Generations,   \* what a checkpoint answers to the validation cases, and its loss:
                 \* [answers: sequence of [json, flawed, kept, anchored], loss]
  None,
  MaxEdits, MaxPrepares, MaxStops   \* bounds of the instance

VARIABLES
  excluded,      \* curation_exclusions.json
  theory,        \* exclusions -> what prepare makes of them; computed once, never changed
  work,          \* the prepared workspace: [lock, data, manifest]
  input,         \* training_input and test_input: kind -> sealed content, or None
  archive,       \* the ZIPs of the release: kind -> content, or None
  drive,         \* the ZIPs on Drive
  published,     \* PUBLISHED.json exists
  cmd,           \* the local command that runs: [name, at]
  run,           \* training run directories on Drive
  sess,          \* the training session that runs, or None
  tests,         \* variant -> evaluation folder on Drive
  bench,         \* the evaluation session that runs, or None
  report,        \* comparison.json, or None
  demo,          \* contexts the RAG demo has put to the model
  edits, prepares, stops   \* counters of the bounds

vars == <<excluded, theory, work, input, archive, drive, published, cmd, run, sess, tests, bench,
          report, demo, edits, prepares, stops>>

Variants == {"base", "sft_v2"}
Idle == [name |-> "none", at |-> 0]
NewRun == [identity |-> None, ckpts |-> {}, val |-> <<>>, adapter |-> None,
           packaging |-> None, zip |-> None, completed |-> None]
NewTest == [identity |-> None, rows |-> <<>>, completed |-> None]

TestRows(d) == theory[d].rows["test"]

Init ==
  /\ excluded = {} /\ theory = [ e \in SUBSET Editable |-> Prepared(e) ]
  /\ work = [lock |-> None, data |-> None, manifest |-> None]
  /\ input = [train |-> None, test |-> None]
  /\ archive = [train |-> None, test |-> None] /\ drive = archive
  /\ published = FALSE /\ cmd = Idle
  /\ run = [ r \in Runs |-> NewRun ] /\ sess = None
  /\ tests = [ v \in Variants |-> NewTest ] /\ bench = None /\ report = None /\ demo = {}
  /\ edits = 0 /\ prepares = 0 /\ stops = 0

Colab == <<run, sess, tests, bench, report, demo>>
Local == <<excluded, theory, work, input, archive, published, cmd, edits, prepares>>

-----------------------------------------------------------------------------
(* The editor adds an exclusion between two commands. *)
Exclude(f) ==
  /\ cmd = Idle /\ edits < MaxEdits /\ f \notin excluded
  /\ excluded' = excluded \cup {f} /\ edits' = edits + 1
  /\ UNCHANGED <<theory, work, input, archive, drive, published, cmd, prepares, stops, Colab>>

(* prepare: the split lock is written before the questions are made, the   *)
(* other files after every check, the manifest last.                       *)
Prepare ==
  /\ cmd = Idle /\ prepares < MaxPrepares
  /\ work' = [work EXCEPT !.lock = excluded]
  /\ cmd' = IF theory[excluded].refused THEN Idle ELSE [name |-> "prepare", at |-> 1]
  /\ prepares' = prepares + 1
  /\ UNCHANGED <<excluded, theory, input, archive, drive, published, edits, stops, Colab>>
PrepareWrite ==
  /\ cmd.name = "prepare"
  /\ \/ cmd.at = 1 /\ work' = [work EXCEPT !.data = None] /\ cmd' = [cmd EXCEPT !.at = 2]
     \/ cmd.at = 2 /\ work' = [work EXCEPT !.data = work.lock] /\ cmd' = [cmd EXCEPT !.at = 3]
     \/ cmd.at = 3 /\ work' = [work EXCEPT !.manifest = work.lock] /\ cmd' = Idle
  /\ UNCHANGED <<excluded, theory, input, archive, drive, published, edits, prepares, stops, Colab>>

(* verify_files(WORK): every registered file still has its digest. *)
verify_files == /\ work.manifest # None
                /\ work.lock = work.manifest /\ work.data = work.manifest

(* dataset and seal for one kind.  The test input records the training     *)
(* input it was split from.                                                *)
SealTrain == [input EXCEPT !.train = [data |-> work.manifest]]
SealTest == [input EXCEPT !.test = [data |-> work.manifest, expects |-> input.train.data]]

(* build: both inputs from the verified workspace, then the archives and   *)
(* their notebooks one after the other; a published release is frozen.     *)
Build ==
  /\ cmd = Idle /\ ~published /\ verify_files
  /\ input' = [input EXCEPT !.train = None]
  /\ cmd' = [name |-> "build", at |-> 1]
  /\ UNCHANGED <<excluded, theory, work, archive, drive, published, edits, prepares, stops, Colab>>
BuildWrite ==
  /\ cmd.name = "build"
  /\ cmd' = IF cmd.at = 4 THEN Idle ELSE [cmd EXCEPT !.at = @ + 1]
  /\ CASE cmd.at = 1 -> input' = SealTrain /\ UNCHANGED archive
       [] cmd.at = 2 -> input' = SealTest /\ UNCHANGED archive
       [] cmd.at = 3 -> archive' = [archive EXCEPT !.train = input.train] /\ UNCHANGED input
       [] cmd.at = 4 -> archive' = [archive EXCEPT !.test = input.test] /\ UNCHANGED input
  /\ UNCHANGED <<excluded, theory, work, drive, published, edits, prepares, stops, Colab>>

(* The owner uploads an archive with its notebook, or freezes the release. *)
Upload(k) ==
  /\ archive[k] # None /\ drive[k] # archive[k]
  /\ drive' = [drive EXCEPT ![k] = archive[k]]
  /\ UNCHANGED <<Local, stops, Colab>>
Publish ==
  /\ cmd = Idle /\ archive.test # None /\ ~published
  /\ published' = TRUE
  /\ UNCHANGED <<excluded, theory, work, input, archive, drive, cmd, edits, prepares, stops, Colab>>

-----------------------------------------------------------------------------
(* Training.  A checkpoint is [step, score, best]: the step it was saved   *)
(* at, the score of its weights and the best checkpoint its state names.   *)
(* Weights are [input, step, score].                                       *)

(* compact_score: an answer is usable when it parses, no check finds a     *)
(* flaw, the correct options are the reference's and no option is foreign. *)
compact_score(a) ==
  [structural |-> a.json /\ ~a.flawed, correct |-> a.json /\ a.kept,
   usable |-> a.json /\ ~a.flawed /\ a.kept /\ a.anchored]
Count(g, proxy) == Cardinality({ i \in DOMAIN g.answers : compact_score(g.answers[i])[proxy] })

(* selection_quality: usable cases, then kept answers, then structure; the *)
(* loss only breaks ties.  In thousandths, times the number of cases.      *)
(* Mutant: the mean of the three proxies. *)
selection_quality_mean(g) == Count(g, "usable") + Count(g, "correct") + Count(g, "structural")
selection_quality(g) ==
  1000 * (100 * Count(g, "usable") + 10 * Count(g, "correct") + Count(g, "structural"))
    - Len(g.answers) * (IF g.loss < 10 THEN g.loss ELSE 10)

Better(a, b) == b = None \/ selection_quality(a.score) > selection_quality(b.score)

Identity(su) == [input |-> drive.train.data, setup |-> su]
Weights(r, c) == [input |-> run[r].identity.input, step |-> c.step, score |-> c.score]
Outputs(d) == [adapter |-> d.adapter, val |-> d.val]

(* latest_checkpoint: the newest complete one.  Incomplete directories are *)
(* skipped, so they are left out of ckpts.                                 *)
latest_checkpoint(d) == CHOOSE c \in d.ckpts : \A o \in d.ckpts : o.step <= c.step

(* preflight.check of an input: every sample quotes facts of its own split *)
(* as the lock assigns them, and no group or concept is in two splits.     *)
preflight(d, parts) ==
  LET Quoted(p) == UNION { s.context : s \in ToSet(theory[d].rows[p]) }
  IN  /\ \A p \in parts : /\ Len(theory[d].rows[p]) = Wanted[p]
                          /\ \A f \in Quoted(p) : theory[d].split[f] = p
      /\ \A p, q \in parts : \A f \in Quoted(p), g \in Quoted(q) :
           p # q => Para[f].concept # Para[g].concept /\ theory[d].group[f] # theory[d].group[g]

(* The session of a new run, or the resumption of one from its latest      *)
(* checkpoint; any other identity is refused.                              *)
FreshTraining(r, su) ==
  /\ run[r].identity = None
  /\ run' = [run EXCEPT ![r].identity = Identity(su)]
  /\ sess' = [run |-> r, setup |-> su, at |-> "train", step |-> 0, best |-> None]
ResumeTraining(r, su) ==
  /\ run[r].identity = Identity(su)
  /\ run[r].completed = None /\ run[r].packaging = None /\ run[r].ckpts # {}
  /\ LET c == latest_checkpoint(run[r])
     IN  sess' = [run |-> r, setup |-> su, at |-> "train", step |-> c.step, best |-> c.best]
  /\ UNCHANGED run
(* A session that stopped after packaging.json only packs what it lists,   *)
(* if it is unchanged.  (A completed run restores an archive that somebody *)
(* removed by hand; nothing here removes one.)                             *)
RecoverPackaging(r, su) ==
  /\ run[r].identity = Identity(su)
  /\ run[r].completed = None /\ run[r].packaging = Outputs(run[r])
  /\ sess' = [run |-> r, setup |-> su, at |-> "zip", step |-> 0, best |-> None]
  /\ UNCHANGED run
StartTraining(r, su) ==
  /\ sess = None /\ drive.train # None
  /\ FreshTraining(r, su) \/ ResumeTraining(r, su) \/ RecoverPackaging(r, su)
  /\ preflight(drive.train.data, {"train", "validation"})
  /\ UNCHANGED <<Local, drive, stops, tests, bench, report, demo>>

(* evaluate at a save point: the validation cases are generated and the    *)
(* scores written before the checkpoint is.                                *)
EvaluateStep(s) ==
  /\ sess # None /\ sess.at = "train" /\ sess.step < Saves[sess.setup]
  /\ LET k == sess.step + 1
         c == [step |-> k, score |-> s]
     IN  /\ run' = [run EXCEPT ![sess.run].val =
                       [ j \in 1..Max({k, Len(@)}) |-> IF j = k THEN s ELSE @[j] ]]
         /\ sess' = [sess EXCEPT !.at = "save", !.step = k, !.best = IF Better(c, @) THEN c ELSE @]
  /\ UNCHANGED <<Local, drive, stops, tests, bench, report, demo>>
(* The trainer keeps the best checkpoint and the newest (save_total_limit  *)
(* is 2 and the best model is loaded at the end).                          *)
SaveCheckpoint ==
  /\ sess # None /\ sess.at = "save"
  /\ LET c == [step |-> sess.step, score |-> run[sess.run].val[sess.step], best |-> sess.best]
         others == { o \in run[sess.run].ckpts : o.step # sess.step }
     IN  run' = [run EXCEPT ![sess.run].ckpts = { o \in others : o.step = sess.best.step } \cup {c}]
  /\ sess' = [sess EXCEPT !.at = "train"]
  /\ UNCHANGED <<Local, drive, stops, tests, bench, report, demo>>

(* After the last step: the best weights, then packaging.json, the archive *)
(* and completed.json, in this order.                                      *)
Packed(r) == [run EXCEPT ![r].zip = run[r].packaging]
Completed(r) == [run EXCEPT ![r].completed = run[r].packaging]
FinishTraining ==
  /\ sess # None
  /\ LET r == sess.run
     IN  \/ /\ sess.at = "train" /\ sess.step = Saves[sess.setup]
            /\ run' = [run EXCEPT ![r].adapter = Weights(r, sess.best)]
            /\ sess' = [sess EXCEPT !.at = "package"]
         \/ /\ sess.at = "package"
            /\ run' = [run EXCEPT ![r].packaging = Outputs(run[r])]
            /\ sess' = [sess EXCEPT !.at = "zip"]
         \/ sess.at = "zip" /\ run' = Packed(r) /\ sess' = [sess EXCEPT !.at = "done"]
         \/ sess.at = "done" /\ run' = Completed(r) /\ sess' = None
  /\ UNCHANGED <<Local, drive, stops, tests, bench, report, demo>>

(* The RAG demo: the first fact of the training index marked train that    *)
(* has companions of its course among the others marked train.             *)
retrieve(facts, split) == { f \in facts : split[f] = "train" }
RagDemo(r) ==
  /\ run[r].completed # None /\ drive.train # None
  /\ run[r].identity.input = drive.train.data
  /\ LET e == drive.train.data
         hits == retrieve({ f \in theory[e].facts : theory[e].split[f] # "test" }, theory[e].split)
         Plan(q) == choose_related(q, { f \in hits : Para[f].course = Para[q].course })
         targets == { q \in hits : Plan(q) # <<>> }
     IN  /\ targets # {}
         /\ demo' = demo \cup { [data |-> e, context |-> ToSet(Plan(Min(targets)))] }
         /\ demo' # demo
  /\ UNCHANGED <<Local, drive, stops, run, sess, tests, bench, report>>

-----------------------------------------------------------------------------
(* Testing. *)

(* validate_adapter: a completed run, trained from the input this test     *)
(* input was split from, its outputs unchanged.                            *)
(* Mutant: an adapter of any training release is accepted. *)
validate_adapter_any(r) == run[r].completed # None /\ Outputs(run[r]) = run[r].completed
validate_adapter(r) ==
  /\ run[r].completed # None
  /\ run[r].identity.input = drive.test.expects
  /\ Outputs(run[r]) = run[r].completed

TestIdentity(v, r, su) ==
  [test |-> drive.test.data, expects |-> drive.test.expects, setup |-> su,
   adapter |-> IF v = "base" THEN None ELSE run[r].adapter]
StartTest(v, r, su) ==
  /\ bench = None /\ drive.test # None
  /\ v = "sft_v2" => validate_adapter(r)
  /\ tests[v].identity \in {None, TestIdentity(v, r, su)} /\ preflight(drive.test.data, {"test"})
  /\ tests' = [tests EXCEPT ![v].identity = TestIdentity(v, r, su)]
  /\ bench' = [variant |-> v, identity |-> TestIdentity(v, r, su), next |-> 1]
  /\ UNCHANGED <<Local, drive, stops, run, sess, report, demo>>
(* One sample after the other; one that is in the cache under this         *)
(* identity is not generated again.  Then the summary and completed.json.  *)
Sample ==
  /\ bench # None
  /\ LET v == bench.variant
         n == Len(TestRows(bench.identity.test))
     IN  IF bench.next <= n
         THEN /\ tests' = IF Len(tests[v].rows) >= bench.next THEN tests
                          ELSE [tests EXCEPT ![v].rows = Append(@, bench.identity)]
              /\ bench' = [bench EXCEPT !.next = @ + 1]
         ELSE /\ tests' = [tests EXCEPT ![v].completed = [identity |-> bench.identity, rows |-> tests[v].rows]]
              /\ bench' = None
  /\ UNCHANGED <<Local, drive, stops, run, sess, report, demo>>

(* report: both folders complete and unchanged, with a result for every    *)
(* sample of the input at hand, tested under one protocol.                 *)
Tested(d) == { <<s.fact, s.mode>> : s \in ToSet(TestRows(d)) }
(* Mutant: the environments are not compared. *)
SameProtocol_input(a, b) == a.test = b.test /\ a.expects = b.expects
SameProtocol(a, b) == a.test = b.test /\ a.expects = b.expects /\ a.setup = b.setup
Report ==
  /\ bench = None /\ drive.test # None
  /\ \A v \in Variants : /\ tests[v].completed # None
                         /\ tests[v].completed = [identity |-> tests[v].identity, rows |-> tests[v].rows]
                         /\ Tested(drive.test.data) \subseteq Tested(tests[v].identity.test)
  /\ SameProtocol(tests["base"].identity, tests["sft_v2"].identity)
  /\ report' = [ v \in Variants |-> tests[v].rows ] /\ report' # report
  /\ UNCHANGED <<Local, drive, stops, run, sess, tests, bench, demo>>

-----------------------------------------------------------------------------
(* The terminal is closed, or Colab disconnects. *)
Stop ==
  /\ stops < MaxStops /\ stops' = stops + 1
  /\ \/ cmd # Idle /\ cmd' = Idle /\ UNCHANGED <<sess, bench>>
     \/ sess # None /\ sess' = None /\ UNCHANGED <<cmd, bench>>
     \/ bench # None /\ bench' = None /\ UNCHANGED <<cmd, sess>>
  /\ UNCHANGED <<excluded, theory, work, input, archive, drive, published, edits, prepares,
                 run, tests, report, demo>>

Next ==
  \/ \E f \in Editable : Exclude(f)
  \/ Prepare \/ PrepareWrite \/ Build \/ BuildWrite \/ Publish
  \/ \E k \in {"train", "test"} : Upload(k)
  \/ \E r \in Runs, su \in Setups : StartTraining(r, su)
  \/ \E s \in Generations : EvaluateStep(s)
  \/ SaveCheckpoint \/ FinishTraining
  \/ \E r \in Runs : RagDemo(r)
  \/ \E v \in Variants, r \in Runs, su \in Setups : StartTest(v, r, su)
  \/ Sample \/ Report \/ Stop

Spec == Init /\ [][Next]_vars

-----------------------------------------------------------------------------
(* validate_adapter, expected_training_input_sha256: whatever is excluded,  *)
(* prepared, built and uploaded in between, a test quotes no fact whose     *)
(* concept, quotation or page block the tested adapter has met in training  *)
(* or in the selection of its checkpoint; and the demo quotes only facts of *)
(* the training part of the input it runs from.                             *)
Met(d) == { f \in theory[d].facts : theory[d].split[f] # "test" }
HeldOutStaysUnseen ==
  /\ tests["sft_v2"].identity # None =>
       LET id == tests["sft_v2"].identity
       IN  \A s \in ToSet(TestRows(id.test)) : \A f \in s.context, g \in Met(id.adapter.input) :
             ~Tied(f, g) /\ Para[f].block # Para[g].block
  /\ \A d \in demo : \A f \in d.context : theory[d.data].split[f] = "train"

(* report: what is compared was produced from one test input, in one        *)
(* environment, all of it by one adapter that belongs to this test, however *)
(* often the sessions were interrupted and the inputs replaced.             *)
ReportIsPaired ==
  report # None =>
    /\ \A v, w \in Variants : \A a \in ToSet(report[v]), b \in ToSet(report[w]) :
         /\ a.test = b.test /\ a.setup = b.setup
         /\ v = w => a.adapter = b.adapter
    /\ \A a \in ToSet(report["sft_v2"]) : a.adapter.input = a.expects

(* QualityTrainer, packaging.json: a completed run has an archive of        *)
(* exactly the outputs it lists, and its adapter is one no evaluation of    *)
(* the run beats in usable cases, across interruptions and resumptions.     *)
Usable(g) == Cardinality({ i \in DOMAIN g.answers : compact_score(g.answers[i]).usable })
ReleasesItsBest ==
  \A r \in Runs : run[r].completed # None =>
    /\ run[r].zip = run[r].completed /\ run[r].completed = Outputs(run[r])
    /\ \A k \in 1..Len(run[r].val) : Usable(run[r].val[k]) <= Usable(run[r].adapter.score)

(* The report compares like with like, and a run releases its best adapter. *)
ResultsAreFair == ReportIsPaired /\ ReleasesItsBest
=============================================================================
