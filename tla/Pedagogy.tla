------------------------------ MODULE Pedagogy ------------------------------
(***************************************************************************)
(* Teacher data for the student model (Qweun_sft_version/pedagogy_tools):  *)
(*                                                                         *)
(*   prepare_pedagogy   theory contexts from the frozen CPT corpus, their  *)
(*                      splits, and the teacher jobs                       *)
(*   package_*          registered packets for the Colab notebooks         *)
(*   teacher_runtime, teacher_fast_runtime   one session on a GPU, resumed *)
(*                      from the cache on Drive after any interruption     *)
(*   pedagogy_store, pedagogy_web   append-only candidates and reviews     *)
(*   export_pedagogy    the approved release                               *)
(*                                                                         *)
(* Texts are abstracted to what the tools compare: the identity of a       *)
(* prompt (prompts at least .86 alike have one identity), the answer key,  *)
(* and whether shape and citations are sound.  Hashes are the hashed       *)
(* values themselves.                                                      *)
(***************************************************************************)
EXTENDS Integers, FiniteSets, FiniteSetsExt, Sequences, SequencesExt

CONSTANTS
  Corpora,          \* frozen releases prepare may be given
  Drafts,           \* drafts the teacher, or a correcting reviewer, may write for a task
  Used,             \* packets the notebooks are run with, and their --max-jobs
  Decisions,        \* what reviewers decide without a draft of their own
  BlockPages, MaxChars, MinChars,   \* 8, 3600 and 450 in the code
  TrainShare, Width,  \* 8 train jobs in every 10 theory jobs of a course
  PerCourse,        \* theory jobs of a course
  TheoryPerEnrich,  \* 4: enrichment is at most a fifth of the train split
  BatchSize,
  MaxSessions, MaxTrouble, MaxReviews, MaxExports   \* bounds of the instance

VARIABLES
  work,       \* the prepared workspace, or NoWork
  packets,    \* registered packets: name -> sequence of jobs
  cache,      \* results saved on Drive: packet -> job -> result
  sess,       \* the session that runs, or NoSession
  take,       \* sessions opened so far
  archives,   \* result ZIPs: [packet, results]
  store,      \* candidates of a job in the order of their sequence numbers
  reviews,    \* reviews in the order of their sequence numbers
  desk,       \* a decision between its checks and its INSERT, or NoDecision
  released,   \* LATEST_APPROVED_SFT: [main, auxiliary, ready]
  exports, trouble    \* counters of the bounds

vars == <<work, packets, cache, sess, take, archives, store, reviews, desk,
          released, exports, trouble>>

Splits == {"train", "validation", "test"}
Heldness(s) == CASE s = "test" -> 0 [] s = "validation" -> 1 [] s = "train" -> 2
NoWork == [ctxs |-> {}, jobs |-> <<>>, known |-> {}, sample |-> {}, alike |-> {}, long |-> {}]
NoSession == [packet |-> "none"]
NoDecision == [decision |-> "none"]
NoDraft == [prompt |-> "none", key |-> "none", numeric |-> FALSE, sound |-> FALSE]

-----------------------------------------------------------------------------
(* Preparation.  A record of the CPT selection is [id, doc, page, size,    *)
(* text, bad]; a text above MaxChars is one overlong physical line.        *)

Block(r) == <<r.doc, (r.page - 1) \div BlockPages>>

(* Records that survive quality_reason and the overlong-line rule, each    *)
(* text once per page.                                                     *)
Pieces(recs) ==
  { r \in recs : /\ ~r.bad /\ r.size <= MaxChars
                 /\ \A o \in recs : o.page = r.page /\ o.doc = r.doc
                                    /\ o.text = r.text => r.id <= o.id }

(* flush() after flush(): the pieces of a block, in page order, packed into *)
(* contexts of at most MaxChars characters.                                 *)
Buffers(pieces) ==
  LET ordered == SetToSortSeq(pieces, LAMBDA x, y : x.page < y.page \/ (x.page = y.page /\ x.id < y.id))
      Size(b) == FoldLeft(LAMBDA n, p : n + p.size + 2, 0, b)
  IN  FoldLeft(LAMBDA bs, p :
                 IF bs # <<>> /\ Size(Last(bs)) + p.size + 2 <= MaxChars
                 THEN Front(bs) \o << Append(Last(bs), p) >>
                 ELSE Append(bs, <<p>>),
               <<>>, ordered)

(* A context is named after its first piece. *)
MakeContexts(corpus) ==
  LET ps == Pieces(corpus.records)
      Long(b) == FoldLeft(LAMBDA n, p : n + p.size, 0, b) >= MinChars
  IN  UNION { { [id |-> b[1].id, block |-> k, course |-> corpus.course[k[1]],
                 chars |-> FoldLeft(LAMBDA n, p : n + p.size, 0, b)] :
                  b \in { c \in Range(Buffers({ p \in ps : Block(p) = k })) : Long(c) } } :
              k \in { Block(p) : p \in ps } }

(* Union-find over blocks: contexts of one block, and the blocks of nearly  *)
(* equal contexts, are one group; its name decides the split.               *)
RECURSIVE Reach(_, _)
Reach(links, seen) ==
  LET more == seen \cup UNION { l \in links : l \cap seen # {} }
  IN  IF more = seen THEN seen ELSE Reach(links, more)
GroupOf(corpus, ctxs, c) ==
  LET links == { { d.block : d \in { e \in ctxs : e.id \in pair } } : pair \in corpus.alike }
      Lower(a, b) == a[1] < b[1] \/ (a[1] = b[1] /\ a[2] < b[2])
  IN  CHOOSE b \in Reach(links, {c.block}) :
        \A o \in Reach(links, {c.block}) : b = o \/ Lower(b, o)

(* Mutant: near-duplicate contexts are not joined; only the block counts. *)
AssignByBlock(corpus, ctxs) ==
  { [id |-> c.id, course |-> c.course, chars |-> c.chars, block |-> c.block,
     group |-> c.block, split |-> corpus.hash[c.block]] : c \in ctxs }
AssignSplits(corpus, ctxs) ==
  { [id |-> c.id, course |-> c.course, chars |-> c.chars, block |-> c.block,
     group |-> GroupOf(corpus, ctxs, c),
     split |-> corpus.hash[GroupOf(corpus, ctxs, c)]] : c \in ctxs }

(* Up to two contexts of the question's own split, best match first; a      *)
(* second one only when both fit into 5500 characters.                      *)
Retrieve(corpus, q, ctxs) ==
  LET Cover(c) == corpus.cover[q.id][c.id]
      found == SetToSortSeq({ c \in ctxs : /\ c.course \in corpus.mapped[q.course]
                                           /\ c.split = q.split /\ Cover(c) >= 8 },
                            LAMBDA x, y : Cover(x) > Cover(y) \/ (Cover(x) = Cover(y) /\ x.id < y.id))
  IN  FoldLeft(LAMBDA cs, c :
                 IF Len(cs) = 2 \/ (cs # <<>> /\ cs[1].chars + c.chars > 5500) THEN cs
                 ELSE Append(cs, c), <<>>, found)

(* A shallow exam question becomes a job when its own split has theory for  *)
(* it; a merely related course needs a coverage of a fifth.                 *)
EnrichJobs(corpus, ctxs) ==
  LET Job(q) ==
        LET cs == Range(Retrieve(corpus, q, ctxs))
        IN  [id |-> q.id, task |-> "enrich", split |-> q.split, group |-> q.group,
             course |-> q.course, ctxs |-> cs, prompt |-> q.prompt, key |-> q.key,
             multi |-> q.multi, related |-> q.course \in corpus.related,
             weak |-> \A c \in cs : corpus.cover[q.id][c.id] < 20]
      Ready(j) == j.ctxs # {} /\ ~(j.related /\ j.weak)
      asked == SetToSortSeq({ q \in corpus.exam : q.shallow },
                            LAMBDA x, y : Heldness(x.split) > Heldness(y.split)
                                          \/ (x.split = y.split /\ x.id < y.id))
  IN  SelectSeq([i \in 1..Len(asked) |-> Job(asked[i])], Ready)

(* Theory jobs of a course: the split of the i-th is fixed, a split without *)
(* contexts is skipped, contexts are used in turn.                          *)
TheoryJobs(corpus, ctxs, course) ==
  LET Desired(i) == IF i % Width < TrainShare THEN "train"
                    ELSE IF i % Width = TrainShare THEN "validation" ELSE "test"
      Pool(s) == SetToSortSeq({ c \in ctxs : c.course = course /\ c.split = s },
                              LAMBDA x, y : x.id < y.id)
      Turn(i) == IF Desired(i) = "train" THEN ((i \div Width) * TrainShare) + (i % TrainShare)
                 ELSE i \div Width
      At(i) == Pool(Desired(i))[(Turn(i) % Len(Pool(Desired(i)))) + 1]
      used == SelectSeq([i \in 1..PerCourse |-> i - 1], LAMBDA i : Pool(Desired(i)) # <<>>)
      Local(n) == Cardinality({ m \in 1..(n - 1) : Desired(used[m]) = Desired(used[n]) })
  IN  [n \in 1..Len(used) |->
        [id |-> 1000 * course + used[n], task |-> "theory", split |-> At(used[n]).split,
         group |-> At(used[n]).group, course |-> course, ctxs |-> {At(used[n])},
         prompt |-> "none", key |-> "none", multi |-> Local(n) % 4 = 3,
         related |-> FALSE, weak |-> FALSE]]

(* prepare refuses records outside the CPT train split or without an        *)
(* acceptance.                                                              *)
Prepare(corpus) ==
  LET ctxs == AssignSplits(corpus, MakeContexts(corpus))
      courses == SetToSortSeq({ c.course : c \in ctxs }, <)
  IN  /\ work = NoWork
      /\ \A r \in corpus.records : r.cptTrain
      /\ work' = [ctxs |-> ctxs, known |-> { q.prompt : q \in corpus.exam },
                  jobs |-> EnrichJobs(corpus, ctxs) \o
                           FlattenSeq([i \in 1..Len(courses) |-> TheoryJobs(corpus, ctxs, courses[i])]),
                  sample |-> corpus.sample, alike |-> corpus.alike, long |-> corpus.long]
      /\ UNCHANGED <<packets, cache, sess, take, archives, store, reviews, desk,
                     released, exports, trouble>>

(* The pilot takes two theory jobs and one enrichment job of every course,  *)
(* and starts with two theory jobs and an enrichment job.                   *)
Pilot ==
  LET jobs == work.jobs
      Earlier(i) == { k \in 1..(i - 1) : jobs[k].course = jobs[i].course /\ jobs[k].task = jobs[i].task }
      few == { i \in 1..Len(jobs) : Cardinality(Earlier(i)) < IF jobs[i].task = "theory" THEN 2 ELSE 1 }
      picked == [n \in 1..Cardinality(few) |-> jobs[SetToSortSeq(few, <)[n]]]
      Of(t) == SelectSeq(picked, LAMBDA j : j.task = t)
      smoke == SubSeq(Of("theory"), 1, 2) \o SubSeq(Of("enrich"), 1, 1)
  IN  smoke \o SelectSeq(picked, LAMBDA j : j \notin Range(smoke))

(* package and package_fast: a pilot and a full packet under each policy.   *)
Packet(name) == IF name[2] = "pilot" THEN Pilot ELSE work.jobs
Package(policy) ==
  LET names == { <<policy, "pilot">>, <<policy, "full">> }
  IN  /\ work # NoWork /\ names \cap DOMAIN packets = {} /\ names \cap DOMAIN Used # {}
      /\ packets' = [p \in DOMAIN packets \cup names |->
                       IF p \in DOMAIN packets THEN packets[p]
                       ELSE Packet(p)]
      /\ cache' = [p \in DOMAIN packets' |->
                     IF p \in DOMAIN cache THEN cache[p] ELSE [j \in {} |-> NoDraft]]
      /\ UNCHANGED <<work, sess, take, archives, store, reviews, desk, released, exports, trouble>>

-----------------------------------------------------------------------------
(* What the tools check.                                                    *)

(* An enrichment keeps question and source key; a theory question is new.   *)
ValidDraft(job, d) ==
  /\ d.sound
  /\ IF job.task = "enrich" THEN d.prompt = job.prompt /\ d.key = job.key
     ELSE d.prompt \notin work.known

AuditReasons(job, d) ==
  {x \in {"multiple_select"} : job.multi} \cup {x \in {"related_curriculum"} : job.related}
    \cup {x \in {"weak_retrieval"} : job.task = "enrich" /\ job.weak}
    \cup {x \in {"numeric_reasoning"} : d.numeric}
    \cup {x \in {"random_sample"} : job.id \in work.sample}

(* Two blind solutions, in the two prescribed orders, find the key.         *)
ValidChecks(d, checks) ==
  Len(checks) = 2 /\ \A i \in {1, 2} : checks[i] = d.key

ValidResultChecks(job, r) ==
  IF r.policy = "fast" /\ AuditReasons(job, r.draft) = {}
  THEN r.checks = <<>> /\ r.critic = "none"
  ELSE ValidChecks(r.draft, r.checks) /\ r.critic = "good"

(* Mutant: the key may be corrected without a new generation. *)
ReviewedChecksLax(job, r, d) ==
  /\ d.prompt = r.draft.prompt
  /\ IF r.policy = "fast" THEN ValidResultChecks(job, r) ELSE Len(r.checks) = 2
(* A reviewer's draft keeps the question and the key the model solved.      *)
ReviewedChecks(job, r, d) ==
  /\ d.prompt = r.draft.prompt /\ d.key = r.draft.key
  /\ IF r.policy = "fast" THEN ValidResultChecks(job, r) ELSE ValidChecks(d, r.checks)

-----------------------------------------------------------------------------
(* Sessions.  The cache of a packet is on Drive and outlives the session.   *)

Phases == <<"blind_original", "blind_reversed", "critic">>
Done == {"generated", "blocked", "failed"}
ById(p, id) == CHOOSE j \in Range(packets[p]) : j.id = id
Fresh(p, job) ==
  [job |-> job.id, policy |-> p[1], status |-> "pending_audit", draft |-> NoDraft,
   checks |-> <<>>, critic |-> "none", phases |-> {}, error |-> "none", take |-> take]
Saved(p, id, r) == [cache EXCEPT ![p] = [j \in DOMAIN @ \cup {id} |-> IF j = id THEN r ELSE @[j]]]

(* Mutant: a resumed session starts every unfinished audit from a new draft  *)
(* but keeps finished results only when they were generated.                 *)
ReusableGenerated(p, id, retry) ==
  id \in DOMAIN cache[p] /\ cache[p][id].status \in {"generated", "pending_audit"}
Reusable(p, id, retry) ==
  /\ id \in DOMAIN cache[p]
  /\ cache[p][id].status = "failed" => ~retry

(* A session loads what it may reuse; the rest is to be done, interrupted    *)
(* audits first.                                                             *)
Open(p, retry) ==
  LET jobs == SubSeq(packets[p], 1, Min({Used[p], Len(packets[p])}))
      loaded == { j.id : j \in { k \in Range(jobs) : Reusable(p, k.id, retry) } }
      left == SelectSeq(jobs, LAMBDA j : ~(j.id \in loaded /\ cache[p][j.id].status \in Done))
      resumed == SelectSeq(left, LAMBDA j : j.id \in loaded)
      anew == SelectSeq(left, LAMBDA j : j.id \notin loaded)
  IN  /\ sess = NoSession /\ take < MaxSessions
      /\ take' = take + 1
      /\ sess' = [packet |-> p, loaded |-> loaded, size |-> BatchSize, late |-> FALSE,
                  todo |-> IF p[1] = "fast" THEN resumed \o anew ELSE left,
                  batch |-> <<>>, stage |-> 0, queue |-> <<>>, closing |-> 0]
      /\ UNCHANGED <<work, packets, cache, archives, store, reviews, desk, released, exports, trouble>>

(* Mutant: pending audits are exported with the results. *)
ResultsOfAll(p, loaded) == { cache[p][id] : id \in loaded \cap DOMAIN cache[p] }
Results(p, loaded) == { cache[p][id] : id \in { i \in loaded \cap DOMAIN cache[p] : cache[p][i].status \in Done } }
Export(p, results) == archives' = archives \cup {[packet |-> p, results |-> results]}

(* The strict teacher: one job is drafted, solved twice and criticised, and  *)
(* only its result is saved.  A ValueError blocks it, anything else fails.   *)
StrictResult(p, job, d, checks, critic, error) ==
  LET base == [Fresh(p, job) EXCEPT !.draft = d, !.error = error]
      good == ValidDraft(job, d)
  IN  IF error # "none" THEN [base EXCEPT !.draft = NoDraft, !.status = IF error = "gpu" THEN "failed" ELSE "blocked"]
      ELSE IF ~good THEN [base EXCEPT !.status = "blocked", !.error = "gate"]
      ELSE IF ~ValidChecks(d, checks) THEN [base EXCEPT !.checks = checks, !.status = "blocked", !.error = "gate"]
      ELSE IF critic = "bad" THEN [base EXCEPT !.checks = checks, !.critic = critic, !.status = "blocked", !.error = "gate"]
      ELSE [base EXCEPT !.checks = checks, !.critic = critic, !.status = "generated"]

(* A blind solution is the key or something else: another key, no answer.    *)
Solutions(d) == {d.key, "other"}

(* Trouble is counted: a fault or a dead GPU, a wrong solution, a lost       *)
(* session, the deadline.                                                    *)
Bad(n) == trouble + n <= MaxTrouble /\ trouble' = trouble + n

StrictJob ==
  /\ sess # NoSession /\ sess.packet[1] = "strict" /\ sess.todo # <<>>
  /\ LET p == sess.packet
         job == Head(sess.todo)
     IN  \E d \in Drafts[job.task], critic \in {"good", "bad"}, error \in {"none", "fault", "gpu"} :
         \E other \in Solutions(d) :
           LET r == StrictResult(p, job, d, <<d.key, other>>, critic, error)
           IN  /\ Bad((IF error # "none" THEN 1 ELSE 0) + (IF other # d.key THEN 1 ELSE 0)
                      + (IF critic = "bad" THEN 1 ELSE 0))
               /\ cache' = Saved(p, job.id, r)
               /\ sess' = [sess EXCEPT !.loaded = @ \cup {job.id},
                                       !.todo = IF error = "gpu" THEN <<>> ELSE Tail(@)]
  /\ UNCHANGED <<work, packets, take, archives, store, reviews, desk, released, exports>>

(* The fast teacher, batch by batch: drafts, then the three audit phases.    *)
NextBatch ==
  /\ sess # NoSession /\ sess.packet[1] = "fast"
  /\ sess.batch = <<>> /\ sess.todo # <<>> /\ ~sess.late
  /\ LET n == Min({sess.size, Len(sess.todo)})
         batch == SubSeq(sess.todo, 1, n)
     IN  sess' = [sess EXCEPT !.batch = batch, !.todo = SubSeq(@, n + 1, Len(@)), !.stage = 0,
                              !.queue = SelectSeq(batch, LAMBDA j : j.id \notin sess.loaded)]
  /\ UNCHANGED <<work, packets, cache, take, archives, store, reviews, desk, released, exports, trouble>>

(* A batch that does not fit the GPU is halved, and so are the next ones.    *)
OutOfMemory ==
  /\ sess # NoSession /\ sess.packet[1] = "fast" /\ Len(sess.queue) > 1 /\ sess.closing = 0
  /\ Bad(1)
  /\ sess' = [sess EXCEPT !.size = Len(sess.queue) \div 2]
  /\ UNCHANGED <<work, packets, cache, take, archives, store, reviews, desk, released, exports>>

(* finish: the checks decide between generated and blocked.                  *)
Finished(job, r) ==
  IF ValidResultChecks(job, r) THEN [r EXCEPT !.status = "generated"]
  ELSE [r EXCEPT !.status = "blocked", !.error = "gate"]

Answering(n) ==
  /\ sess # NoSession /\ sess.packet[1] = "fast" /\ sess.queue # <<>> /\ sess.closing = 0
  /\ n = 0 <=> sess.stage = 0
Answered == [sess EXCEPT !.queue = Tail(@), !.loaded = @ \cup {Head(sess.queue).id}]

(* A draft that needs no audit is saved as pending first, and then finished. *)
DraftAnswer ==
  /\ Answering(0)
  /\ LET p == sess.packet
         job == Head(sess.queue)
         fresh == Fresh(p, job)
     IN  \/ /\ sess.late       \* no answer before the deadline
            /\ sess' = [sess EXCEPT !.queue = Tail(@)]
            /\ UNCHANGED <<cache, trouble>>
         \/ \E error \in {"fault", "gpu"} :
            /\ Bad(1) /\ sess' = Answered
            /\ cache' = Saved(p, job.id, [fresh EXCEPT !.error = error,
                                            !.status = IF error = "gpu" THEN "failed" ELSE "blocked"])
         \/ \E d \in Drafts[job.task] :
            LET r == [fresh EXCEPT !.draft = d, !.phases = {"draft"}]
            IN  IF ValidDraft(job, d)
                THEN /\ cache' = Saved(p, job.id, r) /\ UNCHANGED trouble
                     /\ sess' = [Answered EXCEPT !.closing = IF AuditReasons(job, d) = {} THEN job.id ELSE 0]
                ELSE /\ cache' = Saved(p, job.id, [r EXCEPT !.status = "blocked", !.error = "gate"])
                     /\ sess' = Answered /\ UNCHANGED trouble
  /\ UNCHANGED <<work, packets, take, archives, store, reviews, desk, released, exports>>

FinishUnaudited ==
  /\ sess # NoSession /\ sess.packet[1] = "fast" /\ sess.closing # 0
  /\ LET p == sess.packet
     IN  cache' = Saved(p, sess.closing, Finished(ById(p, sess.closing), cache[p][sess.closing]))
  /\ sess' = [sess EXCEPT !.closing = 0]
  /\ UNCHANGED <<work, packets, take, archives, store, reviews, desk, released,
                 exports, trouble>>

(* Mutant: a resumed audit asks again what was answered before. *)
AskedAgain(n) ==
  SelectSeq(sess.batch, LAMBDA j :
    /\ j.id \in sess.loaded /\ cache[sess.packet][j.id].status = "pending_audit"
    /\ \A m \in 1..(n - 1) : Phases[m] \in cache[sess.packet][j.id].phases)
(* Who is asked in an audit phase: the pending jobs of the batch that have   *)
(* answered every phase before it.                                           *)
Asked(n) ==
  SelectSeq(sess.batch, LAMBDA j :
    /\ j.id \in sess.loaded /\ cache[sess.packet][j.id].status = "pending_audit"
    /\ Phases[n] \notin cache[sess.packet][j.id].phases
    /\ \A m \in 1..(n - 1) : Phases[m] \in cache[sess.packet][j.id].phases)

(* The next phase, unless the deadline has passed; a phase nobody needs is   *)
(* skipped.                                                                  *)
NextPhase ==
  /\ sess # NoSession /\ sess.packet[1] = "fast" /\ sess.closing = 0
  /\ sess.batch # <<>> /\ sess.queue = <<>> /\ sess.stage < 3
  /\ LET n == sess.stage + 1
     IN  sess' = IF sess.late /\ Asked(n) # <<>> THEN [sess EXCEPT !.stage = 3]
                 ELSE [sess EXCEPT !.stage = n, !.queue = Asked(n)]
  /\ UNCHANGED <<work, packets, cache, take, archives, store, reviews, desk, released, exports, trouble>>

AuditAnswer ==
  /\ Answering(1)
  /\ LET p == sess.packet
         job == Head(sess.queue)
         r == cache[p][job.id]
         heard == [r EXCEPT !.phases = @ \cup {Phases[sess.stage]}]
     IN  \/ /\ sess.late
            /\ UNCHANGED <<cache, trouble>>
         \/ \E error \in {"fault", "gpu"} :
            /\ Bad(1)
            /\ cache' = Saved(p, job.id, [r EXCEPT !.error = error,
                                            !.status = IF error = "gpu" THEN "failed" ELSE "blocked"])
         \/ /\ sess.stage < 3
            /\ \E key \in Solutions(r.draft) :
               /\ Bad(IF key = r.draft.key THEN 0 ELSE 1)
               /\ cache' = Saved(p, job.id, [heard EXCEPT !.checks = Append(@, key)])
         \/ /\ sess.stage = 3
            /\ \E critic \in {"good", "bad"} :
               /\ Bad(IF critic = "good" THEN 0 ELSE 1)
               /\ cache' = Saved(p, job.id, Finished(job, [heard EXCEPT !.critic = critic]))
  /\ sess' = [sess EXCEPT !.queue = Tail(@)]
  /\ UNCHANGED <<work, packets, take, archives, store, reviews, desk, released, exports>>

(* After a batch the checkpoint ZIP holds every result so far; a GPU failure *)
(* among them ends the session.                                              *)
EndBatch ==
  /\ sess # NoSession /\ sess.packet[1] = "fast" /\ sess.closing = 0
  /\ sess.batch # <<>> /\ sess.stage = 3 /\ sess.queue = <<>>
  /\ LET rs == Results(sess.packet, sess.loaded)
     IN  /\ Export(sess.packet, rs)
         /\ sess' = [sess EXCEPT !.batch = <<>>, !.stage = 0,
                                 !.todo = IF \E r \in rs : r.error = "gpu" THEN <<>> ELSE @]
  /\ UNCHANGED <<work, packets, cache, take, store, reviews, desk, released,
                 exports, trouble>>

(* The session ends with its result ZIP.                                     *)
Close ==
  /\ sess # NoSession /\ sess.batch = <<>> /\ (sess.todo = <<>> \/ sess.late)
  /\ Export(sess.packet, Results(sess.packet, sess.loaded))
  /\ sess' = NoSession
  /\ UNCHANGED <<work, packets, cache, take, store, reviews, desk, released,
                 exports, trouble>>

Deadline ==
  /\ sess # NoSession /\ sess.packet[1] = "fast" /\ ~sess.late /\ Bad(1)
  /\ sess' = [sess EXCEPT !.late = TRUE]
  /\ UNCHANGED <<work, packets, cache, take, archives, store, reviews, desk, released, exports>>

(* Colab takes the machine, or the watchdog of the notebook fires.           *)
Lost ==
  /\ sess # NoSession /\ Bad(1)
  /\ sess' = NoSession
  /\ UNCHANGED <<work, packets, cache, take, archives, store, reviews, desk, released, exports>>

-----------------------------------------------------------------------------
(* The store and the review page.                                            *)

JobOf(id) == CHOOSE j \in Range(work.jobs) : j.id = id
Candidates(id) == IF id \in DOMAIN store THEN store[id] ELSE <<>>

(* A result is checked again on import, with the registered packet's policy. *)
QualityPass(r) ==
  r.status = "generated" /\ ValidDraft(JobOf(r.job), r.draft) /\ ValidResultChecks(JobOf(r.job), r)

(* Mutant: a result that is stored already is inserted once more. *)
ImportedAgain(a) ==
  LET ids == { r.job : r \in a.results }
      R(id) == CHOOSE r \in a.results : r.job = id
  IN  [id \in DOMAIN store \cup ids |->
         IF id \in ids /\ (Candidates(id) = <<>> \/ Last(Candidates(id)) # R(id))
         THEN Append(Candidates(id), R(id)) ELSE Candidates(id)]
(* The id of a candidate is its job and the hash of its result, and unique.  *)
Imported(a) ==
  LET ids == { r.job : r \in a.results }
      R(id) == CHOOSE r \in a.results : r.job = id
  IN  [id \in DOMAIN store \cup ids |->
         IF id \in ids /\ R(id) \notin Range(Candidates(id))
         THEN Append(Candidates(id), R(id)) ELSE Candidates(id)]

Import(a) ==
  /\ a.packet \in DOMAIN packets
  /\ store' = Imported(a) /\ store' # store
  /\ UNCHANGED <<work, packets, cache, sess, take, archives, reviews, desk, released, exports, trouble>>

(* Mutant: the latest review of any result of the job counts. *)
LatestReviewOfJob(r) ==
  LET of == SelectSeq(reviews, LAMBDA v : v.result.job = r.job)
  IN  IF of = <<>> THEN NoDecision ELSE Last(of)
LatestReview(r) ==
  LET of == SelectSeq(reviews, LAMBDA v : v.result = r)
  IN  IF of = <<>> THEN NoDecision ELSE Last(of)

(* rows(): the latest result of every job with its own latest review.        *)
Row(id) ==
  LET r == Last(store[id])
      v == LatestReview(r)
  IN  [job |-> JobOf(id), result |-> r, review |-> v,
       verified |-> v.decision \in {"approve", "correct"},
       draft |-> IF v.decision \in {"approve", "correct"} THEN v.draft ELSE r.draft]
Rows == { Row(id) : id \in { i \in DOMAIN store : store[i] # <<>> } }

(* decide() reads the row and checks the draft ...                           *)
Decide(id, decision, corrected) ==
  LET row == Row(id)
      d == IF decision = "correct" THEN corrected ELSE row.draft
  IN  /\ desk = NoDecision /\ Len(reviews) < MaxReviews /\ Candidates(id) # <<>>
      /\ decision \in {"approve", "correct"} =>
           /\ QualityPass(row.result)
           /\ ValidDraft(row.job, d) /\ ReviewedChecks(row.job, row.result, d)
      /\ desk' = [decision |-> decision, result |-> row.result, draft |-> d]
      /\ UNCHANGED <<work, packets, cache, sess, take, archives, store, reviews, released, exports, trouble>>

(* ... and inserts the review unless the candidate was superseded meanwhile. *)
(* Mutant: the second look at the latest candidate is left out. *)
StillLatestAssumed == TRUE
StillLatest == Last(store[desk.result.job]) = desk.result
Record ==
  /\ desk # NoDecision
  /\ reviews' = IF StillLatest THEN Append(reviews, desk) ELSE reviews
  /\ desk' = NoDecision
  /\ UNCHANGED <<work, packets, cache, sess, take, archives, store, released,
                 exports, trouble>>

-----------------------------------------------------------------------------
(* The export: approved rows in the order held-out first, theory first; a    *)
(* question family is released once, an overlong chat not at all.            *)
Ordered(rows) ==
  SetToSortSeq(rows, LAMBDA x, y :
    LET a == <<Heldness(x.job.split), IF x.job.task = "theory" THEN 0 ELSE 1, x.job.id>>
        b == <<Heldness(y.job.split), IF y.job.task = "theory" THEN 0 ELSE 1, y.job.id>>
    IN  a[1] < b[1] \/ (a[1] = b[1] /\ (a[2] < b[2] \/ (a[2] = b[2] /\ a[3] < b[3]))))

(* Blocks, exam families or sources that cross the splits stop the export.   *)
Leak(rows) ==
  \/ \E x \in rows : \E c \in x.job.ctxs : c.split # x.job.split
  \/ \E x, y \in rows : /\ x.job.split # y.job.split
                        /\ \E c \in x.job.ctxs, d \in y.job.ctxs : c.group = d.group
  \/ \E x, y \in rows : /\ x.job.task = "enrich" /\ y.job.task = "enrich"
                        /\ x.job.group = y.job.group /\ x.job.split # y.job.split

Selected(rows) ==
  FoldLeft(LAMBDA sel, x :
             IF (\E i \in 1..Len(sel) : sel[i].draft.prompt = x.draft.prompt)
                \/ x.job.id \in work.long
             THEN sel ELSE Append(sel, x),
           <<>>, Ordered(rows))

(* Mutant: held-out theory counts for the cap too. *)
CapOfAll(sel) == Len(SelectSeq(sel, LAMBDA x : x.job.task = "theory")) \div TheoryPerEnrich
Cap(sel) ==
  Len(SelectSeq(sel, LAMBDA x : x.job.task = "theory" /\ x.job.split = "train")) \div TheoryPerEnrich

Release(rows) ==
  LET sel == Selected(rows)
      enrich == SelectSeq(sel, LAMBDA x : x.job.task = "enrich" /\ x.job.split = "train")
      aux == Range(SubSeq(enrich, Cap(sel) + 1, Len(enrich)))
      main == Range(sel) \ aux
      Of(s) == { x \in main : x.job.split = s }
      theory == { x \in Of("train") : x.job.task = "theory" }
  IN  [main |-> main, auxiliary |-> aux,
       ready |-> /\ \A s \in Splits : Of(s) # {}
                 /\ Cardinality(theory) * (TheoryPerEnrich + 1)
                      >= TheoryPerEnrich * Cardinality(Of("train"))]

(* One export at a time; it works on the rows it has read in one transaction, *)
(* and nothing else reads or writes what it writes.                           *)
ExportApproved ==
  LET rows == { x \in Rows : x.verified }
  IN  /\ work # NoWork /\ exports < MaxExports /\ rows # {}
      /\ released' = IF Leak(rows) THEN released ELSE Release(rows)
      /\ exports' = exports + 1
      /\ UNCHANGED <<work, packets, cache, sess, take, archives, store, reviews, desk, trouble>>

-----------------------------------------------------------------------------
Init ==
  /\ work = NoWork /\ packets = [p \in {} |-> <<>>] /\ cache = [p \in {} |-> <<>>]
  /\ sess = NoSession /\ take = 0 /\ archives = {}
  /\ store = [id \in {} |-> <<>>] /\ reviews = <<>> /\ desk = NoDecision
  /\ released = [main |-> {}, auxiliary |-> {}, ready |-> FALSE]
  /\ exports = 0 /\ trouble = 0

Session ==
  \/ \E p \in DOMAIN packets \cap DOMAIN Used, retry \in BOOLEAN : Open(p, retry)
  \/ StrictJob \/ NextBatch \/ OutOfMemory \/ DraftAnswer \/ FinishUnaudited
  \/ NextPhase \/ AuditAnswer \/ EndBatch \/ Close \/ Deadline \/ Lost
Desk ==
  \/ \E a \in archives : Import(a)
  \/ \E id \in DOMAIN store :
       \/ \E decision \in Decisions : Decide(id, decision, NoDraft)
       \/ \E d \in Drafts[JobOf(id).task] : Decide(id, "correct", d)
  \/ Record \/ ExportApproved
Next ==
  \/ \E corpus \in Corpora : Prepare(corpus)
  \/ \E policy \in {"strict", "fast"} : Package(policy)
  \/ Session \/ Desk

Spec == Init /\ [][Next]_vars

-----------------------------------------------------------------------------
TypeOK ==
  /\ DOMAIN cache = DOMAIN packets /\ DOMAIN store \subseteq { j.id : j \in Range(work.jobs) }
  /\ \A p \in DOMAIN cache : \A id \in DOMAIN cache[p] :
       cache[p][id].status \in Done \cup {"pending_audit"} /\ cache[p][id].job = id
  /\ \A a \in archives : \A r \in a.results : r.status \in Done
  /\ \A x \in released.main \cup released.auxiliary : x.verified

(* What leaves for training was solved: the released draft is sound, an      *)
(* enrichment has the key of its source, and unless a fast result had no     *)
(* reason to be audited both blind solutions found the very key that is      *)
(* released - whatever was interrupted, resumed, imported or corrected.      *)
Risky(x) ==
  \/ x.result.policy = "strict" \/ x.job.multi \/ x.job.related
  \/ x.job.task = "enrich" /\ x.job.weak
  \/ x.result.draft.numeric \/ x.job.id \in work.sample
ReleasedKeyIsSolved ==
  \A x \in released.main \cup released.auxiliary :
    /\ x.draft.sound /\ (x.job.task = "enrich" => x.draft.key = x.job.key)
    /\ Risky(x) => x.result.checks = <<x.draft.key, x.draft.key>> /\ x.result.critic = "good"

(* Rows of different splits of a release share no question family, no page   *)
(* block and no nearly equal theory.                                         *)
HeldOutStaysApart ==
  \A x, y \in released.main : x.job.split # y.job.split =>
    /\ x.draft.prompt # y.draft.prompt
    /\ \A c \in x.job.ctxs, d \in y.job.ctxs :
         c.block # d.block /\ {c.id, d.id} \notin work.alike

(* The train split never holds more enrichment than the share allows.        *)
TheoryDominates ==
  LET Train(t) == { x \in released.main : x.job.split = "train" /\ x.job.task = t }
  IN  Cardinality(Train("enrich")) * TheoryPerEnrich <= Cardinality(Train("theory"))

(* A lost session, a deadline or a resumed audit does not turn a job into a  *)
(* blocked one: a blocked result has a fault, a draft that fails its gate, a *)
(* solution other than the key, or a critic that refused.  The one exception *)
(* the code has is a draft that needs no audit and whose session was lost    *)
(* between its two saves: the next session audits it, and the checks refuse  *)
(* an audit nobody asked for.                                                *)
CutBeforeFinish(p, r) ==
  r.policy = "fast" /\ AuditReasons(ById(p, r.job), r.draft) = {} /\ r.critic # "none"
Caused(p, r) ==
  \/ r.error = "fault" \/ ~ValidDraft(ById(p, r.job), r.draft)
  \/ \E i \in 1..Len(r.checks) : r.checks[i] # r.draft.key
  \/ r.critic = "bad"
BlockedForCause ==
  \A p \in DOMAIN cache : \A id \in DOMAIN cache[p] :
    cache[p][id].status = "blocked" => Caused(p, cache[p][id]) \/ CutBeforeFinish(p, cache[p][id])

(* What is released is solved, apart from what is held out, and mostly       *)
(* theory; what is blocked has a cause.                                      *)
ReleaseIsSound ==
  /\ TypeOK
  /\ ReleasedKeyIsSolved
  /\ HeldOutStaysApart
  /\ TheoryDominates
  /\ BlockedForCause

(* A generated or blocked result is not generated again by a later session.  *)
ResultsAreFinal ==
  [][\A p \in DOMAIN cache : \A id \in DOMAIN cache[p] :
       cache[p][id].status \in {"generated", "blocked"} => cache'[p][id] = cache[p][id]]_vars

(* Importing never brings a result back over a newer one.                    *)
NewResultOnTop ==
  [][\A id \in DOMAIN store : store'[id] # store[id] => Last(store'[id]) \notin Range(store[id])]_vars

(* A review is recorded for the latest result only, also when an import      *)
(* commits while the reviewer decides.                                       *)
ReviewsTheLatest ==
  [][reviews' # reviews => Last(reviews').result = Last(store[Last(reviews').result.job])]_vars

(* A result is exported on its own latest review: a newer result does not    *)
(* inherit the approval of the one it replaces.                              *)
ApprovalIsItsOwn ==
  [][\A x \in (released'.main \cup released'.auxiliary) \ (released.main \cup released.auxiliary) :
       LET mine == { i \in 1..Len(reviews) : reviews[i].result = x.result }
       IN  mine # {} /\ reviews[Max(mine)].decision \in {"approve", "correct"}]_vars

(* A result, once there, is neither generated again nor brought back over a  *)
(* newer one, and each review and export is of the latest.                   *)
ReviewsAreCurrent ==
  ResultsAreFinal /\ NewResultOnTop /\ ReviewsTheLatest /\ ApprovalIsItsOwn
=============================================================================
