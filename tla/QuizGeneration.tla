-------------------------- MODULE QuizGeneration --------------------------
(***************************************************************************)
(* The generation of one quiz: the Spring handler that asks rag-service    *)
(* for one batch of questions at a time and keeps a checkpoint in the job  *)
(* row (QuizGenerationHandler, QuizGenerationCheckpoint), the validation   *)
(* of a batch in rag-service (GroundedQuizService) behind its NDJSON       *)
(* stream (v2.py, RagClient), the commit of the questions                  *)
(* (QuizGenerationCommitService, QuestionService), and what the owner and  *)
(* an administrator may do meanwhile (QuizService, AdminService).          *)
(*                                                                         *)
(* The queue is JobQueue's, cut down to what a generation sees of it: a    *)
(* claim, a lease that expires although its worker is alive, a worker that *)
(* dies, and the four ways a run is settled.  The model provider is        *)
(* QuizRouter's: it answers a request for slots with one question for      *)
(* each of them, in any order, or it fails.                                *)
(***************************************************************************)
EXTENDS Integers, Sequences, FiniteSets, Functions, SequencesExt

CONSTANTS
  Workers,           \* worker processes
  Plan,              \* request -> sequence of batches, each a sequence of slots
  Prompts,           \* prompts up to the code's near-duplicate relation
  Drafts,            \* slot -> questions the model may write for it
  BatchMaxAttempts,  \* bkquiz.quiz.batch-max-attempts
  MaxFaults,         \* bound: workers that die, leases that expire under a run
  MaxRequests        \* bound: what people ask for after the first request

\* The first request for the quiz, one with new settings after a failure, and
\* one for more questions; the payload of RETRY also says CREATE.
Ops == {"CREATE", "RETRY", "APPEND"}
\* A question is what the checks of rag-service tell apart: its slot, its
\* prompt, whether its answers and type are right (sound), what became of its
\* citations (valid; missing: some role has none that a source supports; split:
\* one matched a passage that is not found again in its source) and whether it
\* has the cognitive level asked for (fits).
CitationOutcomes == {"valid", "missing", "split"}
Question == [slot : DOMAIN Drafts, prompt : Prompts, sound : BOOLEAN,
             cites : CitationOutcomes, fits : BOOLEAN]

\* No batch is empty, and a slot is a place in the plan of the whole quiz.
ASSUME PlanAssumption ==
  /\ DOMAIN Plan = Ops
  /\ \A op \in Ops : Plan[op] \in Seq(Seq(DOMAIN Drafts)) /\ Plan[op] # <<>>
  /\ \A op \in Ops : \A b \in DOMAIN Plan[op] :
       Plan[op][b] # <<>> /\ IsInjective(Plan[op][b])
  /\ \A s \in DOMAIN Drafts : Drafts[s] \subseteq {q \in Question : q.slot = s}
  /\ IsFiniteSet(Workers) /\ BatchMaxAttempts \in Nat \ {0}
  /\ MaxFaults \in Nat /\ MaxRequests \in Nat

VARIABLES
  quiz,     \* row of `quizzes` with its questions in order
  job,      \* the generation jobs of the quiz, the latest one last
  run,      \* what every worker is doing
  index,    \* how often the sources were indexed (their fingerprint)
  budget,   \* what is left of the bounds
  spoiled   \* history: two generations worked on the quiz at once, see Crossed

vars == <<quiz, job, run, index, budget, spoiled>>

Jobs == {1, 2}
Active == {"QUEUED", "RETRY", "RUNNING"}
NoCheckpoint == [print |-> -1, batches |-> <<>>]
NoResult == [questions |-> <<>>, warned |-> FALSE]
Idle == [pc |-> "idle", job |-> 0, attempts |-> 0, step |-> "later",
         cp |-> NoCheckpoint, batch |-> 0, output |-> <<>>, repaired |-> FALSE,
         outcome |-> "none"]

\* Job's constructor; `existing` are the prompts the payload carries.
\* step "queued": current_step is QUEUED and there is no error code, "refused":
\* QUEUED with an error code, "later": any other step.
NewJob(op, existing) ==
  [status |-> "QUEUED", op |-> op, attempts |-> 0, step |-> "queued",
   cp |-> NoCheckpoint, existing |-> existing, cancelled |-> FALSE]
Absent == [NewJob("CREATE", {}) EXCEPT !.status = "ABSENT"]

\* uq_jobs_active_quiz_generation: no other generation of the quiz is active.
SoleActive(j) == \A i \in Jobs \ {j} : job[i].status \notin Active

\* QuizService.maxJobAttempts
MaxJobAttempts(op) == Len(Plan[op]) * BatchMaxAttempts

Init ==
  /\ quiz = [status |-> "QUEUED", content |-> <<>>, warned |-> FALSE, based |-> {}]
  /\ job = [j \in Jobs |-> IF j = 1 THEN NewJob("CREATE", {}) ELSE Absent]
  /\ run = [w \in Workers |-> Idle]
  /\ index = 0
  /\ budget = [faults |-> MaxFaults, requests |-> MaxRequests]
  /\ spoiled = FALSE

-----------------------------------------------------------------------------
(* QuizGenerationCheckpoint: pure functions on the saved document.          *)

Questions(cp) ==
  UNION {Range(cp.batches[b].result.questions) : b \in DOMAIN cp.batches}

NewCheckpoint(op) ==
  [print |-> index,
   batches |-> [b \in DOMAIN Plan[op] |->
                 [attempts |-> 0, done |-> FALSE, partial |-> <<>>,
                  result |-> NoResult]]]

Incomplete(cp) == {b \in DOMAIN cp.batches : ~cp.batches[b].done}
\* nextIncompleteIndex: the first batch without a result, 0 when all have one.
NextIncomplete(cp) ==
  IF Incomplete(cp) = {} THEN 0
  ELSE CHOOSE b \in Incomplete(cp) : \A c \in Incomplete(cp) : b <= c

\* Counted up to BatchMaxAttempts, all that is ever compared with it.
RecordAttempt(cp, b) ==
  [cp EXCEPT !.batches[b].attempts = IF @ = BatchMaxAttempts THEN @ ELSE @ + 1]
Partial(cp, b, questions) == [cp EXCEPT !.batches[b].partial = questions]
Complete(cp, b, result) ==
  [cp EXCEPT !.batches[b].done = TRUE, !.batches[b].result = result,
             !.batches[b].partial = <<>>]

\* Mutant: the reset forgets the batches that are already done.
ResetEverything(cp) ==
  [cp EXCEPT !.batches = [b \in DOMAIN @ |->
     [attempts |-> 0, done |-> FALSE, partial |-> @[b].partial, result |-> NoResult]]]
\* resetIncompleteAttempts: the partial questions stay.
ResetIncomplete(cp) ==
  [cp EXCEPT !.batches = [b \in DOMAIN cp.batches |->
     IF cp.batches[b].done THEN cp.batches[b]
     ELSE [cp.batches[b] EXCEPT !.attempts = 0]]]

\* readCheckpoint: a checkpoint of other sources is replaced by the plan.
ReadCheckpoint(cp, op) ==
  IF cp # NoCheckpoint /\ cp.print = index THEN cp ELSE NewCheckpoint(op)

-----------------------------------------------------------------------------
(* GroundedQuizService: a batch of questions and the plan it was asked for. *)

Slots(questions) == {questions[i].slot : i \in DOMAIN questions}

\* generate: the part of the plan that the accepted questions leave open.
MissingSlots(plan, accepted) ==
  {plan[i] : i \in DOMAIN plan} \ Slots(accepted)

\* What the router answers: QuizRouter!AnswersThePlan.
Replies(missing) ==
  {[i \in 1..Cardinality(missing) |-> written[order[i]]] :
     written \in {f \in [missing -> UNION {Drafts[s] : s \in missing}] :
                    \A s \in missing : f[s] \in Drafts[s]},
     order \in {o \in [1..Cardinality(missing) -> missing] :
                    \A a, b \in DOMAIN o : o[a] = o[b] => a = b}}

\* _order_questions_by_plan
InPlanOrder(output, plan) ==
  [i \in DOMAIN plan |-> CHOOSE q \in Range(output) : q.slot = plan[i]]

\* Mutant: the prompts of the quiz and of earlier batches are not looked at.
RepeatedInBatch(output, excluded, i) ==
  output[i].prompt \in {output[k].prompt : k \in 1..(i - 1)}
\* _validate_unique_prompts: by position in the output.
Repeated(output, excluded, i) ==
  \/ output[i].prompt \in excluded
  \/ output[i].prompt \in {output[k].prompt : k \in 1..(i - 1)}

\* _canonicalize_citations: by position in the output.
LacksCitation(output, i) == output[i].cites = "missing"
\* _citations: a canonical passage that its source does not contain.
Uncitable(q) == q.cites = "split"
\* _validate_answers
Unsound(q) == ~q.sound
\* _evaluate_cognitive
OffLevel(q) == ~q.fits

\* _build_questions: the warnings of the i-th question of the plan.  Those of
\* citations and prompts were counted in the order of the output.
Warned(output, plan, excluded, i) ==
  \/ OffLevel(InPlanOrder(output, plan)[i])
  \/ LacksCitation(output, i)
  \/ Repeated(output, excluded, i)

\* generate: the answer of a batch without a fault.
Result(output, plan, excluded) ==
  [questions |-> InPlanOrder(output, plan),
   warned |-> \E i \in DOMAIN plan : Warned(output, plan, excluded, i)]

\* _validate_answers, _citations: the questions, in the order of the plan,
\* that stop _build_questions.
Faults(output, plan) ==
  {i \in DOMAIN plan : LET q == InPlanOrder(output, plan)[i]
                       IN  Unsound(q) \/ Uncitable(q)}
FirstFault(output, plan) ==
  CHOOSE i \in Faults(output, plan) : \A k \in Faults(output, plan) : i <= k

\* generate: what follows from a look at the output.
Verdict(output, plan, repaired) ==
  IF Faults(output, plan) = {} THEN "result"
  ELSE IF Unsound(InPlanOrder(output, plan)[FirstFault(output, plan)]) THEN "invalid"
  ELSE IF repaired THEN "uncitable" ELSE "repair"

\* The repair asks for new citations of the question at that place of the
\* output, and refuses an answer that changed anything else.
SameContent(q) == {[q EXCEPT !.cites = c] : c \in CitationOutcomes}

-----------------------------------------------------------------------------
(* A run of the handler.                                                    *)

Op(w) == job[run[w].job].op
BatchPlan(w) == Plan[Op(w)][run[w].batch]
\* QuizGenerationHandler.excludedPrompts
Excluded(w) == job[run[w].job].existing \union
               {q.prompt : q \in Questions(run[w].cp)}

\* JobService.checkpoint: the row is written whoever runs the job now.
Save(w, cp) == job' = [job EXCEPT ![run[w].job].cp = cp]
GoTo(w, pc) == run' = [run EXCEPT ![w].pc = pc]
\* What a run still needs once its checkpoint is saved: who it is.
Settling(w, pc, outcome) ==
  run' = [run EXCEPT ![w] = [Idle EXCEPT !.pc = pc, !.job = run[w].job,
                                         !.attempts = run[w].attempts,
                                         !.outcome = outcome]]
EndRun(w) == run' = [run EXCEPT ![w] = Idle]
\* A handler that throws; "retry": the job may try again, "final": it may not.
Throw(w, outcome) == Settling(w, "failing", outcome)

\* Any change of the quiz row or of its questions ages the base of an append.
Changed(q) == [q EXCEPT !.based = {}]

\* Mutant: the attempts of a claimed job have no limit.
OfferedJob(j) == job[j].status \in {"QUEUED", "RETRY"}
\* A claim that exceeds the attempts breaks ck_jobs_attempts.
CanClaim(j) == /\ job[j].status \in {"QUEUED", "RETRY"}
               /\ job[j].attempts < MaxJobAttempts(job[j].op)
Claim(w, j) ==
  /\ run[w].pc = "idle" /\ CanClaim(j)
  /\ job' = [job EXCEPT ![j].status = "RUNNING", ![j].attempts = @ + 1]
  /\ run' = [run EXCEPT ![w] =
               [Idle EXCEPT !.pc = "begin", !.job = j, !.attempts = job'[j].attempts,
                            !.step = job[j].step, !.cp = job[j].cp]]
  /\ UNCHANGED <<quiz, index, budget>>

\* QuizService.markGenerating, then progress; an archived quiz is not found.
CanGenerate == quiz.status \in {"QUEUED", "FAILED", "GENERATING"}
Begin(w) ==
  /\ run[w].pc = "begin"
  /\ IF Op(w) # "APPEND" /\ ~CanGenerate
     THEN Throw(w, "retry") /\ UNCHANGED <<quiz, job>>
     ELSE /\ quiz' = IF Op(w) # "APPEND" /\ quiz.status # "GENERATING"
                     THEN Changed([quiz EXCEPT !.status = "GENERATING"]) ELSE quiz
          /\ job' = [job EXCEPT ![run[w].job].step = "later"]
          /\ GoTo(w, "attempt")
  /\ UNCHANGED <<index, budget>>

\* The rest of handle up to the request: the checkpoint is read from the row
\* as it was claimed, an owner's retry starts counting anew, and the attempt
\* is saved before the model is asked.
OpenCheckpoint(w) ==
  LET cp == ReadCheckpoint(run[w].cp, Op(w))
  IN  IF run[w].cp # NoCheckpoint /\ run[w].step = "queued"
      THEN ResetIncomplete(cp) ELSE cp
Attempt(w) ==
  /\ run[w].pc = "attempt"
  /\ LET cp == OpenCheckpoint(w)
         b == NextIncomplete(cp)
     IN  IF b = 0
         THEN /\ Save(w, cp)
              /\ run' = [run EXCEPT ![w].pc = "commit", ![w].cp = cp, ![w].step = "later"]
         ELSE /\ Save(w, RecordAttempt(cp, b))
              /\ run' = [run EXCEPT ![w].pc = "call", ![w].batch = b, ![w].step = "later",
                           ![w].cp = RecordAttempt(cp, b)]
  /\ UNCHANGED <<quiz, index, budget>>

\* requireQuizGenerationContract fails before the attempt is counted.
ContractFails(w) ==
  /\ run[w].pc = "attempt" /\ NextIncomplete(OpenCheckpoint(w)) # 0
  /\ Throw(w, "retry")
  /\ UNCHANGED <<quiz, job, index, budget>>

\* rag-service answers STRUCTURED_OUTPUT_CHECKPOINT as soon as the provider
\* has answered; the handler saves it.  With nothing missing no provider is
\* asked and no such event is sent.
Reply(w) ==
  LET accepted == run[w].cp.batches[run[w].batch].partial
      missing == MissingSlots(BatchPlan(w), accepted) IN
  /\ run[w].pc = "call"
  /\ \E reply \in Replies(missing) :
       LET output == accepted \o reply
           cp == IF missing = {} THEN run[w].cp
                 ELSE Partial(run[w].cp, run[w].batch, output)
       IN  /\ run' = [run EXCEPT ![w].pc = "check", ![w].output = output,
                                 ![w].cp = cp]
           /\ IF missing = {} THEN UNCHANGED job ELSE Save(w, cp)
  /\ UNCHANGED <<quiz, index, budget>>

\* The end of a failed batch in generateOneBatch: the failure is saved, and a
\* retryable one is final once the batch has used its attempts.
FailBatch(w, cp, retryable) ==
  /\ Save(w, cp)
  /\ Throw(w, IF retryable /\ cp.batches[run[w].batch].attempts < BatchMaxAttempts
              THEN "retry" ELSE "final")

\* No context, no provider, a refusal, a broken stream or a timeout.
CallFails(w, retryable) ==
  /\ run[w].pc \in {"call", "check"}
  /\ FailBatch(w, run[w].cp, retryable)
  /\ UNCHANGED <<quiz, index, budget>>

\* The output passes: RESULT is streamed and the batch is saved as complete.
Accept(w) ==
  LET cp == Complete(run[w].cp, run[w].batch,
                     Result(run[w].output, BatchPlan(w), Excluded(w))) IN
  /\ run[w].pc = "check"
  /\ Verdict(run[w].output, BatchPlan(w), run[w].repaired) = "result"
  /\ Save(w, cp)
  /\ IF NextIncomplete(cp) # 0 THEN Settling(w, "defer", "none")
     ELSE run' = [run EXCEPT ![w].pc = "commit", ![w].cp = cp, ![w].output = <<>>,
                             ![w].repaired = FALSE, ![w].batch = 0]
  /\ UNCHANGED <<quiz, index, budget>>

\* An answer of the wrong shape ends the batch; the checkpoint keeps it.
Reject(w) ==
  /\ run[w].pc = "check"
  /\ Verdict(run[w].output, BatchPlan(w), run[w].repaired) = "invalid"
  /\ FailBatch(w, run[w].cp, TRUE)
  /\ UNCHANGED <<quiz, index, budget>>

\* The place of the fault, counted in the plan, is used in the output.
Repair(w) ==
  LET i == FirstFault(run[w].output, BatchPlan(w)) IN
  /\ run[w].pc = "check"
  /\ Verdict(run[w].output, BatchPlan(w), run[w].repaired) = "repair"
  /\ \E q \in SameContent(run[w].output[i]) :
       run' = [run EXCEPT ![w].repaired = TRUE, ![w].output = [@ EXCEPT ![i] = q]]
  /\ UNCHANGED <<quiz, job, index, budget>>

\* A second failure: CITATION_CHECKPOINT keeps the other questions.
GiveUpCitations(w) ==
  LET i == FirstFault(run[w].output, BatchPlan(w))
      kept == [k \in 1..(Len(run[w].output) - 1) |->
                 run[w].output[IF k < i THEN k ELSE k + 1]] IN
  /\ run[w].pc = "check"
  /\ Verdict(run[w].output, BatchPlan(w), run[w].repaired) = "uncitable"
  /\ FailBatch(w, Partial(run[w].cp, run[w].batch, kept), TRUE)
  /\ UNCHANGED <<quiz, index, budget>>

-----------------------------------------------------------------------------
(* The end of a run: commit, then the transaction that settles the job.     *)

Aggregate(w) ==
  LET result(b) == run[w].cp.batches[b].result.questions
  IN  FlattenSeq([b \in DOMAIN run[w].cp.batches |->
        [k \in DOMAIN result(b) |-> [job |-> run[w].job, question |-> result(b)[k]]]])
AggregateWarned(w) ==
  \E b \in DOMAIN run[w].cp.batches : run[w].cp.batches[b].result.warned

\* replaceGroundedAndComplete: no status is asked, only that the quiz is there.
CommitCreate(w) ==
  /\ run[w].pc = "commit" /\ Op(w) # "APPEND"
  /\ IF quiz.status = "ARCHIVED"
     THEN Throw(w, "retry") /\ UNCHANGED quiz
     ELSE /\ quiz' = [status |-> "READY", content |-> Aggregate(w),
                      warned |-> AggregateWarned(w), based |-> {}]
          /\ Settling(w, "succeed", "none")
  /\ UNCHANGED <<job, index, budget>>

\* appendGroundedAndComplete: under the row lock the quiz must be the one the
\* request was made for.
\* Mutant: the base is not compared.
AppendAnyway(w) == TRUE
BaseIsCurrent(w) == run[w].job \in quiz.based
CommitAppend(w) ==
  /\ run[w].pc = "commit" /\ Op(w) = "APPEND"
  /\ IF quiz.status = "ARCHIVED" THEN Throw(w, "retry") /\ UNCHANGED quiz
     ELSE IF ~BaseIsCurrent(w) THEN Throw(w, "final") /\ UNCHANGED quiz
     ELSE /\ quiz' = Changed([quiz EXCEPT !.content = @ \o Aggregate(w),
                                          !.warned = @ \/ AggregateWarned(w)])
          /\ Settling(w, "succeed", "none")
  /\ UNCHANGED <<job, index, budget>>

Succeed(w) ==
  /\ run[w].pc = "succeed"
  /\ job' = [job EXCEPT ![run[w].job].status = "SUCCEEDED",
                        ![run[w].job].step = "later",
                        ![run[w].job].cp = NoCheckpoint]
  /\ EndRun(w)
  /\ UNCHANGED <<quiz, index, budget>>

\* A late worker may find another generation active: its own stays as it is.
Defer(w) ==
  LET j == run[w].job IN
  /\ run[w].pc = "defer"
  /\ job' = IF SoleActive(j)
            THEN [job EXCEPT ![j].status = "RETRY",
                             ![j].attempts = IF @ = 0 THEN 0 ELSE @ - 1]
            ELSE job
  /\ EndRun(w)
  /\ UNCHANGED <<quiz, index, budget>>

\* processWithTrace: a creation that ends for good fails its quiz first.  An
\* archived quiz is not found there, and the exception leaves the job RUNNING.
\* Mutant: the quiz is told only of failures that are final by themselves.
EndsByOutcome(w) == run[w].outcome = "final"
EndsForGood(w) ==
  run[w].outcome = "final" \/ run[w].attempts >= MaxJobAttempts(Op(w))
\* Mutant: a failed append fails the quiz, too.
TellsQuizAlways(w) == EndsForGood(w)
TellsQuiz(w) == Op(w) # "APPEND" /\ EndsForGood(w)
MarkFailed(w) ==
  /\ run[w].pc = "failing"
  /\ IF TellsQuiz(w)
     THEN IF quiz.status = "ARCHIVED" THEN EndRun(w) /\ UNCHANGED quiz
          ELSE quiz' = Changed([quiz EXCEPT !.status = "FAILED"]) /\ GoTo(w, "fail")
     ELSE GoTo(w, "fail") /\ UNCHANGED quiz
  /\ UNCHANGED <<job, index, budget>>

Fail(w) ==
  LET j == run[w].job
      final == run[w].outcome = "final" \/ job[j].attempts >= MaxJobAttempts(job[j].op) IN
  /\ run[w].pc = "fail"
  /\ job' = IF final \/ SoleActive(j)
            THEN [job EXCEPT ![j].status = IF final THEN "FAILED" ELSE "RETRY",
                             ![j].step = IF @ = "queued" THEN "refused" ELSE @]
            ELSE job
  /\ EndRun(w)
  /\ UNCHANGED <<quiz, index, budget>>

-----------------------------------------------------------------------------
(* Workers that die and leases that expire.                                 *)

Running(j) == {w \in Workers : run[w].job = j}

Crash(w) ==
  /\ run[w].pc # "idle" /\ budget.faults > 0
  /\ budget' = [budget EXCEPT !.faults = @ - 1]
  /\ EndRun(w)
  /\ UNCHANGED <<quiz, job, index>>

\* reclaimStale; nothing renews the heartbeat of a job that runs.
Reclaim(j) ==
  /\ job[j].status = "RUNNING"
  /\ Running(j) = {} \/ budget.faults > 0
  /\ budget' = IF Running(j) = {} THEN budget
               ELSE [budget EXCEPT !.faults = @ - 1]
  /\ job' = [job EXCEPT ![j].status = "RETRY"]
  /\ UNCHANGED <<quiz, run, index>>

-----------------------------------------------------------------------------
(* The owner and the administrator.                                         *)

Latest == IF job[2].status = "ABSENT" THEN 1 ELSE 2
HasActiveGeneration == \E j \in Jobs : job[j].status \in Active
AskFor == /\ budget.requests > 0
          /\ budget' = [budget EXCEPT !.requests = @ - 1]

CanPublish == quiz.status \in {"DRAFT", "READY"}
Publish ==
  /\ CanPublish /\ Len(quiz.content) > 0
  /\ quiz' = Changed([quiz EXCEPT !.status = "PUBLISHED"])
  /\ UNCHANGED <<job, run, index, budget>>

\* QuestionService.create, update, importQuestions and reorder.
Edit ==
  /\ quiz.status \in {"DRAFT", "READY", "PUBLISHED"} /\ ~HasActiveGeneration
  /\ quiz' = Changed(quiz)
  /\ UNCHANGED <<job, run, index, budget>>

Delete ==
  /\ quiz.status # "ARCHIVED"
  /\ AskFor
  /\ quiz' = Changed([quiz EXCEPT !.status = "ARCHIVED"])
  /\ UNCHANGED <<job, run, index>>

AppendGeneration ==
  /\ job[2].status = "ABSENT"
  /\ quiz.status \in {"DRAFT", "READY"} /\ ~HasActiveGeneration
  /\ AskFor
  /\ job' = [job EXCEPT ![2] =
               NewJob("APPEND", {quiz.content[i].question.prompt :
                                   i \in DOMAIN quiz.content})]
  /\ quiz' = [quiz EXCEPT !.based = {2}]
  /\ UNCHANGED <<run, index>>

\* A new job with a new payload.
Retry ==
  /\ job[2].status = "ABSENT" /\ quiz.status = "FAILED" /\ SoleActive(2)
  /\ AskFor
  /\ job' = [job EXCEPT ![2] = NewJob("RETRY", {})]
  /\ quiz' = Changed([quiz EXCEPT !.status = "QUEUED"])
  /\ UNCHANGED <<run, index>>

\* Job.retryByOwner: the same job, with its checkpoint.
RetryLast ==
  LET j == Latest IN
  /\ quiz.status \in (IF job[j].op = "APPEND" THEN {"DRAFT", "READY"} ELSE {"FAILED"})
  /\ job[j].status = "FAILED" /\ SoleActive(j)
  /\ AskFor
  /\ job' = [job EXCEPT ![j].status = "RETRY", ![j].attempts = 0,
                        ![j].step = "queued", ![j].cancelled = FALSE]
  /\ quiz' = IF job[j].op = "APPEND" THEN quiz
             ELSE Changed([quiz EXCEPT !.status = "QUEUED"])
  /\ UNCHANGED <<run, index>>

AdminRetry(j) ==
  /\ job[j].status = "FAILED" /\ SoleActive(j)
  /\ AskFor
  /\ job' = [job EXCEPT ![j].status = "RETRY", ![j].cancelled = FALSE,
                        ![j].step = IF @ = "refused" THEN "queued" ELSE @]
  /\ UNCHANGED <<quiz, run, index>>

\* cancelJob does not touch the quiz.
AdminCancel(j) ==
  /\ job[j].status \in {"QUEUED", "RETRY"}
  /\ AskFor
  /\ job' = [job EXCEPT ![j].status = "FAILED", ![j].cancelled = TRUE,
                        ![j].step = IF @ = "queued" THEN "refused" ELSE @]
  /\ UNCHANGED <<quiz, run, index>>

\* A source is indexed again: its ID, time and chunk count are in the
\* fingerprint of the checkpoint.
Reindex ==
  /\ AskFor
  /\ index' = index + 1
  /\ UNCHANGED <<quiz, job, run>>

-----------------------------------------------------------------------------
Step(w) ==
  \/ Begin(w) \/ Attempt(w) \/ ContractFails(w)
  \/ Reply(w) \/ (\E retryable \in BOOLEAN : CallFails(w, retryable))
  \/ Accept(w) \/ Reject(w) \/ Repair(w) \/ GiveUpCitations(w)
  \/ CommitCreate(w) \/ CommitAppend(w) \/ Succeed(w) \/ Defer(w)
  \/ MarkFailed(w) \/ Fail(w)

Person ==
  \/ Reindex \/ Publish \/ Edit \/ Delete \/ AppendGeneration \/ Retry \/ RetryLast
  \/ (\E j \in Jobs : AdminRetry(j) \/ AdminCancel(j))

\* Two generations at work on the quiz: two live runs, or an active creation
\* that nobody runs although the quiz is ready.
Settled == {"READY", "PUBLISHED"}
Crossed ==
  \/ Cardinality({w \in Workers : run[w].pc # "idle"}) > 1
  \/ \E j \in Jobs : /\ job[j].op # "APPEND" /\ job[j].status \in Active
                     /\ Running(j) = {} /\ quiz.status \in Settled

Track == spoiled' = (spoiled \/ Crossed')

Next ==
  /\ \/ \E w \in Workers : Step(w) \/ Crash(w) \/ \E j \in Jobs : Claim(w, j)
     \/ \E j \in Jobs : Reclaim(j)
     \/ Person
  /\ Track

\* Worker threads poll, the HTTP client and rag-service time out, and the
\* sweep for stale leases is scheduled.
Fairness ==
  /\ \A w \in Workers : WF_vars(Step(w) /\ Track)
  /\ \A j \in Jobs : WF_vars((\E w \in Workers : Claim(w, j)) /\ Track)
  /\ \A j \in Jobs : WF_vars(Running(j) = {} /\ Reclaim(j) /\ Track)

Spec == Init /\ [][Next]_vars /\ Fairness

-----------------------------------------------------------------------------
(* Properties.                                                              *)

AllQuestions == UNION {Drafts[s] \union UNION {SameContent(q) : q \in Drafts[s]} :
                         s \in DOMAIN Drafts}
Checkpoints == {job[j].cp : j \in Jobs} \union {run[w].cp : w \in Workers}

(* Types of the rows, the runs and the checkpoints.                         *)
TypeOK ==
  /\ quiz.status \in {"QUEUED", "GENERATING", "READY", "PUBLISHED", "FAILED", "ARCHIVED"}
  /\ quiz.warned \in BOOLEAN /\ quiz.based \subseteq Jobs
  /\ \A i \in DOMAIN quiz.content : quiz.content[i].question \in AllQuestions
  /\ \A j \in Jobs :
       /\ job[j].status \in Active \union {"ABSENT", "SUCCEEDED", "FAILED"}
       /\ job[j].attempts \in 0..MaxJobAttempts(job[j].op)
       /\ job[j].step \in {"queued", "refused", "later"}
  /\ \A w \in Workers :
       /\ run[w].job \in Jobs \union {0}
       /\ run[w].outcome \in {"none", "retry", "final"}
  /\ \A cp \in Checkpoints : \A b \in DOMAIN cp.batches :
       Range(cp.batches[b].partial) \subseteq AllQuestions
  /\ spoiled \in BOOLEAN

(* The questions of a quiz are whole plans: those of every job that wrote   *)
(* into it are the slots of its plan in their order, each once, and all of  *)
(* them passed the checks of rag-service.  Crashes between a commit and the *)
(* end of its job, expired leases and repeated runs never append a plan     *)
(* twice or leave half of one.                                              *)
SlotsOf(op) == FlattenSeq(Plan[op])
Written(j) == [i \in DOMAIN SlotsOf(job[j].op) |-> <<j, SlotsOf(job[j].op)[i]>>]
WholePlans ==
  /\ [i \in DOMAIN quiz.content |-> <<quiz.content[i].job, quiz.content[i].question.slot>>]
       \in {<<>>, Written(1), Written(2), Written(1) \o Written(2)}
  /\ \A i \in DOMAIN quiz.content :
       quiz.content[i].question.sound /\ quiz.content[i].question.cites # "split"

(* A quiz in which a question has no source for some role, is not of its    *)
(* level or repeats the prompt of another carries the status WARNING, in    *)
(* whatever batches, retries and appends the questions came.                *)
FlawsAreFlagged ==
  (\/ \E i \in DOMAIN quiz.content :
        LET q == quiz.content[i].question IN q.cites = "missing" \/ ~q.fits
   \/ \E i, k \in DOMAIN quiz.content :
        i # k /\ quiz.content[i].question.prompt = quiz.content[k].question.prompt)
  => quiz.warned

(* A quiz holds whole plans of checked questions and says where they are    *)
(* weak.                                                                    *)
QuizIsSound == TypeOK /\ WholePlans /\ FlawsAreFlagged

(* While one generation at a time works on a quiz, a batch that is complete *)
(* in the saved checkpoint stays as it is until the job ends or the sources *)
(* are indexed again: a crash, a retry and the owner's second try ask the   *)
(* model only for what is missing.                                          *)
CompleteBatchStays ==
  [][\A j \in Jobs : \A b \in DOMAIN job[j].cp.batches :
       (/\ ~spoiled' /\ job[j].cp.print = index /\ job[j].cp.batches[b].done
        /\ job'[j].status # "SUCCEEDED")
       => /\ b \in DOMAIN job'[j].cp.batches
          /\ job'[j].cp.batches[b] = job[j].cp.batches[b]]_vars

(* While one generation at a time works on a quiz, a ready or published     *)
(* quiz keeps its questions and is never made FAILED or READY again.        *)
ReadyQuizIsKept ==
  [][(~spoiled' /\ quiz.status \in Settled)
     => /\ quiz'.status \in {quiz.status, "PUBLISHED", "ARCHIVED"}
        /\ \A i \in DOMAIN quiz.content :
             i \in DOMAIN quiz'.content /\ quiz'.content[i] = quiz.content[i]]_vars

(* Neither a batch that is paid for nor a quiz that is ready is undone.     *)
WorkIsKept == CompleteBatchStays /\ ReadyQuizIsKept

(* Every generation ends, whatever the model answers and whichever workers  *)
(* die before the last attempt, unless its quiz is deleted under it; and a  *)
(* quiz that waits for its questions gets them or is FAILED, unless an      *)
(* administrator cancelled its job.  Two generations at once can undo each  *)
(* other's checkpoints for ever, so this is claimed for one at a time.      *)
Exhausted(j) == job[j].status = "RETRY" /\ ~CanClaim(j)
GenerationEnds ==
  /\ \A j \in Jobs : job[j].status \in Active ~>
       (job[j].status \notin Active \/ quiz.status = "ARCHIVED" \/ spoiled
        \/ Exhausted(j))
  /\ quiz.status \in {"QUEUED", "GENERATING"} ~>
       (quiz.status \notin {"QUEUED", "GENERATING"} \/ spoiled
        \/ \E j \in Jobs : job[j].cancelled \/ Exhausted(j))
=============================================================================
