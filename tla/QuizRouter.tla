---------------------------- MODULE QuizRouter ----------------------------
(***************************************************************************)
(* How rag-service gets the questions of one batch out of the language     *)
(* models: QuizLLMRouter walks an ordered list of providers, each behind a *)
(* circuit breaker with one half-open probe; the two Gemini providers ask  *)
(* for a batch part by part (at most two calls each, the second only for   *)
(* what is missing), Ollama asks with its own retries and splits a part in *)
(* two when the output was cut off.  Several requests of the asyncio       *)
(* process are in flight at once, share the breakers and the call          *)
(* semaphores, and may be cancelled at any await when Spring hangs up.     *)
(*                                                                         *)
(* A question is a record of what the code looks at here: the plan slot it *)
(* answers, its prompt up to the code's near-duplicate relation, and       *)
(* whether every citation names a source of the context.  Code between two *)
(* awaits is split into steps where that reads better; the other requests  *)
(* may only interleave more than they do in the program.                   *)
(***************************************************************************)
EXTENDS Naturals, Sequences, FiniteSets, SequencesExt, FiniteSetsExt

CONSTANTS
    Requests,       \* the generation requests the process may be serving
    Providers,      \* the provider names, in the order build_quiz_providers gives
    NSlots,         \* questions of the batch: plan slots 1..NSlots
    Prompts,        \* classes of near-equal prompts
    BatchSize,      \* [provider -> most questions of one part]
    Concurrency,    \* [provider -> calls it takes at once]
    MaxRetries,     \* OLLAMA_BATCH_MAX_RETRIES
    Threshold       \* LLM_CIRCUIT_BREAKER_FAILURE_THRESHOLD

VARIABLES
    circuit,        \* [provider -> its ProviderCircuitBreaker]
    holders,        \* [provider -> the requests inside its semaphore]
    req             \* [request -> the state of its generate_quiz call]

vars == <<circuit, holders, req>>

Names == Range(Providers)
Slots == 1..NSlots

ASSUME RouterAssumption ==
    /\ NSlots \in Nat \ {0}
    /\ Threshold \in Nat \ {0}
    /\ MaxRetries \in Nat
    /\ Providers \in Seq(Names) /\ IsInjective(Providers)
    /\ Names \subseteq {"gemini_api_key", "gemini_oauth", "ollama"}
    /\ BatchSize \in [Names -> Nat \ {0}]
    /\ Concurrency \in [Names -> Nat \ {0}]

----------------------------------------------------------------------------
(* Data                                                                     *)

Question == [slot : Slots, prompt : Prompts, cited : BOOLEAN]
QuestionSeqs(n) == UNION {[1..k -> Question] : k \in 0..n}

SlotsOf(qs) == {qs[i].slot : i \in DOMAIN qs}
PromptsOf(qs) == {qs[i].prompt : i \in DOMAIN qs}

(* LLMProviderError: the category as far as Spring is told of it (RETRYABLE *)
(* stands for AUTHENTICATION, QUOTA, TIMEOUT, UNAVAILABLE and               *)
(* RETRYABLE), whether the next provider may be tried, and whether   *)
(* the code is one of the two ..._REQUEST_INCOMPATIBLE codes.               *)
Error(category, eligible, incompatible) ==
    [category |-> category, eligible |-> eligible, incompatible |-> incompatible]

RETRYABLE == Error("RETRYABLE", TRUE, FALSE)

(* The codes GeminiService raises: its own breaker, its calls per minute, a *)
(* response without text, the HTTP errors and timeouts of the API.          *)
CircuitCodes == {"AI_SERVICE_TEMPORARILY_UNAVAILABLE"}
RateCodes == {"GEMINI_RATE_LIMITED", "GEMINI_USER_RATE_LIMITED"}
ResultCodes == {"GEMINI_SAFETY_BLOCKED", "GEMINI_EMPTY_RESPONSE"}
ApiCodes ==
    { "GEMINI_RATE_LIMITED", "GEMINI_QUOTA_EXHAUSTED", "GEMINI_API_AUTHENTICATION_FAILED",
      "GEMINI_MODEL_NOT_AVAILABLE", "GEMINI_API_REQUEST_INCOMPATIBLE",
      "GEMINI_TIMEOUT", "GEMINI_UNAVAILABLE" }

(* _map_service_error                                                       *)
MapServiceError(code) ==
    CASE code = "GEMINI_SAFETY_BLOCKED"           -> Error("SAFETY", FALSE, FALSE)
      [] code = "GEMINI_API_REQUEST_INCOMPATIBLE" -> Error("INVALID_REQUEST", TRUE, TRUE)
      [] OTHER                                    -> RETRYABLE

ApiKeyErrors ==
    {MapServiceError(c) : c \in CircuitCodes \cup RateCodes \cup ResultCodes \cup ApiCodes}

(* _raise_http_error of OAuth: a status outside its list of fallbacks ends  *)
(* the search.                                                              *)
HttpError(status) ==
    IF status = 400 THEN Error("INVALID_REQUEST", TRUE, TRUE)
    ELSE Error("RETRYABLE",
               status \in {401, 403, 404, 408, 429, 500, 502, 503, 504}, FALSE)

(* No credentials, a call that timed out, an HTTP error, a safety block.    *)
OAuthErrors ==
    {RETRYABLE, Error("SAFETY", FALSE, FALSE)} \cup {HttpError(s) : s \in {400, 403, 409, 503}}

(* _request of Ollama: a timeout or a 5xx, a 400, a body that is not JSON.  *)
OllamaErrors ==
    {RETRYABLE, Error("INVALID_REQUEST", FALSE, FALSE)}

ProviderErrors(p) ==
    CASE p = "gemini_api_key" -> ApiKeyErrors
      [] p = "gemini_oauth"   -> OAuthErrors
      [] p = "ollama"         -> OllamaErrors

(* Mutant: the category of the provider is passed on unmapped.              *)
OutcomeUnmapped(category) == category

(* _provider_service_error: the HTTP answer, retryable unless it is 422.    *)
Outcome(category) ==
    IF category \in {"SAFETY", "INVALID_REQUEST"} THEN "refused" ELSE "retryable"

(* _provider_parts: consecutive runs of at most size plan slots.            *)
Parts(size) ==
    [k \in 1..((NSlots + size - 1) \div size) |->
        {s \in Slots : (s - 1) \div size = k - 1}]

(* One loop of _generate_part (Ollama) or of _generate_parts (Gemini): the  *)
(* slots it must fill, the attempt it is in, what it accepted, and, while a *)
(* cut-off part is being split, the halves still to ask and what they gave. *)
Frame(slots) ==
    [slots |-> slots, attempt |-> 1, accepted |-> <<>>,
     groups |-> <<>>, recovered |-> <<>>, splitting |-> FALSE]

Missing(f) == f.slots \ SlotsOf(f.accepted)

(* A new call of generate_quiz of the provider starts from nothing.         *)
Fresh(q) == [q EXCEPT !.part = 1, !.frames = <<>>, !.questions = <<>>, !.prompts = {}]

(* The part loop of the provider p: the next part is begun, or its          *)
(* generate_quiz returns what the parts gave.                               *)
NextPart(q, p) ==
    LET parts == Parts(BatchSize[p]) IN
    IF q.part <= Len(parts)
    THEN [q EXCEPT !.pc = "waiting", !.frames = <<Frame(parts[q.part])>>]
    ELSE [q EXCEPT !.pc = "answered", !.frames = <<>>]

(* The call is over; only the answer is left of it.                         *)
Ended(q, outcome) ==
    [q EXCEPT !.pc = "done", !.outcome = outcome, !.errors = <<>>, !.at = 1,
              !.prompts = {}, !.part = 1, !.probing = FALSE]

Idle ==
    [pc |-> "idle", at |-> 1, part |-> 1, frames |-> <<>>, questions |-> <<>>,
     prompts |-> {}, errors |-> <<>>, probing |-> FALSE, outcome |-> "none"]

----------------------------------------------------------------------------
(* ProviderCircuitBreaker                                                   *)

Closed == [failures |-> 0, opened |-> "no", probe |-> FALSE]

State(c) ==
    CASE c.opened = "no"     -> "CLOSED"
      [] c.opened = "recent" -> "OPEN"
      [] c.opened = "cooled" -> "HALF_OPEN"

Allows(c) == State(c) = "CLOSED" \/ (State(c) = "HALF_OPEN" /\ ~c.probe)

success(c) == Closed

(* Mutant: the probe lock is only given back by a success.                  *)
failureKeepsProbe(c) ==
    [c EXCEPT !.failures = Min({@ + 1, Threshold}),
              !.opened = IF c.failures + 1 >= Threshold THEN "recent" ELSE @]

(* failure(): the count saturates at the threshold, which is all that is    *)
(* asked of it.                                                             *)
failure(c) ==
    [c EXCEPT !.failures = Min({@ + 1, Threshold}),
              !.opened = IF c.failures + 1 >= Threshold THEN "recent" ELSE @,
              !.probe = FALSE]

----------------------------------------------------------------------------
(* The router                                                               *)

Provider(r) == Providers[req[r].at]
AlwaysAttempt(i) == i = 1 /\ Providers[i] = "gemini_api_key"

Init ==
    /\ circuit = [p \in Names |-> Closed]
    /\ holders = [p \in Names |-> {}]
    /\ req = [r \in Requests |-> Idle]

(* generate_quiz is called with the missing slots of a batch; a request of  *)
(* the model is used again once it was answered, so Requests bounds the     *)
(* calls in flight and the clients that hang up.                            *)
Arrive(r) ==
    /\ req[r].pc \in {"idle", "done"}
    /\ req' = [req EXCEPT ![r] = [Idle EXCEPT !.pc = "route"]]
    /\ UNCHANGED <<circuit, holders>>

(* The loop head: the next provider is skipped while its breaker is open or *)
(* its one probe is taken; the first one, the API key, never is.            *)
Skip(r) ==
    /\ req[r].pc = "route"
    /\ req[r].at <= Len(Providers)
    /\ ~AlwaysAttempt(req[r].at)
    /\ ~Allows(circuit[Provider(r)])
    /\ req' = [req EXCEPT ![r].at = @ + 1]
    /\ UNCHANGED <<circuit, holders>>

Attempt(r) ==
    /\ req[r].pc = "route"
    /\ req[r].at <= Len(Providers)
    /\ LET i == req[r].at
           p == Provider(r)
           probe == ~AlwaysAttempt(i) /\ State(circuit[p]) = "HALF_OPEN"
       IN  /\ AlwaysAttempt(i) \/ Allows(circuit[p])
           /\ circuit' = IF probe THEN [circuit EXCEPT ![p].probe = TRUE] ELSE circuit
           /\ req' = [req EXCEPT ![r] =
                        NextPart([Fresh(@) EXCEPT !.probing = probe], p)]
    /\ UNCHANGED holders

(* The loop ended: the last error is raised, and 422 when every provider    *)
(* found the request incompatible; UNAVAILABLE when none was tried.         *)
Exhausted(r) ==
    /\ req[r].pc = "route"
    /\ req[r].at > Len(Providers)
    /\ LET es == req[r].errors
           category == IF es = <<>> THEN "RETRYABLE"
                       ELSE IF \A i \in DOMAIN es : es[i].incompatible
                            THEN "INVALID_REQUEST" ELSE Last(es).category
       IN  req' = [req EXCEPT ![r] = Ended(@, Outcome(category))]
    /\ UNCHANGED <<circuit, holders>>

(* Mutant: the semaphore is not left when the provider raises.              *)
FailKeepsSemaphore(r, e) ==
    LET p == Provider(r) IN
    /\ circuit' = [circuit EXCEPT ![p] = IF e.eligible THEN failure(@) ELSE success(@)]
    /\ UNCHANGED holders
    /\ req' = [req EXCEPT ![r] =
         IF e.eligible
         THEN [Fresh(req[r]) EXCEPT !.pc = "route", !.at = @ + 1, !.probing = FALSE,
                               !.errors = Append(@, e)]
         ELSE Ended(Fresh(@), Outcome(e.category))]

(* except LLMProviderError / except Exception: an eligible error counts     *)
(* against the breaker and the next provider is tried; any other one counts *)
(* as an answer and is raised.                                              *)
Fail(r, e) ==
    LET p == Provider(r) IN
    /\ circuit' = [circuit EXCEPT ![p] = IF e.eligible THEN failure(@) ELSE success(@)]
    /\ holders' = [holders EXCEPT ![p] = @ \ {r}]
    /\ req' = [req EXCEPT ![r] =
         IF e.eligible
         THEN [Fresh(req[r]) EXCEPT !.pc = "route", !.at = @ + 1, !.probing = FALSE,
                               !.errors = Append(@, e)]
         ELSE Ended(Fresh(@), Outcome(e.category))]

(* Mutant: a provider's answer is taken whatever number of questions it has. *)
AnsweredPartly(r) ==
    /\ req[r].pc = "answered"
    /\ circuit' = [circuit EXCEPT ![Provider(r)] = success(@)]
    /\ holders' = [holders EXCEPT ![Provider(r)] = @ \ {r}]
    /\ req' = [req EXCEPT ![r] = Ended(@, "ok")]

(* The provider returned: validate_structured_result wants exactly as many  *)
(* questions as were asked for.                                             *)
Answered(r) ==
    /\ req[r].pc = "answered"
    /\ IF Len(req[r].questions) = NSlots
       THEN /\ circuit' = [circuit EXCEPT ![Provider(r)] = success(@)]
            /\ holders' = [holders EXCEPT ![Provider(r)] = @ \ {r}]
            /\ req' = [req EXCEPT ![r] = Ended(@, "ok")]
       ELSE Fail(r, RETRYABLE)

(* Mutant: a cancelled call does not leave the semaphore.                   *)
CancelKeepsPlace(r) ==
    /\ req[r].pc \in {"waiting", "calling"}
    /\ req' = [req EXCEPT ![r] = [Fresh(@) EXCEPT !.pc = "cancelled"]]
    /\ UNCHANGED <<circuit, holders>>

(* Spring closed the stream: _stream_ndjson cancels the task, which leaves  *)
(* the semaphore it is in; CancelledError passes both except clauses of the *)
(* router, so neither success() nor failure() runs.                         *)
Cancel(r) ==
    /\ req[r].pc \in {"waiting", "calling"}
    /\ holders' = [holders EXCEPT ![Provider(r)] = @ \ {r}]
    /\ req' = [req EXCEPT ![r] = [Fresh(@) EXCEPT !.pc = "cancelled"]]
    /\ UNCHANGED circuit

(* time.monotonic() passes opened_at + cooldown_seconds.                    *)
CoolDown(p) ==
    /\ circuit[p].opened = "recent"
    /\ circuit' = [circuit EXCEPT ![p].opened = "cooled"]
    /\ UNCHANGED <<holders, req>>

----------------------------------------------------------------------------
(* The providers                                                            *)

(* The semaphore of the provider.  Ollama stays inside for all its parts;   *)
(* GeminiService is entered for one call at a time.                         *)
Send(r) ==
    /\ req[r].pc = "waiting"
    /\ \/ r \in holders[Provider(r)]
       \/ Cardinality(holders[Provider(r)]) < Concurrency[Provider(r)]
    /\ holders' = [holders EXCEPT ![Provider(r)] = @ \cup {r}]
    /\ req' = [req EXCEPT ![r].pc = "calling"]
    /\ UNCHANGED circuit

(* The call ended in an error: a timeout, a status, an unexpected exception. *)
CallFails(r) ==
    /\ req[r].pc = "calling"
    /\ \E e \in ProviderErrors(Provider(r)) : Fail(r, e)

(* The part is over: its questions join the result in the order given.      *)
PartDone(q, p, qs) ==
    NextPart([q EXCEPT !.part = @ + 1, !.questions = @ \o qs], p)

(* The place of s among the numbers of the set S, from the smallest.        *)
Rank(s, S) == Cardinality({t \in S : t <= s})

(* The questions of qs not near-equal to one accepted before them, in order. *)
Unequal(qs, taken) ==
    LET fresh(i) == /\ qs[i].prompt \notin taken
                    /\ \A j \in 1..(i - 1) : qs[j].prompt # qs[i].prompt
        keep == {i \in DOMAIN qs : fresh(i)}
    IN  [k \in 1..Cardinality(keep) |-> qs[CHOOSE i \in keep : Rank(i, keep) = k]]

(* by_slot: the accepted questions of a part in the order of its plan.      *)
InPlanOrder(qs) ==
    [k \in DOMAIN qs |-> qs[CHOOSE i \in DOMAIN qs : Rank(qs[i].slot, SlotsOf(qs)) = k]]

(* generate_part of both Gemini providers: the schema asks for the missing  *)
(* slots, and an answer with too many questions, a foreign slot or a slot   *)
(* twice is not a quiz.                                                     *)
FitsPlan(qs, f) ==
    /\ Len(qs) <= Cardinality(Missing(f))
    /\ SlotsOf(qs) \subseteq Missing(f)
    /\ Cardinality(SlotsOf(qs)) = Len(qs)

(* _generate_parts after an answer: near-equal questions are dropped, one   *)
(* second call asks for the slots still missing, and a part without any     *)
(* question is an error.                                                    *)
GeminiReplies(r) ==
    /\ req[r].pc = "calling"
    /\ Provider(r) # "ollama"
    /\ LET f == Head(req[r].frames) IN
       \E qs \in QuestionSeqs(Cardinality(Missing(f))) :
          /\ \A i \in DOMAIN qs : qs[i].cited
          /\ LET new == Unequal(qs, req[r].prompts)
                 g == [f EXCEPT !.accepted = @ \o new, !.attempt = @ + 1]
                 over == Len(g.accepted) = Cardinality(f.slots) \/ f.attempt = 2
             IN  IF ~FitsPlan(qs, f) \/ (over /\ g.accepted = <<>>)
                 THEN Fail(r, RETRYABLE)
                 ELSE /\ holders' = [holders EXCEPT ![Provider(r)] = @ \ {r}]
                      /\ req' = [req EXCEPT ![r] =
                           IF over
                           THEN [PartDone(req[r], Provider(r), InPlanOrder(g.accepted))
                                    EXCEPT !.prompts = @ \cup PromptsOf(new)]
                           ELSE [req[r] EXCEPT !.pc = "waiting", !.frames = <<g>>,
                                          !.prompts = @ \cup PromptsOf(new)]]
                      /\ UNCHANGED circuit

(* Mutant: the slot of a candidate is not compared with what is missing.    *)
AcceptedAnySlot(qs, f, taken) ==
    LET fits(c, state) ==
          /\ c.cited
          /\ c.prompt \notin taken \cup PromptsOf(state)
          /\ Len(f.accepted) + Len(state) < Cardinality(f.slots)
        pick[n \in 0..Len(qs)] ==
          IF n = 0 THEN <<>>
          ELSE LET state == pick[n - 1]
               IN  IF fits(qs[n], state) THEN Append(state, qs[n]) ELSE state
    IN  pick[Len(qs)]

(* The candidates of one Ollama answer that the loop of _generate_part      *)
(* takes: a slot still missing, only once, its citations allowed, its       *)
(* prompt not near-equal to one taken before.                               *)
Accepted(qs, f, taken) ==
    LET fits(c, state) ==
          /\ c.slot \in f.slots \ SlotsOf(f.accepted \o state)
          /\ c.cited
          /\ c.prompt \notin taken \cup PromptsOf(state)
        pick[n \in 0..Len(qs)] ==
          IF n = 0 THEN <<>>
          ELSE LET state == pick[n - 1]
               IN  IF fits(qs[n], state) THEN Append(state, qs[n]) ELSE state
    IN  pick[Len(qs)]

(* The frame on top of the stack of _generate_part calls after an answer.   *)
(* A cut-off answer without candidates is asked again in two halves.        *)
AfterAnswer(f, qs, new, cut) ==
    LET g == [f EXCEPT !.accepted = @ \o new]
        m == Missing(g)
        first == {s \in m : Rank(s, m) <= (Cardinality(m) + 1) \div 2}
    IN  IF cut /\ qs = <<>> /\ Cardinality(m) > 1
        THEN [g EXCEPT !.splitting = TRUE, !.groups = <<first, m \ first>>]
        ELSE g

OllamaReplies(r) ==
    /\ req[r].pc = "calling"
    /\ Provider(r) = "ollama"
    /\ LET fs == req[r].frames
           f == Last(fs)
       IN  \E qs \in QuestionSeqs(Cardinality(Missing(f))), cut \in BOOLEAN :
             /\ cut => qs = <<>>
             /\ LET new == Accepted(qs, f, req[r].prompts) IN
                req' = [req EXCEPT
                   ![r].pc = "frame",
                   ![r].prompts = @ \cup PromptsOf(new),
                   ![r].frames = Append(Front(fs), AfterAnswer(f, qs, new, cut))]
    /\ UNCHANGED <<circuit, holders>>

(* The next half of a split part is asked by a _generate_part call of its   *)
(* own.                                                                     *)
OllamaSplits(r) ==
    /\ req[r].pc = "frame"
    /\ LET fs == req[r].frames
           f == Last(fs)
       IN  /\ f.splitting
           /\ f.groups # <<>>
           /\ req' = [req EXCEPT
                 ![r].pc = "waiting",
                 ![r].frames = Append(Front(fs), [f EXCEPT !.groups = Tail(@)])
                               \o <<Frame(Head(f.groups))>>]
    /\ UNCHANGED <<circuit, holders>>

(* _generate_part returns f's questions: to the part loop, or to the split  *)
(* it is a half of.                                                         *)
Returned(q, fs, qs) ==
    IF Len(fs) = 1 THEN PartDone(q, "ollama", qs)
    ELSE [q EXCEPT !.frames =
            Append(SubSeq(fs, 1, Len(fs) - 2),
                   [fs[Len(fs) - 1] EXCEPT !.recovered = @ \o qs])]

(* Otherwise the attempt is over: what the halves gave is kept only when it *)
(* is all that was missing; a full part returns; the last attempt returns   *)
(* what it has and raises when that is nothing; else the part is retried.   *)
OllamaContinues(r) ==
    /\ req[r].pc = "frame"
    /\ LET fs == req[r].frames
           f == Last(fs)
           whole == f.splitting /\ Len(f.recovered) = Cardinality(Missing(f))
           qs == IF whole THEN f.accepted \o f.recovered ELSE f.accepted
           over == whole \/ Len(f.accepted) = Cardinality(f.slots)
                         \/ f.attempt = MaxRetries + 1
       IN  /\ f.splitting => f.groups = <<>>
           /\ IF over /\ qs = <<>> THEN Fail(r, RETRYABLE)
              ELSE /\ req' = [req EXCEPT ![r] =
                        IF over THEN Returned(@, fs, qs)
                        ELSE [@ EXCEPT !.pc = "waiting",
                                !.frames = Append(Front(fs),
                                   [Frame(f.slots) EXCEPT !.attempt = f.attempt + 1,
                                                          !.accepted = f.accepted])]]
                   /\ UNCHANGED <<circuit, holders>>

----------------------------------------------------------------------------
Steps(r) ==
    \/ Skip(r) \/ Attempt(r) \/ Exhausted(r) \/ Answered(r)
    \/ Send(r) \/ CallFails(r) \/ GeminiReplies(r)
    \/ OllamaReplies(r) \/ OllamaSplits(r) \/ OllamaContinues(r)

Next ==
    \/ \E r \in Requests : Steps(r) \/ Arrive(r) \/ Cancel(r)
    \/ \E p \in Names : CoolDown(p)

(* The event loop runs every ready task, and every call ends: each provider *)
(* client has a timeout.  A semaphore wakes its waiters in order, so one    *)
(* that keeps being released lets every waiter in.                          *)
Fairness ==
    \A r \in Requests :
        /\ WF_vars(Steps(r))
        /\ SF_vars(Send(r))

Spec == Init /\ [][Next]_vars /\ Fairness

----------------------------------------------------------------------------
(* Properties                                                               *)

(* Every record of the router, its breakers and its requests has its shape. *)
TypeOK ==
    /\ circuit \in [Names -> [failures : 0..Threshold,
                              opened : {"no", "recent", "cooled"}, probe : BOOLEAN]]
    /\ holders \in [Names -> SUBSET Requests]
    /\ \A r \in Requests :
         /\ req[r].pc \in {"idle", "route", "waiting", "calling", "frame",
                           "answered", "done", "cancelled"}
         /\ req[r].at \in 1..(Len(Providers) + 1)
         /\ req[r].prompts \subseteq Prompts
         /\ req[r].outcome \in {"none", "ok", "refused", "retryable"}

(* An answered batch has one question for every slot of the plan, and no    *)
(* two of its questions are near-equal: parts, second calls, split parts,   *)
(* dropped candidates and the fallback never add up to another quiz.        *)
AnswersThePlan ==
    \A r \in Requests : req[r].outcome = "ok" =>
        LET qs == req[r].questions IN
        /\ Len(qs) = NSlots
        /\ SlotsOf(qs) = Slots
        /\ Cardinality(PromptsOf(qs)) = NSlots

(* Requests keep their shape, and an answer is one to the whole plan.       *)
AnswersAreWhole == TypeOK /\ AnswersThePlan

(* The probe lock of a breaker is never held for nobody: a call that was    *)
(* let in as the probe still holds it, or was cut off by a client that hung *)
(* up, the one way it is lost.                                              *)
ProbeHasItsCall ==
    \A p \in Names : circuit[p].probe =>
        \E r \in Requests :
            /\ req[r].probing
            /\ Provider(r) = p
            /\ req[r].pc # "done"

(* A place in the semaphore of a provider belongs to a request that is at   *)
(* that provider and not waiting to be let in by it for its first call, so  *)
(* error, fallback, cancellation and answer all give it back.               *)
PlacesAreInUse ==
    \A p \in Names :
        /\ Cardinality(holders[p]) <= Concurrency[p]
        /\ \A r \in holders[p] :
             /\ req[r].at <= Len(Providers)
             /\ Provider(r) = p
             /\ req[r].pc \in {"waiting", "calling", "frame", "answered"}

(* Neither the probe of a breaker nor a place in a semaphore is ever held   *)
(* by a request that is gone.                                               *)
LocksAreHeld == ProbeHasItsCall /\ PlacesAreInUse

(* Every request is answered or cut off: open breakers, full semaphores,    *)
(* retries, halves and fallbacks never leave it waiting for ever.           *)
RequestsEnd ==
    \A r \in Requests : req[r].pc = "route" ~> req[r].pc \in {"done", "cancelled"}
============================================================================
