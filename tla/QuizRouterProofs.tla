-------------------------- MODULE QuizRouterProofs --------------------------
(***************************************************************************)
(* Two results about QuizRouter, for any number of requests, any list of   *)
(* providers, any plan and any sizes of parts: the probe of a circuit      *)
(* breaker and the places in a call semaphore are never held for nobody,   *)
(* and an answered batch has one question for every slot of the plan.      *)
(*                                                                         *)
(* LockInv says where a request may be while it holds something; each step *)
(* of a request changes the record of that request, its place and the      *)
(* breaker of the provider it is at, which is all LockStep asks.           *)
(* ContentInv says what a request has while it is at a provider: the loops *)
(* inside one another, each for slots the ones around it have not filled   *)
(* and will not ask for again, with prompts no other has.                  *)
(***************************************************************************)
EXTENDS QuizRouter, FiniteSetTheorems, WellFoundedInduction, TLAPS

-----------------------------------------------------------------------------
(* The record of a request.                                                *)

\* A request has the fields of Idle; what its frames hold does not matter here.
Fields == {"pc", "at", "part", "frames", "questions", "prompts", "errors", "probing", "outcome"}
Call(q) == q = [f \in Fields |-> q[f]]

\* The same place in the list of providers, with or without the probe.
SamePlace(q, s) == Call(q) /\ q.at = s.at /\ q.probing = s.probing

LEMMA FreshCall ==
  ASSUME NEW q, Call(q)
  PROVE  SamePlace(Fresh(q), q) /\ Fresh(q).pc = q.pc
BY DEF Call, Fields, SamePlace, Fresh

LEMMA NextPartCall ==
  ASSUME NEW q, Call(q), NEW p
  PROVE  SamePlace(NextPart(q, p), q) /\ NextPart(q, p).pc \in {"waiting", "answered"}
BY DEF Call, Fields, SamePlace, NextPart

LEMMA EndedCall ==
  ASSUME NEW q, Call(q), NEW outcome
  PROVE  /\ Call(Ended(q, outcome)) /\ Ended(q, outcome).pc = "done"
         /\ Ended(q, outcome).at = 1 /\ Ended(q, outcome).probing = FALSE
BY DEF Call, Fields, Ended

LEMMA PartDoneCall ==
  ASSUME NEW q, Call(q), NEW p, NEW qs
  PROVE  SamePlace(PartDone(q, p, qs), q) /\ PartDone(q, p, qs).pc \in {"waiting", "answered"}
<1>. DEFINE s == [q EXCEPT !.part = @ + 1, !.questions = @ \o qs]
<1>1. SamePlace(s, q)
  BY DEF Call, Fields, SamePlace
<1>. HIDE DEF s
<1>2. SamePlace(NextPart(s, p), s) /\ NextPart(s, p).pc \in {"waiting", "answered"}
  BY <1>1, NextPartCall DEF SamePlace
<1>. QED BY <1>1, <1>2 DEF PartDone, SamePlace, s

LEMMA ReturnedCall ==
  ASSUME NEW q, Call(q), NEW fs, NEW qs
  PROVE  SamePlace(Returned(q, fs, qs), q)
         /\ Returned(q, fs, qs).pc \in {q.pc, "waiting", "answered"}
<1>1. CASE Len(fs) = 1
  BY <1>1, PartDoneCall DEF Returned
<1>2. CASE Len(fs) # 1
  <2>. DEFINE more == Append(SubSeq(fs, 1, Len(fs) - 2),
                             [fs[Len(fs) - 1] EXCEPT !.recovered = @ \o qs])
  <2>1. Returned(q, fs, qs) = [q EXCEPT !.frames = more]
    BY <1>2 DEF Returned
  <2>. HIDE DEF more
  <2>. QED BY <2>1 DEF Call, Fields, SamePlace
<1>. QED BY <1>1, <1>2

-----------------------------------------------------------------------------
(* The inductive invariant.                                                *)

Circuit == [failures : 0 .. Threshold, opened : {"no", "recent", "cooled"}, probe : BOOLEAN]
AtProvider == {"waiting", "calling", "frame", "answered"}

\* A request at a provider is within the list; on the way to the next one it
\* holds no probe.
Placed(q) ==
  /\ Call(q)
  /\ q.pc \in AtProvider \cup {"idle", "route", "done", "cancelled"}
  /\ q.at \in 1 .. (Len(Providers) + 1)
  /\ q.pc \in AtProvider => q.at <= Len(Providers)
  /\ q.pc \in {"idle", "route", "done"} => ~q.probing

LockInv ==
  /\ circuit \in [Names -> Circuit]
  /\ holders \in [Names -> SUBSET Requests]
  /\ \A p \in Names : IsFiniteSet(holders[p])
  /\ req = [r \in Requests |-> req[r]]
  /\ \A r \in Requests : Placed(req[r])
  /\ LocksAreHeld

\* The list of providers is a sequence of its names.
LEMMA Listed ==
  /\ Len(Providers) \in Nat
  /\ \A i \in 1 .. Len(Providers) : Providers[i] \in Names
BY RouterAssumption DEF Names, Range

LEMMA RequestFacts ==
  ASSUME LockInv, NEW r \in Requests
  PROVE  /\ Placed(req[r])
         /\ req[r].pc \in AtProvider => Provider(r) \in Names
         /\ \A p \in Names : r \in holders[p] => Provider(r) = p /\ req[r].pc \in AtProvider
<1>1. Placed(req[r]) /\ (req[r].pc \in AtProvider => req[r].at \in 1 .. Len(Providers))
  BY Listed DEF LockInv, Placed
<1>2. \A p \in Names : r \in holders[p] => Provider(r) = p /\ req[r].pc \in AtProvider
  BY DEF LockInv, LocksAreHeld, PlacesAreInUse, AtProvider
<1>. QED BY <1>1, <1>2, Listed DEF Provider

-----------------------------------------------------------------------------
(* One request moves.                                                      *)

\* The breaker of p holds its probe for q, or for another request than r.
StillProbing(r, q, p) ==
  \/ q.probing /\ Providers[q.at] = p /\ q.pc # "done"
  \/ circuit[p].probe /\ ~(req[r].probing /\ Provider(r) = p /\ req[r].pc # "done")

LEMMA LockStep ==
  ASSUME LockInv, NEW r \in Requests, NEW q, Placed(q), req' = [req EXCEPT ![r] = q],
         circuit' \in [Names -> Circuit],
         \A p \in Names : circuit'[p].probe => StillProbing(r, q, p),
         holders' \in [Names -> SUBSET Requests],
         \A p \in Names : /\ holders'[p] \ {r} = holders[p] \ {r}
                          /\ IsFiniteSet(holders'[p])
                          /\ Cardinality(holders'[p]) <= Concurrency[p]
                          /\ r \in holders'[p] => q.pc \in AtProvider /\ Providers[q.at] = p
  PROVE  LockInv'
<1>1. /\ req' = [s \in Requests |-> req'[s]] /\ req'[r] = q
      /\ \A s \in Requests \ {r} : req'[s] = req[s]
  BY DEF LockInv
<1>2. \A s \in Requests : Placed(req'[s])
  BY <1>1 DEF LockInv
<1>3. ProbeHasItsCall'
  <2>1. SUFFICES ASSUME NEW p \in Names, circuit'[p].probe
                 PROVE  \E s \in Requests : /\ req'[s].probing
                                            /\ Providers[req'[s].at] = p
                                            /\ req'[s].pc # "done"
    BY DEF ProbeHasItsCall, Provider
  <2>2. CASE q.probing /\ Providers[q.at] = p /\ q.pc # "done"
    BY <1>1, <2>2
  <2>3. CASE circuit[p].probe /\ ~(req[r].probing /\ Provider(r) = p /\ req[r].pc # "done")
    <3>1. PICK s \in Requests : req[s].probing /\ Provider(s) = p /\ req[s].pc # "done"
      BY <2>3 DEF LockInv, LocksAreHeld, ProbeHasItsCall
    <3>2. s # r
      BY <2>3, <3>1
    <3>. QED BY <1>1, <3>1, <3>2 DEF Provider
  <2>. QED BY <2>1, <2>2, <2>3 DEF StillProbing
<1>4. PlacesAreInUse'
  <2>1. SUFFICES ASSUME NEW p \in Names, NEW s \in holders'[p]
                 PROVE  /\ req'[s].at <= Len(Providers) /\ Providers[req'[s].at] = p
                        /\ req'[s].pc \in AtProvider
    BY DEF PlacesAreInUse, Provider, AtProvider
  <2>2. CASE s = r
    BY <1>1, <2>1, <2>2 DEF Placed
  <2>3. CASE s # r
    <3>1. s \in holders[p] /\ s \in Requests
      BY <2>1, <2>3 DEF LockInv
    <3>. QED BY <1>1, <2>3, <3>1 DEF LockInv, LocksAreHeld, PlacesAreInUse, Provider, AtProvider
  <2>. QED BY <2>2, <2>3
<1>. QED BY <1>1, <1>2, <1>3, <1>4 DEF LockInv, LocksAreHeld

\* The request keeps its place, or leaves it with the semaphore.
LEMMA SameHolders ==
  ASSUME LockInv, NEW r \in Requests, NEW q, holders' = holders,
         req[r].pc \in AtProvider => q.at = req[r].at /\ q.pc \in AtProvider
  PROVE  /\ holders' \in [Names -> SUBSET Requests]
         /\ \A p \in Names : /\ holders'[p] \ {r} = holders[p] \ {r}
                             /\ IsFiniteSet(holders'[p])
                             /\ Cardinality(holders'[p]) <= Concurrency[p]
                             /\ r \in holders'[p] => q.pc \in AtProvider /\ Providers[q.at] = p
BY RequestFacts DEF LockInv, LocksAreHeld, PlacesAreInUse, Provider

LEMMA LeftHolders ==
  ASSUME LockInv, NEW r \in Requests, NEW q, req[r].pc \in AtProvider,
         holders' = [holders EXCEPT ![Provider(r)] = @ \ {r}]
  PROVE  /\ holders' \in [Names -> SUBSET Requests]
         /\ \A p \in Names : /\ holders'[p] \ {r} = holders[p] \ {r}
                             /\ IsFiniteSet(holders'[p])
                             /\ Cardinality(holders'[p]) <= Concurrency[p]
                             /\ r \in holders'[p] => q.pc \in AtProvider /\ Providers[q.at] = p
<1>1. /\ holders' \in [Names -> SUBSET Requests]
      /\ \A p \in Names : holders'[p] = IF p = Provider(r) THEN holders[p] \ {r} ELSE holders[p]
  BY RequestFacts DEF LockInv
<1>2. \A p \in Names : r \notin holders'[p]
  BY <1>1, RequestFacts
<1>3. ASSUME NEW p \in Names
      PROVE  /\ holders'[p] \ {r} = holders[p] \ {r} /\ IsFiniteSet(holders'[p])
             /\ Cardinality(holders'[p]) <= Concurrency[p]
  <2>1. /\ holders'[p] \subseteq holders[p] /\ IsFiniteSet(holders[p])
        /\ holders'[p] \ {r} = holders[p] \ {r}
    BY <1>1 DEF LockInv
  <2>2. /\ IsFiniteSet(holders'[p]) /\ Cardinality(holders'[p]) <= Cardinality(holders[p])
        /\ Cardinality(holders'[p]) \in Nat /\ Cardinality(holders[p]) \in Nat
    BY <2>1, FS_Subset, FS_CardinalityType
  <2>3. Cardinality(holders[p]) <= Concurrency[p] /\ Concurrency[p] \in Nat
    BY RouterAssumption DEF LockInv, LocksAreHeld, PlacesAreInUse
  <2>. QED BY <2>1, <2>2, <2>3
<1>. QED BY <1>1, <1>2, <1>3

\* A step that touches no breaker leaves every probe where it is.
LEMMA SameCircuit ==
  ASSUME LockInv, NEW r \in Requests, NEW q, circuit' = circuit,
         q.at = req[r].at, q.probing = req[r].probing, q.pc # "done"
  PROVE  /\ circuit' \in [Names -> Circuit]
         /\ \A p \in Names : circuit'[p].probe => StillProbing(r, q, p)
BY DEF LockInv, StillProbing, Provider

LEMMA Counted ==
  ASSUME NEW c \in Circuit
  PROVE  failure(c) \in Circuit /\ success(c) \in Circuit /\ ~failure(c).probe /\ ~success(c).probe
<1>1. Min({c.failures + 1, Threshold}) \in 0 .. Threshold
  <2>. DEFINE n == c.failures + 1
  <2>1. n \in Nat /\ Threshold \in Nat
    BY RouterAssumption DEF Circuit
  <2>2. \E x \in {n, Threshold} : \A y \in {n, Threshold} : x =< y
    BY <2>1
  <2>3. Min({n, Threshold}) \in {n, Threshold} /\ \A y \in {n, Threshold} : Min({n, Threshold}) =< y
    BY <2>2 DEF Min
  <2>. DEFINE m == Min({n, Threshold})
  <2>4. m \in {n, Threshold} /\ m =< Threshold
    BY <2>3
  <2>5. m = Min({c.failures + 1, Threshold})
    OBVIOUS
  <2>. HIDE DEF m, n
  <2>6. m \in 0 .. Threshold
    BY <2>1, <2>4
  <2>. QED BY <2>5, <2>6
<1>. DEFINE m == Min({c.failures + 1, Threshold})
            late == c.failures + 1 >= Threshold
<1>2. failure(c) = [c EXCEPT !.failures = m, !.opened = IF late THEN "recent" ELSE @,
                             !.probe = FALSE]
  BY DEF failure
<1>. HIDE DEF m, late
<1>m. m \in 0 .. Threshold
  BY <1>1 DEF m
<1>3. failure(c) \in Circuit /\ ~failure(c).probe
  BY <1>m, <1>2 DEF Circuit
<1>4. success(c) \in Circuit /\ ~success(c).probe
  BY RouterAssumption DEF success, Closed, Circuit
<1>. QED BY <1>3, <1>4

\* The breaker of the provider the request was at counts its outcome, and lets
\* go of its probe.
LEMMA CountedCircuit ==
  ASSUME LockInv, NEW r \in Requests, NEW q, req[r].pc \in AtProvider,
         NEW c \in {failure(circuit[Provider(r)]), success(circuit[Provider(r)])},
         circuit' = [circuit EXCEPT ![Provider(r)] = c]
  PROVE  /\ circuit' \in [Names -> Circuit]
         /\ \A p \in Names : circuit'[p].probe => StillProbing(r, q, p)
<1>1. Provider(r) \in Names /\ c \in Circuit /\ ~c.probe
  BY RequestFacts, Counted DEF LockInv
<1>. QED BY <1>1 DEF LockInv, StillProbing

-----------------------------------------------------------------------------
(* The steps of a request.                                                 *)

LEMMA ArriveStep ==
  ASSUME LockInv, NEW r \in Requests, Arrive(r)
  PROVE  LockInv'
<1>. DEFINE q == [Idle EXCEPT !.pc = "route"]
<1>1. /\ Call(q) /\ q.pc = "route" /\ q.at = 1 /\ q.probing = FALSE
  BY DEF Idle, Call, Fields
<1>2. req' = [req EXCEPT ![r] = q] /\ UNCHANGED <<circuit, holders>> /\ req[r].pc \in {"idle", "done"}
  BY DEF Arrive
<1>. HIDE DEF q
<1>3. Placed(q)
  BY <1>1, Listed DEF Placed, AtProvider
<1>4. ~req[r].probing /\ req[r].pc \notin AtProvider
  BY <1>2 DEF LockInv, Placed, AtProvider
<1>5. circuit' \in [Names -> Circuit] /\ \A p \in Names : circuit'[p].probe => StillProbing(r, q, p)
  BY <1>2, <1>4 DEF LockInv, StillProbing
<1>. QED BY <1>2, <1>3, <1>4, <1>5, LockStep, SameHolders

LEMMA SkipStep ==
  ASSUME LockInv, NEW r \in Requests, Skip(r)
  PROVE  LockInv'
<1>. DEFINE q == [req[r] EXCEPT !.at = @ + 1]
<1>1. Placed(req[r])
  BY DEF LockInv
<1>2. /\ req' = [req EXCEPT ![r] = q] /\ UNCHANGED <<circuit, holders>>
      /\ req[r].pc = "route" /\ req[r].at <= Len(Providers)
  BY DEF Skip
<1>3. Call(q) /\ q.pc = "route" /\ q.at = req[r].at + 1 /\ q.probing = req[r].probing
  BY <1>1, <1>2 DEF Placed, Call, Fields
<1>. HIDE DEF q
<1>4. Placed(q) /\ ~req[r].probing
  BY <1>1, <1>2, <1>3, Listed DEF Placed, AtProvider
<1>5. circuit' \in [Names -> Circuit] /\ \A p \in Names : circuit'[p].probe => StillProbing(r, q, p)
  BY <1>2, <1>4 DEF LockInv, StillProbing
<1>. QED BY <1>2, <1>4, <1>5, LockStep, SameHolders DEF AtProvider

LEMMA AttemptStep ==
  ASSUME LockInv, NEW r \in Requests, Attempt(r)
  PROVE  LockInv'
<1>. DEFINE p == Provider(r)
            probe == ~AlwaysAttempt(req[r].at) /\ State(circuit[p]) = "HALF_OPEN"
            s == [Fresh(req[r]) EXCEPT !.probing = probe]
            q == NextPart(s, p)
<1>1. Placed(req[r])
  BY DEF LockInv
<1>2. /\ req' = [req EXCEPT ![r] = q] /\ holders' = holders
      /\ circuit' = IF probe THEN [circuit EXCEPT ![p].probe = TRUE] ELSE circuit
      /\ req[r].pc = "route" /\ req[r].at <= Len(Providers)
  BY DEF Attempt
<1>3. p \in Names /\ ~req[r].probing
  BY <1>1, <1>2, Listed DEF Placed, Provider
<1>. HIDE DEF probe
<1>4. Call(s) /\ s.at = req[r].at /\ s.probing = probe
  BY <1>1, FreshCall DEF Placed, SamePlace, Call, Fields
<1>. HIDE DEF s
<1>5. Call(q) /\ q.at = req[r].at /\ q.probing = probe /\ q.pc \in {"waiting", "answered"}
  BY <1>4, NextPartCall DEF SamePlace
<1>. HIDE DEF q
<1>6. Placed(q)
  BY <1>1, <1>2, <1>5 DEF Placed, AtProvider
<1>7. circuit' \in [Names -> Circuit]
  BY <1>2, <1>3 DEF LockInv, Circuit
<1>8. ASSUME NEW n \in Names, circuit'[n].probe PROVE StillProbing(r, q, n)
  <2>1. CASE probe /\ n = p
    BY <1>5, <2>1 DEF StillProbing, Provider
  <2>2. CASE ~(probe /\ n = p)
    <3>1. circuit'[n] = circuit[n]
      BY <1>2, <1>3, <2>2 DEF LockInv
    <3>. QED BY <1>3, <1>8, <3>1 DEF StillProbing
  <2>. QED BY <2>1, <2>2
<1>. HIDE DEF p
<1>. QED BY <1>2, <1>6, <1>7, <1>8, LockStep, SameHolders DEF AtProvider

LEMMA ExhaustedStep ==
  ASSUME LockInv, NEW r \in Requests, Exhausted(r)
  PROVE  LockInv'
<1>1. PICK category : /\ req' = [req EXCEPT ![r] = Ended(req[r], Outcome(category))]
                      /\ req[r].pc = "route" /\ UNCHANGED <<circuit, holders>>
  BY DEF Exhausted
<1>. DEFINE q == Ended(req[r], Outcome(category))
<1>2. Placed(req[r]) /\ ~req[r].probing
  BY <1>1 DEF LockInv, Placed
<1>3. Call(q) /\ q.pc = "done" /\ q.at = 1 /\ q.probing = FALSE
  BY <1>2, EndedCall DEF Placed
<1>. HIDE DEF q
<1>4. Placed(q)
  BY <1>3, Listed DEF Placed, AtProvider
<1>5. circuit' \in [Names -> Circuit] /\ \A p \in Names : circuit'[p].probe => StillProbing(r, q, p)
  BY <1>1, <1>2 DEF LockInv, StillProbing
<1>6. req' = [req EXCEPT ![r] = q] /\ UNCHANGED <<circuit, holders>> /\ q.pc \notin AtProvider
  <2>1. q.pc \notin AtProvider
    BY <1>3 DEF AtProvider
  <2>. QED BY <1>1, <2>1 DEF q
<1>7. req[r].pc \notin AtProvider
  BY <1>1 DEF AtProvider
<1>. QED BY <1>4, <1>5, <1>6, <1>7, LockStep, SameHolders

\* An error ends the call at this provider: its place and its probe go.
LEMMA FailStep ==
  ASSUME LockInv, NEW r \in Requests, req[r].pc \in AtProvider, NEW e, Fail(r, e)
  PROVE  LockInv'
<1>. DEFINE s == Fresh(req[r])
            more == [s EXCEPT !.pc = "route", !.at = @ + 1, !.probing = FALSE,
                              !.errors = Append(@, e)]
            q == IF e.eligible THEN more ELSE Ended(s, Outcome(e.category))
            c == IF e.eligible THEN failure(circuit[Provider(r)])
                 ELSE success(circuit[Provider(r)])
<1>1. Placed(req[r]) /\ req[r].at \in 1 .. Len(Providers) /\ Provider(r) \in Names
  BY RequestFacts, Listed DEF Placed
<1>2. req' = [req EXCEPT ![r] = q]
  BY DEF Fail
<1>3. holders' = [holders EXCEPT ![Provider(r)] = @ \ {r}]
  BY DEF Fail
<1>4. circuit' = [circuit EXCEPT ![Provider(r)] = c]
  BY DEF Fail
<1>5. Call(s) /\ s.at = req[r].at
  BY <1>1, FreshCall DEF Placed, SamePlace
<1>. HIDE DEF s
<1>6. Call(more) /\ more.pc = "route" /\ more.at = s.at + 1 /\ more.probing = FALSE
  BY <1>5 DEF Call, Fields
<1>. HIDE DEF more
<1>7. Call(q) /\ q.pc \in {"route", "done"} /\ q.at \in 1 .. (Len(Providers) + 1) /\ q.probing = FALSE
  <2>1. CASE e.eligible
    BY <1>1, <1>5, <1>6, <2>1, Listed
  <2>2. CASE ~e.eligible
    <3>1. q = Ended(s, Outcome(e.category))
      BY <2>2
    <3>2. /\ Call(Ended(s, Outcome(e.category))) /\ Ended(s, Outcome(e.category)).pc = "done"
          /\ Ended(s, Outcome(e.category)).at = 1 /\ ~Ended(s, Outcome(e.category)).probing
      BY <1>5, EndedCall
    <3>3. 1 \in 1 .. (Len(Providers) + 1)
      BY Listed
    <3>. QED BY <3>1, <3>2, <3>3 DEF Call
  <2>. QED BY <2>1, <2>2
<1>. HIDE DEF q
<1>8. Placed(q)
  BY <1>7 DEF Placed, AtProvider
<1>9. c \in {failure(circuit[Provider(r)]), success(circuit[Provider(r)])}
  OBVIOUS
<1>. HIDE DEF c
<1>10. circuit' \in [Names -> Circuit] /\ \A p \in Names : circuit'[p].probe => StillProbing(r, q, p)
  BY <1>4, <1>9, CountedCircuit
<1>. QED BY <1>2, <1>3, <1>8, <1>10, LockStep, LeftHolders

LEMMA AnsweredStep ==
  ASSUME LockInv, NEW r \in Requests, Answered(r)
  PROVE  LockInv'
<1>1. req[r].pc \in AtProvider
  BY DEF Answered, AtProvider
<1>2. CASE Len(req[r].questions) # NSlots
  BY <1>1, <1>2, FailStep DEF Answered
<1>3. CASE Len(req[r].questions) = NSlots
  <2>. DEFINE q == Ended(req[r], "ok")
              c == success(circuit[Provider(r)])
  <2>1. req' = [req EXCEPT ![r] = q] /\ holders' = [holders EXCEPT ![Provider(r)] = @ \ {r}]
        /\ circuit' = [circuit EXCEPT ![Provider(r)] = c]
    BY <1>3 DEF Answered
  <2>2. Call(q) /\ q.pc = "done" /\ q.at = 1 /\ q.probing = FALSE
    BY EndedCall DEF LockInv, Placed
  <2>. HIDE DEF q
  <2>3. Placed(q)
    BY <2>2, Listed DEF Placed, AtProvider
  <2>4. c \in {failure(circuit[Provider(r)]), success(circuit[Provider(r)])}
    OBVIOUS
  <2>. HIDE DEF c
  <2>5. circuit' \in [Names -> Circuit] /\ \A p \in Names : circuit'[p].probe => StillProbing(r, q, p)
    BY <1>1, <2>1, <2>4, CountedCircuit
  <2>. QED BY <1>1, <2>1, <2>3, <2>5, LockStep, LeftHolders
<1>. QED BY <1>2, <1>3

LEMMA CancelStep ==
  ASSUME LockInv, NEW r \in Requests, Cancel(r)
  PROVE  LockInv'
<1>. DEFINE s == Fresh(req[r])
            q == [s EXCEPT !.pc = "cancelled"]
<1>1. Placed(req[r]) /\ req[r].pc \in AtProvider
  BY DEF LockInv, Cancel, AtProvider
<1>2. /\ req' = [req EXCEPT ![r] = q] /\ circuit' = circuit
      /\ holders' = [holders EXCEPT ![Provider(r)] = @ \ {r}]
  BY DEF Cancel
<1>3. Call(s) /\ s.at = req[r].at /\ s.probing = req[r].probing
  BY <1>1, FreshCall DEF Placed, SamePlace
<1>. HIDE DEF s
<1>4. Call(q) /\ q.pc = "cancelled" /\ q.at = s.at /\ q.probing = s.probing
  BY <1>3 DEF Call, Fields
<1>. HIDE DEF q
<1>5. Placed(q)
  BY <1>1, <1>3, <1>4 DEF Placed, AtProvider
<1>6. circuit' \in [Names -> Circuit] /\ \A p \in Names : circuit'[p].probe => StillProbing(r, q, p)
  BY <1>2, <1>3, <1>4, SameCircuit
<1>. QED BY <1>1, <1>2, <1>5, <1>6, LockStep, LeftHolders

\* The request goes on at its provider.
LEMMA StayStep ==
  ASSUME LockInv, NEW r \in Requests, req[r].pc \in AtProvider,
         NEW q, SamePlace(q, req[r]), q.pc \in AtProvider, req' = [req EXCEPT ![r] = q],
         circuit' = circuit,
         holders' = holders \/ holders' = [holders EXCEPT ![Provider(r)] = @ \ {r}]
  PROVE  LockInv'
<1>1. Placed(q)
  BY DEF LockInv, Placed, SamePlace, AtProvider
<1>2. circuit' \in [Names -> Circuit] /\ \A p \in Names : circuit'[p].probe => StillProbing(r, q, p)
  BY SameCircuit DEF SamePlace, AtProvider
<1>3. CASE holders' = holders
  <2>1. q.at = req[r].at
    BY DEF SamePlace
  <2>2. req[r].pc \in AtProvider
    OBVIOUS
  <2>3. /\ holders' \in [Names -> SUBSET Requests]
        /\ \A p \in Names : /\ holders'[p] \ {r} = holders[p] \ {r}
                            /\ IsFiniteSet(holders'[p])
                            /\ Cardinality(holders'[p]) <= Concurrency[p]
                            /\ r \in holders'[p] => q.pc \in AtProvider /\ Providers[q.at] = p
    BY <1>3, <2>1, SameHolders
  <2>. QED BY <1>1, <1>2, <2>3, LockStep
<1>4. CASE holders' = [holders EXCEPT ![Provider(r)] = @ \ {r}]
  BY <1>1, <1>2, <1>4, LockStep, LeftHolders
<1>. QED BY <1>3, <1>4

LEMMA SendStep ==
  ASSUME LockInv, NEW r \in Requests, Send(r)
  PROVE  LockInv'
<1>. DEFINE q == [req[r] EXCEPT !.pc = "calling"]
            home == Provider(r)
<1>1. Placed(req[r]) /\ req[r].pc \in AtProvider /\ home \in Names
  BY RequestFacts DEF Send, AtProvider
<1>2. /\ req' = [req EXCEPT ![r] = q] /\ circuit' = circuit
      /\ holders' = [holders EXCEPT ![home] = @ \cup {r}]
      /\ r \in holders[home] \/ Cardinality(holders[home]) < Concurrency[home]
  BY DEF Send
<1>3. SamePlace(q, req[r]) /\ q.pc = "calling"
  BY <1>1 DEF Placed, Call, Fields, SamePlace
<1>. HIDE DEF q
<1>4. Placed(q)
  BY <1>1, <1>3 DEF Placed, SamePlace, AtProvider
<1>5. circuit' \in [Names -> Circuit] /\ \A p \in Names : circuit'[p].probe => StillProbing(r, q, p)
  BY <1>2, <1>3, SameCircuit DEF SamePlace
<1>6. IsFiniteSet(holders'[home]) /\ Cardinality(holders'[home]) <= Concurrency[home]
  <2>1. /\ IsFiniteSet(holders[home]) /\ Cardinality(holders[home]) <= Concurrency[home]
        /\ Concurrency[home] \in Nat /\ holders'[home] = holders[home] \cup {r}
    BY <1>1, <1>2, RouterAssumption DEF LockInv, LocksAreHeld, PlacesAreInUse
  <2>2. CASE r \in holders[home]
    BY <2>1, <2>2
  <2>3. CASE r \notin holders[home]
    <3>1. /\ IsFiniteSet(holders[home] \cup {r}) /\ Cardinality(holders[home]) \in Nat
          /\ Cardinality(holders[home] \cup {r}) = Cardinality(holders[home]) + 1
      BY <2>1, <2>3, FS_AddElement, FS_CardinalityType
    <3>. QED BY <1>2, <2>1, <2>3, <3>1
  <2>. QED BY <2>2, <2>3
<1>7. /\ holders' \in [Names -> SUBSET Requests]
      /\ \A p \in Names \ {home} : holders'[p] = holders[p]
      /\ holders'[home] \ {r} = holders[home] \ {r}
  BY <1>1, <1>2 DEF LockInv
<1>8. ASSUME NEW p \in Names
      PROVE  /\ holders'[p] \ {r} = holders[p] \ {r} /\ IsFiniteSet(holders'[p])
             /\ Cardinality(holders'[p]) <= Concurrency[p]
             /\ r \in holders'[p] => q.pc \in AtProvider /\ Providers[q.at] = p
  <2>1. q.pc \in AtProvider /\ Providers[q.at] = home
    BY <1>3 DEF AtProvider, SamePlace, Provider
  <2>2. CASE p = home
    BY <1>6, <1>7, <2>1, <2>2
  <2>3. CASE p # home
    BY <1>1, <1>7, <2>3, RequestFacts DEF LockInv, LocksAreHeld, PlacesAreInUse
  <2>. QED BY <2>2, <2>3
<1>. QED BY <1>2, <1>4, <1>5, <1>7, <1>8, LockStep

LEMMA CallFailsStep ==
  ASSUME LockInv, NEW r \in Requests, CallFails(r)
  PROVE  LockInv'
BY FailStep DEF CallFails, AtProvider

LEMMA GeminiStep ==
  ASSUME LockInv, NEW r \in Requests, GeminiReplies(r)
  PROVE  LockInv'
<1>1. req[r].pc \in AtProvider /\ Call(req[r])
  BY DEF GeminiReplies, AtProvider, LockInv, Placed
<1>2. CASE Fail(r, RETRYABLE)
  BY <1>1, <1>2, FailStep
<1>3. ASSUME NEW part, NEW taken,
             req' = [req EXCEPT ![r] = [PartDone(req[r], Provider(r), part)
                                          EXCEPT !.prompts = @ \cup taken]],
             holders' = [holders EXCEPT ![Provider(r)] = @ \ {r}], circuit' = circuit
      PROVE  LockInv'
  <2>. DEFINE s == PartDone(req[r], Provider(r), part)
              q == [s EXCEPT !.prompts = @ \cup taken]
  <2>1. req' = [req EXCEPT ![r] = q]
    BY <1>3
  <2>2. SamePlace(s, req[r]) /\ s.pc \in {"waiting", "answered"}
    BY <1>1, PartDoneCall
  <2>. HIDE DEF s
  <2>3. SamePlace(q, req[r]) /\ q.pc = s.pc
    BY <2>2 DEF SamePlace, Call, Fields
  <2>. HIDE DEF q
  <2>. QED BY <1>1, <1>3, <2>1, <2>2, <2>3, StayStep DEF AtProvider
<1>4. ASSUME NEW g, NEW taken,
             req' = [req EXCEPT ![r] = [req[r] EXCEPT !.pc = "waiting", !.frames = <<g>>,
                                                 !.prompts = @ \cup taken]],
             holders' = [holders EXCEPT ![Provider(r)] = @ \ {r}], circuit' = circuit
      PROVE  LockInv'
  <2>. DEFINE q == [req[r] EXCEPT !.pc = "waiting", !.frames = <<g>>, !.prompts = @ \cup taken]
  <2>1. req' = [req EXCEPT ![r] = q]
    BY <1>4
  <2>2. SamePlace(q, req[r]) /\ q.pc = "waiting"
    BY <1>1 DEF SamePlace, Call, Fields
  <2>. HIDE DEF q
  <2>. QED BY <1>1, <1>4, <2>1, <2>2, StayStep DEF AtProvider
<1>. QED BY <1>2, <1>3, <1>4 DEF GeminiReplies

LEMMA OllamaStep ==
  ASSUME LockInv, NEW r \in Requests, OllamaReplies(r) \/ OllamaSplits(r)
  PROVE  LockInv'
<1>1. req[r].pc \in AtProvider /\ Call(req[r])
  BY DEF OllamaReplies, OllamaSplits, AtProvider, LockInv, Placed
<1>2. CASE OllamaReplies(r)
  <2>1. PICK taken, fs :
          /\ UNCHANGED <<circuit, holders>>
          /\ req' = [req EXCEPT ![r].pc = "frame", ![r].prompts = @ \cup taken, ![r].frames = fs]
    BY <1>2 DEF OllamaReplies
  <2>. DEFINE q == [req[r] EXCEPT !.pc = "frame", !.prompts = @ \cup taken, !.frames = fs]
  <2>2. req' = [req EXCEPT ![r] = q]
    BY <2>1
  <2>3. SamePlace(q, req[r]) /\ q.pc = "frame"
    BY <1>1 DEF SamePlace, Call, Fields
  <2>. HIDE DEF q
  <2>. QED BY <1>1, <2>1, <2>2, <2>3, StayStep DEF AtProvider
<1>3. CASE OllamaSplits(r)
  <2>1. PICK fs : /\ UNCHANGED <<circuit, holders>>
                  /\ req' = [req EXCEPT ![r].pc = "waiting", ![r].frames = fs]
    BY <1>3 DEF OllamaSplits
  <2>. DEFINE q == [req[r] EXCEPT !.pc = "waiting", !.frames = fs]
  <2>2. req' = [req EXCEPT ![r] = q]
    BY <2>1
  <2>3. SamePlace(q, req[r]) /\ q.pc = "waiting"
    BY <1>1 DEF SamePlace, Call, Fields
  <2>. HIDE DEF q
  <2>. QED BY <1>1, <2>1, <2>2, <2>3, StayStep DEF AtProvider
<1>. QED BY <1>2, <1>3

LEMMA ContinueStep ==
  ASSUME LockInv, NEW r \in Requests, OllamaContinues(r)
  PROVE  LockInv'
<1>1. req[r].pc = "frame" /\ req[r].pc \in AtProvider /\ Call(req[r])
  BY DEF OllamaContinues, AtProvider, LockInv, Placed
<1>2. CASE Fail(r, RETRYABLE)
  BY <1>1, <1>2, FailStep
<1>3. ASSUME NEW fs, NEW qs, req' = [req EXCEPT ![r] = Returned(@, fs, qs)],
             UNCHANGED <<circuit, holders>>
      PROVE  LockInv'
  <2>. DEFINE q == Returned(req[r], fs, qs)
  <2>1. req' = [req EXCEPT ![r] = q]
    BY <1>3
  <2>2. SamePlace(q, req[r]) /\ q.pc \in {"frame", "waiting", "answered"}
    BY <1>1, ReturnedCall
  <2>. HIDE DEF q
  <2>. QED BY <1>1, <1>3, <2>1, <2>2, StayStep DEF AtProvider
<1>4. ASSUME NEW fs, req' = [req EXCEPT ![r] = [@ EXCEPT !.pc = "waiting", !.frames = fs]],
             UNCHANGED <<circuit, holders>>
      PROVE  LockInv'
  <2>. DEFINE q == [req[r] EXCEPT !.pc = "waiting", !.frames = fs]
  <2>1. req' = [req EXCEPT ![r] = q]
    BY <1>4
  <2>2. SamePlace(q, req[r]) /\ q.pc = "waiting"
    BY <1>1 DEF SamePlace, Call, Fields
  <2>. HIDE DEF q
  <2>. QED BY <1>1, <1>4, <2>1, <2>2, StayStep DEF AtProvider
<1>. QED BY <1>2, <1>3, <1>4 DEF OllamaContinues

LEMMA CoolDownStep ==
  ASSUME LockInv, NEW p \in Names, CoolDown(p)
  PROVE  LockInv'
<1>1. /\ circuit' \in [Names -> Circuit] /\ UNCHANGED <<holders, req>>
      /\ \A n \in Names : circuit'[n].probe = circuit[n].probe
  BY DEF CoolDown, LockInv, Circuit
<1>. QED
  BY <1>1 DEF LockInv, Placed, LocksAreHeld, ProbeHasItsCall, PlacesAreInUse, Provider

-----------------------------------------------------------------------------
LEMMA LockInvInit == Init => LockInv
<1>. SUFFICES ASSUME Init PROVE LockInv
  OBVIOUS
<1>1. Call(Idle) /\ Idle.pc = "idle" /\ Idle.at = 1 /\ Idle.probing = FALSE
  BY DEF Idle, Call, Fields
<1>2. Closed \in Circuit /\ ~Closed.probe
  BY RouterAssumption DEF Closed, Circuit
<1>3. Placed(Idle)
  BY <1>1, Listed DEF Placed, AtProvider
<1>4. \A p \in Names : holders[p] = {} /\ ~circuit[p].probe
  BY <1>2 DEF Init
<1>5. \A p \in Names : IsFiniteSet(holders[p]) /\ Cardinality(holders[p]) <= Concurrency[p]
  <2>1. TAKE p \in Names
  <2>2. holders[p] = {} /\ Concurrency[p] \in Nat
    BY <1>4, RouterAssumption
  <2>3. IsFiniteSet({}) /\ Cardinality({}) = 0
    BY FS_EmptySet
  <2>. QED BY <2>2, <2>3
<1>6. LocksAreHeld
  BY <1>4, <1>5 DEF LocksAreHeld, ProbeHasItsCall, PlacesAreInUse
<1>. QED BY <1>2, <1>3, <1>5, <1>6 DEF Init, LockInv

LEMMA LockInvStep == LockInv /\ [Next]_vars => LockInv'
<1>. SUFFICES ASSUME LockInv, [Next]_vars PROVE LockInv'
  OBVIOUS
<1>1. ASSUME NEW r \in Requests, Steps(r) \/ Arrive(r) \/ Cancel(r)
      PROVE  LockInv'
  BY <1>1, ArriveStep, CancelStep, SkipStep, AttemptStep, ExhaustedStep, AnsweredStep, SendStep,
     CallFailsStep, GeminiStep, OllamaStep, ContinueStep DEF Steps
<1>2. CASE UNCHANGED vars
  BY <1>2 DEF vars, LockInv, Placed, LocksAreHeld, ProbeHasItsCall, PlacesAreInUse, Provider
<1>. QED BY <1>1, <1>2, CoolDownStep DEF Next

\* quiz_llm_provider.py:145 (ProviderCircuitBreaker) and :231.  For
\* any providers, requests and outcomes, whoever hangs up and whichever error
\* ends a call: a probe is held for a call, and a place in a semaphore by a
\* request that is at that provider, never by more of them than it takes.
THEOREM LocksStayHeld == Spec => []LocksAreHeld
<1>1. LockInv => LocksAreHeld
  BY DEF LockInv
<1>. QED BY <1>1, LockInvInit, LockInvStep, PTL DEF Spec

\* A set of natural numbers that is not empty has a least one.
LEMMA LeastExists ==
  ASSUME NEW S \in SUBSET Nat, S # {}
  PROVE  \E n \in S : \A m \in S : n <= m
<1>1. PICK n \in S : \A m \in S : ~(<<m, n>> \in OpToRel(<, Nat))
  BY NatLessThanWellFounded, WFMin, Zenon
<1>2. \A m \in S : ~(m < n)
  BY <1>1 DEF OpToRel
<1>. QED BY <1>2

\* Induction over the natural numbers, for a set instead of an operator.
LEMMA SetInduction ==
  ASSUME NEW S, 0 \in S, \A n \in Nat : n \in S => n + 1 \in S
  PROVE  Nat \subseteq S
<1>. SUFFICES ASSUME Nat \ S # {} PROVE FALSE
  OBVIOUS
<1>1. PICK n \in Nat \ S : \A m \in Nat \ S : n <= m
  BY LeastExists
<1>2. n # 0 /\ n - 1 \in Nat /\ ~(n <= n - 1) /\ n = (n - 1) + 1
  OBVIOUS
<1>3. n - 1 \in S
  BY <1>1, <1>2
<1>. QED BY <1>2, <1>3

-----------------------------------------------------------------------------
(* The questions a request has.                                            *)

\* No two of these questions are for one slot or near-equal.
Apart(qs) ==
  \A i, j \in DOMAIN qs : i # j => qs[i].slot # qs[j].slot /\ qs[i].prompt # qs[j].prompt

FrameRecord ==
  [slots : SUBSET Slots, attempt : Nat, accepted : Seq(Question),
   groups : Seq(SUBSET Slots), recovered : Seq(Question), splitting : BOOLEAN]

\* All that a loop has for its slots, and the slots nobody has filled or may
\* still fill for it.
Held(f) == f.accepted \o f.recovered
Unfilled(f) == f.slots \ SlotsOf(Held(f))

\* What a loop has is of its slots, and the halves still to ask share nothing.
GoodFrame(f) ==
  /\ f \in FrameRecord
  /\ Apart(Held(f)) /\ SlotsOf(Held(f)) \subseteq f.slots
  /\ \A i \in DOMAIN f.groups : f.groups[i] \subseteq Unfilled(f)
  /\ \A i, j \in DOMAIN f.groups : i # j => f.groups[i] \cap f.groups[j] = {}
  /\ ~f.splitting => f.recovered = <<>> /\ f.groups = <<>>

\* g is the loop of a half of f that is no longer to be asked.
HalfOf(g, f) ==
  /\ f.splitting /\ g.slots \subseteq Unfilled(f)
  /\ \A i \in DOMAIN f.groups : g.slots \cap f.groups[i] = {}

\* The loops inside one another that fill these slots: their prompts are among
\* those taken, and no two of them have one in common.
GoodStack(fs, slots, taken) ==
  /\ fs \in Seq(FrameRecord) /\ fs # <<>>
  /\ \A k \in DOMAIN fs : GoodFrame(fs[k]) /\ PromptsOf(Held(fs[k])) \subseteq taken
  /\ fs[1].slots \subseteq slots
  /\ \A k \in 1 .. (Len(fs) - 1) : HalfOf(fs[k + 1], fs[k])
  /\ \A k, l \in DOMAIN fs :
       k # l => PromptsOf(Held(fs[k])) \cap PromptsOf(Held(fs[l])) = {}

\* In the part it is at, a request has filled the slots of the parts before.
InPart(q, size) ==
  /\ q.part \in DOMAIN Parts(size)
  /\ \A s \in SlotsOf(q.questions) : (s - 1) \div size < q.part - 1
  /\ GoodStack(q.frames, Parts(size)[q.part], q.prompts \ PromptsOf(q.questions))
  /\ q.pc # "frame" => ~Last(q.frames).splitting
  /\ Providers[q.at] # "ollama" => q.pc # "frame" /\ Len(q.frames) = 1

Whole(qs) == Len(qs) = NSlots /\ SlotsOf(qs) = Slots /\ Cardinality(PromptsOf(qs)) = NSlots

Content(q) ==
  /\ q.prompts \subseteq Prompts
  /\ q.outcome \in {"none", "ok", "refused", "retryable"}
  /\ q.pc # "done" => q.outcome = "none"
  /\ q.outcome = "ok" => Whole(q.questions)
  /\ q.pc \in AtProvider =>
       /\ q.questions \in Seq(Question) /\ Apart(q.questions)
       /\ PromptsOf(q.questions) \subseteq q.prompts
       /\ q.pc # "answered" => InPart(q, BatchSize[Providers[q.at]])

ContentInv == \A r \in Requests : Content(req[r])

-----------------------------------------------------------------------------
\* The elements of two sequences, one behind the other.
LEMMA ConcatFacts ==
  ASSUME NEW X, NEW s \in Seq(X), NEW t \in Seq(X)
  PROVE  /\ s \o t \in Seq(X) /\ Len(s \o t) = Len(s) + Len(t)
         /\ \A i \in DOMAIN s : i \in DOMAIN (s \o t) /\ (s \o t)[i] = s[i]
         /\ \A j \in DOMAIN t : Len(s) + j \in DOMAIN (s \o t) /\ (s \o t)[Len(s) + j] = t[j]
         /\ \A i \in DOMAIN (s \o t) :
              \/ i \in DOMAIN s /\ (s \o t)[i] = s[i]
              \/ i \notin DOMAIN s /\ i - Len(s) \in DOMAIN t /\ (s \o t)[i] = t[i - Len(s)]
  OBVIOUS

\* The slots and the prompts of two sequences of questions.
LEMMA ConcatSets ==
  ASSUME NEW s \in Seq(Question), NEW t \in Seq(Question)
  PROVE  /\ SlotsOf(s \o t) = SlotsOf(s) \cup SlotsOf(t)
         /\ PromptsOf(s \o t) = PromptsOf(s) \cup PromptsOf(t)
<1>. DEFINE u == s \o t
<1>1. /\ \A i \in DOMAIN s : i \in DOMAIN u /\ u[i] = s[i]
      /\ \A j \in DOMAIN t : Len(s) + j \in DOMAIN u /\ u[Len(s) + j] = t[j]
      /\ \A i \in DOMAIN u : \/ i \in DOMAIN s /\ u[i] = s[i]
                             \/ i - Len(s) \in DOMAIN t /\ u[i] = t[i - Len(s)]
  BY ConcatFacts
<1>. HIDE DEF u
<1>2. SlotsOf(u) = SlotsOf(s) \cup SlotsOf(t)
  BY <1>1 DEF SlotsOf
<1>3. PromptsOf(u) = PromptsOf(s) \cup PromptsOf(t)
  BY <1>1 DEF PromptsOf
<1>. QED BY <1>2, <1>3 DEF u

\* Questions that are apart from those before them stay so behind them.
LEMMA ConcatApart ==
  ASSUME NEW s \in Seq(Question), NEW t \in Seq(Question), Apart(s), Apart(t),
         SlotsOf(s) \cap SlotsOf(t) = {}, PromptsOf(s) \cap PromptsOf(t) = {}
  PROVE  Apart(s \o t)
<1>. DEFINE u == s \o t
<1>1. \A i \in DOMAIN u : \/ i \in DOMAIN s /\ u[i] = s[i]
                          \/ i \notin DOMAIN s /\ i - Len(s) \in DOMAIN t /\ u[i] = t[i - Len(s)]
  BY ConcatFacts
<1>2. DOMAIN u \subseteq Int /\ Len(s) \in Int
  BY ConcatFacts
<1>. HIDE DEF u
<1>3. \A i \in DOMAIN s : s[i].slot \in SlotsOf(s) /\ s[i].prompt \in PromptsOf(s)
  BY DEF SlotsOf, PromptsOf
<1>4. \A i \in DOMAIN t : t[i].slot \in SlotsOf(t) /\ t[i].prompt \in PromptsOf(t)
  BY DEF SlotsOf, PromptsOf
<1>5. ASSUME NEW i \in DOMAIN u, NEW j \in DOMAIN u, i # j
      PROVE  u[i].slot # u[j].slot /\ u[i].prompt # u[j].prompt
  <2>1. CASE i \in DOMAIN s /\ j \in DOMAIN s
    BY <1>1, <1>5, <2>1 DEF Apart
  <2>2. CASE i \notin DOMAIN s /\ j \notin DOMAIN s
    <3>1. i - Len(s) # j - Len(s)
      BY <1>2, <1>5
    <3>. QED BY <1>1, <2>2, <3>1 DEF Apart
  <2>3. CASE i \in DOMAIN s /\ j \notin DOMAIN s
    BY <1>1, <1>3, <1>4, <2>3
  <2>4. CASE i \notin DOMAIN s /\ j \in DOMAIN s
    BY <1>1, <1>3, <1>4, <2>4
  <2>. QED BY <2>1, <2>2, <2>3, <2>4
<1>. QED BY <1>5 DEF Apart, u

\* What is apart as a whole is apart in its parts, and the parts from each other.
LEMMA ApartParts ==
  ASSUME NEW s \in Seq(Question), NEW t \in Seq(Question), Apart(s \o t)
  PROVE  /\ Apart(s) /\ Apart(t)
         /\ SlotsOf(s) \cap SlotsOf(t) = {} /\ PromptsOf(s) \cap PromptsOf(t) = {}
<1>. DEFINE u == s \o t
<1>1. /\ \A i \in DOMAIN s : i \in DOMAIN u /\ u[i] = s[i]
      /\ \A j \in DOMAIN t : Len(s) + j \in DOMAIN u /\ u[Len(s) + j] = t[j]
  BY ConcatFacts
<1>2. /\ \A i \in DOMAIN s : i \in 1 .. Len(s)
      /\ \A i \in DOMAIN t : i \in 1 .. Len(t)
      /\ Len(s) \in Nat
  OBVIOUS
<1>3. Apart(u)
  OBVIOUS
<1>. HIDE DEF u
<1>4. Apart(s)
  BY <1>1, <1>3 DEF Apart
<1>5. \A i, j \in DOMAIN t : i # j => Len(s) + i # Len(s) + j
  BY <1>2
<1>6. Apart(t)
  BY <1>1, <1>3, <1>5 DEF Apart
<1>7. \A i \in DOMAIN s, j \in DOMAIN t : i # Len(s) + j
  BY <1>2
<1>8. \A i \in DOMAIN s, j \in DOMAIN t : s[i].slot # t[j].slot /\ s[i].prompt # t[j].prompt
  BY <1>1, <1>3, <1>7 DEF Apart
<1>. QED BY <1>4, <1>6, <1>8 DEF SlotsOf, PromptsOf

\* No questions.
LEMMA EmptyFacts ==
  /\ <<>> \in Seq(Question) /\ Apart(<<>>) /\ SlotsOf(<<>>) = {} /\ PromptsOf(<<>>) = {}
BY DEF Apart, SlotsOf, PromptsOf

LEMMA ConcatEmpty ==
  ASSUME NEW s \in Seq(Question)
  PROVE  s \o <<>> = s
OBVIOUS

\* Questions are for slots of the plan.
LEMMA QuestionIn ==
  ASSUME NEW s \in Seq(Question)
  PROVE  SlotsOf(s) \subseteq Slots /\ PromptsOf(s) \subseteq Prompts
<1>1. \A i \in DOMAIN s : s[i] \in Question
  OBVIOUS
<1>. QED BY <1>1 DEF SlotsOf, PromptsOf, Question

\* Apart questions are as many as their slots, and as their prompts.
LEMMA ApartCounted ==
  ASSUME NEW s \in Seq(Question), Apart(s)
  PROVE  /\ IsFiniteSet(SlotsOf(s)) /\ Cardinality(SlotsOf(s)) = Len(s)
         /\ IsFiniteSet(PromptsOf(s)) /\ Cardinality(PromptsOf(s)) = Len(s)
<1>. DEFINE D == 1 .. Len(s)
<1>a. Len(s) \in Nat /\ D = DOMAIN s
  OBVIOUS
<1>1. Len(s) \in Nat /\ D = DOMAIN s /\ IsFiniteSet(D) /\ Cardinality(D) = Len(s)
  <2>1. IsFiniteSet(D) /\ Cardinality(D) = IF 1 > Len(s) THEN 0 ELSE Len(s) - 1 + 1
    BY <1>a, FS_Interval
  <2>. QED BY <1>a, <2>1
<1>2. ASSUME NEW f, NEW T, f \in Bijection(D, T)
      PROVE  IsFiniteSet(T) /\ Cardinality(T) = Len(s)
  BY <1>1, <1>2, FS_Bijection DEF ExistsBijection
<1>. HIDE DEF D
<1>3. [i \in D |-> s[i].slot] \in Bijection(D, SlotsOf(s))
  BY <1>1 DEF Bijection, Injection, Surjection, IsInjective, SlotsOf, Apart
<1>4. [i \in D |-> s[i].prompt] \in Bijection(D, PromptsOf(s))
  BY <1>1 DEF Bijection, Injection, Surjection, IsInjective, PromptsOf, Apart
<1>. QED BY <1>2, <1>3, <1>4

\* The places of the numbers of a finite set are 1, 2, ... up to their number.
LEMMA RankIsPlace ==
  ASSUME NEW S \in SUBSET Int, IsFiniteSet(S)
  PROVE  /\ \A s \in S : Rank(s, S) \in 1 .. Cardinality(S)
         /\ \A s, t \in S : Rank(s, S) = Rank(t, S) => s = t
         /\ \A k \in 1 .. Cardinality(S) : \E s \in S : Rank(s, S) = k
<1>. DEFINE Below(s) == {t \in S : t <= s}
            n == Cardinality(S)
<1>1. n \in Nat
  BY FS_CardinalityType
<1>2. ASSUME NEW s \in S
      PROVE  IsFiniteSet(Below(s)) /\ Cardinality(Below(s)) \in 1 .. n
  <2>1. Below(s) \in SUBSET S /\ s \in Below(s)
    OBVIOUS
  <2>2. IsFiniteSet(Below(s)) /\ Cardinality(Below(s)) <= n
    BY <2>1, FS_Subset
  <2>3. Cardinality(Below(s)) \in Nat /\ Cardinality(Below(s)) # 0
    BY <2>1, <2>2, FS_CardinalityType, FS_EmptySet
  <2>. HIDE DEF Below, n
  <2>. QED BY <1>1, <2>2, <2>3
<1>3. ASSUME NEW s \in S, NEW t \in S, s < t
      PROVE  Cardinality(Below(s)) # Cardinality(Below(t))
  <2>a. s \in Int /\ t \in Int /\ \A u \in S : u \in Int
    OBVIOUS
  <2>b. \A u \in S : u <= s => u <= t
    BY <1>3, <2>a
  <2>c. t <= t /\ ~(t <= s)
    BY <1>3, <2>a
  <2>1. Below(s) \in SUBSET Below(t) /\ t \in Below(t) /\ t \notin Below(s)
    BY <2>b, <2>c
  <2>2. IsFiniteSet(Below(t))
    BY <1>2
  <2>. HIDE DEF Below
  <2>. QED BY <2>1, <2>2, FS_Subset
<1>4. \A s, t \in S : Cardinality(Below(s)) = Cardinality(Below(t)) => s = t
  <2>. HIDE DEF Below
  <2>1. \A s, t \in S : s < t \/ t < s \/ s = t
    OBVIOUS
  <2>. QED BY <1>3, <2>1
<1>. DEFINE rank == [s \in S |-> Cardinality(Below(s))]
<1>5. \A s \in S : Rank(s, S) = Cardinality(Below(s))
  BY DEF Rank
<1>. HIDE DEF Below, n
<1>6. rank \in Injection(S, 1 .. n)
  BY <1>2, <1>4 DEF Injection, IsInjective
<1>7. IsFiniteSet(1 .. n) /\ Cardinality(1 .. n) = n
  <2>1. IsFiniteSet(1 .. n) /\ Cardinality(1 .. n) = IF 1 > n THEN 0 ELSE n - 1 + 1
    BY <1>1, FS_Interval
  <2>. QED BY <1>1, <2>1
<1>8. rank \in Surjection(S, 1 .. n)
  BY <1>6, <1>7, FS_Injection DEF n
<1>9. \A k \in 1 .. n : \E s \in S : Cardinality(Below(s)) = k
  BY <1>8 DEF Surjection
<1>. QED BY <1>2, <1>4, <1>5, <1>9 DEF n

Picked(qs, at, n) == [k \in 1 .. n |-> qs[at[k]]]
PicksApart(qs, at, n) ==
  \A k, m \in 1 .. n : k # m => /\ qs[at[k]].slot # qs[at[m]].slot
                                /\ qs[at[k]].prompt # qs[at[m]].prompt

\* Questions picked out of others, each once.
LEMMA PickedApart ==
  ASSUME NEW qs \in Seq(Question), NEW n \in Nat, NEW at \in [1 .. n -> DOMAIN qs],
         PicksApart(qs, at, n), NEW new, new = Picked(qs, at, n)
  PROVE  /\ new \in Seq(Question) /\ Len(new) = n /\ Apart(new)
         /\ SlotsOf(new) \subseteq SlotsOf(qs) /\ PromptsOf(new) \subseteq PromptsOf(qs)
<1>1. \A k \in 1 .. n : at[k] \in DOMAIN qs /\ new[k] = qs[at[k]] /\ new[k] \in Question
  BY DEF Picked
<1>2. new \in [1 .. n -> Question]
  BY <1>1 DEF Picked
<1>3. new \in Seq(Question) /\ Len(new) = n /\ DOMAIN new = 1 .. n
  BY <1>2
<1>4. Apart(new)
  BY <1>1, <1>3 DEF Apart, PicksApart
<1>. QED BY <1>1, <1>3, <1>4 DEF SlotsOf, PromptsOf

\* Unequal drops what is near-equal to a question before or taken already.
LEMMA UnequalFacts ==
  ASSUME NEW qs \in Seq(Question), NEW taken,
         \A i, j \in DOMAIN qs : i # j => qs[i].slot # qs[j].slot
  PROVE  LET new == Unequal(qs, taken)
         IN  /\ new \in Seq(Question) /\ Apart(new)
             /\ SlotsOf(new) \subseteq SlotsOf(qs) /\ PromptsOf(new) \cap taken = {}
<1>. DEFINE fresh(i) == /\ qs[i].prompt \notin taken
                        /\ \A j \in 1..(i - 1) : qs[j].prompt # qs[i].prompt
            keep == {i \in DOMAIN qs : fresh(i)}
            n == Cardinality(keep)
            at == [k \in 1 .. n |-> CHOOSE i \in keep : Rank(i, keep) = k]
            new == [k \in 1 .. n |-> qs[at[k]]]
<1>1. Len(qs) \in Nat /\ DOMAIN qs = 1 .. Len(qs)
  OBVIOUS
<1>2. keep \in SUBSET Int /\ IsFiniteSet(keep)
  <2>1. keep \in SUBSET (1 .. Len(qs)) /\ IsFiniteSet(1 .. Len(qs))
    BY <1>1, FS_Interval
  <2>2. keep \in SUBSET Int
    BY <1>1
  <2>. HIDE DEF keep
  <2>. QED BY <2>1, <2>2, FS_Subset
<1>3. Unequal(qs, taken) = new
  BY DEF Unequal
<1>4. ASSUME NEW i \in keep, NEW j \in keep, i # j
      PROVE  qs[i].prompt # qs[j].prompt /\ qs[i].prompt \notin taken
  <2>1. i \in 1 .. Len(qs) /\ j \in 1 .. Len(qs)
    BY <1>1
  <2>2. i \in 1 .. (j - 1) \/ j \in 1 .. (i - 1)
    BY <1>1, <1>4, <2>1
  <2>. QED BY <2>2
<1>5. \A i \in keep : qs[i].prompt \notin taken /\ i \in DOMAIN qs
  OBVIOUS
<1>. HIDE DEF keep
<1>6. n \in Nat /\ \A k \in 1 .. n : \E s \in keep : Rank(s, keep) = k
  BY <1>2, RankIsPlace, FS_CardinalityType
<1>7. \A k \in 1 .. n : at[k] \in keep /\ Rank(at[k], keep) = k
  BY <1>6
<1>. HIDE DEF at
<1>8. \A k, m \in 1 .. n : at[k] = at[m] => k = m
  BY <1>7
<1>9. at \in [1 .. n -> DOMAIN qs]
  BY <1>5, <1>7 DEF at
<1>10. \A k, m \in 1 .. n : k # m => /\ qs[at[k]].slot # qs[at[m]].slot
                                     /\ qs[at[k]].prompt # qs[at[m]].prompt
  BY <1>4, <1>5, <1>7, <1>8 DEF Apart
<1>. HIDE DEF n
<1>a. new = [k \in 1 .. n |-> qs[at[k]]]
  OBVIOUS
<1>b. DOMAIN new = 1 .. n /\ \A k \in 1 .. n : new[k].prompt \notin taken
  BY <1>5, <1>7
<1>. HIDE DEF new
<1>11. /\ new \in Seq(Question) /\ Len(new) = n /\ Apart(new)
       /\ SlotsOf(new) \subseteq SlotsOf(qs) /\ PromptsOf(new) \subseteq PromptsOf(qs)
  <2>1. new = Picked(qs, at, n) /\ n \in Nat
    BY <1>6, <1>a DEF Picked
  <2>2. PicksApart(qs, at, n)
    BY <1>10 DEF PicksApart
  <2>. QED BY ONLY qs \in Seq(Question), <1>9, <2>1, <2>2, PickedApart
<1>12. PromptsOf(new) \cap taken = {}
  BY <1>b DEF PromptsOf
<1>. QED BY <1>3, <1>11, <1>12

\* InPlanOrder only orders questions that are apart.
LEMMA PlanOrderFacts ==
  ASSUME NEW qs \in Seq(Question), Apart(qs)
  PROVE  LET new == InPlanOrder(qs)
         IN  /\ new \in Seq(Question) /\ Len(new) = Len(qs) /\ Apart(new)
             /\ SlotsOf(new) \subseteq SlotsOf(qs) /\ PromptsOf(new) \subseteq PromptsOf(qs)
<1>. DEFINE S == SlotsOf(qs)
            n == Len(qs)
            at == [k \in 1 .. n |-> CHOOSE i \in DOMAIN qs : Rank(qs[i].slot, S) = k]
            new == [k \in 1 .. n |-> qs[at[k]]]
<1>1. n \in Nat /\ DOMAIN qs = 1 .. n /\ InPlanOrder(qs) = new
  BY DEF InPlanOrder
<1>2. S \in SUBSET Int /\ IsFiniteSet(S) /\ Cardinality(S) = n
  <2>1. S \subseteq Slots /\ IsFiniteSet(S) /\ Cardinality(S) = n
    BY QuestionIn, ApartCounted
  <2>2. Slots \subseteq Int
    BY RouterAssumption DEF Slots
  <2>. QED BY <2>1, <2>2
<1>3. \A s \in S : \E i \in DOMAIN qs : qs[i].slot = s
  BY DEF SlotsOf
<1>. HIDE DEF S, n
<1>4. \A k \in 1 .. n : \E i \in DOMAIN qs : Rank(qs[i].slot, S) = k
  BY <1>2, <1>3, RankIsPlace
<1>5. \A k \in 1 .. n : at[k] \in DOMAIN qs /\ Rank(qs[at[k]].slot, S) = k
  BY <1>4
<1>6. at \in [1 .. n -> DOMAIN qs]
  BY <1>5
<1>. HIDE DEF at
<1>7. \A k, m \in 1 .. n : at[k] = at[m] => k = m
  BY <1>5
<1>8. \A k, m \in 1 .. n : k # m => /\ qs[at[k]].slot # qs[at[m]].slot
                                    /\ qs[at[k]].prompt # qs[at[m]].prompt
  BY <1>5, <1>7 DEF Apart
<1>9. /\ new \in Seq(Question) /\ Len(new) = n /\ Apart(new)
      /\ SlotsOf(new) \subseteq SlotsOf(qs) /\ PromptsOf(new) \subseteq PromptsOf(qs)
  <2>1. new = Picked(qs, at, n) /\ n \in Nat
    BY <1>1 DEF Picked
  <2>2. PicksApart(qs, at, n)
    BY <1>8 DEF PicksApart
  <2>. HIDE DEF new
  <2>. QED BY ONLY qs \in Seq(Question), <1>6, <2>1, <2>2, PickedApart
<1>. QED BY <1>1, <1>9 DEF n

\* The candidate c can join those taken so far, and what is taken of the first.
FitsIn(c, state, f, taken) ==
  /\ c.slot \in f.slots \ SlotsOf(f.accepted \o state)
  /\ c.cited
  /\ c.prompt \notin taken \cup PromptsOf(state)
TakesNext(F, k, qs, f, taken) ==
  IF FitsIn(qs[k], F[k - 1], f, taken) THEN Append(F[k - 1], qs[k]) ELSE F[k - 1]
Takes(F, n, qs, f, taken) ==
  F = [k \in 0 .. n |-> IF k = 0 THEN <<>> ELSE TakesNext(F, k, qs, f, taken)]

\* The loop over the candidates is defined, whatever they are.
LEMMA TakesExists ==
  ASSUME NEW qs, NEW f, NEW taken, NEW n \in Nat
  PROVE  \E F : Takes(F, n, qs, f, taken)
<1>. DEFINE S == {m \in Nat : \E F : Takes(F, m, qs, f, taken)}
<1>1. 0 \in S
  <2>. DEFINE F == [k \in {0} |-> <<>>]
  <2>1. 0 .. 0 = {0}
    OBVIOUS
  <2>2. Takes(F, 0, qs, f, taken)
    BY <2>1 DEF Takes
  <2>. QED BY <2>2
<1>2. ASSUME NEW m \in Nat, m \in S PROVE m + 1 \in S
  <2>1. PICK F : Takes(F, m, qs, f, taken)
    BY <1>2
  <2>. DEFINE G == [k \in 0 .. (m + 1) |-> IF k = m + 1 THEN TakesNext(F, k, qs, f, taken) ELSE F[k]]
  <2>2. ASSUME NEW k \in 0 .. (m + 1), k # 0
        PROVE  G[k] = TakesNext(G, k, qs, f, taken)
    <3>1. k - 1 \in 0 .. m /\ k - 1 # m + 1 /\ k - 1 \in 0 .. (m + 1) /\ (k # m + 1 => k \in 0 .. m)
      BY <2>2
    <3>2. G[k - 1] = F[k - 1]
      BY <3>1
    <3>3. TakesNext(G, k, qs, f, taken) = TakesNext(F, k, qs, f, taken)
      BY <3>2 DEF TakesNext
    <3>4. CASE k = m + 1
      BY <3>3, <3>4
    <3>5. CASE k # m + 1
      <4>1. k \in 0 .. m
        BY <3>1, <3>5
      <4>2. F[k] = TakesNext(F, k, qs, f, taken)
        BY <2>1, <2>2, <4>1 DEF Takes
      <4>3. G[k] = F[k]
        BY <3>5
      <4>. QED BY <3>3, <4>2, <4>3
    <3>. QED BY <3>4, <3>5
  <2>3. G[0] = <<>>
    <3>1. 0 \in 0 .. m /\ 0 # m + 1 /\ 0 \in 0 .. (m + 1)
      OBVIOUS
    <3>2. F[0] = <<>>
      BY <2>1, <3>1 DEF Takes
    <3>. QED BY <3>1, <3>2
  <2>4. G = [k \in 0 .. (m + 1) |-> G[k]]
    OBVIOUS
  <2>. HIDE DEF G
  <2>5. Takes(G, m + 1, qs, f, taken)
    BY <2>2, <2>3, <2>4 DEF Takes
  <2>. QED BY <2>5
<1>. HIDE DEF S
<1>3. Nat \subseteq S
  BY <1>1, <1>2, SetInduction
<1>. QED BY <1>3 DEF S

\* Accepted is what that loop has taken at its end.
LEMMA AcceptedIs ==
  ASSUME NEW qs \in Seq(Question), NEW f, NEW taken
  PROVE  \E F : Takes(F, Len(qs), qs, f, taken) /\ Accepted(qs, f, taken) = F[Len(qs)]
<1>. DEFINE F == CHOOSE F : F = [k \in 0 .. Len(qs) |->
                  IF k = 0 THEN <<>>
                  ELSE IF /\ qs[k].slot \in f.slots \ SlotsOf(f.accepted \o F[k - 1])
                          /\ qs[k].cited
                          /\ qs[k].prompt \notin taken \cup PromptsOf(F[k - 1])
                       THEN Append(F[k - 1], qs[k]) ELSE F[k - 1]]
<1>1. Accepted(qs, f, taken) = F[Len(qs)]
  BY DEF Accepted
<1>2. Takes(F, Len(qs), qs, f, taken)
  <2>1. Len(qs) \in Nat
    OBVIOUS
  <2>2. \E G : Takes(G, Len(qs), qs, f, taken)
    BY <2>1, TakesExists
  <2>3. \E G : G = [k \in 0 .. Len(qs) |->
                  IF k = 0 THEN <<>>
                  ELSE IF /\ qs[k].slot \in f.slots \ SlotsOf(f.accepted \o G[k - 1])
                          /\ qs[k].cited
                          /\ qs[k].prompt \notin taken \cup PromptsOf(G[k - 1])
                       THEN Append(G[k - 1], qs[k]) ELSE G[k - 1]]
    BY <2>2, Zenon DEF Takes, TakesNext, FitsIn
  <2>4. F = [k \in 0 .. Len(qs) |->
                  IF k = 0 THEN <<>>
                  ELSE IF /\ qs[k].slot \in f.slots \ SlotsOf(f.accepted \o F[k - 1])
                          /\ qs[k].cited
                          /\ qs[k].prompt \notin taken \cup PromptsOf(F[k - 1])
                       THEN Append(F[k - 1], qs[k]) ELSE F[k - 1]]
    BY <2>3, Zenon
  <2>. HIDE DEF F
  <2>. QED BY <2>4, Zenon DEF Takes, TakesNext, FitsIn
<1>. QED BY <1>1, <1>2

\* One more question, for a slot and with a prompt not taken yet.
LEMMA AppendQuestion ==
  ASSUME NEW s \in Seq(Question), NEW c \in Question
  PROVE  /\ Append(s, c) \in Seq(Question)
         /\ SlotsOf(Append(s, c)) = SlotsOf(s) \cup {c.slot}
         /\ PromptsOf(Append(s, c)) = PromptsOf(s) \cup {c.prompt}
         /\ Apart(s) /\ c.slot \notin SlotsOf(s) /\ c.prompt \notin PromptsOf(s)
              => Apart(Append(s, c))
<1>1. <<c>> \in Seq(Question) /\ Append(s, c) = s \o <<c>> /\ Apart(<<c>>)
  BY DEF Apart
<1>2. SlotsOf(<<c>>) = {c.slot} /\ PromptsOf(<<c>>) = {c.prompt}
  BY DEF SlotsOf, PromptsOf
<1>. DEFINE one == <<c>>
<1>a. SlotsOf(s \o one) = SlotsOf(s) \cup SlotsOf(one) /\ PromptsOf(s \o one) = PromptsOf(s) \cup PromptsOf(one)
  BY <1>1, ConcatSets
<1>b. Append(s, c) \in Seq(Question)
  OBVIOUS
<1>3. /\ Append(s, c) \in Seq(Question)
      /\ SlotsOf(Append(s, c)) = SlotsOf(s) \cup {c.slot}
      /\ PromptsOf(Append(s, c)) = PromptsOf(s) \cup {c.prompt}
  BY <1>1, <1>2, <1>a, <1>b
<1>4. ASSUME Apart(s), c.slot \notin SlotsOf(s), c.prompt \notin PromptsOf(s)
      PROVE  Apart(Append(s, c))
  BY <1>1, <1>2, <1>4, ConcatApart
<1>. QED BY <1>3, <1>4

\* Accepted takes questions for missing slots, apart from all taken before.
LEMMA AcceptedFacts ==
  ASSUME NEW qs \in Seq(Question), NEW f, f.slots \subseteq Slots, f.accepted \in Seq(Question),
         NEW taken
  PROVE  LET new == Accepted(qs, f, taken)
         IN  /\ new \in Seq(Question) /\ Apart(new)
             /\ SlotsOf(new) \subseteq Missing(f) /\ PromptsOf(new) \cap taken = {}
<1>. DEFINE Good(s) == /\ s \in Seq(Question) /\ Apart(s)
                       /\ SlotsOf(s) \subseteq Missing(f) /\ PromptsOf(s) \cap taken = {}
<1>1. PICK F : Takes(F, Len(qs), qs, f, taken) /\ Accepted(qs, f, taken) = F[Len(qs)]
  BY AcceptedIs
<1>. DEFINE S == {m \in Nat : m <= Len(qs) => Good(F[m])}
<1>2. 0 \in S
  <2>1. Len(qs) \in Nat /\ 0 \in 0 .. Len(qs)
    OBVIOUS
  <2>2. F[0] = <<>>
    BY <1>1, <2>1 DEF Takes
  <2>. QED BY <2>2, EmptyFacts
<1>3. ASSUME NEW m \in Nat, m \in S PROVE m + 1 \in S
  <2>1. SUFFICES ASSUME m + 1 <= Len(qs) PROVE Good(F[m + 1])
    OBVIOUS
  <2>a. /\ Len(qs) \in Nat /\ m + 1 \in 0 .. Len(qs) /\ m + 1 # 0 /\ (m + 1) - 1 = m /\ m <= Len(qs)
        /\ m + 1 \in DOMAIN qs
    BY <2>1
  <2>b. Good(F[m])
    BY <1>3, <2>a
  <2>. DEFINE s == F[m]
              c == qs[m + 1]
  <2>c. c \in Question
    BY <2>a
  <2>2. F[m + 1] = IF FitsIn(c, s, f, taken) THEN Append(s, c) ELSE s
    <3>1. F[m + 1] = TakesNext(F, m + 1, qs, f, taken)
      BY <1>1, <2>a DEF Takes
    <3>. QED BY <2>a, <3>1 DEF TakesNext
  <2>. HIDE DEF s, c
  <2>3. s \in Seq(Question) /\ Apart(s) /\ SlotsOf(s) \subseteq Missing(f) /\ PromptsOf(s) \cap taken = {}
    BY <2>b DEF s
  <2>4. CASE FitsIn(c, s, f, taken)
    <3>1. SlotsOf(f.accepted \o s) = SlotsOf(f.accepted) \cup SlotsOf(s)
      BY <2>3, ConcatSets
    <3>2. /\ c.slot \in Missing(f) /\ c.slot \notin SlotsOf(s)
          /\ c.prompt \notin taken /\ c.prompt \notin PromptsOf(s)
      BY <2>4, <3>1 DEF FitsIn, Missing
    <3>3. /\ Append(s, c) \in Seq(Question) /\ Apart(Append(s, c))
          /\ SlotsOf(Append(s, c)) = SlotsOf(s) \cup {c.slot}
          /\ PromptsOf(Append(s, c)) = PromptsOf(s) \cup {c.prompt}
      BY <2>3, <2>c, <3>2, AppendQuestion
    <3>4. F[m + 1] = Append(s, c)
      BY <2>2, <2>4
    <3>5. Good(Append(s, c))
      BY <2>3, <3>2, <3>3
    <3>. HIDE DEF Good
    <3>. QED BY <3>4, <3>5
  <2>5. CASE ~FitsIn(c, s, f, taken)
    <3>1. F[m + 1] = s /\ Good(s)
      BY <2>2, <2>3, <2>5
    <3>. HIDE DEF Good
    <3>. QED BY <3>1
  <2>. QED BY <2>4, <2>5
<1>. HIDE DEF S
<1>4. Nat \subseteq S
  BY <1>2, <1>3, SetInduction
<1>5. Len(qs) \in Nat /\ Len(qs) <= Len(qs)
  OBVIOUS
<1>6. Good(F[Len(qs)])
  BY <1>4, <1>5 DEF S
<1>. QED BY <1>1, <1>6

\* The elements of a sequence and one more.
LEMMA Appended ==
  ASSUME NEW X, NEW t \in Seq(X), NEW g \in X
  PROVE  LET gs == Append(t, g)
         IN  /\ gs \in Seq(X) /\ gs # <<>> /\ Len(gs) = Len(t) + 1 /\ DOMAIN gs = 1 .. (Len(t) + 1)
             /\ gs[Len(t) + 1] = g /\ \A k \in 1 .. Len(t) : gs[k] = t[k]
OBVIOUS

\* The first m elements of a sequence and one more.
LEMMA StackSeq ==
  ASSUME NEW X, NEW fs \in Seq(X), NEW m \in 0 .. Len(fs), NEW g \in X
  PROVE  LET gs == Append(SubSeq(fs, 1, m), g)
         IN  /\ gs \in Seq(X) /\ gs # <<>> /\ Len(gs) = m + 1 /\ DOMAIN gs = 1 .. (m + 1)
             /\ gs[m + 1] = g /\ \A k \in 1 .. m : k \in DOMAIN fs /\ gs[k] = fs[k]
             /\ Last(gs) = g
<1>. DEFINE t == SubSeq(fs, 1, m)
            gs == Append(t, g)
<1>a. Len(fs) \in Nat /\ m \in Nat /\ m <= Len(fs) /\ 1 .. m \subseteq 1 .. Len(fs) /\ DOMAIN fs = 1 .. Len(fs)
  OBVIOUS
<1>1. t \in Seq(X) /\ Len(t) = m /\ \A k \in 1 .. m : t[k] = fs[k]
  <2>1. t = [k \in 1 .. m |-> fs[k]]
    BY <1>a
  <2>2. \A k \in 1 .. m : fs[k] \in X
    BY <1>a
  <2>. HIDE DEF t
  <2>3. t \in [1 .. m -> X]
    BY <2>1, <2>2
  <2>. QED BY <1>a, <2>1, <2>3
<1>. HIDE DEF t
<1>2. /\ gs \in Seq(X) /\ gs # <<>> /\ Len(gs) = m + 1 /\ DOMAIN gs = 1 .. (m + 1)
      /\ gs[m + 1] = g /\ \A k \in 1 .. m : gs[k] = t[k]
  BY <1>1, <1>a, Appended
<1>. QED BY <1>1, <1>2, <1>a DEF Last, t

\* The loops below the m-th stay, and g is put on top of them.
LEMMA StackTop ==
  ASSUME NEW fs, NEW slots, NEW taken, GoodStack(fs, slots, taken), NEW m \in 0 .. Len(fs),
         NEW g, GoodFrame(g), NEW more, taken \subseteq more, PromptsOf(Held(g)) \subseteq more,
         m = 0 => g.slots \subseteq slots, m # 0 => HalfOf(g, fs[m]),
         \A k \in 1 .. m : PromptsOf(Held(g)) \cap PromptsOf(Held(fs[k])) = {}
  PROVE  GoodStack(Append(SubSeq(fs, 1, m), g), slots, more)
<1>. DEFINE gs == Append(SubSeq(fs, 1, m), g)
<1>1. fs \in Seq(FrameRecord) /\ g \in FrameRecord
  BY DEF GoodStack, GoodFrame
<1>2. /\ gs \in Seq(FrameRecord) /\ gs # <<>> /\ Len(gs) = m + 1 /\ DOMAIN gs = 1 .. (m + 1)
      /\ gs[m + 1] = g /\ \A k \in 1 .. m : k \in DOMAIN fs /\ gs[k] = fs[k]
  BY <1>1, StackSeq
<1>. HIDE DEF gs
<1>3. Len(fs) \in Nat /\ m \in Nat /\ m <= Len(fs)
  BY <1>1
<1>4. \A k \in 1 .. (m + 1) : k = m + 1 \/ k \in 1 .. m
  BY <1>3
<1>5. \A k \in DOMAIN gs : GoodFrame(gs[k]) /\ PromptsOf(Held(gs[k])) \subseteq more
  BY <1>2, <1>4 DEF GoodStack
<1>6. gs[1].slots \subseteq slots
  <2>1. m = 0 \/ 1 \in 1 .. m
    BY <1>3
  <2>2. CASE m = 0
    <3>1. m + 1 = 1
      BY <2>2
    <3>. QED BY <1>2, <2>2, <3>1
  <2>. QED BY <1>2, <2>1, <2>2 DEF GoodStack
<1>7. ASSUME NEW k \in 1 .. (Len(gs) - 1) PROVE HalfOf(gs[k + 1], gs[k])
  <2>0. Len(gs) - 1 = m
    BY <1>2, <1>3
  <2>1. k \in 1 .. m /\ (k = m \/ (k + 1 \in 1 .. m /\ k \in 1 .. (Len(fs) - 1)))
    BY <2>0, <1>3
  <2>2. CASE k = m
    <3>1. m # 0 /\ gs[k + 1] = g /\ gs[k] = fs[m]
      BY <1>2, <1>3, <2>1, <2>2
    <3>. QED BY <3>1
  <2>3. CASE k + 1 \in 1 .. m /\ k \in 1 .. (Len(fs) - 1)
    <3>1. gs[k + 1] = fs[k + 1] /\ gs[k] = fs[k]
      BY <1>2, <2>1, <2>3
    <3>2. HalfOf(fs[k + 1], fs[k])
      BY <2>3 DEF GoodStack
    <3>. QED BY <3>1, <3>2
  <2>. QED BY <2>1, <2>2, <2>3
<1>8. ASSUME NEW k \in DOMAIN gs, NEW l \in DOMAIN gs, k # l
      PROVE  PromptsOf(Held(gs[k])) \cap PromptsOf(Held(gs[l])) = {}
  BY <1>2, <1>4, <1>8 DEF GoodStack
<1>9. GoodStack(gs, slots, more)
  BY <1>2, <1>5, <1>6, <1>7, <1>8 DEF GoodStack
<1>. QED BY <1>9 DEF gs

\* Prompts that are taken later disturb no loop.
LEMMA StackGrows ==
  ASSUME NEW fs, NEW slots, NEW taken, GoodStack(fs, slots, taken), NEW more, taken \subseteq more
  PROVE  GoodStack(fs, slots, more)
<1>1. \A k \in DOMAIN fs : GoodFrame(fs[k]) /\ PromptsOf(Held(fs[k])) \subseteq more
  BY DEF GoodStack
<1>. QED BY <1>1 DEF GoodStack

\* Any loop of the stack works for slots it was begun for.
LEMMA TopFacts ==
  ASSUME NEW fs, NEW slots, NEW taken, GoodStack(fs, slots, taken)
  PROVE  /\ Len(fs) \in Nat \ {0} /\ DOMAIN fs = 1 .. Len(fs) /\ fs \in Seq(FrameRecord)
         /\ Last(fs) = fs[Len(fs)] /\ Front(fs) = SubSeq(fs, 1, Len(fs) - 1)
         /\ GoodFrame(Last(fs)) /\ PromptsOf(Held(Last(fs))) \subseteq taken
<1>1. Len(fs) \in Nat \ {0} /\ DOMAIN fs = 1 .. Len(fs) /\ fs \in Seq(FrameRecord)
  BY DEF GoodStack
<1>2. Last(fs) = fs[Len(fs)] /\ Front(fs) = SubSeq(fs, 1, Len(fs) - 1)
  BY DEF Last, Front
<1>3. Len(fs) \in DOMAIN fs
  BY <1>1
<1>. QED BY <1>1, <1>2, <1>3 DEF GoodStack

\* A loop that begins has nothing yet.
LEMMA FrameFacts ==
  ASSUME NEW slots \in SUBSET Slots
  PROVE  /\ GoodFrame(Frame(slots)) /\ Held(Frame(slots)) = <<>> /\ Frame(slots).slots = slots
         /\ Frame(slots).splitting = FALSE /\ PromptsOf(Held(Frame(slots))) = {}
         /\ Frame(slots).accepted = <<>> /\ Frame(slots).attempt = 1
<1>1. <<>> \in Seq(Question) /\ <<>> \in Seq(SUBSET Slots) /\ 1 \in Nat
  OBVIOUS
<1>2. Frame(slots) \in FrameRecord
  BY <1>1 DEF Frame, FrameRecord
<1>3. Held(Frame(slots)) = <<>>
  BY DEF Frame, Held
<1>4. Frame(slots).groups = <<>> /\ Frame(slots).recovered = <<>> /\ ~Frame(slots).splitting
  BY DEF Frame
<1>5. GoodFrame(Frame(slots))
  BY <1>2, <1>3, <1>4, EmptyFacts DEF GoodFrame
<1>. QED BY <1>3, <1>5, EmptyFacts DEF Frame

\* A part begins with one loop, for all its slots.
LEMMA StackBegins ==
  ASSUME NEW slots \in SUBSET Slots, NEW taken
  PROVE  LET fs == <<Frame(slots)>>
         IN  GoodStack(fs, slots, taken) /\ ~Last(fs).splitting /\ Len(fs) = 1
<1>. DEFINE f == Frame(slots)
            fs == <<f>>
<1>1. /\ GoodFrame(f) /\ f.slots = slots /\ ~f.splitting /\ PromptsOf(Held(f)) = {}
      /\ f \in FrameRecord
  BY FrameFacts DEF GoodFrame
<1>. HIDE DEF f
<1>2. fs \in Seq(FrameRecord) /\ fs # <<>> /\ Len(fs) = 1 /\ DOMAIN fs = {1} /\ fs[1] = f /\ Last(fs) = f
  BY <1>1 DEF Last
<1>3. 1 .. (Len(fs) - 1) = {}
  BY <1>2
<1>. HIDE DEF fs
<1>4. GoodStack(fs, slots, taken)
  BY <1>1, <1>2, <1>3 DEF GoodStack
<1>. QED BY <1>1, <1>2, <1>4 DEF f, fs

\* The parts of a plan are of different slots.
LEMMA PartsFacts ==
  ASSUME NEW size \in Nat \ {0}
  PROVE  /\ Len(Parts(size)) \in Nat /\ DOMAIN Parts(size) = 1 .. Len(Parts(size))
         /\ \A k \in DOMAIN Parts(size) : /\ Parts(size)[k] \in SUBSET Slots
                                          /\ \A s \in Parts(size)[k] : (s - 1) \div size = k - 1
<1>. DEFINE n == (NSlots + size - 1) \div size
<1>1. n \in Nat
  BY RouterAssumption
<1>. HIDE DEF n
<1>2. Parts(size) = [k \in 1 .. n |-> {s \in Slots : (s - 1) \div size = k - 1}]
  BY DEF Parts, n
<1>. QED BY <1>1, <1>2

\* What a request may have while the part that it is at begins.
Begins(q, p) ==
  /\ Call(q) /\ p \in Names /\ Providers[q.at] = p
  /\ q.prompts \subseteq Prompts /\ q.outcome = "none"
  /\ q.questions \in Seq(Question) /\ Apart(q.questions)
  /\ PromptsOf(q.questions) \subseteq q.prompts
  /\ q.part \in Nat \ {0}
  /\ \A s \in SlotsOf(q.questions) : (s - 1) \div BatchSize[p] < q.part - 1

\* The next part begins, or the provider has answered.
LEMMA NextPartContent ==
  ASSUME NEW q, NEW p, Begins(q, p)
  PROVE  Content(NextPart(q, p))
<1>. DEFINE size == BatchSize[p]
            parts == Parts(size)
            n == NextPart(q, p)
<1>1. size \in Nat \ {0}
  BY RouterAssumption DEF Begins
<1>. HIDE DEF size
<1>2. CASE q.part <= Len(parts)
  <2>1. q.part \in DOMAIN parts /\ parts[q.part] \in SUBSET Slots
    BY <1>1, <1>2, PartsFacts DEF Begins
  <2>. DEFINE fs == <<Frame(parts[q.part])>>
  <2>2. n = [q EXCEPT !.pc = "waiting", !.frames = fs]
    BY <1>2 DEF NextPart, size
  <2>3. /\ GoodStack(fs, parts[q.part], q.prompts \ PromptsOf(q.questions))
        /\ ~Last(fs).splitting /\ Len(fs) = 1
    BY <2>1, StackBegins
  <2>. HIDE DEF fs
  <2>4. /\ n.pc = "waiting" /\ n.frames = fs /\ n.at = q.at /\ n.part = q.part
        /\ n.questions = q.questions /\ n.prompts = q.prompts /\ n.outcome = "none"
    BY <2>2 DEF Begins, Call, Fields
  <2>. HIDE DEF n, parts
  <2>5. InPart(n, size)
    BY <2>1, <2>3, <2>4 DEF InPart, Begins, size, parts
  <2>6. InPart(n, BatchSize[Providers[n.at]])
    BY <2>4, <2>5 DEF Begins, size
  <2>7. Content(n)
    BY <2>4, <2>6 DEF Content, Begins
  <2>. QED BY <2>7 DEF n
<1>3. CASE ~(q.part <= Len(parts))
  <2>2. n = [q EXCEPT !.pc = "answered", !.frames = <<>>]
    BY <1>3 DEF NextPart, size
  <2>4. /\ n.pc = "answered"
        /\ n.questions = q.questions /\ n.prompts = q.prompts /\ n.outcome = "none"
    BY <2>2 DEF Begins, Call, Fields
  <2>. HIDE DEF n, parts
  <2>5. Content(n)
    BY <2>4 DEF Content, Begins
  <2>. QED BY <2>5 DEF n
<1>. QED BY <1>2, <1>3

\* A request with a part in hand.
AtPart(q, p) == Call(q) /\ p \in Names /\ Providers[q.at] = p /\ q.outcome = "none"
                /\ Content(q) /\ q.pc \in AtProvider \ {"answered"}

LEMMA AtPartFacts ==
  ASSUME NEW q, NEW p, AtPart(q, p)
  PROVE  /\ Call(q) /\ q.prompts \subseteq Prompts /\ q.outcome = "none"
         /\ q.questions \in Seq(Question) /\ Apart(q.questions)
         /\ PromptsOf(q.questions) \subseteq q.prompts
         /\ InPart(q, BatchSize[p]) /\ BatchSize[p] \in Nat \ {0}
         /\ q.part \in Nat \ {0} /\ Parts(BatchSize[p])[q.part] \in SUBSET Slots
<1>1. BatchSize[p] \in Nat \ {0}
  BY RouterAssumption DEF AtPart
<1>2. /\ Call(q) /\ q.prompts \subseteq Prompts /\ q.outcome = "none"
      /\ q.questions \in Seq(Question) /\ Apart(q.questions)
      /\ PromptsOf(q.questions) \subseteq q.prompts
      /\ InPart(q, BatchSize[p])
  BY DEF AtPart, Content
<1>3. q.part \in DOMAIN Parts(BatchSize[p])
  BY <1>2 DEF InPart
<1>4. q.part \in Nat \ {0} /\ Parts(BatchSize[p])[q.part] \in SUBSET Slots
  BY <1>1, <1>3, PartsFacts
<1>. QED BY <1>1, <1>2, <1>4

\* What a part gave joins the questions of the parts before, apart from them.
LEMMA PartDoneContent ==
  ASSUME NEW q, NEW p, AtPart(q, p), NEW qs \in Seq(Question), Apart(qs),
         SlotsOf(qs) \subseteq Parts(BatchSize[p])[q.part],
         PromptsOf(qs) \subseteq q.prompts, PromptsOf(qs) \cap PromptsOf(q.questions) = {}
  PROVE  Content(PartDone(q, p, qs))
<1>. DEFINE size == BatchSize[p]
            all == q.questions \o qs
            s == [q EXCEPT !.part = @ + 1, !.questions = all]
<1>1. /\ Call(q) /\ q.prompts \subseteq Prompts /\ q.outcome = "none"
      /\ q.questions \in Seq(Question) /\ Apart(q.questions)
      /\ PromptsOf(q.questions) \subseteq q.prompts
      /\ InPart(q, size) /\ size \in Nat \ {0}
      /\ q.part \in Nat \ {0} /\ Parts(size)[q.part] \in SUBSET Slots
  BY AtPartFacts
<1>2. s.prompts = q.prompts /\ s.outcome = "none" /\ s.questions = all /\ s.part = q.part + 1
      /\ s.at = q.at /\ Call(s)
  BY <1>1 DEF Call, Fields
<1>3. PartDone(q, p, qs) = NextPart(s, p)
  BY DEF PartDone
<1>. HIDE DEF s, size
<1>4. \A t \in SlotsOf(q.questions) : (t - 1) \div size < q.part - 1
  BY <1>1 DEF InPart
<1>5. \A t \in SlotsOf(qs) : (t - 1) \div size = q.part - 1
  <2>1. q.part \in DOMAIN Parts(size)
    BY <1>1 DEF InPart
  <2>. QED BY <1>1, <2>1, PartsFacts DEF size
<1>6. SlotsOf(q.questions) \cap SlotsOf(qs) = {}
  <2>1. SUFFICES ASSUME NEW t, t \in SlotsOf(q.questions), t \in SlotsOf(qs) PROVE FALSE
    OBVIOUS
  <2>2. (t - 1) \div size < q.part - 1 /\ (t - 1) \div size = q.part - 1
    BY <1>4, <1>5, <2>1
  <2>. QED BY <1>1, <2>2
<1>7. /\ all \in Seq(Question) /\ Apart(all)
      /\ SlotsOf(all) = SlotsOf(q.questions) \cup SlotsOf(qs)
      /\ PromptsOf(all) = PromptsOf(q.questions) \cup PromptsOf(qs)
  BY <1>1, <1>6, ConcatApart, ConcatSets, ConcatFacts
<1>. HIDE DEF all
<1>8. \A t \in SlotsOf(all) : (t - 1) \div size < s.part - 1
  <2>1. TAKE t \in SlotsOf(all)
  <2>. DEFINE d == (t - 1) \div size
  <2>2. SlotsOf(all) \subseteq Slots /\ Slots \subseteq Nat /\ t \in Nat \ {0}
    BY <1>7, QuestionIn, RouterAssumption DEF Slots
  <2>3. d < q.part - 1 \/ d = q.part - 1
    BY <1>4, <1>5, <1>7
  <2>4. d \in Int
    BY <1>1, <2>2
  <2>. HIDE DEF d
  <2>5. d < (q.part + 1) - 1
    BY <1>1, <2>3, <2>4
  <2>. QED BY <1>2, <2>5 DEF d
<1>9. Begins(s, p)
  BY <1>1, <1>2, <1>7, <1>8 DEF Begins, AtPart, size
<1>. QED BY <1>3, <1>9, NextPartContent

-----------------------------------------------------------------------------
(* A request that moves.                                                   *)

\* One request moves, and it still has only what it may have.
LEMMA ContentStep ==
  ASSUME LockInv, ContentInv, NEW r \in Requests, NEW q, Content(q),
         req' = [req EXCEPT ![r] = q]
  PROVE  ContentInv'
<1>1. req = [s \in Requests |-> req[s]]
  BY DEF LockInv
<1>2. \A s \in Requests : req'[s] = q \/ req'[s] = req[s]
  BY <1>1
<1>3. \A s \in Requests : Content(req'[s])
  BY <1>2 DEF ContentInv
<1>. QED BY <1>3 DEF ContentInv, Content, InPart, GoodStack, GoodFrame, HalfOf, Whole

\* A request that is at no provider and has nothing.
LEMMA EmptyContent ==
  ASSUME NEW q, q.pc \notin AtProvider, q.prompts = {}, q.outcome \in {"none", "refused", "retryable"},
         q.pc # "done" => q.outcome = "none"
  PROVE  Content(q)
BY DEF Content

\* An error leaves nothing of what the provider gave.
LEMMA FailContent ==
  ASSUME LockInv, ContentInv, NEW r \in Requests, NEW e, req[r].pc \in AtProvider, Fail(r, e)
  PROVE  ContentInv'
<1>1. Call(req[r]) /\ Content(req[r]) /\ req[r].outcome = "none"
  BY DEF LockInv, Placed, ContentInv, Content, AtProvider
<1>. DEFINE q1 == [Fresh(req[r]) EXCEPT !.pc = "route", !.at = req[r].at + 1, !.probing = FALSE,
                               !.errors = Append(req[r].errors, e)]
            o == Outcome(e.category)
            q2 == Ended(Fresh(req[r]), o)
<1>2. CASE e.eligible
  <2>1. req' = [req EXCEPT ![r] = q1]
    BY <1>1, <1>2 DEF Fail, Fresh, Call, Fields
  <2>2. q1.pc = "route" /\ q1.prompts = {} /\ q1.outcome = "none"
    BY <1>1 DEF Fresh, Call, Fields
  <2>. HIDE DEF q1
  <2>. QED BY <2>1, <2>2, EmptyContent, ContentStep DEF AtProvider
<1>3. CASE ~e.eligible
  <2>1. req' = [req EXCEPT ![r] = q2]
    BY <1>3 DEF Fail
  <2>2. o \in {"refused", "retryable"}
    BY DEF Outcome
  <2>. HIDE DEF o
  <2>3. q2.pc = "done" /\ q2.prompts = {} /\ q2.outcome = o
    BY <1>1 DEF Fresh, Call, Fields, Ended
  <2>. HIDE DEF q2
  <2>. QED BY <2>1, <2>2, <2>3, EmptyContent, ContentStep DEF AtProvider
<1>. QED BY <1>2, <1>3

\* 1 .. n has n elements.
LEMMA UpToCount ==
  ASSUME NEW n \in Nat
  PROVE  IsFiniteSet(1 .. n) /\ Cardinality(1 .. n) = n
<1>1. IsFiniteSet(1 .. n) /\ Cardinality(1 .. n) = IF 1 > n THEN 0 ELSE n - 1 + 1
  BY FS_Interval
<1>. QED BY <1>1

\* A sequence of as many slots as it is long names none twice.
LEMMA DistinctSlots ==
  ASSUME NEW qs \in Seq(Question), Cardinality(SlotsOf(qs)) = Len(qs)
  PROVE  \A i, j \in DOMAIN qs : i # j => qs[i].slot # qs[j].slot
<1>. DEFINE D == 1 .. Len(qs)
            slot == [i \in D |-> qs[i].slot]
<1>a. Len(qs) \in Nat /\ D = DOMAIN qs
  OBVIOUS
<1>1. IsFiniteSet(D) /\ Cardinality(D) = Len(qs)
  <2>. DEFINE n == Len(qs)
  <2>0. n \in Nat
    OBVIOUS
  <2>. HIDE DEF n
  <2>2. IsFiniteSet(1 .. n) /\ Cardinality(1 .. n) = n
    BY <2>0, UpToCount
  <2>. QED BY <2>2 DEF n
<1>. HIDE DEF D
<1>2. slot \in Surjection(D, SlotsOf(qs))
  BY <1>a DEF Surjection, SlotsOf
<1>3. slot \in Injection(D, SlotsOf(qs))
  BY <1>1, <1>2, FS_Surjection
<1>. QED BY <1>a, <1>3 DEF Injection, IsInjective

\* A quiz of as many questions as were asked for is one for every slot.
LEMMA WholeAnswer ==
  ASSUME NEW qs \in Seq(Question), Apart(qs), Len(qs) = NSlots
  PROVE  Whole(qs)
<1>1. SlotsOf(qs) \subseteq Slots /\ Cardinality(SlotsOf(qs)) = NSlots /\ Cardinality(PromptsOf(qs)) = NSlots
  BY QuestionIn, ApartCounted
<1>2. IsFiniteSet(Slots) /\ Cardinality(Slots) = NSlots
  <2>1. NSlots \in Nat \ {0}
    BY RouterAssumption
  <2>2. IsFiniteSet(1 .. NSlots) /\ Cardinality(1 .. NSlots) = IF 1 > NSlots THEN 0 ELSE NSlots - 1 + 1
    BY <2>1, FS_Interval
  <2>. QED BY <2>1, <2>2 DEF Slots
<1>3. SlotsOf(qs) = Slots
  BY <1>1, <1>2, FS_Subset
<1>. QED BY <1>1, <1>3 DEF Whole

\* What the providers answer is a sequence of questions.
LEMMA AnswerIn ==
  ASSUME NEW f, f.slots \subseteq Slots, NEW qs \in QuestionSeqs(Cardinality(Missing(f)))
  PROVE  qs \in Seq(Question)
<1>1. IsFiniteSet(Slots)
  BY RouterAssumption, FS_Interval DEF Slots
<1>2. Cardinality(Missing(f)) \in Nat
  BY <1>1, FS_Subset, FS_CardinalityType DEF Missing
<1>3. PICK k \in 0 .. Cardinality(Missing(f)) : qs \in [1 .. k -> Question]
  BY DEF QuestionSeqs
<1>4. k \in Nat
  BY <1>2, <1>3
<1>. QED BY <1>3, <1>4

\* The fields of a loop, and what it has while it is not splitting.
LEMMA FrameFields ==
  ASSUME NEW f, GoodFrame(f)
  PROVE  /\ f \in FrameRecord /\ f.slots \subseteq Slots /\ f.attempt \in Nat
         /\ f.accepted \in Seq(Question) /\ f.recovered \in Seq(Question)
         /\ f.groups \in Seq(SUBSET Slots) /\ f.splitting \in BOOLEAN
         /\ Held(f) = f.accepted \o f.recovered /\ Held(f) \in Seq(Question)
         /\ ~f.splitting => Held(f) = f.accepted /\ f.recovered = <<>> /\ f.groups = <<>>
         /\ Apart(Held(f)) /\ SlotsOf(Held(f)) \subseteq f.slots
         /\ Apart(f.accepted) /\ SlotsOf(f.accepted) \subseteq SlotsOf(Held(f))
         /\ PromptsOf(f.accepted) \subseteq PromptsOf(Held(f))
<1>1. /\ f \in FrameRecord /\ f.slots \subseteq Slots /\ f.attempt \in Nat
      /\ f.accepted \in Seq(Question) /\ f.recovered \in Seq(Question)
      /\ f.groups \in Seq(SUBSET Slots) /\ f.splitting \in BOOLEAN
  BY DEF GoodFrame, FrameRecord
<1>2. Held(f) = f.accepted \o f.recovered /\ Held(f) \in Seq(Question)
  BY <1>1, ConcatFacts DEF Held
<1>3. ~f.splitting => Held(f) = f.accepted /\ f.recovered = <<>> /\ f.groups = <<>>
  BY <1>1, <1>2, ConcatEmpty DEF GoodFrame
<1>4. Apart(Held(f)) /\ SlotsOf(Held(f)) \subseteq f.slots
  BY DEF GoodFrame
<1>5. Apart(f.accepted)
  BY <1>1, <1>2, <1>4, ApartParts
<1>6. /\ SlotsOf(Held(f)) = SlotsOf(f.accepted) \cup SlotsOf(f.recovered)
      /\ PromptsOf(Held(f)) = PromptsOf(f.accepted) \cup PromptsOf(f.recovered)
  BY <1>1, <1>2, ConcatSets
<1>. QED BY <1>1, <1>2, <1>3, <1>4, <1>5, <1>6

\* A loop that is not splitting takes more questions.
LEMMA Taking ==
  ASSUME NEW f, GoodFrame(f), ~f.splitting, NEW new \in Seq(Question), Apart(new),
         SlotsOf(new) \subseteq Missing(f), PromptsOf(new) \cap PromptsOf(f.accepted) = {},
         NEW g, g \in FrameRecord, g.slots = f.slots, g.accepted = f.accepted \o new,
         g.recovered = <<>>, g.groups = <<>>
  PROVE  /\ GoodFrame(g) /\ Held(g) = g.accepted
         /\ PromptsOf(Held(g)) = PromptsOf(Held(f)) \cup PromptsOf(new)
<1>1. /\ f.accepted \in Seq(Question) /\ Held(f) = f.accepted /\ Apart(f.accepted)
      /\ SlotsOf(f.accepted) \subseteq f.slots
  BY FrameFields
<1>2. SlotsOf(f.accepted) \cap SlotsOf(new) = {} /\ SlotsOf(new) \subseteq f.slots
  BY DEF Missing
<1>. DEFINE old == f.accepted
            all == old \o new
<1>a. /\ old \in Seq(Question) /\ Apart(old) /\ SlotsOf(old) \cap SlotsOf(new) = {}
      /\ PromptsOf(old) \cap PromptsOf(new) = {} /\ g.accepted = all
  BY <1>1, <1>2
<1>. HIDE DEF old
<1>b. Apart(all)
  BY <1>a, ConcatApart
<1>c. SlotsOf(all) = SlotsOf(old) \cup SlotsOf(new) /\ PromptsOf(all) = PromptsOf(old) \cup PromptsOf(new)
  BY <1>a, ConcatSets
<1>d. all \in Seq(Question)
  BY <1>a
<1>. HIDE DEF all
<1>3. /\ g.accepted \in Seq(Question) /\ Apart(g.accepted)
      /\ SlotsOf(g.accepted) = SlotsOf(f.accepted) \cup SlotsOf(new)
      /\ PromptsOf(g.accepted) = PromptsOf(f.accepted) \cup PromptsOf(new)
  BY <1>a, <1>b, <1>c, <1>d DEF old
<1>4. Held(g) = g.accepted
  BY <1>3, ConcatEmpty DEF Held
<1>5. GoodFrame(g)
  BY <1>1, <1>2, <1>3, <1>4 DEF GoodFrame
<1>. QED BY <1>1, <1>3, <1>4, <1>5

\* The innermost loop is replaced by itself with more questions, or fewer.
LEMMA ReplaceTop ==
  ASSUME NEW fs, NEW slots, NEW taken, GoodStack(fs, slots, taken),
         NEW g, GoodFrame(g), g.slots = Last(fs).slots,
         NEW P, PromptsOf(Held(g)) \subseteq PromptsOf(Held(Last(fs))) \cup P, P \cap taken = {},
         NEW more, taken \subseteq more, P \subseteq more
  PROVE  LET gs == Append(Front(fs), g)
         IN  GoodStack(gs, slots, more) /\ Last(gs) = g /\ Len(gs) = Len(fs)
<1>. DEFINE n == Len(fs)
            m == n - 1
            gs == Append(SubSeq(fs, 1, m), g)
<1>1. /\ n \in Nat \ {0} /\ DOMAIN fs = 1 .. n /\ fs \in Seq(FrameRecord)
      /\ Last(fs) = fs[n] /\ Front(fs) = SubSeq(fs, 1, m)
      /\ GoodFrame(Last(fs)) /\ PromptsOf(Held(Last(fs))) \subseteq taken
  BY TopFacts
<1>. HIDE DEF n
<1>2. m \in 0 .. n /\ m + 1 = n /\ 1 .. m \subseteq 1 .. n /\ n \notin 1 .. m
  BY <1>1
<1>3. m = 0 => g.slots \subseteq slots
  BY <1>1 DEF GoodStack
<1>4. m # 0 => HalfOf(g, fs[m])
  <2>1. SUFFICES ASSUME m # 0 PROVE HalfOf(g, fs[m])
    OBVIOUS
  <2>2. m \in 1 .. (n - 1)
    BY <1>1, <2>1
  <2>3. HalfOf(fs[m + 1], fs[m])
    BY <2>2 DEF GoodStack, n
  <2>. HIDE DEF m
  <2>. QED BY <1>1, <1>2, <2>3 DEF HalfOf
<1>5. \A k \in 1 .. m : PromptsOf(Held(g)) \cap PromptsOf(Held(fs[k])) = {}
  <2>1. TAKE k \in 1 .. m
  <2>2. k \in DOMAIN fs /\ n \in DOMAIN fs /\ k # n
    BY <1>1, <1>2
  <2>3. PromptsOf(Held(fs[k])) \cap PromptsOf(Held(fs[n])) = {} /\ PromptsOf(Held(fs[k])) \subseteq taken
    BY <2>2 DEF GoodStack
  <2>. QED BY <1>1, <2>3
<1>6. PromptsOf(Held(g)) \subseteq more
  BY <1>1
<1>. HIDE DEF m
<1>7. GoodStack(gs, slots, more)
  BY <1>2, <1>3, <1>4, <1>5, <1>6, StackTop DEF n
<1>8. Last(gs) = g /\ Len(gs) = m + 1
  BY <1>1, <1>2, StackSeq DEF GoodFrame, n
<1>. QED BY <1>1, <1>2, <1>7, <1>8 DEF n

\* The loop of a half is put on top.
LEMMA Pushed ==
  ASSUME NEW fs, NEW slots, NEW taken, GoodStack(fs, slots, taken),
         NEW half \in SUBSET Slots, HalfOf(Frame(half), Last(fs))
  PROVE  LET gs == fs \o <<Frame(half)>>
         IN  GoodStack(gs, slots, taken) /\ ~Last(gs).splitting
<1>. DEFINE n == Len(fs)
            g == Frame(half)
            gs == Append(SubSeq(fs, 1, n), g)
<1>1. /\ n \in Nat \ {0} /\ DOMAIN fs = 1 .. n /\ fs \in Seq(FrameRecord) /\ Last(fs) = fs[n]
  BY TopFacts
<1>2. /\ GoodFrame(g) /\ ~g.splitting /\ PromptsOf(Held(g)) = {} /\ g \in FrameRecord
  BY FrameFacts DEF GoodFrame
<1>3. fs \o <<g>> = gs
  <2>. HIDE DEF g
  <2>1. SubSeq(fs, 1, n) = fs
    BY <1>1
  <2>2. fs \o <<g>> = Append(fs, g)
    BY <1>1, <1>2
  <2>. QED BY <2>1, <2>2
<1>4. HalfOf(g, fs[n])
  BY <1>1
<1>5. n \in 0 .. Len(fs)
  BY <1>1
<1>. HIDE DEF g
<1>6. GoodStack(gs, slots, taken)
  BY <1>1, <1>2, <1>4, <1>5, StackTop
<1>. HIDE DEF n
<1>7. Last(gs) = g
  <2>1. n \in 0 .. Len(fs)
    BY <1>5
  <2>. QED BY <1>1, <1>2, <2>1, StackSeq
<1>. QED BY <1>2, <1>3, <1>6, <1>7 DEF g

\* A request as the two invariants know it.
LEMMA RequestAt ==
  ASSUME LockInv, ContentInv, NEW r \in Requests
  PROVE  /\ Call(req[r]) /\ Content(req[r])
         /\ req[r].pc \in AtProvider => Provider(r) \in Names /\ req[r].outcome = "none"
         /\ req[r].pc \in AtProvider \ {"answered"} => AtPart(req[r], Provider(r))
<1>1. Call(req[r]) /\ Content(req[r]) /\ (req[r].pc \in AtProvider => Provider(r) \in Names)
  BY RequestFacts DEF Placed, ContentInv
<1>2. req[r].pc \in AtProvider => req[r].outcome = "none"
  BY <1>1 DEF Content, AtProvider
<1>. QED BY <1>1, <1>2 DEF AtPart, Provider

\* Only the stack of a request at a part moves, and the prompts it has taken.
LEMMA StackContent ==
  ASSUME NEW q, NEW p, AtPart(q, p), NEW s, Call(s), s.at = q.at, s.part = q.part,
         s.questions = q.questions, s.outcome = q.outcome,
         s.pc \in AtProvider \ {"answered"}, q.prompts \subseteq s.prompts, s.prompts \subseteq Prompts,
         GoodStack(s.frames, Parts(BatchSize[p])[q.part], s.prompts \ PromptsOf(q.questions)),
         s.pc # "frame" => ~Last(s.frames).splitting,
         p # "ollama" => s.pc # "frame" /\ Len(s.frames) = 1
  PROVE  AtPart(s, p) /\ Content(s)
<1>1. /\ q.questions \in Seq(Question) /\ Apart(q.questions) /\ q.outcome = "none"
      /\ PromptsOf(q.questions) \subseteq q.prompts /\ InPart(q, BatchSize[p])
  BY AtPartFacts
<1>2. p \in Names /\ Providers[s.at] = p
  BY DEF AtPart
<1>3. InPart(s, BatchSize[p])
  BY <1>1, <1>2 DEF InPart
<1>4. InPart(s, BatchSize[Providers[s.at]])
  BY <1>2, <1>3
<1>5. Content(s)
  BY <1>1, <1>4 DEF Content, AtProvider
<1>. QED BY <1>1, <1>2, <1>5 DEF AtPart

\* The steps of the router and the semaphores.
LEMMA ArriveContent ==
  ASSUME LockInv, ContentInv, NEW r \in Requests, Arrive(r)
  PROVE  ContentInv'
<1>. DEFINE q == [Idle EXCEPT !.pc = "route"]
<1>1. q.pc = "route" /\ q.prompts = {} /\ q.outcome = "none"
  BY DEF Idle
<1>2. req' = [req EXCEPT ![r] = q]
  BY DEF Arrive
<1>. HIDE DEF q
<1>. QED BY <1>1, <1>2, EmptyContent, ContentStep DEF AtProvider

LEMMA SkipContent ==
  ASSUME LockInv, ContentInv, NEW r \in Requests, Skip(r)
  PROVE  ContentInv'
<1>. DEFINE q == [req[r] EXCEPT !.at = @ + 1]
<1>1. Call(req[r]) /\ Content(req[r]) /\ req[r].pc = "route"
  BY RequestAt DEF Skip
<1>2. req' = [req EXCEPT ![r] = q]
  BY DEF Skip
<1>3. q.pc = "route" /\ q.prompts = req[r].prompts /\ q.outcome = req[r].outcome
  BY <1>1 DEF Call, Fields
<1>. HIDE DEF q
<1>4. Content(q)
  BY <1>1, <1>3 DEF Content, AtProvider
<1>. QED BY <1>2, <1>4, ContentStep

LEMMA AttemptContent ==
  ASSUME LockInv, ContentInv, NEW r \in Requests, Attempt(r)
  PROVE  ContentInv'
<1>. DEFINE p == Provider(r)
<1>1. Call(req[r]) /\ Content(req[r]) /\ req[r].pc = "route" /\ p \in Names
  <2>1. req[r].pc = "route" /\ req[r].at <= Len(Providers)
    BY DEF Attempt
  <2>2. Placed(req[r])
    BY RequestFacts
  <2>3. req[r].at \in 1 .. Len(Providers)
    BY <2>1, <2>2, Listed DEF Placed
  <2>. QED BY <2>1, <2>3, RequestAt, Listed DEF Provider
<1>2. PICK probe : req' = [req EXCEPT ![r] = NextPart([Fresh(@) EXCEPT !.probing = probe], p)]
  BY DEF Attempt
<1>. DEFINE s == [Fresh(req[r]) EXCEPT !.probing = probe]
            q == NextPart(s, p)
<1>3. req' = [req EXCEPT ![r] = q]
  BY <1>2
<1>4. /\ Call(s) /\ s.prompts = {} /\ s.outcome = "none" /\ s.questions = <<>> /\ s.part = 1
      /\ s.at = req[r].at
  BY <1>1 DEF Fresh, Call, Fields, Content
<1>. HIDE DEF s
<1>5. Begins(s, p)
  BY <1>1, <1>4, EmptyFacts DEF Begins, Provider
<1>6. Content(q)
  BY <1>5, NextPartContent
<1>. HIDE DEF q
<1>. QED BY <1>3, <1>6, ContentStep

LEMMA ExhaustedContent ==
  ASSUME LockInv, ContentInv, NEW r \in Requests, Exhausted(r)
  PROVE  ContentInv'
<1>1. Call(req[r])
  BY RequestAt
<1>2. PICK category : req' = [req EXCEPT ![r] = Ended(@, Outcome(category))]
  BY DEF Exhausted
<1>. DEFINE o == Outcome(category)
            q == Ended(req[r], o)
<1>3. req' = [req EXCEPT ![r] = q]
  BY <1>2
<1>4. o \in {"refused", "retryable"}
  BY DEF Outcome
<1>. HIDE DEF o
<1>5. q.pc = "done" /\ q.prompts = {} /\ q.outcome = o
  BY <1>1 DEF Call, Fields, Ended
<1>. HIDE DEF q
<1>. QED BY <1>3, <1>4, <1>5, EmptyContent, ContentStep DEF AtProvider

LEMMA AnsweredContent ==
  ASSUME LockInv, ContentInv, NEW r \in Requests, Answered(r)
  PROVE  ContentInv'
<1>1. Call(req[r]) /\ Content(req[r]) /\ req[r].pc = "answered" /\ req[r].pc \in AtProvider
  BY RequestAt DEF Answered, AtProvider
<1>2. CASE Len(req[r].questions) = NSlots
  <2>. DEFINE q == Ended(req[r], "ok")
  <2>1. req' = [req EXCEPT ![r] = q]
    BY <1>2 DEF Answered
  <2>2. q.pc = "done" /\ q.prompts = {} /\ q.outcome = "ok" /\ q.questions = req[r].questions
    BY <1>1 DEF Call, Fields, Ended
  <2>3. Whole(req[r].questions)
    BY <1>1, <1>2, WholeAnswer DEF Content
  <2>. HIDE DEF q
  <2>4. Content(q)
    BY <2>2, <2>3 DEF Content, AtProvider
  <2>. QED BY <2>1, <2>4, ContentStep
<1>3. CASE Len(req[r].questions) # NSlots
  <2>1. Fail(r, RETRYABLE)
    BY <1>3 DEF Answered
  <2>. QED BY <1>1, <2>1, FailContent
<1>. QED BY <1>2, <1>3

LEMMA CancelContent ==
  ASSUME LockInv, ContentInv, NEW r \in Requests, Cancel(r)
  PROVE  ContentInv'
<1>. DEFINE q == [Fresh(req[r]) EXCEPT !.pc = "cancelled"]
<1>1. Call(req[r]) /\ req[r].outcome = "none"
  BY RequestAt DEF Cancel, AtProvider
<1>2. req' = [req EXCEPT ![r] = q]
  BY DEF Cancel
<1>3. q.pc = "cancelled" /\ q.prompts = {} /\ q.outcome = "none"
  BY <1>1 DEF Call, Fields, Fresh
<1>. HIDE DEF q
<1>. QED BY <1>2, <1>3, EmptyContent, ContentStep DEF AtProvider

LEMMA SendContent ==
  ASSUME LockInv, ContentInv, NEW r \in Requests, Send(r)
  PROVE  ContentInv'
<1>. DEFINE p == Provider(r)
            q == [req[r] EXCEPT !.pc = "calling"]
<1>1. req[r].pc = "waiting" /\ AtPart(req[r], p) /\ Call(req[r])
  BY RequestAt DEF Send, AtProvider
<1>2. req' = [req EXCEPT ![r] = q]
  BY DEF Send
<1>3. /\ Call(q) /\ q.pc = "calling" /\ q.at = req[r].at /\ q.part = req[r].part
      /\ q.questions = req[r].questions /\ q.prompts = req[r].prompts
      /\ q.frames = req[r].frames /\ q.outcome = req[r].outcome
  BY <1>1 DEF Call, Fields
<1>4. InPart(req[r], BatchSize[p]) /\ req[r].prompts \subseteq Prompts /\ Providers[req[r].at] = p
  BY <1>1, AtPartFacts DEF AtPart
<1>. HIDE DEF q, p
<1>5. Content(q)
  BY <1>1, <1>3, <1>4, StackContent DEF InPart, AtProvider
<1>. QED BY <1>2, <1>5, ContentStep

LEMMA CallFailsContent ==
  ASSUME LockInv, ContentInv, NEW r \in Requests, CallFails(r)
  PROVE  ContentInv'
BY FailContent DEF CallFails, AtProvider

\* The loop of a Gemini provider, and what it has once an answer is taken in.
LEMMA GeminiLoop ==
  ASSUME NEW q, NEW p, AtPart(q, p), q.pc = "calling", p # "ollama", NEW f, f = Head(q.frames)
  PROVE  LET taken == q.prompts \ PromptsOf(q.questions)
             part == Parts(BatchSize[p])[q.part]
         IN  /\ GoodStack(q.frames, part, taken) /\ Len(q.frames) = 1 /\ f.slots \subseteq part
             /\ GoodFrame(f) /\ ~f.splitting /\ PromptsOf(Held(f)) \subseteq taken
             /\ Front(q.frames) = <<>> /\ Last(q.frames) = f
<1>. DEFINE part == Parts(BatchSize[p])[q.part]
            taken == q.prompts \ PromptsOf(q.questions)
            fs == q.frames
<1>1. GoodStack(fs, part, taken) /\ ~Last(fs).splitting /\ Len(fs) = 1
  BY AtPartFacts DEF InPart, AtPart
<1>. HIDE DEF part, taken
<1>2. /\ DOMAIN fs = 1 .. Len(fs) /\ fs \in Seq(FrameRecord)
      /\ Last(fs) = fs[Len(fs)] /\ Front(fs) = SubSeq(fs, 1, Len(fs) - 1)
      /\ GoodFrame(Last(fs)) /\ PromptsOf(Held(Last(fs))) \subseteq taken
  BY <1>1, TopFacts
<1>3. f = fs[1] /\ Last(fs) = f
  BY <1>1, <1>2
<1>4. f.slots \subseteq part
  BY <1>1, <1>3 DEF GoodStack
<1>5. Front(fs) = <<>>
  BY <1>1, <1>2
<1>. QED BY <1>1, <1>2, <1>3, <1>4, <1>5 DEF part, taken

\* The fields of a loop that takes more questions.
LEMMA TakenInto ==
  ASSUME NEW f \in FrameRecord, NEW new \in Seq(Question), NEW a \in Nat
  PROVE  LET g == [f EXCEPT !.accepted = @ \o new, !.attempt = a]
         IN  /\ g \in FrameRecord /\ g.slots = f.slots /\ g.accepted = f.accepted \o new
             /\ g.recovered = f.recovered /\ g.groups = f.groups /\ g.splitting = f.splitting
<1>1. f.accepted \in Seq(Question)
  BY DEF FrameRecord
<1>2. f.accepted \o new \in Seq(Question)
  BY <1>1
<1>. DEFINE all == f.accepted \o new
            g == [f EXCEPT !.accepted = all, !.attempt = a]
<1>3. all \in Seq(Question)
  BY <1>2
<1>. HIDE DEF all
<1>4. /\ g \in FrameRecord /\ g.slots = f.slots /\ g.accepted = all
      /\ g.recovered = f.recovered /\ g.groups = f.groups /\ g.splitting = f.splitting
  BY <1>3 DEF FrameRecord
<1>. QED BY <1>4 DEF all

\* The new questions of the loop f are taken, and the part is asked again or over.
LEMMA LoopTakes ==
  ASSUME NEW q, NEW p, AtPart(q, p), q.pc = "calling", p # "ollama",
         NEW f, f = Head(q.frames),
         NEW new \in Seq(Question), Apart(new), SlotsOf(new) \subseteq Missing(f),
         PromptsOf(new) \cap q.prompts = {},
         NEW g \in FrameRecord, g.slots = f.slots, g.accepted = f.accepted \o new,
         g.recovered = f.recovered, g.groups = f.groups, g.splitting = f.splitting
  PROVE  /\ Content([q EXCEPT !.pc = "waiting", !.frames = <<g>>,
                              !.prompts = q.prompts \cup PromptsOf(new)])
         /\ Content(PartDone([q EXCEPT !.prompts = q.prompts \cup PromptsOf(new)], p,
                             InPlanOrder(g.accepted)))
<1>. DEFINE part == Parts(BatchSize[p])[q.part]
            taken == q.prompts \ PromptsOf(q.questions)
            P == PromptsOf(new)
            prompts == q.prompts \cup P
            more == prompts \ PromptsOf(q.questions)
            fs == q.frames
            m == [q EXCEPT !.prompts = prompts]
            next == [q EXCEPT !.pc = "waiting", !.frames = <<g>>, !.prompts = prompts]
            ordered == InPlanOrder(g.accepted)
<1>1. /\ Call(q) /\ q.prompts \subseteq Prompts /\ q.outcome = "none"
      /\ q.questions \in Seq(Question) /\ PromptsOf(q.questions) \subseteq q.prompts
      /\ part \in SUBSET Slots
  BY AtPartFacts
<1>2. /\ GoodStack(fs, part, taken) /\ Len(fs) = 1 /\ f.slots \subseteq part
      /\ GoodFrame(f) /\ ~f.splitting /\ PromptsOf(Held(f)) \subseteq taken
      /\ Front(fs) = <<>> /\ Last(fs) = f
  BY GeminiLoop
<1>3. /\ f \in FrameRecord /\ f.accepted \in Seq(Question) /\ Held(f) = f.accepted
      /\ f.recovered = <<>> /\ f.groups = <<>> /\ f.attempt \in Nat
  BY <1>2, FrameFields
<1>4. P \cap q.prompts = {} /\ P \subseteq Prompts
  BY QuestionIn
<1>6. g.recovered = <<>> /\ g.groups = <<>> /\ ~g.splitting
  BY <1>2, <1>3
<1>7. P \cap PromptsOf(f.accepted) = {}
  BY <1>2, <1>3, <1>4
<1>. HIDE DEF fs, part, P
<1>8. /\ GoodFrame(g) /\ Held(g) = g.accepted /\ PromptsOf(Held(g)) = PromptsOf(Held(f)) \cup P
  <2>1. PromptsOf(new) \cap PromptsOf(f.accepted) = {}
    BY <1>7 DEF P
  <2>2. /\ GoodFrame(g) /\ Held(g) = g.accepted
        /\ PromptsOf(Held(g)) = PromptsOf(Held(f)) \cup PromptsOf(new)
    BY <1>2, <1>3, <1>4, <1>6, <2>1, Taking
  <2>. QED BY <2>2 DEF P
<1>9. taken \subseteq more /\ P \subseteq more /\ P \cap taken = {} /\ prompts \subseteq Prompts
  BY <1>1, <1>4
<1>. HIDE DEF taken, more
<1>10. GoodStack(Append(Front(fs), g), part, more) /\ Last(Append(Front(fs), g)) = g
       /\ Len(Append(Front(fs), g)) = 1
  <2>1. g.slots = Last(fs).slots /\ PromptsOf(Held(g)) \subseteq PromptsOf(Held(Last(fs))) \cup P
    BY <1>2, <1>6, <1>8
  <2>. DEFINE gs == Append(Front(fs), g)
  <2>2. GoodStack(gs, part, more) /\ Last(gs) = g /\ Len(gs) = Len(fs)
    BY <1>2, <1>8, <1>9, <2>1, ReplaceTop
  <2>. QED BY <1>2, <2>2
<1>11. Append(Front(fs), g) = <<g>>
  BY <1>2
<1>12. Content(next)
  <2>1. /\ Call(next) /\ next.at = q.at /\ next.part = q.part
        /\ next.questions = q.questions /\ next.outcome = q.outcome /\ next.pc = "waiting"
        /\ next.prompts = prompts /\ next.frames = <<g>>
    BY <1>1 DEF Call, Fields
  <2>2. q.prompts \subseteq prompts
    OBVIOUS
  <2>3. GoodStack(<<g>>, part, more) /\ ~Last(<<g>>).splitting /\ Len(<<g>>) = 1
    BY <1>2, <1>6, <1>10, <1>11
  <2>. HIDE DEF next, prompts
  <2>. QED BY <1>9, <2>1, <2>2, <2>3, StackContent DEF AtProvider, part, more
<1>13. AtPart(m, p)
  <2>1. /\ Call(m) /\ m.at = q.at /\ m.part = q.part
        /\ m.questions = q.questions /\ m.outcome = q.outcome /\ m.pc = "calling"
        /\ m.prompts = prompts /\ m.frames = fs
    BY <1>1 DEF Call, Fields, fs
  <2>2. q.prompts \subseteq prompts
    OBVIOUS
  <2>3. GoodStack(fs, part, more) /\ ~Last(fs).splitting /\ Len(fs) = 1
    BY <1>2, <1>9, StackGrows
  <2>. HIDE DEF m, prompts
  <2>. QED BY <1>9, <2>1, <2>2, <2>3, StackContent DEF AtProvider, part, more
<1>14. /\ ordered \in Seq(Question) /\ Apart(ordered)
       /\ SlotsOf(ordered) \subseteq part
       /\ PromptsOf(ordered) \subseteq prompts /\ PromptsOf(ordered) \cap PromptsOf(q.questions) = {}
  <2>1. g.accepted \in Seq(Question) /\ Apart(g.accepted) /\ SlotsOf(g.accepted) \subseteq part
    BY <1>2, <1>6, <1>8, FrameFields
  <2>2. /\ ordered \in Seq(Question) /\ Apart(ordered)
        /\ SlotsOf(ordered) \subseteq SlotsOf(g.accepted)
        /\ PromptsOf(ordered) \subseteq PromptsOf(g.accepted)
    BY <2>1, PlanOrderFacts
  <2>3. PromptsOf(g.accepted) \subseteq more
    BY <1>2, <1>8, <1>9
  <2>4. more \subseteq prompts /\ more \cap PromptsOf(q.questions) = {}
    BY DEF more
  <2>. QED BY <2>1, <2>2, <2>3, <2>4
<1>. HIDE DEF ordered, next
<1>15. m.part = q.part /\ m.questions = q.questions /\ m.prompts = prompts
  BY <1>1 DEF Call, Fields
<1>. HIDE DEF m, prompts
<1>16. Content(PartDone(m, p, ordered))
  BY <1>13, <1>14, <1>15, PartDoneContent DEF part
<1>. QED BY <1>12, <1>16 DEF next, ordered, m, P, prompts

\* What _generate_parts makes of an answer that fits the plan.
LEMMA GeminiTakes ==
  ASSUME NEW q, NEW p, AtPart(q, p), q.pc = "calling", p # "ollama",
         NEW qs \in Seq(Question), FitsPlan(qs, Head(q.frames))
  PROVE  LET f == Head(q.frames)
             new == Unequal(qs, q.prompts)
             g == [f EXCEPT !.accepted = @ \o new, !.attempt = @ + 1]
         IN  /\ Content([q EXCEPT !.pc = "waiting", !.frames = <<g>>,
                                  !.prompts = @ \cup PromptsOf(new)])
             /\ Content([PartDone(q, p, InPlanOrder(g.accepted))
                           EXCEPT !.prompts = @ \cup PromptsOf(new)])
<1>. DEFINE f == Head(q.frames)
            new == Unequal(qs, q.prompts)
            g == [f EXCEPT !.accepted = @ \o new, !.attempt = @ + 1]
            a == f.attempt + 1
<1>1. f \in FrameRecord /\ f.attempt \in Nat /\ Call(q)
  BY GeminiLoop, FrameFields DEF AtPart
<1>2. /\ new \in Seq(Question) /\ Apart(new) /\ SlotsOf(new) \subseteq Missing(f)
      /\ PromptsOf(new) \cap q.prompts = {}
  <2>1. \A i, j \in DOMAIN qs : i # j => qs[i].slot # qs[j].slot
    BY DistinctSlots DEF FitsPlan
  <2>2. /\ new \in Seq(Question) /\ Apart(new)
        /\ SlotsOf(new) \subseteq SlotsOf(qs) /\ PromptsOf(new) \cap q.prompts = {}
    BY <2>1, UnequalFacts
  <2>. QED BY <2>2 DEF FitsPlan
<1>3. a \in Nat /\ g = [f EXCEPT !.accepted = @ \o new, !.attempt = a]
  BY <1>1
<1>. HIDE DEF f, new, a
<1>4. /\ g \in FrameRecord /\ g.slots = f.slots /\ g.accepted = f.accepted \o new
      /\ g.recovered = f.recovered /\ g.groups = f.groups /\ g.splitting = f.splitting
  <2>. DEFINE h == [f EXCEPT !.accepted = @ \o new, !.attempt = a]
  <2>1. /\ h \in FrameRecord /\ h.slots = f.slots /\ h.accepted = f.accepted \o new
        /\ h.recovered = f.recovered /\ h.groups = f.groups /\ h.splitting = f.splitting
    <3>1. f \in FrameRecord /\ new \in Seq(Question) /\ a \in Nat
      BY <1>1, <1>2, <1>3
    <3>. QED BY ONLY <3>1, TakenInto
  <2>2. g = h
    BY <1>3
  <2>. HIDE DEF g, h
  <2>. QED BY <2>1, <2>2
<1>. DEFINE prompts == q.prompts \cup PromptsOf(new)
            ordered == InPlanOrder(g.accepted)
<1>. HIDE DEF g
<1>5. /\ Content([q EXCEPT !.pc = "waiting", !.frames = <<g>>, !.prompts = prompts])
      /\ Content(PartDone([q EXCEPT !.prompts = prompts], p, ordered))
  BY <1>2, <1>4, LoopTakes DEF f
<1>. HIDE DEF prompts, ordered
<1>6. [PartDone(q, p, ordered) EXCEPT !.prompts = @ \cup PromptsOf(new)]
        = PartDone([q EXCEPT !.prompts = prompts], p, ordered)
  <2>. DEFINE more == PromptsOf(new)
  <2>1. prompts = q.prompts \cup more
    BY DEF prompts
  <2>. HIDE DEF more
  <2>2. [PartDone(q, p, ordered) EXCEPT !.prompts = @ \cup more]
          = PartDone([q EXCEPT !.prompts = prompts], p, ordered)
    BY <1>1, <2>1 DEF PartDone, NextPart, Call, Fields
  <2>. QED BY <2>2 DEF more
<1>7. Content([PartDone(q, p, ordered) EXCEPT !.prompts = @ \cup PromptsOf(new)])
  BY <1>5, <1>6
<1>. QED BY <1>5, <1>7 DEF f, new, g, prompts, ordered

\* The steps of the providers.
LEMMA GeminiContent ==
  ASSUME LockInv, ContentInv, NEW r \in Requests, GeminiReplies(r)
  PROVE  ContentInv'
<1>. DEFINE p == Provider(r)
            q == req[r]
            f == Head(q.frames)
<1>1. q.pc = "calling" /\ p # "ollama" /\ AtPart(q, p)
  BY RequestAt DEF GeminiReplies, AtProvider
<1>2. PICK qs \in QuestionSeqs(Cardinality(Missing(f))) :
        LET new == Unequal(qs, q.prompts)
            g == [f EXCEPT !.accepted = @ \o new, !.attempt = @ + 1]
        IN  \/ Fail(r, RETRYABLE)
            \/ /\ FitsPlan(qs, f)
               /\ \/ req' = [req EXCEPT ![r] = [PartDone(q, p, InPlanOrder(g.accepted))
                                                  EXCEPT !.prompts = @ \cup PromptsOf(new)]]
                  \/ req' = [req EXCEPT ![r] =
                               [q EXCEPT !.pc = "waiting", !.frames = <<g>>,
                                         !.prompts = @ \cup PromptsOf(new)]]
  BY DEF GeminiReplies
<1>3. f.slots \subseteq Slots
  BY <1>1, GeminiLoop, FrameFields
<1>. DEFINE new == Unequal(qs, q.prompts)
            g == [f EXCEPT !.accepted = @ \o new, !.attempt = @ + 1]
            done == [PartDone(q, p, InPlanOrder(g.accepted)) EXCEPT !.prompts = @ \cup PromptsOf(new)]
            next == [q EXCEPT !.pc = "waiting", !.frames = <<g>>, !.prompts = @ \cup PromptsOf(new)]
<1>a. \/ Fail(r, RETRYABLE)
      \/ FitsPlan(qs, f) /\ (req' = [req EXCEPT ![r] = done] \/ req' = [req EXCEPT ![r] = next])
  BY <1>2
<1>. HIDE DEF done, next, g, new, f
<1>4. qs \in Seq(Question)
  BY <1>3, AnswerIn
<1>. HIDE DEF p, q
<1>5. CASE Fail(r, RETRYABLE)
  BY <1>1, <1>5, FailContent DEF AtProvider, q
<1>6. ASSUME FitsPlan(qs, f)
      PROVE  Content(done) /\ Content(next)
  BY <1>1, <1>4, <1>6, GeminiTakes DEF f, done, next, g, new
<1>7. CASE FitsPlan(qs, f) /\ req' = [req EXCEPT ![r] = done]
  BY <1>6, <1>7, ContentStep
<1>8. CASE FitsPlan(qs, f) /\ req' = [req EXCEPT ![r] = next]
  BY <1>6, <1>8, ContentStep
<1>. QED BY <1>a, <1>5, <1>7, <1>8

\* The innermost loop of a request at a part.
LEMMA InnerLoop ==
  ASSUME NEW q, NEW p, AtPart(q, p)
  PROVE  LET taken == q.prompts \ PromptsOf(q.questions)
             part == Parts(BatchSize[p])[q.part]
             f == Last(q.frames)
         IN  /\ GoodStack(q.frames, part, taken) /\ Len(q.frames) \in Nat \ {0}
             /\ GoodFrame(f) /\ PromptsOf(Held(f)) \subseteq taken
             /\ q.pc # "frame" => ~f.splitting
             /\ p # "ollama" => q.pc # "frame"
<1>. DEFINE part == Parts(BatchSize[p])[q.part]
            taken == q.prompts \ PromptsOf(q.questions)
            fs == q.frames
<1>1. /\ GoodStack(fs, part, taken) /\ (q.pc # "frame" => ~Last(fs).splitting)
      /\ (p # "ollama" => q.pc # "frame")
  BY AtPartFacts DEF InPart, AtPart
<1>. HIDE DEF part, taken
<1>2. /\ Len(fs) \in Nat \ {0} /\ GoodFrame(Last(fs)) /\ PromptsOf(Held(Last(fs))) \subseteq taken
  BY <1>1, TopFacts
<1>. QED BY <1>1, <1>2 DEF part, taken

\* A loop is split in two halves of what it misses.
LEMMA SplitFrame ==
  ASSUME NEW g, GoodFrame(g), ~g.splitting, NEW first, first \subseteq Missing(g)
  PROVE  LET h == [g EXCEPT !.splitting = TRUE, !.groups = <<first, Missing(g) \ first>>]
         IN  GoodFrame(h) /\ h.slots = g.slots /\ Held(h) = Held(g)
<1>. DEFINE rest == Missing(g) \ first
            groups == <<first, rest>>
            h == [g EXCEPT !.splitting = TRUE, !.groups = groups]
<1>1. /\ g \in FrameRecord /\ g.slots \subseteq Slots /\ Held(g) = g.accepted
      /\ g.recovered = <<>> /\ Apart(Held(g)) /\ SlotsOf(Held(g)) \subseteq g.slots
  BY FrameFields
<1>2. Missing(g) = Unfilled(g) /\ Missing(g) \subseteq Slots
  BY <1>1 DEF Missing, Unfilled
<1>3. first \in SUBSET Slots /\ rest \in SUBSET Slots /\ first \cap rest = {}
      /\ first \subseteq Unfilled(g) /\ rest \subseteq Unfilled(g)
  BY <1>2
<1>. HIDE DEF rest
<1>4. /\ groups \in Seq(SUBSET Slots) /\ DOMAIN groups = {1, 2} /\ groups[1] = first /\ groups[2] = rest
  BY <1>3
<1>. HIDE DEF groups
<1>5. /\ h \in FrameRecord /\ h.slots = g.slots /\ h.accepted = g.accepted /\ h.recovered = g.recovered
      /\ h.splitting = TRUE /\ h.groups = groups
  BY <1>1, <1>4 DEF FrameRecord
<1>. HIDE DEF h
<1>6. Held(h) = Held(g) /\ Unfilled(h) = Unfilled(g)
  BY <1>5 DEF Held, Unfilled
<1>7. GoodFrame(h)
  BY <1>1, <1>3, <1>4, <1>5, <1>6 DEF GoodFrame
<1>. QED BY <1>5, <1>6, <1>7 DEF h, groups, rest

\* _generate_part (Ollama) after an answer, split or not.
LEMMA AfterAnswerFacts ==
  ASSUME NEW f, GoodFrame(f), ~f.splitting, NEW new \in Seq(Question), Apart(new),
         SlotsOf(new) \subseteq Missing(f), PromptsOf(new) \cap PromptsOf(f.accepted) = {},
         NEW qs, NEW cut
  PROVE  LET h == AfterAnswer(f, qs, new, cut)
         IN  /\ GoodFrame(h) /\ h.slots = f.slots
             /\ PromptsOf(Held(h)) = PromptsOf(Held(f)) \cup PromptsOf(new)
<1>. DEFINE g == [f EXCEPT !.accepted = @ \o new]
            m == Missing(g)
            first == {s \in m : Rank(s, m) <= (Cardinality(m) + 1) \div 2}
            h == [g EXCEPT !.splitting = TRUE, !.groups = <<first, m \ first>>]
<1>1. f \in FrameRecord /\ f.attempt \in Nat /\ f.recovered = <<>> /\ f.groups = <<>>
  BY FrameFields
<1>2. /\ g \in FrameRecord /\ g.slots = f.slots /\ g.accepted = f.accepted \o new
      /\ g.recovered = <<>> /\ g.groups = <<>> /\ ~g.splitting
  <2>. DEFINE a == f.attempt
              k == [f EXCEPT !.accepted = @ \o new, !.attempt = a]
  <2>1. a \in Nat
    BY <1>1
  <2>2. g = k
    BY <1>1 DEF FrameRecord
  <2>. HIDE DEF a
  <2>3. /\ k \in FrameRecord /\ k.slots = f.slots /\ k.accepted = f.accepted \o new
        /\ k.recovered = f.recovered /\ k.groups = f.groups /\ k.splitting = f.splitting
    BY <1>1, <2>1, TakenInto
  <2>. HIDE DEF g, k
  <2>. QED BY <1>1, <2>2, <2>3
<1>. HIDE DEF g
<1>3. /\ GoodFrame(g) /\ PromptsOf(Held(g)) = PromptsOf(Held(f)) \cup PromptsOf(new)
  BY <1>2, Taking
<1>4. first \subseteq Missing(g)
  OBVIOUS
<1>. HIDE DEF first
<1>5. GoodFrame(h) /\ h.slots = g.slots /\ Held(h) = Held(g)
  BY <1>2, <1>3, <1>4, SplitFrame
<1>. HIDE DEF h
<1>6. AfterAnswer(f, qs, new, cut) = g \/ AfterAnswer(f, qs, new, cut) = h
  BY DEF AfterAnswer, g, h, first
<1>7. CASE AfterAnswer(f, qs, new, cut) = g
  BY <1>2, <1>3, <1>7
<1>8. CASE AfterAnswer(f, qs, new, cut) = h
  BY <1>2, <1>3, <1>5, <1>8
<1>. QED BY <1>6, <1>7, <1>8

\* The next half is asked: it is of slots that nobody else has or asks for.
LEMMA HalfBegins ==
  ASSUME NEW f, GoodFrame(f), f.splitting, f.groups # <<>>
  PROVE  LET g == [f EXCEPT !.groups = Tail(@)]
         IN  /\ GoodFrame(g) /\ g.slots = f.slots /\ Held(g) = Held(f)
             /\ Head(f.groups) \in SUBSET Slots /\ HalfOf(Frame(Head(f.groups)), g)
<1>. DEFINE gr == f.groups
            tl == Tail(gr)
            hd == Head(gr)
            g == [f EXCEPT !.groups = tl]
<1>1. f \in FrameRecord /\ gr \in Seq(SUBSET Slots)
  BY FrameFields
<1>2. /\ \A i \in DOMAIN gr : gr[i] \subseteq Unfilled(f)
      /\ \A i, j \in DOMAIN gr : i # j => gr[i] \cap gr[j] = {}
      /\ gr # <<>>
  BY DEF GoodFrame
<1>. HIDE DEF gr
<1>3. /\ tl \in Seq(SUBSET Slots) /\ hd = gr[1] /\ 1 \in DOMAIN gr /\ hd \in SUBSET Slots
      /\ \A i \in DOMAIN tl : i + 1 \in DOMAIN gr /\ tl[i] = gr[i + 1] /\ i + 1 # 1
      /\ \A i, j \in DOMAIN tl : i # j => i + 1 # j + 1
  BY <1>1, <1>2
<1>4. /\ \A i \in DOMAIN tl : tl[i] \subseteq Unfilled(f) /\ hd \cap tl[i] = {}
      /\ \A i, j \in DOMAIN tl : i # j => tl[i] \cap tl[j] = {}
      /\ hd \subseteq Unfilled(f)
  BY <1>2, <1>3
<1>. HIDE DEF tl, hd
<1>5. /\ g \in FrameRecord /\ g.slots = f.slots /\ g.accepted = f.accepted /\ g.recovered = f.recovered
      /\ g.splitting /\ g.groups = tl
  BY <1>1, <1>3 DEF FrameRecord
<1>. HIDE DEF g
<1>6. Held(g) = Held(f) /\ Unfilled(g) = Unfilled(f)
  BY <1>5 DEF Held, Unfilled
<1>7. GoodFrame(g)
  BY <1>4, <1>5, <1>6 DEF GoodFrame
<1>8. HalfOf(Frame(hd), g)
  BY <1>3, <1>4, <1>5, <1>6, FrameFacts DEF HalfOf
<1>. QED BY <1>3, <1>5, <1>6, <1>7, <1>8 DEF g, tl, hd, gr

\* Concatenation is associative.
LEMMA ConcatAssociates ==
  ASSUME NEW s \in Seq(Question), NEW t \in Seq(Question), NEW u \in Seq(Question)
  PROVE  (s \o t) \o u = s \o (t \o u)
OBVIOUS

\* A half returns: what it gives joins what the loop it is a half of has.
LEMMA HalfReturns ==
  ASSUME NEW e, GoodFrame(e), NEW f, HalfOf(f, e), NEW qs \in Seq(Question), Apart(qs),
         SlotsOf(qs) \subseteq f.slots, PromptsOf(qs) \cap PromptsOf(Held(e)) = {}
  PROVE  LET g == [e EXCEPT !.recovered = @ \o qs]
         IN  /\ GoodFrame(g) /\ g.slots = e.slots
             /\ PromptsOf(Held(g)) = PromptsOf(Held(e)) \cup PromptsOf(qs)
<1>. DEFINE rec == e.recovered \o qs
            g == [e EXCEPT !.recovered = rec]
            old == Held(e)
            all == old \o qs
<1>1. /\ e \in FrameRecord /\ e.accepted \in Seq(Question) /\ e.recovered \in Seq(Question)
      /\ old = e.accepted \o e.recovered /\ old \in Seq(Question) /\ Apart(old)
      /\ SlotsOf(old) \subseteq e.slots
  BY FrameFields
<1>2. rec \in Seq(Question) /\ all = e.accepted \o rec
  <2>1. rec \in Seq(Question)
    BY <1>1
  <2>2. (e.accepted \o e.recovered) \o qs = e.accepted \o (e.recovered \o qs)
    BY <1>1, ConcatAssociates
  <2>. QED BY <1>1, <2>1, <2>2, Zenon
<1>. HIDE DEF rec, old
<1>3. SlotsOf(old) \cap SlotsOf(qs) = {} /\ SlotsOf(qs) \subseteq e.slots
      /\ PromptsOf(old) \cap PromptsOf(qs) = {}
  BY DEF HalfOf, Unfilled, old
<1>4. Apart(all)
  BY <1>1, <1>3, ConcatApart
<1>5. SlotsOf(all) = SlotsOf(old) \cup SlotsOf(qs) /\ PromptsOf(all) = PromptsOf(old) \cup PromptsOf(qs)
  BY <1>1, ConcatSets
<1>. HIDE DEF all
<1>6. /\ g \in FrameRecord /\ g.slots = e.slots /\ g.accepted = e.accepted /\ g.recovered = rec
      /\ g.splitting = e.splitting /\ g.groups = e.groups
  BY <1>1, <1>2 DEF FrameRecord
<1>. HIDE DEF g
<1>7. Held(g) = all
  BY <1>2, <1>6 DEF Held
<1>8. Unfilled(g) = Unfilled(e) \ SlotsOf(qs)
  BY <1>5, <1>6, <1>7 DEF Unfilled, old
<1>9. \A i \in DOMAIN e.groups : e.groups[i] \subseteq Unfilled(g)
  BY <1>8 DEF GoodFrame, HalfOf
<1>10. e.splitting
  BY DEF HalfOf
<1>11. GoodFrame(g)
  BY <1>1, <1>3, <1>4, <1>5, <1>6, <1>7, <1>9, <1>10 DEF GoodFrame
<1>. QED BY <1>5, <1>6, <1>7, <1>11 DEF g, rec, old

\* The innermost loop moves, and nothing else of the request but what it has taken.
LEMMA LoopMoves ==
  ASSUME NEW q, NEW p, AtPart(q, p), p = "ollama", NEW g, GoodFrame(g),
         g.slots = Last(q.frames).slots, NEW P, P \subseteq Prompts, P \cap q.prompts = {},
         PromptsOf(Held(g)) \subseteq PromptsOf(Held(Last(q.frames))) \cup P,
         NEW pc \in {"waiting", "frame"}, pc # "frame" => ~g.splitting
  PROVE  Content([q EXCEPT !.pc = pc, !.prompts = q.prompts \cup P,
                           !.frames = Append(Front(q.frames), g)])
<1>. DEFINE part == Parts(BatchSize[p])[q.part]
            taken == q.prompts \ PromptsOf(q.questions)
            prompts == q.prompts \cup P
            more == prompts \ PromptsOf(q.questions)
            fs == q.frames
            gs == Append(Front(fs), g)
            s == [q EXCEPT !.pc = pc, !.prompts = prompts, !.frames = gs]
<1>1. /\ Call(q) /\ q.prompts \subseteq Prompts /\ PromptsOf(q.questions) \subseteq q.prompts
  BY AtPartFacts
<1>2. GoodStack(fs, part, taken)
  BY InnerLoop
<1>3. /\ taken \subseteq more /\ P \subseteq more /\ P \cap taken = {}
      /\ q.prompts \subseteq prompts /\ prompts \subseteq Prompts
  BY <1>1
<1>4. /\ g.slots = Last(fs).slots /\ PromptsOf(Held(g)) \subseteq PromptsOf(Held(Last(fs))) \cup P
  OBVIOUS
<1>. HIDE DEF part, taken, more, fs
<1>5. GoodStack(gs, part, more) /\ Last(gs) = g
  BY <1>2, <1>3, <1>4, ReplaceTop
<1>. HIDE DEF prompts, gs
<1>6. /\ Call(s) /\ s.at = q.at /\ s.part = q.part
      /\ s.questions = q.questions /\ s.outcome = q.outcome /\ s.pc = pc
      /\ s.prompts = prompts /\ s.frames = gs
  BY <1>1 DEF Call, Fields
<1>. HIDE DEF s
<1>7. Content(s)
  BY <1>3, <1>5, <1>6, StackContent DEF AtProvider, part, more
<1>. QED BY <1>7 DEF s, gs, prompts, fs

LEMMA OllamaRepliesContent ==
  ASSUME LockInv, ContentInv, NEW r \in Requests, OllamaReplies(r)
  PROVE  ContentInv'
<1>. DEFINE p == Provider(r)
            q == req[r]
            fs == q.frames
            f == Last(fs)
<1>1. q.pc = "calling" /\ p = "ollama" /\ AtPart(q, p) /\ Call(q)
  BY RequestAt DEF OllamaReplies, AtProvider
<1>2. PICK qs \in QuestionSeqs(Cardinality(Missing(f))), cut \in BOOLEAN :
        LET new == Accepted(qs, f, q.prompts)
        IN  req' = [req EXCEPT ![r].pc = "frame",
                               ![r].prompts = @ \cup PromptsOf(new),
                               ![r].frames = Append(Front(fs), AfterAnswer(f, qs, new, cut))]
  BY DEF OllamaReplies
<1>. DEFINE new == Accepted(qs, f, q.prompts)
            g == AfterAnswer(f, qs, new, cut)
            prompts == q.prompts \cup PromptsOf(new)
            gs == Append(Front(fs), g)
            s == [q EXCEPT !.pc = "frame", !.prompts = prompts, !.frames = gs]
<1>3. req' = [req EXCEPT ![r] = s]
  BY <1>1, <1>2 DEF LockInv, Call, Fields
<1>4. /\ GoodFrame(f) /\ ~f.splitting /\ PromptsOf(Held(f)) \subseteq q.prompts
  BY <1>1, InnerLoop
<1>5. f.slots \subseteq Slots /\ f.accepted \in Seq(Question) /\ PromptsOf(f.accepted) \subseteq q.prompts
  BY <1>4, FrameFields
<1>6. qs \in Seq(Question)
  BY <1>5, AnswerIn
<1>7. /\ new \in Seq(Question) /\ Apart(new)
      /\ SlotsOf(new) \subseteq Missing(f) /\ PromptsOf(new) \cap q.prompts = {}
  BY <1>5, <1>6, AcceptedFacts
<1>8. PromptsOf(new) \cap PromptsOf(f.accepted) = {} /\ PromptsOf(new) \subseteq Prompts
  BY <1>5, <1>7, QuestionIn
<1>. HIDE DEF new, f
<1>9. /\ GoodFrame(g) /\ g.slots = f.slots
      /\ PromptsOf(Held(g)) = PromptsOf(Held(f)) \cup PromptsOf(new)
  BY <1>4, <1>7, <1>8, AfterAnswerFacts
<1>. DEFINE P == PromptsOf(new)
<1>10. /\ P \subseteq Prompts /\ P \cap q.prompts = {} /\ prompts = q.prompts \cup P
       /\ PromptsOf(Held(g)) \subseteq PromptsOf(Held(Last(q.frames))) \cup P
       /\ g.slots = Last(q.frames).slots
  BY <1>7, <1>8, <1>9 DEF f
<1>. HIDE DEF g, P, q, p
<1>11. Content([q EXCEPT !.pc = "frame", !.prompts = q.prompts \cup P,
                           !.frames = Append(Front(q.frames), g)])
  BY <1>1, <1>9, <1>10, LoopMoves
<1>12. Content(s)
  BY <1>11 DEF P
<1>. HIDE DEF s
<1>. QED BY <1>3, <1>12, ContentStep

LEMMA OllamaSplitsContent ==
  ASSUME LockInv, ContentInv, NEW r \in Requests, OllamaSplits(r)
  PROVE  ContentInv'
<1>. DEFINE p == Provider(r)
            q == req[r]
            fs == q.frames
            f == Last(fs)
            g == [f EXCEPT !.groups = Tail(@)]
            half == Head(f.groups)
            gs == Append(Front(fs), g)
            hs == gs \o <<Frame(half)>>
            s == [q EXCEPT !.pc = "waiting", !.frames = hs]
            part == Parts(BatchSize[p])[q.part]
            taken == q.prompts \ PromptsOf(q.questions)
<1>1. q.pc = "frame" /\ AtPart(q, p) /\ Call(q) /\ f.splitting /\ f.groups # <<>>
  BY RequestAt DEF OllamaSplits, AtProvider
<1>2. req' = [req EXCEPT ![r] = s]
  BY <1>1 DEF OllamaSplits, LockInv, Call, Fields
<1>3. /\ GoodStack(fs, part, taken) /\ GoodFrame(f) /\ (p # "ollama" => q.pc # "frame")
  BY <1>1, InnerLoop
<1>4. q.prompts \subseteq Prompts
  BY <1>1, AtPartFacts
<1>5. /\ GoodFrame(g) /\ g.slots = f.slots /\ Held(g) = Held(f)
      /\ half \in SUBSET Slots /\ HalfOf(Frame(half), g)
  BY <1>1, <1>3, HalfBegins
<1>. HIDE DEF g, half, part, taken
<1>6. PromptsOf(Held(g)) \subseteq PromptsOf(Held(Last(fs))) \cup {}
  BY <1>5
<1>. HIDE DEF fs
<1>7. GoodStack(gs, part, taken) /\ Last(gs) = g
  <2>1. g.slots = Last(fs).slots /\ {} \cap taken = {} /\ taken \subseteq taken /\ {} \subseteq taken
    BY <1>5
  <2>. QED BY <1>3, <1>5, <1>6, <2>1, ReplaceTop
<1>. HIDE DEF gs
<1>8. GoodStack(hs, part, taken) /\ ~Last(hs).splitting
  BY <1>5, <1>7, Pushed
<1>. HIDE DEF hs
<1>9. /\ Call(s) /\ s.at = q.at /\ s.part = q.part
      /\ s.questions = q.questions /\ s.outcome = q.outcome /\ s.pc = "waiting"
      /\ s.prompts = q.prompts /\ s.frames = hs
  BY <1>1 DEF Call, Fields
<1>. HIDE DEF s, q, p
<1>10. Content(s)
  BY <1>1, <1>3, <1>4, <1>8, <1>9, StackContent DEF AtProvider, part, taken
<1>. QED BY <1>2, <1>10, ContentStep DEF q

\* The innermost loop returns questions of its own, for its slots.
LEMMA ReturnedContent ==
  ASSUME NEW q, AtPart(q, "ollama"), q.pc = "frame", NEW qs \in Seq(Question), Apart(qs),
         SlotsOf(qs) \subseteq Last(q.frames).slots,
         PromptsOf(qs) \subseteq PromptsOf(Held(Last(q.frames)))
  PROVE  Content(Returned(q, q.frames, qs))
<1>. DEFINE p == "ollama"
            fs == q.frames
            n == Len(fs)
            f == Last(fs)
            part == Parts(BatchSize[p])[q.part]
            taken == q.prompts \ PromptsOf(q.questions)
<1>1. /\ GoodStack(fs, part, taken) /\ n \in Nat \ {0} /\ f = fs[n]
      /\ PromptsOf(Held(f)) \subseteq taken /\ DOMAIN fs = 1 .. n
  BY InnerLoop, TopFacts
<1>2. /\ Call(q) /\ q.prompts \subseteq Prompts
  BY AtPartFacts
<1>3. PromptsOf(qs) \subseteq q.prompts /\ PromptsOf(qs) \cap PromptsOf(q.questions) = {}
  BY <1>1
<1>4. CASE n = 1
  <2>1. SlotsOf(qs) \subseteq part
    BY <1>1, <1>4 DEF GoodStack
  <2>2. Content(PartDone(q, p, qs))
    BY <1>3, <2>1, PartDoneContent
  <2>. QED BY <1>4, <2>2 DEF Returned
<1>5. CASE n # 1
  <2>. DEFINE m == n - 2
              e == fs[n - 1]
              g == [e EXCEPT !.recovered = @ \o qs]
              gs == Append(SubSeq(fs, 1, m), g)
              s == [q EXCEPT !.frames = gs]
  <2>1. /\ m \in 0 .. n /\ n - 1 \in 1 .. (n - 1) /\ (n - 1) + 1 = n /\ n - 1 \in 1 .. n
        /\ n \in 1 .. n /\ n # n - 1 /\ 1 .. m \subseteq 1 .. n
        /\ (m # 0 => m \in 1 .. (n - 1) /\ m + 1 = n - 1) /\ n \notin 1 .. m /\ n - 1 \notin 1 .. m
        /\ (m = 0 => n - 1 = 1)
    <3>1. n \in Nat \ {0} /\ n # 1
      BY <1>1, <1>5
    <3>. HIDE DEF n
    <3>. QED BY <3>1
  <2>2. HalfOf(f, e) /\ GoodFrame(e) /\ PromptsOf(Held(e)) \subseteq taken
        /\ PromptsOf(Held(e)) \cap PromptsOf(Held(f)) = {}
    BY <1>1, <2>1 DEF GoodStack
  <2>3. PromptsOf(qs) \cap PromptsOf(Held(e)) = {} /\ SlotsOf(qs) \subseteq f.slots
    BY <2>2
  <2>. HIDE DEF f, e
  <2>4. /\ GoodFrame(g) /\ g.slots = e.slots
        /\ PromptsOf(Held(g)) = PromptsOf(Held(e)) \cup PromptsOf(qs)
    BY <2>2, <2>3, HalfReturns
  <2>5. PromptsOf(Held(g)) \subseteq taken
    BY <1>1, <2>2, <2>4 DEF f
  <2>6. m = 0 => g.slots \subseteq part
    BY <1>1, <2>1, <2>4 DEF GoodStack, e
  <2>7. m # 0 => HalfOf(g, fs[m])
    <3>1. SUFFICES ASSUME m # 0 PROVE HalfOf(g, fs[m])
      OBVIOUS
    <3>2. HalfOf(fs[m + 1], fs[m])
      BY <1>1, <2>1, <3>1 DEF GoodStack
    <3>3. HalfOf(e, fs[m])
      BY <2>1, <3>1, <3>2 DEF e
    <3>. QED BY <2>4, <3>3 DEF HalfOf
  <2>8. \A k \in 1 .. m : PromptsOf(Held(g)) \cap PromptsOf(Held(fs[k])) = {}
    <3>1. TAKE k \in 1 .. m
    <3>2. k \in DOMAIN fs /\ n \in DOMAIN fs /\ n - 1 \in DOMAIN fs /\ k # n /\ k # n - 1
      BY <1>1, <2>1
    <3>3. /\ PromptsOf(Held(fs[k])) \cap PromptsOf(Held(fs[n])) = {}
          /\ PromptsOf(Held(fs[k])) \cap PromptsOf(Held(fs[n - 1])) = {}
      BY <1>1, <3>2 DEF GoodStack
    <3>. QED BY <1>1, <2>4, <3>3 DEF e, f
  <2>9. m \in 0 .. Len(fs) /\ taken \subseteq taken
    BY <2>1
  <2>. HIDE DEF part, taken, g, m
  <2>10. GoodStack(gs, part, taken)
    BY <1>1, <2>4, <2>5, <2>6, <2>7, <2>8, <2>9, StackTop
  <2>. HIDE DEF gs
  <2>11. /\ Call(s) /\ s.at = q.at /\ s.part = q.part
         /\ s.questions = q.questions /\ s.outcome = q.outcome /\ s.pc = "frame"
         /\ s.prompts = q.prompts /\ s.frames = gs
    BY <1>2 DEF Call, Fields
  <2>. HIDE DEF s
  <2>12. Content(s)
    BY <1>2, <2>10, <2>11, StackContent DEF AtProvider, part, taken
  <2>13. Returned(q, fs, qs) = s
    BY <1>5 DEF Returned, s, gs, g, e, m
  <2>. QED BY <2>12, <2>13
<1>. QED BY <1>4, <1>5

\* A loop that is tried again keeps what it accepted and forgets its halves.
LEMMA RetriedFrame ==
  ASSUME NEW f, GoodFrame(f)
  PROVE  LET g == [Frame(f.slots) EXCEPT !.attempt = f.attempt + 1, !.accepted = f.accepted]
         IN  /\ GoodFrame(g) /\ g.slots = f.slots /\ ~g.splitting
             /\ PromptsOf(Held(g)) \subseteq PromptsOf(Held(f))
<1>. DEFINE a == f.attempt + 1
            fr == Frame(f.slots)
            g == [fr EXCEPT !.attempt = a, !.accepted = f.accepted]
<1>0. /\ f.slots \subseteq Slots /\ f.accepted \in Seq(Question) /\ f.attempt \in Nat
      /\ Apart(Held(f)) /\ SlotsOf(Held(f)) \subseteq f.slots
      /\ Apart(f.accepted) /\ SlotsOf(f.accepted) \subseteq SlotsOf(Held(f))
      /\ PromptsOf(f.accepted) \subseteq PromptsOf(Held(f))
  BY FrameFields
<1>1. /\ f.slots \in SUBSET Slots /\ f.accepted \in Seq(Question) /\ a \in Nat
      /\ Apart(f.accepted) /\ SlotsOf(f.accepted) \subseteq f.slots
      /\ PromptsOf(f.accepted) \subseteq PromptsOf(Held(f))
  BY <1>0
<1>2. /\ fr \in FrameRecord /\ fr.slots = f.slots /\ fr.recovered = <<>> /\ fr.groups = <<>>
      /\ fr.splitting = FALSE
  BY <1>1, FrameFacts DEF GoodFrame, Frame
<1>. HIDE DEF a, fr
<1>3. /\ g \in FrameRecord /\ g.slots = f.slots /\ g.accepted = f.accepted /\ g.recovered = <<>>
      /\ g.groups = <<>> /\ g.splitting = FALSE
  BY <1>1, <1>2 DEF FrameRecord
<1>. HIDE DEF g
<1>4. Held(g) = f.accepted
  BY <1>1, <1>3, ConcatEmpty DEF Held
<1>5. GoodFrame(g)
  BY <1>1, <1>3, <1>4 DEF GoodFrame
<1>. QED BY <1>1, <1>3, <1>4, <1>5 DEF g, a, fr
LEMMA OllamaContinuesContent ==
  ASSUME LockInv, ContentInv, NEW r \in Requests, OllamaContinues(r)
  PROVE  ContentInv'
<1>. DEFINE p == Provider(r)
            q == req[r]
            fs == q.frames
            f == Last(fs)
            whole == f.splitting /\ Len(f.recovered) = Cardinality(Missing(f))
            qs == IF whole THEN f.accepted \o f.recovered ELSE f.accepted
            g == [Frame(f.slots) EXCEPT !.attempt = f.attempt + 1, !.accepted = f.accepted]
            done == Returned(q, fs, qs)
            next == [q EXCEPT !.pc = "waiting", !.frames = Append(Front(fs), g)]
<1>1. q.pc = "frame" /\ AtPart(q, p) /\ Call(q)
  BY RequestAt DEF OllamaContinues, AtProvider
<1>2. p = "ollama" /\ GoodFrame(f)
  BY <1>1, InnerLoop
<1>3. \/ Fail(r, RETRYABLE)
      \/ req' = [req EXCEPT ![r] = done]
      \/ req' = [req EXCEPT ![r] = next]
  BY DEF OllamaContinues
<1>4. Content(done)
  <2>1. /\ Held(f) = f.accepted \o f.recovered /\ Held(f) \in Seq(Question) /\ Apart(Held(f))
        /\ f.accepted \in Seq(Question) /\ Apart(f.accepted)
        /\ SlotsOf(Held(f)) \subseteq f.slots /\ SlotsOf(f.accepted) \subseteq SlotsOf(Held(f))
        /\ PromptsOf(f.accepted) \subseteq PromptsOf(Held(f))
    BY <1>2, FrameFields
  <2>2. qs = Held(f) \/ qs = f.accepted
    BY <2>1, Zenon
  <2>. HIDE DEF f, qs
  <2>3. /\ qs \in Seq(Question) /\ Apart(qs) /\ SlotsOf(qs) \subseteq f.slots
        /\ PromptsOf(qs) \subseteq PromptsOf(Held(f))
    BY <2>1, <2>2
  <2>. HIDE DEF q, p
  <2>4. AtPart(q, "ollama") /\ q.pc = "frame"
    BY <1>1, <1>2
  <2>5. SlotsOf(qs) \subseteq Last(q.frames).slots /\ PromptsOf(qs) \subseteq PromptsOf(Held(Last(q.frames)))
    BY <2>3 DEF f
  <2>. QED BY <2>3, <2>4, <2>5, ReturnedContent
<1>5. Content(next)
  <2>1. /\ GoodFrame(g) /\ g.slots = f.slots /\ ~g.splitting
        /\ PromptsOf(Held(g)) \subseteq PromptsOf(Held(f))
    BY <1>2, RetriedFrame
  <2>. HIDE DEF g
  <2>. DEFINE P == {}
  <2>2. P \subseteq Prompts /\ P \cap q.prompts = {}
        /\ PromptsOf(Held(g)) \subseteq PromptsOf(Held(Last(q.frames))) \cup P
        /\ g.slots = Last(q.frames).slots
    BY <2>1
  <2>. DEFINE gs == Append(Front(q.frames), g)
              prompts == q.prompts \cup P
  <2>3. prompts = q.prompts
    OBVIOUS
  <2>. HIDE DEF P, f, p
  <2>4. Content([q EXCEPT !.pc = "waiting", !.prompts = q.prompts \cup P, !.frames = gs])
    <3>1. "waiting" \in {"waiting", "frame"} /\ ("waiting" # "frame" => ~g.splitting)
      BY <2>1
    <3>. HIDE DEF q
    <3>. QED BY <1>1, <1>2, <2>1, <2>2, <3>1, LoopMoves
  <2>. HIDE DEF gs
  <2>5. [q EXCEPT !.pc = "waiting", !.prompts = prompts, !.frames = gs]
          = [q EXCEPT !.pc = "waiting", !.frames = gs]
    <3>. HIDE DEF prompts, q
    <3>. QED BY <1>1, <2>3 DEF Call, Fields
  <2>6. Content([q EXCEPT !.pc = "waiting", !.frames = gs])
    BY <2>4, <2>5
  <2>. QED BY <2>6 DEF gs
<1>. HIDE DEF done, next, q
<1>6. CASE Fail(r, RETRYABLE)
  BY <1>1, <1>6, FailContent DEF AtProvider, q
<1>7. CASE req' = [req EXCEPT ![r] = done]
  BY <1>4, <1>7, ContentStep
<1>8. CASE req' = [req EXCEPT ![r] = next]
  BY <1>5, <1>8, ContentStep
<1>. QED BY <1>3, <1>6, <1>7, <1>8

-----------------------------------------------------------------------------
\* The invariant holds at first and is kept.
LEMMA ContentInvInit == Init => ContentInv
<1>. SUFFICES ASSUME Init PROVE ContentInv
  OBVIOUS
<1>1. Idle.pc = "idle" /\ Idle.prompts = {} /\ Idle.outcome = "none"
  BY DEF Idle
<1>2. Content(Idle)
  BY <1>1, EmptyContent DEF AtProvider
<1>. QED BY <1>2 DEF Init, ContentInv

LEMMA ContentInvStep == LockInv /\ ContentInv /\ [Next]_vars => ContentInv'
<1>. SUFFICES ASSUME LockInv, ContentInv, [Next]_vars PROVE ContentInv'
  OBVIOUS
<1>1. ASSUME NEW r \in Requests, Steps(r) \/ Arrive(r) \/ Cancel(r)
      PROVE  ContentInv'
  BY <1>1, ArriveContent, CancelContent, SkipContent, AttemptContent, ExhaustedContent,
     AnsweredContent, SendContent, CallFailsContent, GeminiContent, OllamaRepliesContent,
     OllamaSplitsContent, OllamaContinuesContent DEF Steps
<1>2. CASE UNCHANGED req
  <2>1. \A r \in Requests : Content(req'[r])
    BY <1>2 DEF ContentInv
  <2>. QED BY <2>1 DEF ContentInv, Content, InPart, GoodStack, GoodFrame, HalfOf, Whole
<1>3. ASSUME NEW p \in Names, CoolDown(p) PROVE ContentInv'
  BY <1>2, <1>3 DEF CoolDown
<1>4. CASE UNCHANGED vars
  BY <1>2, <1>4 DEF vars
<1>. QED BY <1>1, <1>3, <1>4 DEF Next

\* The two invariants say what AnswersAreWhole says.
LEMMA ContentIsWhole == LockInv /\ ContentInv => AnswersAreWhole
<1>. SUFFICES ASSUME LockInv, ContentInv PROVE AnswersAreWhole
  OBVIOUS
<1>1. \A r \in Requests :
        /\ req[r].pc \in {"idle", "route", "waiting", "calling", "frame",
                           "answered", "done", "cancelled"}
        /\ req[r].at \in 1..(Len(Providers) + 1)
        /\ req[r].prompts \subseteq Prompts
        /\ req[r].outcome \in {"none", "ok", "refused", "retryable"}
  BY DEF LockInv, Placed, AtProvider, ContentInv, Content
<1>2. TypeOK
  BY <1>1 DEF TypeOK, LockInv, Circuit
<1>3. AnswersThePlan
  BY DEF AnswersThePlan, ContentInv, Content, Whole
<1>. QED BY <1>2, <1>3 DEF AnswersAreWhole

\* quiz_llm_provider.py:185, gemini_quiz_providers.py:71, ollama_qwen_provider.py:85.
\* For any providers, requests, plans, sizes of parts and answers: an answered batch has one
\* question for every slot and no two near-equal ones, however the parts,
\* the second calls, the split halves, the retries and the fallbacks went.
THEOREM AnswersStayWhole == Spec => []AnswersAreWhole
<1>1. Init => LockInv /\ ContentInv
  BY LockInvInit, ContentInvInit
<1>2. LockInv /\ ContentInv /\ [Next]_vars => (LockInv /\ ContentInv)'
  BY LockInvStep, ContentInvStep
<1>. QED BY <1>1, <1>2, ContentIsWhole, PTL DEF Spec

=============================================================================
