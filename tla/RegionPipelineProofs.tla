------------------------ MODULE RegionPipelineProofs ------------------------
(***************************************************************************)
(* Three results about RegionPipeline, for any document, any readings and  *)
(* findings, any page budget and any number of packets, archives, imports, *)
(* decisions and faults.                                                   *)
(*                                                                         *)
(* ReviewInv numbers what people did: a request that is repeated carries   *)
(* its number, and the server that took it remembers it while it runs, or  *)
(* has another token.  EvidenceInv follows evidence from the image it was  *)
(* read in through packets and archives into the record it is added to.    *)
(* ReviewInv stands alone; EvidenceInv needs it only where a decision is   *)
(* appended to those before it.                                            *)
(***************************************************************************)
EXTENDS RegionPipeline, FiniteSetTheorems, FunctionTheorems, WellFoundedInduction, TLAPS

\* The gestures that people made are numbered, and nobody makes one number twice.
Numbered ==
  /\ gestures \in Nat /\ gestures <= MaxGestures
  /\ \A p \in sent : /\ p.gesture \in 1..gestures
                     /\ p.token \in Nat /\ p.token <= server.token
  /\ \A p, q \in sent : p.gesture = q.gesture => p = q

\* The server forgets none of the actions it completed since it started.
Remembered ==
  /\ server.token \in Nat \ {0}
  /\ server = [token |-> server.token, done |-> server.done]
  /\ server.done \in Seq(1..gestures)
  /\ \A m, n \in DOMAIN server.done : server.done[m] = server.done[n] => m = n

\* A stored decision was made by somebody, and the server that took it
\* remembers it as long as it runs.
Recorded(v) ==
  \E p \in sent : /\ p.gesture = v.gesture /\ p.id = v.id
                  /\ p.token = server.token => p.gesture \in Range(server.done)

ReviewInv ==
  /\ Numbered /\ Remembered
  /\ reviews \in Seq(Range(reviews))
  /\ \A n \in DOMAIN reviews : Recorded(reviews[n])
  /\ DecisionsAreSound

\* 1 .. n has n elements.
LEMMA UpToCount ==
  ASSUME NEW n \in Nat
  PROVE  IsFiniteSet(1 .. n) /\ Cardinality(1 .. n) = n
<1>1. IsFiniteSet(1 .. n) /\ Cardinality(1 .. n) = IF 1 > n THEN 0 ELSE n - 1 + 1
  BY FS_Interval
<1>. QED BY <1>1

\* A sequence of different numbers is no longer than their bound.
LEMMA DifferentNumbers ==
  ASSUME NEW g \in Nat, NEW s \in Seq(1..g),
         \A m, n \in DOMAIN s : s[m] = s[n] => m = n
  PROVE  Len(s) <= g
<1>1. s \in [1..Len(s) -> 1..g] /\ Len(s) \in Nat /\ DOMAIN s = 1..Len(s)
  OBVIOUS
<1>2. IsFiniteSet(1..Len(s)) /\ Cardinality(1..Len(s)) = Len(s)
  BY <1>1, UpToCount
<1>3. IsFiniteSet(1..g) /\ Cardinality(1..g) = g
  BY UpToCount
<1>4. SUFFICES ASSUME Len(s) > g
               PROVE  FALSE
  BY <1>1
<1>5. \E x, y \in 1..Len(s) : x # y /\ s[x] = s[y]
  <2>1. Cardinality(1..g) < Cardinality(1..Len(s))
    BY <1>1, <1>2, <1>3, <1>4
  <2>. QED BY ONLY <1>1, <1>2, <1>3, <2>1, FS_PigeonHole
<1>. QED
  BY <1>5, <1>1

\* One more element of a sequence.
LEMMA Appended ==
  ASSUME NEW s, s \in Seq(Range(s)), NEW e
  PROVE  /\ Append(s, e) \in Seq(Range(Append(s, e)))
         /\ DOMAIN Append(s, e) = DOMAIN s \cup {Len(s) + 1}
         /\ Len(s) + 1 \notin DOMAIN s
         /\ \A n \in DOMAIN s : Append(s, e)[n] = s[n]
         /\ Append(s, e)[Len(s) + 1] = e
<1>1. /\ Append(s, e) \in Seq(Range(s) \cup {e})
      /\ Len(Append(s, e)) = Len(s) + 1 /\ Len(s) \in Nat
      /\ DOMAIN s = 1..Len(s) /\ DOMAIN Append(s, e) = 1..(Len(s) + 1)
      /\ \A n \in 1..Len(s) : Append(s, e)[n] = s[n]
      /\ Append(s, e)[Len(s) + 1] = e
  <2>1. s \in Seq(Range(s) \cup {e})
    OBVIOUS
  <2>. QED BY <2>1
<1>2. \A n \in 1..(Len(s) + 1) : Append(s, e)[n] \in Range(Append(s, e))
  BY <1>1 DEF Range
<1>3. Append(s, e) \in Seq(Range(Append(s, e)))
  BY <1>1, <1>2
<1>. QED BY <1>1, <1>3

-----------------------------------------------------------------------------
(* Decisions.                                                              *)

\* What people and the server know stays as it is.
LEMMA ReviewStays ==
  ASSUME ReviewInv, UNCHANGED <<reviews, server, sent, gestures>>
  PROVE  ReviewInv'
BY DEF ReviewInv, Numbered, Remembered, Recorded, DecisionsAreSound, DecidedAsShown,
       OneDecisionPerGesture

\* One more decision of a person gets a number of its own.
LEMMA GestureReviews ==
  ASSUME ReviewInv, NEW i, NEW d, NEW token \in Nat, token <= server.token,
         Gesture(i, d, token)
  PROVE  ReviewInv'
<1>. DEFINE new == [id |-> i, shown |-> records[i], token |-> token, decision |-> d,
                    gesture |-> gestures + 1]
<1>1. /\ gestures < MaxGestures /\ gestures' = gestures + 1
      /\ sent' = sent \cup {new} /\ reviews' = reviews /\ server' = server
  BY DEF Gesture, review, colab
<1>2. new.gesture = gestures + 1 /\ new.token = token
  OBVIOUS
<1>. HIDE DEF new
<1>3. gestures \in Nat /\ MaxGestures \in Nat
  BY RegionAssumption DEF ReviewInv, Numbered
<1>4. Numbered'
  <2>1. \A p \in sent : /\ p.gesture \in 1..gestures /\ p.token \in Nat
                        /\ p.token <= server.token
    BY DEF ReviewInv, Numbered
  <2>2. \A p \in sent : p.gesture # new.gesture /\ p.gesture \in 1..(gestures + 1)
    BY <2>1, <1>2, <1>3
  <2>3. \A p, q \in sent' : p.gesture = q.gesture => p = q
    BY <2>2, <1>1 DEF ReviewInv, Numbered
  <2>4. \A p \in sent' : /\ p.gesture \in 1..(gestures + 1)
                         /\ p.token \in Nat /\ p.token <= server.token
    BY <2>1, <2>2, <1>1, <1>2, <1>3
  <2>. QED BY <2>3, <2>4, <1>1, <1>3 DEF Numbered
<1>5. Remembered'
  <2>1. server.done \in Seq(1..(gestures + 1))
    BY <1>3 DEF ReviewInv, Remembered
  <2>. QED BY <2>1, <1>1 DEF ReviewInv, Remembered
<1>6. \A n \in DOMAIN reviews' : Recorded(reviews[n])'
  BY <1>1 DEF ReviewInv, Recorded
<1>7. DecisionsAreSound'
  BY <1>1 DEF ReviewInv, DecisionsAreSound, DecidedAsShown, OneDecisionPerGesture
<1>. QED BY <1>1, <1>4, <1>5, <1>6, <1>7 DEF ReviewInv

\* A decision is stored about the record that was shown, and once.
LEMMA SubmitStores ==
  ASSUME ReviewInv, NEW p \in sent, UNCHANGED <<sent, gestures>>,
         Submit(p.id, p.shown, p.decision, p.gesture),
         Remembered', server'.token = server.token,
         Range(server.done) \subseteq Range(server'.done),
         p.token = server.token => p.gesture \in Range(server'.done),
         \A n \in DOMAIN reviews : reviews[n].gesture # p.gesture
  PROVE  ReviewInv'
<1>0. PICK new : new = [id |-> p.id, decision |-> p.decision,
                        text |-> AcceptedText(p.decision, records[p.id]), rec |-> records[p.id],
                        gesture |-> p.gesture, shown |-> p.shown]
  OBVIOUS
<1>1. reviews' = Append(reviews, new) /\ records[p.id] = p.shown
  BY <1>0 DEF Submit, Submittable
<1>2. /\ new.id = p.id /\ new.gesture = p.gesture /\ new.rec = new.shown
      /\ (new.decision = "approve") => (new.text = Proposed(new.shown))
  BY <1>0, <1>1 DEF AcceptedText
<1>3. /\ reviews' \in Seq(Range(reviews'))
      /\ DOMAIN reviews' = DOMAIN reviews \cup {Len(reviews) + 1}
      /\ Len(reviews) + 1 \notin DOMAIN reviews
      /\ \A n \in DOMAIN reviews : reviews'[n] = reviews[n]
      /\ reviews'[Len(reviews) + 1] = new
  BY <1>1, Appended DEF ReviewInv
<1>4. Numbered'
  BY DEF ReviewInv, Numbered
<1>5. \A n \in DOMAIN reviews' : Recorded(reviews[n])'
  <2>1. \A n \in DOMAIN reviews : Recorded(reviews[n])
    BY DEF ReviewInv
  <2>2. \A n \in DOMAIN reviews : Recorded(reviews[n])'
    BY <1>3, <2>1 DEF Recorded
  <2>3. Recorded(new)'
    BY <1>2 DEF Recorded
  <2>. QED BY <2>2, <2>3, <1>3
<1>6. DecidedAsShown'
  BY <1>2, <1>3 DEF ReviewInv, DecisionsAreSound, DecidedAsShown
<1>7. OneDecisionPerGesture'
  BY <1>2, <1>3 DEF ReviewInv, DecisionsAreSound, OneDecisionPerGesture
<1>. QED BY <1>3, <1>4, <1>5, <1>6, <1>7 DEF ReviewInv, DecisionsAreSound

\* The server stores what it does not remember, and remembers it.
LEMMA DeliverReviews ==
  ASSUME ReviewInv, NEW p \in sent, Deliver(p)
  PROVE  ReviewInv'
<1>. DEFINE done == Append(server.done, p.gesture)
<1>1. /\ p.token = server.token /\ p.gesture \notin Range(server.done)
      /\ Submit(p.id, p.shown, p.decision, p.gesture)
      /\ server' = [server EXCEPT !.done = IF Len(done) > ActionMemory THEN Tail(done) ELSE done]
      /\ UNCHANGED <<sent, gestures>>
  BY DEF Deliver, bounds
<1>2. /\ gestures \in Nat /\ gestures <= MaxGestures
      /\ MaxGestures \in Nat /\ ActionMemory \in Nat /\ ActionMemory >= MaxGestures
      /\ p.gesture \in 1..gestures
  BY RegionAssumption DEF ReviewInv, Numbered
<1>3. /\ server.token \in Nat \ {0} /\ server = [token |-> server.token, done |-> server.done]
      /\ server.done \in Seq(1..gestures)
      /\ \A m, n \in DOMAIN server.done : server.done[m] = server.done[n] => m = n
  BY DEF ReviewInv, Remembered
<1>4. /\ done \in Seq(1..gestures) /\ DOMAIN done = DOMAIN server.done \cup {Len(server.done) + 1}
      /\ \A n \in DOMAIN server.done : done[n] = server.done[n]
      /\ done[Len(server.done) + 1] = p.gesture
  BY <1>2, <1>3
<1>. HIDE DEF done
<1>5. \A m, n \in DOMAIN done : done[m] = done[n] => m = n
  BY <1>1, <1>3, <1>4 DEF Range
<1>6. Len(done) <= gestures /\ Len(done) \in Nat
  BY <1>2, <1>4, <1>5, DifferentNumbers
<1>7. ~(Len(done) > ActionMemory)
  BY <1>2, <1>6
<1>8. server' = [token |-> server.token, done |-> done]
  BY <1>1, <1>3, <1>7
<1>9. Remembered'
  BY <1>1, <1>3, <1>4, <1>5, <1>8 DEF Remembered
<1>10. Range(server.done) \subseteq Range(server'.done) /\ p.gesture \in Range(server'.done)
  BY <1>4, <1>8 DEF Range
<1>11. \A n \in DOMAIN reviews : reviews[n].gesture # p.gesture
  <2>1. \A q \in sent : q.gesture = p.gesture => q = p
    BY DEF ReviewInv, Numbered
  <2>. QED BY <2>1, <1>1 DEF ReviewInv, Recorded
<1>. QED BY <1>1, <1>8, <1>9, <1>10, <1>11, SubmitStores

\* An annotation of the same gesture has been imported for the same record.
LEMMA ImportReviews ==
  ASSUME ReviewInv, NEW p \in sent, ImportAnnotation(p)
  PROVE  ReviewInv'
<1>1. /\ p.token = 0 /\ Submit(p.id, p.shown, p.decision, p.gesture)
      /\ \A n \in DOMAIN reviews : ~(reviews[n].id = p.id /\ reviews[n].gesture = p.gesture)
      /\ UNCHANGED <<sent, gestures, server>>
  BY DEF ImportAnnotation, bounds
<1>2. \A n \in DOMAIN reviews : reviews[n].gesture # p.gesture
  <2>1. \A q \in sent : q.gesture = p.gesture => q = p
    BY DEF ReviewInv, Numbered
  <2>. QED BY <2>1, <1>1 DEF ReviewInv, Recorded
<1>3. Remembered' /\ server.token # 0
  BY <1>1 DEF ReviewInv, Remembered
<1>. QED BY <1>1, <1>2, <1>3, SubmitStores

\* What an earlier server took cannot be taken by the next one.
LEMMA RestartReviews ==
  ASSUME ReviewInv, RestartServer
  PROVE  ReviewInv'
<1>1. /\ server' = [token |-> server.token + 1, done |-> <<>>]
      /\ UNCHANGED <<reviews, sent, gestures>>
  BY DEF RestartServer
<1>2. server.token \in Nat \ {0} /\ gestures \in Nat
  BY DEF ReviewInv, Remembered, Numbered
<1>3. server'.token = server.token + 1 /\ server'.done = <<>>
  BY <1>1
<1>4. \A p \in sent : p.token <= server.token + 1 /\ p.token # server.token + 1
  BY <1>2 DEF ReviewInv, Numbered
<1>5. Numbered' /\ Remembered'
  BY <1>1, <1>2, <1>3, <1>4 DEF ReviewInv, Numbered, Remembered
<1>6. \A n \in DOMAIN reviews : Recorded(reviews[n])'
  BY <1>1, <1>3, <1>4 DEF ReviewInv, Recorded
<1>. QED BY <1>1, <1>5, <1>6 DEF ReviewInv, DecisionsAreSound, DecidedAsShown, OneDecisionPerGesture

\* The invariant of decisions holds at first.
LEMMA ReviewInvInit == Init => ReviewInv
<1>. SUFFICES ASSUME Init PROVE ReviewInv
  OBVIOUS
<1>1. /\ reviews = <<>> /\ server = [token |-> 1, done |-> <<>>] /\ sent = {} /\ gestures = 0
  BY DEF Init
<1>. QED BY <1>1, RegionAssumption DEF ReviewInv, Numbered, Remembered, DecisionsAreSound,
            DecidedAsShown, OneDecisionPerGesture

\* Every step keeps it.
LEMMA ReviewInvStep == ReviewInv /\ [Next]_vars => ReviewInv'
<1>. SUFFICES ASSUME ReviewInv, [Next]_vars PROVE ReviewInv'
  OBVIOUS
<1>0. server.token \in Nat /\ 0 <= server.token
  BY DEF ReviewInv, Remembered
<1>1. CASE UNCHANGED vars
  BY <1>1, ReviewStays DEF vars, review, bounds
<1>2. CASE BeginPrepare \/ WriteRun \/ AssignCourse \/ MergeLayout \/ MergeManifest
           \/ ExportCpt \/ Crash
  BY <1>2, ReviewStays DEF BeginPrepare, WriteRun, AssignCourse, MergeLayout, MergeManifest,
                          ExportCpt, Crash, review, bounds
<1>3. CASE \E phase \in {"discovery", "inference"} : Package(phase)
  BY <1>3, ReviewStays DEF Package, review, bounds
<1>4. CASE \E pk \in packets : ColabDiscovery(pk) \/ ColabInference(pk)
  BY <1>4, ReviewStays DEF ColabDiscovery, ColabInference, review, bounds
<1>5. CASE \E res \in results : MergeIngest(res)
  BY <1>5, ReviewStays DEF MergeIngest, review
<1>6. CASE \E e \in Parsers : ImportParser(e)
  BY <1>6, ReviewStays DEF ImportParser, review
<1>7. ASSUME NEW i, NEW d, Decide(i, d) \/ Annotate(i, d) PROVE ReviewInv'
  BY <1>0, <1>7, GestureReviews DEF Decide, Annotate
<1>8. ASSUME NEW i, DamageAsset(i) PROVE ReviewInv'
  BY <1>8, ReviewStays DEF DamageAsset, review
<1>9. CASE \E p \in sent : Deliver(p) \/ ImportAnnotation(p)
  BY <1>9, DeliverReviews, ImportReviews
<1>10. CASE RestartServer
  BY <1>10, RestartReviews
<1>. QED BY <1>1, <1>2, <1>3, <1>4, <1>5, <1>6, <1>7, <1>8, <1>9, <1>10 DEF Next

\* Whatever is repeated, delayed or restarted, and whenever a command merges
\* into the records under the eyes of the reviewers: what a person decided is
\* stored once, about the record on the screen.
THEOREM DecisionsStaySound == Spec => []DecisionsAreSound
<1>1. ReviewInv => DecisionsAreSound
  BY DEF ReviewInv
<1>. QED BY <1>1, ReviewInvInit, ReviewInvStep, PTL DEF Spec

-----------------------------------------------------------------------------
(* The export.                                                             *)

\* Of several decisions the latest one is the greatest in number.
LEMMA LatestDecision ==
  ASSUME ReviewInv, NEW i, Accepted(i) # {}
  PROVE  LET last == reviews[Max({n \in DOMAIN reviews : reviews[n].id = i})]
         IN  /\ last = reviews[Max(Accepted(i))]
             /\ last.decision \in {"approve", "correct"} /\ last.rec = records[i]
<1>1. PICK n \in Accepted(i) : TRUE
  OBVIOUS
<1>2. DOMAIN reviews = 1..Len(reviews) /\ Len(reviews) \in Nat
  BY DEF ReviewInv
<1>3. /\ n \in DOMAIN reviews /\ reviews[n].id = i /\ reviews[n].rec = records[i]
      /\ reviews[n].decision \in {"approve", "correct"}
      /\ \A m \in DOMAIN reviews : m > n => reviews[m].id # i
  BY <1>1 DEF Accepted
<1>4. Max(Accepted(i)) = n
  <2>1. \A m \in Accepted(i) : m = n
    BY <1>2, <1>3 DEF Accepted
  <2>. QED BY <1>1, <1>2, <1>3, <2>1 DEF Max
<1>5. Max({m \in DOMAIN reviews : reviews[m].id = i}) = n
  <2>1. \A m \in {k \in DOMAIN reviews : reviews[k].id = i} : m <= n
    BY <1>2, <1>3
  <2>. QED BY <1>2, <1>3, <2>1 DEF Max
<1>. QED BY <1>3, <1>4, <1>5

\* Only an export changes what is exported.
LEMMA ExportStep == ReviewInv /\ [Next]_vars /\ cpt' # cpt => ExportCpt
BY DEF Next, BeginPrepare, WriteRun, AssignCourse, MergeLayout, MergeManifest, Package,
       ColabDiscovery, ColabInference, MergeIngest, ImportParser, Decide, Annotate, Gesture,
       DamageAsset, Deliver, ImportAnnotation, RestartServer, Crash, vars

\* What an export contains is accepted by the latest decision on the record
\* as it is, belongs to the training split, and its images are the reviewed
\* ones, whoever decided what before.
THEOREM ExportsStand == Spec => ExportedStands
<1>1. ASSUME ReviewInv, [Next]_vars, cpt' # cpt, NEW s \in cpt'
      PROVE  LET last == reviews[Max({n \in DOMAIN reviews : reviews[n].id = s.id})]
             IN  /\ last.decision \in {"approve", "correct"} /\ last.text = s.text
                 /\ last.rec = records[s.id] /\ records[s.id].split = "train"
                 /\ s.id \notin damaged
  <2>1. ExportCpt
    BY <1>1, ExportStep
  <2>2. PICK i \in Eligible : s = [id |-> i, text |-> SampleText(i)]
    BY <2>1, <1>1 DEF ExportCpt
  <2>3. Accepted(i) # {} /\ records[i].split = "train" /\ i \notin damaged
    BY <2>1 DEF Eligible, ExportCpt
  <2>4. s.id = i /\ s.text = reviews[Max(Accepted(i))].text
    BY <2>2 DEF SampleText
  <2>. QED BY <1>1, <2>3, <2>4, LatestDecision
<1>2. ReviewInv /\ [Next]_vars =>
        [(cpt' # cpt) =>
          \A s \in cpt' :
            LET last == reviews[Max({n \in DOMAIN reviews : reviews[n].id = s.id})]
            IN  /\ last.decision \in {"approve", "correct"} /\ last.text = s.text
                /\ last.rec = records[s.id] /\ records[s.id].split = "train"
                /\ s.id \notin damaged]_vars
  BY <1>1
<1>. QED BY <1>2, ReviewInvInit, ReviewInvStep, PTL DEF Spec, ExportedStands

-----------------------------------------------------------------------------
(* The recursive functions InOrder and AddAll.                             *)

\* A set of natural numbers that is not empty has a least one.
LEMMA LeastExists ==
  ASSUME NEW S \in SUBSET Nat, S # {}
  PROVE  \E n \in S : \A m \in S : n <= m
<1>1. PICK n \in S : \A m \in S : ~(<<m, n>> \in OpToRel(<, Nat))
  BY NatLessThanWellFounded, WFMin, Zenon
<1>2. \A m \in S : ~(m < n)
  BY <1>1 DEF OpToRel
<1>. QED BY <1>2

\* Induction over the natural numbers, for a set instead of an operator.
LEMMA SetInduction ==
  ASSUME NEW S, 0 \in S, \A n \in Nat : n \in S => n + 1 \in S
  PROVE  Nat \subseteq S
<1>. SUFFICES ASSUME Nat \ S # {} PROVE FALSE
  OBVIOUS
<1>1. PICK n \in Nat \ S : \A m \in Nat \ S : n <= m
  BY LeastExists
<1>2. n # 0 /\ n - 1 \in Nat /\ ~(n <= n - 1) /\ n = (n - 1) + 1
  OBVIOUS
<1>3. n - 1 \in S
  BY <1>1, <1>2
<1>. QED BY <1>2, <1>3

\* F is what step makes of base, one number after the other.
Iterates(F, N, base, step) ==
  F = [n \in 0..N |-> IF n = 0 THEN base ELSE step[<<F[n - 1], n>>]]

\* What is true of the first and passed on is true of all.
LEMMA PassedOn ==
  ASSUME NEW X, NEW N \in Nat, NEW F, F[0] \in X,
         \A n \in 1..N : F[n - 1] \in X => F[n] \in X
  PROVE  \A n \in 0..N : F[n] \in X
<1>. DEFINE S == {n \in Nat : n <= N => F[n] \in X}
<1>1. 0 \in S
  OBVIOUS
<1>2. ASSUME NEW n \in Nat, n \in S PROVE n + 1 \in S
  <2>1. n + 1 <= N => n <= N /\ n + 1 \in 1..N /\ (n + 1) - 1 = n
    OBVIOUS
  <2>. QED BY <1>2, <2>1
<1>. HIDE DEF S
<1>3. Nat \subseteq S
  BY <1>1, <1>2, SetInduction
<1>. QED BY <1>3 DEF S

\* Iteration is defined.
LEMMA IterationExists ==
  ASSUME NEW X, NEW N \in Nat, NEW base \in X, NEW step \in [X \X (1..N) -> X]
  PROVE  \E F \in [0..N -> X] : Iterates(F, N, base, step)
<1>. DEFINE G(M) == \E F \in [0..M -> X] :
                      /\ F[0] = base
                      /\ \A n \in 1..M : F[n] = step[<<F[n - 1], n>>]
            S == {M \in Nat : M <= N => G(M)}
<1>1. 0 \in S
  <2>1. 0..0 = {0} /\ 1..0 = {}
    OBVIOUS
  <2>2. [n \in 0..0 |-> base] \in [0..0 -> X] /\ [n \in 0..0 |-> base][0] = base
    BY <2>1
  <2>. QED BY <2>1, <2>2
<1>2. ASSUME NEW M \in Nat, M \in S PROVE M + 1 \in S
  <2>. SUFFICES ASSUME M + 1 <= N PROVE G(M + 1)
    OBVIOUS
  <2>1. M <= N /\ M + 1 \in 1..N /\ M \in 0..M /\ 0 \in 0..M
    OBVIOUS
  <2>2. PICK F \in [0..M -> X] : /\ F[0] = base
                                /\ \A n \in 1..M : F[n] = step[<<F[n - 1], n>>]
    BY <1>2, <2>1
  <2>. DEFINE H == [n \in 0..(M + 1) |-> IF n = M + 1 THEN step[<<F[M], M + 1>>] ELSE F[n]]
  <2>3. step[<<F[M], M + 1>>] \in X
    BY <2>1
  <2>4. \A n \in 0..(M + 1) : n # M + 1 => n \in 0..M
    OBVIOUS
  <2>5. H \in [0..(M + 1) -> X]
    BY <2>3, <2>4
  <2>6. H[0] = base
    <3>1. 0 # M + 1 /\ 0 \in 0..(M + 1)
      OBVIOUS
    <3>. QED BY <3>1, <2>2
  <2>7. ASSUME NEW n \in 1..(M + 1) PROVE H[n] = step[<<H[n - 1], n>>]
    <3>1. n \in 0..(M + 1) /\ n - 1 \in 0..(M + 1) /\ n - 1 # M + 1 /\ (n # M + 1 => n \in 1..M)
      OBVIOUS
    <3>2. H[n - 1] = F[n - 1]
      BY <3>1
    <3>3. CASE n = M + 1
      <4>1. n - 1 = M
        BY <3>3
      <4>. QED BY <3>1, <3>2, <3>3, <4>1
    <3>4. CASE n # M + 1
      BY <3>1, <3>2, <3>4, <2>2
    <3>. QED BY <3>3, <3>4
  <2>. HIDE DEF H
  <2>. QED BY <2>5, <2>6, <2>7
<1>. HIDE DEF S
<1>3. N \in S
  BY <1>1, <1>2, SetInduction
<1>4. PICK F \in [0..N -> X] : /\ F[0] = base
                              /\ \A n \in 1..N : F[n] = step[<<F[n - 1], n>>]
  BY <1>3 DEF S
<1>5. \A n \in 0..N : n # 0 => n \in 1..N
  OBVIOUS
<1>6. F = [n \in 0..N |-> IF n = 0 THEN base ELSE step[<<F[n - 1], n>>]]
  BY <1>4, <1>5
<1>. QED BY <1>6 DEF Iterates

\* The regions are in an order.
LEMMA OrderSeq == Order \in Seq(Ids) /\ Len(Order) \in Nat /\ DOMAIN Order = 1..Len(Order)
BY RegionAssumption

\* InOrder lists regions of the set.
LEMMA InOrderFacts ==
  ASSUME NEW S
  PROVE  InOrder(S) \in Seq(S \cap Ids)
<1>. DEFINE N == Len(Order)
            X == Seq(S \cap Ids)
            step == [a \in X \X (1..N) |->
                       IF Order[a[2]] \in S THEN Append(a[1], Order[a[2]]) ELSE a[1]]
            Part(F) == F = [n \in 0..N |->
                              IF n = 0 THEN <<>>
                              ELSE IF Order[n] \in S THEN Append(F[n - 1], Order[n]) ELSE F[n - 1]]
            P == CHOOSE F : Part(F)
<1>1. \A n \in 1..N : Order[n] \in Ids
  BY OrderSeq
<1>2. step \in [X \X (1..N) -> X] /\ <<>> \in X /\ N \in Nat
  <2>1. \A s \in X, n \in 1..N : Order[n] \in S => Append(s, Order[n]) \in X
    BY <1>1
  <2>. QED BY <2>1, OrderSeq
<1>3. \E F : Part(F)
  <2>. HIDE DEF X, N
  <2>1. PICK F \in [0..N -> X] : Iterates(F, N, <<>>, step)
    BY <1>2, IterationExists
  <2>2. ASSUME NEW n \in 0..N, n # 0
        PROVE  step[<<F[n - 1], n>>]
                 = IF Order[n] \in S THEN Append(F[n - 1], Order[n]) ELSE F[n - 1]
    <3>1. n \in 1..N /\ n - 1 \in 0..N
      BY <1>2, <2>2
    <3>2. F[n - 1] \in X
      BY <3>1
    <3>. QED BY <3>1, <3>2
  <2>. HIDE DEF step
  <2>3. F = [n \in 0..N |-> IF n = 0 THEN <<>>
                            ELSE IF Order[n] \in S THEN Append(F[n - 1], Order[n]) ELSE F[n - 1]]
    <3>1. F = [n \in 0..N |-> IF n = 0 THEN <<>> ELSE step[<<F[n - 1], n>>]]
      BY <2>1 DEF Iterates
    <3>2. [n \in 0..N |-> IF n = 0 THEN <<>> ELSE step[<<F[n - 1], n>>]]
          = [n \in 0..N |-> IF n = 0 THEN <<>>
               ELSE IF Order[n] \in S THEN Append(F[n - 1], Order[n]) ELSE F[n - 1]]
      BY <2>2
    <3>. QED BY <3>1, <3>2, Zenon
  <2>. QED BY <2>3
<1>4. Part(P)
  <2>. HIDE DEF Part
  <2>. QED BY <1>3, Zenon
<1>5. InOrder(S) = P[N]
  BY DEF InOrder
<1>. HIDE DEF P
<1>6. P[0] \in X
  BY <1>2, <1>4
<1>7. ASSUME NEW n \in 1..N, P[n - 1] \in X PROVE P[n] \in X
  <2>1. n \in 0..N /\ n # 0 /\ n - 1 \in 0..N
    BY <1>2
  <2>2. P[n] = IF Order[n] \in S THEN Append(P[n - 1], Order[n]) ELSE P[n - 1]
    BY <1>4, <2>1
  <2>. QED BY <2>2, <1>7, <1>1
<1>. HIDE DEF Part, X, N
<1>8. \A n \in 0..N : P[n] \in X
  BY <1>2, <1>6, <1>7, PassedOn
<1>9. N \in 0..N
  BY <1>2
<1>. QED BY <1>5, <1>8, <1>9 DEF X

\* AddAll keeps the candidates there are and adds only some of the new ones.
LEMMA AddAllFacts ==
  ASSUME NEW T, NEW cands \in Seq(T), NEW new \in Seq(T)
  PROVE  /\ AddAll(cands, new) \in Seq(T)
         /\ Range(cands) \subseteq Range(AddAll(cands, new))
         /\ Range(AddAll(cands, new)) \subseteq Range(cands) \cup Range(new)
<1>. DEFINE N == Len(new)
            V == Range(cands) \cup Range(new)
            X == {s \in Seq(T) : Range(cands) \subseteq Range(s) /\ Range(s) \subseteq V}
            step == [a \in X \X (1..N) |-> Add(a[1], new[a[2]])]
            Sum(F) == F = [n \in 0..N |-> IF n = 0 THEN cands ELSE Add(F[n - 1], new[n])]
            P == CHOOSE F : Sum(F)
<1>1. \A n \in 1..N : new[n] \in T /\ new[n] \in V
  BY DEF Range
<1>2. ASSUME NEW s \in X, NEW n \in 1..N PROVE Add(s, new[n]) \in X
  <2>1. CASE new[n] \in Range(s)
    BY <2>1 DEF Add
  <2>2. CASE new[n] \notin Range(s)
    <3>0. s \in Seq(T) /\ new[n] \in T /\ new[n] \in V
      BY <1>1
    <3>. PICK c : c = new[n]
      OBVIOUS
    <3>1. Append(s, c) \in Seq(T) /\ Range(Append(s, c)) = Range(s) \cup {c}
      <4>1. /\ Append(s, c) \in Seq(T) /\ Len(s) \in Nat
            /\ DOMAIN s = 1..Len(s) /\ DOMAIN Append(s, c) = 1..(Len(s) + 1)
            /\ \A m \in 1..Len(s) : Append(s, c)[m] = s[m]
            /\ Append(s, c)[Len(s) + 1] = c
        BY <3>0
      <4>2. \A m \in 1..(Len(s) + 1) : m \in 1..Len(s) \/ m = Len(s) + 1
        BY <4>1
      <4>3. 1..Len(s) \subseteq 1..(Len(s) + 1) /\ Len(s) + 1 \in 1..(Len(s) + 1)
        BY <4>1
      <4>. QED BY <4>1, <4>2, <4>3 DEF Range
    <3>2. Add(s, new[n]) = Append(s, c)
      BY <2>2 DEF Add
    <3>. QED BY <3>0, <3>1, <3>2
  <2>. QED BY <2>1, <2>2
<1>3. step \in [X \X (1..N) -> X] /\ cands \in X /\ N \in Nat
  BY <1>2
<1>4. \E F : Sum(F)
  <2>. HIDE DEF X, N
  <2>1. PICK F \in [0..N -> X] : Iterates(F, N, cands, step)
    BY <1>3, IterationExists
  <2>2. ASSUME NEW n \in 0..N, n # 0
        PROVE  step[<<F[n - 1], n>>] = Add(F[n - 1], new[n])
    <3>1. n \in 1..N /\ n - 1 \in 0..N
      BY <1>3, <2>2
    <3>2. F[n - 1] \in X
      BY <3>1
    <3>. QED BY <3>1, <3>2
  <2>. HIDE DEF step
  <2>3. F = [n \in 0..N |-> IF n = 0 THEN cands ELSE Add(F[n - 1], new[n])]
    <3>1. F = [n \in 0..N |-> IF n = 0 THEN cands ELSE step[<<F[n - 1], n>>]]
      BY <2>1 DEF Iterates
    <3>2. [n \in 0..N |-> IF n = 0 THEN cands ELSE step[<<F[n - 1], n>>]]
          = [n \in 0..N |-> IF n = 0 THEN cands ELSE Add(F[n - 1], new[n])]
      BY <2>2
    <3>. QED BY <3>1, <3>2, Zenon
  <2>. QED BY <2>3
<1>5. Sum(P)
  <2>. HIDE DEF Sum
  <2>. QED BY <1>4, Zenon
<1>6. AddAll(cands, new) = P[N]
  BY DEF AddAll
<1>. HIDE DEF P
<1>7. P[0] \in X
  BY <1>3, <1>5
<1>8. ASSUME NEW n \in 1..N, P[n - 1] \in X PROVE P[n] \in X
  <2>1. n \in 0..N /\ n # 0
    BY <1>3
  <2>2. P[n] = Add(P[n - 1], new[n])
    BY <1>5, <2>1
  <2>. HIDE DEF X
  <2>. QED BY <2>2, <1>8, <1>2
<1>. HIDE DEF Sum, X, N
<1>9. \A n \in 0..N : P[n] \in X
  BY <1>3, <1>7, <1>8, PassedOn
<1>10. N \in 0..N
  BY <1>3
<1>. QED BY <1>6, <1>9, <1>10 DEF X

-----------------------------------------------------------------------------
(* Where evidence comes from.                                              *)

\* Candidates read on the page of region i, and for a component at its place;
\* the vision model looks at visual components only.
OwnCands(i) ==
  {c \in Candidates : /\ PageOf(c.at) = PageOf(i)
                      /\ Full(i) \/ (Region[c.at].box = Region[i].box)
                      /\ (c.engine = "vlm") => (Region[i].kind \in Visual)}

\* A record of region i.
SoundRecords(i) ==
  {r \in Records : /\ r.kind = Region[i].kind
                   /\ r.cands \in Seq(OwnCands(i))
                   /\ Full(i) => \E c \in Range(r.cands) : c.engine = "native"
                   /\ (r.routing = "scheduled") => (r.kind \in Visual)}

\* A packet asks about regions on the pages of its shard.
PacketOk(pk) ==
  /\ pk.phase \in {"discovery", "inference"} /\ pk.first \in Shards
  /\ pk.asked \subseteq {i \in Ids : PageOf(i) \in ShardPages(pk.first)}
  /\ pk.vlm \subseteq {i \in pk.asked : Region[i].kind \in Visual}
  /\ pk.special \subseteq {i \in pk.asked : Region[i].kind \in {"formula", "table"}}

\* An archive answers what its packet asks, from the pages it was given.
ResultOk(res) ==
  /\ PacketOk(res.packet)
  /\ \A i \in DOMAIN res.ocr : i \in res.packet.asked /\ res.ocr[i] \in Reads["ocr"][i]
  /\ \A i \in DOMAIN res.special :
       i \in res.packet.special /\ res.special[i] \in Reads["special"][i]
  /\ \A i \in DOMAIN res.vlm :
       i \in res.packet.vlm /\ res.vlm[i] \in Reads["vlm"][i] \cup {""}
  /\ \A i \in DOMAIN res.structure :
       i \in res.packet.asked /\ res.structure[i] \in StructureBlocks(i)
  /\ res.docling.found \subseteq {j \in Ids : PageOf(j) \in ShardPages(res.packet.first)}

\* Blocks of a parser carry the page they were found on.
BlockOk(b) == b.at \in Ids /\ b.page = PageOf(b.at) /\ b.text \in Texts

\* A sequence of one.
LEMMA Singleton == ASSUME NEW S, NEW c \in S PROVE <<c>> \in Seq(S)
OBVIOUS

\* What a region is.
LEMMA RegionFacts ==
  ASSUME NEW i \in Ids
  PROVE  /\ PageOf(i) \in Pages /\ Region[i].kind \in Kinds
         /\ Full(i) <=> Region[i].kind \in {"text", "code"}
         /\ \A e \in {"ocr", "special", "mineru", "vlm"} : Reads[e][i] \subseteq Texts
         /\ Region[i].native \in Texts /\ "" \in Texts
<1>1. \A e \in {"ocr", "special", "mineru", "vlm"} : Reads[e][i] \subseteq Texts
  <2>1. ASSUME NEW text,
               text \in Reads["ocr"][i] \cup Reads["special"][i] \cup Reads["mineru"][i]
                          \cup Reads["vlm"][i]
        PROVE  text \in Texts
    <3>. DEFINE A(j) == Reads["ocr"][j] \cup Reads["special"][j] \cup Reads["mineru"][j]
                          \cup Reads["vlm"][j] \cup {Region[j].native}
    <3>1. text \in A(i)
      BY <2>1
    <3>2. Texts = (UNION {A(j) : j \in Ids}) \cup {"", "typed"}
      BY DEF Texts
    <3>. HIDE DEF A
    <3>. QED BY <3>1, <3>2
  <2>2. \A e \in {"ocr", "special", "mineru", "vlm"} :
          Reads[e][i] \subseteq Reads["ocr"][i] \cup Reads["special"][i] \cup Reads["mineru"][i]
                                  \cup Reads["vlm"][i]
    OBVIOUS
  <2>. QED BY <2>1, <2>2
<1>2. Region[i].native \in Texts /\ "" \in Texts
  BY DEF Texts
<1>3. PageOf(i) \in Pages /\ Region[i].kind \in Kinds /\ Full(i) = (Region[i].kind \in {"text", "code"})
  BY RegionAssumption
<1>. HIDE DEF PageOf, Full, Texts
<1>. QED BY <1>1, <1>2, <1>3

\* The pages of a shard are pages of the document, numbered from one in the
\* packet.
LEMMA ShardFacts ==
  ASSUME NEW first \in Shards
  PROVE  /\ ShardPages(first) \subseteq Pages
         /\ \A p \in ShardPages(first) : PageMap(first)[p - first + 1] = p
<1>. DEFINE a == first + PagesPerPacket - 1
            last == Min({NPages, a})
<1>1. first \in Nat /\ 1 <= first /\ first <= NPages /\ a \in Nat /\ first <= a /\ NPages \in Nat
  BY RegionAssumption DEF Shards, Pages
<1>. HIDE DEF a
<1>2. last \in Nat /\ last <= NPages /\ first <= last
  <2>1. \E x \in {NPages, a} : \A y \in {NPages, a} : x <= y
    BY <1>1
  <2>2. last \in {NPages, a} /\ \A y \in {NPages, a} : last <= y
    BY <2>1 DEF Min
  <2>. QED BY <2>2, <1>1
<1>3. ShardPages(first) = first..last
  BY DEF ShardPages, a
<1>. HIDE DEF last
<1>4. ShardPages(first) \subseteq Pages
  BY <1>1, <1>2, <1>3 DEF Pages
<1>5. Cardinality(ShardPages(first)) = last - first + 1
  <2>1. Cardinality(first..last) = IF first > last THEN 0 ELSE last - first + 1
    BY <1>1, <1>2, FS_Interval
  <2>. QED BY <2>1, <1>1, <1>2, <1>3
<1>6. ASSUME NEW p \in ShardPages(first) PROVE PageMap(first)[p - first + 1] = p
  <2>1. p \in Int /\ p - first + 1 \in 1..(last - first + 1) /\ first + (p - first + 1) - 1 = p
    BY <1>1, <1>2, <1>3
  <2>. QED BY <2>1, <1>5 DEF PageMap
<1>. QED BY <1>4, <1>6

\* A candidate at a region itself, or at a block in its image.
LEMMA OwnCandidate ==
  ASSUME NEW i \in Ids, NEW e \in Engines, NEW text \in Texts, NEW at \in Ids,
         NEW via \in {"prepare", "discovery", "inference", "parser", "layout"},
         PageOf(at) = PageOf(i), Full(i) \/ Region[at].box = Region[i].box,
         e = "vlm" => Region[i].kind \in Visual
  PROVE  Candidate(e, text, at, via) \in OwnCands(i)
<1>1. Candidate(e, text, at, via) \in Candidates
  BY DEF Candidate, Candidates
<1>2. Candidate(e, text, at, via).at = at /\ Candidate(e, text, at, via).engine = e
  BY DEF Candidate
<1>. HIDE DEF Candidate, PageOf, Full
<1>. QED BY <1>1, <1>2 DEF OwnCands

\* More evidence of the region's own leaves a record sound.
LEMMA AddedSound ==
  ASSUME NEW i \in Ids, NEW r \in SoundRecords(i), NEW new \in Seq(OwnCands(i)),
         NEW S \in SUBSET Engines
  PROVE  /\ [r EXCEPT !.cands = AddAll(@, new)] \in SoundRecords(i)
         /\ [r EXCEPT !.cands = AddAll(@, new), !.pending = @ \ S] \in SoundRecords(i)
<1>1. /\ r \in Records /\ r.kind = Region[i].kind /\ r.cands \in Seq(OwnCands(i))
      /\ Full(i) => \E c \in Range(r.cands) : c.engine = "native"
      /\ (r.routing = "scheduled") => (r.kind \in Visual)
  BY DEF SoundRecords
<1>. PICK cands : cands = AddAll(r.cands, new)
  OBVIOUS
<1>2. cands \in Seq(OwnCands(i)) /\ Range(r.cands) \subseteq Range(cands)
  BY <1>1, AddAllFacts
<1>3. cands \in Seq(Candidates)
  BY <1>2 DEF OwnCands
<1>4. ASSUME NEW q, q \in {[r EXCEPT !.cands = cands], [r EXCEPT !.cands = cands, !.pending = @ \ S]}
      PROVE  q \in SoundRecords(i)
  <2>1. q \in Records
    BY <1>1, <1>3, <1>4 DEF Records
  <2>2. q.kind = r.kind /\ q.cands = cands /\ q.routing = r.routing
    BY <1>1, <1>4 DEF Records
  <2>. HIDE DEF Full
  <2>. QED BY <1>1, <1>2, <2>1, <2>2 DEF SoundRecords
<1>. QED BY <1>4

\* What an archive adds to a record is its own evidence.
LEMMA CloudSound ==
  ASSUME NEW res, ResultOk(res), NEW i \in res.packet.asked
  PROVE  CloudCands(res, i) \in Seq(OwnCands(i)) /\ DoneEngines(res, i) \subseteq Engines
<1>. DEFINE via == res.packet.phase
            one(e, S, text) == IF i \in S THEN <<Candidate(e, text[i], i, via)>> ELSE <<>>
            list == InOrder(res.structure[i])
            blocks == [n \in DOMAIN list |->
                         Candidate("paddle_structure", BlockText(res, i, list[n]), list[n], via)]
            found == IF i \notin DOMAIN res.structure THEN <<>>
                     ELSE IF StructureOk(res, i) THEN blocks
                     ELSE <<Candidate("paddle_ocr", "", i, via)>>
<1>1. /\ i \in Ids /\ via \in {"prepare", "discovery", "inference", "parser", "layout"}
      /\ SpecialEngine(i) \in {"paddle_formula", "paddle_table"}
  BY DEF ResultOk, PacketOk, SpecialEngine
<1>2. \A e \in Engines, text \in Texts :
        (e = "vlm" => Region[i].kind \in Visual) => Candidate(e, text, i, via) \in OwnCands(i)
  BY <1>1, OwnCandidate
<1>3. one("vlm", DOMAIN res.vlm, res.vlm) \in Seq(OwnCands(i))
  <2>1. i \in DOMAIN res.vlm => res.vlm[i] \in Texts /\ Region[i].kind \in Visual
    BY <1>1, RegionFacts DEF ResultOk, PacketOk
  <2>. QED BY <2>1, <1>2 DEF Engines
<1>4. one("paddle_ocr", DOMAIN res.ocr, res.ocr) \in Seq(OwnCands(i))
  <2>1. i \in DOMAIN res.ocr => res.ocr[i] \in Texts
    BY <1>1, RegionFacts DEF ResultOk
  <2>. QED BY <2>1, <1>2 DEF Engines, Paddle
<1>5. one(SpecialEngine(i), DOMAIN res.special, res.special) \in Seq(OwnCands(i))
  <2>1. i \in DOMAIN res.special => res.special[i] \in Texts
    BY <1>1, RegionFacts DEF ResultOk
  <2>2. SpecialEngine(i) \in Engines /\ SpecialEngine(i) # "vlm"
    BY <1>1 DEF Engines, Paddle
  <2>. QED BY <2>1, <2>2, <1>2
<1>6. found \in Seq(OwnCands(i))
  <2>1. ASSUME i \in DOMAIN res.structure PROVE blocks \in Seq(OwnCands(i))
    <3>1. list \in Seq(res.structure[i] \cap Ids)
      BY InOrderFacts
    <3>2. \A j \in res.structure[i] \cap Ids : /\ PageOf(j) = PageOf(i)
                                               /\ Full(i) \/ Region[j].box = Region[i].box
      <4>1. res.structure[i] \in StructureBlocks(i)
        BY <2>1 DEF ResultOk
      <4>2. CASE Full(i)
        <5>1. res.structure[i] \in StructureFinds[PageOf(i)]
          BY <4>1, <4>2 DEF StructureBlocks
        <5>2. PageOf(i) \in Pages
          BY <1>1, RegionFacts
        <5>3. res.structure[i] \subseteq {j \in Ids : PageOf(j) = PageOf(i)}
          BY <5>1, <5>2, RegionAssumption
        <5>. QED BY <5>3, <4>2
      <4>3. CASE ~Full(i)
        BY <4>1, <4>3 DEF StructureBlocks
      <4>. QED BY <4>2, <4>3
    <3>3. \A j \in Ids : BlockText(res, i, j) \in Texts
      <4>1. i \in DOMAIN res.ocr => res.ocr[i] \in Texts
        BY <1>1, RegionFacts DEF ResultOk
      <4>2. \A j \in Ids : Region[j].native \in Texts
        BY RegionFacts
      <4>. QED BY <4>1, <4>2 DEF BlockText
    <3>. HIDE DEF list, via
    <3>4. \A n \in DOMAIN list : list[n] \in res.structure[i] \cap Ids
      BY <3>1
    <3>5. ASSUME NEW n \in DOMAIN list
          PROVE  Candidate("paddle_structure", BlockText(res, i, list[n]), list[n], via) \in OwnCands(i)
      <4>1. list[n] \in Ids /\ PageOf(list[n]) = PageOf(i)
            /\ (Full(i) \/ Region[list[n]].box = Region[i].box)
        BY <3>2, <3>4
      <4>2. BlockText(res, i, list[n]) \in Texts /\ "paddle_structure" \in Engines
        BY <3>3, <4>1 DEF Engines, Paddle
      <4>. HIDE DEF PageOf, Full
      <4>. QED BY <1>1, <4>1, <4>2, OwnCandidate
    <3>6. DOMAIN list = 1..Len(list) /\ Len(list) \in Nat
      BY <3>1
    <3>7. blocks \in [1..Len(list) -> OwnCands(i)]
      BY <3>5, <3>6
    <3>. HIDE DEF blocks
    <3>. QED BY <3>6, <3>7
  <2>2. Candidate("paddle_ocr", "", i, via) \in OwnCands(i)
    <3>1. "" \in Texts /\ "paddle_ocr" \in Engines
      BY <1>1, RegionFacts DEF Engines, Paddle
    <3>. QED BY <3>1, <1>2
  <2>. HIDE DEF blocks, via
  <2>3. CASE i \notin DOMAIN res.structure
    BY <2>3
  <2>4. CASE i \in DOMAIN res.structure /\ StructureOk(res, i)
    <3>1. found = blocks
      BY <2>4
    <3>. HIDE DEF found
    <3>. QED BY <2>1, <2>4, <3>1
  <2>5. CASE i \in DOMAIN res.structure /\ ~StructureOk(res, i)
    <3>1. found = <<Candidate("paddle_ocr", "", i, via)>>
      BY <2>5
    <3>2. PICK c : c = Candidate("paddle_ocr", "", i, via)
      OBVIOUS
    <3>3. c \in OwnCands(i) /\ found = <<c>>
      BY <2>2, <3>1, <3>2
    <3>4. <<c>> \in Seq(OwnCands(i))
      BY <3>3, Singleton
    <3>. HIDE DEF found
    <3>. QED BY <3>3, <3>4
  <2>. QED BY <2>3, <2>4, <2>5
<1>7. CloudCands(res, i) = one("vlm", DOMAIN res.vlm, res.vlm)
        \o one("paddle_ocr", DOMAIN res.ocr, res.ocr)
        \o one(SpecialEngine(i), DOMAIN res.special, res.special) \o found
  BY DEF CloudCands
<1>8. DoneEngines(res, i) \subseteq Engines
  BY <1>1 DEF DoneEngines, Engines, Paddle
<1>. HIDE DEF one, found
<1>. QED BY <1>3, <1>4, <1>5, <1>6, <1>7, <1>8

\* Blocks reach the record of their own place only.
LEMMA AssociateSound ==
  ASSUME NEW recs, NEW engine \in Engines \ {"vlm"}, NEW blocks,
         NEW via \in {"prepare", "discovery", "inference", "parser", "layout"},
         DOMAIN recs \subseteq Ids, \A i \in DOMAIN recs : recs[i] \in SoundRecords(i),
         \A b \in blocks : BlockOk(b)
  PROVE  /\ DOMAIN Associate(recs, engine, blocks, via) = DOMAIN recs
         /\ \A i \in DOMAIN recs : /\ Associate(recs, engine, blocks, via)[i] \in SoundRecords(i)
                                   /\ Associate(recs, engine, blocks, via)[i].routing = recs[i].routing
<1>1. ASSUME NEW i \in DOMAIN recs
      PROVE  /\ Associate(recs, engine, blocks, via)[i] \in SoundRecords(i)
             /\ Associate(recs, engine, blocks, via)[i].routing = recs[i].routing
  <2>. DEFINE here == {b \in blocks : Matches(i, recs[i], b)}
              ats == {b.at : b \in here}
              list == InOrder(ats)
              new == [n \in DOMAIN list |->
                        Candidate(engine, (CHOOSE b \in here : b.at = list[n]).text, list[n], via)]
  <2>1. Associate(recs, engine, blocks, via)[i] = [recs[i] EXCEPT !.cands = AddAll(@, new)]
    BY DEF Associate
  <2>2. i \in Ids /\ recs[i] \in SoundRecords(i)
    OBVIOUS
  <2>3. \A b \in here : /\ b.at \in Ids /\ b.text \in Texts /\ PageOf(b.at) = PageOf(i)
                        /\ Full(i) \/ Region[b.at].box = Region[i].box
    <3>. HIDE DEF PageOf, Full
    <3>. QED BY DEF BlockOk, Matches
  <2>. HIDE DEF here
  <2>4. list \in Seq(ats \cap Ids)
    BY InOrderFacts
  <2>5. ASSUME NEW j \in ats
        PROVE  Candidate(engine, (CHOOSE b \in here : b.at = j).text, j, via) \in OwnCands(i)
    <3>1. PICK c : c = CHOOSE b \in here : b.at = j
      OBVIOUS
    <3>2. c \in here /\ c.at = j
      BY <3>1
    <3>. HIDE DEF PageOf, Full
    <3>. QED BY <3>1, <3>2, <2>2, <2>3, OwnCandidate
  <2>. HIDE DEF ats, list
  <2>6. DOMAIN list = 1..Len(list) /\ Len(list) \in Nat /\ \A n \in DOMAIN list : list[n] \in ats
    BY <2>4
  <2>7. new \in Seq(OwnCands(i))
    <3>1. new \in [1..Len(list) -> OwnCands(i)]
      BY <2>5, <2>6
    <3>. HIDE DEF new
    <3>. QED BY <3>1, <2>6
  <2>. HIDE DEF new
  <2>8. [recs[i] EXCEPT !.cands = AddAll(@, new)] \in SoundRecords(i)
    BY <2>2, <2>7, AddedSound
  <2>9. [recs[i] EXCEPT !.cands = AddAll(@, new)].routing = recs[i].routing
    BY <2>2 DEF SoundRecords, Records
  <2>. QED BY <2>1, <2>8, <2>9
<1>. QED BY <1>1 DEF Associate

-----------------------------------------------------------------------------
(* The invariant of records, packets and archives.                         *)

StartInv ==
  /\ run \in {"absent", "rendering", "prepared", "assigned"}
  /\ operator.step \in {"idle", "render", "assign", "layout", "manifest"}
  /\ (operator.step = "render") => (run = "rendering")
  /\ (operator.step \in {"assign", "layout", "manifest"}) => (run \in {"prepared", "assigned"})
  /\ (run \in {"absent", "rendering"}) => (records = <<>>)
  /\ (run \in {"prepared", "assigned"}) => \A i \in Ids : Full(i) => i \in DOMAIN records

RecordsInv == DOMAIN records \subseteq Ids /\ \A i \in DOMAIN records : records[i] \in SoundRecords(i)

ColabInv ==
  /\ \A pk \in packets : PacketOk(pk)
  /\ \A res \in results : ResultOk(res)
  /\ operator.archive \subseteq results

\* What one archive has observed successfully is in the cache.
CacheInv ==
  /\ \A i \in Ids : cache[i] \in Reads["vlm"][i] \cup {""}
  /\ \A res \in results : \A i \in DOMAIN res.vlm : res.vlm[i] # "" => cache[i] = res.vlm[i]

PagesInv == manifest.parsed \subseteq Pages /\ operator.parsed \subseteq Pages

PeopleInv ==
  /\ \A p \in sent : p.id \in DOMAIN records
  /\ \A n \in DOMAIN reviews : reviews[n].id \in DOMAIN records
  /\ damaged \subseteq DOMAIN records

SourceInv == StartInv /\ RecordsInv /\ ColabInv

\* Rows that can be published.
RowsOk(rows) == DOMAIN rows \subseteq Ids /\ \A i \in DOMAIN rows : rows[i] \in SoundRecords(i)

\* Validation again changes only the risk of a record.
LEMMA PublishFacts ==
  ASSUME NEW rows, RowsOk(rows)
  PROVE  /\ DOMAIN Publish(rows) = DOMAIN rows /\ RowsOk(Publish(rows))
         /\ \A i \in DOMAIN rows : Publish(rows)[i].routing = rows[i].routing
<1>1. ASSUME NEW i \in DOMAIN rows
      PROVE  Publish(rows)[i] \in SoundRecords(i) /\ Publish(rows)[i].routing = rows[i].routing
  <2>. PICK r : r = rows[i]
    OBVIOUS
  <2>. PICK risk \in {"low", "high"} : risk = IF HighRisk(i, r) THEN "high" ELSE "low"
    OBVIOUS
  <2>1. Publish(rows)[i] = [r EXCEPT !.risk = risk]
    BY DEF Publish, CrossValidate
  <2>2. r \in SoundRecords(i)
    BY DEF RowsOk
  <2>3. r \in Records
    BY <2>2 DEF SoundRecords
  <2>. PICK q : q = [r EXCEPT !.risk = risk]
    OBVIOUS
  <2>4. q \in Records /\ q.kind = r.kind /\ q.cands = r.cands /\ q.routing = r.routing
    BY <2>3 DEF Records
  <2>5. q \in SoundRecords(i)
    BY <2>2, <2>4 DEF SoundRecords
  <2>. QED BY <2>1, <2>4, <2>5
<1>2. DOMAIN Publish(rows) = DOMAIN rows
  BY DEF Publish
<1>. QED BY <1>1, <1>2 DEF RowsOk

\* A new record of a page has its native text.
LEMMA NativeSound ==
  ASSUME NEW i \in Ids
  PROVE  NativeRecord(i) \in SoundRecords(i)
<1>. PICK cands : cands = NativeCands(i)
  OBVIOUS
<1>. PICK c : c = Candidate("native", Region[i].native, i, "prepare")
  OBVIOUS
<1>1. c \in OwnCands(i) /\ c \in Candidates /\ c.engine = "native"
  <2>1. Region[i].native \in Texts /\ "native" \in Engines
    BY RegionFacts DEF Engines
  <2>2. c \in OwnCands(i)
    BY <2>1, OwnCandidate
  <2>3. c.engine = "native"
    BY DEF Candidate
  <2>. QED BY <2>2, <2>3 DEF OwnCands
<1>2. /\ cands \in Seq(OwnCands(i)) /\ cands \in Seq(Candidates)
      /\ Full(i) => \E d \in Range(cands) : d.engine = "native"
  <2>1. cands = <<c>> \/ (cands = <<>> /\ ~Full(i))
    BY DEF NativeCands
  <2>2. CASE cands = <<c>>
    <3>1. <<c>> \in Seq(OwnCands(i)) /\ <<c>> \in Seq(Candidates)
      BY <1>1, Singleton
    <3>2. c \in Range(<<c>>)
      BY DEF Range
    <3>. QED BY <1>1, <2>2, <3>1, <3>2
  <2>3. CASE cands = <<>> /\ ~Full(i)
    BY <2>3
  <2>. QED BY <2>1, <2>2, <2>3
<1>. PICK pending : pending = IF Full(i) THEN {"paddle_ocr"} ELSE {"vlm"}
  OBVIOUS
<1>3. pending \subseteq Engines
  BY DEF Engines, Paddle
<1>. PICK r : r = NativeRecord(i)
  OBVIOUS
<1>4. r = [kind |-> Region[i].kind, cands |-> cands, pending |-> pending,
           split |-> "train", risk |-> "low", routing |-> "none"]
  BY DEF NativeRecord
<1>5. Region[i].kind \in Kinds
  BY RegionFacts
<1>6. r \in Records /\ r.kind = Region[i].kind /\ r.cands = cands /\ r.routing = "none"
  BY <1>2, <1>3, <1>4, <1>5 DEF Records
<1>. HIDE DEF Full
<1>. QED BY <1>2, <1>6 DEF SoundRecords

\* The split, the pending engines and the routing are no evidence.
LEMMA MarkedSound ==
  ASSUME NEW i \in Ids, NEW r \in SoundRecords(i), NEW q \in Records,
         q.kind = r.kind, q.cands = r.cands, (q.routing = "scheduled") => (q.kind \in Visual)
  PROVE  q \in SoundRecords(i)
<1>. HIDE DEF Full, Visual
<1>. QED BY DEF SoundRecords

\* Assigning a split leaves a record sound.
LEMMA SplitSound ==
  ASSUME NEW i \in Ids, NEW r \in SoundRecords(i), NEW s \in {"train", "development", "holdout"}
  PROVE  [r EXCEPT !.split = s] \in SoundRecords(i) /\ [r EXCEPT !.split = s].routing = r.routing
<1>. PICK q : q = [r EXCEPT !.split = s]
  OBVIOUS
<1>1. r \in Records /\ ((r.routing = "scheduled") => (r.kind \in Visual))
  BY DEF SoundRecords
<1>2. q \in Records /\ q.kind = r.kind /\ q.cands = r.cands /\ q.routing = r.routing
  BY <1>1 DEF Records
<1>. QED BY <1>1, <1>2, MarkedSound

\* So does marking engines as run.
LEMMA DoneSound ==
  ASSUME NEW i \in Ids, NEW r \in SoundRecords(i), NEW S
  PROVE  [r EXCEPT !.pending = @ \ S] \in SoundRecords(i)
         /\ [r EXCEPT !.pending = @ \ S].routing = r.routing
<1>. PICK q : q = [r EXCEPT !.pending = @ \ S]
  OBVIOUS
<1>1. r \in Records /\ ((r.routing = "scheduled") => (r.kind \in Visual))
  BY DEF SoundRecords
<1>2. q \in Records /\ q.kind = r.kind /\ q.cands = r.cands /\ q.routing = r.routing
  BY <1>1 DEF Records
<1>. QED BY <1>1, <1>2, MarkedSound

\* So does scheduling a visual region.
LEMMA ScheduledSound ==
  ASSUME NEW i \in Ids, NEW r \in SoundRecords(i), r.kind \in Visual
  PROVE  [r EXCEPT !.routing = "scheduled", !.pending = @ \cup {"vlm"}] \in SoundRecords(i)
<1>. PICK q : q = [r EXCEPT !.routing = "scheduled", !.pending = @ \cup {"vlm"}]
  OBVIOUS
<1>1. r \in Records /\ "vlm" \in Engines
  BY DEF SoundRecords, Engines
<1>2. q \in Records /\ q.kind = r.kind /\ q.cands = r.cands
  BY <1>1 DEF Records
<1>. QED BY <1>2, MarkedSound

\* So does not scheduling it.
LEMMA UnscheduledSound ==
  ASSUME NEW i \in Ids, NEW r \in SoundRecords(i), NEW S,
         NEW t \in {"none", "score_review", "exact_duplicate", "decoration_rule"}
  PROVE  [r EXCEPT !.pending = @ \ S, !.routing = t] \in SoundRecords(i)
         /\ [r EXCEPT !.pending = @ \ S, !.routing = t].routing # "scheduled"
<1>. PICK q : q = [r EXCEPT !.pending = @ \ S, !.routing = t]
  OBVIOUS
<1>1. r \in Records
  BY DEF SoundRecords
<1>2. q \in Records /\ q.kind = r.kind /\ q.cands = r.cands /\ q.routing = t
  BY <1>1 DEF Records
<1>. QED BY <1>2, MarkedSound

\* Routing schedules visual components only.
LEMMA RouteSound ==
  ASSUME NEW rows, RowsOk(rows)
  PROVE  /\ DOMAIN Route(rows) = DOMAIN rows /\ RowsOk(Route(rows))
         /\ \A i \in DOMAIN rows : (Route(rows)[i].routing = "scheduled") =>
              i \in Competing(rows) /\ PageOf(i) \in ChosenPages(rows)
<1>1. ASSUME NEW i \in DOMAIN rows
      PROVE  /\ Route(rows)[i] \in SoundRecords(i)
             /\ (Route(rows)[i].routing = "scheduled") =>
                  i \in Competing(rows) /\ PageOf(i) \in ChosenPages(rows)
  <2>1. i \in Ids /\ rows[i] \in SoundRecords(i) /\ {"vlm"} \in SUBSET Engines
    BY DEF RowsOk, Engines
  <2>. PICK r : r = rows[i]
    OBVIOUS
  <2>. PICK t : t = IF Duplicate(rows, i) THEN "exact_duplicate"
                    ELSE IF Decoration(rows, i) THEN "decoration_rule" ELSE "score_review"
    OBVIOUS
  <2>. DEFINE chosen == i \in Competing(rows) /\ PageOf(i) \in ChosenPages(rows)
  <2>2. CASE r.kind \notin Visual
    <3>1. Route(rows)[i] = r
      BY <2>2 DEF Route
    <3>2. r.routing # "scheduled"
      BY <2>1, <2>2 DEF SoundRecords
    <3>. QED BY <2>1, <3>1, <3>2
  <2>3. CASE r.kind \in Visual /\ chosen
    <3>1. Route(rows)[i] = [r EXCEPT !.routing = "scheduled", !.pending = @ \cup {"vlm"}]
      BY <2>3 DEF Route
    <3>2. [r EXCEPT !.routing = "scheduled", !.pending = @ \cup {"vlm"}] \in SoundRecords(i)
      BY <2>1, <2>3, ScheduledSound
    <3>. QED BY <2>3, <3>1, <3>2
  <2>4. CASE r.kind \in Visual /\ ~chosen
    <3>1. Route(rows)[i] = [r EXCEPT !.pending = @ \ {"vlm"}, !.routing = t]
      BY <2>4 DEF Route
    <3>2. t \in {"none", "score_review", "exact_duplicate", "decoration_rule"}
      OBVIOUS
    <3>3. r \in SoundRecords(i) /\ i \in Ids
      BY <2>1
    <3>. HIDE DEF chosen
    <3>. PICK S : S = {"vlm"}
      OBVIOUS
    <3>4. /\ [r EXCEPT !.pending = @ \ S, !.routing = t] \in SoundRecords(i)
          /\ [r EXCEPT !.pending = @ \ S, !.routing = t].routing # "scheduled"
      BY ONLY <3>2, <3>3, UnscheduledSound
    <3>5. Route(rows)[i] = [r EXCEPT !.pending = @ \ S, !.routing = t]
      BY <3>1
    <3>. QED BY <3>4, <3>5
  <2>. QED BY <2>2, <2>3, <2>4
<1>2. DOMAIN Route(rows) = DOMAIN rows
  BY DEF Route
<1>. QED BY <1>1, <1>2 DEF RowsOk

-----------------------------------------------------------------------------
(* What the commands make of the records.                                  *)

\* Only the records change, into rows that can be published.
LEMMA Replaced ==
  ASSUME NEW receipt, NEW rows, RowsOk(rows), DOMAIN records \subseteq DOMAIN rows,
         Replace(receipt, rows)
  PROVE  /\ RecordsInv' /\ DOMAIN records \subseteq DOMAIN records' /\ DOMAIN records' = DOMAIN rows
         /\ \A i \in DOMAIN rows : records'[i].routing = rows[i].routing
<1>1. records' = Publish(rows)
  BY DEF Replace
<1>2. /\ DOMAIN Publish(rows) = DOMAIN rows /\ RowsOk(Publish(rows))
      /\ \A i \in DOMAIN rows : Publish(rows)[i].routing = rows[i].routing
  BY PublishFacts
<1>. QED BY <1>1, <1>2 DEF RecordsInv, RowsOk

\* The records a run begins with.
LEMMA WriteRecords ==
  ASSUME SourceInv, WriteRun
  PROVE  /\ RecordsInv' /\ DOMAIN records \subseteq DOMAIN records'
         /\ \A i \in Ids : Full(i) => i \in DOMAIN records'
         /\ \A i \in DOMAIN records' : records'[i].routing # "scheduled"
<1>. DEFINE D == {j \in Ids : Region[j].origin # "layout"}
<1>. PICK rows : rows = [i \in D |-> NativeRecord(i)]
  OBVIOUS
<1>1. RowsOk(rows) /\ DOMAIN rows = D
  <2>1. \A i \in D : rows[i] \in SoundRecords(i)
    BY NativeSound
  <2>. QED BY <2>1 DEF RowsOk
<1>2. records' = Publish(rows)
  BY DEF WriteRun
<1>3. /\ DOMAIN Publish(rows) = DOMAIN rows /\ RowsOk(Publish(rows))
      /\ \A i \in DOMAIN rows : Publish(rows)[i].routing = rows[i].routing
  BY <1>1, PublishFacts
<1>4. DOMAIN records = {}
  BY DEF SourceInv, StartInv, WriteRun
<1>5. \A i \in Ids : Full(i) => i \in D
  BY DEF Full
<1>6. \A i \in D : rows[i].routing = "none"
  BY DEF NativeRecord
<1>. HIDE DEF D
<1>. QED BY <1>1, <1>2, <1>3, <1>4, <1>5, <1>6 DEF RecordsInv, RowsOk

\* Assigning the course.
LEMMA AssignRecords ==
  ASSUME SourceInv, AssignCourse
  PROVE  /\ RecordsInv' /\ DOMAIN records' = DOMAIN records
         /\ \A i \in DOMAIN records : records'[i].routing = records[i].routing
<1>. PICK rows : rows = [i \in DOMAIN records |-> [records[i] EXCEPT !.split = Split]]
  OBVIOUS
<1>1. Split \in {"train", "development", "holdout"}
  BY RegionAssumption
<1>2. ASSUME NEW i \in DOMAIN records
      PROVE  rows[i] \in SoundRecords(i) /\ rows[i].routing = records[i].routing
  <2>1. i \in Ids /\ records[i] \in SoundRecords(i)
    BY DEF SourceInv, RecordsInv
  <2>2. rows[i] = [records[i] EXCEPT !.split = Split]
    OBVIOUS
  <2>. PICK r : r = records[i]
    OBVIOUS
  <2>3. [r EXCEPT !.split = Split] \in SoundRecords(i) /\ [r EXCEPT !.split = Split].routing = r.routing
    BY <1>1, <2>1, SplitSound
  <2>. QED BY <2>2, <2>3
<1>3. RowsOk(rows) /\ DOMAIN rows = DOMAIN records
  BY <1>2 DEF RowsOk, SourceInv, RecordsInv
<1>4. Replace(Receipt("course", {}, 1, Unrouted), rows)
  BY DEF AssignCourse
<1>. QED BY <1>2, <1>3, <1>4, Replaced

\* Merging an archive.
LEMMA IngestRecords ==
  ASSUME SourceInv, NEW res \in results, MergeIngest(res)
  PROVE  /\ RecordsInv' /\ DOMAIN records' = DOMAIN records
         /\ \A i \in DOMAIN records : records'[i].routing = records[i].routing
<1>. PICK cloud : cloud = [i \in DOMAIN records |->
                  IF i \notin res.packet.asked THEN records[i]
                  ELSE [records[i] EXCEPT !.cands = AddAll(@, CloudCands(res, i)),
                                          !.pending = @ \ DoneEngines(res, i)]]
  OBVIOUS
<1>1. ResultOk(res)
  BY DEF SourceInv, ColabInv
<1>2. ASSUME NEW i \in DOMAIN records
      PROVE  cloud[i] \in SoundRecords(i) /\ cloud[i].routing = records[i].routing
  <2>1. i \in Ids /\ records[i] \in SoundRecords(i)
    BY DEF SourceInv, RecordsInv
  <2>. PICK r : r = records[i]
    OBVIOUS
  <2>2. CASE i \notin res.packet.asked
    BY <2>1, <2>2
  <2>3. CASE i \in res.packet.asked
    <3>. PICK new : new = CloudCands(res, i)
      OBVIOUS
    <3>. PICK S : S = DoneEngines(res, i)
      OBVIOUS
    <3>1. new \in Seq(OwnCands(i)) /\ S \in SUBSET Engines
      BY <1>1, <2>3, CloudSound
    <3>2. cloud[i] = [r EXCEPT !.cands = AddAll(@, new), !.pending = @ \ S]
      BY <2>3
    <3>3. [r EXCEPT !.cands = AddAll(@, new), !.pending = @ \ S] \in SoundRecords(i)
      BY <2>1, <3>1, AddedSound
    <3>4. r \in Records
      BY <2>1 DEF SoundRecords
    <3>5. [r EXCEPT !.cands = AddAll(@, new), !.pending = @ \ S].routing = r.routing
      BY <3>4 DEF Records
    <3>. QED BY <3>2, <3>3, <3>5
  <2>. QED BY <2>2, <2>3
<1>3. DOMAIN cloud = DOMAIN records /\ DOMAIN cloud \subseteq Ids
  BY DEF SourceInv, RecordsInv
<1>4. \A b \in DoclingBlocks(res) : BlockOk(b)
  <2>. DEFINE first == res.packet.first
  <2>1. ASSUME NEW j \in res.docling.found
        PROVE  /\ j \in Ids /\ Region[j].native \in Texts
               /\ PageMap(first)[SubsetPage(first, j)] = PageOf(j)
    <3>1. first \in Shards /\ j \in Ids /\ PageOf(j) \in ShardPages(first)
      BY <1>1 DEF ResultOk, PacketOk
    <3>2. SubsetPage(first, j) = PageOf(j) - first + 1
      BY DEF SubsetPage
    <3>3. Region[j].native \in Texts
      BY <3>1, RegionFacts
    <3>. HIDE DEF first, PageOf
    <3>. QED BY <3>1, <3>2, <3>3, ShardFacts
  <2>2. ASSUME NEW b \in DoclingBlocks(res)
        PROVE  \E j \in res.docling.found : b = [page |-> PageMap(first)[SubsetPage(first, j)],
                                                  at |-> j, text |-> Region[j].native, known |-> TRUE]
    BY DEF DoclingBlocks
  <2>3. ASSUME NEW b \in DoclingBlocks(res)
        PROVE  \E j \in res.docling.found :
                 b.page = PageMap(first)[SubsetPage(first, j)] /\ b.at = j /\ b.text = Region[j].native
    <3>1. PICK j \in res.docling.found : b = [page |-> PageMap(first)[SubsetPage(first, j)],
                                              at |-> j, text |-> Region[j].native, known |-> TRUE]
      BY <2>2
    <3>2. b.page = PageMap(first)[SubsetPage(first, j)] /\ b.at = j /\ b.text = Region[j].native
      BY ONLY <3>1
    <3>. QED BY <3>2
  <2>. HIDE DEF PageOf, first
  <2>. QED BY ONLY <2>1, <2>3 DEF BlockOk
<1>. PICK rows : rows = Associate(cloud, "docling", DoclingBlocks(res), "parser")
  OBVIOUS
<1>5. /\ DOMAIN rows = DOMAIN cloud
      /\ \A i \in DOMAIN cloud : rows[i] \in SoundRecords(i) /\ rows[i].routing = cloud[i].routing
  <2>1. "docling" \in Engines \ {"vlm"}
    BY DEF Engines
  <2>2. rows = Associate(cloud, "docling", DoclingBlocks(res), "parser")
    OBVIOUS
  <2>3. "parser" \in {"prepare", "discovery", "inference", "parser", "layout"}
    OBVIOUS
  <2>. QED BY ONLY <1>2, <1>3, <1>4, <2>1, <2>2, <2>3, AssociateSound
<1>6. RowsOk(rows) /\ DOMAIN rows = DOMAIN records
  BY <1>3, <1>5 DEF RowsOk
<1>7. Ingested(res) = rows
  BY DEF Ingested
<1>8. \E receipt : Replace(receipt, rows)
  BY <1>7 DEF MergeIngest
<1>9. PICK receipt : Replace(receipt, rows)
  BY <1>8
<1>10. /\ RecordsInv' /\ DOMAIN records' = DOMAIN rows
       /\ \A i \in DOMAIN rows : records'[i].routing = rows[i].routing
  BY ONLY <1>6, <1>9, Replaced
<1>. QED BY ONLY <1>2, <1>3, <1>5, <1>10

\* Importing a parser's own file.
LEMMA ImportRecords ==
  ASSUME SourceInv, NEW e \in Parsers, ImportParser(e)
  PROVE  /\ RecordsInv' /\ DOMAIN records' = DOMAIN records
         /\ \A i \in DOMAIN records : records'[i].routing = records[i].routing
<1>1. e \in {"docling", "mineru", "paddle_ocr"} /\ e \in Engines \ {"vlm"}
  BY RegionAssumption DEF Engines, Paddle
<1>. DEFINE Imported(p, found, known, text) ==
        LET blocks == {[page |-> Page(p - (1 - PageBase[e]), PageBase[e]), at |-> j,
                        text |-> text[j], known |-> known] : j \in found}
            matched == Associate(records, e, blocks, "parser")
        IN  /\ \A j \in found : text[j] \in ParserReads(e, j)
            /\ Replace(Receipt("parser", {[engine |-> e, blocks |-> blocks]}, Added(matched), Unrouted),
                 [i \in DOMAIN matched |->
                    IF e = "paddle_ocr" /\ Len(matched[i].cands) > Len(records[i].cands)
                    THEN [matched[i] EXCEPT !.pending = @ \ {e}] ELSE matched[i]])
            /\ records' # records
<1>a. \E p \in Pages : \E found \in StructureFinds[p] : \E known \in BOOLEAN :
      \E text \in [found -> UNION {ParserReads(e, i) : i \in found}] : Imported(p, found, known, text)
  BY DEF ImportParser
<1>. HIDE DEF Imported
<1>b. PICK p \in Pages : \E found \in StructureFinds[p] : \E known \in BOOLEAN :
      \E text \in [found -> UNION {ParserReads(e, i) : i \in found}] : Imported(p, found, known, text)
  BY ONLY <1>a
<1>c. PICK found \in StructureFinds[p] : \E known \in BOOLEAN :
      \E text \in [found -> UNION {ParserReads(e, i) : i \in found}] : Imported(p, found, known, text)
  BY ONLY <1>b
<1>2. PICK known, text : Imported(p, found, known, text)
  BY ONLY <1>c
<1>. USE DEF Imported
<1>. PICK blocks : blocks = {[page |-> Page(p - (1 - PageBase[e]), PageBase[e]), at |-> j,
                              text |-> text[j], known |-> known] : j \in found}
  OBVIOUS
<1>. PICK matched : matched = Associate(records, e, blocks, "parser")
  OBVIOUS
<1>. PICK rows : rows = [i \in DOMAIN matched |->
                    IF e = "paddle_ocr" /\ Len(matched[i].cands) > Len(records[i].cands)
                    THEN [matched[i] EXCEPT !.pending = @ \ {e}] ELSE matched[i]]
  OBVIOUS
<1>3. (\A j \in found : text[j] \in ParserReads(e, j)) /\ \E receipt : Replace(receipt, rows)
  BY <1>2
<1>4. found \subseteq {i \in Ids : PageOf(i) = p}
  BY RegionAssumption
<1>5. Page(p - (1 - PageBase[e]), PageBase[e]) = p
  <2>1. p \in Nat /\ p >= 1
    BY RegionAssumption DEF Pages
  <2>2. PageBase[e] \in {0, 1}
    BY <1>1 DEF PageBase
  <2>3. CASE PageBase[e] = 0
    BY <2>1, <2>3 DEF Page
  <2>4. CASE PageBase[e] = 1
    BY <2>1, <2>4 DEF Page
  <2>. QED BY <2>2, <2>3, <2>4
<1>6. \A b \in blocks : BlockOk(b)
  <2>1. ASSUME NEW j \in found PROVE j \in Ids /\ PageOf(j) = p /\ text[j] \in Texts
    <3>1. j \in Ids /\ PageOf(j) = p
      BY <1>4
    <3>2. ParserReads(e, j) \subseteq Texts
      <4>1. CASE e = "docling"
        BY <3>1, <4>1, RegionFacts DEF ParserReads
      <4>2. CASE e = "mineru"
        BY <3>1, <4>2, RegionFacts DEF ParserReads
      <4>3. CASE e = "paddle_ocr"
        BY <3>1, <4>3, RegionFacts DEF ParserReads
      <4>. QED BY <1>1, <4>1, <4>2, <4>3
    <3>. QED BY <1>3, <3>1, <3>2
  <2>. HIDE DEF PageOf
  <2>2. \A b \in blocks : \E j \in found : b.page = p /\ b.at = j /\ b.text = text[j]
    BY <1>5
  <2>. QED BY <2>1, <2>2 DEF BlockOk
<1>7. DOMAIN records \subseteq Ids /\ \A i \in DOMAIN records : records[i] \in SoundRecords(i)
  BY DEF SourceInv, RecordsInv
<1>8. /\ DOMAIN matched = DOMAIN records
      /\ \A i \in DOMAIN records : /\ matched[i] \in SoundRecords(i)
                                   /\ matched[i].routing = records[i].routing
  BY <1>1, <1>6, <1>7, AssociateSound
<1>9. ASSUME NEW i \in DOMAIN records
      PROVE  rows[i] \in SoundRecords(i) /\ rows[i].routing = records[i].routing
  <2>. PICK r : r = matched[i]
    OBVIOUS
  <2>. PICK S : S = {e}
    OBVIOUS
  <2>1. rows[i] = r \/ rows[i] = [r EXCEPT !.pending = @ \ S]
    BY <1>8
  <2>2. r \in SoundRecords(i) /\ r.routing = records[i].routing /\ i \in Ids
    BY <1>7, <1>8
  <2>3. [r EXCEPT !.pending = @ \ S] \in SoundRecords(i)
        /\ [r EXCEPT !.pending = @ \ S].routing = r.routing
    BY ONLY <2>2, DoneSound
  <2>. QED BY <2>1, <2>2, <2>3
<1>10. DOMAIN rows = DOMAIN records
  BY <1>8
<1>11. RowsOk(rows)
  BY <1>7, <1>9, <1>10 DEF RowsOk
<1>12. PICK receipt : Replace(receipt, rows)
  BY <1>3
<1>13. /\ RecordsInv' /\ DOMAIN records' = DOMAIN rows
       /\ \A i \in DOMAIN rows : records'[i].routing = rows[i].routing
  BY ONLY <1>10, <1>11, <1>12, Replaced
<1>. QED BY ONLY <1>9, <1>10, <1>13

\* Sequences of one or two.
LEMMA OneOrTwo ==
  ASSUME NEW S, NEW T, NEW a \in S \cap T, NEW b \in S \cap T
  PROVE  /\ <<a>> \o <<b>> \in Seq(S) /\ <<a>> \o <<>> \in Seq(S)
         /\ <<a>> \o <<b>> \in Seq(T) /\ <<a>> \o <<>> \in Seq(T)
<1>1. /\ <<a>> \in Seq(S) /\ <<b>> \in Seq(S) /\ <<>> \in Seq(S)
      /\ <<a>> \in Seq(T) /\ <<b>> \in Seq(T) /\ <<>> \in Seq(T)
  BY Singleton
<1>. QED BY <1>1

\* The record of a component that a layout parser found.
LEMMA LayoutSound ==
  ASSUME SourceInv, run \in {"prepared", "assigned"}, NEW res \in results,
         NEW j \in NewComponents(res)
  PROVE  j \in Ids /\ LayoutRecord(res, j) \in SoundRecords(j)
<1>1. ResultOk(res)
  BY DEF SourceInv, ColabInv
<1>2. j \in Ids /\ ~Full(j)
  <2>1. j \in res.docling.found \cup StructureFound(res) /\ ~Full(j)
    BY DEF NewComponents
  <2>2. res.docling.found \subseteq Ids
    BY <1>1 DEF ResultOk
  <2>3. ASSUME NEW i \in DOMAIN res.structure, Full(i) PROVE res.structure[i] \subseteq Ids
    <3>1. i \in Ids /\ res.structure[i] \in StructureFinds[PageOf(i)]
      BY <1>1, <2>3 DEF ResultOk, PacketOk, StructureBlocks
    <3>2. PageOf(i) \in Pages
      BY <3>1, RegionFacts
    <3>. QED BY <3>1, <3>2, RegionAssumption
  <2>4. StructureFound(res) \subseteq Ids
    BY <2>3 DEF StructureFound
  <2>. QED BY <2>1, <2>2, <2>4
<1>3. PICK base : base = CHOOSE i \in DOMAIN records : Full(i) /\ PageOf(i) = PageOf(j)
  OBVIOUS
<1>4. base \in DOMAIN records
  <2>1. PageOf(j) \in Pages
    BY <1>2, RegionFacts
  <2>2. \E i \in Ids : PageOf(i) = PageOf(j) /\ Full(i)
    BY <2>1, RegionAssumption
  <2>3. \E i \in DOMAIN records : Full(i) /\ PageOf(i) = PageOf(j)
    BY <2>2 DEF SourceInv, StartInv
  <2>. QED BY <1>3, <2>3
<1>5. records[base].split \in {"train", "development", "holdout"}
  BY <1>4 DEF SourceInv, RecordsInv, SoundRecords, Records
<1>. PICK engine : engine = IF j \in res.docling.found THEN "docling" ELSE "paddle_structure"
  OBVIOUS
<1>. PICK a : a = Candidate(engine, Region[j].native, j, "layout")
  OBVIOUS
<1>. PICK b : b = Candidate("native", Region[j].native, j, "layout")
  OBVIOUS
<1>6. a \in OwnCands(j) /\ b \in OwnCands(j)
  <2>1. Region[j].native \in Texts
    BY <1>2, RegionFacts
  <2>2. engine \in Engines /\ engine # "vlm" /\ "native" \in Engines
    BY DEF Engines, Paddle
  <2>3. a \in OwnCands(j)
    BY <1>2, <2>1, <2>2, OwnCandidate
  <2>4. b \in OwnCands(j)
    BY <1>2, <2>1, <2>2, OwnCandidate
  <2>. QED BY <2>3, <2>4
<1>. PICK cands : cands = <<a>> \o (IF Region[j].native # "" THEN <<b>> ELSE <<>>)
  OBVIOUS
<1>7. cands \in Seq(OwnCands(j)) /\ cands \in Seq(Candidates)
  <2>1. a \in OwnCands(j) \cap Candidates /\ b \in OwnCands(j) \cap Candidates
    BY <1>6 DEF OwnCands
  <2>2. cands = <<a>> \o <<b>> \/ cands = <<a>> \o <<>>
    OBVIOUS
  <2>3. /\ <<a>> \o <<b>> \in Seq(OwnCands(j)) /\ <<a>> \o <<>> \in Seq(OwnCands(j))
        /\ <<a>> \o <<b>> \in Seq(Candidates) /\ <<a>> \o <<>> \in Seq(Candidates)
    BY ONLY <2>1, OneOrTwo
  <2>. QED BY ONLY <2>2, <2>3
<1>. PICK pending : pending = IF Region[j].kind \in {"formula", "table"} /\ ~Region[j].prose
                              THEN {SpecialEngine(j)} ELSE {}
  OBVIOUS
<1>8. pending \subseteq Engines
  BY DEF SpecialEngine, Engines, Paddle
<1>. PICK r : r = LayoutRecord(res, j)
  OBVIOUS
<1>9. r = [kind |-> Region[j].kind, cands |-> cands, pending |-> pending,
           split |-> records[base].split, risk |-> "low", routing |-> "none"]
  BY <1>3 DEF LayoutRecord
<1>10. Region[j].kind \in Kinds
  BY <1>2, RegionFacts
<1>11. PICK s : s = records[base].split
  OBVIOUS
<1>12. s \in {"train", "development", "holdout"}
  BY <1>5, <1>11
<1>13. r = [kind |-> Region[j].kind, cands |-> cands, pending |-> pending,
           split |-> s, risk |-> "low", routing |-> "none"]
  BY <1>9, <1>11
<1>14. r \in Records /\ r.kind = Region[j].kind /\ r.cands = cands /\ r.routing = "none"
  BY ONLY <1>7, <1>8, <1>10, <1>12, <1>13 DEF Records
<1>15. r \in SoundRecords(j)
  <2>. HIDE DEF Full
  <2>. QED BY ONLY <1>2, <1>7, <1>14 DEF SoundRecords
<1>. QED BY <1>2, <1>15

\* Materializing a layout and routing.
LEMMA LayoutRecords ==
  ASSUME SourceInv, MergeLayout, records' # records \/ operator'.step = "manifest"
  PROVE  /\ RecordsInv' /\ DOMAIN records \subseteq DOMAIN records'
         /\ \E rows : /\ RowsOk(rows) /\ DOMAIN records' = DOMAIN rows
                      /\ \A i \in DOMAIN rows : records'[i].routing = "scheduled" =>
                           i \in Competing(rows) /\ PageOf(i) \in ChosenPages(rows)
<1>1. PICK res \in operator.archive : \E receipt :
        Replace(receipt, Route([j \in DOMAIN records \cup NewComponents(res) |->
          IF j \in NewComponents(res) THEN LayoutRecord(res, j) ELSE records[j]]))
  <2>1. Idle.step # "manifest"
    BY DEF Idle
  <2>. QED BY <2>1 DEF MergeLayout
<1>. PICK rows : rows = [j \in DOMAIN records \cup NewComponents(res) |->
          IF j \in NewComponents(res) THEN LayoutRecord(res, j) ELSE records[j]]
  OBVIOUS
<1>2. res \in results /\ run \in {"prepared", "assigned"}
  BY DEF SourceInv, ColabInv, StartInv, MergeLayout
<1>3. \A j \in NewComponents(res) : j \in Ids /\ LayoutRecord(res, j) \in SoundRecords(j)
  BY <1>2, LayoutSound
<1>4. RowsOk(rows) /\ DOMAIN records \subseteq DOMAIN rows
  BY <1>3 DEF RowsOk, SourceInv, RecordsInv
<1>5. /\ DOMAIN Route(rows) = DOMAIN rows /\ RowsOk(Route(rows))
      /\ \A i \in DOMAIN rows : (Route(rows)[i].routing = "scheduled") =>
              i \in Competing(rows) /\ PageOf(i) \in ChosenPages(rows)
  BY <1>4, RouteSound
<1>6. \E receipt : Replace(receipt, Route(rows))
  BY <1>1
<1>7. /\ RecordsInv' /\ DOMAIN records \subseteq DOMAIN records' /\ DOMAIN records' = DOMAIN rows
      /\ \A i \in DOMAIN rows : records'[i].routing = Route(rows)[i].routing
  BY <1>4, <1>5, <1>6, Replaced
<1>. QED BY <1>4, <1>5, <1>7

-----------------------------------------------------------------------------
(* The invariant is kept.                                                  *)

\* An operator that does nothing.
LEMMA IdleFacts == Idle.step = "idle" /\ Idle.archive = {} /\ Idle.parsed = {}
BY DEF Idle

\* A packet asks about the records of its shard.
LEMMA PacketFacts ==
  ASSUME SourceInv, NEW first \in Shards, NEW phase \in {"discovery", "inference"}
  PROVE  PacketOk(Packet(first, phase))
<1>. PICK pk : pk = Packet(first, phase)
  OBVIOUS
<1>. PICK asked : asked = {i \in DOMAIN records : PageOf(i) \in ShardPages(first)}
  OBVIOUS
<1>1. pk = [phase |-> phase, first |-> first, asked |-> asked,
            vlm |-> {i \in asked : phase = "inference" /\ wants_vlm(records[i])},
            special |-> {i \in asked : phase = "inference" /\ WantsSpecialist(i, records[i])}]
  BY DEF Packet
<1>2. \A i \in asked : i \in Ids /\ records[i].kind = Region[i].kind /\ PageOf(i) \in ShardPages(first)
  BY DEF SourceInv, RecordsInv, SoundRecords
<1>3. pk.vlm \subseteq {i \in asked : Region[i].kind \in Visual}
  BY <1>1, <1>2 DEF wants_vlm
<1>4. pk.special \subseteq {i \in asked : Region[i].kind \in {"formula", "table"}}
  BY <1>1, <1>2 DEF WantsSpecialist
<1>5. pk.phase = phase /\ pk.first = first /\ pk.asked = asked
  BY <1>1
<1>6. PacketOk(pk)
  <2>. HIDE DEF PageOf, Visual
  <2>. QED BY ONLY <1>2, <1>3, <1>4, <1>5, first \in Shards, phase \in {"discovery", "inference"}
       DEF PacketOk
<1>. QED BY <1>6

\* Whatever is observed was asked for, and repeats what is in the cache.
LEMMA ObserveFacts ==
  ASSUME SourceInv, CacheInv, NEW pk \in packets, NEW reads \in Readings("vlm", pk.vlm),
         NEW loads \in BOOLEAN, NEW retry \in BOOLEAN
  PROVE  LET vlm == Observe(pk, reads, loads, retry)
         IN  \A i \in DOMAIN vlm : /\ i \in pk.vlm /\ vlm[i] \in Reads["vlm"][i] \cup {""}
                                   /\ cache[i] # "" => vlm[i] = cache[i]
<1>. DEFINE queue == InOrder(pk.vlm)
            kept == {i \in pk.vlm : cache[i] # ""
                       \/ (~retry /\ \E b \in Earlier(pk) : i \in DOMAIN b.vlm)}
            fresh == {k \in DOMAIN queue : queue[k] \notin kept}
            n == IF loads \/ fresh = {} THEN Len(queue) ELSE Min(fresh)
            vlm == Observe(pk, reads, loads, retry)
<1>1. vlm = [i \in {queue[k] : k \in 1..n} |->
               IF i \in kept \/ ~loads THEN cache[i] ELSE reads[i]]
  BY DEF Observe
<1>2. queue \in Seq(pk.vlm \cap Ids)
  BY InOrderFacts
<1>3. DOMAIN queue = 1..Len(queue) /\ Len(queue) \in Nat
  BY <1>2
<1>4. \A i \in pk.vlm : cache[i] # "" => i \in kept
  OBVIOUS
<1>. HIDE DEF kept, queue
<1>5. n \in Nat /\ n <= Len(queue)
  <2>1. fresh \in SUBSET Nat /\ fresh \in SUBSET DOMAIN queue
    BY <1>3
  <2>2. fresh # {} => Min(fresh) \in fresh
    <3>. HIDE DEF fresh
    <3>. SUFFICES ASSUME fresh # {} PROVE Min(fresh) \in fresh
      OBVIOUS
    <3>1. \E k \in fresh : \A m \in fresh : k <= m
      BY <2>1, LeastExists
    <3>. QED BY <3>1 DEF Min
  <2>3. n = Len(queue) \/ (fresh # {} /\ n = Min(fresh))
    OBVIOUS
  <2>. HIDE DEF n, fresh
  <2>4. CASE n = Len(queue)
    BY <1>3, <2>4
  <2>5. CASE fresh # {} /\ n = Min(fresh)
    <3>1. n \in DOMAIN queue
      BY <2>1, <2>2, <2>5
    <3>2. \A L \in Nat : n \in 1..L => n \in Nat /\ n <= L
      OBVIOUS
    <3>. QED BY ONLY <1>3, <3>1, <3>2
  <2>. QED BY <2>3, <2>4, <2>5
<1>. HIDE DEF n, vlm
<1>6. \A k \in 1..n : queue[k] \in pk.vlm \cap Ids
  BY ONLY <1>2, <1>3, <1>5
<1>7. ASSUME NEW i \in DOMAIN vlm
      PROVE  /\ i \in pk.vlm /\ vlm[i] \in Reads["vlm"][i] \cup {""}
             /\ cache[i] # "" => vlm[i] = cache[i]
  <2>1. i \in pk.vlm /\ i \in Ids
    BY <1>1, <1>6
  <2>2. vlm[i] = cache[i] \/ (i \notin kept /\ vlm[i] = reads[i])
    BY <1>1
  <2>3. reads[i] \in Reads["vlm"][i]
    BY <2>1 DEF Readings
  <2>4. cache[i] \in Reads["vlm"][i] \cup {""}
    BY <2>1 DEF CacheInv
  <2>. QED BY ONLY <1>4, <2>1, <2>2, <2>3, <2>4
<1>. QED BY <1>7 DEF vlm

\* An archive of the discovery phase.
LEMMA DiscoveryFacts ==
  ASSUME SourceInv, NEW pk \in packets, ColabDiscovery(pk)
  PROVE  \E new : ResultOk(new) /\ DOMAIN new.vlm = {} /\ results' = results \cup {new}
<1>1. PICK ocr \in Readings("ocr", OcrAsked(pk)), found \in StructureOutcomes(pk),
           docling \in DoclingOutcomes(pk) :
        results' = results \cup {Discover(pk, ocr, found,
          [ok |-> docling.ok \/ \E b \in Earlier(pk) : b.docling.ok,
           found |-> docling.found \cup UNION {b.docling.found : b \in Earlier(pk)}])}
  BY DEF ColabDiscovery
<1>. PICK kept : kept = [ok |-> docling.ok \/ \E b \in Earlier(pk) : b.docling.ok,
           found |-> docling.found \cup UNION {b.docling.found : b \in Earlier(pk)}]
  OBVIOUS
<1>. PICK new : new = Discover(pk, ocr, found, kept)
  OBVIOUS
<1>2. PacketOk(pk)
  BY DEF SourceInv, ColabInv
<1>3. /\ new.packet = pk /\ new.ocr = ocr /\ new.structure = found /\ new.docling = kept
      /\ new.special = <<>> /\ new.vlm = <<>>
  BY DEF Discover
<1>4. \A i \in DOMAIN ocr : i \in pk.asked /\ ocr[i] \in Reads["ocr"][i]
  BY DEF Readings, OcrAsked
<1>5. \A i \in DOMAIN found : i \in pk.asked /\ found[i] \in StructureBlocks(i)
  BY DEF StructureOutcomes
<1>6. kept.found \subseteq {j \in Ids : PageOf(j) \in ShardPages(pk.first)}
  <2>. DEFINE S == {j \in Ids : PageOf(j) \in ShardPages(pk.first)}
  <2>1. \A b \in Earlier(pk) : b.docling.found \subseteq S
    BY DEF Earlier, SourceInv, ColabInv, ResultOk
  <2>2. docling.found \subseteq S
    <3>1. \A p \in ShardPages(pk.first) : p \in Pages
      BY <1>2, ShardFacts DEF PacketOk
    <3>2. \A p \in ShardPages(pk.first) : \A F \in DoclingFinds[p] : F \subseteq S
      <4>1. ASSUME NEW p \in ShardPages(pk.first), NEW F \in DoclingFinds[p] PROVE F \subseteq S
        <5>1. F \in SUBSET {i \in Ids : PageOf(i) = p}
          BY <3>1, RegionAssumption
        <5>. HIDE DEF PageOf, Ids
        <5>. QED BY <5>1
      <4>. QED BY <4>1
    <3>. HIDE DEF S
    <3>3. docling.found = {} \/ \E f : /\ \A p \in ShardPages(pk.first) : f[p] \in DoclingFinds[p]
                                       /\ docling.found = UNION {f[p] : p \in ShardPages(pk.first)}
      <4>1. CASE docling \in {[ok |-> FALSE, found |-> {}] : f \in {pk.first} \cap DoclingFails}
        BY <4>1
      <4>2. CASE docling \in {[ok |-> TRUE, found |-> UNION {f[p] : p \in ShardPages(pk.first)}] :
     f \in {g \in [ShardPages(pk.first) -> UNION {DoclingFinds[p] : p \in ShardPages(pk.first)}] :
             \A p \in ShardPages(pk.first) : g[p] \in DoclingFinds[p]}}
        BY <4>2
      <4>. QED BY <4>1, <4>2 DEF DoclingOutcomes
    <3>. QED BY <3>2, <3>3
  <2>3. kept.found = docling.found \cup UNION {b.docling.found : b \in Earlier(pk)}
    OBVIOUS
  <2>. HIDE DEF S
  <2>4. kept.found \subseteq S
    BY ONLY <2>1, <2>2, <2>3
  <2>. QED BY <2>4 DEF S
<1>7. \A i \in DOMAIN <<>> : FALSE
  OBVIOUS
<1>8. ResultOk(new)
  <2>. HIDE DEF PageOf, Ids
  <2>. QED BY ONLY <1>2, <1>3, <1>4, <1>5, <1>6, <1>7 DEF ResultOk
<1>9. DOMAIN new.vlm = {} /\ results' = results \cup {new}
  BY <1>1, <1>3, <1>7
<1>. QED BY <1>8, <1>9

\* An archive of the inference phase.
LEMMA InferenceFacts ==
  ASSUME SourceInv, CacheInv, NEW pk \in packets, ColabInference(pk)
  PROVE  \E new : /\ ResultOk(new) /\ results' = results \cup {new}
                  /\ \A i \in DOMAIN new.vlm : cache[i] # "" => new.vlm[i] = cache[i]
                  /\ cache' = [i \in Ids |-> IF i \in DOMAIN new.vlm /\ new.vlm[i] # ""
                                             THEN new.vlm[i] ELSE cache[i]]
<1>1. PICK ocr \in Readings("ocr", OcrAsked(pk)), special \in Readings("special", pk.special),
           reads \in Readings("vlm", pk.vlm), loads, retry \in BOOLEAN :
        LET vlm == Observe(pk, reads, loads, retry)
        IN  /\ \A b \in Earlier(pk) : ocr = b.ocr /\ special = b.special
            /\ results' = results \cup {Infer(pk, ocr, special, vlm)}
            /\ cache' = [i \in Ids |-> IF i \in DOMAIN vlm /\ vlm[i] # "" THEN vlm[i] ELSE cache[i]]
  BY DEF ColabInference
<1>v. PICK vlm : vlm = Observe(pk, reads, loads, retry)
  OBVIOUS
<1>n. PICK new : new = Infer(pk, ocr, special, vlm)
  OBVIOUS
<1>2. PacketOk(pk)
  BY DEF SourceInv, ColabInv
<1>3. /\ new.packet = pk /\ new.ocr = ocr /\ new.special = special /\ new.vlm = vlm
      /\ new.structure = <<>> /\ new.docling.found = {}
  BY <1>n DEF Infer
<1>4. \A i \in DOMAIN ocr : i \in pk.asked /\ ocr[i] \in Reads["ocr"][i]
  BY DEF Readings, OcrAsked
<1>5. \A i \in DOMAIN special : i \in pk.special /\ special[i] \in Reads["special"][i]
  BY DEF Readings
<1>6. \A i \in DOMAIN vlm : /\ i \in pk.vlm /\ vlm[i] \in Reads["vlm"][i] \cup {""}
                            /\ cache[i] # "" => vlm[i] = cache[i]
  BY <1>v, ObserveFacts
<1>7. \A i \in DOMAIN <<>> : FALSE
  OBVIOUS
<1>8. ResultOk(new)
  <2>. HIDE DEF PageOf, Ids
  <2>. QED BY ONLY <1>2, <1>3, <1>4, <1>5, <1>6, <1>7 DEF ResultOk
<1>9. /\ results' = results \cup {new}
      /\ cache' = [i \in Ids |-> IF i \in DOMAIN vlm /\ vlm[i] # "" THEN vlm[i] ELSE cache[i]]
  BY <1>1, <1>v, <1>n
<1>10. /\ ResultOk(new) /\ results' = results \cup {new}
       /\ \A i \in DOMAIN new.vlm : cache[i] # "" => new.vlm[i] = cache[i]
       /\ cache' = [i \in Ids |-> IF i \in DOMAIN new.vlm /\ new.vlm[i] # ""
                                  THEN new.vlm[i] ELSE cache[i]]
  <2>1. new.vlm = vlm
    BY <1>3
  <2>. QED BY ONLY <1>6, <1>8, <1>9, <2>1
<1>. QED BY ONLY <1>10

\* Pages with a layout are pages of the document.
LEMMA ParsedFacts ==
  ASSUME NEW res, ResultOk(res)
  PROVE  ParsedPages(res) \subseteq Pages
<1>1. \A i \in res.packet.asked : PageOf(i) \in Pages
  BY RegionFacts DEF ResultOk, PacketOk
<1>2. ShardPages(res.packet.first) \subseteq Pages
  BY ShardFacts DEF ResultOk, PacketOk
<1>. HIDE DEF Pages, PageOf
<1>. QED BY <1>1, <1>2 DEF ParsedPages

\* The routing of the records stays.
SameRouting ==
  /\ DOMAIN records' = DOMAIN records
  /\ \A i \in DOMAIN records : records'[i].routing = records[i].routing

\* The records are routed within what the rows suggest.
Rerouted(rows) ==
  /\ RowsOk(rows) /\ DOMAIN records' = DOMAIN rows
  /\ \A i \in DOMAIN rows : records'[i].routing = "scheduled" =>
       i \in Competing(rows) /\ PageOf(i) \in ChosenPages(rows)

\* Five commands write the records.
LEMMA Writers ==
  ASSUME [Next]_vars
  PROVE  \/ records' = records
         \/ WriteRun \/ AssignCourse \/ MergeLayout
         \/ \E res \in results : MergeIngest(res)
         \/ \E e \in Parsers : ImportParser(e)
<1>1. CASE UNCHANGED vars
  BY <1>1 DEF vars, work
<1>2. CASE BeginPrepare \/ MergeManifest \/ ExportCpt \/ Crash \/ RestartServer
  BY <1>2 DEF BeginPrepare, MergeManifest, ExportCpt, Crash, RestartServer, work
<1>3. CASE \E phase \in {"discovery", "inference"} : Package(phase)
  BY <1>3 DEF Package, work
<1>4. CASE \E pk \in packets : ColabDiscovery(pk) \/ ColabInference(pk)
  BY <1>4 DEF ColabDiscovery, ColabInference, work
<1>5. ASSUME NEW i, NEW d, Decide(i, d) \/ Annotate(i, d) PROVE records' = records
  BY <1>5 DEF Decide, Annotate, Gesture, work
<1>6. ASSUME NEW i, DamageAsset(i) PROVE records' = records
  BY <1>6 DEF DamageAsset, work
<1>7. CASE \E p \in sent : Deliver(p) \/ ImportAnnotation(p)
  BY <1>7 DEF Deliver, ImportAnnotation, work
<1>. QED BY <1>1, <1>2, <1>3, <1>4, <1>5, <1>6, <1>7 DEF Next

\* Records stay sound, and only a layout changes their routing.
LEMMA RecordsStep ==
  ASSUME SourceInv, [Next]_vars
  PROVE  /\ RecordsInv' /\ DOMAIN records \subseteq DOMAIN records'
         /\ \/ SameRouting
            \/ WriteRun /\ \A i \in DOMAIN records' : records'[i].routing # "scheduled"
            \/ MergeLayout /\ \E rows : Rerouted(rows)
<1>1. CASE records' = records
  BY <1>1 DEF SourceInv, RecordsInv, SameRouting
<1>2. CASE WriteRun
  BY <1>2, WriteRecords
<1>3. CASE AssignCourse
  BY <1>3, AssignRecords DEF SameRouting
<1>4. CASE MergeLayout /\ records' # records
  BY <1>4, LayoutRecords DEF Rerouted
<1>5. CASE \E res \in results : MergeIngest(res)
  BY <1>5, IngestRecords DEF SameRouting
<1>6. CASE \E e \in Parsers : ImportParser(e)
  BY <1>6, ImportRecords DEF SameRouting
<1>. QED BY <1>1, <1>2, <1>3, <1>4, <1>5, <1>6, Writers

\* The order of a preparation is kept.
LEMMA StartStep ==
  ASSUME SourceInv, [Next]_vars
  PROVE  StartInv'
<1>0. StartInv /\ DOMAIN records \subseteq DOMAIN records'
  BY RecordsStep DEF SourceInv
<1>a. ASSUME UNCHANGED <<run, operator, records>> PROVE StartInv'
  BY <1>0, <1>a DEF StartInv
<1>b. ASSUME UNCHANGED run, operator' = Idle, UNCHANGED records PROVE StartInv'
  BY <1>0, <1>b, IdleFacts DEF StartInv
<1>c. ASSUME run \in {"prepared", "assigned"}, run' \in {"prepared", "assigned"},
             operator'.step \in {"idle", "assign", "layout", "manifest"}
      PROVE  StartInv'
  BY <1>0, <1>c DEF StartInv
<1>1. CASE UNCHANGED vars
  BY <1>1, <1>a DEF vars, work
<1>2. CASE BeginPrepare
  <2>1. run = "absent" /\ run' = "rendering" /\ records' = records /\ operator'.step = "render"
    BY <1>2 DEF BeginPrepare, Idle
  <2>. QED BY <1>0, <2>1 DEF StartInv
<1>3. CASE WriteRun
  <2>1. run' = "prepared" /\ operator'.step = "assign"
    BY <1>3 DEF WriteRun, Idle
  <2>2. \A i \in Ids : Full(i) => i \in DOMAIN records'
    BY <1>3, WriteRecords
  <2>. QED BY <2>1, <2>2 DEF StartInv
<1>4. CASE AssignCourse
  <2>1. run \in {"prepared", "assigned"} /\ run' = "assigned" /\ operator'.step = "idle"
    BY <1>0, <1>4, IdleFacts DEF AssignCourse, StartInv
  <2>. QED BY <2>1, <1>c
<1>5. CASE MergeLayout
  <2>1. run \in {"prepared", "assigned"} /\ run' = run
    BY <1>0, <1>5 DEF MergeLayout, StartInv
  <2>2. operator'.step \in {"idle", "manifest"}
    BY <1>5, IdleFacts DEF MergeLayout
  <2>. QED BY <2>1, <2>2, <1>c
<1>6. CASE MergeManifest
  BY <1>6, <1>b DEF MergeManifest
<1>7. CASE \E phase \in {"discovery", "inference"} : Package(phase)
  BY <1>7, <1>a DEF Package, work
<1>8. CASE \E pk \in packets : ColabDiscovery(pk) \/ ColabInference(pk)
  BY <1>8, <1>a DEF ColabDiscovery, ColabInference, work
<1>9. CASE \E res \in results : MergeIngest(res)
  <2>1. PICK res \in results : MergeIngest(res)
    BY <1>9
  <2>2. run \in {"prepared", "assigned"} /\ run' = run
    BY <2>1 DEF MergeIngest, Ready
  <2>3. operator'.step \in {"idle", "layout"}
    BY <2>1, IdleFacts DEF MergeIngest
  <2>. QED BY <2>2, <2>3, <1>c
<1>10. CASE \E e \in Parsers : ImportParser(e)
  <2>1. PICK e \in Parsers : ImportParser(e)
    BY <1>10
  <2>2. run \in {"prepared", "assigned"} /\ run' = run /\ operator' = operator /\ operator.step = "idle"
    BY <2>1, IdleFacts DEF ImportParser, Ready
  <2>. QED BY <2>2, <1>c
<1>11. ASSUME NEW i, NEW d, Decide(i, d) \/ Annotate(i, d) PROVE StartInv'
  BY <1>11, <1>a DEF Decide, Annotate, Gesture, work
<1>12. ASSUME NEW i, DamageAsset(i) PROVE StartInv'
  BY <1>12, <1>a DEF DamageAsset, work
<1>13. CASE \E p \in sent : Deliver(p) \/ ImportAnnotation(p)
  BY <1>13, <1>a DEF Deliver, ImportAnnotation, work
<1>14. CASE RestartServer \/ ExportCpt
  BY <1>14, <1>a DEF RestartServer, ExportCpt, work
<1>15. CASE Crash
  BY <1>15, <1>b DEF Crash
<1>. QED BY <1>1, <1>2, <1>3, <1>4, <1>5, <1>6, <1>7, <1>8, <1>9, <1>10, <1>11, <1>12,
            <1>13, <1>14, <1>15 DEF Next

\* Packets, archives and the cache fit each other.
LEMMA ColabStep ==
  ASSUME SourceInv, CacheInv, [Next]_vars
  PROVE  ColabInv' /\ CacheInv'
<1>0. ColabInv
  BY DEF SourceInv
<1>a. ASSUME UNCHANGED colab, operator'.archive \subseteq results PROVE ColabInv' /\ CacheInv'
  BY <1>0, <1>a DEF ColabInv, CacheInv, colab
<1>b. ASSUME UNCHANGED colab, operator' = operator \/ operator' = Idle PROVE ColabInv' /\ CacheInv'
  BY <1>0, <1>a, <1>b, IdleFacts DEF ColabInv
<1>1. CASE UNCHANGED vars
  BY <1>1, <1>b DEF vars, work
<1>2. CASE BeginPrepare \/ WriteRun
  <2>1. operator'.archive = {} /\ UNCHANGED colab
    BY <1>2 DEF BeginPrepare, WriteRun, Idle
  <2>. QED BY <2>1, <1>a
<1>3. CASE AssignCourse \/ MergeManifest \/ Crash
  BY <1>3, <1>b DEF AssignCourse, MergeManifest, Crash
<1>4. CASE MergeLayout
  <2>1. UNCHANGED colab /\ (operator' = Idle \/ operator'.archive = {})
    BY <1>4 DEF MergeLayout
  <2>. QED BY <2>1, <1>a, <1>b
<1>5. CASE \E phase \in {"discovery", "inference"} : Package(phase)
  <2>1. PICK phase \in {"discovery", "inference"} : Package(phase)
    BY <1>5
  <2>2. PICK done \in SUBSET Shards : packets' = packets \cup ({Packet(f, phase) : f \in done} \ packets)
    BY <2>1 DEF Package
  <2>3. \A f \in done : PacketOk(Packet(f, phase))
    BY PacketFacts
  <2>4. UNCHANGED <<results, cache, operator>>
    BY <2>1 DEF Package, work
  <2>. QED BY ONLY <1>0, CacheInv, <2>2, <2>3, <2>4 DEF ColabInv, CacheInv
<1>6. ASSUME NEW pk \in packets, ColabDiscovery(pk) PROVE ColabInv' /\ CacheInv'
  <2>1. PICK new : ResultOk(new) /\ DOMAIN new.vlm = {} /\ results' = results \cup {new}
    BY <1>6, DiscoveryFacts
  <2>2. UNCHANGED <<packets, cache, operator>>
    BY <1>6 DEF ColabDiscovery, work
  <2>. QED BY ONLY <1>0, CacheInv, <2>1, <2>2 DEF ColabInv, CacheInv
<1>7. ASSUME NEW pk \in packets, ColabInference(pk) PROVE ColabInv' /\ CacheInv'
  <2>1. PICK new : /\ ResultOk(new) /\ results' = results \cup {new}
                   /\ \A i \in DOMAIN new.vlm : cache[i] # "" => new.vlm[i] = cache[i]
                   /\ cache' = [i \in Ids |-> IF i \in DOMAIN new.vlm /\ new.vlm[i] # ""
                                              THEN new.vlm[i] ELSE cache[i]]
    BY <1>7, InferenceFacts
  <2>2. UNCHANGED <<packets, operator>>
    BY <1>7 DEF ColabInference, work
  <2>3. ColabInv'
    BY ONLY <1>0, <2>1, <2>2 DEF ColabInv
  <2>4. \A res \in results' : \A i \in DOMAIN res.vlm : i \in Ids /\ res.vlm[i] \in Reads["vlm"][i] \cup {""}
    BY <2>3 DEF ColabInv, ResultOk, PacketOk
  <2>5. \A i \in Ids : cache'[i] \in Reads["vlm"][i] \cup {""}
    <3>1. new \in results'
      BY <2>1
    <3>. QED BY ONLY <2>1, <2>4, <3>1, CacheInv DEF CacheInv
  <2>6. \A i \in Ids : cache[i] # "" => cache'[i] = cache[i]
    BY ONLY <2>1
  <2>7. \A i \in DOMAIN new.vlm : i \in Ids /\ (new.vlm[i] # "" => cache'[i] = new.vlm[i])
    BY <2>1, <2>4
  <2>8. \A res \in results : \A i \in DOMAIN res.vlm : res.vlm[i] # "" => cache'[i] = res.vlm[i]
    BY <2>1, <2>4, <2>6 DEF CacheInv
  <2>9. CacheInv'
    BY ONLY <2>1, <2>5, <2>7, <2>8 DEF CacheInv
  <2>. QED BY <2>3, <2>9
<1>8. ASSUME NEW res \in results, MergeIngest(res) PROVE ColabInv' /\ CacheInv'
  <2>1. UNCHANGED colab /\ (operator' = Idle \/ operator'.archive = {res})
    BY <1>8 DEF MergeIngest
  <2>. QED BY <2>1, <1>a, <1>b
<1>9. CASE \E e \in Parsers : ImportParser(e)
  BY <1>9, <1>b DEF ImportParser
<1>10. ASSUME NEW i, NEW d, Decide(i, d) \/ Annotate(i, d) PROVE ColabInv' /\ CacheInv'
  BY <1>10, <1>b DEF Decide, Annotate, Gesture, work
<1>11. ASSUME NEW i, DamageAsset(i) PROVE ColabInv' /\ CacheInv'
  BY <1>11, <1>b DEF DamageAsset, work
<1>12. CASE \E p \in sent : Deliver(p) \/ ImportAnnotation(p)
  BY <1>12, <1>b DEF Deliver, ImportAnnotation, work
<1>13. CASE RestartServer \/ ExportCpt
  BY <1>13, <1>b DEF RestartServer, ExportCpt, work
<1>. QED BY <1>1, <1>2, <1>3, <1>4, <1>5, <1>6, <1>7, <1>8, <1>9, <1>10, <1>11, <1>12,
            <1>13 DEF Next

\* Pages of the manifest are pages of the document.
LEMMA PagesStep ==
  ASSUME SourceInv, PagesInv, [Next]_vars
  PROVE  PagesInv'
<1>a. ASSUME manifest' = manifest, operator' = operator \/ operator'.parsed \subseteq Pages
      PROVE  PagesInv'
  BY <1>a DEF PagesInv
<1>1. CASE UNCHANGED vars
  BY <1>1, <1>a DEF vars, work
<1>2. CASE BeginPrepare \/ WriteRun
  <2>1. operator'.parsed = {} /\ UNCHANGED manifest
    BY <1>2 DEF BeginPrepare, WriteRun, Idle
  <2>. QED BY <2>1, <1>a
<1>3. CASE AssignCourse \/ Crash
  BY <1>3, <1>a, IdleFacts DEF AssignCourse, Crash
<1>4. CASE MergeLayout
  <2>1. PICK res \in operator.archive : operator'.parsed \in {{}, ParsedPages(res)}
    BY <1>4, IdleFacts DEF MergeLayout
  <2>2. ParsedPages(res) \subseteq Pages
    BY ParsedFacts DEF SourceInv, ColabInv
  <2>3. manifest' = manifest
    BY <1>4 DEF MergeLayout
  <2>. QED BY <2>1, <2>2, <2>3, <1>a
<1>5. CASE MergeManifest
  BY <1>5, IdleFacts DEF MergeManifest, PagesInv
<1>6. CASE \E phase \in {"discovery", "inference"} : Package(phase)
  BY <1>6, <1>a DEF Package, work
<1>7. CASE \E pk \in packets : ColabDiscovery(pk) \/ ColabInference(pk)
  BY <1>7, <1>a DEF ColabDiscovery, ColabInference, work
<1>8. ASSUME NEW res \in results, MergeIngest(res) PROVE PagesInv'
  <2>1. UNCHANGED manifest /\ operator'.parsed = {}
    BY <1>8, IdleFacts DEF MergeIngest
  <2>. QED BY <2>1, <1>a
<1>9. CASE \E e \in Parsers : ImportParser(e)
  BY <1>9, <1>a DEF ImportParser
<1>10. ASSUME NEW i, NEW d, Decide(i, d) \/ Annotate(i, d) PROVE PagesInv'
  BY <1>10, <1>a DEF Decide, Annotate, Gesture, work
<1>11. ASSUME NEW i, DamageAsset(i) PROVE PagesInv'
  BY <1>11, <1>a DEF DamageAsset, work
<1>12. CASE \E p \in sent : Deliver(p) \/ ImportAnnotation(p)
  BY <1>12, <1>a DEF Deliver, ImportAnnotation, work
<1>13. CASE RestartServer \/ ExportCpt
  BY <1>13, <1>a DEF RestartServer, ExportCpt, work
<1>. QED BY <1>1, <1>2, <1>3, <1>4, <1>5, <1>6, <1>7, <1>8, <1>9, <1>10, <1>11, <1>12,
            <1>13 DEF Next

\* People decide on records there are.
LEMMA PeopleStep ==
  ASSUME ReviewInv, SourceInv, PeopleInv, [Next]_vars
  PROVE  PeopleInv'
<1>0. DOMAIN records \subseteq DOMAIN records'
  BY RecordsStep
<1>a. ASSUME UNCHANGED <<sent, reviews, damaged>> PROVE PeopleInv'
  BY <1>0, <1>a DEF PeopleInv
<1>1. CASE UNCHANGED vars
  BY <1>1, <1>a DEF vars, review
<1>2. CASE BeginPrepare \/ WriteRun \/ AssignCourse \/ MergeLayout \/ MergeManifest \/ Crash
           \/ ExportCpt \/ RestartServer
  BY <1>2, <1>a DEF BeginPrepare, WriteRun, AssignCourse, MergeLayout, MergeManifest, Crash,
                    ExportCpt, RestartServer, review
<1>3. CASE \E phase \in {"discovery", "inference"} : Package(phase)
  BY <1>3, <1>a DEF Package, review
<1>4. CASE \E pk \in packets : ColabDiscovery(pk) \/ ColabInference(pk)
  BY <1>4, <1>a DEF ColabDiscovery, ColabInference, review
<1>5. CASE \E res \in results : MergeIngest(res)
  BY <1>5, <1>a DEF MergeIngest, review
<1>6. CASE \E e \in Parsers : ImportParser(e)
  BY <1>6, <1>a DEF ImportParser, review
<1>7. ASSUME NEW i, NEW d, Decide(i, d) \/ Annotate(i, d) PROVE PeopleInv'
  <2>1. i \in DOMAIN records /\ UNCHANGED <<reviews, damaged>>
        /\ \A p \in sent' : p \in sent \/ p.id = i
    BY <1>7 DEF Decide, Annotate, Gesture, work
  <2>. QED BY <1>0, <2>1 DEF PeopleInv
<1>8. ASSUME NEW i, DamageAsset(i) PROVE PeopleInv'
  BY <1>0, <1>8 DEF DamageAsset, PeopleInv, review
<1>9. ASSUME NEW p \in sent, Deliver(p) \/ ImportAnnotation(p) PROVE PeopleInv'
  <2>1. Submit(p.id, p.shown, p.decision, p.gesture) /\ UNCHANGED <<sent, damaged>>
    BY <1>9 DEF Deliver, ImportAnnotation
  <2>2. PICK new : reviews' = Append(reviews, new) /\ new.id = p.id
    BY <2>1 DEF Submit
  <2>3. /\ DOMAIN reviews' = DOMAIN reviews \cup {Len(reviews) + 1}
        /\ \A n \in DOMAIN reviews : reviews'[n] = reviews[n]
        /\ reviews'[Len(reviews) + 1] = new
    BY <2>2, Appended DEF ReviewInv
  <2>. QED BY <1>0, <2>1, <2>2, <2>3 DEF PeopleInv
<1>. QED BY <1>1, <1>2, <1>3, <1>4, <1>5, <1>6, <1>7, <1>8, <1>9 DEF Next

-----------------------------------------------------------------------------
(* The page budget of the vision model.                                    *)

Ahead(P, best, p) == {q \in P : best[q] > best[p] \/ (best[q] = best[p] /\ q < p)}
Leading(P, best, k) == {p \in P : Cardinality(Ahead(P, best, p)) < k}

\* Of pages in a strict order, no more than k have fewer than k ahead.
LEMMA RankedWithin ==
  ASSUME NEW N \in Nat, NEW P \in SUBSET (1..N), NEW best, \A p \in P : best[p] \in Nat,
         NEW k \in Nat
  PROVE  IsFiniteSet(Leading(P, best, k)) /\ Cardinality(Leading(P, best, k)) <= k
<1>. DEFINE ahead(p) == {q \in P : best[q] > best[p] \/ (best[q] = best[p] /\ q < p)}
            C == {p \in P : Cardinality(ahead(p)) < k}
            rank == [p \in C |-> Cardinality(ahead(p))]
<1>0. \A p \in P : p \in Nat /\ best[p] \in Nat
  OBVIOUS
<1>1. IsFiniteSet(P)
  <2>1. IsFiniteSet(1..N)
    BY UpToCount
  <2>. QED BY <2>1, FS_Subset
<1>2. \A p \in P : IsFiniteSet(ahead(p)) /\ Cardinality(ahead(p)) \in Nat
  <2>1. \A p \in P : ahead(p) \in SUBSET P
    OBVIOUS
  <2>. HIDE DEF ahead
  <2>. QED BY <1>1, <2>1, FS_Subset, FS_CardinalityType
<1>3. ASSUME NEW p \in P, NEW q \in ahead(p)
      PROVE  Cardinality(ahead(q)) < Cardinality(ahead(p))
  <2>0. q \in P /\ \A x \in P : x \in Nat /\ best[x] \in Nat
    BY <1>0
  <2>1. ahead(q) \in SUBSET ahead(p) /\ q \in ahead(p) /\ q \notin ahead(q) /\ q \in P
    <3>1. best[q] > best[p] \/ (best[q] = best[p] /\ q < p)
      OBVIOUS
    <3>2. ASSUME NEW x \in P, best[x] > best[q] \/ (best[x] = best[q] /\ x < q)
          PROVE  best[x] > best[p] \/ (best[x] = best[p] /\ x < p)
      BY ONLY <2>0, <3>1, <3>2, p \in P
    <3>3. ~(best[q] > best[q] \/ (best[q] = best[q] /\ q < q))
      BY ONLY <2>0
    <3>. QED BY <2>0, <3>2, <3>3
  <2>. HIDE DEF ahead
  <2>2. /\ Cardinality(ahead(q)) <= Cardinality(ahead(p))
        /\ Cardinality(ahead(p)) = Cardinality(ahead(q)) => ahead(p) = ahead(q)
    BY <1>2, <2>1, FS_Subset
  <2>3. Cardinality(ahead(p)) # Cardinality(ahead(q))
    BY <2>1, <2>2
  <2>. QED BY <1>2, <2>1, <2>2, <2>3
<1>4. \A p, q \in P : p # q => q \in ahead(p) \/ p \in ahead(q)
  BY <1>0
<1>. HIDE DEF ahead
<1>5. \A p, q \in P : p # q => Cardinality(ahead(p)) # Cardinality(ahead(q))
  BY <1>2, <1>3, <1>4
<1>6. rank \in Injection(C, 0..(k - 1))
  <2>1. rank \in [C -> 0..(k - 1)]
    <3>1. \A p \in C : Cardinality(ahead(p)) \in Nat /\ Cardinality(ahead(p)) < k
      BY <1>2
    <3>2. \A c \in Nat : c < k => c \in 0..(k - 1)
      OBVIOUS
    <3>. HIDE DEF C
    <3>. QED BY <3>1, <3>2
  <2>2. \A p, q \in C : rank[p] = rank[q] => p = q
    BY <1>5
  <2>. HIDE DEF rank, C
  <2>. QED BY <2>1, <2>2, Fun_IsInj
<1>7. IsFiniteSet(0..(k - 1)) /\ Cardinality(0..(k - 1)) = k
  <2>1. 0 \in Int /\ k - 1 \in Int
    OBVIOUS
  <2>2. /\ IsFiniteSet(0..(k - 1))
        /\ Cardinality(0..(k - 1)) = IF 0 > k - 1 THEN 0 ELSE (k - 1) - 0 + 1
    BY <2>1, FS_Interval
  <2>. QED BY <2>2
<1>8. IsFiniteSet(C) /\ Cardinality(C) <= k
  <2>. HIDE DEF rank, C
  <2>1. IsFiniteSet(C) /\ Cardinality(C) <= Cardinality(0..(k - 1))
    BY ONLY <1>6, <1>7, FS_Injection
  <2>. QED BY <2>1, <1>7
<1>. QED BY <1>8 DEF ahead, C, Ahead, Leading

\* A bounded set of natural numbers has a greatest one.
LEMMA GreatestOf ==
  ASSUME NEW n \in Nat, NEW S \in SUBSET (0..n), S # {}
  PROVE  Max(S) \in S /\ \A m \in S : m <= Max(S)
<1>. DEFINE T == {n - m : m \in S}
<1>1. T \in SUBSET Nat /\ T # {}
  <2>1. \A m \in 0..n : n - m \in Nat
    OBVIOUS
  <2>. QED BY <2>1
<1>2. PICK t \in T : \A u \in T : t <= u
  <2>. HIDE DEF T
  <2>. QED BY <1>1, LeastExists
<1>3. PICK x \in S : t = n - x
  OBVIOUS
<1>4. \A m \in S : m \in Int /\ x \in Int /\ n - x <= n - m
  BY <1>2, <1>3
<1>5. \A m \in S : x >= m
  BY <1>4
<1>6. Max(S) \in S /\ \A m \in S : Max(S) >= m
  BY <1>5 DEF Max
<1>7. \A m \in S : m \in Int
  OBVIOUS
<1>. QED BY <1>6, <1>7

\* The lesser of two numbers.
LEMMA LesserOf ==
  ASSUME NEW a \in Nat, NEW b \in Nat
  PROVE  Min({a, b}) \in Nat /\ Min({a, b}) <= a /\ Min({a, b}) <= b
<1>1. \E x \in {a, b} : \A y \in {a, b} : x <= y
  OBVIOUS
<1>2. Min({a, b}) \in {a, b} /\ \A y \in {a, b} : Min({a, b}) <= y
  BY <1>1 DEF Min
<1>. QED BY <1>2

\* Whatever the rows, no more pages are chosen than the cap allows.
LEMMA ChosenWithinCap ==
  ASSUME NEW rows, RowsOk(rows)
  PROVE  IsFiniteSet(ChosenPages(rows)) /\ Cardinality(ChosenPages(rows)) <= CapPages
<1>. DEFINE P == {PageOf(i) : i \in Competing(rows)}
            Scores(p) == {Score(rows, i) : i \in {j \in Competing(rows) : PageOf(j) = p}}
            best == [p \in P |-> Max(Scores(p))]
            k == Min({TargetPages, CapPages})
<1>1. NPages \in Nat /\ TargetPages \in Nat /\ CapPages \in Nat
  BY RegionAssumption
<1>2. P \in SUBSET (1..NPages)
  <2>1. \A i \in Competing(rows) : i \in Ids
    BY DEF Competing, RowsOk
  <2>2. \A i \in Ids : PageOf(i) \in 1..NPages
    BY RegionFacts DEF Pages
  <2>. QED BY <2>1, <2>2
<1>3. \A i : Score(rows, i) \in 0..10
  <2>1. \A b : One(b) \in {0, 1}
    BY DEF One
  <2>. QED BY <2>1 DEF Score
<1>4. ASSUME NEW p \in P PROVE best[p] \in Nat
  <2>1. Scores(p) \in SUBSET (0..10) /\ Scores(p) # {}
    BY <1>3
  <2>2. best[p] = Max(Scores(p))
    OBVIOUS
  <2>. HIDE DEF Scores, best
  <2>3. Max(Scores(p)) \in 0..10
    BY <2>1, GreatestOf
  <2>. QED BY <2>2, <2>3
<1>5. k \in Nat /\ k <= CapPages
  BY <1>1, LesserOf
<1>6. IsFiniteSet(Leading(P, best, k)) /\ Cardinality(Leading(P, best, k)) <= k
  <2>. HIDE DEF P, best, k
  <2>1. \A p \in P : best[p] \in Nat
    BY <1>4
  <2>. QED BY ONLY <1>1, <1>2, <2>1, <1>5, RankedWithin
<1>7. IsFiniteSet(ChosenPages(rows)) /\ Cardinality(ChosenPages(rows)) <= k
  <2>1. ChosenPages(rows) = Leading(P, best, k)
    BY DEF ChosenPages, Leading, Ahead
  <2>. QED BY ONLY <1>6, <2>1
<1>8. Cardinality(ChosenPages(rows)) \in Nat
  BY <1>7, FS_CardinalityType
<1>. HIDE DEF k
<1>. QED BY <1>1, <1>5, <1>7, <1>8

ScheduledPages == {PageOf(i) : i \in {j \in DOMAIN records : records[j].routing = "scheduled"}}

\* Once a layout is known, no more pages are scheduled than the cap allows.
BudgetInv ==
  (manifest.parsed # {} \/ operator.step = "manifest") => (Cardinality(ScheduledPages) <= CapPages)

\* The routing in force is written before the manifest says a layout is known.
LEMMA KnownLayout ==
  ASSUME [Next]_vars, manifest'.parsed # {} \/ operator'.step = "manifest"
  PROVE  \/ manifest.parsed # {} \/ operator.step = "manifest"
         \/ MergeLayout /\ operator'.step = "manifest"
<1>a. (UNCHANGED manifest /\ operator' = operator) => manifest.parsed # {} \/ operator.step = "manifest"
  OBVIOUS
<1>b. (UNCHANGED manifest /\ operator'.step # "manifest") => manifest.parsed # {}
  OBVIOUS
<1>1. CASE UNCHANGED vars
  BY <1>1, <1>a DEF vars, work
<1>2. CASE BeginPrepare \/ WriteRun
  <2>1. UNCHANGED manifest /\ operator'.step \in {"render", "assign"}
    BY <1>2 DEF BeginPrepare, WriteRun, Idle
  <2>. QED BY <2>1, <1>b
<1>3. CASE AssignCourse \/ Crash
  BY <1>3, <1>b, IdleFacts DEF AssignCourse, Crash
<1>4. CASE MergeLayout
  <2>1. UNCHANGED manifest
    BY <1>4 DEF MergeLayout
  <2>. QED BY <1>4, <2>1
<1>5. CASE MergeManifest
  BY <1>5 DEF MergeManifest
<1>6. CASE \E phase \in {"discovery", "inference"} : Package(phase)
  BY <1>6, <1>a DEF Package, work
<1>7. CASE \E pk \in packets : ColabDiscovery(pk) \/ ColabInference(pk)
  BY <1>7, <1>a DEF ColabDiscovery, ColabInference, work
<1>8. CASE \E res \in results : MergeIngest(res)
  <2>1. UNCHANGED manifest /\ operator'.step \in {"idle", "layout"}
    BY <1>8, IdleFacts DEF MergeIngest
  <2>. QED BY <2>1, <1>b
<1>9. CASE \E e \in Parsers : ImportParser(e)
  BY <1>9, <1>a DEF ImportParser
<1>10. ASSUME NEW i, NEW d, Decide(i, d) \/ Annotate(i, d)
       PROVE  manifest.parsed # {} \/ operator.step = "manifest"
  BY <1>10, <1>a DEF Decide, Annotate, Gesture, work
<1>11. ASSUME NEW i, DamageAsset(i) PROVE manifest.parsed # {} \/ operator.step = "manifest"
  BY <1>11, <1>a DEF DamageAsset, work
<1>12. CASE \E p \in sent : Deliver(p) \/ ImportAnnotation(p)
  BY <1>12, <1>a DEF Deliver, ImportAnnotation, work
<1>13. CASE RestartServer \/ ExportCpt
  BY <1>13, <1>a DEF RestartServer, ExportCpt, work
<1>. QED BY <1>1, <1>2, <1>3, <1>4, <1>5, <1>6, <1>7, <1>8, <1>9, <1>10, <1>11, <1>12,
            <1>13 DEF Next

\* Records routed within sound rows are scheduled within the cap.
LEMMA ReroutedWithinCap ==
  ASSUME NEW rows, Rerouted(rows)
  PROVE  Cardinality(ScheduledPages') <= CapPages
<1>1. IsFiniteSet(ChosenPages(rows)) /\ Cardinality(ChosenPages(rows)) <= CapPages
  BY ChosenWithinCap DEF Rerouted
<1>2. ScheduledPages' \in SUBSET ChosenPages(rows)
  BY DEF ScheduledPages, Rerouted
<1>3. IsFiniteSet(ScheduledPages') /\ Cardinality(ScheduledPages') <= Cardinality(ChosenPages(rows))
  BY <1>1, <1>2, FS_Subset
<1>4. Cardinality(ChosenPages(rows)) \in Nat /\ Cardinality(ScheduledPages') \in Nat /\ CapPages \in Nat
  BY <1>1, <1>3, FS_CardinalityType, RegionAssumption
<1>. QED BY <1>1, <1>3, <1>4

\* The page budget is kept.
LEMMA BudgetStep ==
  ASSUME SourceInv, BudgetInv, [Next]_vars
  PROVE  BudgetInv'
<1>. SUFFICES ASSUME manifest'.parsed # {} \/ operator'.step = "manifest"
              PROVE  Cardinality(ScheduledPages') <= CapPages
  BY DEF BudgetInv
<1>1. CASE MergeLayout /\ operator'.step = "manifest"
  <2>1. \E rows : Rerouted(rows)
    BY <1>1, LayoutRecords DEF Rerouted
  <2>. QED BY <2>1, ReroutedWithinCap
<1>2. CASE manifest.parsed # {} \/ operator.step = "manifest"
  <2>1. Cardinality(ScheduledPages) <= CapPages
    BY <1>2 DEF BudgetInv
  <2>2. CASE SameRouting
    <3>1. ScheduledPages' = ScheduledPages
      BY <2>2 DEF ScheduledPages, SameRouting
    <3>. QED BY <2>1, <3>1
  <2>3. CASE \A i \in DOMAIN records' : records'[i].routing # "scheduled"
    <3>1. ScheduledPages' = {}
      BY <2>3 DEF ScheduledPages
    <3>2. Cardinality({}) = 0 /\ CapPages \in Nat
      BY FS_EmptySet, RegionAssumption
    <3>. QED BY <3>1, <3>2
  <2>4. CASE \E rows : Rerouted(rows)
    BY <2>4, ReroutedWithinCap
  <2>. QED BY <2>2, <2>3, <2>4, RecordsStep
<1>. QED BY <1>1, <1>2, KnownLayout

-----------------------------------------------------------------------------
(* What a trusted record rests on.                                         *)

\* The preference of a candidate is a number.
LEMMA PriorityNumber ==
  ASSUME NEW c, NEW kind
  PROVE  Priority(c, kind) \in Nat
<1>. DEFINE order == Preference(kind)
            at == {n \in DOMAIN order : order[n] = Role[c.engine]}
<1>1. Len(order) \in Nat /\ DOMAIN order = 1..Len(order)
  <2>1. \A a, b, c1, d : <<a, b, c1, d>> \in Seq({a, b, c1, d})
    OBVIOUS
  <2>2. \A a, b, c1, d, e : <<a, b, c1, d, e>> \in Seq({a, b, c1, d, e})
    OBVIOUS
  <2>3. \E S : order \in Seq(S)
    <3>1. CASE kind \in Visual
      <4>1. order = <<"vlm", "pptx", "native_pdf", "ocr">>
        BY <3>1 DEF Preference, Visual
      <4>2. order \in Seq({"vlm", "pptx", "native_pdf", "ocr"})
        BY <4>1, <2>1
      <4>. QED BY <4>2
    <3>2. CASE kind \notin Visual /\ kind = "formula"
      BY <3>2, <2>2 DEF Preference
    <3>3. CASE kind \notin Visual /\ kind = "table"
      BY <3>3, <2>2 DEF Preference
    <3>4. CASE kind \notin Visual /\ kind # "formula" /\ kind # "table"
      BY <3>4, <2>1 DEF Preference
    <3>. QED BY <3>1, <3>2, <3>3, <3>4
  <2>. HIDE DEF order
  <2>. QED BY <2>3
<1>. HIDE DEF order
<1>2. at \in SUBSET Nat
  BY <1>1
<1>3. Priority(c, kind) = IF at = {} THEN Len(order) + 1 ELSE Min(at)
  BY DEF Priority, order
<1>. HIDE DEF at
<1>4. at # {} => Min(at) \in Nat
  BY <1>2, LeastExists DEF Min
<1>. QED BY <1>1, <1>3, <1>4

\* A record with a usable candidate has one that is selected.
LEMMA SelectedUsable ==
  ASSUME NEW r, r.cands \in Seq(Candidates), Usable(r) # {}
  PROVE  Selected(r) \in Usable(r)
<1>. DEFINE rank(n) == Priority(r.cands[n], r.kind)
            ranks == {rank(n) : n \in Usable(r)}
            first(a) == {n \in Usable(r) : rank(n) = a}
<1>1. Usable(r) \in SUBSET Nat
  <2>. PICK cands \in Seq(Candidates) : cands = r.cands
    OBVIOUS
  <2>1. DOMAIN cands = 1..Len(cands) /\ Len(cands) \in Nat
    OBVIOUS
  <2>2. DOMAIN cands \subseteq Nat
    BY <2>1
  <2>3. Usable(r) \subseteq DOMAIN cands
    BY DEF Usable
  <2>. QED BY <2>2, <2>3
<1>2. \A n : rank(n) \in Nat
  BY PriorityNumber
<1>3. PICK a \in ranks : \A b \in ranks : a <= b
  <2>1. ranks \in SUBSET Nat /\ ranks # {}
    BY <1>2
  <2>. HIDE DEF ranks
  <2>. QED BY <2>1, LeastExists
<1>4. PICK n \in first(a) : \A m \in first(a) : n <= m
  <2>1. first(a) \in SUBSET Nat /\ first(a) # {}
    BY <1>1
  <2>. HIDE DEF first
  <2>. QED BY <2>1, LeastExists
<1>5. n \in Usable(r) /\ rank(n) = a
  OBVIOUS
<1>6. ASSUME NEW m \in Usable(r) PROVE rank(n) < rank(m) \/ (rank(n) = rank(m) /\ n <= m)
  <2>1. rank(m) \in ranks /\ rank(n) \in Nat /\ rank(m) \in Nat
    BY <1>2
  <2>2. rank(n) <= rank(m)
    BY <1>3, <1>5, <2>1
  <2>3. rank(m) = rank(n) => m \in first(a)
    BY <1>5
  <2>. HIDE DEF rank, first
  <2>. QED BY <1>4, <2>1, <2>2, <2>3
<1>7. \E q \in Usable(r) : \A m \in Usable(r) :
        rank(q) < rank(m) \/ (rank(q) = rank(m) /\ q <= m)
  BY <1>5, <1>6
<1>. HIDE DEF rank
<1>8. Selected(r) = CHOOSE q \in Usable(r) : \A m \in Usable(r) :
                      rank(q) < rank(m) \/ (rank(q) = rank(m) /\ q <= m)
  BY DEF Selected, rank
<1>. QED BY <1>7, <1>8

\* What the validator asks of a trusted record.
LEMMA TrustedFacts ==
  ASSUME NEW i, NEW r, Bucket(i, r) = "trusted"
  PROVE  /\ r.kind \in {"text", "code"} /\ Confirmed(r) /\ ~Disputed(r)
         /\ Usable(r) = DOMAIN r.cands /\ Usable(r) # {}
<1>1. /\ ~BrokenFormula(r) /\ Usable(r) # {}
      /\ r.kind \in {"text", "code"} /\ Confirmed(r) /\ ~Disputed(r)
      /\ Usable(r) = DOMAIN r.cands
  BY DEF Bucket
<1>. QED BY <1>1

\* A trusted record has a confirmed native text.
LEMMA TrustedSound ==
  ASSUME NEW i \in Ids, NEW r \in SoundRecords(i), Bucket(i, r) = "trusted"
  PROVE  /\ Cardinality({c.text : c \in Range(r.cands)}) = 1
         /\ \E c, d \in Range(r.cands) :
              c.engine = "native" /\ d.engine \in {"paddle_ocr", "paddle_structure"}
<1>1. /\ r.kind \in {"text", "code"} /\ Confirmed(r) /\ ~Disputed(r)
      /\ Usable(r) = DOMAIN r.cands /\ Usable(r) # {}
  BY TrustedFacts
<1>2. /\ r.kind = Region[i].kind /\ r.cands \in Seq(OwnCands(i)) /\ r.cands \in Seq(Candidates)
      /\ Full(i) => \E c \in Range(r.cands) : c.engine = "native"
  BY DEF SoundRecords, Records
<1>3. Full(i) /\ Region[i].kind \notin Visual
  BY <1>1, <1>2, RegionFacts DEF Visual
<1>4. \A n \in DOMAIN r.cands : r.cands[n] \in Range(r.cands) /\ r.cands[n] \in OwnCands(i)
  BY <1>2 DEF Range
<1>5. \A n \in DOMAIN r.cands : r.cands[n].engine \in Engines /\ r.cands[n].engine # "vlm"
  BY <1>3, <1>4 DEF OwnCands, Candidates
<1>6. \A e \in Engines : /\ Role[e] = "vlm" => e = "vlm"
                         /\ Role[e] = "ocr" => e \in {"paddle_ocr", "paddle_structure"}
  BY DEF Role, Engines, Paddle
<1>7. Selected(r) \in Usable(r)
  BY <1>1, <1>2, SelectedUsable
<1>8. Others(r) = Usable(r) \ {Selected(r)}
  BY <1>1, <1>5, <1>6 DEF Others
<1>9. \A n \in DOMAIN r.cands : r.cands[n].text = Proposed(r)
  BY <1>1, <1>7, <1>8 DEF Disputed, Proposed
<1>10. {c.text : c \in Range(r.cands)} = {Proposed(r)}
  <2>1. \A c \in Range(r.cands) : c.text = Proposed(r)
    BY <1>9 DEF Range
  <2>2. r.cands[Selected(r)] \in Range(r.cands)
    BY <1>1, <1>4, <1>7
  <2>. QED BY <2>1, <2>2
<1>11. Cardinality({c.text : c \in Range(r.cands)}) = 1
  BY <1>10, FS_Singleton
<1>12. PICK n \in Others(r) :
         {"ocr", "native_pdf"} \subseteq
           {Role[e] : e \in {r.cands[n].engine, r.cands[Selected(r)].engine}}
  BY <1>1 DEF Confirmed
<1>13. PICK m \in {n, Selected(r)} : Role[r.cands[m].engine] = "ocr"
  BY <1>12
<1>14. m \in DOMAIN r.cands
  BY <1>1, <1>7, <1>8
<1>15. r.cands[m] \in Range(r.cands) /\ r.cands[m].engine \in {"paddle_ocr", "paddle_structure"}
  BY <1>4, <1>5, <1>6, <1>13, <1>14
<1>. QED BY <1>2, <1>3, <1>11, <1>15

-----------------------------------------------------------------------------
(* The evidence.                                                           *)

EvidenceInv == SourceInv /\ CacheInv /\ PagesInv /\ PeopleInv /\ BudgetInv

\* The invariant of the evidence holds at first.
LEMMA EvidenceInvInit == Init => EvidenceInv
<1>. SUFFICES ASSUME Init PROVE EvidenceInv
  OBVIOUS
<1>1. /\ run = "absent" /\ records = <<>> /\ manifest.parsed = {} /\ packets = {} /\ results = {}
      /\ cache = [i \in Ids |-> ""] /\ reviews = <<>> /\ sent = {} /\ damaged = {}
      /\ operator.step = "idle" /\ operator.archive = {} /\ operator.parsed = {}
  BY IdleFacts DEF Init
<1>2. DOMAIN records = {} /\ DOMAIN reviews = {}
  <2>1. DOMAIN <<>> = {}
    OBVIOUS
  <2>2. records = <<>> /\ reviews = <<>>
    BY <1>1
  <2>. QED BY ONLY <2>1, <2>2
<1>3. StartInv /\ RecordsInv /\ ColabInv
  BY <1>1, <1>2 DEF StartInv, RecordsInv, ColabInv
<1>4. CacheInv /\ PagesInv /\ PeopleInv /\ BudgetInv
  BY <1>1, <1>2 DEF CacheInv, PagesInv, PeopleInv, BudgetInv
<1>. QED BY <1>3, <1>4 DEF EvidenceInv, SourceInv

\* Every step keeps it.
LEMMA EvidenceInvStep ==
  ASSUME ReviewInv, EvidenceInv, [Next]_vars
  PROVE  EvidenceInv'
<1>1. RecordsInv'
  BY RecordsStep DEF EvidenceInv
<1>2. StartInv' /\ ColabInv' /\ CacheInv'
  BY StartStep, ColabStep DEF EvidenceInv
<1>3. PagesInv' /\ PeopleInv' /\ BudgetInv'
  BY PagesStep, PeopleStep, BudgetStep DEF EvidenceInv
<1>. QED BY <1>1, <1>2, <1>3 DEF EvidenceInv, SourceInv

\* The invariant says what EvidenceIsSound says.
LEMMA EvidenceInvSound ==
  ASSUME EvidenceInv
  PROVE  EvidenceIsSound
<1>1. \A i \in DOMAIN records : i \in Ids /\ records[i] \in SoundRecords(i)
  BY DEF EvidenceInv, SourceInv, RecordsInv
<1>2. TypeOK
  <2>1. \A i \in DOMAIN records : records[i] \in Records /\ records[i].kind = Region[i].kind
    BY <1>1 DEF SoundRecords
  <2>. QED BY <1>1, <2>1 DEF EvidenceInv, SourceInv, StartInv, PagesInv, PeopleInv, TypeOK
<1>3. EvidenceIsLocal
  <2>1. ASSUME NEW i \in DOMAIN records, NEW c \in Range(records[i].cands)
        PROVE  PageOf(c.at) = PageOf(i) /\ (Full(i) \/ (Region[c.at].box = Region[i].box))
    <3>1. records[i].cands \in Seq(OwnCands(i))
      BY <1>1 DEF SoundRecords
    <3>2. c \in OwnCands(i)
      BY <3>1 DEF Range
    <3>. QED BY <3>2 DEF OwnCands
  <2>. QED BY <2>1 DEF EvidenceIsLocal
<1>4. TrustedIsConfirmed
  BY <1>1, TrustedSound DEF TrustedIsConfirmed
<1>5. OneObservationPerImage
  BY DEF EvidenceInv, CacheInv, OneObservationPerImage
<1>6. ScheduleWithinCap
  BY DEF EvidenceInv, BudgetInv, ScheduledPages, ScheduleWithinCap
<1>. QED BY <1>2, <1>3, <1>4, <1>5, <1>6 DEF EvidenceIsSound

\* Whatever is packed, retried, merged or imported in whatever order, the
\* evidence of every record was read at its own place, a trusted record has a
\* native text and an OCR reading that agree and nothing that differs, archives
\* agree on what an image shows, and the vision model is scheduled on no more
\* pages than the cap (ingest_cloud, cross_validate, vlm_worker.run, route).
THEOREM EvidenceStaysSound == Spec => []EvidenceIsSound
<1>1. Init => ReviewInv /\ EvidenceInv
  BY ReviewInvInit, EvidenceInvInit
<1>2. ReviewInv /\ EvidenceInv /\ [Next]_vars => (ReviewInv /\ EvidenceInv)'
  BY ReviewInvStep, EvidenceInvStep
<1>3. EvidenceInv => EvidenceIsSound
  BY EvidenceInvSound
<1>. QED BY <1>1, <1>2, <1>3, PTL DEF Spec
=============================================================================
