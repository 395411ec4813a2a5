------------------------- MODULE ReviewStoreProofs -------------------------
(***************************************************************************)
(* What may leave the review store, for any catalogue, any routing and any *)
(* number of decisions, exports, Colab runs and faults (ReviewStore).      *)
(*                                                                         *)
(* Permission is computed on every use; the invariant says what it is      *)
(* computed from: the files keep the owner's last instruction or show that *)
(* it cannot be trusted, and the versions of a page list every result that *)
(* a question was made from.                                               *)
(***************************************************************************)
EXTENDS ReviewStore, TLAPS

-----------------------------------------------------------------------------
(* The inductive invariant, by the files it is about.                      *)

FilesOK ==
  /\ catalogue \subseteq Pages /\ rendering \subseteq Pages
  /\ source \in [Pages -> BOOLEAN]
  /\ asset \in [Pages -> {"none", "png", "whole", "changed"}]
  /\ ocr \in [Pages -> {"none", "error", "ok"}]

\* The pointer names the owner's last instruction; without a pointer a policy
\* file is left of any instruction there was.
OwnerKnown ==
  /\ exclusion.pointer => exclusion.policies /\ owner = exclusion.current.pages
  /\ exclusion.installing => exclusion.policies
  /\ ~exclusion.policies => owner = {}

PolicyOK ==
  /\ owner \subseteq Pages
  /\ routing \in Routing
  /\ exclusion \in Exclusion
  /\ OwnerKnown

\* Every question was made from a result that its page lists as a version.
VersionsKnown == \A q \in questions : q.result \in ToSet(versions[q.page])

StoreOK ==
  /\ review \in [Pages -> {"none", "approve", "reject"}]
  /\ questions \subseteq Questions
  /\ versions \in [Pages -> Seq(Results)]
  /\ VersionsKnown
  /\ decisions \in Nat

WorkOK ==
  /\ exporter \in Exporter
  /\ (exporter.pc = "idle") <=> (exporter.todo = {})
  /\ archives \subseteq SUBSET Jobs
  /\ registry \subseteq SUBSET Jobs

ColabOK ==
  /\ cache \in [Pages -> {"none", "error", "ok"}]
  /\ takes \in [Pages -> 0 .. MaxTakes]
  /\ \A r \in returns :
       /\ r.batch \in archives
       /\ DOMAIN r.outputs \subseteq {j.page : j \in r.batch}
       /\ \A p \in DOMAIN r.outputs : r.outputs[p] \in 0 .. MaxTakes

StoreInv == FilesOK /\ PolicyOK /\ StoreOK /\ WorkOK /\ ColabOK

LEMMA Unmoved ==
  ASSUME StoreInv
  PROVE  /\ UNCHANGED files => FilesOK'
         /\ UNCHANGED policy => PolicyOK'
         /\ UNCHANGED <<store, decisions>> => StoreOK'
         /\ UNCHANGED work => WorkOK'
         /\ UNCHANGED <<colab, archives>> => ColabOK'
<1>1. UNCHANGED files => FilesOK'
  BY DEF StoreInv, FilesOK, files
<1>2. UNCHANGED policy => PolicyOK'
  BY DEF StoreInv, PolicyOK, OwnerKnown, policy
<1>3. UNCHANGED <<store, decisions>> => StoreOK'
  BY DEF StoreInv, StoreOK, VersionsKnown, store
<1>4. UNCHANGED work => WorkOK'
  BY DEF StoreInv, WorkOK, work
<1>5. UNCHANGED <<colab, archives>> => ColabOK'
  BY DEF StoreInv, ColabOK, colab
<1>. QED BY <1>1, <1>2, <1>3, <1>4, <1>5

LEMMA NoPolicyIsOne == NoPolicy \in Policies
BY DEF NoPolicy, Policies

\* TypeOK is the part of the invariant that says what the files hold.
LEMMA InvTyped == StoreInv => TypeOK
<1>. SUFFICES ASSUME StoreInv PROVE TypeOK
  OBVIOUS
<1>1. /\ catalogue \subseteq Pages /\ rendering \subseteq Pages /\ owner \subseteq Pages
      /\ source \in [Pages -> BOOLEAN]
      /\ asset \in [Pages -> {"none", "png", "whole", "changed"}]
      /\ ocr \in [Pages -> {"none", "error", "ok"}]
      /\ routing \in Routing /\ exclusion \in Exclusion
  BY DEF StoreInv, FilesOK, PolicyOK
<1>2. /\ review \in [Pages -> {"none", "approve", "reject"}]
      /\ questions \subseteq Questions
  BY DEF StoreInv, StoreOK
<1>3. \A p \in Pages : ToSet(versions[p]) \subseteq Results
  BY DEF StoreInv, StoreOK, ToSet
<1>4. /\ exporter.pc \in {"idle", "prepare", "publish", "register"}
      /\ (exporter.pc = "idle") <=> (exporter.todo = {})
      /\ \A b \in archives \cup registry \cup {exporter.todo} : b \subseteq Jobs
  BY DEF StoreInv, WorkOK, Exporter
<1>5. /\ cache \in [Pages -> {"none", "error", "ok"}] /\ takes \in [Pages -> 0..MaxTakes]
      /\ \A r \in returns : r.batch \in archives /\ DOMAIN r.outputs \subseteq {j.page : j \in r.batch}
  BY DEF StoreInv, ColabOK
<1>. QED BY <1>1, <1>2, <1>3, <1>4, <1>5 DEF TypeOK

-----------------------------------------------------------------------------
(* What a permission implies.                                              *)

\* A page that may be used at all is not the owner's, was not refused, and
\* has its source; one whose image may be used has that image.
LEMMA Permitted ==
  ASSUME StoreInv, NEW p \in Pages, NEW pol
  PROVE  /\ TextPermission(p, pol) => p \notin owner /\ review[p] # "reject" /\ source[p]
         /\ VlmPermission(p, pol) => /\ p \notin owner /\ review[p] # "reject"
                                     /\ source[p] /\ asset[p] \in {"png", "whole"}
<1>1. ~ExportExcluded(p) => p \notin owner
  BY DEF StoreInv, PolicyOK, OwnerKnown, ExportExcluded, ExclusionError
<1>2. AutomaticRoute(p) \in {"text", "auto_vlm"} => source[p]
  BY DEF AutomaticRoute
<1>3. Status(p) \in {"text", "auto_vlm", "approve"} => ~ExportExcluded(p) /\ review[p] # "reject"
  BY DEF Status
<1>4. Status(p) = "approve" => source[p] /\ asset[p] \in {"png", "whole"}
  <2>. SUFFICES ASSUME Status(p) = "approve" PROVE source[p] /\ ImageVerified(p)
    BY DEF ImageVerified
  <2>1. ~ExportExcluded(p) /\ review[p] # "reject"
    BY <1>3
  <2>2. CASE review[p] = "approve"
    BY <2>1, <2>2 DEF Status
  <2>3. CASE review[p] # "approve"
    BY <2>1, <2>3 DEF Status
  <2>. QED BY <2>2, <2>3
<1>5. Status(p) = "auto_vlm" => AutomaticRoute(p) = "auto_vlm"
  <2>. SUFFICES ASSUME Status(p) = "auto_vlm" PROVE AutomaticRoute(p) = "auto_vlm"
    OBVIOUS
  <2>. HIDE DEF AutomaticRoute
  <2>1. ~ExportExcluded(p) /\ review[p] # "reject"
    BY <1>3
  <2>2. review[p] # "approve"
    BY <2>1 DEF Status
  <2>. QED BY <2>1, <2>2 DEF Status
<1>. QED BY <1>1, <1>2, <1>3, <1>4, <1>5 DEF TextPermission, VlmPermission

-----------------------------------------------------------------------------
(* Imports of machine questions.                                           *)

LEMMA Added ==
  ASSUME NEW seq \in Seq(Results), NEW r \in Results
  PROVE  /\ AddVersion(seq, r) \in Seq(Results)
         /\ ToSet(seq) \subseteq ToSet(AddVersion(seq, r))
         /\ r \in ToSet(AddVersion(seq, r))
         /\ Last(AddVersion(seq, r)) = r
<1>1. CASE seq # <<>> /\ Last(seq) = r
  <2>1. Len(seq) \in DOMAIN seq
    BY <1>1
  <2>. QED BY <1>1, <2>1 DEF AddVersion, ToSet, Last
<1>2. CASE ~(seq # <<>> /\ Last(seq) = r)
  <2>1. AddVersion(seq, r) = Append(seq, r)
    BY <1>2 DEF AddVersion
  <2>2. /\ Append(seq, r) \in Seq(Results) /\ Len(Append(seq, r)) = Len(seq) + 1
        /\ DOMAIN Append(seq, r) = 1 .. (Len(seq) + 1) /\ DOMAIN seq = 1 .. Len(seq)
        /\ \A i \in 1 .. Len(seq) : Append(seq, r)[i] = seq[i]
        /\ Append(seq, r)[Len(seq) + 1] = r /\ Len(seq) \in Nat
    OBVIOUS
  <2>3. ToSet(seq) \subseteq ToSet(Append(seq, r))
    BY <2>2 DEF ToSet
  <2>4. r \in ToSet(Append(seq, r))
    BY <2>2 DEF ToSet
  <2>. QED BY <2>1, <2>2, <2>3, <2>4 DEF Last
<1>. QED BY <1>1, <1>2

\* The rows of one import: machine questions, one result for each page.
Importable(rows) ==
  /\ rows \subseteq Questions
  /\ \A w \in rows : w.decision = "none"
  /\ \A v, w \in rows : v.page = w.page => v.result = w.result

\* What an import does to the versions of a page.
LEMMA ImportedVersions ==
  ASSUME StoreInv, NEW rows, Importable(rows), ImportQuestions(rows), NEW p \in Pages
  PROVE  /\ (\A w \in rows : w.page # p) => versions'[p] = versions[p]
         /\ \A w \in rows : w.page = p => versions'[p] = AddVersion(versions[p], w.result)
<1>1. versions' = [s \in Pages |->
         IF \E w \in rows : w.page = s
         THEN AddVersion(versions[s], (CHOOSE w \in rows : w.page = s).result)
         ELSE versions[s]]
  BY DEF ImportQuestions
<1>2. (\A w \in rows : w.page # p) => versions'[p] = versions[p]
  BY <1>1
<1>3. ASSUME NEW w \in rows, w.page = p
      PROVE  versions'[p] = AddVersion(versions[p], w.result)
  <2>. DEFINE c == CHOOSE v \in rows : v.page = p
  <2>1. c \in rows /\ c.page = p
    BY <1>3
  <2>2. versions'[p] = AddVersion(versions[p], c.result)
    BY <1>1, <1>3
  <2>. HIDE DEF c
  <2>3. c.result = w.result
    BY <1>3, <2>1 DEF Importable
  <2>. QED BY <2>2, <2>3
<1>. QED BY <1>2, <1>3

LEMMA ImportStep ==
  ASSUME StoreInv, NEW rows, Importable(rows), ImportQuestions(rows),
         review' = review, decisions' = decisions
  PROVE  StoreOK'
<1>1. questions' \subseteq questions \cup rows /\ questions' \subseteq Questions
  BY DEF StoreInv, StoreOK, Importable, ImportQuestions
<1>2. ASSUME NEW p \in Pages
      PROVE  versions'[p] \in Seq(Results) /\ ToSet(versions[p]) \subseteq ToSet(versions'[p])
  <2>1. versions[p] \in Seq(Results)
    BY DEF StoreInv, StoreOK
  <2>2. CASE \A w \in rows : w.page # p
    BY <2>1, <2>2, ImportedVersions
  <2>3. ASSUME NEW w \in rows, w.page = p
        PROVE  versions'[p] \in Seq(Results) /\ ToSet(versions[p]) \subseteq ToSet(versions'[p])
    <3>1. w.result \in Results
      BY DEF Importable, Questions
    <3>2. versions'[p] = AddVersion(versions[p], w.result)
      BY <2>3, ImportedVersions
    <3>. QED BY <2>1, <3>1, <3>2, Added
  <2>. QED BY <2>2, <2>3
<1>3. versions' \in [Pages -> Seq(Results)]
  <2>1. versions' = [s \in Pages |-> versions'[s]]
    BY DEF ImportQuestions
  <2>. QED BY <1>2, <2>1
<1>4. ASSUME NEW q \in questions' PROVE q.result \in ToSet(versions'[q.page])
  <2>1. q.page \in Pages /\ q.result \in Results /\ versions[q.page] \in Seq(Results)
    BY <1>1 DEF Questions, StoreInv, StoreOK
  <2>2. CASE q \in questions
    BY <1>2, <2>1, <2>2 DEF StoreInv, StoreOK, VersionsKnown
  <2>3. CASE q \in rows
    <3>1. versions'[q.page] = AddVersion(versions[q.page], q.result)
      BY <2>1, <2>3, ImportedVersions
    <3>. QED BY <2>1, <3>1, Added
  <2>. QED BY <1>1, <2>2, <2>3
<1>. QED BY <1>1, <1>3, <1>4 DEF StoreInv, StoreOK, VersionsKnown

\* A newer result supersedes the questions of the older ones, and an older
\* one is refused; so no decision comes back into force.
LEMMA ImportReleasesNothing ==
  ASSUME StoreInv, NEW rows, Importable(rows), ImportQuestions(rows),
         UNCHANGED <<files, policy, review>>
  PROVE  Exportable' \subseteq Exportable
<1>. SUFFICES ASSUME NEW q \in Exportable' PROVE q \in Exportable
  OBVIOUS
<1>1. /\ q \in questions' /\ Last(versions'[q.page]) = q.result
      /\ QuestionPermission(q)' /\ q.decision = "accept"
  BY DEF Exportable, QuestionStatus
<1>2. QuestionPermission(q)
  BY <1>1 DEF QuestionPermission, TextPermission, VlmPermission, Status, AutomaticRoute, RoutingError,
     ExportExcluded, ExclusionError, ImageVerified, Classify, files, policy
<1>3. q \in questions
  BY <1>1 DEF Importable, ImportQuestions
<1>4. /\ q.page \in Pages /\ q.result \in Results /\ versions[q.page] \in Seq(Results)
      /\ q.result \in ToSet(versions[q.page])
  BY <1>3 DEF StoreInv, StoreOK, VersionsKnown, Questions
<1>5. Last(versions[q.page]) = q.result
  <2>1. CASE \A w \in rows : w.page # q.page
    BY <1>1, <1>4, <2>1, ImportedVersions
  <2>2. ASSUME NEW w \in rows, w.page = q.page PROVE Last(versions[q.page]) = q.result
    <3>1. versions'[q.page] = AddVersion(versions[q.page], w.result) /\ w.result \in Results
      BY <1>4, <2>2, ImportedVersions DEF Importable, Questions
    <3>2. w.result = q.result
      BY <1>1, <1>4, <3>1, Added
    <3>3. ~StaleRevision(w.page, w.result)
      BY DEF ImportQuestions
    <3>. QED BY <1>4, <2>2, <3>2, <3>3 DEF StaleRevision
  <2>. QED BY <2>1, <2>2
<1>. QED BY <1>1, <1>2, <1>3, <1>5 DEF Exportable, QuestionStatus

-----------------------------------------------------------------------------
(* One lemma per group of actions that write the same files.               *)

LEMMA RenderImageStep == ASSUME StoreInv, NEW p \in Pages, RenderImage(p) PROVE StoreInv'
<1>1. FilesOK'
  BY DEF StoreInv, FilesOK, RenderImage
<1>2. UNCHANGED <<policy, store, decisions, work, colab, archives>>
  BY DEF RenderImage, work, bounds
<1>. QED BY <1>1, <1>2, Unmoved DEF StoreInv

LEMMA RenderProofStep == ASSUME StoreInv, NEW p \in Pages, RenderProof(p) PROVE StoreInv'
<1>1. FilesOK'
  BY DEF StoreInv, FilesOK, RenderProof
<1>2. UNCHANGED <<policy, store, decisions, work, colab, archives>>
  BY DEF RenderProof, work, bounds
<1>. QED BY <1>1, <1>2, Unmoved DEF StoreInv

LEMMA OcrRunStep == ASSUME StoreInv, NEW failed, OcrRun(failed) PROVE StoreInv'
<1>1. FilesOK'
  BY DEF StoreInv, FilesOK, OcrRun
<1>2. UNCHANGED <<policy, store, decisions, work, colab, archives>>
  BY DEF OcrRun, work
<1>. QED BY <1>1, <1>2, Unmoved DEF StoreInv

LEMMA ActivateRoutingStep == ASSUME StoreInv, ActivateRouting PROVE StoreInv'
<1>1. routing' \in Routing
  BY DEF StoreInv, FilesOK, ActivateRouting, Routing, Policies
<1>2. PolicyOK'
  BY <1>1 DEF StoreInv, PolicyOK, OwnerKnown, ActivateRouting
<1>3. UNCHANGED <<files, store, decisions, work, colab, archives>>
  BY DEF ActivateRouting, work, bounds
<1>. QED BY <1>2, <1>3, Unmoved DEF StoreInv

LEMMA WriteExclusionStep ==
  ASSUME StoreInv, NEW S \in SUBSET catalogue, WriteExclusion(S)
  PROVE  StoreInv'
<1>1. [catalogue |-> catalogue, pages |-> S] \in Snapshot
  BY DEF StoreInv, FilesOK, Snapshot
<1>2. PolicyOK'
  BY <1>1 DEF StoreInv, PolicyOK, OwnerKnown, WriteExclusion, Exclusion
<1>3. UNCHANGED <<files, store, decisions, work, colab, archives>>
  BY DEF WriteExclusion, work
<1>. QED BY <1>2, <1>3, Unmoved DEF StoreInv

LEMMA PointExclusionStep == ASSUME StoreInv, PointExclusion PROVE StoreInv'
<1>1. NoSnapshot \in Snapshot
  BY DEF NoSnapshot, Snapshot
<1>2. exclusion.next \in Snapshot /\ exclusion.next.pages \subseteq Pages
  BY DEF StoreInv, PolicyOK, Exclusion, Snapshot
<1>3. PolicyOK'
  BY <1>1, <1>2 DEF StoreInv, PolicyOK, OwnerKnown, PointExclusion, Exclusion
<1>4. UNCHANGED <<files, store, decisions, work, colab, archives>>
  BY DEF PointExclusion, work, bounds
<1>. QED BY <1>3, <1>4, Unmoved DEF StoreInv

LEMMA DecidePageStep ==
  ASSUME StoreInv, NEW p \in Pages, NEW d \in {"approve", "reject"}, DecidePage(p, d)
  PROVE  StoreInv'
<1>1. StoreOK'
  BY DEF StoreInv, StoreOK, VersionsKnown, DecidePage
<1>2. UNCHANGED <<files, policy, work, colab, archives>>
  BY DEF DecidePage, work
<1>. QED BY <1>1, <1>2, Unmoved DEF StoreInv

LEMMA DecideQuestionStep ==
  ASSUME StoreInv, NEW q \in questions, NEW d \in {"accept", "refuse"}, DecideQuestion(q, d)
  PROVE  StoreInv'
<1>. DEFINE s == [q EXCEPT !.decision = d]
<1>1. q \in Questions /\ q.result \in ToSet(versions[q.page])
  BY DEF StoreInv, StoreOK, VersionsKnown
<1>2. s \in Questions /\ s.page = q.page /\ s.result = q.result
  BY <1>1 DEF Questions
<1>3. questions' \subseteq questions \cup {s}
  BY DEF DecideQuestion
<1>. HIDE DEF s
<1>m. review' = review /\ versions' = versions /\ decisions' = decisions + 1
  BY DEF DecideQuestion
<1>4. StoreOK'
  <2>1. questions' \subseteq Questions
    BY <1>2, <1>3 DEF StoreInv, StoreOK
  <2>2. VersionsKnown'
    BY <1>1, <1>2, <1>3, <1>m DEF StoreInv, StoreOK, VersionsKnown
  <2>. QED BY <1>m, <2>1, <2>2 DEF StoreInv, StoreOK
<1>5. UNCHANGED <<files, policy, work, colab, archives>>
  BY DEF DecideQuestion, work
<1>. QED BY <1>4, <1>5, Unmoved DEF StoreInv

\* What is selected is a set of jobs.
LEMMA EligibleJobs == ASSUME StoreInv PROVE Eligible \subseteq Jobs
BY NoPolicyIsOne DEF StoreInv, FilesOK, PolicyOK, Routing, Eligible, Jobs

LEMMA ChunkIsPart == ASSUME NEW jobs PROVE Chunk(jobs) \subseteq jobs
BY DEF Chunk

LEMMA ExportStep == ASSUME StoreInv, Export PROVE StoreInv'
<1>1. UNCHANGED <<files, policy, store, decisions, colab>>
  BY DEF Export, ExportSelect, ExportPrepare, ExportArchive, ExportRegister, ExportRefused, bounds
<1>2. archives \subseteq archives'
  BY DEF Export, ExportSelect, ExportPrepare, ExportArchive, ExportRegister, ExportRefused
<1>3. ColabOK'
  BY <1>1, <1>2 DEF StoreInv, ColabOK, colab
<1>4. exporter.pc \in {"idle", "prepare", "publish", "register"} /\ exporter.todo \in SUBSET Jobs
  BY DEF StoreInv, WorkOK, Exporter
<1>5. WorkOK'
  <2>1. CASE ExportSelect
    BY <1>4, <2>1, EligibleJobs DEF StoreInv, WorkOK, Exporter, ExportSelect
  <2>2. CASE ExportPrepare
    BY <1>4, <2>2 DEF StoreInv, WorkOK, Exporter, ExportPrepare
  <2>3. CASE ExportArchive
    BY <1>4, <2>3, ChunkIsPart DEF StoreInv, WorkOK, Exporter, ExportArchive
  <2>4. CASE ExportRegister
    BY <1>4, <2>4, ChunkIsPart DEF StoreInv, WorkOK, Exporter, ExportRegister
  <2>5. CASE ExportRefused
    BY <1>4, <2>5 DEF StoreInv, WorkOK, Exporter, ExportRefused
  <2>. QED BY <2>1, <2>2, <2>3, <2>4, <2>5 DEF Export
<1>. QED BY <1>1, <1>3, <1>5, Unmoved DEF StoreInv

LEMMA RunBatchStep ==
  ASSUME StoreInv, NEW b \in archives, NEW retry \in BOOLEAN,
         NEW done \in SUBSET {j.page : j \in b}, NEW ok \in SUBSET done,
         RunBatch(b, retry, done, ok)
  PROVE  StoreInv'
<1>. DEFINE outputs == [p \in done |-> IF p \in ok THEN takes[p] + 1
                                      ELSE IF cache[p] = "ok" THEN takes[p] ELSE 0]
<1>1. done \subseteq Pages
  BY DEF StoreInv, WorkOK, Jobs
<1>2. \A p \in ok : takes[p] < MaxTakes
  BY DEF RunBatch
<1>3. MaxTakes \in Nat /\ takes \in [Pages -> 0 .. MaxTakes]
  BY ReviewStoreAssumption DEF StoreInv, ColabOK
<1>4. \A p \in ok : takes[p] + 1 \in 0 .. MaxTakes
  BY <1>1, <1>2, <1>3
<1>5. DOMAIN outputs = done /\ \A p \in done : outputs[p] \in 0 .. MaxTakes
  BY <1>1, <1>3, <1>4
<1>6. returns' = returns \cup {[batch |-> b, outputs |-> outputs]}
  BY DEF RunBatch
<1>. HIDE DEF outputs
<1>7. takes' = [p \in Pages |-> IF p \in ok THEN takes[p] + 1 ELSE takes[p]]
  BY DEF RunBatch
<1>8. takes' \in [Pages -> 0 .. MaxTakes]
  BY <1>3, <1>4, <1>7
<1>9. cache' \in [Pages -> {"none", "error", "ok"}]
  BY DEF RunBatch, StoreInv, ColabOK
<1>10. UNCHANGED <<files, policy, store, decisions, work>> /\ archives' = archives
  BY DEF RunBatch, work
<1>11. \A r \in returns' :
         /\ r.batch \in archives
         /\ DOMAIN r.outputs \subseteq {j.page : j \in r.batch}
         /\ \A p \in DOMAIN r.outputs : r.outputs[p] \in 0 .. MaxTakes
  BY <1>5, <1>6 DEF StoreInv, ColabOK
<1>12. ColabOK'
  BY <1>8, <1>9, <1>10, <1>11 DEF ColabOK
<1>. QED BY <1>10, <1>12, Unmoved DEF StoreInv

\* The rows of a result archive: one for each page that has an output.
ResultRows(ret) ==
  LET good == {j \in ret.batch : j.page \in DOMAIN ret.outputs /\ ret.outputs[j.page] # 0}
  IN  {[page |-> j.page, result |-> VlmResult(ret.outputs[j.page]),
        policy |-> j.policy, decision |-> "none"] : j \in good}

LEMMA ResultsImportable ==
  ASSUME StoreInv, NEW ret \in returns, ImportResults(ret)
  PROVE  Importable(ResultRows(ret)) /\ ImportQuestions(ResultRows(ret))
<1>1. ImportQuestions(ResultRows(ret))
  <2>. DEFINE done == {j \in ret.batch : j.page \in DOMAIN ret.outputs}
              good == {j \in done : ret.outputs[j.page] # 0}
  <2>1. ImportQuestions({[page |-> j.page, result |-> VlmResult(ret.outputs[j.page]),
                          policy |-> j.policy, decision |-> "none"] : j \in good})
    BY DEF ImportResults
  <2>2. good = {j \in ret.batch : j.page \in DOMAIN ret.outputs /\ ret.outputs[j.page] # 0}
    OBVIOUS
  <2>. HIDE DEF good
  <2>. QED BY <2>1, <2>2 DEF ResultRows
<1>2. ret.batch \subseteq Jobs /\ \A p \in DOMAIN ret.outputs : ret.outputs[p] \in 0 .. MaxTakes
  BY DEF StoreInv, ColabOK, WorkOK
<1>3. MaxTakes \in Nat
  BY ReviewStoreAssumption
<1>4. ASSUME NEW w \in ResultRows(ret)
      PROVE  /\ w \in Questions /\ w.decision = "none"
             /\ w.result = VlmResult(ret.outputs[w.page])
  <2>1. PICK j \in ret.batch :
          /\ j.page \in DOMAIN ret.outputs /\ ret.outputs[j.page] # 0
          /\ w = [page |-> j.page, result |-> VlmResult(ret.outputs[j.page]),
                  policy |-> j.policy, decision |-> "none"]
    BY DEF ResultRows
  <2>2. ret.outputs[j.page] \in 1 .. MaxTakes /\ j.page \in Pages /\ j.policy \in Policies
    BY <1>2, <1>3, <2>1 DEF Jobs
  <2>3. VlmResult(ret.outputs[j.page]) \in Results
    BY <2>2 DEF VlmResult, Results
  <2>. QED BY <2>1, <2>2, <2>3 DEF Questions
<1>. QED BY <1>1, <1>4 DEF Importable

LEMMA ImportResultsStep ==
  ASSUME StoreInv, NEW ret \in returns, ImportResults(ret)
  PROVE  StoreInv' /\ Exportable' \subseteq Exportable
<1>1. /\ UNCHANGED <<files, policy, work, colab, archives>>
      /\ review' = review /\ decisions' = decisions
  BY DEF ImportResults, work, bounds
<1>2. Importable(ResultRows(ret)) /\ ImportQuestions(ResultRows(ret))
  BY ResultsImportable
<1>3. StoreOK'
  BY <1>1, <1>2, ImportStep
<1>4. Exportable' \subseteq Exportable
  BY <1>1, <1>2, ImportReleasesNothing
<1>. QED BY <1>1, <1>3, <1>4, Unmoved DEF StoreInv

LEMMA ImportTextStep ==
  ASSUME StoreInv, NEW p \in Pages, ImportText(p)
  PROVE  StoreInv' /\ Exportable' \subseteq Exportable
<1>. DEFINE row == [page |-> p, result |-> TextResult(routing.policy),
                    policy |-> routing.policy, decision |-> "none"]
<1>1. /\ UNCHANGED <<files, policy, work, colab, archives>>
      /\ review' = review /\ decisions' = decisions
  BY DEF ImportText, work, bounds
<1>2. routing.policy \in Policies
  BY DEF StoreInv, PolicyOK, Routing
<1>3. TextResult(routing.policy) \in Results
  BY <1>2 DEF TextResult, Results
<1>4. row \in Questions /\ row.decision = "none"
  BY <1>2, <1>3 DEF Questions
<1>5. ImportQuestions({row})
  BY DEF ImportText
<1>. HIDE DEF row
<1>6. Importable({row})
  BY <1>4 DEF Importable
<1>7. StoreOK'
  BY <1>1, <1>5, <1>6, ImportStep
<1>8. Exportable' \subseteq Exportable
  BY <1>1, <1>5, <1>6, ImportReleasesNothing
<1>. QED BY <1>1, <1>7, <1>8, Unmoved DEF StoreInv

LEMMA CrashStep == ASSUME StoreInv, Crash PROVE StoreInv'
<1>1. FilesOK'
  BY DEF StoreInv, FilesOK, Crash
<1>2. NoSnapshot \in Snapshot
  BY DEF NoSnapshot, Snapshot
<1>3. PolicyOK'
  BY <1>2 DEF StoreInv, PolicyOK, OwnerKnown, Crash, Exclusion
<1>4. WorkOK'
  BY DEF StoreInv, WorkOK, Exporter, Crash
<1>5. UNCHANGED <<store, decisions, colab, archives>>
  BY DEF Crash
<1>. QED BY <1>1, <1>3, <1>4, <1>5, Unmoved DEF StoreInv

\* What happens to files behind the back of the review server.
LEMMA FileFaults ==
  ASSUME StoreInv,
         CatalogueChanges \/ \E p \in Pages : SourceChanges(p) \/ AssetChanges(p)
  PROVE  StoreInv'
<1>1. FilesOK'
  <2>1. CASE CatalogueChanges
    BY <2>1, ReviewStoreAssumption DEF StoreInv, FilesOK, CatalogueChanges
  <2>2. ASSUME NEW p \in Pages, SourceChanges(p) PROVE FilesOK'
    BY <2>2 DEF StoreInv, FilesOK, SourceChanges
  <2>3. ASSUME NEW p \in Pages, AssetChanges(p) PROVE FilesOK'
    <3>1. PICK a \in {"none", "changed"} : asset' = [asset EXCEPT ![p] = a]
      BY <2>3 DEF AssetChanges
    <3>. QED BY <2>3, <3>1 DEF StoreInv, FilesOK, AssetChanges
  <2>. QED BY <2>1, <2>2, <2>3
<1>2. UNCHANGED <<policy, store, decisions, work, colab, archives>>
  BY DEF CatalogueChanges, SourceChanges, AssetChanges, work
<1>. QED BY <1>1, <1>2, Unmoved DEF StoreInv

LEMMA PolicyFaults == ASSUME StoreInv, RoutingDamaged \/ PointerLost PROVE StoreInv'
<1>1. PolicyOK'
  BY DEF StoreInv, PolicyOK, OwnerKnown, Routing, Exclusion, RoutingDamaged, PointerLost
<1>2. UNCHANGED <<files, store, decisions, work, colab, archives>>
  BY DEF RoutingDamaged, PointerLost, work
<1>. QED BY <1>1, <1>2, Unmoved DEF StoreInv

LEMMA CacheLostStep == ASSUME StoreInv, CacheLost PROVE StoreInv'
<1>1. ColabOK'
  BY DEF StoreInv, ColabOK, CacheLost, work
<1>2. UNCHANGED <<files, policy, store, decisions, work, archives>>
  BY DEF CacheLost, work
<1>. QED BY <1>1, <1>2, Unmoved DEF StoreInv

-----------------------------------------------------------------------------
(* The theorems.                                                           *)

LEMMA StoreInvInit == Init => StoreInv
<1>. SUFFICES ASSUME Init PROVE StoreInv
  OBVIOUS
<1>1. FilesOK
  BY ReviewStoreAssumption DEF Init, FilesOK
<1>2. NoSnapshot \in Snapshot
  BY DEF NoSnapshot, Snapshot
<1>3. PolicyOK
  BY <1>2, NoPolicyIsOne DEF Init, PolicyOK, OwnerKnown, Routing, Exclusion
<1>4. StoreOK
  BY DEF Init, StoreOK, VersionsKnown
<1>5. WorkOK
  BY DEF Init, WorkOK, Exporter
<1>6. ColabOK
  BY ReviewStoreAssumption DEF Init, ColabOK
<1>. QED BY <1>1, <1>3, <1>4, <1>5, <1>6 DEF StoreInv

LEMMA StoreInvStep == StoreInv /\ [Next]_vars => StoreInv'
<1>. SUFFICES ASSUME StoreInv, [Next]_vars PROVE StoreInv'
  OBVIOUS
<1>1. ASSUME NEW p \in Pages, RenderImage(p) \/ RenderProof(p) \/ ImportText(p) PROVE StoreInv'
  BY <1>1, RenderImageStep, RenderProofStep, ImportTextStep
<1>2. ASSUME NEW failed \in SUBSET catalogue, OcrRun(failed) PROVE StoreInv'
  BY <1>2, OcrRunStep
<1>3. ASSUME NEW S \in SUBSET catalogue, WriteExclusion(S) PROVE StoreInv'
  BY <1>3, WriteExclusionStep
<1>4. CASE ActivateRouting \/ PointExclusion \/ Export \/ Crash \/ CatalogueChanges
           \/ RoutingDamaged \/ PointerLost \/ CacheLost
  BY <1>4, ActivateRoutingStep, PointExclusionStep, ExportStep, CrashStep, FileFaults,
     PolicyFaults, CacheLostStep
<1>5. ASSUME NEW p \in Pages, NEW d \in {"approve", "reject"}, DecidePage(p, d) PROVE StoreInv'
  BY <1>5, DecidePageStep
<1>6. ASSUME NEW q \in questions, NEW d \in {"accept", "refuse"}, DecideQuestion(q, d)
      PROVE  StoreInv'
  BY <1>6, DecideQuestionStep
<1>7. ASSUME NEW b \in archives, NEW retry \in BOOLEAN,
             NEW done \in SUBSET {j.page : j \in b} \ {{}}, NEW ok \in SUBSET done,
             RunBatch(b, retry, done, ok)
      PROVE  StoreInv'
  BY <1>7, RunBatchStep
<1>8. ASSUME NEW ret \in returns, ImportResults(ret) PROVE StoreInv'
  BY <1>8, ImportResultsStep
<1>9. ASSUME NEW p \in Pages, SourceChanges(p) \/ AssetChanges(p) PROVE StoreInv'
  BY <1>9, FileFaults
<1>10. CASE UNCHANGED vars
  BY <1>10, Unmoved DEF StoreInv, vars, work, bounds
<1>. QED BY <1>1, <1>2, <1>3, <1>4, <1>5, <1>6, <1>7, <1>8, <1>9, <1>10 DEF Next

\* review_store.py:1061 (owner exclusion), 743 (status of a page).  Whatever
\* is exportable has the owner's permission, no veto of a person, its source
\* and one reading of its page.
LEMMA InvPermits == StoreInv => ReleaseIsPermitted
<1>. SUFFICES ASSUME StoreInv PROVE ReleaseIsPermitted
  OBVIOUS
<1>1. ASSUME NEW q \in Exportable
      PROVE  /\ q.page \in Pages /\ q.page \in catalogue
             /\ q.page \notin owner /\ review[q.page] # "reject" /\ source[q.page]
             /\ q.result.origin = "vlm" => asset[q.page] \in {"png", "whole"}
             /\ q.result = Last(versions[q.page])
  <2>1. q \in questions /\ QuestionPermission(q) /\ q.result = Last(versions[q.page])
    BY DEF Exportable, QuestionStatus
  <2>2. q.page \in Pages
    BY <2>1 DEF StoreInv, StoreOK, Questions
  <2>. QED BY <2>1, <2>2, Permitted DEF QuestionPermission
<1>. QED BY <1>1, InvTyped DEF ReleaseIsPermitted, OwnerIsObeyed, HumanVetoHolds, ReleasedHasItsSource,
            OneReadingPerPage

\* See ReleaseIsPermitted.
THEOREM ReleasesStayPermitted == Spec => []ReleaseIsPermitted
<1>. QED BY StoreInvInit, StoreInvStep, InvPermits, PTL DEF Spec

\* Only people, and changes of the files a decision depends on, release.
LEMMA MachineStep ==
  ASSUME StoreInv, [Next]_vars, UNCHANGED <<files, policy, decisions>>
  PROVE  Exportable' \subseteq Exportable
<1>1. ASSUME NEW p \in Pages, ImportText(p) PROVE Exportable' \subseteq Exportable
  BY <1>1, ImportTextStep
<1>2. ASSUME NEW ret \in returns, ImportResults(ret) PROVE Exportable' \subseteq Exportable
  BY <1>2, ImportResultsStep
<1>3. ASSUME UNCHANGED store PROVE Exportable' \subseteq Exportable
  <2>1. \A q : QuestionStatus(q)' = QuestionStatus(q)
    BY <1>3 DEF QuestionStatus, QuestionPermission, TextPermission, VlmPermission, Status, AutomaticRoute,
       RoutingError, ExportExcluded, ExclusionError, ImageVerified, Classify, files, policy, store
  <2>. QED BY <1>3, <2>1 DEF Exportable, store
<1>4. decisions \in Nat /\ decisions' = decisions
  BY DEF StoreInv, StoreOK
<1>5. ASSUME NEW p \in Pages, RenderImage(p) \/ RenderProof(p) PROVE UNCHANGED store
  BY <1>5 DEF RenderImage, RenderProof
<1>6. ASSUME NEW failed \in SUBSET catalogue, OcrRun(failed) PROVE UNCHANGED store
  BY <1>6 DEF OcrRun
<1>7. ASSUME NEW S \in SUBSET catalogue, WriteExclusion(S) PROVE UNCHANGED store
  BY <1>7 DEF WriteExclusion
<1>8. CASE ActivateRouting \/ PointExclusion \/ Crash \/ CatalogueChanges \/ RoutingDamaged
           \/ PointerLost \/ CacheLost
  BY <1>3, <1>8 DEF ActivateRouting, PointExclusion, Crash, CatalogueChanges, RoutingDamaged,
     PointerLost, CacheLost
<1>9. CASE Export
  BY <1>3, <1>9 DEF Export, ExportSelect, ExportPrepare, ExportArchive, ExportRegister, ExportRefused
<1>10. ASSUME NEW p \in Pages, NEW d \in {"approve", "reject"}, DecidePage(p, d) PROVE FALSE
  BY <1>4, <1>10 DEF DecidePage
<1>11. ASSUME NEW q \in questions, NEW d \in {"accept", "refuse"}, DecideQuestion(q, d) PROVE FALSE
  BY <1>4, <1>11 DEF DecideQuestion
<1>12. ASSUME NEW b \in archives, NEW retry \in BOOLEAN,
              NEW done \in SUBSET {j.page : j \in b} \ {{}}, NEW ok \in SUBSET done,
              RunBatch(b, retry, done, ok)
       PROVE  UNCHANGED store
  BY <1>12 DEF RunBatch
<1>13. ASSUME NEW p \in Pages, SourceChanges(p) \/ AssetChanges(p) PROVE UNCHANGED store
  BY <1>13 DEF SourceChanges, AssetChanges
<1>14. CASE UNCHANGED vars
  BY <1>3, <1>14 DEF vars
<1>. QED BY <1>1, <1>2, <1>3, <1>5, <1>6, <1>7, <1>8, <1>9, <1>10, <1>11, <1>12, <1>13, <1>14 DEF Next

\* Only ExportArchive publishes, and it asks for every permission again.
LEMMA PublishStep ==
  ASSUME StoreInv, [Next]_vars, NEW b \in archives' \ archives, NEW j \in b
  PROVE  /\ j.page \notin owner /\ review[j.page] # "reject"
         /\ source[j.page] /\ asset[j.page] \in {"png", "whole"}
<1>1. ExportArchive
  BY DEF Next, RenderImage, RenderProof, ImportText, OcrRun, ActivateRouting, WriteExclusion, PointExclusion,
     DecidePage, DecideQuestion, Export, ExportSelect, ExportPrepare, ExportRegister, ExportRefused,
     RunBatch, ImportResults, Crash, SourceChanges, AssetChanges, CatalogueChanges, RoutingDamaged,
     PointerLost, CacheLost, vars, work
<1>2. b = Chunk(exporter.todo) /\ JobPermitted(j)
  BY <1>1 DEF ExportArchive
<1>3. j.page \in Pages
  BY <1>2, ChunkIsPart DEF StoreInv, WorkOK, Exporter, Jobs
<1>. QED BY <1>2, <1>3, Permitted DEF JobPermitted

\* See StepsArePermitted.
THEOREM StepsStayPermitted == Spec => StepsArePermitted
<1>1. StoreInv /\ [Next]_vars =>
        [UNCHANGED <<files, policy, decisions>> => Exportable' \subseteq Exportable]_vars
  BY MachineStep
<1>2. StoreInv /\ [Next]_vars =>
        [\A b \in archives' \ archives : \A j \in b :
           /\ j.page \notin owner /\ review[j.page] # "reject"
           /\ source[j.page] /\ asset[j.page] \in {"png", "whole"}]_vars
  BY PublishStep
<1>. QED BY <1>1, <1>2, StoreInvInit, StoreInvStep, PTL
         DEF Spec, StepsArePermitted, MachineNeverReleases, PublishedIsPermitted
=============================================================================
