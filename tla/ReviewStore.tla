----------------------------- MODULE ReviewStore -----------------------------
(***************************************************************************)
(* The two-round review of exam pages (AI/Qweun_sft_version/review_tools). *)
(* A catalogue of page images is routed by a machine policy (plain text,   *)
(* vision model, manual) and reviewed by a person; permitted images are    *)
(* packed for a Colab notebook, whose results come back as machine         *)
(* questions that a person accepts or refuses one by one.  The owner may   *)
(* forbid the processing of pages at any time.                             *)
(*                                                                         *)
(* Permission is never stored: it is computed on every use from files that *)
(* can change meanwhile.  A page's identity is the hash of its content, so *)
(* a page is its identifier; equal hashes are equal bytes.                 *)
(***************************************************************************)
EXTENDS Naturals, Sequences, FiniteSets, FiniteSetsExt, SequencesExt

CONSTANTS
  NPages,        \* pages a catalogue may list, in the order of the exporter
  Catalogues,    \* catalogues the workspace may be prepared with
  ClassOf,       \* ClassOf[p]: what classify says of page p with OCR evidence
  MaxImages,     \* max_images of one exported batch
  MaxTakes,      \* bound: model outputs for one page
  MaxDecisions,  \* bound: decisions of people
  MaxFaults      \* bound: crashes, file changes, owner instructions

Pages == 1..NPages
Routes == {"manual", "text", "auto_vlm", "blank"}

ASSUME ReviewStoreAssumption ==
  /\ NPages \in Nat /\ MaxImages \in Nat \ {0}
  /\ {MaxTakes, MaxDecisions, MaxFaults} \subseteq Nat
  /\ Catalogues \subseteq SUBSET Pages
  /\ ClassOf \in [Pages -> Routes]

VARIABLES
  catalogue,  \* pages.jsonl
  source,     \* source[p]: the PDF still has the catalogued hash
  asset,      \* asset[p]: rendered PNG and its JSON proof
  rendering,  \* pages whose PNG is in place and whose proof is being written
  ocr,        \* ocr[p]: evidence of the OCR probe
  routing,    \* the activated routing policy
  exclusion,  \* the owner's exclusion: policy files, pointer, install under way
  owner,      \* history: pages of the last exclusion installed
  review,     \* review[p]: latest first-round event
  questions,  \* machine questions, each with its latest second-round event
  versions,   \* versions[p]: page_result_versions, oldest first
  exporter,   \* the export job
  archives,   \* batches whose ZIP is published
  registry,   \* batches whose manifest is registered
  cache,      \* Colab: cache[p], whether output takes[p] or an error is kept
  takes,      \* Colab: model outputs of page p so far
  returns,    \* result ZIPs
  decisions, faults

files == <<catalogue, source, asset, rendering, ocr>>
policy == <<routing, exclusion, owner>>
store == <<review, questions, versions>>
work == <<exporter, archives, registry>>
colab == <<cache, takes, returns>>
bounds == <<decisions, faults>>
vars == <<files, policy, store, work, colab, bounds>>

-----------------------------------------------------------------------------
(* A routing policy is named by a hash of the catalogue and OCR evidence   *)
(* it was built from; NoPolicy is the absence of one.                      *)
Policies == [catalogue : SUBSET Pages, ocr : [Pages -> {"none", "error", "ok"}]]
NoPolicy == [catalogue |-> {}, ocr |-> [p \in Pages |-> "none"]]
Routing == [policy : Policies, intact : BOOLEAN]

Snapshot == [catalogue : SUBSET Pages, pages : SUBSET Pages]
NoSnapshot == [catalogue |-> {}, pages |-> {}]
Exclusion == [policies : BOOLEAN, pointer : BOOLEAN, current : Snapshot,
              installing : BOOLEAN, next : Snapshot]

(* A job of a batch: NoPolicy for a human approval, else the policy that   *)
(* routed the page to the vision model.                                    *)
Jobs == [page : Pages, policy : Policies]

Exporter == [pc : {"idle", "prepare", "publish", "register"}, todo : SUBSET Jobs]

(* A machine question stands for the questions of one result: the n-th     *)
(* model output of a page, or the parsed text of a page under a policy.    *)
Results == [origin : {"vlm"}, n : 1..MaxTakes, policy : {NoPolicy}]
             \cup [origin : {"text"}, n : {0}, policy : Policies]
VlmResult(n) == [origin |-> "vlm", n |-> n, policy |-> NoPolicy]
TextResult(pol) == [origin |-> "text", n |-> 0, policy |-> pol]
Questions == [page : Pages, result : Results, policy : Policies,
              decision : {"none", "accept", "refuse"}]

Init ==
  /\ catalogue \in Catalogues
  /\ source = [p \in Pages |-> TRUE]
  /\ asset = [p \in Pages |-> "none"]
  /\ rendering = {}
  /\ ocr = [p \in Pages |-> "none"]
  /\ routing = [policy |-> NoPolicy, intact |-> TRUE]
  /\ exclusion = [policies |-> FALSE, pointer |-> FALSE, current |-> NoSnapshot,
                  installing |-> FALSE, next |-> NoSnapshot]
  /\ owner = {}
  /\ review = [p \in Pages |-> "none"]
  /\ questions = {}
  /\ versions = [p \in Pages |-> <<>>]
  /\ exporter = [pc |-> "idle", todo |-> {}]
  /\ archives = {}
  /\ registry = {}
  /\ cache = [p \in Pages |-> "none"]
  /\ takes = [p \in Pages |-> 0]
  /\ returns = {}
  /\ decisions = 0
  /\ faults = 0

-----------------------------------------------------------------------------
(* What may be done with a page, computed on every use.                    *)

(* Mutant: without a pointer there is no exclusion. *)
ErrorIfStale ==
  exclusion.pointer /\ exclusion.current.catalogue # catalogue

(* The exclusion cannot be trusted: a policy was written but no pointer    *)
(* names it, or the catalogue is not the one the policy was made for.      *)
ExclusionError ==
  \/ ~exclusion.pointer /\ exclusion.policies
  \/ exclusion.pointer /\ exclusion.current.catalogue # catalogue

(* Excluded by the owner; an error excludes every page.                    *)
ExportExcluded(p) ==
  ExclusionError \/ (exclusion.pointer /\ p \in exclusion.current.pages)

(* The routing cannot be read,  or it lists a page that is not there.      *)
RoutingError == ~routing.intact \/ ~(routing.policy.catalogue \subseteq catalogue)

(* classify: pages without good OCR evidence are left to a person.         *)
Classify(p, evidence) == IF evidence[p] = "ok" THEN ClassOf[p] ELSE "manual"

(* Mutant: the evidence of a route is not compared with the source. *)
RouteOfRecord(p) ==
  IF RoutingError \/ p \notin routing.policy.catalogue THEN "none"
  ELSE Classify(p, routing.policy.ocr)

(* The route in force, "none" without one: machine routes need the source  *)
(* intact, and the vision model an image that is whole or not yet made.    *)
AutomaticRoute(p) ==
  LET route == Classify(p, routing.policy.ocr)
  IN  IF \/ RoutingError \/ p \notin routing.policy.catalogue
         \/ route # "manual" /\ ~source[p]
         \/ route = "auto_vlm" /\ asset[p] \notin {"none", "whole"}
      THEN "none" ELSE route

(* The bytes the reviewer saw are the bytes on disk.                       *)
ImageVerified(p) == asset[p] \in {"png", "whole"}

(* Mutant: the machine route replaces a refusal that is on record. *)
RouteFirst(p) ==
  LET route == AutomaticRoute(p)
  IN  CASE ExportExcluded(p) -> "excluded"
        [] review[p] = "approve" -> IF source[p] /\ ImageVerified(p) THEN "approve" ELSE "stale"
        [] review[p] # "approve" /\ route \in {"text", "auto_vlm", "blank"} -> route
        [] review[p] = "reject" /\ route \in {"none", "manual"} -> "reject"
        [] OTHER -> "pending"

(* The status of a page.  The owner comes first, then the person's latest  *)
(* event, current or stale, and the machine route only without any event.  *)
Status(p) ==
  LET route == AutomaticRoute(p)
  IN  CASE ExportExcluded(p) -> "excluded"
        [] ~ExportExcluded(p) /\ review[p] = "reject" -> "reject"
        [] ~ExportExcluded(p) /\ review[p] = "approve" ->
             IF source[p] /\ ImageVerified(p) THEN "approve" ELSE "stale"
        [] OTHER -> IF route \in {"text", "auto_vlm", "blank"} THEN route ELSE "pending"

(* verify_vlm_page and the permission of a question of the vision model:   *)
(* a human approval, or the same automatic policy that made the job.       *)
VlmPermission(p, pol) ==
  \/ Status(p) = "approve"
  \/ Status(p) = "auto_vlm" /\ pol = routing.policy /\ asset[p] = "whole"

(* verify_text_page: the page is still routed to text by that policy.      *)
TextPermission(p, pol) ==
  Status(p) \in {"text", "approve"} /\ AutomaticRoute(p) = "text" /\ pol = routing.policy

QuestionPermission(q) ==
  /\ q.page \in catalogue
  /\ IF q.result.origin = "text" THEN TextPermission(q.page, q.policy)
     ELSE VlmPermission(q.page, q.policy)

(* Mutant: a question keeps its decision when a newer result came in. *)
BlockedOnly(q) == IF ~QuestionPermission(q) THEN "blocked" ELSE q.decision

QuestionStatus(q) ==
  IF Last(versions[q.page]) # q.result THEN "superseded"
  ELSE IF ~QuestionPermission(q) THEN "blocked" ELSE q.decision

(* What export_approved_questions hands to the training set.               *)
Exportable == {q \in questions : QuestionStatus(q) = "accept"}

-----------------------------------------------------------------------------
(* Failures are bounded.                                                   *)
Fault == faults < MaxFaults /\ faults' = faults + 1
Costs(failure) == IF failure THEN Fault ELSE UNCHANGED faults

-----------------------------------------------------------------------------
(* Files: rendering, OCR evidence and routing.                             *)

(* The worker's image replaces nothing: ensure_image renders only when     *)
(* neither file exists, and puts the PNG in place first.                   *)
RenderImage(p) ==
  /\ p \in catalogue /\ source[p] /\ asset[p] = "none"
  /\ asset' = [asset EXCEPT ![p] = "png"]
  /\ rendering' = rendering \cup {p}
  /\ UNCHANGED <<catalogue, source, ocr, policy, store, work, colab, bounds>>

(* The metadata that proves the image follows.                             *)
RenderProof(p) ==
  /\ p \in rendering
  /\ asset' = [asset EXCEPT ![p] = IF @ = "png" THEN "whole" ELSE @]
  /\ rendering' = rendering \ {p}
  /\ UNCHANGED <<catalogue, source, ocr, policy, store, work, colab, bounds>>

(* ocr_probe run over the catalogue: good evidence is a cache hit, and a   *)
(* page whose worker crashed, timed out or found the source changed gets   *)
(* an error that a later run tries again.                                  *)
OcrRun(failed) ==
  LET tried == {p \in catalogue : ocr[p] # "ok"}
  IN  /\ tried # {} /\ {p \in tried : ~source[p]} \subseteq failed /\ failed \subseteq tried
      /\ ocr' = [p \in Pages |-> IF p \in failed THEN "error" ELSE IF p \in tried THEN "ok" ELSE ocr[p]]
      /\ Costs(\E p \in failed : source[p])
      /\ UNCHANGED <<catalogue, source, asset, rendering, policy, store, work, colab, decisions>>

(* auto_triage_policy build with --activate: needs evidence for every page *)
(* of the catalogue and replaces the pointer last.                         *)
ActivateRouting ==
  /\ catalogue # {} /\ \A p \in catalogue : ocr[p] # "none"
  /\ routing' = [policy |-> [catalogue |-> catalogue,
                             ocr |-> [p \in Pages |-> IF p \in catalogue THEN ocr[p] ELSE "none"]],
                 intact |-> TRUE]
  /\ UNCHANGED <<files, exclusion, owner, store, work, colab, bounds>>

-----------------------------------------------------------------------------
(* The owner's exclusion is installed in two writes.                       *)

(* install_owner_exclusion up to the policy file.                          *)
WriteExclusion(S) ==
  /\ ~exclusion.installing
  /\ exclusion' = [exclusion EXCEPT !.policies = TRUE, !.installing = TRUE,
                     !.next = [catalogue |-> catalogue, pages |-> S]]
  /\ Fault
  /\ UNCHANGED <<files, routing, owner, store, work, colab, decisions>>

(* The pointer, unless the catalogue changed meanwhile.                    *)
PointExclusion ==
  /\ exclusion.installing
  /\ IF exclusion.next.catalogue = catalogue
     THEN /\ exclusion' = [exclusion EXCEPT !.pointer = TRUE, !.installing = FALSE,
                             !.current = exclusion.next, !.next = NoSnapshot]
          /\ owner' = exclusion.next.pages
     ELSE /\ exclusion' = [exclusion EXCEPT !.installing = FALSE, !.next = NoSnapshot]
          /\ UNCHANGED owner
  /\ UNCHANGED <<files, routing, store, work, colab, bounds>>

-----------------------------------------------------------------------------
(* The decisions of people.                                                *)

(* decide_page; "reject" is a rejection or a deferral.                     *)
DecidePage(p, d) ==
  /\ decisions < MaxDecisions
  /\ p \in catalogue /\ ~ExportExcluded(p) /\ source[p]
  /\ d = "approve" => ImageVerified(p)
  /\ review' = [review EXCEPT ![p] = d]
  /\ decisions' = decisions + 1
  /\ UNCHANGED <<files, policy, questions, versions, work, colab, faults>>

(* decide_question; "accept" is an approval or a correction.               *)
DecideQuestion(q, d) ==
  /\ decisions < MaxDecisions
  /\ QuestionStatus(q) \notin {"superseded", "blocked"}
  /\ questions' = (questions \ {q}) \cup {[q EXCEPT !.decision = d]}
  /\ decisions' = decisions + 1
  /\ UNCHANGED <<files, policy, review, versions, work, colab, faults>>

-----------------------------------------------------------------------------
(* Export of permitted images to Colab.                                    *)

(* vlm_eligible_pages: approved pages and pages routed to the model.       *)
Eligible ==
  {[page |-> p, policy |-> IF Status(p) = "approve" THEN NoPolicy ELSE routing.policy]
     : p \in {p \in catalogue : Status(p) \in {"approve", "auto_vlm"}}}

(* The first max_images jobs, in the order of the catalogue.               *)
Chunk(jobs) ==
  {j \in jobs : Cardinality({k \in jobs : k.page < j.page}) < MaxImages}

JobPermitted(j) == VlmPermission(j.page, j.policy)

(* An automatic page is rendered by the exporter itself.                   *)
AwaitsRender(j) ==
  \/ j.page \in rendering
  \/ Status(j.page) = "auto_vlm" /\ asset[j.page] = "none" /\ j.policy = routing.policy

(* Mutant: pages that were packed before are not selected again. *)
SelectUnpacked ==
  LET new == {j \in Eligible : \A b \in archives : j \notin b}
  IN  /\ exporter.pc = "idle" /\ new # {}
      /\ exporter' = [pc |-> "prepare", todo |-> new]
      /\ UNCHANGED <<files, policy, store, archives, registry, colab, bounds>>

(* export_approved takes everything that is eligible now.                  *)
ExportSelect ==
  /\ exporter.pc = "idle" /\ Eligible # {}
  /\ exporter' = [pc |-> "prepare", todo |-> Eligible]
  /\ UNCHANGED <<files, policy, store, archives, registry, colab, bounds>>

(* Every job has its image and its permission.                             *)
ExportPrepare ==
  /\ exporter.pc = "prepare" /\ \A j \in exporter.todo : JobPermitted(j)
  /\ exporter' = [exporter EXCEPT !.pc = "publish"]
  /\ UNCHANGED <<files, policy, store, archives, registry, colab, bounds>>

(* Mutant: the permission is not looked at again before publication. *)
ArchiveUnchecked ==
  /\ exporter.pc = "publish"
  /\ archives' = archives \cup {Chunk(exporter.todo)}
  /\ exporter' = [exporter EXCEPT !.pc = "register"]
  /\ UNCHANGED <<files, policy, store, registry, colab, bounds>>

(* The ZIP of the next batch, its permissions checked before the link.     *)
ExportArchive ==
  /\ exporter.pc = "publish" /\ \A j \in Chunk(exporter.todo) : JobPermitted(j)
  /\ archives' = archives \cup {Chunk(exporter.todo)}
  /\ exporter' = [exporter EXCEPT !.pc = "register"]
  /\ UNCHANGED <<files, policy, store, registry, colab, bounds>>

(* The manifest results are matched against; then the next batch.          *)
ExportRegister ==
  LET chunk == Chunk(exporter.todo)
      left == exporter.todo \ chunk
  IN  /\ exporter.pc = "register"
      /\ registry' = registry \cup {chunk}
      /\ exporter' = [pc |-> IF left = {} THEN "idle" ELSE "publish", todo |-> left]
      /\ UNCHANGED <<files, policy, store, archives, colab, bounds>>

(* Mutant: a refused export keeps its selection. *)
RefusedKeepsSelection ==
  /\ \/ exporter.pc = "prepare" /\ \E j \in exporter.todo : ~JobPermitted(j) /\ ~AwaitsRender(j)
     \/ exporter.pc = "publish" /\ \E j \in Chunk(exporter.todo) : ~JobPermitted(j)
  /\ exporter' = [exporter EXCEPT !.pc = "idle"]
  /\ UNCHANGED <<files, policy, store, archives, registry, colab, bounds>>

(* A permission that is gone ends the export; batches published stay.      *)
ExportRefused ==
  /\ \/ exporter.pc = "prepare" /\ \E j \in exporter.todo : ~JobPermitted(j) /\ ~AwaitsRender(j)
     \/ exporter.pc = "publish" /\ \E j \in Chunk(exporter.todo) : ~JobPermitted(j)
  /\ exporter' = [pc |-> "idle", todo |-> {}]
  /\ UNCHANGED <<files, policy, store, archives, registry, colab, bounds>>

-----------------------------------------------------------------------------
(* The Colab runtime works on any published batch.                         *)

(* Pages the model is asked for: those without a cached output.            *)
Fresh(pages, retry) ==
  {p \in pages : cache[p] = "none" \/ (cache[p] = "error" /\ retry)}

(* run_batch: the jobs in order, ok the fresh pages with a valid answer;   *)
(* a timeout or a dead worker stops after the page that failed.            *)
RunBatch(batch, retry, done, ok) ==
  LET pages == {j.page : j \in batch}
      outputs == [p \in done |-> IF p \in ok THEN takes[p] + 1
                                 ELSE IF cache[p] = "ok" THEN takes[p] ELSE 0]
  IN  /\ \A p \in done, q \in pages \ done : p < q
      /\ ok \subseteq {p \in Fresh(done, retry) : takes[p] < MaxTakes}
      /\ done # pages => Max(done) \in Fresh(done, retry) \ ok
      /\ takes' = [p \in Pages |-> IF p \in ok THEN takes[p] + 1 ELSE takes[p]]
      /\ cache' = [p \in Pages |-> IF p \in ok THEN "ok"
                                   ELSE IF p \in Fresh(done, retry) THEN "error" ELSE cache[p]]
      /\ returns' = returns \cup {[batch |-> batch, outputs |-> outputs]}
      /\ Costs(Fresh(done, retry) # ok)
      /\ UNCHANGED <<files, policy, store, work, decisions>>

-----------------------------------------------------------------------------
(* Import of machine questions.                                            *)

(* Mutant: an older result of a page may come back as its newest. *)
NeverStale(p, r) == FALSE

(* import_questions refuses to re-activate an older result of a page.      *)
StaleRevision(p, r) == r \in ToSet(versions[p]) /\ Last(versions[p]) # r

(* INSERT OR IGNORE into page_result_versions.                             *)
AddVersion(seq, r) == IF seq # <<>> /\ Last(seq) = r THEN seq ELSE Append(seq, r)

(* One transaction: the questions that are new, and the page versions.     *)
ImportQuestions(rows) ==
  /\ \A w \in rows : /\ QuestionPermission(w) /\ ~StaleRevision(w.page, w.result)
                     /\ \A q \in questions :
                          q.page = w.page /\ q.result = w.result => q.policy = w.policy
  /\ questions' = questions \cup
       {w \in rows : \A q \in questions : q.page # w.page \/ q.result # w.result}
  /\ versions' = [p \in Pages |->
       IF \E w \in rows : w.page = p
       THEN AddVersion(versions[p], (CHOOSE w \in rows : w.page = p).result)
       ELSE versions[p]]

(* import_results: a ZIP of a registered batch, every page of it still     *)
(* permitted.  A ZIP that was imported before is recognised by its hash;   *)
(* its rows would add nothing either.                                      *)
ImportResults(ret) ==
  LET done == {j \in ret.batch : j.page \in DOMAIN ret.outputs}
      good == {j \in done : ret.outputs[j.page] # 0}
  IN  /\ ret.batch \in registry
      /\ \A j \in done : JobPermitted(j)
      /\ good # {}
      /\ ImportQuestions({[page |-> j.page, result |-> VlmResult(ret.outputs[j.page]),
                           policy |-> j.policy, decision |-> "none"] : j \in good})
      /\ UNCHANGED <<files, policy, review, work, colab, bounds>>

(* import_auto_text_questions for one page of the current policy.          *)
ImportText(p) ==
  LET row == [page |-> p, result |-> TextResult(routing.policy),
              policy |-> routing.policy, decision |-> "none"]
  IN  /\ p \in catalogue /\ TextPermission(p, routing.policy)
      /\ ImportQuestions({row})
      /\ UNCHANGED <<files, policy, review, work, colab, bounds>>

-----------------------------------------------------------------------------
(* Faults of the files and processes.                                      *)

(* The review server dies: its export, its renders, an install under way.  *)
Crash ==
  /\ Fault
  /\ exporter' = [pc |-> "idle", todo |-> {}]
  /\ rendering' = {}
  /\ exclusion' = [exclusion EXCEPT !.installing = FALSE, !.next = NoSnapshot]
  /\ UNCHANGED <<catalogue, source, asset, ocr, routing, owner, store,
                 archives, registry, colab, decisions>>

SourceChanges(p) ==
  /\ Fault
  /\ source' = [source EXCEPT ![p] = ~@]
  /\ UNCHANGED <<catalogue, asset, rendering, ocr, policy, store, work, colab, decisions>>

(* An image is deleted with its proof, or overwritten.                     *)
AssetChanges(p) ==
  /\ Fault
  /\ \E a \in {"none", "changed"} \ {asset[p]} : asset' = [asset EXCEPT ![p] = a]
  /\ UNCHANGED <<catalogue, source, rendering, ocr, policy, store, work, colab, decisions>>

(* The workspace is prepared again: pages leave the catalogue or join it.  *)
CatalogueChanges ==
  /\ Fault
  /\ \E c \in Catalogues \ {catalogue} :
       (c \subseteq catalogue \/ catalogue \subseteq c) /\ catalogue' = c
  /\ UNCHANGED <<source, asset, rendering, ocr, policy, store, work, colab, decisions>>

RoutingDamaged ==
  /\ Fault /\ routing' = [routing EXCEPT !.intact = FALSE]
  /\ UNCHANGED <<files, exclusion, owner, store, work, colab, decisions>>

PointerLost ==
  /\ Fault /\ exclusion.pointer
  /\ exclusion' = [exclusion EXCEPT !.pointer = FALSE]
  /\ UNCHANGED <<files, routing, owner, store, work, colab, decisions>>

(* The result folder on Drive is emptied.                                  *)
CacheLost ==
  /\ Fault /\ cache' = [p \in Pages |-> "none"]
  /\ UNCHANGED <<files, policy, store, work, takes, returns, decisions>>

-----------------------------------------------------------------------------
Export == ExportSelect \/ ExportPrepare \/ ExportArchive \/ ExportRegister \/ ExportRefused

Next ==
  \/ \E p \in Pages : RenderImage(p) \/ RenderProof(p) \/ ImportText(p)
  \/ \E failed \in SUBSET catalogue : OcrRun(failed)
  \/ ActivateRouting
  \/ \E S \in SUBSET catalogue : WriteExclusion(S)
  \/ PointExclusion
  \/ \E p \in Pages, d \in {"approve", "reject"} : DecidePage(p, d)
  \/ \E q \in questions, d \in {"accept", "refuse"} : DecideQuestion(q, d)
  \/ Export
  \/ \E b \in archives : \E retry \in BOOLEAN, done \in SUBSET {j.page : j \in b} \ {{}} :
       \E ok \in SUBSET done : RunBatch(b, retry, done, ok)
  \/ \E ret \in returns : ImportResults(ret)
  \/ Crash
  \/ \E p \in Pages : SourceChanges(p) \/ AssetChanges(p)
  \/ CatalogueChanges \/ RoutingDamaged \/ PointerLost \/ CacheLost

(* The export button is pressed again and again, and a job that started    *)
(* runs on; the same holds for a render.                                   *)
Spec ==
  /\ Init /\ [][Next]_vars
  /\ WF_vars(Export)
  /\ \A p \in Pages : WF_vars(RenderImage(p)) /\ WF_vars(RenderProof(p))

-----------------------------------------------------------------------------
(* Properties.                                                             *)

(* Type invariant of the review store, its files and the Colab side.       *)
TypeOK ==
  /\ catalogue \subseteq Pages /\ rendering \subseteq Pages /\ owner \subseteq Pages
  /\ source \in [Pages -> BOOLEAN]
  /\ asset \in [Pages -> {"none", "png", "whole", "changed"}]
  /\ ocr \in [Pages -> {"none", "error", "ok"}]
  /\ routing \in Routing
  /\ exclusion \in Exclusion
  /\ review \in [Pages -> {"none", "approve", "reject"}]
  /\ questions \subseteq Questions
  /\ \A p \in Pages : ToSet(versions[p]) \subseteq Results
  /\ exporter.pc \in {"idle", "prepare", "publish", "register"}
  /\ (exporter.pc = "idle") <=> (exporter.todo = {})
  /\ \A b \in archives \cup registry \cup {exporter.todo} : b \subseteq Jobs
  /\ cache \in [Pages -> {"none", "error", "ok"}] /\ takes \in [Pages -> 0..MaxTakes]
  /\ \A r \in returns : r.batch \in archives /\ DOMAIN r.outputs \subseteq {j.page : j \in r.batch}

(* The owner's last instruction binds everything released for training,    *)
(* also after its pointer file was lost, the catalogue changed, or a new   *)
(* instruction was only half installed.                                    *)
OwnerIsObeyed == \A q \in Exportable : q.page \notin owner

(* A page a person rejected or deferred contributes nothing, whatever the  *)
(* machine routing says of it before or afterwards.                        *)
HumanVetoHolds == \A q \in Exportable : review[q.page] # "reject"

(* What is released still has the source it was read from, and a question  *)
(* of the vision model the image it was read from.                         *)
ReleasedHasItsSource ==
  \A q \in Exportable :
    /\ q.page \in catalogue /\ source[q.page]
    /\ q.result.origin = "vlm" => asset[q.page] \in {"png", "whole"}

(* The questions released for a page come from one reading of it: text and *)
(* model output, or two model outputs, never mix.                          *)
OneReadingPerPage ==
  \A q, r \in Exportable : q.page = r.page => q.result = r.result

(* Whatever is exportable has the owner's permission, no veto of a person, *)
(* its source, and one reading of its page.                                *)
ReleaseIsPermitted ==
  /\ TypeOK
  /\ OwnerIsObeyed
  /\ HumanVetoHolds
  /\ ReleasedHasItsSource
  /\ OneReadingPerPage

(* Nothing the machine does releases a question: it takes a decision of a  *)
(* person, or a change of the files and policies a decision depends on.    *)
(* Exports, Colab runs and imports, repeated or late, never do.            *)
MachineNeverReleases ==
  [][UNCHANGED <<files, policy, decisions>> => Exportable' \subseteq Exportable]_vars

(* A batch leaves the machine only while every image of it is permitted:   *)
(* not excluded by the owner, not rejected, source and image unchanged,    *)
(* although the selection was made earlier.                                *)
PublishedIsPermitted ==
  [][\A b \in archives' \ archives : \A j \in b :
       /\ j.page \notin owner /\ review[j.page] # "reject"
       /\ source[j.page] /\ asset[j.page] \in {"png", "whole"}]_vars

(* No step of the machine releases a question, and none publishes a batch  *)
(* that is not permitted any more.                                         *)
StepsArePermitted == MachineNeverReleases /\ PublishedIsPermitted

(* The batches an export would make now.                                   *)
CurrentBatches ==
  LET Rank(j) == Cardinality({k \in Eligible : k.page < j.page}) \div MaxImages
  IN  {{k \in Eligible : Rank(k) = Rank(j)} : j \in Eligible}

(* A crash between the ZIP and its manifest is healed by exporting again:  *)
(* a published batch gets its manifest or stops being a current batch.     *)
PublishedGetsRegistered ==
  []<>(\A b \in archives : b \in registry \/ b \notin CurrentBatches)

=============================================================================
