----------------------------- MODULE ExamRelease -----------------------------
(***************************************************************************)
(* The exam SFT release: the commands scan_sources, extract_questions,     *)
(* build_release, prepare_sft, finalize_release and validate_release on    *)
(* one dataset directory, and build_completed_release, which freezes the   *)
(* part of it that touches no page under review.  Each command is a person *)
(* at a terminal: any order, a stop in the middle of a build, PDFs         *)
(* replaced and the auditor's decisions added between two commands.        *)
(* What extract_questions and build_release write is numbered, what comes  *)
(* of the same input with the same number: the number stands for the hash. *)
(***************************************************************************)
EXTENDS ExamData

CONSTANTS
  Dirs,        \* the directories that are tokenised, validated and packaged
  Slow,        \* documents whose extraction times out
  Shuffled,    \* whether the seed's shuffle reverses the groups
  Long,        \* prompts whose chat exceeds max_length tokens
  Excludable,  \* question ids an auditor may exclude
  Curatable,   \* prompts an explanation may be written for
  Reviewed,    \* <<document, version, page>> that may be under review
  MaxBuilds, MaxManifests   \* bounds of the instance

VARIABLES
  pdf,         \* document -> the version the file holds
  extracted,   \* [doc, ver, status]: the extraction cache
  inventory,   \* <<document, version>> of the last scan
  extractions, \* what extract_questions ever wrote: [records, queue, seen, files]
  builds,      \* what build_release ever computed: [of, from, selected] and the rows of each directory
  questions,   \* the extraction on disk, or 0
  audit,       \* [exclusions, curated]
  building,    \* the build being written: [build, next], or None
  dirs,        \* directory -> [rows, tokens]: the build its splits, and its tokens, are of, or 0
  selected,    \* the build questions_selected.jsonl is of, or 0
  manifest,    \* directory -> the files it registers, or None
  report,      \* directory -> the manifest its validation_report passed, or None
  zip,         \* the packaged release, or None
  payload,     \* the completed release: [rows, originals, excluded, from, stage], or None
  done         \* builds and manifests so far

vars == <<pdf, extracted, inventory, extractions, builds, questions, audit, building, dirs, selected, manifest, report, zip, payload, done>>

Empty == [rows |-> 0, tokens |-> 0]
written == <<extractions, builds>>
Rows(d) == IF dirs[d].rows = 0 THEN {} ELSE builds[dirs[d].rows][d]
Files == [dirs |-> dirs, selected |-> selected, questions |-> questions, audit |-> audit, inventory |-> inventory]
FilesOf(d) == IF d = "root" THEN Files ELSE dirs[d]

Init ==
  /\ pdf = [ d \in DOMAIN Text |-> 1 ]
  /\ extracted = {} /\ inventory = {} /\ extractions = <<>> /\ builds = <<>> /\ questions = 0
  /\ audit = [exclusions |-> {}, curated |-> {}]
  /\ building = None /\ dirs = [ d \in Dirs |-> Empty ] /\ selected = 0
  /\ manifest = [ d \in Dirs |-> None ] /\ report = [ d \in Dirs |-> None ]
  /\ zip = None /\ payload = None /\ done = [builds |-> 0, manifests |-> 0]

(* The file is replaced by its next version. *)
Replace(d) ==
  /\ pdf[d] < Len(Text[d]) /\ pdf' = [pdf EXCEPT ![d] = @ + 1]
  /\ UNCHANGED <<written, extracted, inventory, questions, audit, building, dirs, selected, manifest, report, zip, payload, done>>
(* The auditor's files are edited by hand. *)
Audit ==
  /\ audit' = [exclusions |-> Excludable, curated |-> Curatable] /\ audit' # audit
  /\ UNCHANGED <<written, pdf, extracted, inventory, questions, building, dirs, selected, manifest, report, zip, payload, done>>

-----------------------------------------------------------------------------
(* scan_sources: a file is extracted by a worker unless the cache has its  *)
(* content; a worker that times out leaves an entry without pages, which   *)
(* later scans find.                                                       *)
Cached(d) == \E e \in extracted : e.doc = d /\ e.ver = pdf[d]
Scan ==
  /\ building = None
  /\ extracted' = extracted \cup { [doc |-> d, ver |-> pdf[d], status |-> IF d \in Slow THEN "timeout" ELSE "extracted"] :
                                    d \in { x \in DOMAIN Text : ~Cached(x) } }
  /\ inventory' = { <<d, pdf[d]>> : d \in DOMAIN Text }
  /\ UNCHANGED <<written, pdf, questions, audit, building, dirs, selected, manifest, report, zip, payload, done>>

(* extract_questions: pages no record touches are queued for review, and a *)
(* document without pages as a whole (page 0).                             *)
Status(s) == (CHOOSE e \in extracted : e.doc = s[1] /\ e.ver = s[2]).status
RecordsOf(s) == IF Status(s) = "timeout" THEN {} ELSE Parsed(s[1], s[2], pdf[s[1]])
(* Mutant: a document without pages is passed over. *)
QueueOfPages(s) ==
  IF Status(s) = "timeout" THEN {}
  ELSE { <<s[1], s[2], p>> : p \in DOMAIN Text[s[1]][s[2]].pages \ UNION { r.pages : r \in RecordsOf(s) } }
Queue(s) ==
  IF Status(s) = "timeout" THEN { <<s[1], s[2], 0>> }
  ELSE { <<s[1], s[2], p>> : p \in DOMAIN Text[s[1]][s[2]].pages \ UNION { r.pages : r \in RecordsOf(s) } }
Extract ==
  /\ building = None /\ inventory # {}
  /\ \/ \E n \in DOMAIN extractions :
          /\ extractions[n].seen = inventory /\ extractions[n].files = pdf
          /\ questions' = n /\ UNCHANGED extractions
     \/ /\ \A e \in ToSet(extractions) : <<e.seen, e.files>> # <<inventory, pdf>>
        /\ extractions' = Append(extractions, [records |-> UNION { RecordsOf(s) : s \in inventory }, files |-> pdf,
                                               queue |-> UNION { Queue(s) : s \in inventory }, seen |-> inventory])
        /\ questions' = Len(extractions')
  /\ UNCHANGED <<builds, pdf, extracted, inventory, audit, building, dirs, selected, manifest, report, zip, payload, done>>

-----------------------------------------------------------------------------
(* build_release: document_holdout, questions_selected, the main splits    *)
(* and rationale_core are written in this order.                           *)
build_release ==
  LET valid == Valid({ r \in extractions[questions].records : r.reasons = {} }, audit.exclusions)
      main == ByFamily(valid, Shuffled, audit.curated)
  IN  [of |-> <<questions, audit>>, from |-> valid, selected |-> Unique(valid),
       document_holdout |-> ByDocument(valid, Shuffled, audit.curated),
       root |-> main, rationale_core |-> { r \in main : r.chat[3] }]
Build ==
  /\ building = None /\ questions # 0 /\ done.builds < MaxBuilds
  /\ \/ \E n \in DOMAIN builds : /\ builds[n].of = <<questions, audit>> /\ UNCHANGED builds
                                /\ building' = [next |-> "document_holdout", build |-> n]
     \/ /\ \A b \in ToSet(builds) : b.of # <<questions, audit>>
        /\ builds' = Append(builds, build_release) /\ EnoughComponents(Last(builds').from)
        /\ {"test", "validation"} \subseteq { r.split : r \in Last(builds').document_holdout }
        /\ building' = [next |-> "document_holdout", build |-> Len(builds')]
  /\ done' = [done EXCEPT !.builds = @ + 1]
  /\ UNCHANGED <<extractions, pdf, extracted, inventory, questions, audit, dirs, selected, manifest, report, zip, payload>>
export_splits ==
  /\ building # None
  /\ \/ building.next = "selected" /\ selected' = building.build /\ UNCHANGED dirs
     \/ building.next \in Dirs /\ UNCHANGED selected /\ dirs' = [dirs EXCEPT ![building.next].rows = building.build]
  /\ building' = CASE building.next = "document_holdout" -> [building EXCEPT !.next = "selected"]
                   [] building.next = "selected" -> [building EXCEPT !.next = "root"]
                   [] building.next = "root" /\ "rationale_core" \in Dirs -> [building EXCEPT !.next = "rationale_core"]
                   [] OTHER -> None
  /\ UNCHANGED <<written, pdf, extracted, inventory, questions, audit, manifest, report, zip, payload, done>>
Stop ==
  /\ building # None /\ building' = None
  /\ UNCHANGED <<written, pdf, extracted, inventory, questions, audit, dirs, selected, manifest, report, zip, payload, done>>

-----------------------------------------------------------------------------
(* prepare_sft: what of a directory is tokenised, and what is too long.    *)
encode_example(r) == <<r.q.id, r.chat>>
Over(rows) == { r.q.id : r \in { x \in rows : x.q.prompt \in Long } }
Encoded(rows) == { encode_example(r) : r \in { x \in rows : x.q.prompt \notin Long } }
(* The same group, or (unless documents may be shared) the same document,  *)
(* never in two splits, and no content twice.                              *)
Apart(rows, shared) ==
  \A a, b \in rows : /\ a.group = b.group => a.split = b.split
                     /\ canonical(a.q) = canonical(b.q) => a = b
                     /\ (~shared /\ \E x \in a.origins, y \in b.origins : x.doc = y.doc) => a.split = b.split
prepare(d) ==
  /\ building = None /\ Rows(d) # {} /\ Apart(Rows(d), d # "document_holdout")
  /\ dirs' = [dirs EXCEPT ![d].tokens = dirs[d].rows]
  /\ UNCHANGED <<written, pdf, extracted, inventory, questions, audit, building, selected, manifest, report, zip, payload, done>>

(* finalize_release manifest: every scanned file unchanged, then all files *)
(* registered, each preset's own and the root's.                           *)
SourcesUnchanged == inventory # {} /\ \A s \in inventory : pdf[s[1]] = s[2]
Manifest ==
  /\ building = None /\ dirs["root"].rows # 0 /\ SourcesUnchanged /\ done.manifests < MaxManifests
  /\ manifest' = [ d \in Dirs |-> FilesOf(d) ] /\ done' = [done EXCEPT !.manifests = @ + 1]
  /\ UNCHANGED <<written, pdf, extracted, inventory, questions, audit, building, dirs, selected, report, zip, payload>>

(* validate_release, with the tokenizer and --verify-sources: files as     *)
(* registered, groups apart, tokens what the chats encode to, and every    *)
(* original the file it was.                                               *)
Tokens(d) == Encoded(builds[dirs[d].tokens][d])
Sound(d) ==
  /\ manifest[d] = FilesOf(d) /\ dirs[d].tokens # 0
  /\ Apart(Rows(d), d # "document_holdout")
  /\ Tokens(d) = Encoded(Rows(d)) /\ Over(builds[dirs[d].tokens][d]) = Over(Rows(d))
  /\ \E t \in Tokens(d) : \E r \in Rows(d) : r.q.id = t[1] /\ r.split = "train"
  /\ \A r \in Rows(d) : \A o \in r.origins : pdf[o.doc] = o.ver
validate_release(d) ==
  /\ building = None /\ manifest[d] # None
  /\ report' = [report EXCEPT ![d] = IF Sound(d) THEN manifest[d] ELSE None]
  /\ UNCHANGED <<written, pdf, extracted, inventory, questions, audit, building, dirs, selected, manifest, zip, payload, done>>

(* finalize_release package: all three validated as they are registered,   *)
(* and the registered files unchanged.                                     *)
(* Mutant: a passed report is enough, of whatever manifest. *)
PassedOnce(d) == report[d] # None
Passed(d) == report[d] # None /\ report[d] = manifest[d]
Package ==
  /\ building = None /\ manifest["root"] = Files
  /\ \A d \in Dirs : Passed(d)
  /\ zip' = Files
  /\ UNCHANGED <<written, pdf, extracted, inventory, questions, audit, building, dirs, selected, manifest, report, payload, done>>

-----------------------------------------------------------------------------
(* build_completed_release. *)
PagesOf(origins) == UNION { { <<o.doc, o.ver, p>> : p \in o.pages } : o \in origins }
verify_frozen_source ==
  LET m == manifest["root"]
  IN  m # None /\ m.dirs["root"] = dirs["root"] /\ m.selected = selected /\ dirs["root"].tokens # 0
(* select_records: a question touching a page under review is left out,    *)
(* whichever of its originals does.                                        *)
select_records(catalogue) == { r \in Rows("root") : PagesOf(r.origins) \cap catalogue = {} }
Original(r) == { u \in builds[selected].selected : u.q.id = r.q.id }
build_data ==
  /\ building = None /\ verify_frozen_source
  /\ Over(Rows("root")) = {} /\ Tokens("root") = Encoded(Rows("root"))
  /\ \A r \in Rows("root") : \E u \in Original(r) : PagesOf(u.origins) = PagesOf(r.origins)
  /\ \E catalogue \in SUBSET Reviewed :
       LET rows == select_records(catalogue)
       IN  /\ Apart(rows, TRUE) /\ \A r \in rows : \A o \in r.origins : pdf[o.doc] = o.ver
           /\ payload' = [rows |-> rows, originals |-> UNION { Original(r) : r \in rows },
                          excluded |-> catalogue, from |-> builds[dirs["root"].rows].from, stage |-> "built"]
  /\ UNCHANGED <<written, pdf, extracted, inventory, questions, audit, building, dirs, selected, manifest, report, zip, done>>
freeze_bundle ==
  /\ payload.stage = "built" /\ payload' = [payload EXCEPT !.stage = "frozen"]
  /\ UNCHANGED <<written, pdf, extracted, inventory, questions, audit, building, dirs, selected, manifest, report, zip, done>>

(* verify_dataset: what Colab accepts to train on.                         *)
verify_dataset(p) ==
  /\ Apart(p.rows, TRUE) /\ Cardinality(p.originals) = Cardinality(p.rows)
  /\ \A r \in p.rows : /\ PagesOf(r.origins) \cap p.excluded = {}
                       /\ \E u \in p.originals : u.q.id = r.q.id /\ PagesOf(u.origins) = PagesOf(r.origins)
  /\ \E r \in p.rows : r.split = "train"
Preflight ==
  /\ payload.stage = "frozen" /\ verify_dataset(payload) /\ payload' = [payload EXCEPT !.stage = "accepted"]
  /\ UNCHANGED <<written, pdf, extracted, inventory, questions, audit, building, dirs, selected, manifest, report, zip, done>>

(* A package and a completed release are copies that no later command      *)
(* reads, so a behaviour that goes on after one has nothing to add to it.  *)
Next ==
  \/ /\ zip = None /\ payload = None
     /\ \/ (\E d \in DOMAIN Text : Replace(d)) \/ Audit
        \/ Scan \/ Extract \/ Build \/ export_splits \/ Stop
        \/ (\E d \in Dirs : prepare(d) \/ validate_release(d)) \/ Manifest \/ Package \/ build_data
  \/ payload # None /\ (freeze_bundle \/ Preflight)

Spec == Init /\ [][Next]_vars

-----------------------------------------------------------------------------
(* extract_questions main: every page of every scanned document is in a    *)
(* question record or in the review queue, a document that could not be    *)
(* read as a whole.                                                        *)
EveryPageAccounted ==
  [][extractions' # extractions =>
       LET e == Last(extractions')
       IN  \A s \in e.seen : \A p \in DOMAIN Text[s[1]][s[2]].pages :
             \/ \E r \in e.records : r.doc = s[1] /\ r.ver = s[2] /\ p \in r.pages
             \/ <<s[1], s[2], p>> \in e.queue \/ <<s[1], s[2], 0>> \in e.queue]_vars

(* finalize_release package, validate_release: whatever was replaced,      *)
(* rebuilt or interrupted on the way, the packaged keys are those the      *)
(* source gives under its own circles, no question whose sources disagree  *)
(* is in it, what is tokenised is what the chats say, and no document is   *)
(* in two splits of the document holdout.                                  *)
PackagedIsSound ==
  zip # None => \A d \in Dirs :
    LET rows == builds[zip.dirs[d].rows][d]
        from == builds[zip.dirs[d].rows].from
        tokens == Encoded(builds[zip.dirs[d].tokens][d])
    IN  /\ \A r \in rows : \E q \in Parsed(r.q.doc, r.q.ver, r.q.ver) : q.id = r.q.id /\ Correct(q) = Correct(r.q)
        /\ \A r \in rows : \A q \in from : q.prompt = r.q.prompt /\ Texts(q) = Texts(r.q) => Correct(q) = Correct(r.q)
        /\ { t[2] : t \in tokens } = { r.chat : r \in { x \in rows : x.q.prompt \notin Long } }
        /\ d = "document_holdout" => \A a, b \in rows : (\E x \in a.origins, y \in b.origins : x.doc = y.doc) => a.split = b.split

(* assign_question_families, prepare_records: no two splits share a        *)
(* question up to its numbers, nor the document holdout a document that    *)
(* any copy of its questions came from, in whatever a build may write.     *)
SplitsApart ==
  [][builds' # builds =>
       LET b == Last(builds')
       IN  /\ \A u, v \in b.root :
                (Len(u.q.prompt) = Len(v.q.prompt) /\ \A i \in DOMAIN u.q.prompt : Template[u.q.prompt[i]] = Template[v.q.prompt[i]])
                  => u.split = v.split
           /\ \A u, v \in b.document_holdout :
                (\E x, y \in b.from :
                   x.doc = y.doc /\ x.prompt = u.q.prompt /\ Texts(x) = Texts(u.q) /\ y.prompt = v.q.prompt /\ Texts(y) = Texts(v.q))
                  => u.split = v.split]_vars

(* No page of a source is lost and no question shared by two splits.       *)
NothingLostOrShared == EveryPageAccounted /\ SplitsApart

(* build_completed_release: no question trained on stands on a page that   *)
(* was under review, in any of the documents that hold a copy of it.       *)
CompletedIsFinished ==
  (payload # None /\ payload.stage = "accepted") => \A r \in payload.rows : \A q \in payload.from :
    q.prompt = r.q.prompt /\ Texts(q) = Texts(r.q) => { <<q.doc, q.ver, p>> : p \in q.pages } \cap payload.excluded = {}

(* Neither the package nor the completed release says what the sources do  *)
(* not, and the latter uses no page that is under review.                  *)
ReleasedIsSound == PackagedIsSound /\ CompletedIsFinished
=============================================================================
