--------------------------- MODULE RegionPipeline ---------------------------
(***************************************************************************)
(* The preprocessing of one document of the corpus                         *)
(* (AI/Qwen_cpt_version/region_preprocessing_v5_0_1): an operator prepares *)
(* the run, packs page ranges for Colab, merges what comes back (first the *)
(* layout of every page, then the inference), people review what the       *)
(* vision model says in a local web application or in Label Studio, and    *)
(* the approved texts are exported for training.                           *)
(*                                                                         *)
(* A record is the line of records.jsonl of one region.  Its revision is a *)
(* hash of everything in it, so a revision is the record itself, and so is *)
(* the identity a decision is bound to.  A text is a model value: "broken" *)
(* has unreadable characters or formula structure, "" is no text at all.   *)
(***************************************************************************)
EXTENDS Naturals, Sequences, FiniteSets, FiniteSetsExt, SequencesExt

CONSTANTS
  NPages, PagesPerPacket,
  Order,         \* the regions of the document, pages first, as records list them
  Region,        \* Region[i]: page, box, kind, origin, native text, pixels, hints
  Reads,         \* Reads[e][i]: what engine e may read in region i, "" for a failure
  StructureFinds, DoclingFinds,   \* sets of regions these may find on page p
  DoclingFails,  \* shards on which Docling may fail
  Split,         \* split_policy of the course in the plan
  TargetPages, CapPages,          \* VLM page budget of the document
  ActionMemory,  \* completed_actions kept by the review server
  Parsers,       \* parsers whose files are imported by hand
  MaxPackets,    \* bound: packets built for one phase of one shard
  MaxDiscoveries, MaxInferences,  \* bounds: result archives of one packet
  Decisions,     \* bound: decisions people make
  Watched,       \* bound: regions people decide on and whose images may change
  MaxGestures,   \* bound: number of decisions
  MaxEvents      \* bound: decisions, imports by hand, archives merged again, crashes,
                 \* restarts, changed images

Ids == Range(Order)
Pages == 1..NPages
Visual == {"image", "diagram", "chart"}
Kinds == Visual \cup {"text", "code", "formula", "table"}
PageOf(i) == Region[i].page
Full(i) == Region[i].origin = "page"

ASSUME RegionAssumption ==
  /\ NPages \in Nat \ {0} /\ PagesPerPacket \in Nat \ {0}
  /\ Order \in Seq(Ids) /\ Split \in {"train", "development", "holdout"}
  /\ \A i \in Ids : /\ PageOf(i) \in Pages /\ Region[i].kind \in Kinds
                    /\ Region[i].origin \in {"page", "raster", "layout"}
                    /\ Full(i) = (Region[i].kind \in {"text", "code"})
                    /\ (Region[i].origin = "raster") => (Region[i].kind = "diagram")
  /\ \A p \in Pages :
       /\ \E i \in Ids : PageOf(i) = p /\ Full(i)
       /\ StructureFinds[p] \cup DoclingFinds[p] \subseteq SUBSET {i \in Ids : PageOf(i) = p}
  /\ TargetPages \in 1..CapPages /\ CapPages \in 1..NPages
  /\ Parsers \subseteq {"docling", "mineru", "paddle_ocr"}
  /\ Decisions \subseteq {"approve", "correct", "reject", "defer"}
  /\ MaxGestures \in Nat /\ ActionMemory \in Nat /\ ActionMemory >= MaxGestures

VARIABLES
  run,       \* the run directory: absent, rendering, prepared, assigned
  records,   \* records.jsonl
  snapshots, \* machine_snapshots: what was published under each receipt
  manifest,  \* manifest.json: layout inventory and pages parsed
  operator,  \* what the command in progress still has to write
  packets,   \* packets published for Colab
  results,   \* result archives
  cache,     \* Drive: successful observation of a region, "" for none
  reviews,   \* human_reviews.sqlite3, oldest first
  server,    \* review server: token and completed actions
  sent,      \* decisions people made, in a browser tab or in Label Studio
  cpt,       \* samples of the last export
  damaged,   \* regions whose images changed on disk
  merged,    \* archives merged so far; merging one again is an event
  gestures, events

work == <<run, records, snapshots, manifest, operator>>
colab == <<packets, results, cache>>
review == <<reviews, server, sent>>
bounds == <<merged, gestures, events>>
vars == <<work, colab, review, cpt, damaged, bounds>>

-----------------------------------------------------------------------------
(* Records and candidates.                                                 *)

Paddle == {"paddle_ocr", "paddle_structure", "paddle_formula", "paddle_table"}
Engines == Paddle \cup {"native", "docling", "mineru", "vlm"}
Texts == (UNION {Reads["ocr"][i] \cup Reads["special"][i] \cup Reads["mineru"][i]
                   \cup Reads["vlm"][i] \cup {Region[i].native} : i \in Ids})
           \cup {"", "typed"}

(* A candidate keeps where its engine read it (at) and how it reached the  *)
(* record (via): both are part of its evidence.                            *)
Candidates == [engine : Engines, text : Texts, at : Ids,
               via : {"prepare", "discovery", "inference", "parser", "layout"}]
Candidate(e, text, at, via) == [engine |-> e, text |-> text, at |-> at, via |-> via]

Records == [kind : Kinds, cands : Seq(Candidates), pending : SUBSET Engines,
            split : {"train", "development", "holdout"}, risk : {"low", "high"},
            routing : {"none", "scheduled", "score_review", "exact_duplicate", "decoration_rule"}]

(* No backend is declared for MinerU files, so their role stays unknown. *)
Role == [native |-> "native_pdf", docling |-> "native_pdf", mineru |-> "unknown_parser",
         paddle_ocr |-> "ocr", paddle_structure |-> "ocr",
         paddle_formula |-> "math_recognition", paddle_table |-> "table_recognition",
         vlm |-> "vlm"]
Family == [e \in Engines |-> IF e \in Paddle THEN "paddle"
                             ELSE IF e \in {"native", "docling"} THEN "native_pdf" ELSE e]

Preference(kind) ==
  CASE kind \in Visual -> <<"vlm", "pptx", "native_pdf", "ocr">>
    [] kind = "formula" -> <<"math_recognition", "pptx", "native_pdf", "ocr", "vlm">>
    [] kind = "table" -> <<"table_recognition", "pptx", "native_pdf", "ocr", "vlm">>
    [] OTHER -> <<"pptx", "native_pdf", "ocr", "vlm">>
Priority(c, kind) ==
  LET order == Preference(kind)
      at == {n \in DOMAIN order : order[n] = Role[c.engine]}
  IN  IF at = {} THEN Len(order) + 1 ELSE Min(at)

-----------------------------------------------------------------------------
(* Cross validation of one record.                                         *)

(* An error and an empty reading are alike: text "" is never used. *)
Usable(r) == {n \in DOMAIN r.cands : r.cands[n].text \notin {"", "broken"}}

Selected(r) ==
  CHOOSE n \in Usable(r) : \A m \in Usable(r) :
    LET a == Priority(r.cands[n], r.kind)
        b == Priority(r.cands[m], r.kind)
    IN  a < b \/ (a = b /\ n <= m)

Proposed(r) == IF Usable(r) = {} THEN "" ELSE r.cands[Selected(r)].text

Others(r) == {n \in Usable(r) \ {Selected(r)} : Role[r.cands[n].engine] # "vlm"}

(* An independent OCR reads exactly what the native text says. *)
Confirmed(r) ==
  \E n \in Others(r) :
    LET pair == {r.cands[n].engine, r.cands[Selected(r)].engine}
        roles == {Role[e] : e \in pair}
    IN  /\ Cardinality({Family[e] : e \in pair}) = 2
        /\ {"ocr", "native_pdf"} \subseteq roles
        /\ r.cands[n].text = Proposed(r)

(* Mutant: only a reading of the selected lineage can disagree. *)
DisputedAtHome(r) ==
  \E n \in Others(r) :
    /\ Family[r.cands[n].engine] = Family[r.cands[Selected(r)].engine]
    /\ r.cands[n].text # Proposed(r)

Disputed(r) == \E n \in Others(r) : r.cands[n].text # Proposed(r)

HighRisk(i, r) ==
  \/ r.risk = "high"
  \/ r.kind \in {"formula", "table", "diagram", "chart", "code"}
  \/ Region[i].math

BrokenFormula(r) ==
  /\ r.kind = "formula"
  /\ \E n \in DOMAIN r.cands : r.cands[n].engine = "paddle_formula" /\ r.cands[n].text = "broken"

Bucket(i, r) ==
  CASE BrokenFormula(r) -> "critical"
    [] ~BrokenFormula(r) /\ Usable(r) = {} ->
         IF r.pending # {} THEN "uncertain" ELSE "critical"
    [] OTHER ->
         IF /\ r.kind \in {"text", "code"} /\ Confirmed(r) /\ ~Disputed(r)
            /\ ~HighRisk(i, r) /\ Usable(r) = DOMAIN r.cands
            /\ r.pending = {} /\ ~Region[i].blurred
         THEN "trusted" ELSE "uncertain"

CrossValidate(i, r) == [r EXCEPT !.risk = IF HighRisk(i, r) THEN "high" ELSE "low"]

Publish(recs) == [i \in DOMAIN recs |-> CrossValidate(i, recs[i])]

(* publish: every record is validated again and the file is replaced; but  *)
(* a receipt under which something else was published is a conflict, and   *)
(* the command fails.  Of a receipt only what can tell two apart is kept:  *)
(* the file merged, how many candidates it added, and the routing.  One    *)
(* that added candidates cannot recur, as they are there afterwards.       *)
Unrouted == <<{}, {}, 0>>
Receipt(type, of, added, routed) ==
  [type |-> type, of |-> of, added |-> added, routed |-> routed]
Conflict(receipt, recs) ==
  \E s \in snapshots : s.receipt = receipt /\ s.rows # Publish(recs)
Replace(receipt, recs) ==
  /\ ~Conflict(receipt, recs)
  /\ records' = Publish(recs)
  /\ snapshots' = snapshots \cup
       {[receipt |-> r, rows |-> Publish(recs)] : r \in {q \in {receipt} : q.added = 0}}

Added(recs) ==
  MapThenSumSet(LAMBDA i : Len(recs[i].cands) - Len(records[i].cands), DOMAIN records)

-----------------------------------------------------------------------------
(* Preparation of the run.                                                 *)

NativeCands(i) ==
  IF Full(i) \/ Region[i].native # ""
  THEN <<Candidate("native", Region[i].native, i, "prepare")>> ELSE <<>>

(* Mutant: a raster keeps no role until a parser gives it one. *)
NativeRecordUnclassified(i) ==
  [kind |-> IF Full(i) THEN Region[i].kind ELSE "image", cands |-> NativeCands(i),
   pending |-> IF Full(i) THEN {"paddle_ocr"} ELSE {"vlm"},
   split |-> "train", risk |-> "low", routing |-> "none"]

NativeRecord(i) ==
  [kind |-> Region[i].kind, cands |-> NativeCands(i),
   pending |-> IF Full(i) THEN {"paddle_ocr"} ELSE {"vlm"},
   split |-> "train", risk |-> "low", routing |-> "none"]

Idle == [step |-> "idle", archive |-> {}, parsed |-> {}]
Event == events < MaxEvents /\ events' = events + 1
Ready == run \in {"prepared", "assigned"} /\ operator = Idle

Init ==
  /\ run = "absent" /\ records = <<>> /\ snapshots = {}
  /\ manifest = [layout |-> "requires_layout_enrichment", parsed |-> {}]
  /\ operator = Idle
  /\ packets = {} /\ results = {} /\ cache = [i \in Ids |-> ""]
  /\ reviews = <<>> /\ server = [token |-> 1, done |-> <<>>]
  /\ sent = {} /\ cpt = {} /\ damaged = {} /\ merged = {} /\ gestures = 0 /\ events = 0

(* prepare_documents: pages are rendered, then the run is written and its  *)
(* manifest last, then every record gets the split of the course.          *)
BeginPrepare ==
  /\ run = "absent" /\ operator = Idle
  /\ run' = "rendering" /\ operator' = [Idle EXCEPT !.step = "render"]
  /\ UNCHANGED <<records, snapshots, manifest, colab, review, cpt, damaged, bounds>>

WriteRun ==
  /\ operator.step = "render"
  /\ records' = Publish([i \in {j \in Ids : Region[j].origin # "layout"} |-> NativeRecord(i)])
  /\ run' = "prepared" /\ operator' = [Idle EXCEPT !.step = "assign"]
  /\ UNCHANGED <<snapshots, manifest, colab, review, cpt, damaged, bounds>>

AssignCourse ==
  /\ operator.step = "assign"
  /\ Replace(Receipt("course", {}, 1, Unrouted),
             [i \in DOMAIN records |-> [records[i] EXCEPT !.split = Split]])
  /\ run' = "assigned" /\ operator' = Idle
  /\ UNCHANGED <<manifest, colab, review, cpt, damaged, bounds>>

-----------------------------------------------------------------------------
(* Packets for Colab.                                                      *)

Shards == {p \in Pages : (p - 1) % PagesPerPacket = 0}
ShardPages(first) == first .. Min({NPages, first + PagesPerPacket - 1})

(* Page k of the subset PDF is page PageMap(first)[k] of the document. *)
PageMap(first) == [k \in 1..Cardinality(ShardPages(first)) |-> first + k - 1]

wants_vlm(r) == r.kind \in Visual /\ r.routing \in {"none", "scheduled"}
Scheduled(recs) == {PageOf(i) : i \in {j \in DOMAIN recs : wants_vlm(recs[j])}}
Seeded(r) == \E n \in DOMAIN r.cands :
               r.cands[n].engine \in {"paddle_formula", "paddle_table"} /\ r.cands[n].text # ""

(* A formula that looks like a paragraph is not sent to the specialist. *)
WantsSpecialist(i, r) ==
  r.kind \in {"formula", "table"} /\ ~Seeded(r) /\ ~Region[i].prose

Packet(first, phase) ==
  LET asked == {i \in DOMAIN records : PageOf(i) \in ShardPages(first)}
  IN  [phase |-> phase, first |-> first, asked |-> asked,
       vlm |-> {i \in asked : phase = "inference" /\ wants_vlm(records[i])},
       special |-> {i \in asked : phase = "inference" /\ WantsSpecialist(i, records[i])}]

(* package_job refuses a shard with a changed image, and the command stops *)
(* there; a packet that asks the same is returned as it is.                *)
Packable(first) ==
  {i \in DOMAIN records : PageOf(i) \in ShardPages(first)} \cap damaged = {}

Package(phase) ==
  /\ Ready
  /\ (phase = "inference") => (manifest.layout = "ready")
  /\ (phase = "inference") => (Cardinality(Scheduled(records)) <= CapPages)
  /\ LET done == {f \in Shards : \A g \in Shards : g <= f => Packable(g)}
         new == {Packet(f, phase) : f \in done} \ packets
     IN  /\ \A f \in Shards : Cardinality({pk \in packets \cup new :
                                 pk.first = f /\ pk.phase = phase}) <= MaxPackets
         /\ new # {} /\ packets' = packets \cup new
  /\ UNCHANGED <<work, results, cache, review, cpt, damaged, bounds>>

-----------------------------------------------------------------------------
(* The Colab notebook.                                                     *)

OcrAsked(pk) == {i \in pk.asked : Region[i].kind \in Visual \cup {"text", "code"}}

Readings(engine, asked) ==
  {f \in [asked -> UNION {Reads[engine][i] : i \in asked}] :
     \A i \in asked : f[i] \in Reads[engine][i]}

(* PP-StructureV3 on a whole page finds blocks, on a crop it only reads it. *)
StructureBlocks(i) == IF Full(i) THEN StructureFinds[PageOf(i)] ELSE {{i}}
StructureOutcomes(pk) ==
  {f \in [pk.asked -> UNION {StructureBlocks(i) : i \in pk.asked}] :
     \A i \in pk.asked : f[i] \in StructureBlocks(i)}

DoclingOutcomes(pk) ==
  {[ok |-> FALSE, found |-> {}] : f \in {pk.first} \cap DoclingFails} \cup
  {[ok |-> TRUE, found |-> UNION {f[p] : p \in ShardPages(pk.first)}] :
     f \in {g \in [ShardPages(pk.first) -> UNION {DoclingFinds[p] : p \in ShardPages(pk.first)}] :
             \A p \in ShardPages(pk.first) : g[p] \in DoclingFinds[p]}}

(* The output directory belongs to the packet and is kept: Paddle returns  *)
(* its records of an earlier attempt, and Docling's files accumulate.      *)
Earlier(pk) == {res \in results : res.packet = pk}

Discover(pk, ocr, found, docling) ==
  [packet |-> pk, ocr |-> ocr, structure |-> found, docling |-> docling,
   special |-> <<>>, vlm |-> <<>>]

(* Regions in the order of the records. *)
InOrder(S) ==
  LET part[n \in 0..Len(Order)] ==
        IF n = 0 THEN <<>>
        ELSE IF Order[n] \in S THEN Append(part[n - 1], Order[n]) ELSE part[n - 1]
  IN  part[Len(Order)]

(* Mutant: the cache of successful observations is not consulted. *)
ObserveAfresh(pk, reads, loads, retry) ==
  LET queue == InOrder(pk.vlm)
      n == IF loads \/ queue = <<>> THEN Len(queue) ELSE 1
  IN  [i \in {queue[k] : k \in 1..n} |-> IF loads THEN reads[i] ELSE ""]

(* vlm_worker.run: one generation per image, none for a cached success nor *)
(* for a failure that is not retried; when the model cannot be loaded the  *)
(* first image that needs it fails and the rest are not run.               *)
Observe(pk, reads, loads, retry) ==
  LET queue == InOrder(pk.vlm)
      kept == {i \in pk.vlm : cache[i] # "" \/ (~retry /\ \E b \in Earlier(pk) : i \in DOMAIN b.vlm)}
      fresh == {k \in DOMAIN queue : queue[k] \notin kept}
      n == IF loads \/ fresh = {} THEN Len(queue) ELSE Min(fresh)
  IN  [i \in {queue[k] : k \in 1..n} |->
         IF i \in kept \/ ~loads THEN cache[i] ELSE reads[i]]

Infer(pk, ocr, special, vlm) ==
  [packet |-> pk, ocr |-> ocr, structure |-> <<>>,
   docling |-> [ok |-> FALSE, found |-> {}], special |-> special, vlm |-> vlm]

ColabDiscovery(pk) ==
  /\ pk.phase = "discovery" /\ Cardinality(Earlier(pk)) < MaxDiscoveries
  /\ \E ocr \in Readings("ocr", OcrAsked(pk)), found \in StructureOutcomes(pk),
       docling \in DoclingOutcomes(pk) :
       LET kept == [ok |-> docling.ok \/ \E b \in Earlier(pk) : b.docling.ok,
                    found |-> docling.found \cup UNION {b.docling.found : b \in Earlier(pk)}]
       IN  /\ \A b \in Earlier(pk) : ocr = b.ocr /\ found = b.structure
           /\ results' = results \cup {Discover(pk, ocr, found, kept)}
  /\ UNCHANGED <<work, packets, cache, review, cpt, damaged, bounds>>

ColabInference(pk) ==
  /\ pk.phase = "inference" /\ Cardinality(Earlier(pk)) < MaxInferences
  /\ \E ocr \in Readings("ocr", OcrAsked(pk)), special \in Readings("special", pk.special),
       reads \in Readings("vlm", pk.vlm), loads, retry \in BOOLEAN :
       LET vlm == Observe(pk, reads, loads, retry)
       IN  /\ \A b \in Earlier(pk) : ocr = b.ocr /\ special = b.special
           /\ results' = results \cup {Infer(pk, ocr, special, vlm)}
           /\ cache' = [i \in Ids |-> IF i \in DOMAIN vlm /\ vlm[i] # "" THEN vlm[i] ELSE cache[i]]
  /\ UNCHANGED <<work, packets, review, cpt, damaged, bounds>>

-----------------------------------------------------------------------------
(* Merging a result archive.                                               *)

Add(cands, c) == IF c \in Range(cands) THEN cands ELSE Append(cands, c)
AddAll(cands, new) ==
  LET sum[n \in 0..Len(new)] == IF n = 0 THEN cands ELSE Add(sum[n - 1], new[n])
  IN  sum[Len(new)]

SpecialEngine(i) == IF Region[i].kind = "formula" THEN "paddle_formula" ELSE "paddle_table"

(* Structure's block j in the image of region i. *)
BlockText(res, i, j) == IF j = i /\ i \in DOMAIN res.ocr THEN res.ocr[i] ELSE Region[j].native
StructureOk(res, i) ==
  /\ i \in DOMAIN res.structure
  /\ \E j \in res.structure[i] : Full(i) \/ BlockText(res, i, j) # ""

(* ingest_cloud: what an archive adds to record i.  A failed OCR or layout *)
(* run is kept as an empty candidate.                                      *)
CloudCands(res, i) ==
  LET via == res.packet.phase
      one(e, S, text) == IF i \in S THEN <<Candidate(e, text[i], i, via)>> ELSE <<>>
      blocks == [n \in DOMAIN InOrder(res.structure[i]) |->
                   LET j == InOrder(res.structure[i])[n]
                   IN  Candidate("paddle_structure", BlockText(res, i, j), j, via)]
  IN  one("vlm", DOMAIN res.vlm, res.vlm) \o one("paddle_ocr", DOMAIN res.ocr, res.ocr)
      \o one(SpecialEngine(i), DOMAIN res.special, res.special)
      \o (IF i \notin DOMAIN res.structure THEN <<>>
          ELSE IF StructureOk(res, i) THEN blocks
          ELSE <<Candidate("paddle_ocr", "", i, via)>>)

(* An engine that was run is no longer pending, whatever it returned. *)
DoneEngines(res, i) ==
  (IF i \in DOMAIN res.vlm THEN {"vlm"} ELSE {}) \cup
  (IF i \in DOMAIN res.ocr THEN {"paddle_ocr"} ELSE {}) \cup
  (IF i \in DOMAIN res.special THEN {SpecialEngine(i)} ELSE {})

(* associate: a parser's block reaches the text record of its page, or the *)
(* record of its kind at its place; one of unknown place reaches nothing.  *)
Matches(i, r, b) ==
  /\ b.known /\ b.page = PageOf(i)
  /\ IF Full(i) THEN Full(b.at)
     ELSE Region[b.at].kind = r.kind /\ Region[b.at].box = Region[i].box

Associate(recs, engine, blocks, via) ==
  [i \in DOMAIN recs |->
     LET here == {b \in blocks : Matches(i, recs[i], b)}
         new == [n \in DOMAIN InOrder({b.at : b \in here}) |->
                   LET j == InOrder({b.at : b \in here})[n]
                   IN  Candidate(engine, (CHOOSE b \in here : b.at = j).text, j, via)]
     IN  [recs[i] EXCEPT !.cands = AddAll(@, new)]]

(* Docling numbers the pages of the subset PDF. *)
SubsetPage(first, i) == PageOf(i) - first + 1

(* Mutant: the page of the subset is taken for the page of the document. *)
DoclingAsNumbered(res) ==
  {[page |-> SubsetPage(res.packet.first, j), at |-> j, text |-> Region[j].native, known |-> TRUE] :
     j \in res.docling.found}

DoclingBlocks(res) ==
  {[page |-> PageMap(res.packet.first)[SubsetPage(res.packet.first, j)],
    at |-> j, text |-> Region[j].native, known |-> TRUE] : j \in res.docling.found}

Ingested(res) ==
  LET cloud == [i \in DOMAIN records |->
                  IF i \notin res.packet.asked THEN records[i]
                  ELSE [records[i] EXCEPT !.cands = AddAll(@, CloudCands(res, i)),
                                          !.pending = @ \ DoneEngines(res, i)]]
  IN  Associate(cloud, "docling", DoclingBlocks(res), "parser")

MergeIngest(res) ==
  /\ Ready /\ DOMAIN res.vlm \cap damaged = {}
  /\ Replace(Receipt("cloud", {res}, Added(Ingested(res)), Unrouted), Ingested(res))
  /\ operator' = IF res.packet.phase = "discovery"
                 THEN [step |-> "layout", archive |-> {res}, parsed |-> {}] ELSE Idle
  /\ IF res \in merged THEN Event ELSE UNCHANGED events
  /\ merged' = merged \cup {res}
  /\ UNCHANGED <<run, manifest, colab, review, cpt, damaged, gestures>>

-----------------------------------------------------------------------------
(* materialize: records of the components a layout parser found, and the   *)
(* routing of every visual region within the page budget.                  *)

ParsedPages(res) ==
  {PageOf(i) : i \in {j \in res.packet.asked : StructureOk(res, j)}}
    \cup (IF res.docling.ok THEN ShardPages(res.packet.first) ELSE {})

StructureFound(res) ==
  UNION {res.structure[i] : i \in {j \in DOMAIN res.structure : Full(j)}}

NewComponents(res) ==
  {j \in (res.docling.found \cup StructureFound(res)) \ DOMAIN records :
     /\ ~Full(j)
     /\ \A i \in DOMAIN records : ~( /\ PageOf(i) = PageOf(j)
                                     /\ records[i].kind = Region[j].kind
                                     /\ Region[i].box = Region[j].box)}

LayoutRecord(res, j) ==
  LET engine == IF j \in res.docling.found THEN "docling" ELSE "paddle_structure"
      base == CHOOSE i \in DOMAIN records : Full(i) /\ PageOf(i) = PageOf(j)
  IN  [kind |-> Region[j].kind,
       cands |-> <<Candidate(engine, Region[j].native, j, "layout")>> \o
                 (IF Region[j].native # "" THEN <<Candidate("native", Region[j].native, j, "layout")>>
                  ELSE <<>>),
       pending |-> IF Region[j].kind \in {"formula", "table"} /\ ~Region[j].prose
                   THEN {SpecialEngine(j)} ELSE {},
       split |-> records[base].split, risk |-> "low", routing |-> "none"]

Twins(recs, i) == {j \in DOMAIN recs : recs[j].kind \in Visual /\ Region[j].pixels = Region[i].pixels}
Before(i, j) == \/ PageOf(i) < PageOf(j)
                \/ PageOf(i) = PageOf(j)
                   /\ \E m, n \in DOMAIN Order : Order[m] = i /\ Order[n] = j /\ m < n
Decoration(recs, i) ==
  Region[i].margin /\ Cardinality({PageOf(j) : j \in Twins(recs, i)}) >= 3
Duplicate(recs, i) == \E j \in Twins(recs, i) : Before(j, i)
One(b) == IF b THEN 1 ELSE 0

(* A decoration never competes, so its malus needs no term. *)
Score(recs, i) ==
  4 * One(recs[i].kind = "diagram" \/ Region[i].hint) + 3 * One(recs[i].kind = "chart")
    + 2 * One(~Decoration(recs, i)) + One(Region[i].large)
Competing(recs) ==
  {i \in DOMAIN recs : /\ recs[i].kind \in Visual
                       /\ ~Decoration(recs, i) /\ ~Duplicate(recs, i) /\ Score(recs, i) >= 5}

(* The pages with the best component, earlier pages first. *)
ChosenPages(recs) ==
  LET pages == {PageOf(i) : i \in Competing(recs)}
      best == [p \in pages |-> Max({Score(recs, i) : i \in {j \in Competing(recs) : PageOf(j) = p}})]
      ahead(p) == {q \in pages : best[q] > best[p] \/ (best[q] = best[p] /\ q < p)}
  IN  {p \in pages : Cardinality(ahead(p)) < Min({TargetPages, CapPages})}

(* Mutant: what an earlier routing scheduled stays scheduled. *)
RouteOnTop(recs) ==
  [i \in DOMAIN recs |->
     IF recs[i].kind \notin Visual \/ recs[i].routing = "scheduled" THEN recs[i]
     ELSE IF i \in Competing(recs) /\ PageOf(i) \in ChosenPages(recs)
     THEN [recs[i] EXCEPT !.routing = "scheduled", !.pending = @ \cup {"vlm"}]
     ELSE [recs[i] EXCEPT !.routing = "score_review", !.pending = @ \ {"vlm"}]]

Route(recs) ==
  [i \in DOMAIN recs |->
     IF recs[i].kind \notin Visual THEN recs[i]
     ELSE IF i \in Competing(recs) /\ PageOf(i) \in ChosenPages(recs)
     THEN [recs[i] EXCEPT !.routing = "scheduled", !.pending = @ \cup {"vlm"}]
     ELSE [recs[i] EXCEPT !.pending = @ \ {"vlm"},
                          !.routing = IF Duplicate(recs, i) THEN "exact_duplicate"
                                      ELSE IF Decoration(recs, i) THEN "decoration_rule"
                                      ELSE "score_review"]]

(* What route reports: pages that compete, pages and regions scheduled. *)
Routing(recs) ==
  <<{PageOf(i) : i \in Competing(recs)}, ChosenPages(recs),
    Cardinality({i \in Competing(recs) : PageOf(i) \in ChosenPages(recs)})>>

MergeLayout ==
  /\ operator.step = "layout"
  /\ \E res \in operator.archive :
     LET new == NewComponents(res)
         rows == [j \in DOMAIN records \cup new |->
                    IF j \in new THEN LayoutRecord(res, j) ELSE records[j]]
         receipt == Receipt("layout", {res}, 0, Routing(rows))
     IN  IF ParsedPages(res) = {} \/ Conflict(receipt, Route(rows))
         THEN operator' = Idle /\ UNCHANGED <<records, snapshots>>
         ELSE /\ Replace(receipt, Route(rows))
              /\ operator' = [step |-> "manifest", archive |-> {}, parsed |-> ParsedPages(res)]
  /\ UNCHANGED <<run, manifest, colab, review, cpt, damaged, bounds>>

MergeManifest ==
  /\ operator.step = "manifest"
  /\ LET parsed == manifest.parsed \cup operator.parsed
     IN  manifest' = [layout |-> IF parsed = Pages THEN "ready" ELSE "partial_layout",
                      parsed |-> parsed]
  /\ operator' = Idle
  /\ UNCHANGED <<run, records, snapshots, colab, review, cpt, damaged, bounds>>

-----------------------------------------------------------------------------
(* import_parser: a parser's own file, imported by hand.                   *)

PageBase == [docling |-> 1, mineru |-> 0, paddle_ocr |-> 1]

(* Mutant: every parser counts pages from one. *)
PageFromOne(value, base) == value

(* 0 is no page. *)
Page(value, base) == IF value < base THEN 0 ELSE value + (1 - base)

ParserReads(e, i) == IF e = "docling" THEN {Region[i].native}
                     ELSE Reads[IF e = "mineru" THEN "mineru" ELSE "ocr"][i]

ImportParser(e) ==
  /\ Ready /\ Event
  /\ \E p \in Pages : \E found \in StructureFinds[p] : \E known \in BOOLEAN :
     \E text \in [found -> UNION {ParserReads(e, i) : i \in found}] :
       LET blocks == {[page |-> Page(p - (1 - PageBase[e]), PageBase[e]), at |-> j,
                       text |-> text[j], known |-> known] : j \in found}
           matched == Associate(records, e, blocks, "parser")
       IN  /\ \A j \in found : text[j] \in ParserReads(e, j)
           /\ Replace(Receipt("parser", {[engine |-> e, blocks |-> blocks]}, Added(matched), Unrouted),
                [i \in DOMAIN matched |->
                   IF e = "paddle_ocr" /\ Len(matched[i].cands) > Len(records[i].cands)
                   THEN [matched[i] EXCEPT !.pending = @ \ {e}] ELSE matched[i]])
           /\ records' # records
  /\ UNCHANGED <<run, manifest, operator, colab, review, cpt, damaged, merged, gestures>>

-----------------------------------------------------------------------------
(* Human review.                                                           *)

VlmCands(r) == {n \in DOMAIN r.cands : r.cands[n].engine = "vlm" /\ r.cands[n].text # ""}

(* review_target: the text a quick decision is about. *)
Target(r) ==
  LET chosen == {n \in VlmCands(r) : r.cands[n].text = Proposed(r)}
  IN  [cand |-> r.cands[Max(IF chosen = {} THEN VlmCands(r) ELSE chosen)],
       ready |-> chosen # {}]

Gesture(i, d, token) ==
  /\ Event /\ gestures < MaxGestures /\ gestures' = gestures + 1
  /\ sent' = sent \cup {[id |-> i, shown |-> records[i], token |-> token, decision |-> d,
                         gesture |-> gestures + 1]}
  /\ UNCHANGED <<work, colab, reviews, server, cpt, damaged, merged>>

(* A browser tab has loaded record i, its images and the token of the      *)
(* server, and a person decides; the request may be delayed or repeated.   *)
Decide(i, d) ==
  /\ i \in DOMAIN records \ damaged /\ VlmCands(records[i]) # {}
  /\ Gesture(i, d, server.token)

(* Label Studio: the whole inventory was exported as tasks, and a person   *)
(* annotates one of them.  Token 0 stands for the annotation file.         *)
Annotate(i, d) ==
  /\ i \in DOMAIN records /\ DOMAIN records \cap damaged = {}
  /\ Gesture(i, d, 0)

AcceptedText(d, r) == CASE d = "approve" -> Proposed(r) [] d = "correct" -> "typed" [] OTHER -> ""

(* Mutant: the revision the reviewer saw is not compared. *)
SubmittableAnyRevision(i, expected, d) ==
  /\ i \notin damaged
  /\ (d \in {"approve", "correct"}) => (AcceptedText(d, records[i]) # "")

(* ReviewStore.submit refuses a stale revision, changed images, no text.   *)
(* The acknowledgement of high risk is given by the gesture itself.        *)
Submittable(i, expected, d) ==
  /\ records[i] = expected /\ i \notin damaged
  /\ (d \in {"approve", "correct"}) => (AcceptedText(d, records[i]) # "")

Submit(i, expected, d, gesture) ==
  /\ Submittable(i, expected, d)
  /\ reviews' = Append(reviews,
       [id |-> i, decision |-> d, text |-> AcceptedText(d, records[i]), rec |-> records[i],
        gesture |-> gesture, shown |-> expected])

(* do_POST: the request of a tab arrives, perhaps again.  The answer to an *)
(* action already completed is repeated.                                   *)
Deliver(p) ==
  /\ p.token = server.token
  /\ Target(records[p.id]).ready
  /\ Target(records[p.id]).cand = Target(p.shown).cand
  /\ p.gesture \notin Range(server.done)
  /\ Submit(p.id, p.shown, p.decision, p.gesture)
  /\ LET done == Append(server.done, p.gesture)
     IN  server' = [server EXCEPT !.done = IF Len(done) > ActionMemory THEN Tail(done) ELSE done]
  /\ UNCHANGED <<work, colab, sent, cpt, damaged, bounds>>

(* Mutant: the token outlives the server. *)
RestartSameToken ==
  /\ Event /\ server' = [server EXCEPT !.done = <<>>]
  /\ UNCHANGED <<work, colab, reviews, sent, cpt, damaged, merged, gestures>>

RestartServer ==
  /\ Event /\ server' = [token |-> server.token + 1, done |-> <<>>]
  /\ UNCHANGED <<work, colab, reviews, sent, cpt, damaged, merged, gestures>>

(* import_annotations takes an annotation once, while its record is the    *)
(* exported one.                                                           *)
ImportAnnotation(a) ==
  /\ a.token = 0 /\ a.shown = records[a.id]
  /\ \A n \in DOMAIN reviews : ~(reviews[n].id = a.id /\ reviews[n].gesture = a.gesture)
  /\ Submit(a.id, a.shown, a.decision, a.gesture)
  /\ UNCHANGED <<work, colab, server, sent, cpt, damaged, bounds>>

-----------------------------------------------------------------------------
(* export_cpt and faults.                                                  *)

(* Mutant: an acceptance counts although a later decision withdrew it. *)
EverAccepted(i) ==
  {n \in DOMAIN reviews : /\ reviews[n].id = i /\ reviews[n].rec = records[i]
                          /\ reviews[n].decision \in {"approve", "correct"}}

(* The latest decision on record i, if it accepts the present revision. *)
Accepted(i) ==
  {n \in DOMAIN reviews : /\ reviews[n].id = i /\ reviews[n].rec = records[i]
                          /\ reviews[n].decision \in {"approve", "correct"}
                          /\ \A m \in DOMAIN reviews : m > n => reviews[m].id # i}

Eligible == {i \in DOMAIN records : Accepted(i) # {} /\ records[i].split = "train"}
SampleText(i) == reviews[Max(Accepted(i))].text

(* An export without samples is not training_ready and is left out. *)
ExportCpt ==
  /\ Eligible # {} /\ Eligible \cap damaged = {}
  /\ cpt' = {[id |-> i, text |-> SampleText(i)] : i \in
              {j \in Eligible : ~\E h \in Eligible :
                 /\ \E m, n \in DOMAIN Order : Order[m] = h /\ Order[n] = j /\ m < n
                 /\ SampleText(h) = SampleText(j) /\ Region[h].pixels = Region[j].pixels}}
  /\ UNCHANGED <<work, colab, review, damaged, bounds>>

(* The command in progress ends; what it has written stays. *)
Crash ==
  /\ Event /\ operator # Idle /\ operator' = Idle
  /\ UNCHANGED <<run, records, snapshots, manifest, colab, review, cpt, damaged, merged, gestures>>

DamageAsset(i) ==
  /\ Event /\ i \in DOMAIN records \ damaged /\ damaged' = damaged \cup {i}
  /\ UNCHANGED <<work, colab, review, cpt, merged, gestures>>

Next ==
  \/ BeginPrepare \/ WriteRun \/ AssignCourse \/ MergeLayout \/ MergeManifest
  \/ \E phase \in {"discovery", "inference"} : Package(phase)
  \/ \E pk \in packets : ColabDiscovery(pk) \/ ColabInference(pk)
  \/ \E res \in results : MergeIngest(res)
  \/ \E e \in Parsers : ImportParser(e)
  \/ \E i \in Watched :
       \/ \E d \in Decisions \ {"defer"} : Decide(i, d)
       \/ \E d \in Decisions : Annotate(i, d)
       \/ DamageAsset(i)
  \/ \E p \in sent : Deliver(p) \/ ImportAnnotation(p)
  \/ RestartServer \/ ExportCpt \/ Crash

Spec == Init /\ [][Next]_vars

-----------------------------------------------------------------------------
(* Properties.                                                             *)

TypeOK ==
  /\ run \in {"absent", "rendering", "prepared", "assigned"}
  /\ DOMAIN records \subseteq Ids
  /\ \A i \in DOMAIN records :
       /\ records[i] \in Records
       /\ records[i].kind = Region[i].kind
  /\ manifest.parsed \subseteq Pages
  /\ \A n \in DOMAIN reviews : reviews[n].id \in DOMAIN records
  /\ damaged \subseteq DOMAIN records

(* A record's evidence was read on its own page, and for a component at    *)
(* its own place, whatever subset of pages or numbering the parser used    *)
(* (page_map and _page of the adapters).                                   *)
EvidenceIsLocal ==
  \A i \in DOMAIN records : \A c \in Range(records[i].cands) :
    /\ PageOf(c.at) = PageOf(i)
    /\ Full(i) \/ (Region[c.at].box = Region[i].box)

(* Native text is trusted only when an OCR that ran on the region read the *)
(* same, no run failed, and no reading differs (cross_validate).           *)
TrustedIsConfirmed ==
  \A i \in DOMAIN records : (Bucket(i, records[i]) = "trusted") =>
    LET read == Range(records[i].cands) IN
    /\ Cardinality({c.text : c \in read}) = 1
    /\ \E c, d \in read : c.engine = "native" /\ d.engine \in {"paddle_ocr", "paddle_structure"}

(* One image, one observation: whatever is retried or packed again, every  *)
(* archive that reports a successful observation of a region reports the   *)
(* same one (the success cache of vlm_worker.run).                         *)
OneObservationPerImage ==
  \A a, b \in results : \A i \in DOMAIN a.vlm \cap DOMAIN b.vlm :
    (a.vlm[i] # "" /\ b.vlm[i] # "") => (a.vlm[i] = b.vlm[i])

(* However often layouts are merged, the routing in force never schedules  *)
(* more pages than the budget once a layout is known (route).              *)
ScheduleWithinCap ==
  (manifest.parsed # {}) =>
    (Cardinality({PageOf(i) : i \in {j \in DOMAIN records : records[j].routing = "scheduled"}}) <= CapPages)

(* Evidence belongs to its place, trust has a confirmation, an image one   *)
(* observation, and the vision model no more pages than the budget.        *)
EvidenceIsSound ==
  /\ TypeOK
  /\ EvidenceIsLocal
  /\ TrustedIsConfirmed
  /\ OneObservationPerImage
  /\ ScheduleWithinCap

(* A stored decision is about the record the person had on the screen,     *)
(* and an approval accepts the text that was shown there (ReviewStore).    *)
DecidedAsShown ==
  \A n \in DOMAIN reviews :
    /\ reviews[n].rec = reviews[n].shown
    /\ (reviews[n].decision = "approve") => (reviews[n].text = Proposed(reviews[n].shown))

(* A gesture is recorded at most once, though a request may be repeated,   *)
(* the server restarted, and an annotation file imported again.            *)
OneDecisionPerGesture ==
  \A m, n \in DOMAIN reviews : (reviews[m].gesture = reviews[n].gesture) => (m = n)

(* What a person decided is recorded once, about what was on the screen.   *)
DecisionsAreSound == DecidedAsShown /\ OneDecisionPerGesture

(* What an export contains is, at that moment, accepted by the latest      *)
(* decision on the present revision, belongs to the training split, and    *)
(* its images are the reviewed ones (export_cpt).                          *)
ExportedStands ==
  [][(cpt' # cpt) =>
      \A s \in cpt' :
        LET last == reviews[Max({n \in DOMAIN reviews : reviews[n].id = s.id})]
        IN  /\ last.decision \in {"approve", "correct"} /\ last.text = s.text
            /\ last.rec = records[s.id] /\ records[s.id].split = "train"
            /\ s.id \notin damaged]_vars
=============================================================================
