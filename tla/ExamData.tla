------------------------------- MODULE ExamData -------------------------------
(***************************************************************************)
(* The exam SFT data (data_preparation): questions read out of exam PDFs   *)
(* by the parser of their layout (extract_questions, answer_letter_parser) *)
(* and made into splits (build_release).  Pure functions; ExamRelease      *)
(* runs them.                                                              *)
(*                                                                         *)
(* A line of a page is [k, v, label, marks, keys, page]: k says how the    *)
(* parsers' patterns read it ("head", "stem", "opt", "select", "key",      *)
(* "more", "ui", "chrome"), v is its wording, marks the circles drawn      *)
(* beside it, keys what an answer key names.  Wordings are compared only.  *)
(***************************************************************************)
EXTENDS Integers, FiniteSets, FiniteSetsExt, Sequences, SequencesExt

CONSTANTS
  Text,        \* document (a number) -> its successive contents: [signs, pages]
  Course,      \* document -> course
  Template,    \* wording -> the wording with its numbers masked
  Alike,       \* pairs {p, q} of prompts whose shingles, and their options', nearly agree
  None

Ascending(S) == [ k \in 1..Cardinality(S) |-> CHOOSE i \in S : Cardinality({ j \in S : j < i }) = k - 1 ]
Values(lines) == [ i \in DOMAIN lines |-> lines[i].v ]
Ids(records) == { r.id : r \in records }

-----------------------------------------------------------------------------
(* extract_questions. *)

(* Headers, footers and the site's own lines are dropped.                  *)
page_lines(pages, p) ==
  LET kept == SelectSeq(pages[p], LAMBDA l : l.k # "chrome")
  IN  [ i \in DOMAIN kept |-> [kept[i] EXCEPT !.page = p] ]
Lines(c) == FlattenSeq([ p \in DOMAIN c.pages |-> page_lines(c.pages, p) ])
(* add_marks: the circles are read from the file as it is now, the text    *)
(* from what was extracted of it.                                          *)
add_marks(c, now) ==
  [c EXCEPT !.pages = [ p \in DOMAIN c.pages |-> [ i \in DOMAIN c.pages[p] |->
     [c.pages[p][i] EXCEPT !.marks = IF p \in DOMAIN now.pages /\ i \in DOMAIN now.pages[p]
                                     THEN now.pages[p][i].marks ELSE <<>>] ] ]]

(* A question runs from its heading to the next; what precedes the first   *)
(* heading is no question.                                                 *)
groups(lines) ==
  LET heads == { i \in DOMAIN lines : lines[i].k = "head" }
      End(i) == Min({ j - 1 : j \in { h \in heads : h > i } } \cup {Len(lines)})
  IN  { [at |-> i, lines |-> SubSeq(lines, i, End(i))] : i \in heads }
(* parse_answer_letters: every key line ends an item; what follows the     *)
(* last one is none.                                                       *)
KeyedItems(lines) ==
  LET ends == { i \in DOMAIN lines : lines[i].k = "key" }
      Begin(i) == Max({ j + 1 : j \in { e \in ends : e < i } } \cup {1})
  IN  { [at |-> i, lines |-> SubSeq(lines, Begin(i), i)] : i \in ends }

source_record(d, n, g, parser) ==
  [id |-> <<d, n, g.at>>, doc |-> d, ver |-> n, parser |-> parser, size |-> Len(g.lines),
   pages |-> { g.lines[i].page : i \in DOMAIN g.lines },
   prompt |-> <<>>, options |-> <<>>, explained |-> FALSE, reasons |-> {}]

(* The marker of a line is its first circle; a second makes it ambiguous.  *)
radio(l) == IF l.marks = <<>> THEN None ELSE l.marks[1]
radio_ambiguous(l) == Len(l.marks) > 1

(* The stem up to the first option; a line after it continues an option.   *)
parse_options(lines, radios) ==
  LET body == SelectSeq(lines, LAMBDA l : l.k \in {"stem", "opt"})
      starts == { i \in DOMAIN body : IF radios THEN radio(body[i]) # None ELSE body[i].k = "opt" }
      Begin == Ascending(starts)
      End(k) == IF k = Len(Begin) THEN Len(body) ELSE Begin[k + 1] - 1
  IN  [prompt |-> Values(IF starts = {} THEN body ELSE SubSeq(body, 1, Begin[1] - 1)),
       options |-> [ k \in DOMAIN Begin |-> [text |-> Values(SubSeq(body, Begin[k], End(k))),
                                             label |-> body[Begin[k]].label,
                                             correct |-> radio(body[Begin[k]]) = "filled"] ]]

Correct(r) == { r.options[i].text : i \in { j \in DOMAIN r.options : r.options[j].correct } }
Texts(r) == { r.options[i].text : i \in DOMAIN r.options }
finish(r, lines) ==
  [r EXCEPT !.reasons = @ \cup
     { x \in {"prompt", "option_count", "duplicate_options", "no_correct", "figure", "ambiguous_marker"} :
       CASE x = "prompt" -> r.prompt = <<>>
         [] x = "option_count" -> Len(r.options) \notin 2..8
         [] x = "duplicate_options" -> Cardinality(Texts(r)) # Len(r.options)
         [] x = "no_correct" -> Correct(r) = {}
         [] x = "figure" -> \E i \in DOMAIN lines : lines[i].v = "figure"
         [] x = "ambiguous_marker" -> \E i \in DOMAIN lines : radio_ambiguous(lines[i]) }]
Refused(r, reason) == [r EXCEPT !.reasons = {reason}]
Read(r, parsed) == [r EXCEPT !.prompt = parsed.prompt, !.options = parsed.options]

(* The key is the wording of the right options; the part of it on the next *)
(* page is not read.                                                       *)
parse_moodle(d, n, g) ==
  LET r == source_record(d, n, g, "moodle_explicit_key")
      keyed == { i \in DOMAIN g.lines : g.lines[i].k = "key" }
      split == Min(keyed)
      tail == { i \in split..Len(g.lines) : \A j \in (split + 1)..i : g.lines[j].k = "more" /\ g.lines[j].page = g.lines[split].page }
      answer == UNION { g.lines[i].keys : i \in tail }
      body == SubSeq(g.lines, 1, split - 1)
      parsed == parse_options(body, FALSE)
      select == { i \in DOMAIN body : body[i].k = "select" }
      opts == [ k \in DOMAIN parsed.options |-> [parsed.options[k] EXCEPT !.correct = parsed.options[k].text[1] \in answer] ]
      matched == { opts[k].text[1] : k \in { j \in DOMAIN opts : opts[j].correct } }
      wrong == { x \in {"key_mismatch", "single_choice_ambiguous"} :
                 CASE x = "key_mismatch" -> matched # answer \/ matched = {}
                   [] x = "single_choice_ambiguous" -> (\E i \in select : body[i].v = "one") /\ Cardinality(matched) # 1 }
  IN  IF keyed = {} THEN Refused(r, "no_key")
      ELSE IF select # {} /\ parsed.options = <<>> THEN Refused(r, "unlabelled_options")
      ELSE finish([Read(r, [parsed EXCEPT !.options = opts]) EXCEPT !.reasons = wrong], g.lines)

(* The filled circles, of a corrected paper or of an attempt that got full *)
(* credit.                                                                 *)
parse_radios(d, n, g, corrected) ==
  LET r == source_record(d, n, g, IF corrected THEN "corrected_filled_circle" ELSE "forms_full_credit_radio")
  IN  IF ~corrected /\ g.lines[1].v # "full" THEN Refused(r, "not_full_credit")
      ELSE finish(Read(r, parse_options(g.lines, TRUE)), g.lines)

(* Letters name the right options; they must run from A without a gap.     *)
ByLetter(r, g, keys, explained) ==
  LET parsed == parse_options(g.lines, FALSE)
      labels == [ k \in DOMAIN parsed.options |-> parsed.options[k].label ]
      opts == [ k \in DOMAIN labels |-> [parsed.options[k] EXCEPT !.correct = labels[k] \in keys] ]
  IN  IF labels # [ k \in 1..Len(labels) |-> k ] \/ Len(labels) < 2 THEN Refused(r, "option_labels")
      ELSE finish([Read(r, [parsed EXCEPT !.options = opts]) EXCEPT
                     !.explained = explained, !.reasons = IF keys \subseteq ToSet(labels) THEN {} ELSE {"key_label_missing"}], g.lines)
parse_inline_keys(d, n, g) ==
  LET k == CHOOSE i \in DOMAIN g.lines : g.lines[i].k = "key"
      r == source_record(d, n, g, "inline_explicit_key")
  IN  IF g.lines[k].keys = {} THEN Refused(r, "prose_answer")
      ELSE ByLetter(r, g, g.lines[k].keys, g.lines[k].v # None)
_parse_chunk(d, n, g) ==
  ByLetter(source_record(d, n, g, "native_answer_letter"), g, Last(g.lines).keys, FALSE)

(* main: the layout is told from the text, the first that fits.  The file  *)
(* holds version "now" when version n of it is parsed.                     *)
Parsed(d, n, now) ==
  LET c == Text[d][n]
      gs == groups(Lines(c))
      marked == groups(Lines(add_marks(c, Text[d][now])))
  IN  CASE {"explicit", "question"} \subseteq c.signs -> { parse_moodle(d, n, g) : g \in gs }
        [] "Corrected" \in c.signs -> { parse_radios(d, n, g, TRUE) : g \in marked }
        [] {"Correct", "points"} \subseteq c.signs -> { parse_radios(d, n, g, FALSE) : g \in marked }
        [] "key_sheet" \in c.signs ->
             { parse_inline_keys(d, n, g) : g \in { h \in gs : \E i \in DOMAIN h.lines : h.lines[i].k = "key" } }
        [] "ANSWER" \in c.signs -> { _parse_chunk(d, n, g) : g \in KeyedItems(Lines(c)) }
        [] OTHER -> {}

-----------------------------------------------------------------------------
(* build_release. *)
canonical(r) == <<r.prompt, Texts(r)>>
quality(r) ==
  LET priority == CASE r.parser \in {"moodle_explicit_key", "native_answer_letter"} -> 4
                    [] r.parser = "inline_explicit_key" -> 3
                    [] r.parser = "corrected_filled_circle" -> 2
                    [] OTHER -> 1
  IN  (IF r.explained THEN 1000000 ELSE 0) + 100000 * priority + 1000 * (99 - r.size) + 100 * r.id[1] + r.id[3]
Best(rows) == CHOOSE r \in rows : \A q \in rows : quality(q) <= quality(r)

(* UnionFind: the parts that pairs connect.                                *)
UnionFind(values, pairs) ==
  FoldSet(LAMBDA e, parts : LET hit == { p \in parts : p \cap e # {} } IN (parts \ hit) \cup {UNION hit},
          { {x} : x \in values }, pairs)

(* choose_holdout: whole groups whose sizes add up nearest to the target,  *)
(* in an order that is shuffled.                                           *)
choose_holdout(order, target) ==
  LET Cap == Max({2 * target, target + 50})
      Extend(poss, g) ==
        LET new == { n + Cardinality(g) : n \in DOMAIN poss } \ DOMAIN poss
        IN  [ n \in DOMAIN poss \cup { m \in new : m <= Cap } |->
              IF n \in DOMAIN poss THEN poss[n] ELSE poss[n - Cardinality(g)] \cup g ]
      poss == FoldLeft(Extend, [ n \in {0} |-> {} ], order)
      Off(n) == IF n > target THEN n - target ELSE target - n
      Better(a, b) == \/ Off(a) < Off(b)
                      \/ Off(a) = Off(b) /\ (a <= target /\ b > target)
                      \/ Off(a) = Off(b) /\ (a <= target <=> b <= target) /\ a <= b
      found == DOMAIN poss \ {0}
  IN  IF found = {} THEN {} ELSE poss[CHOOSE n \in found : \A q \in found : Better(n, q)]

(* prepare_records: what the auditor excluded, or what has no distractor   *)
(* or leans on the other options, is left out; of questions with the same  *)
(* wording and key the best is kept, with the pages of all of them; where  *)
(* the keys differ none is.                                                *)
Valid(candidates, exclusions) ==
  { r \in candidates : /\ r.id \notin exclusions
                       /\ \E i \in DOMAIN r.options : ~r.options[i].correct
                       /\ \A t \in Correct(r) : t[1] # "all" }
Copies(r, valid) == { q \in valid : canonical(q) = canonical(r) }
Origin(q) == [doc |-> q.doc, ver |-> q.ver, pages |-> q.pages]
(* Mutant: only the pages of the kept record are recorded. *)
OriginsOfKept(rows) == { Origin(Best(rows)) }
Origins(rows) == { Origin(q) : q \in rows }
Agreed(rows) == \A p, q \in rows : Correct(p) = Correct(q)
Unique(valid) ==
  { [q |-> Best(rows), origins |-> Origins(rows)] :
      rows \in { c \in { Copies(r, valid) : r \in valid } : Agreed(c) } }
Near(a, b) == {a.prompt, b.prompt} \in Alike
(* Documents that share a question, or a near one, stay together.          *)
TiedDocuments(valid, unique) ==
  { {r.doc, q.doc} : <<r, q>> \in { p \in valid \X valid : canonical(p[1]) = canonical(p[2]) } }
  \cup { {a.q.doc, b.q.doc} : <<a, b>> \in { p \in unique \X unique : Near(p[1].q, p[2].q) } }
Components(valid, unique) == UnionFind({ r.doc : r \in valid }, TiedDocuments(valid, unique))

(* assign_question_families: the same stem up to numbers, or a near one.   *)
Masked(q) == [ i \in DOMAIN q.prompt |-> Template[q.prompt[i]] ]
(* Mutant: numbers are not masked. *)
FamiliesByStem(records) ==
  UnionFind(records, { {a, b} : <<a, b>> \in { p \in records \X records : p[1].q.prompt = p[2].q.prompt \/ Near(p[1].q, p[2].q) } })
Families(records) ==
  UnionFind(records, { {a, b} : <<a, b>> \in { p \in records \X records : Masked(p[1].q) = Masked(p[2].q) \/ Near(p[1].q, p[2].q) } })

(* The largest group stays in training; test, then validation, are chosen  *)
(* from the others, a tenth each.  "flip" is the shuffle.                  *)
FirstId(g) == Min({ 1000 * u.q.id[1] + u.q.id[3] : u \in g })
Ranked(groupSet) ==
  LET Before(a, b) == \/ Cardinality(a) > Cardinality(b)
                      \/ Cardinality(a) = Cardinality(b) /\ FirstId(a) < FirstId(b)
  IN  [ k \in 1..Cardinality(groupSet) |-> CHOOSE g \in groupSet : Cardinality({ h \in groupSet : Before(h, g) }) = k - 1 ]
Split(groupSet, flip) ==
  LET ranked == Ranked(groupSet)
      rest == IF flip THEN Reverse(Tail(ranked)) ELSE Tail(ranked)
      n == Cardinality(UNION groupSet)
      target == Max({1, (n + 5) \div 10})
      test == choose_holdout(rest, target)
      validation == choose_holdout(SelectSeq(rest, LAMBDA g : g \cap test = {}), target)
  IN  [ u \in UNION groupSet |-> IF u \in test THEN "test" ELSE IF u \in validation THEN "validation" ELSE "train" ]

(* A row of a split: the question, its group, and its chat, whose wording  *)
(* depends on whether an explanation was curated for it (example).         *)
example(u, split, group, curated) ==
  [q |-> u.q, origins |-> u.origins, split |-> split, group |-> group,
   chat |-> <<u.q.id, Correct(u.q), u.q.explained \/ u.q.prompt \in curated>>]
(* By document: whole components.  Three are needed.                       *)
ByDocument(valid, flip, curated) ==
  LET unique == Unique(valid)
      Of(c) == { u \in unique : u.q.doc \in c }
      parts == { Of(c) : c \in { x \in Components(valid, unique) : Of(x) # {} } }
      s == Split(parts, flip)
  IN  { example(u, s[u], FirstId(CHOOSE g \in parts : u \in g), curated) : u \in unique }
EnoughComponents(valid) ==
  LET unique == Unique(valid)
  IN  Cardinality({ c \in Components(valid, unique) : \E u \in unique : u.q.doc \in c }) >= 3
(* By family: within the course most of a family belongs to.               *)
ByFamily(valid, flip, curated) ==
  LET unique == Unique(valid)
      fams == Families(unique)
      InCourse(f, c) == Cardinality({ u \in f : Course[u.q.doc] = c })
      CourseOf(f) == CHOOSE c \in { Course[u.q.doc] : u \in f } :
                       \A e \in { Course[u.q.doc] : u \in f } : InCourse(f, e) <= InCourse(f, c)
      Stratum(c) == { f \in fams : CourseOf(f) = c }
      s == [ c \in { CourseOf(f) : f \in fams } |->
             IF Cardinality(Stratum(c)) >= 3 THEN Split(Stratum(c), flip) ELSE [ u \in UNION Stratum(c) |-> "train" ] ]
      Fam(u) == CHOOSE f \in fams : u \in f
  IN  { example(u, s[CourseOf(Fam(u))][u], FirstId(Fam(u)), curated) : u \in unique }
=============================================================================
