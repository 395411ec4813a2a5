----------------------------- MODULE TheoryData -----------------------------
(***************************************************************************)
(* What prepare_theory makes of the completed CPT text: facts (a concept   *)
(* and its definition, quoted from one page block), their splits, and the  *)
(* contrast quizzes of each split.  Everything is a function of the        *)
(* editorial exclusions, the one input that changes between preparations.  *)
(*                                                                         *)
(* A fact is named by the position of its paragraph in the corpus.  Texts  *)
(* are abstracted to the identities the code compares; similarity ratios   *)
(* are the relation Similar, digests that only order things are orders,    *)
(* and the digest that picks the first mode of a fact is its number mod 3. *)
(***************************************************************************)
EXTENDS Integers, FiniteSets, FiniteSetsExt, Sequences, SequencesExt, Graphs

CONSTANTS
  Para,         \* paragraph -> [concept, defn, quote, block, course, clean]
  Similar,      \* pairs of facts too alike to be options of one question
  Affinity,     \* fact -> the others, the most related first
  Priority,     \* all paragraphs, the best quality first
  ExamStem,     \* facts whose first question repeats an exam prompt
  Overlong,     \* <<fact, mode>> whose chat exceeds the token limit
  Bucket,       \* block -> the percentile its digest draws, 0..99
  HoldOrder,    \* courses in the order of their holdout digest
  MinFacts, HeldCourses,   \* 20 and 2 in the code
  Options,      \* options of a question, 4 in the code
  Wanted        \* split -> number of samples (270, 30, 100 in the code)

ASSUME TheoryDataAssumption ==
  /\ \A p \in DOMAIN Para : Para[p].block \in DOMAIN Bucket
  /\ \A b \in DOMAIN Bucket : Bucket[b] \in 0..99
  /\ Options \in Nat \ {0, 1}

Parts == {"train", "validation", "test"}
Meaning(f) == <<Para[f].concept, Para[f].defn>>

(* A clean paragraph yields a fact unless the editor excluded it or another *)
(* paragraph of the same meaning; each meaning once, the first time.        *)
extract_facts(excluded) ==
  LET passed == { p \in DOMAIN Para :
                    Para[p].clean /\ Meaning(p) \notin { Meaning(x) : x \in excluded } }
  IN  { p \in passed : \A o \in passed : Meaning(o) = Meaning(p) => p <= o }

(* Page blocks joined by a shared concept or a shared quotation; a group is *)
(* named by its least block.                                                *)
Tied(f, g) == Para[f].concept = Para[g].concept \/ Para[f].quote = Para[g].quote
SourceGroup(facts) ==
  LET G == [node |-> { Para[f].block : f \in facts },
            edge |-> { <<Para[f].block, Para[g].block>> : <<f, g>> \in
                         { p \in facts \X facts : Tied(p[1], p[2]) } }]
      joined == ConnectionsIn(G)
  IN  [ f \in facts |-> Min({ b \in G.node : b = Para[f].block \/ joined[Para[f].block, b] }) ]

(* The first HeldCourses of the courses with enough facts are held out,    *)
(* with every group one of their facts is in.                              *)
HeldOutCourses(facts) ==
  LET eligible == SelectSeq(HoldOrder, LAMBDA c :
                    Cardinality({ f \in facts : Para[f].course = c }) >= MinFacts)
  IN  ToSet(SubSeq(eligible, 1, IF Len(eligible) < HeldCourses THEN Len(eligible) ELSE HeldCourses))
split_sources(facts) ==
  LET group == SourceGroup(facts)
      held == { group[f] : f \in { x \in facts : Para[x].course \in HeldOutCourses(facts) } }
  IN  [ f \in facts |-> CASE group[f] \in held -> "test"
                          [] group[f] \notin held /\ Bucket[group[f]] < 65 -> "train"
                          [] group[f] \notin held /\ Bucket[group[f]] \in 65..91 -> "validation"
                          [] OTHER -> "test" ]

(* The fact and its most related companions of the pool, pairwise          *)
(* distinguishable; empty when there are too few.                          *)
choose_related(f, pool) ==
  LET Distinct(g, chosen) == /\ Para[g].concept # Para[f].concept
                             /\ \A x \in ToSet(chosen) : {g, x} \notin Similar
      chosen == FoldLeft(LAMBDA acc, g :
                           IF Len(acc) < Options /\ g \in pool /\ Distinct(g, acc)
                           THEN Append(acc, g) ELSE acc, <<f>>, Affinity[f])
  IN  IF Len(chosen) = Options THEN chosen ELSE <<>>

(* The question of fact f in one of three modes (term from definition,     *)
(* definition from term, two definitions), and the facts it quotes.        *)
make_sample(f, related, mode) ==
  [fact |-> f, mode |-> mode, context |-> ToSet(related),
   targets |-> IF mode = 2 THEN {related[1], related[2]} ELSE {f}]

(* The first question of every fact in order of quality, then the other    *)
(* two modes; a fact whose first question is refused has none at all.      *)
Candidates(facts, split) ==
  LET related == [ f \in facts |->
                     choose_related(f, { g \in facts : Para[g].course = Para[f].course
                                                       /\ split[g] = split[f] }) ]
      kept == SelectSeq(Priority, LAMBDA f : f \in facts /\ related[f] # <<>>
                                             /\ f \notin ExamStem /\ <<f, f % 3>> \notin Overlong)
      Sample(f, d) == make_sample(f, related[f], (f + d) % 3)
      Others(f) == SelectSeq(<<Sample(f, 1), Sample(f, 2)>>, LAMBDA s : <<s.fact, s.mode>> \notin Overlong)
  IN  [ i \in 1..Len(kept) |-> Sample(kept[i], 0) ]
      \o FlattenSeq([ i \in 1..Len(kept) |-> Others(kept[i]) ])

(* Round robin over the courses: one question per fact first, then the     *)
(* others, until the split has its number.                                 *)
balanced(cands, split, part) ==
  LET mine == SelectSeq(cands, LAMBDA s : split[s.fact] = part)
      First(i) == \A j \in 1..(i - 1) : mine[j].fact # mine[i].fact
      Turn(i) == Cardinality({ j \in 1..(i - 1) : /\ First(j) = First(i)
                                                  /\ Para[mine[j].fact].course = Para[mine[i].fact].course })
      Key(i) == <<IF First(i) THEN 0 ELSE 1, Turn(i), Para[mine[i].fact].course>>
      Before(i, j) == \E k \in 1..3 : /\ Key(i)[k] < Key(j)[k]
                                      /\ \A l \in 1..(k - 1) : Key(i)[l] = Key(j)[l]
      Place(i) == Cardinality({ j \in 1..Len(mine) : Before(j, i) })
      n == IF Len(mine) < Wanted[part] THEN Len(mine) ELSE Wanted[part]
  IN  [ k \in 1..n |-> mine[CHOOSE i \in 1..Len(mine) : Place(i) = k - 1] ]

(* Everything one preparation writes.  It refuses to pad a split, to let a *)
(* context cross splits and to share a concept or a group between splits.  *)
Prepared(excluded) ==
  LET facts == extract_facts(excluded)
      split == split_sources(facts)
      group == SourceGroup(facts)
      rows == [ p \in Parts |-> balanced(Candidates(facts, split), split, p) ]
      Context(p) == UNION { s.context : s \in ToSet(rows[p]) }
      Leak == \E p, q \in Parts : p # q /\
                \E f \in Context(p), g \in Context(q) :
                  Para[f].concept = Para[g].concept \/ group[f] = group[g]
  IN  [facts |-> facts, split |-> split, group |-> group, rows |-> rows,
       refused |-> \/ \E p \in Parts : Len(rows[p]) < Wanted[p]
                   \/ \E p \in Parts : \E f \in Context(p) : split[f] # p
                   \/ Leak]
=============================================================================
