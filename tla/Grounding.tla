------------------------------ MODULE Grounding ------------------------------
(***************************************************************************)
(* What rag-service reads for a question or a quiz, as functions of the    *)
(* chunks: the hybrid search (HybridRetrievalService), the choice of       *)
(* chunks for a quiz (QuizContextSelector), the context cut from them      *)
(* (ContextBuilder) and the quotes mapped back to it (CitationMatcher).    *)
(*                                                                         *)
(* A chunk is its place in a document, its length, the trigrams of its     *)
(* text and its share of the words of the title, in units of 1/Unit; a     *)
(* score is an integer.                                                    *)
(***************************************************************************)
EXTENDS Integers, SequencesExt

CONSTANTS
  MaxSources,      \* quiz context: sources at most
  MaxChars,        \* RAG_MAX_CONTEXT_CHARS
  MinUsefulChars,
  HeaderChars,     \* length of the header of a block
  Unit,            \* a multiple of the size of every union of trigrams
  DuplicateAt,     \* near_duplicate_threshold (0.85), in units of 1/Unit
  RrfK,            \* HYBRID_RRF_K
  RerankMin,       \* RERANK_MIN_CANDIDATES
  RerankLimit,     \* RERANK_CANDIDATES
  Margin,          \* CITATION_UNIQUENESS_MARGIN
  VectorLimit,     \* VECTOR_CANDIDATES
  Bm25Limit,       \* BM25_CANDIDATES
  MinScore,        \* MIN_VECTOR_SCORE
  Corpora,         \* bound: sets of chunks to select from
  Rankings,        \* bound: sequences of chunk ids, best first
  Scorings,        \* bound: scores of a reranker
  Texts, Scores,   \* bound: sources, and scores of their windows
  Views, Relevances, \* bound: corpora of a search, and scores of their chunks
  Contexts, Answers  \* bound: sources of a context, and replies of the model

ASSUME GroundingAssumptions ==
  /\ {MaxSources, MaxChars, MinUsefulChars, HeaderChars, Unit, RerankLimit} \subseteq Nat \ {0}
  /\ DuplicateAt \in 1 .. Unit /\ RrfK \in Nat /\ RerankMin \in Nat
  /\ Margin \in Nat \ {0}
  /\ \A view \in Views : DOMAIN view = {"chunks", "allowed"}

-----------------------------------------------------------------------------
(* Sorting and near duplicates.                                            *)

\* The elements of S in the total order Before.
Ordered(S, Before(_, _)) ==
  [i \in 1 .. Cardinality(S) |->
     CHOOSE x \in S : Cardinality({y \in S : Before(y, x)}) = i - 1]

Similarity(c, d) ==
  (Unit * Cardinality(c.grams \cap d.grams)) \div Cardinality(c.grams \union d.grams)

IsDuplicate(c, chosen) == \E d \in ToSet(chosen) : Similarity(c, d) >= DuplicateAt

Location(c) == <<c.doc, c.page>>

-----------------------------------------------------------------------------
(* ContextBuilder.                                                         *)

\* One pass over the ranked chunks; the first pass takes one per location.
Pass(ranked, topK, diverseOnly, taken) ==
  FoldLeft(LAMBDA chosen, c :
             IF \/ Len(chosen) >= topK
                \/ Contains(chosen, c)
                \/ diverseOnly /\ \E d \in ToSet(chosen) : Location(d) = Location(c)
                \/ IsDuplicate(c, chosen)
             THEN chosen ELSE Append(chosen, c),
           taken, ranked)

\* Mutant: no pass for diversity and none against duplicates.
FirstOnes(ranked, topK) == SubSeq(ranked, 1, IF Len(ranked) < topK THEN Len(ranked) ELSE topK)
Diversify(ranked, topK) ==
  Pass(ranked, topK, FALSE, Pass(ranked, topK, TRUE, << >>))

\* The chunks before and after each primary one follow, unless they are
\* there already or repeat what is.
WithNeighbours(primary, available) ==
  LET Around(c) == << <<c.doc, c.index - 1>>, <<c.doc, c.index + 1>> >>
      Places == FlattenSeq([i \in 1 .. Len(primary) |-> Around(primary[i])])
  IN FoldLeft(LAMBDA out, place :
                out \o SetToSeq({c \in available : /\ <<c.doc, c.index>> = place
                                                   /\ ~IsDuplicate(c, out)}),
              primary, Places)

Separator(used) == IF used = 0 THEN 0 ELSE 2

\* A chunk that does not fit is cut when it is the first, else left out; the
\* building ends when not even a header fits.
\* Mutant: a chunk is kept whole whatever room is left.
KeepWhole(sofar, c) ==
  [sofar EXCEPT !.sources = Append(@, c),
                !.used = @ + Separator(@) + HeaderChars + c.chars]
AddBlock(sofar, c) ==
  LET room == MaxChars - sofar.used - Separator(sofar.used) - HeaderChars
      first == sofar.sources = << >>
  IN IF sofar.full \/ room <= 0 THEN [sofar EXCEPT !.full = TRUE]
     ELSE IF c.chars > room /\ ~first THEN sofar
     ELSE [sofar EXCEPT
            !.sources = Append(@, c),
            !.used = @ + Separator(@) + HeaderChars
                       + (IF c.chars > room THEN room ELSE c.chars)]

Build(ranked, available, topK) ==
  FoldLeft(AddBlock, [sources |-> << >>, used |-> 0, full |-> FALSE],
           WithNeighbours(Diversify(ranked, topK), available))

-----------------------------------------------------------------------------
(* QuizContextSelector.                                                    *)

TotalChars(chunks) == FoldSet(LAMBDA c, n : n + c.chars, 0, chunks)

ReadingOrder(c, d) ==
  \/ c.doc < d.doc
  \/ c.doc = d.doc /\ c.page < d.page
  \/ c.doc = d.doc /\ c.page = d.page /\ c.index < d.index

Relevant(c, d) ==
  \/ c.hits > d.hits
  \/ c.hits = d.hits /\ c.page < d.page
  \/ c.hits = d.hits /\ c.page = d.page /\ c.index < d.index

\* The first candidate with the best score: 0.7 relevance + 0.3 novelty.
MostDiverse(candidates, chosen) ==
  IF chosen = << >> THEN 1
  ELSE LET Nearest(c) == Max({Similarity(c, d) : d \in ToSet(chosen)})
           score == [i \in 1 .. Len(candidates) |->
                       7 * candidates[i].hits + 3 * (Unit - Nearest(candidates[i]))]
       IN Min({i \in DOMAIN score : \A k \in DOMAIN score : score[k] <= score[i]})

\* One chunk of each document in turn.
\* Mutant: a document is read to its end before the next.
OneByOne(chunks) ==
  LET docs == Ordered({c.doc : c \in chunks}, LAMBDA d, e : d < e)
      all == FlattenSeq([i \in 1 .. Len(docs) |->
                Ordered({c \in chunks : c.doc = docs[i]}, Relevant)])
  IN FirstOnes(all, MaxSources)
Balanced(chunks) ==
  LET docs == Ordered({c.doc : c \in chunks}, LAMBDA d, e : d < e)
      turns == FlattenSeq([i \in 1 .. MaxSources |-> docs])
      Turn(s, doc) ==
        IF s.left[doc] = << >> \/ Len(s.chosen) >= MaxSources THEN s
        ELSE LET best == MostDiverse(s.left[doc], s.chosen)
             IN [chosen |-> Append(s.chosen, s.left[doc][best]),
                 left |-> [s.left EXCEPT ![doc] = RemoveAt(@, best)]]
  IN FoldLeft(Turn,
       [chosen |-> << >>,
        left |-> [d \in ToSet(docs) |-> Ordered({c \in chunks : c.doc = d}, Relevant)]],
       turns).chosen

TakesAll(chunks) ==
  Cardinality(chunks) <= MaxSources /\ TotalChars(chunks) <= MaxChars

Rank(chunks) ==
  IF TakesAll(chunks) THEN Ordered(chunks, ReadingOrder) ELSE Balanced(chunks)

\* NoContext stands for the errors 409 and 422.
NoContext == [sources |-> << >>, used |-> 0, full |-> FALSE]
Select(chunks) ==
  IF chunks = {} \/ TotalChars(chunks) + Cardinality(chunks) - 1 < MinUsefulChars
  THEN NoContext
  ELSE Build(Rank(chunks), chunks, MaxSources)

-----------------------------------------------------------------------------
(* HybridRetrievalService: a ranking is a sequence of chunk ids, best      *)
(* first.  A corpus view is its chunks by id and the documents allowed.     *)

Visible(view) == {c \in DOMAIN view.chunks : view.chunks[c].doc \in view.allowed}

ByScore(S, score) ==
  Ordered(S, LAMBDA a, b : score[a] > score[b] \/ (score[a] = score[b] /\ a < b))

\* Each index returns its best chunks, then those of all are ranked.
\* Mutant: the filter comes after the limit.
FilteredLate(views, score) ==
  LET Best(view) == ToSet(FirstOnes(ByScore(DOMAIN view.chunks, score), VectorLimit))
      found == UNION {Best(view) \cap Visible(view) : view \in views}
  IN FirstOnes(ByScore({c \in found : score[c] >= MinScore}, score), VectorLimit)
VectorRanking(views, score) ==
  LET Best(view) == ToSet(FirstOnes(ByScore(Visible(view), score), VectorLimit))
      found == UNION {Best(view) : view \in views}
  IN FirstOnes(ByScore({c \in found : score[c] >= MinScore}, score), VectorLimit)

Bm25Ranking(views, score) ==
  LET corpus == UNION {Visible(view) : view \in views}
  IN FirstOnes(ByScore({c \in corpus : score[c] > 0}, score), Bm25Limit)

Place(list, id) == CHOOSE i \in DOMAIN list : list[i] = id

\* 1 / (k + rank), times a common multiple of the ranks that occur.
RrfWeight(depth, rank) ==
  FoldSet(LAMBDA r, n : n * (RrfK + r), 1, (1 .. depth) \ {rank})

\* Mutant: the second list replaces the score of the first.
LastRankOnly(vector, bm25, id) ==
  LET depth == Len(vector) + Len(bm25)
      Part(list) == IF Contains(list, id) THEN RrfWeight(depth, Place(list, id)) ELSE 0
  IN IF Contains(bm25, id) THEN Part(bm25) ELSE Part(vector)
RrfScore(vector, bm25, id) ==
  LET depth == Len(vector) + Len(bm25)
      Part(list) == IF Contains(list, id) THEN RrfWeight(depth, Place(list, id)) ELSE 0
  IN Part(vector) + Part(bm25)

Fuse(vector, bm25) ==
  LET Better(a, b) ==
        LET x == RrfScore(vector, bm25, a)
            y == RrfScore(vector, bm25, b)
        IN x > y \/ (x = y /\ a < b)
  IN Ordered(ToSet(vector) \union ToSet(bm25), Better)

\* `score` of the reranker is a function on ids, or NoScores without one.
NoScores == << >>
Rerank(fused, score) ==
  LET head == FirstOnes(fused, RerankLimit)
      tail == SubSeq(fused, Len(head) + 1, Len(fused))
      Better(a, b) ==
        \/ score[a] > score[b]
        \/ score[a] = score[b] /\ Place(fused, a) < Place(fused, b)
  IN IF Len(fused) < RerankMin \/ score = NoScores THEN fused
     ELSE Ordered(ToSet(head), Better) \o tail

\* One relevance stands for the vector and the BM25 score of a chunk.
Search(views, score, topK) ==
  FirstOnes(Rerank(Fuse(VectorRanking(views, score), Bm25Ranking(views, score)), NoScores),
            topK)

\* RagPipelineService.ask: the context of a question, with the neighbours of
\* what was found.
ContextFor(views, found, topK) ==
  LET chunks == [c \in ToSet(found) |-> (CHOOSE v \in views : c \in Visible(v)).chunks[c]]
      available == UNION {{v.chunks[c] : c \in Visible(v)} : v \in views}
  IN Build([i \in DOMAIN found |-> chunks[found[i]]], available, topK)

-----------------------------------------------------------------------------
(* GroundedAnswerService: a reply of the model is what it says it used,    *)
(* what its text cites and whether the context was too little; Malformed   *)
(* when it is no JSON and cites nothing.                                   *)

Malformed == [used |-> {}, cited |-> {}, insufficient |-> FALSE, parses |-> FALSE]
Insufficient == [status |-> "insufficient", cited |-> {}, sources |-> {}]
Failed == [status |-> "failed", cited |-> {}, sources |-> {}]

grounding_invalid(reply, context) ==
  ~(reply.used \subseteq context) \/ ~(reply.cited \subseteq reply.used)

\* Mutant: what the repair returns is not checked again.
RepairTrusted(context, first, second) ==
  IF grounding_invalid(first, context) THEN second ELSE first
Repaired(context, first, second) ==
  IF ~grounding_invalid(first, context) THEN first
  ELSE IF grounding_invalid(second, context) THEN Malformed ELSE second

Answer(context, first, second) ==
  LET reply == IF first.parses THEN Repaired(context, first, second) ELSE Malformed
  IN IF context = {} THEN Insufficient
     ELSE IF ~reply.parses THEN Failed
     ELSE IF reply.insufficient THEN Insufficient
     ELSE [status |-> "answered", cited |-> reply.cited, sources |-> context \cap reply.used]

-----------------------------------------------------------------------------
(* CitationMatcher: windows of one to three sentences of each source.      *)

\* A source is the sequence of the lengths of its sentences.
Windows(id, sentences, minChars, maxChars, limit) ==
  LET Offset(i) == FoldLeft(+, 0, SubSeq(sentences, 1, i - 1))
      spans == FlattenSeq([i \in 1 .. Len(sentences) |->
                 [w \in 1 .. Min({3, Len(sentences) - i + 1}) |->
                    [source |-> id, start |-> Offset(i), end |-> Offset(i + w)]]])
      Fits(s) == s.end - s.start \in minChars .. maxChars
  IN FirstOnes(SelectSeq(spans, Fits), limit)

HalfOverlaps(v, w) ==
  /\ v.source = w.source
  /\ 2 * (Min({v.end, w.end}) - Max({v.start, w.start}))
       >= Min({v.end - v.start, w.end - w.start})

\* The best window, when its score reaches the threshold and no other window
\* that reads something else comes within the margin.  `scored` is in the
\* order of the sources: sorted() is stable.
NoMatch == <<"none">>
\* Mutant: the margin is kept against nobody.
BestOfAll(scored, threshold) ==
  LET best == {i \in DOMAIN scored : \A k \in DOMAIN scored : scored[k].score <= scored[i].score}
  IN IF \E i \in best : scored[i].score >= threshold
     THEN <<scored[Min(best)].window>> ELSE NoMatch
BestUnique(scored, threshold) ==
  LET Chars(x) == x.window.end - x.window.start
      order == Ordered(DOMAIN scored, LAMBDA i, k :
                 LET x == scored[i]
                     y == scored[k]
                 IN \/ x.score > y.score
                    \/ x.score = y.score /\ Chars(x) < Chars(y)
                    \/ x.score = y.score /\ Chars(x) = Chars(y) /\ i < k)
      best == scored[order[1]]
      rivals == SelectSeq(Tail(order), LAMBDA i : ~HalfOverlaps(scored[i].window, best.window))
  IN IF scored = << >> \/ best.score < threshold THEN NoMatch
     ELSE IF rivals # << >> /\ best.score - scored[rivals[1]].score < Margin THEN NoMatch
     ELSE <<best.window>>

-----------------------------------------------------------------------------
(* Properties, over the bounded inputs.                                    *)

\* A context keeps to its characters and repeats nothing; when all chunks fit
\* with their headers, each is there or repeats one that is; and no document
\* waits for a second chunk of its own while another has had three.
ContextsAreSound ==
  \A chunks \in Corpora :
    LET context == Select(chunks)
        sources == context.sources
        ranked == Rank(chunks)
        Share(d) == Cardinality({i \in DOMAIN ranked : ranked[i].doc = d})
        Size(d) == Cardinality({c \in chunks : c.doc = d})
    IN /\ context.used <= MaxChars
       /\ \A i, k \in DOMAIN sources :
            i # k => Similarity(sources[i], sources[k]) < DuplicateAt
       /\ /\ context # NoContext /\ TakesAll(chunks)
          /\ TotalChars(chunks) + Cardinality(chunks) * (HeaderChars + 2) <= MaxChars
          => \A c \in chunks : Contains(sources, c) \/ IsDuplicate(c, sources)
       /\ ~TakesAll(chunks) =>
            \A c, d \in chunks :
              Share(c.doc) + 1 < Share(d.doc) => Share(c.doc) = Size(c.doc)

\* A chunk that comes before another in each list that has the other comes
\* before it in the fused list; the reranker moves only the head and loses
\* nothing; and which window a quote is mapped to does not depend on the
\* order in which the sources were given.
RankingsAreSound ==
  /\ \A vector, bm25 \in Rankings :
       LET fused == Fuse(vector, bm25)
           Ahead(list, a, b) ==
             Contains(list, b) => Contains(list, a) /\ Place(list, a) < Place(list, b)
       IN /\ \A a, b \in ToSet(fused) :
               a # b /\ Ahead(vector, a, b) /\ Ahead(bm25, a, b)
                 => Place(fused, a) < Place(fused, b)
          /\ \A score \in Scorings :
               LET reranked == Rerank(fused, score) IN
               /\ Len(reranked) = Len(fused) /\ ToSet(reranked) = ToSet(fused)
               /\ \A i \in DOMAIN fused : i > RerankLimit => reranked[i] = fused[i]
  /\ \A first, second \in Texts, s, t \in Scores :
       LET Scored(id, text, score) ==
             LET windows == Windows(id, text, 1, 6, 4)
             IN [i \in 1 .. Len(windows) |-> [window |-> windows[i], score |-> score[i]]]
           one == Scored(1, first, s)
           two == Scored(2, second, t)
       IN BestUnique(one \o two, 2) = BestUnique(two \o one, 2)

\* A search finds what it would find if the chunks the owner may not see did
\* not exist: they take no place of those he may see, in no list.  The best
\* of these is found.
SearchesAreFiltered ==
  \A view, other \in Views, score \in Relevances :
    LET Own(v) == [v EXCEPT !.chunks = [c \in Visible(v) |-> v.chunks[c]]]
        found == Search({view, other}, score, 2)
        all == Visible(view) \union Visible(other)
    IN /\ found = Search({Own(view), Own(other)}, score, 2)
       /\ ToSet(found) \subseteq all
       /\ \A source \in ToSet(ContextFor({view, other}, found, 2).sources) :
            source.doc \in view.allowed \union other.allowed
       /\ \A c \in all : (score[c] >= MinScore /\ \A b \in all \ {c} : score[b] < score[c])
                           => Contains(found, c)

\* An answer cites only sources it lists, and lists only sources that were in
\* its context; a reply that keeps to that is not asked for again.
AnswersAreGrounded ==
  \A context \in Contexts, first, second \in Answers :
    LET answer == Answer(context, first, second)
    IN /\ answer.cited \subseteq answer.sources /\ answer.sources \subseteq context
       /\ answer.status = "answered" /\ answer.cited # first.cited
            => ~(first.cited \subseteq first.used /\ first.used \subseteq context)
=============================================================================
