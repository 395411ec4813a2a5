--------------------------- MODULE MCUserDocuments ---------------------------
(* Two instances of rag-service, two requests at a time in the first; and  *)
(* the inputs over which Grounding and SystemIndex are evaluated.          *)
EXTENDS UserDocuments, Grounding, SystemIndex

CONSTANTS p1, p2, t1, t2, t3

Requests == [t \in {t1, t2, t3} |-> IF t = t3 THEN p2 ELSE p1]

Alike == Permutations({t1, t2}) \union Permutations(Docs)

\* Six chunks of two documents; the second and the fourth read the same.
Chunk(doc, page, index, grams, chars, hits) ==
  [doc |-> doc, page |-> page, index |-> index, grams |-> grams,
   chars |-> chars, hits |-> hits]
Chunks ==
  {Chunk(1, 1, 0, {1, 2}, 3, 0), Chunk(1, 1, 1, {3, 4}, 2, 60),
   Chunk(1, 2, 2, {1, 2, 5}, 4, 30), Chunk(2, 1, 0, {3, 4}, 2, 60),
   Chunk(2, 1, 1, {5, 6}, 9, 0), Chunk(2, 2, 2, {2, 6}, 2, 30)}
AllCorpora == SUBSET Chunks

AllRankings == {s \in BoundedSeq(1 .. 4, 3) : IsInjective(s)}
AllScorings == {<< >>} \union [1 .. 4 -> {1, 2}]

AllTexts == {<< >>, <<2>>, <<1, 3>>, <<2, 2, 1>>}
AllScores == [1 .. 4 -> 1 .. 3]

\* Five chunks of three documents in two views that allow some of them.
AllViews ==
  {[chunks |-> c, allowed |-> a] : a \in SUBSET (1 .. 3),
     c \in {1 :> Chunk(1, 1, 0, {1, 2}, 3, 0) @@ 2 :> Chunk(1, 1, 1, {3, 4}, 2, 0)
              @@ 3 :> Chunk(2, 1, 0, {1, 5}, 2, 0),
            4 :> Chunk(3, 1, 0, {2, 6}, 2, 0) @@ 5 :> Chunk(2, 1, 1, {7}, 2, 0)}}
AllRelevances == [1 .. 5 -> 0 .. 2]

AllContexts == SUBSET {1, 2}
AllAnswers == {Malformed} \union
  [used : SUBSET (1 .. 3), cited : SUBSET (1 .. 3), insufficient : BOOLEAN, parses : {TRUE}]

AllSections == {s \in BoundedSeq({"a", ".", " ", "P"}, 7) :
  \A i \in DOMAIN s : s[i] \in Spaces => i \notin {1, Len(s)} /\ s[i + 1] \notin Spaces}
AllFolders == UNION {[paths -> 1 .. 3] : paths \in SUBSET (1 .. 2)}

\* The functions have no state: they are evaluated once, in the initial state.
\* What a question or a quiz reads is cut, ranked, filtered and cited as it
\* should be, and what is indexed is all of the text, as it is now.
FunctionsAreSound ==
  Init => /\ ContextsAreSound /\ RankingsAreSound /\ SearchesAreFiltered
          /\ AnswersAreGrounded /\ ChunksCoverText /\ SyncsAreFull
=============================================================================
