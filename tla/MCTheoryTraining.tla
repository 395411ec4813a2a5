-------------------------- MODULE MCTheoryTraining --------------------------
(***************************************************************************)
(* Nine paragraphs of two courses in seven page blocks; paragraph 3 repeats *)
(* the concept of paragraph 1 in another block, so that excluding it parts *)
(* two groups and one of them changes its split.                           *)
(***************************************************************************)
EXTENDS TheoryTraining, TLC

P(c, q, b, course) == [concept |-> c, defn |-> q, quote |-> q, block |-> b, course |-> course, clean |-> TRUE]
MCPara == << P(1, 1, 1, 1), P(2, 2, 1, 1), P(1, 3, 2, 1), P(4, 4, 2, 1), P(5, 5, 3, 1),
             P(6, 6, 3, 1), P(7, 7, 4, 1), P(8, 8, 4, 1), P(9, 9, 5, 2) >>
MCSimilar == {{7, 1}}
MCAffinity == [ f \in 1..9 |-> [ i \in 1..8 |-> IF i < f THEN i ELSE i + 1 ] ]
MCPriority == [ i \in 1..9 |-> 10 - i ]
MCBucket == (1 :> 10) @@ (2 :> 95) @@ (3 :> 70) @@ (4 :> 99) @@ (5 :> 20)
MCHoldOrder == <<2, 1>>
MCWanted == [train |-> 2, validation |-> 1, test |-> 1]
Answer(flawed, kept, anchored) == [json |-> TRUE, flawed |-> flawed, kept |-> kept, anchored |-> anchored]
\* Well formed throughout but with foreign options, or one usable answer of three.
MCGenerations == { [answers |-> [ i \in 1..3 |-> Answer(FALSE, TRUE, FALSE) ], loss |-> 1],
                   [answers |-> <<Answer(FALSE, TRUE, TRUE), Answer(TRUE, FALSE, FALSE), Answer(TRUE, FALSE, FALSE)>>,
                    loss |-> 12] }
MCSaves == "t4" :> 2 @@ "a100" :> 1
=============================================================================
