---------------------------- MODULE MCPedagogy ----------------------------
(* A small corpus of one course: an exam question with theory in its own    *)
(* split, two nearly equal contexts in blocks that would hash to different  *)
(* splits, a repeated text, an unreadable record and an overlong line.      *)
EXTENDS Pedagogy

MCRecord(id, doc, page, size, text, bad) ==
  [id |-> id, doc |-> doc, page |-> page, size |-> size, text |-> text, bad |-> bad, cptTrain |-> TRUE]
MCRecords == { MCRecord(1, 1, 1, 3, "a", FALSE), MCRecord(2, 1, 2, 3, "b", FALSE),
               MCRecord(3, 1, 3, 4, "c", FALSE), MCRecord(4, 1, 3, 4, "c", FALSE),
               MCRecord(5, 1, 5, 12, "d", FALSE), MCRecord(6, 1, 6, 2, "e", TRUE),
               MCRecord(7, 1, 7, 4, "f", FALSE), MCRecord(8, 1, 8, 1, "g", FALSE) }
MCExam == { [id |-> 1, split |-> "train", group |-> "g1", course |-> 1, prompt |-> "old", key |-> "A",
             multi |-> FALSE, shallow |-> TRUE],
            [id |-> 2, split |-> "test", group |-> "g2", course |-> 1, prompt |-> "old2", key |-> "B",
             multi |-> FALSE, shallow |-> FALSE] }
MCCorpora ==
  { [records |-> MCRecords, course |-> [d \in {1} |-> 1], alike |-> {{1, 3}},
     hash |-> [b \in {1} \X (0..3) |-> IF b[2] = 0 THEN "train" ELSE "test"],
     exam |-> MCExam, mapped |-> [c \in {1} |-> {1}], related |-> {},
     cover |-> [q \in {1, 2} |-> [c \in 1..8 |-> IF c = 1 THEN 50 ELSE 5]],
     sample |-> {1000}, long |-> {}] }
MCDraft(p, k, n, s) == [prompt |-> p, key |-> k, numeric |-> n, sound |-> s]
MCDrafts ==
  [enrich |-> { MCDraft("old", "A", FALSE, TRUE) },
   theory |-> { MCDraft("new", "A", FALSE, TRUE), MCDraft("new", "B", FALSE, TRUE),
                MCDraft("fresh", "A", FALSE, TRUE) }]
MCUsed == [p \in { <<"fast", "full">>, <<"strict", "pilot">> } |-> 2]
=============================================================================
