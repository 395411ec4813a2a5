---------------------------- MODULE MCExamRelease ----------------------------
(* Seven documents in the five layouts and one of none: a question over a  *)
(* page break, an item without a key, a copy in another document, a        *)
(* numeric variant, a near question, a question whose keys disagree, and a *)
(* corrected paper that comes out again with other circles.                *)
EXTENDS ExamRelease

L(k, v) == [k |-> k, v |-> v, label |-> 0, marks |-> <<>>, keys |-> {}, page |-> 0]
O(n, v) == [L("opt", v) EXCEPT !.label = n]
K(keys) == [L("key", None) EXCEPT !.keys = keys]
M(v, m) == [L("stem", v) EXCEPT !.marks = m]
Doc(signs, pages) == [signs |-> signs, pages |-> pages]

Letters == Doc({"ANSWER"},
  << << L("chrome", "h"), L("stem", "p1"), O(1, "a"), O(2, "b"), K({1}), L("stem", "p2n1"), O(1, "c") >>,
     << O(2, "d"), K({2}), L("stem", "p9"), O(1, "e") >> >>)
Moodle == Doc({"explicit", "question"},
  << << L("head", "Q"), L("stem", "p1"), L("select", "one"), O(1, "a"), O(2, "b"), K({"a"}),
        L("head", "Q"), L("stem", "p3"), L("select", "more"), O(1, "c"), O(2, "d"), O(3, "e"), K({"c"}), [L("more", None) EXCEPT !.keys = {"d"}] >>,
     << L("head", "Q"), L("stem", "p8"), L("select", "one"), L("stem", "u") >> >>)
Corrected(first) == Doc({"Corrected"},
  << << L("head", "Q"), L("stem", "p4"), M("a", IF first THEN <<"filled">> ELSE <<"empty">>), M("b", IF first THEN <<"empty">> ELSE <<"filled">>) >> >>)
Forms == Doc({"Correct", "points"},
  << << L("head", "full"), L("stem", "p2n2"), M("c", <<"empty">>), M("d", <<"filled">>),
        L("head", "full"), L("stem", "p11"), M("c", <<"empty">>), M("d", <<"filled">>),
        L("head", "part"), L("stem", "p7"), M("c", <<"filled">>), M("d", <<"empty">>) >> >>)
Inline == Doc({"key_sheet"},
  << << L("head", "Q"), L("stem", "p5"), O(1, "a"), O(2, "b"), [K({2}) EXCEPT !.v = "why"],
        L("head", "Q"), L("stem", "p6"), O(1, "a"), O(2, "b"), K({}) >> >>)
Near4 == Doc({"ANSWER"}, << << L("stem", "p4x"), O(1, "a"), O(2, "b"), K({1}), L("stem", "p10"), O(1, "f"), O(2, "g"), K({2}),
                               L("stem", "p11"), O(1, "c"), O(2, "d"), K({1}) >> >>)
Scanned == Doc({}, << <<>> >>)

MCText == << <<Letters>>, <<Moodle>>, <<Corrected(TRUE), Corrected(FALSE)>>, <<Forms>>, <<Inline>>, <<Near4>>, <<Scanned>> >>
MCCourse == << 1, 1, 1, 1, 1, 1, 1 >>
Wordings == {"p1", "p2n1", "p2n2", "p3", "p4", "p4x", "p5", "p10", "p11"}
MCTemplate == [ w \in Wordings |-> IF w \in {"p2n1", "p2n2"} THEN "p2#" ELSE w ]
MCAlike == { {<<"p4">>, <<"p4x">>} }
MCExcludable == { <<6, 1, 8>> }
MCLong == { <<"p10">> }
MCCuratable == { <<"p1">> }
MCReviewed == { <<2, 1, 1>> }
=============================================================================
