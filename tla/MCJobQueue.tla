----------------------------- MODULE MCJobQueue -----------------------------
(* Instances of JobQueue for TLC. *)
EXTENDS JobQueue

EmailThenQuiz == <<"EMAIL", "CREATE_QUIZ">>

OwnResource == <<"r1", "r2">>

TwoThenOne == <<2, 1>>
=============================================================================
