-------------------------- MODULE MCQuizGeneration --------------------------
(* An instance of QuizGeneration: a quiz of two batches, two batches to     *)
(* append to it, or one question to ask for after a failure.                *)
EXTENDS QuizGeneration

MCPlan == [CREATE |-> <<<<1, 2>>, <<3>>>>, RETRY |-> <<<<4>>>>,
           APPEND |-> <<<<4>>, <<5>>>>]
Draft(s, p, sound, cites, fits) ==
  [slot |-> s, prompt |-> p, sound |-> sound, cites |-> cites, fits |-> fits]
\* Slot 1: a quote that is not found again, or wrong answers; slot 3: the
\* prompt of slot 1 once more.
MCDrafts ==
  [s \in 1..5 |->
     CASE s = 1 -> {Draft(1, "a", TRUE, "split", TRUE),
                    Draft(1, "a", FALSE, "valid", TRUE)}
       [] s = 2 -> {Draft(2, "b", TRUE, "valid", TRUE)}
       [] s = 3 -> {Draft(3, "a", TRUE, "valid", TRUE)}
       [] s = 4 -> {Draft(4, "c", TRUE, "valid", FALSE)}
       [] s = 5 -> {Draft(5, "d", TRUE, "valid", TRUE)}]
=============================================================================
