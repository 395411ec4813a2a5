------------------------------ MODULE MCFourWay ------------------------------
(* Two questions, one with a reply that does not parse; two machines with  *)
(* the same packages and another GPU, and one with other packages.         *)
EXTENDS FourWay

MCQuestion == << [course |-> 2, correct |-> <<TRUE, FALSE>>], [course |-> 1, correct |-> <<FALSE, TRUE>>] >>
MCHashOrder == <<1, 2>>
Quiz(errors, same) == [json |-> TRUE, errors |-> errors, aligned |-> TRUE, same |-> same]
MCReply == [ v \in Variants |->
  << [labels |-> IF v = "base" THEN None ELSE {1}, quiz |-> Quiz(v = "cpt", TRUE)],
     [labels |-> IF v \in {"base", "sft"} THEN {2} ELSE {1, 2}, quiz |-> Quiz(FALSE, v = "sft")] >> ]
MCMachines == { [gpu |-> "t4", build |-> "fp16"], [gpu |-> "v100", build |-> "fp16"], [gpu |-> "l4", build |-> "bf16"] }
=============================================================================
