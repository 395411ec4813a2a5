---------------------------- MODULE MCUnitQueue ----------------------------
(* A small corpus: unit 1 has a job that needs layout discovery and one     *)
(* that does not, unit 2 a single job for the VLM.                          *)
EXTENDS UnitQueue

CONSTANTS j1, j2, j3, d1, d2

SmallCorpus == <<{j1, j2}, {j3}>>
=============================================================================
