---------------------------- MODULE MCRagIndexing ----------------------------
(* An instance of RagIndexing for TLC.                                     *)
EXTENDS RagIndexing

CONSTANTS d1, j1, j2, j3

\* One document: its upload and two reindexes.
UploadReindexTwice == [j \in {j1, j2, j3} |-> IF j = j1 THEN "UPLOAD" ELSE "REINDEX"]
SameDocThrice == [j \in {j1, j2, j3} |-> d1]
=============================================================================
