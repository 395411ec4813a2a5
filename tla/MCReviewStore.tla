---------------------------- MODULE MCReviewStore ----------------------------
(* An instance of ReviewStore for TLC: a page for the vision model and a   *)
(* page for plain text.                                                    *)
EXTENDS ReviewStore

MCCatalogues == {{1}, {2}, {}}
MCClassOf == 1 :> "auto_vlm" @@ 2 :> "text"

=============================================================================
