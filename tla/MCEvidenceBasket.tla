-------------------------- MODULE MCEvidenceBasket -------------------------
(* Two sessions and the items of two pages, for TLC.                       *)
EXTENDS EvidenceBasket

Symmetry == Permutations(Sessions) \cup Permutations(Pages)
                \cup Permutations(PageContents)
=============================================================================
