--------------------------- MODULE MCSourceLinks ---------------------------
(* Two sessions, two pages and what is taken from them, for TLC.           *)
EXTENDS SourceLinks, TLC

Symmetry == Permutations(Sessions) \cup Permutations(Pages)
=============================================================================
