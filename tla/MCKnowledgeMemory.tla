-------------------------- MODULE MCKnowledgeMemory --------------------------
(* Two sessions and two questions, for TLC.                                *)
EXTENDS KnowledgeMemory, TLC

Symmetry == Permutations(Sessions) \cup Permutations(Questions)
=============================================================================
