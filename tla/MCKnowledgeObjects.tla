------------------------ MODULE MCKnowledgeObjects ------------------------
(* Three objects, two sessions and two texts.                              *)
EXTENDS KnowledgeObjects, TLC

Symmetry == Permutations(Sessions) \cup Permutations(Objects)
                \cup Permutations(Contents)
=============================================================================
