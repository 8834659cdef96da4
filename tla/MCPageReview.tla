----------------------------- MODULE MCPageReview -----------------------------
(* The text of the pages in depth, with no tag or project in use, and the tags
   and projects beside few writes of the pages. *)
EXTENDS PageReview, TLC

CONSTANTS WritesBesideClasses

MCInit ==
    /\ Init
    /\ \/ writes = 0 /\ \A t \in Targets : phase[t] = "deleted"
       \/ writes = MaxWrites - WritesBesideClasses /\ \A t \in Targets : phase[t] = "free"

MCSpec == MCInit /\ [][Next]_vars

Symmetry ==
    Permutations(Pages) \cup Permutations(Contents) \cup Permutations(Sessions)
=============================================================================
