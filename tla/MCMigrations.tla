--------------------------- MODULE MCMigrations ---------------------------
(* Two programs and one database of any age, for TLC.                      *)
EXTENDS Migrations, TLC

Symmetry == Permutations(Processes) \cup Permutations(Entries)
=============================================================================
