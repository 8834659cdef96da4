--------------------------- MODULE MCHostedServer ---------------------------
(* Three connections of two clients, two slots, and three days of which    *)
(* the last begins another month, for TLC.                                 *)
EXTENDS HostedServer, TLC

Symmetry == Permutations(Requests) \cup Permutations(Clients)

MCMonthStart == [d \in 0 .. 2 |-> IF d = 2 THEN 2 ELSE 0]
=============================================================================
