----------------------------- MODULE ImportPromise -----------------------------
(***************************************************************************)
(* What the import of one PDF promises, whatever fails on the way: the     *)
(* document is entered once, with its original file; every page gets a row *)
(* once; and as long as the file is imported again, an entered document    *)
(* ends up with all its pages.                                             *)
(***************************************************************************)
CONSTANT Pages

VARIABLES
    entered,  \* there is a document row, and its original file
    listed    \* pages with a row

vars == <<entered, listed>>

Init == /\ entered = FALSE
        /\ listed = {}

Enter == /\ ~entered
         /\ entered' = TRUE
         /\ UNCHANGED listed

List(p) == /\ entered
           /\ p \notin listed
           /\ listed' = listed \cup {p}
           /\ UNCHANGED entered

Next == Enter \/ \E p \in Pages : List(p)

Spec == Init /\ [][Next]_vars /\ WF_vars(\E p \in Pages : List(p))
=============================================================================
