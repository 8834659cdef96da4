--------------------------- MODULE MCDocumentReading ---------------------------
(* Sessions that read and edit one document with restarts and errors and ask
   nothing, or that ask with no restart and no error to come. *)
EXTENDS DocumentReading

MCInit ==
    /\ Init
    /\ \/ asks = MaxAsks /\ crashes = 0 /\ faults = 0
       \/ asks = 0 /\ crashes = MaxCrashes /\ faults = MaxFaults

MCSpec == MCInit /\ [][Next]_vars /\ Fairness
=============================================================================
