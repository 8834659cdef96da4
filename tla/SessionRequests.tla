------------------------------ MODULE SessionRequests ------------------------
(***************************************************************************)
(* Browser sessions and the one request that each has under way, for the   *)
(* modules of what users keep: KnowledgeObjects, KnowledgeMemory,          *)
(* SourceLinks and EvidenceBasket.                                         *)
(*                                                                         *)
(* A request is a record with an operation, op.  It is begun by a read on  *)
(* one connection, waits with what was read, and ends when it writes on    *)
(* another.                                                                *)
(***************************************************************************)
CONSTANTS
    Sessions,     \* browser sessions, each running one request at a time
    None          \* no request; SQL NULL, and a row that is not there

VARIABLE
    session       \* session -> the request under way, or None

Begin(s, request) ==
    /\ session[s] = None
    /\ session' = [session EXCEPT ![s] = request]

End(s) == session' = [session EXCEPT ![s] = None]

Turn(s, op) == session[s] # None /\ session[s].op = op
=============================================================================
