---------------------------- MODULE HostedServer ----------------------------
(***************************************************************************)
(* The hosted service: requests are handled while a process serves the     *)
(* database that its start got hold of (src/hosted/server.py).  When the   *)
(* process ends, what it had in memory is gone; the ledger stays with the  *)
(* database.                                                               *)
(***************************************************************************)
EXTENDS HostedStorage, HostedAgent

vars == <<storage, agent>>

Init == StorageInit /\ AgentInit

Serving == stage = "serving"

\* uvicorn waits for the requests before it ends the lifespan.
Idle == \A r \in Requests : request[r] = None

Next ==
    \/ Bootstrap /\ UNCHANGED agent
    \/ Die /\ Restart
    \/ Idle /\ Stop /\ Restart
    \/ Serving /\ (\E r \in Requests : Handle(r)) /\ UNCHANGED storage
    \/ Tick /\ UNCHANGED storage

Spec == Init /\ [][Next]_vars

-----------------------------------------------------------------------------
TypeOK == StorageTypeOK /\ AgentTypeOK
=============================================================================
