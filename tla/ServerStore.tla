----------------------------- MODULE ServerStore -----------------------------
(***************************************************************************)
(* The server's use of Postgres from start-up on (cmd/server): replicas    *)
(* run Migrate before they listen, and once one of them does, recordings   *)
(* requests are served.                                                    *)
(***************************************************************************)
EXTENDS Migrations, Recordings

storeVars == <<vars, recordingsVars>>

StoreInit == Init /\ RecordingsInit

\* A replica listens.
Serving == \E r \in Replica : pc[r] = "ready"

StoreNext ==
  \/ Next /\ UNCHANGED recordingsVars
  \/ Serving /\ RecordingsNext /\ UNCHANGED vars

StoreSpec == StoreInit /\ [][StoreNext]_storeVars

\* Replicas keep executing, as in Migrations; no client has to do anything.
FairStoreSpec == StoreSpec /\ \A r \in Replica : WF_vars(Step(r))
=============================================================================
