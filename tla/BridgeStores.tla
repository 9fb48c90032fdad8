----------------------------- MODULE BridgeStores -----------------------------
(***************************************************************************)
(* The two stores a bridge may be started with (build_bridge_store,        *)
(* apps/agentteams_bridge/store.py): SQLite's, whose operations are the    *)
(* atomic ones of BridgeLedger, or PostgreSQL's.  The database URL chooses *)
(* one when the process starts; the other stays as it is.                  *)
(***************************************************************************)
EXTENDS PostgresBridgeStore

VARIABLE part    \* the store in use

storesVars == <<part, vars, storeVars>>

StoresInit == Init /\ StoreInit /\ part \in {"ledger", "store"}
StoresNext == \/ part = "ledger" /\ Next /\ UNCHANGED <<part, storeVars>>
              \/ part = "store" /\ StoreNext /\ UNCHANGED <<part, vars>>
StoresSpec == StoresInit /\ [][StoresNext]_storesVars

\* Replays are complete and no transactions deadlock, whichever statements of whichever
\* sessions interleave: see ReplayComplete and NoWaitCycle of PostgresBridgeStore
\* (replay_extension_authority, and the locks of every call).
StoreRules == TypeOK /\ StoreTypeOK /\ ReplayComplete /\ NoWaitCycle
===============================================================================
