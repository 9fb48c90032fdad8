---------------------------- MODULE MCBridgeStore ----------------------------
(* A small instance of BridgeStores: of BridgeLedger one in which the whole  *)
(* safety evidence of one task (lease, assessment, Guardian, effect, safety  *)
(* decision) fits, of PostgresBridgeStore two processes on one run.          *)
EXTENDS BridgeStores, TLC

CONSTANTS k1, k2, s1, s2    \* keys and sessions of the PostgreSQL store

MCBindings == {[policy |-> "p1", turn |-> "u1", campaign |-> "c1", watermark |-> 1],
               [policy |-> "p1", turn |-> "u2", campaign |-> "c1", watermark |-> 1]}
MCStoreBindings == {b \in MCBindings : b.turn = "u1"}
MCStoreKeys == {k1, k2}
MCSessions == {s1, s2}

Of(type, task, turn, mark) ==
    [type |-> type, ours |-> TRUE, policy |-> "p1", turn |-> turn, campaign |-> "c1",
     watermark |-> mark, task |-> task, high |-> TRUE, evidence |-> {}, sources |-> {}]
Assessment == Of("SYSTEM_RISK_ASSESSMENT", "t1", "u1", 1)
LowAssessment == [Assessment EXCEPT !.high = FALSE]
Guardian == [Of("GUARDIAN_DECISION", "t1", "u1", 1) EXCEPT !.evidence = {Assessment}]
LowGuardian == [Guardian EXCEPT !.evidence = {LowAssessment}]
Effect == Of("CANONICAL_EFFECT", "t1", "u1", 1)
Safety == [Of("SAFETY_DECISION", "t1", "u1", 1) EXCEPT !.evidence = {Effect, Guardian}]
Packet == Of("ATTENTION_PACKET", "t1", "u1", 1)
Projection == [Of("USER_STATUS_PROJECTION", "t1", "u1", 1) EXCEPT !.evidence = {Guardian},
                                                                 !.sources = {1, 3}]
LateProjection == [Of("USER_STATUS_PROJECTION", "t2", "u1", 1) EXCEPT !.sources = {2}]
Lease(task, turn, mark) == Of("VERIFIED_TASK_LEASE_ADMISSION", task, turn, mark)
Evaluation(task) == Of("VERIFIED_EVALUATOR_ADMISSION", task, "u1", 1)

MCPayloads == {Assessment, LowAssessment, Guardian, LowGuardian, Effect,
               Safety, Packet, Projection, LateProjection, Lease("t1", "u1", 1),
               Lease("t2", "u1", 1), Evaluation("t1")}
MCStorePayloads == {Effect, Lease("t1", "u1", 1), Evaluation("t1")}

-----------------------------------------------------------------------------
ASSUME StoreAssumption

\* The keys 1, 2, ... of the ledger are interchangeable: they are used in this order.
KeysInOrder == \A n \in DOMAIN chain : chain[n].key = n

MCNext == StoresNext /\ KeysInOrder'
MCSpec == StoresInit /\ [][MCNext]_storesVars

Symmetry == Permutations({k1, k2}) \cup Permutations({s1, s2})
=============================================================================
