-------------------------------- MODULE MCRxp --------------------------------
(* One or two processes work on a matrix of two cells.  The documents include *)
(* the ones a ledger must refuse: a reused Grant id, a late start, usage     *)
(* beyond the bounds, evidence that undoes a passing gate.                    *)
(* In the scenario "replay" two processes record executions, in "matrix" one *)
(* of them has died and the other one gathers evidence and decides.          *)
EXTENDS RxpVerifier, TLC

VARIABLE scenario

Symmetry == Permutations(Ledgers)

MCMatrixOf == [l \in Ledgers |-> "m"]

MCPlan == [c \in {"c1", "c2"} |-> c]

Intent(id, cell, coordinates, at, legacy) ==
    [id |-> id, matrix |-> "m", cell |-> cell, coordinates |-> coordinates, at |-> at,
     needs |-> 1, determinism |-> 1, legacy |-> legacy]

i1 == Intent("i1", "c1", "c1", 0, NoDoc)
i2 == Intent("i2", "c2", "c2", 2, "jti")

MCIntents == {i1, i2, Intent("i1", "c2", "c2", 1, NoDoc), Intent("i3", "c2", "c1", 0, NoDoc),
              [i1 EXCEPT !.matrix = "other"]}

Grant(id, intent, issued0, expires, bounds) ==
    [id |-> id, intent |-> intent, bounds |-> bounds, determinism |-> 1,
     issued |-> issued0, expires |-> expires, legacy |-> intent.legacy]

g1 == Grant("ga", i1, 1, 3, 2)
g2 == Grant("gb", i2, 2, 4, 1)
reused == Grant("ga", i2, 2, 4, 1)

\* Without the reused id: for the run on one ledger, which looks at the evidence.
OwnGrants == {g1, g2, Grant("gc", i1, 1, 3, 0), Grant("gd", i1, 0, 9, 2)}

MCGrants == OwnGrants \cup {reused}

Receipt(grant, started, completed, outcome, usage) ==
    [matrix |-> "m", cell |-> grant.intent.cell, intent |-> grant.intent, grant |-> grant,
     started |-> started, completed |-> completed, outcome |-> outcome, usage |-> usage,
     output |-> usage, determinism |-> 1]

r1 == Receipt(g1, 2, 3, "SUCCEEDED", 2)
r2 == Receipt(g2, 2, 2, "SUCCEEDED", 1)

OwnReceipts == {r1, r2, Receipt(g2, 2, 2, "FAILED", 1), Receipt(g1, 3, 3, "SUCCEEDED", 1),
                Receipt(g1, 2, 3, "SUCCEEDED", 3)}

MCReceipts == OwnReceipts \cup {Receipt(reused, 2, 2, "SUCCEEDED", 1)}

Record(id, receipt, type, producer) ==
    [id |-> id, matrix |-> "m", cell |-> receipt.cell, receipt |-> receipt, type |-> type,
     producer |-> producer, raw |-> TRUE, at |-> IF type = "metric" THEN 3 ELSE receipt.completed,
     reviewer |-> producer, independent |-> TRUE, verdict |-> "PASS", reviewed |-> {"worker"}]

MCEvidence ==
    {Record("e1", r, "log", "worker") : r \in OwnReceipts}
        \cup {Record("e2", r, "metric", "worker") : r \in OwnReceipts}
        \cup {Record("e3", r, "review", "critic") : r \in OwnReceipts}
        \cup {Record("e4", r1, "log", "critic")}

Matrix == INSTANCE RxpLedger WITH Grants <- OwnGrants, Receipts <- OwnReceipts,
                                  Evidence <- MCEvidence

ScenarioInit == Init /\ scenario \in {"replay", "matrix"}

ScenarioNext ==
    /\ \/ scenario = "replay" /\ Next
       \/ scenario = "matrix" /\ (\A l \in Ledgers : up[l]) /\ (\E l \in Ledgers : Matrix!Crash(l))
       \/ scenario = "matrix" /\ (\E l \in Ledgers : ~up[l]) /\ Matrix!Next
    /\ UNCHANGED scenario

ScenarioSpec == ScenarioInit /\ [][ScenarioNext]_<<vars, scenario>>
=============================================================================
