--------------------------- MODULE MCTrustedMemory ---------------------------
(* Small instances of TrustedMemory.  In the scenario "lineage" two API      *)
(* processes write one lineage: candidates, closures, lifecycle records and  *)
(* the verifying walk.  In "pair" one closure promotes facts of two          *)
(* lineages, which may conflict.                                             *)
EXTENDS TrustedMemory, TLC

CONSTANTS s1, s2, k1, k2

VARIABLE scenario

MCSessions == {s1, s2}
MCKeys == {k1, k2}
OneAndBoth == [c \in {"one", "both"} |-> IF c = "one" THEN {1} ELSE {1, 2}]
ExpireOrPromote == {<<"VALIDATED", "EXPIRED">>, <<"CANDIDATE", "VALIDATED">>}
Symmetry == Permutations(Sessions) \cup Permutations(Keys)

\* A transaction under way, and what it is about.
Open == {session[s] : s \in {x \in Sessions : session[x].pc # "idle"}}
Rows == {streams[l] : l \in Lineages} \cup UNION {{t.work[l] : l \in DOMAIN t.work} : t \in Open}
Events == UNION {ToSet(row.history) : row \in Rows}
Pending == UNION {ToSet(t.facts) : t \in Open}
UsedKeys == UNION {e.key[2] : e \in Events} \cup UNION {t.key : t \in Open}
            \cup {c.key : c \in closures}
Finalizes(closure) == \A input \in Pending : input.record.closure = closure

InScenario ==
    /\ scenario = "lineage" => /\ lock[2] = Free
                               /\ \A input \in Pending : input.lineage = 1
                               /\ Finalizes("one")
    /\ scenario = "pair" => /\ \A row \in Rows : Len(row.history) <= 2
                            /\ \A e \in Events : e.record.type \notin {"candidate", "transition"}
                            /\ Cardinality(UsedKeys) <= 1
                            /\ walk = NoWalk
                            /\ Finalizes("both")

ScenarioInit == TrustedInit /\ scenario \in {"lineage", "pair"}
ScenarioNext == TrustedNext /\ UNCHANGED scenario /\ InScenario'
ScenarioSpec == ScenarioInit /\ [][ScenarioNext]_<<trustedVars, scenario>>
=============================================================================
