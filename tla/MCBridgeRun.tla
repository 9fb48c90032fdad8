---------------------------- MODULE MCBridgeRun ----------------------------
(* Instances of BridgeRun for TLC.                                           *)
(*                                                                           *)
(* A run whose request allows no reassignment is driven by two workers and   *)
(* meets up to MaxFaults faults.  A run that may replace an attempt is       *)
(* driven by one worker at a time and meets one fault.  What finalization    *)
(* refuses is a metric or a review, results of tasks after the approval.     *)
EXTENDS BridgeRun, TLC

CONSTANTS w1, w2

MCOnePre == <<"plan">>
MCTwoPre == <<"context", "review">>
MCOnePost == <<"verify">>
Symmetry == Permutations(Workers)

Busy == {w \in Workers : frame[w].pc # "idle"}
Scenario == /\ row.max_reassignments > 0 => Cardinality(Busy) <= 1 /\ faults <= 1
            /\ \A t \in Tasks : t[1] \in ToSet(Pre) => at.nodes[t] # "unfit"

ScenarioSpec == Init /\ [][Next /\ Scenario']_vars
=============================================================================
