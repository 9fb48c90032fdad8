---------------------------- MODULE MCExpertMemory ----------------------------
(* Expert runs, a request thread and the ledger of one agent.  In the        *)
(* scenario "faults" there is one run, a step fails and the process          *)
(* restarts; in "lock" two runs want the memory lock, nothing fails and      *)
(* nobody reads the records.                                                 *)
EXTENDS ExpertMemory, TLC

CONSTANTS r1, r2, t1

VARIABLE scenario

Symmetry == Permutations(Runs)

InScenario ==
    /\ scenario = "faults" => calls <= 2 /\ \E r \in Runs : thread[r].pc = "none"
    /\ scenario = "lock" => /\ failures = 0 /\ crashes = 0 /\ remote = [added |-> {}, archived |-> {}]
                            /\ \A r \in Runs : served[r] = Absent
                            /\ \A t \in Clients : ~caller[t].sync

\* The receipts of an agent are not one chain when its threads overlap: see FocusMemory.
ReceiptChain == Focus!ReceiptChain

ScenarioInit == ComposedInit /\ scenario \in {"faults", "lock"}
ScenarioNext == ComposedNext /\ UNCHANGED scenario /\ InScenario'
ScenarioSpec == ScenarioInit /\ [][ScenarioNext]_<<composed, scenario>>
=============================================================================
