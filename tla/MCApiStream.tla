----------------------------- MODULE MCApiStream -----------------------------
(* Small instances of ApiStream.  In the scenario "approval" three threads   *)
(* serve requests around an approval, in "replan" two serve a task that goes *)
(* back to its plan and gets a second approval, in "gate" one that the       *)
(* evidence gate blocks, in "stream" one thread serves it while a browser    *)
(* follows the task's events.                                                *)
EXTENDS ApiStream, TLC

CONSTANTS s1, s2, s3, k1

VARIABLE scenario

MCSessions == {s1, s2, s3}

Advance(key, of, target) == [op |-> "advance", key |-> key, of |-> of, say |-> target]
Decide(key, of, say) == [op |-> "decide", key |-> key, of |-> of, say |-> say]
ResetTo(key, say) == [op |-> "reset", key |-> key, of |-> NoApproval, say |-> say]

First == <<1, 1>>     \* the approvals of the first generation
Second == <<1, 2>>

\* Advances and decisions around an approval, two decisions under one key, a reset.
ApprovalRequests ==
    {Advance(NoKey, NoApproval, ""), Advance(k1, First, ""), Decide(k1, First, "approved"),
     Decide(k1, First, "denied"), Decide(NoKey, First, "approved"), ResetTo(k1, "happy_path")}

\* Back to the plan and a second approval, while the first one can still be decided.
ReplanRequests ==
    {Advance(NoKey, NoApproval, "PLAN"), Advance(NoKey, NoApproval, ""),
     Advance(NoKey, First, ""), Advance(NoKey, Second, "EXECUTE"),
     Decide(NoKey, First, "approved"), Decide(NoKey, Second, "approved")}

\* A task that the evidence gate blocks, its plan and its reset.
GateRequests ==
    {Advance(k1, NoApproval, ""), Advance(NoKey, NoApproval, "DECIDE"),
     Advance(k1, NoApproval, "PLAN"), ResetTo(k1, "happy_path"),
     ResetTo(NoKey, "insufficient_evidence")}

\* What a browser follows: an approval, a decision and a reset.
StreamRequests ==
    {Advance(NoKey, NoApproval, ""), Decide(k1, First, "approved"),
     ResetTo(NoKey, "insufficient_evidence")}

MCRequests == ApprovalRequests \cup ReplanRequests \cup GateRequests \cup StreamRequests

ScenarioRequests == CASE scenario = "approval" -> ApprovalRequests
                      [] scenario = "replan" -> ReplanRequests
                      [] scenario = "gate" -> GateRequests
                      [] scenario = "stream" -> StreamRequests
Serving == {s \in Sessions : session[s].pc # "idle"}
InScenario ==
    /\ \A s \in Serving : Request(s) \in ScenarioRequests
    /\ scenario = "approval" => sends <= 5
    /\ scenario = "replan" => Cardinality(Serving) <= 2
    /\ scenario = "gate" => Cardinality(Serving) <= 2 /\ sends <= 5
    /\ scenario = "stream" => Cardinality(Serving) <= 1 /\ sends <= 4 /\ reader.generation <= 2

ScenarioInit == /\ \/ scenario \in {"approval", "stream"} /\ Reached(1, 3, "happy_path")
                   \/ scenario = "replan" /\ Reached(1, 4, "happy_path")
                   \/ scenario = "gate" /\ Reached(2, 8, "insufficient_evidence")
                /\ Stream!ClientInit
                /\ scenario # "stream" => url = 0
ScenarioNext == /\ \/ RequestStep
                   \/ scenario = "stream" /\ ReaderStep
                /\ UNCHANGED scenario
                /\ InScenario'
ScenarioSpec == ScenarioInit /\ [][ScenarioNext]_<<composed, scenario>>

\* What a cursor of an earlier generation gets is not what the test says: see EventStream.
StaleCursorReplays == Stream!StaleCursorReplays

\* The longest history an instance starts with, and five events for a request.
ASSUME MaxEvents >= 21 + 5 * MaxSends

Symmetry == Permutations(Sessions)
=============================================================================
