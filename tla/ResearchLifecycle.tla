------------------------- MODULE ResearchLifecycle -------------------------
(***************************************************************************)
(* The control plane of EgoAgentOS ResearchOps (apps/api): research tasks  *)
(* that move through the thirteen stages of the lifecycle, the human       *)
(* approvals that let a task execute, the evidence that lets it decide,    *)
(* and the memories it leaves.                                             *)
(*                                                                         *)
(* Every request of the service runs in one store transaction that holds   *)
(* the mutation lock, so most requests are one action on the committed     *)
(* database `db`.  The two requests that chain several stage transitions   *)
(* in one transaction (autorun and finalize_live_task) work on a private   *)
(* copy, `txn.db`, one transition per step: it becomes `db` on commit and  *)
(* is lost on an error or a crash.                                         *)
(***************************************************************************)
EXTENDS Naturals, FiniteSets

CONSTANTS
    DemoTasks,      \* synthetic tasks: re-seeded by reset_demo, driven by fixtures
    LiveTasks,      \* tasks made by create_live_task, fed by submitted evidence
    LiveAgents,     \* agents that produce or review live evidence
    LiveDigests,    \* digests of live evidence payloads
    LiveItems,      \* evidence items that clients submit
    Bundles,        \* sets of evidence items that clients submit to finalize
    TTL,            \* lifetime of an approval request, in clock ticks
    MaxTime,        \* bound: the clock stops here
    MaxVersion,     \* bound: no request starts on a row at this version
    MaxGeneration,  \* bound: reset_demo calls
    MaxApprovals    \* bound: approval requests

VARIABLES
    db,             \* the committed database
    txn,            \* the multi-step transaction that holds the lock, or NoTxn
    now             \* the service's clock

vars == <<db, txn, now>>

-----------------------------------------------------------------------------
(* The stages and their transitions.                                       *)

Stages == {"INTAKE", "CONTEXT", "PLAN", "PLAN_REVIEW", "APPROVAL", "EXECUTE",
           "OBSERVE", "EVALUATE", "VERIFY", "DECIDE", "ARCHIVE",
           "MEMORY_SKILL", "COMPLETED"}

ALLOWED_TRANSITIONS ==
    [INTAKE       |-> {"CONTEXT"},
     CONTEXT      |-> {"PLAN"},
     PLAN         |-> {"PLAN_REVIEW"},
     PLAN_REVIEW  |-> {"PLAN", "APPROVAL"},
     APPROVAL     |-> {"EXECUTE", "PLAN"},
     EXECUTE      |-> {"OBSERVE"},
     OBSERVE      |-> {"EVALUATE"},
     EVALUATE     |-> {"VERIFY"},
     VERIFY       |-> {"PLAN", "DECIDE"},
     DECIDE       |-> {"ARCHIVE"},
     ARCHIVE      |-> {"MEMORY_SKILL"},
     MEMORY_SKILL |-> {"COMPLETED"},
     COMPLETED    |-> {}]

\* next_forward_stage: the successor of a stage on FORWARD_PATH.
NextForwardStage ==
    [INTAKE       |-> "CONTEXT",
     CONTEXT      |-> "PLAN",
     PLAN         |-> "PLAN_REVIEW",
     PLAN_REVIEW  |-> "APPROVAL",
     APPROVAL     |-> "EXECUTE",
     EXECUTE      |-> "OBSERVE",
     OBSERVE      |-> "EVALUATE",
     EVALUATE     |-> "VERIFY",
     VERIFY       |-> "DECIDE",
     DECIDE       |-> "ARCHIVE",
     ARCHIVE      |-> "MEMORY_SKILL",
     MEMORY_SKILL |-> "COMPLETED"]

\* The stages a task can only be in after an approval was spent.
ExecutedStages == {"EXECUTE", "OBSERVE", "EVALUATE", "VERIFY", "DECIDE",
                   "ARCHIVE", "MEMORY_SKILL", "COMPLETED"}

DecidedStages == {"DECIDE", "ARCHIVE", "MEMORY_SKILL", "COMPLETED"}

-----------------------------------------------------------------------------
(* Rows of the database.                                                   *)

Tasks == DemoTasks \cup LiveTasks

ArtifactKinds == {"dataset_manifest", "config", "code", "log", "trace"}

REQUIRED_FOR_DECISION == ArtifactKinds \cup {"metric", "review"}

DemoProducer == [dataset_manifest |-> "scout-agent",
                 config |-> "architect-agent",
                 code   |-> "runtime-agent",
                 log    |-> "runtime-agent",
                 trace  |-> "runtime-agent",
                 metric |-> "evaluation-agent",
                 review |-> "reviewer-agent"]

DemoAgents == {"scout-agent", "architect-agent", "runtime-agent",
               "evaluation-agent", "reviewer-agent"}

NoAgent == "none"

Agents == DemoAgents \cup LiveAgents

\* A demo payload is fixed by its kind, so the kind stands for its digest.
Digests == REQUIRED_FOR_DECISION \cup LiveDigests

Verdicts == {"PASS", "FAIL"}

\* The part of a review payload the gate looks at.
Reviews == [by: Agents \cup {NoAgent}, of: SUBSET Agents,
            binds: SUBSET Digests, verdict: Verdicts \cup {"none"}]

NoReview == [by |-> NoAgent, of |-> {}, binds |-> {}, verdict |-> "none"]

\* `intact`: the payload hashes to the digest and passes the checks on receipts
\* and recomputed metrics.  `verdicts`: those of a metric payload's results.
Items == [kind: REQUIRED_FOR_DECISION, producer: LiveAgents, digest: LiveDigests,
          intact: BOOLEAN, verdicts: SUBSET Verdicts, review: Reviews]

EvidenceRecords ==
    [task: Tasks, gen: Nat, kind: REQUIRED_FOR_DECISION, producer: Agents,
     digest: Digests, intact: BOOLEAN, verdicts: SUBSET Verdicts, review: Reviews]

TaskRows ==
    [stage: Stages \cup {"ABSENT"}, gen: Nat, version: Nat,
     scenario: {"happy_path", "insufficient_evidence", "external_live"},
     evaluation: SUBSET Verdicts,
     gate: {"NOT_RUN", "PASS", "FAIL"}, reviewer: Agents \cup {NoAgent},
     manifest: SUBSET Digests,
     decision: {"none", "KEEP", "DROP", "INCONCLUSIVE"}]

NewRow(gen, scenario) ==
    [stage |-> "INTAKE", gen |-> gen, version |-> 1, scenario |-> scenario,
     evaluation |-> {}, gate |-> "NOT_RUN", reviewer |-> NoAgent,
     manifest |-> {}, decision |-> "none"]

AbsentRow == [NewRow(0, "external_live") EXCEPT !.stage = "ABSENT"]

\* Approvals are numbered in the order of their requests, which is the order
\* of created_at; a number that was not given out yet is FREE.
ApprovalIds == 1..MaxApprovals

NoToken == 0

Approvals ==
    [status: {"FREE", "PENDING", "APPROVED", "DENIED", "CONSUMED"},
     task: Tasks, gen: Nat, expires: Nat, decided: Nat, used: Nat]

MemoryRecords ==
    [task: Tasks, gen: Nat, type: {"episodic", "procedural"},
     closure: SUBSET Digests, review: Agents \cup {NoAgent}]

Databases ==
    [task: [Tasks -> TaskRows], approvals: [ApprovalIds -> Approvals],
     requested: Nat, evidence: SUBSET EvidenceRecords,
     candidates: SUBSET MemoryRecords, memories: SUBSET MemoryRecords]

ASSUME ConstantsAssumption ==
    /\ DemoTasks \cap LiveTasks = {}
    /\ Tasks # {}
    /\ LiveAgents \cap (DemoAgents \cup {NoAgent}) = {}
    /\ LiveDigests \cap REQUIRED_FOR_DECISION = {}
    /\ LiveItems \subseteq Items
    /\ Bundles \subseteq SUBSET LiveItems
    /\ TTL \in Nat \ {0}
    /\ MaxTime \in Nat /\ MaxVersion \in Nat
    /\ MaxGeneration \in Nat /\ MaxApprovals \in Nat

-----------------------------------------------------------------------------
(* The evidence gate (evidence.py).                                        *)

EvidenceOf(d, t, g) == {e \in d.evidence : e.task = t /\ e.gen = g}

CurrentEvidence(d, t) == EvidenceOf(d, t, d.task[t].gen)

KindsOf(E) == {e.kind : e \in E}

NonReviews(E) == {e \in E : e.kind # "review"}

ProducersOf(E) == {e.producer : e \in NonReviews(E)}

DigestsOf(E) == {e.digest : e \in E}

IndependentReviews(E) ==
    {r \in E : /\ r.kind = "review"
               /\ r.review.by = r.producer
               /\ r.review.verdict = "PASS"
               /\ r.producer \notin ProducersOf(E)
               /\ r.review.of # {}
               /\ ProducersOf(E) \subseteq r.review.of}

EvidenceGate(E) ==
    IF /\ REQUIRED_FOR_DECISION \subseteq KindsOf(E)
       /\ \A e \in E : e.intact
       /\ IndependentReviews(E) # {}
    THEN "PASS" ELSE "FAIL"

IndependentReviewer(E) ==
    IF IndependentReviews(E) = {} THEN NoAgent
    ELSE (CHOOSE r \in IndependentReviews(E) : TRUE).producer

\* The review binds exactly the other evidence of a live task, one per kind.
ReviewBindsEvidence(E) ==
    /\ \A e, f \in E : e.kind = f.kind => e = f
    /\ REQUIRED_FOR_DECISION \subseteq KindsOf(E)
    /\ \A r \in E : r.kind = "review" => r.review.binds = DigestsOf(NonReviews(E))

\* Mutant: any review that passes the gate closes a live task.
LiveEvidenceAllowsUnbound(d, t, target) ==
    t \in LiveTasks =>
        LET source == d.task[t].stage
            E == CurrentEvidence(d, t)
        IN /\ (source = "EXECUTE" /\ target = "OBSERVE") => ArtifactKinds \subseteq KindsOf(E)
           /\ (source = "OBSERVE" /\ target = "EVALUATE") => "metric" \in KindsOf(E)
           /\ (source = "EVALUATE" /\ target = "VERIFY") => EvidenceGate(E) = "PASS"

\* _validate_live_transition_evidence
LiveEvidenceAllows(d, t, target) ==
    t \in LiveTasks =>
        LET source == d.task[t].stage
            E == CurrentEvidence(d, t)
        IN /\ (source = "EXECUTE" /\ target = "OBSERVE") => ArtifactKinds \subseteq KindsOf(E)
           /\ (source = "OBSERVE" /\ target = "EVALUATE") => "metric" \in KindsOf(E)
           /\ (source = "EVALUATE" /\ target = "VERIFY") =>
                  /\ ReviewBindsEvidence(E)
                  /\ EvidenceGate(E) = "PASS"

-----------------------------------------------------------------------------
(* Approvals (policy.py).                                                  *)

\* The digest a human reviews.  A demo action names its generation, a live
\* execution contract is frozen when the task is created.
ActionDigest(t, g) == IF t \in DemoTasks THEN <<t, g>> ELSE <<t, 0>>

BuildApproval(t, g) ==
    [status |-> "PENDING", task |-> t, gen |-> g, expires |-> now + TTL,
     decided |-> 0, used |-> 0]

\* i is what latest_approval returns for generation g of task t.
IsLatestApproval(d, i, t, g) ==
    /\ i \in 1..d.requested
    /\ d.approvals[i].task = t /\ d.approvals[i].gen = g
    /\ \A j \in 1..d.requested :
           (d.approvals[j].task = t /\ d.approvals[j].gen = g) => j <= i

\* validate_approval_token.  A raw token is known by the approval it was minted
\* for: no other value hashes to that approval's token_hash.
ValidToken(d, i, t, token) ==
    /\ token # NoToken
    /\ d.approvals[i].status = "APPROVED"
    /\ now < d.approvals[i].expires
    /\ d.approvals[i].task = t /\ d.approvals[i].gen = d.task[t].gen
    /\ token = i

ConsumeApproval(approvals, i) ==
    [approvals EXCEPT ![i].status = "CONSUMED", ![i].used = now]

-----------------------------------------------------------------------------
(* One stage transition (_transition and the _enter_* handlers).           *)

\* The evidence kinds that the demo fixture of a stage records on entry.
DemoKinds(target, scenario) ==
    CASE target = "CONTEXT"  -> {"dataset_manifest"}
      [] target = "PLAN"     -> {"config"}
      [] target = "EXECUTE"  -> {"code"}
      [] target = "OBSERVE"  -> IF scenario = "insufficient_evidence"
                                THEN {"log"} ELSE {"log", "trace"}
      [] target = "EVALUATE" -> {"metric"}
      [] target = "VERIFY"   -> {"review"}
      [] OTHER               -> {}

DemoReview == [by |-> "reviewer-agent", of |-> DemoAgents \ {"reviewer-agent"},
               binds |-> {}, verdict |-> "PASS"]

DemoRecord(t, g, kind) ==
    [task |-> t, gen |-> g, kind |-> kind, producer |-> DemoProducer[kind],
     digest |-> kind, intact |-> TRUE,
     verdicts |-> IF kind = "metric" THEN {"PASS"} ELSE {},
     review |-> IF kind = "review" THEN DemoReview ELSE NoReview]

EnterEvidence(d, t, target) ==
    IF t \in DemoTasks
    THEN {DemoRecord(t, d.task[t].gen, k) : k \in DemoKinds(target, d.task[t].scenario)}
    ELSE {}

\* _enter_decide
DecisionFor(verdicts) ==
    IF verdicts = {"PASS"} THEN "KEEP"
    ELSE IF "FAIL" \in verdicts THEN "DROP" ELSE "INCONCLUSIVE"

\* Mutant: the memory closure leaves out the review.
EnterMemoryUnreviewed(d, t, target) ==
    IF t \in DemoTasks /\ target = "MEMORY_SKILL"
    THEN {[task |-> t, gen |-> d.task[t].gen, type |-> k,
           closure |-> DigestsOf(NonReviews(CurrentEvidence(d, t))),
           review |-> d.task[t].reviewer] : k \in {"episodic", "procedural"}}
    ELSE {}

\* _enter_memory: the two demo memories, bound to the whole evidence set.
EnterMemory(d, t, target) ==
    IF t \in DemoTasks /\ target = "MEMORY_SKILL"
    THEN {[task |-> t, gen |-> d.task[t].gen, type |-> k,
           closure |-> DigestsOf(CurrentEvidence(d, t)),
           review |-> d.task[t].reviewer] : k \in {"episodic", "procedural"}}
    ELSE {}

\* Mutant: any valid approval of the generation will do, not only the latest.
AnyApprovalAllows(d, t, target, token) ==
    (d.task[t].stage = "APPROVAL" /\ target = "EXECUTE") =>
        \E i \in 1..d.requested : ValidToken(d, i, t, token)

ApprovalAllows(d, t, target, token) ==
    (d.task[t].stage = "APPROVAL" /\ target = "EXECUTE") =>
        \E i \in 1..d.requested : /\ IsLatestApproval(d, i, t, d.task[t].gen)
                                  /\ ValidToken(d, i, t, token)

\* What the entry handlers of the demo require of the rows they read.
DemoEntryAllows(d, t, target) ==
    t \in DemoTasks =>
        /\ target = "PLAN_REVIEW" => "config" \in KindsOf(CurrentEvidence(d, t))
        /\ target = "EXECUTE" =>
               {"config", "dataset_manifest"} \subseteq KindsOf(CurrentEvidence(d, t))
        /\ target = "MEMORY_SKILL" =>
               d.task[t].gate = "PASS" /\ d.task[t].reviewer # NoAgent

\* Mutant: the saved gate result is believed instead of a fresh one.
SavedGateBlocks(d, t, target) ==
    /\ d.task[t].stage = "VERIFY" /\ target = "DECIDE"
    /\ d.task[t].gate = "FAIL"

GateBlocks(d, t, target) ==
    /\ d.task[t].stage = "VERIFY" /\ target = "DECIDE"
    /\ EvidenceGate(CurrentEvidence(d, t)) = "FAIL"

\* The checks of _transition that raise before anything is decided by the gate.
TransitionAllowed(d, t, target, token) ==
    /\ d.task[t].stage \in Stages
    /\ target \in ALLOWED_TRANSITIONS[d.task[t].stage]
    /\ LiveEvidenceAllows(d, t, target)
    /\ ApprovalAllows(d, t, target, token)
    /\ DemoEntryAllows(d, t, target)

CanTransition(d, t, target, token) ==
    TransitionAllowed(d, t, target, token) /\ ~GateBlocks(d, t, target)

\* The task row after the transition, with the gate refreshed on the way into
\* DECIDE and the fields that the entry handlers assign.
TransitionRow(d, t, target) ==
    LET row == d.task[t]
        E == CurrentEvidence(d, t)
        deciding == target = "DECIDE"
    IN [stage      |-> target,
        gen        |-> row.gen,
        version    |-> row.version + 1,
        scenario   |-> row.scenario,
        evaluation |-> IF t \in DemoTasks /\ target = "EVALUATE" THEN {"PASS"}
                       ELSE row.evaluation,
        gate       |-> IF deciding THEN EvidenceGate(E) ELSE row.gate,
        reviewer   |-> IF deciding THEN IndependentReviewer(E) ELSE row.reviewer,
        manifest   |-> IF t \in DemoTasks /\ target = "EXECUTE"
                       THEN {"code", "config", "dataset_manifest"} ELSE row.manifest,
        decision   |-> IF deciding THEN DecisionFor(row.evaluation) ELSE row.decision]

TransitionApprovals(d, t, target, token) ==
    IF target = "EXECUTE" THEN ConsumeApproval(d.approvals, token)
    ELSE IF target = "APPROVAL"
         THEN [d.approvals EXCEPT ![d.requested + 1] = BuildApproval(t, d.task[t].gen)]
         ELSE d.approvals

Transition(d, t, target, token) ==
    [task       |-> [d.task EXCEPT ![t] = TransitionRow(d, t, target)],
     approvals  |-> TransitionApprovals(d, t, target, token),
     requested  |-> IF target = "APPROVAL" THEN d.requested + 1 ELSE d.requested,
     evidence   |-> d.evidence \cup EnterEvidence(d, t, target),
     candidates |-> d.candidates \cup EnterMemory(d, t, target),
     memories   |-> d.memories \cup EnterMemory(d, t, target)]

\* Mutant: the failed gate is saved under the version that was read.
RecordGateFailureUnversioned(d, t) ==
    [d EXCEPT !.task[t] = [d.task[t] EXCEPT
        !.gate = "FAIL", !.reviewer = IndependentReviewer(CurrentEvidence(d, t))]]

\* A failed gate is saved on the row (with a new version) before it is reported.
RecordGateFailure(d, t) ==
    [d EXCEPT !.task[t] = [d.task[t] EXCEPT
        !.gate = "FAIL",
        !.reviewer = IndependentReviewer(CurrentEvidence(d, t)),
        !.version = @ + 1]]

-----------------------------------------------------------------------------
(* The requests that are one transaction of one step.                      *)

NoTxn == [op |-> "none"]

Idle == txn = NoTxn

\* The bounds under which a request may start.
Within(t) == db.task[t].version < MaxVersion

RoomForApproval(t) ==
    db.task[t].stage \in {"INTAKE", "CONTEXT", "PLAN", "PLAN_REVIEW"}
        => db.requested < MaxApprovals

Init ==
    /\ db = [task |-> [t \in Tasks |-> IF t \in DemoTasks THEN NewRow(1, "happy_path")
                                       ELSE AbsentRow],
             approvals |-> [i \in ApprovalIds |->
                 [status |-> "FREE", task |-> CHOOSE t \in Tasks : TRUE, gen |-> 0,
                  expires |-> 0, decided |-> 0, used |-> 0]],
             requested |-> 0, evidence |-> {}, candidates |-> {}, memories |-> {}]
    /\ txn = NoTxn
    /\ now = 0

ResetDemo(t, scenario) ==
    /\ Idle
    /\ t \in DemoTasks
    /\ db.task[t].gen < MaxGeneration
    /\ db' = [db EXCEPT !.task[t] = NewRow(@.gen + 1, scenario)]
    /\ UNCHANGED <<txn, now>>

CreateLiveTask(t) ==
    /\ Idle
    /\ t \in LiveTasks
    /\ db.task[t].stage = "ABSENT"
    /\ db' = [db EXCEPT !.task[t] = NewRow(1, "external_live")]
    /\ UNCHANGED <<txn, now>>

Advance(t, target, token) ==
    /\ Idle /\ Within(t)
    /\ target = "APPROVAL" => RoomForApproval(t)
    /\ CanTransition(db, t, target, token)
    /\ db' = Transition(db, t, target, token)
    /\ UNCHANGED <<txn, now>>

\* advance swallows evidence_gate_failed until its transaction has committed.
AdvanceGateFailed(t) ==
    /\ Idle /\ Within(t)
    /\ TransitionAllowed(db, t, "DECIDE", NoToken)
    /\ GateBlocks(db, t, "DECIDE")
    /\ db' = RecordGateFailure(db, t)
    /\ UNCHANGED <<txn, now>>

\* A late decision marks the approval expired, but the error it then raises
\* rolls that write back: only decisions in time change the database.
DecideApproval(i, decision, expectedDigest) ==
    LET a == db.approvals[i] IN
    /\ Idle
    /\ i \in 1..db.requested
    /\ a.gen = db.task[a.task].gen
    /\ a.status = "PENDING"
    /\ now < a.expires
    /\ expectedDigest = ActionDigest(a.task, a.gen)
    /\ db' = [db EXCEPT !.approvals[i].status =
                            IF decision = "approved" THEN "APPROVED" ELSE "DENIED",
                        !.approvals[i].decided = now]
    /\ UNCHANGED <<txn, now>>

\* The stage at which ingest_live_evidence accepts a kind.
IngestStage(kind) ==
    IF kind \in ArtifactKinds THEN "EXECUTE"
    ELSE IF kind = "metric" THEN "OBSERVE" ELSE "EVALUATE"

LiveRecord(t, item) ==
    [task |-> t, gen |-> db.task[t].gen, kind |-> item.kind,
     producer |-> item.producer, digest |-> item.digest,
     intact |-> item.intact, verdicts |-> item.verdicts, review |-> item.review]

\* An item whose kind is already recorded is answered without a write (the same
\* item) or refused (another item).
IngestLiveEvidence(t, item, gen, expectedVersion) ==
    /\ Idle /\ Within(t)
    /\ t \in LiveTasks
    /\ db.task[t].version = expectedVersion
    /\ db.task[t].stage = IngestStage(item.kind)
    /\ gen = db.task[t].gen
    /\ item.intact
    /\ item.kind \notin KindsOf(CurrentEvidence(db, t))
    /\ db' = [db EXCEPT
                !.evidence = @ \cup {LiveRecord(t, item)},
                !.task[t].evaluation = IF item.kind = "metric" THEN item.verdicts ELSE @,
                !.task[t].version = @ + 1]
    /\ UNCHANGED <<txn, now>>

Tick ==
    /\ now < MaxTime
    /\ now' = now + 1
    /\ UNCHANGED <<db, txn>>

-----------------------------------------------------------------------------
(* autorun: forward transitions of a demo task in one transaction.         *)

AutorunLimit == 20

AutorunBegin(t, token) ==
    /\ Idle /\ Within(t) /\ RoomForApproval(t)
    /\ t \in DemoTasks
    /\ txn' = [op |-> "autorun", task |-> t, token |-> token, steps |-> 0, db |-> db]
    /\ UNCHANGED <<db, now>>

TxnStage == txn.db.task[txn.task].stage

\* The loop returns: the task is completed, or waits for a human.
AutorunPaused == TxnStage = "COMPLETED" \/ (TxnStage = "APPROVAL" /\ txn.token = NoToken)

AutorunRuns == txn.op = "autorun" /\ ~AutorunPaused

AutorunStep ==
    /\ AutorunRuns
    /\ txn.steps < AutorunLimit
    /\ CanTransition(txn.db, txn.task, NextForwardStage[TxnStage], txn.token)
    /\ txn' = [txn EXCEPT
                 !.db = Transition(@, txn.task, NextForwardStage[TxnStage], txn.token),
                 !.token = IF NextForwardStage[TxnStage] = "EXECUTE" THEN NoToken ELSE @,
                 !.steps = @ + 1]
    /\ UNCHANGED <<db, now>>

AutorunCommit ==
    /\ txn.op = "autorun"
    /\ txn.steps < AutorunLimit
    /\ AutorunPaused
    /\ db' = txn.db
    /\ txn' = NoTxn
    /\ UNCHANGED now

AutorunGateFailed ==
    /\ AutorunRuns
    /\ txn.steps < AutorunLimit
    /\ TransitionAllowed(txn.db, txn.task, NextForwardStage[TxnStage], txn.token)
    /\ GateBlocks(txn.db, txn.task, NextForwardStage[TxnStage])
    /\ db' = RecordGateFailure(txn.db, txn.task)
    /\ txn' = NoTxn
    /\ UNCHANGED now

\* The loop used up its iterations, or a transition raised another error.
AutorunRaises ==
    \/ txn.steps = AutorunLimit
    \/ /\ ~AutorunPaused
       /\ ~TransitionAllowed(txn.db, txn.task, NextForwardStage[TxnStage], txn.token)

\* Such an error rolls the whole run back.
AutorunAbort ==
    /\ txn.op = "autorun"
    /\ AutorunRaises
    /\ txn' = NoTxn
    /\ UNCHANGED <<db, now>>

-----------------------------------------------------------------------------
(* finalize_live_task: from EXECUTE to COMPLETED in one transaction.       *)

\* Records of the request that the database does not hold yet.
NewRecords(t, items) ==
    {LiveRecord(t, i) : i \in {j \in items : j.kind \notin KindsOf(CurrentEvidence(db, t))}}

\* Mutant: the request's review is not compared with the merged evidence.
FinalizeEvidenceUnbound(t, items) ==
    LET E == CurrentEvidence(db, t) \cup NewRecords(t, items) IN
    /\ \A i \in items : i.intact
    /\ \A i, j \in items : i.kind = j.kind => i = j
    /\ \A i \in items : i.kind \in KindsOf(CurrentEvidence(db, t)) =>
                            LiveRecord(t, i) \in CurrentEvidence(db, t)
    /\ EvidenceGate(E) = "PASS"

\* What the request and the database say together, checked before any write.
FinalizeEvidenceOk(t, items) ==
    LET E == CurrentEvidence(db, t) \cup NewRecords(t, items) IN
    /\ \A i \in items : i.intact
    /\ \A i, j \in items : i.kind = j.kind => i = j
    /\ \A i \in items : i.kind \in KindsOf(CurrentEvidence(db, t)) =>
                            LiveRecord(t, i) \in CurrentEvidence(db, t)
    /\ ReviewBindsEvidence(E)
    /\ EvidenceGate(E) = "PASS"

\* The results of the metric record become the task's evaluation.
MetricVerdicts(E) == UNION {e.verdicts : e \in {f \in E : f.kind = "metric"}}

FinalizeBegin(t, items, gen, expectedVersion, actor) ==
    LET E == CurrentEvidence(db, t) \cup NewRecords(t, items) IN
    /\ Idle /\ Within(t)
    /\ t \in LiveTasks
    /\ items # {}
    /\ gen = db.task[t].gen
    /\ db.task[t].version = expectedVersion
    /\ db.task[t].stage = "EXECUTE"
    /\ actor = "owner"
    /\ FinalizeEvidenceOk(t, items)
    /\ txn' = [op |-> "finalize", task |-> t, token |-> NoToken, steps |-> 0,
               db |-> [db EXCEPT
                         !.evidence = @ \cup NewRecords(t, items),
                         !.task[t].evaluation = MetricVerdicts(E),
                         !.task[t].manifest = DigestsOf(NonReviews(E))]]
    /\ UNCHANGED <<db, now>>

FinalizeRuns == txn.op = "finalize" /\ TxnStage # "COMPLETED"

FinalizeStep ==
    /\ FinalizeRuns
    /\ CanTransition(txn.db, txn.task, NextForwardStage[TxnStage], NoToken)
    /\ txn' = [txn EXCEPT
                 !.db = Transition(@, txn.task, NextForwardStage[TxnStage], NoToken),
                 !.steps = @ + 1]
    /\ UNCHANGED <<db, now>>

FinalizeCommit ==
    /\ txn.op = "finalize"
    /\ TxnStage = "COMPLETED"
    /\ db' = txn.db
    /\ txn' = NoTxn
    /\ UNCHANGED now

\* The process dies inside a transaction: nothing of it was committed.
Crash ==
    /\ ~Idle
    /\ txn' = NoTxn
    /\ UNCHANGED <<db, now>>

-----------------------------------------------------------------------------

Tokens == ApprovalIds \cup {NoToken}

\* The version a client expects: the current one, or one it read before.
SeenVersions(t) == {db.task[t].version, db.task[t].version - 1}

Request ==
    \/ \E t \in DemoTasks, scenario \in {"happy_path", "insufficient_evidence"} :
           ResetDemo(t, scenario)
    \/ \E t \in LiveTasks : CreateLiveTask(t)
    \/ \E t \in Tasks, target \in Stages, token \in Tokens : Advance(t, target, token)
    \/ \E t \in Tasks : AdvanceGateFailed(t)
    \/ \E i \in ApprovalIds, decision \in {"approved", "denied"},
          t \in Tasks, g \in 1..MaxGeneration :
           DecideApproval(i, decision, ActionDigest(t, g))
    \/ \E t \in LiveTasks, item \in LiveItems, g \in 1..MaxGeneration :
           \E v \in SeenVersions(t) : IngestLiveEvidence(t, item, g, v)
    \/ \E t \in DemoTasks, token \in Tokens : AutorunBegin(t, token)
    \/ \E t \in LiveTasks, items \in Bundles, g \in 1..MaxGeneration,
          actor \in {"owner", "other"} :
           \E v \in SeenVersions(t) : FinalizeBegin(t, items, g, v, actor)

\* The steps of the thread that runs the open transaction.
TxnStep ==
    \/ AutorunStep
    \/ AutorunCommit
    \/ AutorunGateFailed
    \/ AutorunAbort
    \/ FinalizeStep
    \/ FinalizeCommit

Next == Request \/ TxnStep \/ Crash \/ Tick

\* The thread that holds the mutation lock keeps running: its loop makes no
\* call that waits for anyone else.  Nothing is assumed of the clients.
Spec == Init /\ [][Next]_vars /\ WF_vars(TxnStep)

\* Clients that, on top, call advance again and again whenever it can succeed.
EagerSpec ==
    Spec /\ WF_vars(\E t \in Tasks, target \in Stages, token \in Tokens :
                       Advance(t, target, token))

-----------------------------------------------------------------------------
(* Properties.                                                             *)

Txns == {NoTxn} \cup [op: {"autorun", "finalize"}, task: Tasks, token: Tokens,
                      steps: Nat, db: Databases]

\* The committed rows, the transaction's copy and the clock have their types.
TypeOK == db \in Databases /\ txn \in Txns /\ now \in Nat

Authorized(d, t) ==
    d.task[t].stage \in ExecutedStages =>
        \E i \in 1..d.requested :
            /\ IsLatestApproval(d, i, t, d.task[t].gen)
            /\ d.approvals[i].status = "CONSUMED"
            /\ d.approvals[i].decided <= d.approvals[i].used
            /\ d.approvals[i].used < d.approvals[i].expires

\* Work beyond the APPROVAL stage is authorized (_transition): the latest approval of
\* the task's generation was approved, and then spent before it expired.  Neither a
\* superseded approval, nor one of another generation, nor one that waits behind
\* a way back to PLAN will do.
ExecutionAuthorized == \A t \in Tasks : Authorized(db, t)

Backed(d, t) ==
    d.task[t].decision # "none" =>
        /\ d.task[t].stage \in DecidedStages
        /\ d.task[t].gate = "PASS"
        /\ EvidenceGate(CurrentEvidence(d, t)) = "PASS"
        /\ d.task[t].decision = DecisionFor(MetricVerdicts(CurrentEvidence(d, t)))

\* A decision rests on evidence that still passes the gate (_refresh_gate,
\* _enter_decide): the saved gate result is not stale, and no reset, rollback,
\* ingestion or way back to PLAN separates a decision from its evidence.
DecisionBacked == \A t \in Tasks : Backed(db, t)

\* The decision of a live task is about exactly the evidence that its independent
\* reviewer bound: one record per kind, whichever of advance and finalize_live_task
\* brought the task there.
LiveDecisionReviewed ==
    \A t \in LiveTasks : db.task[t].decision # "none" =>
        ReviewBindsEvidence(CurrentEvidence(db, t))

\* A validated memory (_enter_memory) cites the whole evidence of its generation and
\* the independent reviewer of that evidence, also after resets to later generations.
MemoryBacked ==
    \A m \in db.memories :
        LET E == EvidenceOf(db, m.task, m.gen) IN
        /\ m \in db.candidates
        /\ EvidenceGate(E) = "PASS"
        /\ m.closure = DigestsOf(E)
        /\ m.review = IndependentReviewer(E)

\* The checks of finalize_live_task are enough for the seven transitions it then
\* makes: none of them is refused halfway.
FinalizeNeverBlocked ==
    FinalizeRuns => CanTransition(txn.db, txn.task, NextForwardStage[TxnStage], NoToken)

\* autorun stops well before its iteration cap: it never reports
\* autorun_iteration_limit and rolls back a run that could have paused.
AutorunWithinCap == txn.op = "autorun" => txn.steps < AutorunLimit

\* Every commit that takes a task across the APPROVAL stage spends one approved approval of
\* the task, and no commit spends one otherwise: a token opens one execution.
OneApprovalPerExecution ==
    [][\A t \in Tasks :
         LET spent == {i \in ApprovalIds : /\ db.approvals[i].task = t
                                           /\ db.approvals[i].status = "APPROVED"
                                           /\ db'.approvals[i].status = "CONSUMED"}
         IN IF /\ db.task[t].stage \notin ExecutedStages
               /\ db'.task[t].stage \in ExecutedStages
            THEN Cardinality(spent) = 1
            ELSE spent = {}]_vars

\* The optimistic version fences what clients read: within a generation a task
\* row or its evidence changes only with a higher version (save_task), so a request
\* that names the version it saw never applies to a later state.
VersionFencesChange ==
    [][\A t \in Tasks :
         /\ db'.task[t].gen >= db.task[t].gen
         /\ (/\ db'.task[t].gen = db.task[t].gen
             /\ \/ db'.task[t] # db.task[t]
                \/ CurrentEvidence(db', t) # CurrentEvidence(db, t))
            => db'.task[t].version > db.task[t].version]_vars

\* History is append-only: no step, reset_demo included, drops or rewrites evidence
\* or memories, and an approval that was spent, denied, or left behind
\* in an earlier generation never changes again.
HistoryAppendOnly ==
    [][/\ db.evidence \subseteq db'.evidence
       /\ db.memories \subseteq db'.memories
       /\ \A i \in 1..db.requested :
             LET a == db.approvals[i] IN
             (a.status \in {"CONSUMED", "DENIED"} \/ a.gen < db.task[a.task].gen)
                 => db'.approvals[i] = a]_vars

\* docs/state-machine.md says of the way from DECIDE to ARCHIVE "KEEP / INCONCLUSIVE":
\* a dropped experiment is not archived.
OnlyKeptIsArchived ==
    \A t \in Tasks : db.task[t].stage \in {"ARCHIVE", "MEMORY_SKILL", "COMPLETED"}
        => db.task[t].decision \in {"KEEP", "INCONCLUSIVE"}

\* docs/state-machine.md says of the way from APPROVAL back to PLAN "denied / expired":
\* an approval that is still in force is not walked away from.
ReplanOnlyAfterRefusal ==
    [][\A t \in Tasks, i \in 1..db.requested :
         (/\ db.task[t].stage = "APPROVAL" /\ db'.task[t].stage = "PLAN"
          /\ IsLatestApproval(db, i, t, db.task[t].gen))
         => (db.approvals[i].status = "DENIED" \/ now >= db.approvals[i].expires)]_vars

\* docs/state-machine.md says of the way from VERIFY back to PLAN "insufficient or
\* invalid evidence": a task whose reviewed evidence fails the gate is planned anew.
InvalidEvidenceReplanned ==
    \A t \in LiveTasks :
        (/\ db.task[t].stage = "EVALUATE"
         /\ "review" \in KindsOf(CurrentEvidence(db, t))
         /\ EvidenceGate(CurrentEvidence(db, t)) = "FAIL")
        ~> db.task[t].stage = "PLAN"

\* Every transaction ends, in a commit, a rollback or a crash, and frees the lock.
TransactionsEnd == (~Idle) ~> Idle

\* What every transaction of the store keeps to, whichever operation it belongs to.
TransactionRules ==
    /\ OneApprovalPerExecution /\ VersionFencesChange /\ HistoryAppendOnly
    /\ [](TypeOK /\ AutorunWithinCap)
    /\ TransactionsEnd
=============================================================================
