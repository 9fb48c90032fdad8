---------------------- MODULE ResearchLifecycleProofs ----------------------
(***************************************************************************)
(* Proofs about ResearchLifecycle for any number of demo and live tasks,   *)
(* any items, any approval lifetime and any bounds: that executions rest   *)
(* on approvals and decisions on the gate's result, then that a live       *)
(* decision and a memory rest on the reviewed evidence that is stored, and *)
(* that the two requests that chain transitions are neither refused        *)
(* halfway nor too long, and that no commit executes on more or less than  *)
(* one approval, skips a version or removes history.                       *)
(***************************************************************************)
EXTENDS ResearchLifecycle, FiniteSetTheorems, TLAPS

-----------------------------------------------------------------------------
(* Types of what the transitions write.                                    *)

\* The rows that reset_demo and create_live_task write are task rows.
LEMMA NewRowType ==
    ASSUME NEW g \in Nat,
           NEW s \in {"happy_path", "insufficient_evidence", "external_live"}
    PROVE  NewRow(g, s) \in TaskRows
BY DEF NewRow, TaskRows, Stages

\* evidence_gate names an agent that reviewed, or nobody.
LEMMA ReviewerType ==
    ASSUME NEW E \in SUBSET EvidenceRecords
    PROVE  IndependentReviewer(E) \in Agents \cup {NoAgent}
<1>1. CASE IndependentReviews(E) = {}
  BY <1>1 DEF IndependentReviewer
<1>2. CASE IndependentReviews(E) # {}
  <2>1. (CHOOSE r \in IndependentReviews(E) : TRUE) \in IndependentReviews(E)
    BY <1>2
  <2>2. (CHOOSE r \in IndependentReviews(E) : TRUE) \in EvidenceRecords
    BY <2>1 DEF IndependentReviews
  <2> QED BY <1>2, <2>2 DEF IndependentReviewer, EvidenceRecords
<1> QED BY <1>1, <1>2

\* The demo fixtures record well-typed evidence.
LEMMA EnterEvidenceType ==
    ASSUME NEW d \in Databases, NEW t \in Tasks, NEW target
    PROVE  EnterEvidence(d, t, target) \subseteq EvidenceRecords
<1>1. d.task[t].gen \in Nat
  BY DEF Databases, TaskRows
<1>2. DemoKinds(target, d.task[t].scenario) \subseteq REQUIRED_FOR_DECISION
  BY DEF DemoKinds, REQUIRED_FOR_DECISION, ArtifactKinds
<1>3. ASSUME NEW k \in REQUIRED_FOR_DECISION
      PROVE  DemoRecord(t, d.task[t].gen, k) \in EvidenceRecords
  <2>1. DemoProducer[k] \in Agents
    BY DEF DemoProducer, Agents, DemoAgents, REQUIRED_FOR_DECISION, ArtifactKinds
  <2>2. DemoReview \in Reviews /\ NoReview \in Reviews
    BY DEF DemoReview, NoReview, Reviews, Agents, DemoAgents, Verdicts
  <2>3. k \in Digests
    BY DEF Digests
  <2> QED BY <1>1, <2>1, <2>2, <2>3 DEF DemoRecord, EvidenceRecords, Verdicts
<1> QED BY <1>2, <1>3 DEF EnterEvidence

\* _enter_memory writes well-typed memories.
LEMMA EnterMemoryType ==
    ASSUME NEW d \in Databases, NEW t \in Tasks, NEW target
    PROVE  EnterMemory(d, t, target) \subseteq MemoryRecords
<1>1. d.task[t].gen \in Nat /\ d.task[t].reviewer \in Agents \cup {NoAgent}
  BY DEF Databases, TaskRows
<1>2. DigestsOf(CurrentEvidence(d, t)) \in SUBSET Digests
  BY DEF DigestsOf, CurrentEvidence, EvidenceOf, Databases, EvidenceRecords
<1> QED BY <1>1, <1>2 DEF EnterMemory, MemoryRecords

\* A stage transition leaves a task row of the right type.
LEMMA TransitionRowType ==
    ASSUME NEW d \in Databases, NEW t \in Tasks, NEW target \in Stages
    PROVE  TransitionRow(d, t, target) \in TaskRows
<1> DEFINE row == d.task[t]
           E == CurrentEvidence(d, t)
<1>1. row \in TaskRows
  BY DEF Databases
<1>2. E \in SUBSET EvidenceRecords
  BY DEF CurrentEvidence, EvidenceOf, Databases
<1>3. IndependentReviewer(E) \in Agents \cup {NoAgent}
  BY <1>2, ReviewerType
<1>4. EvidenceGate(E) \in {"PASS", "FAIL"}
  BY DEF EvidenceGate
<1>5. DecisionFor(row.evaluation) \in {"KEEP", "DROP", "INCONCLUSIVE"}
  BY DEF DecisionFor
<1>6. {"code", "config", "dataset_manifest"} \in SUBSET Digests
  BY DEF Digests, REQUIRED_FOR_DECISION, ArtifactKinds
<1>7. {"PASS"} \in SUBSET Verdicts
  BY DEF Verdicts
<1>8. /\ row.gen \in Nat /\ row.version + 1 \in Nat
      /\ row.scenario \in {"happy_path", "insufficient_evidence", "external_live"}
      /\ row.evaluation \in SUBSET Verdicts /\ row.gate \in {"NOT_RUN", "PASS", "FAIL"}
      /\ row.reviewer \in Agents \cup {NoAgent} /\ row.manifest \in SUBSET Digests
      /\ row.decision \in {"none", "KEEP", "DROP", "INCONCLUSIVE"}
  BY <1>1 DEF TaskRows
<1> QED BY <1>3, <1>4, <1>5, <1>6, <1>7, <1>8 DEF TransitionRow, TaskRows

-----------------------------------------------------------------------------
(* The inductive invariant.                                                *)

\* The approvals that were requested have numbers, and none is decided in the future.
ApprovalsInOrder(d, n) ==
    /\ d.requested <= MaxApprovals
    /\ \A i \in 1..d.requested :
           d.approvals[i].status = "APPROVED" => d.approvals[i].decided <= n

\* The evaluation on the row repeats the metric evidence, whose demo fixture
\* always passes, and no evidence is ahead of its task's generation.
EvaluationCurrent(d) ==
    /\ \A t \in Tasks : /\ d.task[t].evaluation = MetricVerdicts(CurrentEvidence(d, t))
                        /\ d.task[t].stage = "ABSENT" => d.task[t].gen = 0
    /\ \A e \in d.evidence :
           /\ e.gen <= d.task[e.task].gen
           /\ (e.task \in DemoTasks /\ e.kind = "metric") => e.verdicts = {"PASS"}

Safe(d, n) ==
    /\ ApprovalsInOrder(d, n)
    /\ EvaluationCurrent(d)
    /\ \A t \in Tasks : Authorized(d, t) /\ Backed(d, t)

BeforeApproval == {"INTAKE", "CONTEXT", "PLAN", "PLAN_REVIEW"}

\* Both the committed database and the copy of the open transaction are safe, and
\* a transaction that still has to ask for an approval has room for it.
IInv ==
    /\ TypeOK
    /\ Safe(db, now)
    /\ ~Idle => Safe(txn.db, now)
    /\ (~Idle /\ TxnStage \in BeforeApproval) => txn.db.requested < MaxApprovals

-----------------------------------------------------------------------------
(* One stage transition keeps the database well-typed and safe.            *)

\* The fields of a database.
LEMMA DatabaseFields ==
    ASSUME NEW d \in Databases
    PROVE  /\ d.task \in [Tasks -> TaskRows] /\ d.approvals \in [ApprovalIds -> Approvals]
           /\ d.requested \in Nat /\ d.evidence \subseteq EvidenceRecords
           /\ d.candidates \subseteq MemoryRecords /\ d.memories \subseteq MemoryRecords
BY DEF Databases

\* Marking an approval as spent, or building a new one, leaves approvals.
LEMMA TransitionApprovalsType ==
    ASSUME NEW d \in Databases, NEW t \in Tasks, NEW target, NEW token, now \in Nat
    PROVE  TransitionApprovals(d, t, target, token) \in [ApprovalIds -> Approvals]
<1>1. d.approvals \in [ApprovalIds -> Approvals] /\ d.task[t].gen \in Nat
  BY DatabaseFields DEF TaskRows
<1>2. CASE target = "EXECUTE"
  <2>1. ConsumeApproval(d.approvals, token) \in [ApprovalIds -> Approvals]
    BY <1>1 DEF ConsumeApproval, Approvals
  <2> QED BY <1>2, <2>1 DEF TransitionApprovals
<1>3. CASE target = "APPROVAL"
  <2>1. BuildApproval(t, d.task[t].gen) \in Approvals
    BY <1>1, ConstantsAssumption DEF BuildApproval, Approvals
  <2> QED BY <1>1, <1>3, <2>1 DEF TransitionApprovals
<1>4. CASE target \notin {"EXECUTE", "APPROVAL"}
  BY <1>1, <1>4 DEF TransitionApprovals
<1> QED BY <1>2, <1>3, <1>4

\* A whole transition (_transition) keeps the database's type.
LEMMA TransitionType ==
    ASSUME NEW d \in Databases, NEW t \in Tasks, NEW target \in Stages, NEW token,
           now \in Nat
    PROVE  Transition(d, t, target, token) \in Databases
<1>1. [d.task EXCEPT ![t] = TransitionRow(d, t, target)] \in [Tasks -> TaskRows]
  BY DatabaseFields, TransitionRowType
<1>2. TransitionApprovals(d, t, target, token) \in [ApprovalIds -> Approvals]
  BY TransitionApprovalsType
<1>3. d.evidence \cup EnterEvidence(d, t, target) \subseteq EvidenceRecords
  BY DatabaseFields, EnterEvidenceType
<1>4. EnterMemory(d, t, target) \subseteq MemoryRecords
  BY EnterMemoryType
<1>5. /\ d.candidates \cup EnterMemory(d, t, target) \subseteq MemoryRecords
      /\ d.memories \cup EnterMemory(d, t, target) \subseteq MemoryRecords
  BY <1>4, DatabaseFields
<1>6. (IF target = "APPROVAL" THEN d.requested + 1 ELSE d.requested) \in Nat
  BY DatabaseFields
<1> QED BY <1>1, <1>2, <1>3, <1>5, <1>6 DEF Transition, Databases

\* The ways into and out of the stages that the properties are about.
LEMMA StageGraph ==
    ASSUME NEW s \in Stages, NEW target \in ALLOWED_TRANSITIONS[s]
    PROVE  /\ target \in Stages
           /\ target = "EXECUTE" => s = "APPROVAL"
           /\ target = "APPROVAL" => s = "PLAN_REVIEW"
           /\ target = "DECIDE" => s = "VERIFY"
           /\ (target \in ExecutedStages /\ target # "EXECUTE") => s \in ExecutedStages
           /\ s \in DecidedStages => target \in DecidedStages \ {"DECIDE"}
           /\ (target \in DecidedStages /\ target # "DECIDE") => s \in DecidedStages
BY DEF Stages, ALLOWED_TRANSITIONS, ExecutedStages, DecidedStages

\* What a transition leaves in the fields of the database.
LEMMA TransitionFields ==
    ASSUME NEW d \in Databases, NEW t \in Tasks, NEW target, NEW token
    PROVE  LET D == Transition(d, t, target, token) IN
           /\ D.approvals = TransitionApprovals(d, t, target, token)
           /\ D.requested = (IF target = "APPROVAL" THEN d.requested + 1 ELSE d.requested)
           /\ D.evidence = d.evidence \cup EnterEvidence(d, t, target)
           /\ D.task[t] = TransitionRow(d, t, target)
           /\ D.task[t].stage = target /\ D.task[t].gen = d.task[t].gen
           /\ \A u \in Tasks \ {t} : D.task[u] = d.task[u]
           /\ \A u \in Tasks : D.task[u].gen = d.task[u].gen
<1> DEFINE D == Transition(d, t, target, token)
<1>1. /\ D.approvals = TransitionApprovals(d, t, target, token)
      /\ D.requested = (IF target = "APPROVAL" THEN d.requested + 1 ELSE d.requested)
      /\ D.evidence = d.evidence \cup EnterEvidence(d, t, target)
      /\ D.task = [d.task EXCEPT ![t] = TransitionRow(d, t, target)]
  BY DEF Transition
<1>2. D.task[t] = TransitionRow(d, t, target) /\ \A u \in Tasks \ {t} : D.task[u] = d.task[u]
  BY <1>1, DatabaseFields
<1>3. TransitionRow(d, t, target).stage = target /\ TransitionRow(d, t, target).gen = d.task[t].gen
  BY DEF TransitionRow
<1> QED BY <1>1, <1>2, <1>3

\* A transition spends only the approval it was shown, in time, and numbers a new one.
LEMMA TransitionInOrder ==
    ASSUME NEW d \in Databases, NEW t \in Tasks, NEW target, NEW token, now \in Nat,
           target = "APPROVAL" => d.requested < MaxApprovals,
           ApprovalsInOrder(d, now)
    PROVE  ApprovalsInOrder(Transition(d, t, target, token), now)
<1> DEFINE D == Transition(d, t, target, token)
<1>1. /\ d.approvals \in [ApprovalIds -> Approvals] /\ d.requested \in Nat
      /\ MaxApprovals \in Nat /\ 1..d.requested \subseteq ApprovalIds
  BY DatabaseFields, ConstantsAssumption DEF ApprovalsInOrder, ApprovalIds
<1>2. D.approvals = TransitionApprovals(d, t, target, token)
  BY TransitionFields
<1>3. D.requested = (IF target = "APPROVAL" THEN d.requested + 1 ELSE d.requested)
  BY TransitionFields
<1>4. CASE target = "EXECUTE"
  <2>1. \A i \in 1..d.requested : D.approvals[i].status = "APPROVED" =>
           D.approvals[i].status = d.approvals[i].status
           /\ D.approvals[i].decided = d.approvals[i].decided
    BY <1>1, <1>2, <1>4 DEF TransitionApprovals, ConsumeApproval, Approvals
  <2> QED BY <1>3, <1>4, <2>1 DEF ApprovalsInOrder
<1>5. CASE target = "APPROVAL"
  <2>1. D.approvals[d.requested + 1].status = "PENDING"
    BY <1>1, <1>2, <1>5 DEF TransitionApprovals, BuildApproval, ApprovalIds
  <2>2. \A i \in 1..d.requested : D.approvals[i] = d.approvals[i]
    BY <1>1, <1>2, <1>5 DEF TransitionApprovals, ApprovalIds
  <2>3. D.requested = d.requested + 1 /\ d.requested + 1 <= MaxApprovals
    BY <1>1, <1>3, <1>5
  <2>4. \A i \in 1..(d.requested + 1) : i \in 1..d.requested \/ i = d.requested + 1
    BY <1>1
  <2> QED BY <2>1, <2>2, <2>3, <2>4 DEF ApprovalsInOrder
<1>6. CASE target \notin {"EXECUTE", "APPROVAL"}
  BY <1>2, <1>3, <1>6 DEF TransitionApprovals, ApprovalsInOrder
<1> QED BY <1>4, <1>5, <1>6

\* A task that goes beyond APPROVAL has just spent its latest approval, and nobody
\* else's latest approval changes.
LEMMA TransitionAuthorized ==
    ASSUME NEW d \in Databases, NEW t \in Tasks, NEW target, NEW token, now \in Nat,
           target = "APPROVAL" => d.requested < MaxApprovals,
           CanTransition(d, t, target, token),
           ApprovalsInOrder(d, now),
           \A u \in Tasks : Authorized(d, u),
           NEW u \in Tasks
    PROVE  Authorized(Transition(d, t, target, token), u)
<1> DEFINE D == Transition(d, t, target, token)
           spentIn(x, i) == /\ x.approvals[i].status = "CONSUMED"
                            /\ x.approvals[i].decided <= x.approvals[i].used
                            /\ x.approvals[i].used < x.approvals[i].expires
<1>1. /\ d.approvals \in [ApprovalIds -> Approvals] /\ d.requested \in Nat
      /\ MaxApprovals \in Nat /\ 1..d.requested \subseteq ApprovalIds
  BY DatabaseFields, ConstantsAssumption DEF ApprovalsInOrder, ApprovalIds
<1>2. /\ D.approvals = TransitionApprovals(d, t, target, token)
      /\ D.requested = (IF target = "APPROVAL" THEN d.requested + 1 ELSE d.requested)
      /\ D.task[t].stage = target
      /\ u # t => D.task[u] = d.task[u]
      /\ D.task[u].gen = d.task[u].gen
  BY TransitionFields
<1>3. d.task[t].stage \in Stages /\ target \in ALLOWED_TRANSITIONS[d.task[t].stage]
  BY DEF CanTransition, TransitionAllowed
<1>4. SUFFICES ASSUME D.task[u].stage \in ExecutedStages
               PROVE  \E i \in 1..D.requested :
                         IsLatestApproval(D, i, u, D.task[u].gen) /\ spentIn(D, i)
  BY DEF Authorized
<1>5. CASE target = "EXECUTE"
  <2>1. PICK k \in 1..d.requested : /\ IsLatestApproval(d, k, t, d.task[t].gen)
                                    /\ ValidToken(d, k, t, token)
    BY <1>3, <1>5, StageGraph DEF CanTransition, TransitionAllowed, ApprovalAllows
  <2>2. D.approvals = [d.approvals EXCEPT ![k].status = "CONSUMED", ![k].used = now]
    BY <1>2, <1>5, <2>1 DEF TransitionApprovals, ConsumeApproval, ValidToken
  <2>3. \A j \in 1..d.requested : j # k => D.approvals[j] = d.approvals[j]
    BY <1>1, <2>2
  <2>4. /\ D.approvals[k].task = d.approvals[k].task /\ D.approvals[k].gen = d.approvals[k].gen
        /\ D.approvals[k].status = "CONSUMED" /\ D.approvals[k].used = now
        /\ D.approvals[k].decided = d.approvals[k].decided
        /\ D.approvals[k].expires = d.approvals[k].expires
    BY <1>1, <2>2 DEF Approvals
  <2>5. \A j \in 1..d.requested : /\ D.approvals[j].task = d.approvals[j].task
                                  /\ D.approvals[j].gen = d.approvals[j].gen
    BY <2>3, <2>4
  <2>6. D.requested = d.requested
    BY <1>2, <1>5
  <2>7. CASE u = t
    <3>1. spentIn(D, k)
      BY <1>1, <2>1, <2>4 DEF ValidToken, ApprovalsInOrder, Approvals
    <3>2. IsLatestApproval(D, k, u, D.task[u].gen)
      BY <1>2, <2>1, <2>5, <2>6, <2>7 DEF IsLatestApproval
    <3> QED BY <2>6, <3>1, <3>2
  <2>8. CASE u # t
    <3>1. PICK i \in 1..d.requested : IsLatestApproval(d, i, u, d.task[u].gen) /\ spentIn(d, i)
      BY <1>2, <1>4, <2>8 DEF Authorized
    <3>2. i # k
      BY <2>1, <2>8, <3>1 DEF IsLatestApproval
    <3>3. spentIn(D, i)
      BY <2>3, <3>1, <3>2
    <3>4. IsLatestApproval(D, i, u, D.task[u].gen)
      BY <1>2, <2>5, <2>6, <3>1 DEF IsLatestApproval
    <3> QED BY <2>6, <3>3, <3>4
  <2> QED BY <2>7, <2>8
<1>6. CASE target = "APPROVAL"
  <2>1. u # t
    BY <1>2, <1>4, <1>6 DEF ExecutedStages
  <2>2. PICK i \in 1..d.requested : IsLatestApproval(d, i, u, d.task[u].gen) /\ spentIn(d, i)
    BY <1>2, <1>4, <2>1 DEF Authorized
  <2>3. D.approvals[d.requested + 1].task = t
    BY <1>1, <1>2, <1>6 DEF TransitionApprovals, BuildApproval, ApprovalIds
  <2>4. \A j \in 1..d.requested : D.approvals[j] = d.approvals[j]
    BY <1>1, <1>2, <1>6 DEF TransitionApprovals, ApprovalIds
  <2>5. /\ D.requested = d.requested + 1
        /\ \A j \in 1..(d.requested + 1) : j \in 1..d.requested \/ j = d.requested + 1
    BY <1>1, <1>2, <1>6
  <2>6. i \in 1..D.requested /\ spentIn(D, i)
    BY <1>1, <2>2, <2>4, <2>5
  <2>7. IsLatestApproval(D, i, u, D.task[u].gen)
    BY <1>2, <2>1, <2>2, <2>3, <2>4, <2>5, <2>6 DEF IsLatestApproval
  <2> QED BY <2>6, <2>7
<1>7. CASE target \notin {"EXECUTE", "APPROVAL"}
  <2>1. d.task[u].stage \in ExecutedStages
    BY <1>2, <1>3, <1>4, <1>7, StageGraph
  <2>2. D.approvals = d.approvals /\ D.requested = d.requested
    BY <1>2, <1>7 DEF TransitionApprovals
  <2>3. PICK i \in 1..d.requested : IsLatestApproval(d, i, u, d.task[u].gen) /\ spentIn(d, i)
    BY <2>1 DEF Authorized
  <2>4. IsLatestApproval(D, i, u, D.task[u].gen) /\ spentIn(D, i)
    BY <1>2, <2>2, <2>3 DEF IsLatestApproval
  <2> QED BY <2>2, <2>4
<1> QED BY <1>5, <1>6, <1>7

\* The records a demo stage adds belong to the task's generation; its metric passes,
\* and nothing is recorded from DECIDE on.
LEMMA EnterEvidenceFacts ==
    ASSUME NEW d \in Databases, NEW t \in Tasks, NEW target,
           NEW e \in EnterEvidence(d, t, target)
    PROVE  /\ t \in DemoTasks /\ e.task = t /\ e.gen = d.task[t].gen
           /\ e.kind = "metric" => target = "EVALUATE" /\ e.verdicts = {"PASS"}
           /\ target \notin DecidedStages
<1>1. t \in DemoTasks
  BY DEF EnterEvidence
<1>2. PICK k \in DemoKinds(target, d.task[t].scenario) : e = DemoRecord(t, d.task[t].gen, k)
  BY <1>1 DEF EnterEvidence
<1>3. /\ k = "metric" => target = "EVALUATE"
      /\ target \notin DecidedStages
  BY <1>2 DEF DemoKinds, DecidedStages
<1>4. /\ e.task = t /\ e.gen = d.task[t].gen /\ e.kind = k
      /\ k = "metric" => e.verdicts = {"PASS"}
  BY <1>2 DEF DemoRecord
<1> QED BY <1>1, <1>3, <1>4

\* Entering EVALUATE records the demo metric.
LEMMA EnterEvaluate ==
    ASSUME NEW d \in Databases, NEW t \in DemoTasks
    PROVE  \E e \in EnterEvidence(d, t, "EVALUATE") : e.kind = "metric"
<1>1. DemoKinds("EVALUATE", d.task[t].scenario) = {"metric"}
  BY DEF DemoKinds
<1>2. DemoRecord(t, d.task[t].gen, "metric") \in EnterEvidence(d, t, "EVALUATE")
  BY <1>1 DEF EnterEvidence
<1> QED BY <1>2 DEF DemoRecord

\* The current evidence after a transition: the old, and what the stage records.
LEMMA TransitionEvidence ==
    ASSUME NEW d \in Databases, NEW t \in Tasks, NEW target, NEW token, NEW u \in Tasks
    PROVE  CurrentEvidence(Transition(d, t, target, token), u) =
               CurrentEvidence(d, u) \cup (IF u = t THEN EnterEvidence(d, t, target) ELSE {})
<1> DEFINE D == Transition(d, t, target, token)
<1>1. D.evidence = d.evidence \cup EnterEvidence(d, t, target) /\ D.task[u].gen = d.task[u].gen
  BY TransitionFields
<1>2. \A e \in EnterEvidence(d, t, target) : e.task = t /\ e.gen = d.task[t].gen
  BY EnterEvidenceFacts
<1> QED BY <1>1, <1>2 DEF CurrentEvidence, EvidenceOf

\* A transition keeps the row's evaluation equal to the results of the recorded metric.
LEMMA TransitionEvaluation ==
    ASSUME NEW d \in Databases, NEW t \in Tasks, NEW target \in Stages, NEW token,
           EvaluationCurrent(d)
    PROVE  EvaluationCurrent(Transition(d, t, target, token))
<1> DEFINE D == Transition(d, t, target, token)
           N == EnterEvidence(d, t, target)
<1>1. /\ D.evidence = d.evidence \cup N /\ D.task[t] = TransitionRow(d, t, target)
      /\ \A u \in Tasks \ {t} : D.task[u] = d.task[u]
      /\ \A u \in Tasks : D.task[u].gen = d.task[u].gen
  BY TransitionFields
<1>2. \A e \in N : /\ t \in DemoTasks /\ e.task = t /\ e.gen = d.task[t].gen
                   /\ e.kind = "metric" => target = "EVALUATE" /\ e.verdicts = {"PASS"}
  BY EnterEvidenceFacts
<1>3. d.task[t].gen \in Nat /\ \A e \in d.evidence : e.task \in Tasks
  BY DatabaseFields DEF TaskRows, EvidenceRecords
<1>4. \A e \in D.evidence :
           /\ e.gen <= D.task[e.task].gen
           /\ (e.task \in DemoTasks /\ e.kind = "metric") => e.verdicts = {"PASS"}
  <2>1. SUFFICES ASSUME NEW e \in D.evidence
                 PROVE  /\ e.gen <= D.task[e.task].gen
                        /\ (e.task \in DemoTasks /\ e.kind = "metric") => e.verdicts = {"PASS"}
    OBVIOUS
  <2>2. CASE e \in d.evidence
    BY <1>1, <1>3, <2>2 DEF EvaluationCurrent
  <2>3. CASE e \in N
    BY <1>1, <1>2, <1>3, <2>3
  <2> QED BY <1>1, <2>2, <2>3
<1>5. ASSUME NEW u \in Tasks
      PROVE  D.task[u].evaluation = MetricVerdicts(CurrentEvidence(D, u))
  <2>1. d.task[u].evaluation = MetricVerdicts(CurrentEvidence(d, u))
    BY DEF EvaluationCurrent
  <2>2. CASE u # t
    <3>1. CurrentEvidence(D, u) = CurrentEvidence(d, u)
      BY <2>2, TransitionEvidence
    <3> QED BY <1>1, <2>1, <2>2, <3>1
  <2>3. CASE u = t /\ ~(t \in DemoTasks /\ target = "EVALUATE")
    <3>1. D.task[u].evaluation = d.task[u].evaluation
      BY <1>1, <2>3 DEF TransitionRow
    <3>2. CurrentEvidence(D, u) = CurrentEvidence(d, u) \cup N
      BY <2>3, TransitionEvidence
    <3>3. {f \in CurrentEvidence(D, u) : f.kind = "metric"} =
             {f \in CurrentEvidence(d, u) : f.kind = "metric"}
      BY <1>2, <2>3, <3>2
    <3> QED BY <2>1, <3>1, <3>3 DEF MetricVerdicts
  <2>4. CASE u = t /\ t \in DemoTasks /\ target = "EVALUATE"
    <3>1. D.task[u].evaluation = {"PASS"}
      BY <1>1, <2>4 DEF TransitionRow
    <3>2. PICK e \in N : e.kind = "metric"
      BY <2>4, EnterEvaluate
    <3>3. e \in CurrentEvidence(D, u)
      BY <2>4, TransitionEvidence
    <3>4. \A f \in CurrentEvidence(D, u) : f.kind = "metric" => f.verdicts = {"PASS"}
      BY <1>4, <2>4 DEF CurrentEvidence, EvidenceOf
    <3> QED BY <3>1, <3>2, <3>3, <3>4 DEF MetricVerdicts
  <2> QED BY <2>2, <2>3, <2>4
<1>6. ASSUME NEW u \in Tasks
      PROVE  D.task[u].stage = "ABSENT" => D.task[u].gen = 0
  BY <1>1, TransitionFields DEF EvaluationCurrent, Stages
<1> QED BY <1>4, <1>5, <1>6 DEF EvaluationCurrent

\* A transition decides only on evidence that passes, and nothing is recorded after.
LEMMA TransitionBacked ==
    ASSUME NEW d \in Databases, NEW t \in Tasks, NEW target, NEW token,
           CanTransition(d, t, target, token), EvaluationCurrent(d),
           \A u \in Tasks : Backed(d, u),
           NEW u \in Tasks
    PROVE  Backed(Transition(d, t, target, token), u)
<1> DEFINE D == Transition(d, t, target, token)
           E == CurrentEvidence(d, t)
<1>1. /\ D.task[t] = TransitionRow(d, t, target) /\ D.task[t].stage = target
      /\ u # t => D.task[u] = d.task[u]
  BY TransitionFields
<1>2. d.task[t].stage \in Stages /\ target \in ALLOWED_TRANSITIONS[d.task[t].stage]
  BY DEF CanTransition, TransitionAllowed
<1>3. CASE u # t
  <2>1. CurrentEvidence(D, u) = CurrentEvidence(d, u)
    BY <1>3, TransitionEvidence
  <2>2. D.task[u] = d.task[u] /\ Backed(d, u)
    BY <1>1, <1>3
  <2> QED BY <2>1, <2>2 DEF Backed
<1>4. CASE u = t /\ target = "DECIDE"
  <2>1. d.task[t].stage = "VERIFY" /\ target \in DecidedStages
    BY <1>2, <1>4, StageGraph DEF DecidedStages
  <2>2. EvidenceGate(E) = "PASS"
    BY <1>4, <2>1 DEF CanTransition, GateBlocks, EvidenceGate
  <2>3. CurrentEvidence(D, t) = E
    BY <2>1, TransitionEvidence, EnterEvidenceFacts
  <2>4. D.task[t].gate = EvidenceGate(E) /\ D.task[t].decision = DecisionFor(d.task[t].evaluation)
    BY <1>1, <1>4 DEF TransitionRow
  <2> QED BY <1>1, <1>4, <2>1, <2>2, <2>3, <2>4 DEF Backed, EvaluationCurrent
<1>5. CASE u = t /\ target # "DECIDE"
  <2>1. D.task[t].gate = d.task[t].gate /\ D.task[t].decision = d.task[t].decision
    BY <1>1, <1>5 DEF TransitionRow
  <2>2. SUFFICES ASSUME d.task[t].decision # "none" PROVE Backed(D, t)
    BY <1>5, <2>1 DEF Backed
  <2>3. d.task[t].stage \in DecidedStages
    BY <2>2 DEF Backed
  <2>4. target \in DecidedStages
    BY <1>2, <2>3, StageGraph
  <2>5. EnterEvidence(d, t, target) = {}
    BY <2>4, EnterEvidenceFacts
  <2>6. CurrentEvidence(D, t) = E
    BY <2>5, TransitionEvidence
  <2> QED BY <1>1, <2>1, <2>4, <2>6 DEF Backed
<1> QED BY <1>3, <1>4, <1>5

\* A transition that the checks of _transition let through keeps every part of Safe.
LEMMA TransitionSafe ==
    ASSUME NEW d \in Databases, NEW t \in Tasks, NEW target, NEW token, now \in Nat,
           target = "APPROVAL" => d.requested < MaxApprovals,
           CanTransition(d, t, target, token), Safe(d, now)
    PROVE  /\ Transition(d, t, target, token) \in Databases
           /\ Safe(Transition(d, t, target, token), now)
<1>1. target \in Stages
  BY StageGraph DEF CanTransition, TransitionAllowed
<1>2. Transition(d, t, target, token) \in Databases
  BY <1>1, TransitionType
<1>3. ApprovalsInOrder(Transition(d, t, target, token), now)
  BY TransitionInOrder DEF Safe
<1>4. EvaluationCurrent(Transition(d, t, target, token))
  BY <1>1, TransitionEvaluation DEF Safe
<1>5. \A u \in Tasks : Authorized(Transition(d, t, target, token), u)
  BY TransitionAuthorized DEF Safe
<1>6. \A u \in Tasks : Backed(Transition(d, t, target, token), u)
  BY TransitionBacked DEF Safe
<1> QED BY <1>2, <1>3, <1>4, <1>5, <1>6 DEF Safe

-----------------------------------------------------------------------------
(* The other writes.                                                       *)

\* A write to one undecided row and, for a live task, to its evidence: what
\* reset_demo, create_live_task, ingestion, finalization and a failed gate do.
LEMMA RowWriteSafe ==
    ASSUME NEW d \in Databases, NEW D \in Databases, NEW t \in Tasks, NEW n \in Nat,
           Safe(d, n),
           D.approvals = d.approvals, D.requested = d.requested,
           \A u \in Tasks \ {t} : D.task[u] = d.task[u],
           d.evidence \subseteq D.evidence,
           \A e \in D.evidence \ d.evidence :
               e.task = t /\ e.gen = D.task[t].gen /\ t \notin DemoTasks,
           D.task[t].evaluation = MetricVerdicts(CurrentEvidence(D, t)),
           D.task[t].decision = "none",
           D.task[t].gen >= d.task[t].gen,
           D.task[t].stage # "ABSENT",
           D.task[t].stage \in ExecutedStages =>
               D.task[t].stage = d.task[t].stage /\ D.task[t].gen = d.task[t].gen
    PROVE  Safe(D, n)
<1>1. ApprovalsInOrder(D, n)
  BY DEF Safe, ApprovalsInOrder
<1>2. ASSUME NEW u \in Tasks \ {t} PROVE CurrentEvidence(D, u) = CurrentEvidence(d, u)
  BY <1>2 DEF CurrentEvidence, EvidenceOf
<1>3. \A u \in Tasks : /\ D.task[u].evaluation = MetricVerdicts(CurrentEvidence(D, u))
                       /\ D.task[u].stage = "ABSENT" => D.task[u].gen = 0
  BY <1>2 DEF Safe, EvaluationCurrent
<1>4. d.task[t].gen \in Nat /\ D.task[t].gen \in Nat
      /\ \A e \in D.evidence : e.task \in Tasks /\ e.gen \in Nat
  BY DatabaseFields DEF TaskRows, EvidenceRecords
<1>5. ASSUME NEW e \in D.evidence
      PROVE  /\ e.gen <= D.task[e.task].gen
             /\ (e.task \in DemoTasks /\ e.kind = "metric") => e.verdicts = {"PASS"}
  <2>1. CASE e \in d.evidence
    <3>1. /\ e.gen <= d.task[e.task].gen
          /\ (e.task \in DemoTasks /\ e.kind = "metric") => e.verdicts = {"PASS"}
      BY <2>1 DEF Safe, EvaluationCurrent
    <3>2. CASE e.task = t
      BY <1>4, <3>1, <3>2
    <3>3. CASE e.task # t
      BY <1>4, <3>1, <3>3
    <3> QED BY <3>2, <3>3
  <2>2. CASE e \notin d.evidence
    BY <1>4, <2>2
  <2> QED BY <2>1, <2>2
<1>6. EvaluationCurrent(D)
  BY <1>3, <1>5 DEF EvaluationCurrent
<1>7. ASSUME NEW u \in Tasks PROVE Authorized(D, u)
  <2>1. Authorized(d, u)
    BY DEF Safe
  <2>2. SUFFICES ASSUME D.task[u].stage \in ExecutedStages PROVE Authorized(D, u)
    BY DEF Authorized
  <2>3. D.task[u].stage = d.task[u].stage /\ D.task[u].gen = d.task[u].gen
    BY <2>2
  <2> QED BY <2>1, <2>3 DEF Authorized, IsLatestApproval
<1>8. ASSUME NEW u \in Tasks PROVE Backed(D, u)
  <2>1. CASE u = t
    BY <2>1 DEF Backed
  <2>2. CASE u # t
    <3>1. D.task[u] = d.task[u] /\ CurrentEvidence(D, u) = CurrentEvidence(d, u) /\ Backed(d, u)
      BY <1>2, <2>2 DEF Safe
    <3> QED BY <3>1 DEF Backed
  <2> QED BY <2>1, <2>2
<1> QED BY <1>1, <1>6, <1>7, <1>8 DEF Safe

\* The database after a write to one row.
LEMMA RowWriteFields ==
    ASSUME NEW d \in Databases, NEW t \in Tasks, NEW row \in TaskRows
    PROVE  LET D == [d EXCEPT !.task[t] = row] IN
           /\ D \in Databases
           /\ D.task[t] = row /\ \A u \in Tasks \ {t} : D.task[u] = d.task[u]
           /\ D.evidence = d.evidence /\ D.approvals = d.approvals /\ D.requested = d.requested
<1> DEFINE D == [d EXCEPT !.task[t] = row]
<1>1. D.task = [d.task EXCEPT ![t] = row]
  BY DEF Databases
<1>2. D.task \in [Tasks -> TaskRows] /\ D.task[t] = row
      /\ \A u \in Tasks \ {t} : D.task[u] = d.task[u]
  BY <1>1, DatabaseFields
<1>3. /\ D.evidence = d.evidence /\ D.approvals = d.approvals /\ D.requested = d.requested
      /\ D \in Databases
  BY <1>2 DEF Databases
<1> QED BY <1>2, <1>3

\* Time only moves decisions further into the past.
LEMMA SafeLater ==
    ASSUME NEW d \in Databases, NEW n \in Nat, NEW m \in Nat, n <= m, Safe(d, n)
    PROVE  Safe(d, m)
<1>1. d.requested \in Nat /\ 1..d.requested \subseteq ApprovalIds
  BY DatabaseFields, ConstantsAssumption DEF ApprovalIds, Safe, ApprovalsInOrder
<1>2. \A i \in 1..d.requested : d.approvals[i].decided \in Nat
  BY <1>1, DatabaseFields DEF Approvals
<1>3. ApprovalsInOrder(d, m)
  BY <1>2 DEF Safe, ApprovalsInOrder
<1> QED BY <1>3 DEF Safe

\* The row that a failed evidence gate saves is a task row.
LEMMA GateRowType ==
    ASSUME NEW old \in TaskRows, NEW agent \in Agents \cup {NoAgent}
    PROVE  LET row == [old EXCEPT !.gate = "FAIL", !.reviewer = agent, !.version = @ + 1]
           IN /\ row \in TaskRows /\ row.stage = old.stage /\ row.gen = old.gen
              /\ row.evaluation = old.evaluation /\ row.decision = old.decision
<1>1. old.version + 1 \in Nat
  BY DEF TaskRows
<1> QED BY <1>1 DEF TaskRows

\* A failed gate is recorded on a task that has decided nothing.
LEMMA GateFailureSafe ==
    ASSUME NEW d \in Databases, NEW t \in Tasks, now \in Nat, Safe(d, now),
           d.task[t].stage = "VERIFY"
    PROVE  RecordGateFailure(d, t) \in Databases /\ Safe(RecordGateFailure(d, t), now)
<1> DEFINE D == RecordGateFailure(d, t)
           row == [d.task[t] EXCEPT !.gate = "FAIL",
                       !.reviewer = IndependentReviewer(CurrentEvidence(d, t)),
                       !.version = @ + 1]
<1>1. CurrentEvidence(d, t) \in SUBSET EvidenceRecords
  BY DatabaseFields DEF CurrentEvidence, EvidenceOf
<1>2. IndependentReviewer(CurrentEvidence(d, t)) \in Agents \cup {NoAgent}
  BY <1>1, ReviewerType
<1>3. d.task[t] \in TaskRows
  BY DatabaseFields
<1>4. /\ row \in TaskRows /\ row.stage = "VERIFY" /\ row.gen = d.task[t].gen
      /\ row.evaluation = d.task[t].evaluation /\ row.decision = d.task[t].decision
  BY <1>2, <1>3, GateRowType
<1> HIDE DEF row
<1>5. D = [d EXCEPT !.task[t] = row]
  BY DEF RecordGateFailure, row
<1>6. /\ D \in Databases /\ D.task[t] = row /\ \A u \in Tasks \ {t} : D.task[u] = d.task[u]
      /\ D.evidence = d.evidence /\ D.approvals = d.approvals /\ D.requested = d.requested
  BY <1>4, <1>5, RowWriteFields
<1> HIDE DEF D
<1>7. d.task[t].decision = "none"
  BY DEF Safe, Backed, DecidedStages
<1>8. CurrentEvidence(D, t) = CurrentEvidence(d, t)
  BY <1>4, <1>6 DEF CurrentEvidence, EvidenceOf
<1>9. D.task[t].evaluation = MetricVerdicts(CurrentEvidence(D, t))
  BY <1>4, <1>6, <1>8 DEF Safe, EvaluationCurrent
<1>10. d.task[t].gen \in Nat
  BY <1>3 DEF TaskRows
<1>11. Safe(D, now)
  BY <1>4, <1>6, <1>7, <1>9, <1>10, RowWriteSafe
<1> QED BY <1>6, <1>11 DEF D

\* A live item becomes an evidence record of the task's generation.
LEMMA LiveRecordType ==
    ASSUME TypeOK, NEW t \in LiveTasks, NEW item \in LiveItems
    PROVE  LiveRecord(t, item) \in EvidenceRecords
<1>1. item \in Items
  BY ConstantsAssumption
<1>2. t \in Tasks /\ db.task[t].gen \in Nat
  BY DatabaseFields DEF TypeOK, TaskRows, Tasks
<1>3. item.producer \in Agents /\ item.digest \in Digests
  BY <1>1 DEF Items, Agents, Digests
<1> QED BY <1>1, <1>2, <1>3 DEF LiveRecord, Items, EvidenceRecords

-----------------------------------------------------------------------------
(* The three ways in which a step can touch the two databases.             *)

\* A request of one step commits a safe database.
LEMMA CommitInv ==
    ASSUME IInv, Idle, now' = now, txn' = txn, db' \in Databases, Safe(db', now)
    PROVE  IInv'
<1>1. TypeOK'
  BY DEF IInv, TypeOK
<1>2. Idle'
  BY DEF Idle
<1> QED BY <1>1, <1>2 DEF IInv

\* A transaction ends: with its copy, or with what was there before.
LEMMA EndInv ==
    ASSUME IInv, now' = now, txn' = NoTxn, db' \in Databases, Safe(db', now)
    PROVE  IInv'
<1>1. TypeOK'
  BY DEF IInv, TypeOK, Txns
<1>2. Idle'
  BY DEF Idle
<1> QED BY <1>1, <1>2 DEF IInv

\* A transaction begins, or makes a step on its copy.
LEMMA WorkInv ==
    ASSUME IInv, now' = now, db' = db, txn' \in Txns, Safe(txn'.db, now),
           TxnStage' \in BeforeApproval => txn'.db.requested < MaxApprovals
    PROVE  IInv'
<1>1. TypeOK'
  BY DEF IInv, TypeOK
<1>2. Safe(db', now')
  BY DEF IInv
<1> QED BY <1>1, <1>2 DEF IInv

\* The fields of an open transaction.
LEMMA OpenTxn ==
    ASSUME TypeOK, txn.op \in {"autorun", "finalize"}
    PROVE  /\ ~Idle
           /\ txn \in [op: {"autorun", "finalize"}, task: Tasks, token: Tokens,
                       steps: Nat, db: Databases]
           /\ txn.task \in Tasks /\ txn.token \in Tokens /\ txn.steps \in Nat
           /\ txn.db \in Databases /\ now \in Nat
<1>1. txn # NoTxn
  BY DEF NoTxn
<1>2. txn \in [op: {"autorun", "finalize"}, task: Tasks, token: Tokens,
               steps: Nat, db: Databases]
  BY <1>1 DEF TypeOK, Txns
<1> QED BY <1>1, <1>2 DEF Idle, TypeOK

-----------------------------------------------------------------------------
(* The requests of one step.                                               *)

\* The empty store of ensure_demo satisfies the inductive invariant.
LEMMA InitInv == Init => IInv
<1> SUFFICES ASSUME Init PROVE IInv
  OBVIOUS
<1> DEFINE free == [status |-> "FREE", task |-> CHOOSE t \in Tasks : TRUE, gen |-> 0,
                    expires |-> 0, decided |-> 0, used |-> 0]
<1>1. free \in Approvals
  BY ConstantsAssumption DEF Approvals
<1>2. \A t \in DemoTasks : NewRow(1, "happy_path") \in TaskRows
  BY NewRowType
<1>3. /\ AbsentRow \in TaskRows /\ AbsentRow.gen = 0 /\ AbsentRow.stage = "ABSENT"
      /\ AbsentRow.evaluation = {} /\ AbsentRow.decision = "none"
  <2>1. NewRow(0, "external_live") \in TaskRows
    BY NewRowType
  <2>2. /\ NewRow(0, "external_live").gen = 0 /\ NewRow(0, "external_live").evaluation = {}
        /\ NewRow(0, "external_live").decision = "none"
    BY DEF NewRow
  <2> QED BY <2>1, <2>2 DEF AbsentRow, TaskRows
<1>4. /\ NewRow(1, "happy_path").stage = "INTAKE"
      /\ NewRow(1, "happy_path").evaluation = {} /\ NewRow(1, "happy_path").decision = "none"
  BY DEF NewRow
<1>5. /\ db.task = [t \in Tasks |-> IF t \in DemoTasks THEN NewRow(1, "happy_path")
                                    ELSE AbsentRow]
      /\ db.approvals = [i \in ApprovalIds |-> free]
      /\ db.requested = 0 /\ db.evidence = {} /\ db.candidates = {} /\ db.memories = {}
      /\ DOMAIN db = {"task", "approvals", "requested", "evidence", "candidates", "memories"}
  BY DEF Init
<1>6. db.task \in [Tasks -> TaskRows] /\ db.approvals \in [ApprovalIds -> Approvals]
  <2> HIDE DEF free
  <2>1. \A t \in Tasks : db.task[t] \in TaskRows
    BY <1>2, <1>3, <1>5
  <2>2. db.task \in [Tasks -> TaskRows]
    BY <1>5, <2>1
  <2> QED BY <1>1, <1>5, <2>2
<1>7. db \in Databases
  BY <1>5, <1>6 DEF Init, Databases
<1>8. TypeOK
  BY <1>7 DEF Init, TypeOK, Txns
<1>9. \A t \in Tasks : /\ db.task[t].evaluation = {} /\ db.task[t].decision = "none"
                       /\ db.task[t].stage \in {"INTAKE", "ABSENT"}
                       /\ db.task[t].stage = "ABSENT" => db.task[t].gen = 0
  BY <1>3, <1>4, <1>5
<1>10. ApprovalsInOrder(db, now)
  BY <1>5, ConstantsAssumption DEF ApprovalsInOrder
<1>11. EvaluationCurrent(db)
  BY <1>5, <1>9 DEF EvaluationCurrent, MetricVerdicts, CurrentEvidence, EvidenceOf
<1>12. \A t \in Tasks : Authorized(db, t) /\ Backed(db, t)
  BY <1>9 DEF Authorized, Backed, ExecutedStages
<1>13. Idle
  BY DEF Init, Idle
<1> QED BY <1>8, <1>10, <1>11, <1>12, <1>13 DEF IInv, Safe

\* A new row: no evidence belongs to its generation yet.
LEMMA NewRowSafe ==
    ASSUME IInv, NEW t \in Tasks, NEW g \in Nat, db.task[t].gen < g,
           NEW s \in {"happy_path", "insufficient_evidence", "external_live"},
           db' = [db EXCEPT !.task[t] = NewRow(g, s)]
    PROVE  db' \in Databases /\ Safe(db', now)
<1>1. db \in Databases /\ now \in Nat /\ Safe(db, now) /\ NewRow(g, s) \in TaskRows
  BY NewRowType DEF IInv, TypeOK
<1>2. /\ NewRow(g, s).stage = "INTAKE" /\ NewRow(g, s).gen = g
      /\ NewRow(g, s).evaluation = {} /\ NewRow(g, s).decision = "none"
  BY DEF NewRow
<1>3. /\ db' \in Databases /\ db'.task[t] = NewRow(g, s)
      /\ \A u \in Tasks \ {t} : db'.task[u] = db.task[u]
      /\ db'.evidence = db.evidence /\ db'.approvals = db.approvals
      /\ db'.requested = db.requested
  BY <1>1, RowWriteFields
<1>4. db.task[t].gen \in Nat /\ \A e \in db.evidence : e.gen \in Nat
  BY <1>1, DatabaseFields DEF TaskRows, EvidenceRecords
<1>5. \A e \in db.evidence : e.task = t => e.gen <= db.task[t].gen
  BY <1>1 DEF Safe, EvaluationCurrent
<1>6. CurrentEvidence(db', t) = {}
  BY <1>2, <1>3, <1>4, <1>5 DEF CurrentEvidence, EvidenceOf
<1>7. MetricVerdicts(CurrentEvidence(db', t)) = {}
  BY <1>6 DEF MetricVerdicts
<1>8. /\ db'.task[t].gen >= db.task[t].gen
      /\ db'.task[t].stage \notin ExecutedStages \cup {"ABSENT"}
      /\ db'.task[t].evaluation = MetricVerdicts(CurrentEvidence(db', t))
      /\ db'.task[t].decision = "none"
  <2>1. db'.task[t].gen = g /\ db'.task[t].stage = "INTAKE"
        /\ db'.task[t].evaluation = {} /\ db'.task[t].decision = "none"
    BY <1>2, <1>3
  <2>2. db'.task[t].gen >= db.task[t].gen
    BY <1>4, <2>1
  <2>3. "INTAKE" \notin ExecutedStages \cup {"ABSENT"}
    BY DEF ExecutedStages
  <2> QED BY <1>7, <2>1, <2>2, <2>3
<1>9. Safe(db', now)
  BY <1>1, <1>3, <1>8, RowWriteSafe
<1> QED BY <1>3, <1>9

\* reset_demo, which opens a new generation over the old row, keeps the invariant.
LEMMA ResetDemoInv ==
    ASSUME IInv, NEW t \in DemoTasks, NEW s \in {"happy_path", "insufficient_evidence"},
           ResetDemo(t, s)
    PROVE  IInv'
<1>1. t \in Tasks /\ db.task[t].gen \in Nat
  BY DatabaseFields DEF IInv, TypeOK, Tasks, TaskRows
<1>2. db.task[t].gen + 1 \in Nat /\ db.task[t].gen < db.task[t].gen + 1
  BY <1>1
<1>3. db' = [db EXCEPT !.task[t] = NewRow(db.task[t].gen + 1, s)]
  BY DEF ResetDemo
<1>4. db' \in Databases /\ Safe(db', now)
  BY <1>1, <1>2, <1>3, NewRowSafe
<1> QED BY <1>4, CommitInv DEF ResetDemo

\* create_live_task keeps the invariant.
LEMMA CreateLiveTaskInv ==
    ASSUME IInv, NEW t \in LiveTasks, CreateLiveTask(t)
    PROVE  IInv'
<1>1. t \in Tasks /\ 1 \in Nat /\ db.task[t].gen < 1
  BY DEF IInv, Safe, EvaluationCurrent, CreateLiveTask, Tasks
<1>2. db' = [db EXCEPT !.task[t] = NewRow(1, "external_live")]
  BY DEF CreateLiveTask
<1>3. db' \in Databases /\ Safe(db', now)
  BY <1>1, <1>2, NewRowSafe
<1> QED BY <1>3, CommitInv DEF CreateLiveTask

\* advance, with any target and any token, keeps the invariant.
LEMMA AdvanceInv ==
    ASSUME IInv, NEW t \in Tasks, NEW target \in Stages, NEW token, Advance(t, target, token)
    PROVE  IInv'
<1>1. db \in Databases /\ now \in Nat /\ Safe(db, now)
  BY DEF IInv, TypeOK
<1>2. target = "APPROVAL" => db.requested < MaxApprovals
  BY StageGraph DEF Advance, RoomForApproval, CanTransition, TransitionAllowed
<1>3. CanTransition(db, t, target, token) /\ db' = Transition(db, t, target, token)
  BY DEF Advance
<1>4. db' \in Databases /\ Safe(db', now)
  BY <1>1, <1>2, <1>3, TransitionSafe
<1> QED BY <1>4, CommitInv DEF Advance

\* advance that the evidence gate stops keeps the invariant.
LEMMA AdvanceGateFailedInv ==
    ASSUME IInv, NEW t \in Tasks, AdvanceGateFailed(t)
    PROVE  IInv'
<1>1. db \in Databases /\ now \in Nat /\ Safe(db, now)
  BY DEF IInv, TypeOK
<1>2. db.task[t].stage = "VERIFY" /\ db' = RecordGateFailure(db, t)
  BY DEF AdvanceGateFailed, GateBlocks
<1>3. db' \in Databases /\ Safe(db', now)
  BY <1>1, <1>2, GateFailureSafe
<1> QED BY <1>3, CommitInv DEF AdvanceGateFailed

\* A human decides a pending approval: no spent one is touched.
LEMMA DecideApprovalInv ==
    ASSUME IInv, NEW i \in ApprovalIds, NEW decision, NEW digest,
           DecideApproval(i, decision, digest)
    PROVE  IInv'
<1> DEFINE status == IF decision = "approved" THEN "APPROVED" ELSE "DENIED"
           a == [db.approvals[i] EXCEPT !.status = status, !.decided = now]
<1>1. db \in Databases /\ now \in Nat /\ Safe(db, now) /\ db.approvals[i] \in Approvals
  BY DatabaseFields DEF IInv, TypeOK
<1>2. i \in 1..db.requested /\ db.approvals[i].status = "PENDING"
  BY DEF DecideApproval
<1>3. status \in {"APPROVED", "DENIED"}
  OBVIOUS
<1> HIDE DEF status
<1>4. a \in Approvals
  BY <1>1, <1>3 DEF Approvals
<1>5. a.status # "CONSUMED" /\ a.task = db.approvals[i].task /\ a.gen = db.approvals[i].gen
      /\ a.decided = now
  BY <1>1, <1>3 DEF Approvals
<1>6. db' = [db EXCEPT !.approvals[i] = a]
  <2>1. db' = [db EXCEPT !.approvals[i].status = status, !.approvals[i].decided = now]
    BY DEF DecideApproval, status
  <2> QED BY <1>1, <2>1 DEF Databases, Approvals
<1> HIDE DEF a
<1>7. /\ db'.approvals = [db.approvals EXCEPT ![i] = a]
      /\ db'.task = db.task /\ db'.requested = db.requested /\ db'.evidence = db.evidence
      /\ db'.candidates = db.candidates /\ db'.memories = db.memories
  BY <1>1, <1>6 DEF Databases
<1>8. db'.approvals \in [ApprovalIds -> Approvals]
  BY <1>1, <1>4, <1>7, DatabaseFields
<1>9. db' \in Databases
  BY <1>1, <1>6, <1>7, <1>8 DEF Databases
<1>10. db'.approvals[i] = a /\ \A j \in ApprovalIds \ {i} : db'.approvals[j] = db.approvals[j]
  BY <1>1, <1>7, DatabaseFields
<1>11. db.requested \in Nat /\ 1..db.requested \subseteq ApprovalIds
  BY <1>1, DatabaseFields, ConstantsAssumption DEF Safe, ApprovalsInOrder, ApprovalIds
<1>12. \A j \in 1..db.requested : /\ db'.approvals[j].task = db.approvals[j].task
                                  /\ db'.approvals[j].gen = db.approvals[j].gen
  BY <1>5, <1>10, <1>11
<1>13. ApprovalsInOrder(db', now)
  <2>1. \A j \in 1..db.requested :
            db'.approvals[j].status = "APPROVED" => db'.approvals[j].decided <= now
    BY <1>1, <1>5, <1>10, <1>11 DEF Safe, ApprovalsInOrder
  <2> QED BY <1>1, <1>7, <2>1 DEF Safe, ApprovalsInOrder
<1>14. ASSUME NEW u \in Tasks PROVE Authorized(db', u)
  <2>1. SUFFICES ASSUME db.task[u].stage \in ExecutedStages PROVE Authorized(db', u)
    BY <1>7 DEF Authorized
  <2>2. PICK k \in 1..db.requested :
            /\ IsLatestApproval(db, k, u, db.task[u].gen)
            /\ db.approvals[k].status = "CONSUMED"
            /\ db.approvals[k].decided <= db.approvals[k].used
            /\ db.approvals[k].used < db.approvals[k].expires
    BY <1>1, <2>1 DEF Safe, Authorized
  <2>3. db'.approvals[k] = db.approvals[k]
    BY <1>2, <1>10, <1>11, <2>2
  <2>4. IsLatestApproval(db', k, u, db'.task[u].gen)
    BY <1>7, <1>12, <2>2 DEF IsLatestApproval
  <2> QED BY <1>7, <2>2, <2>3, <2>4 DEF Authorized
<1>15. \A u \in Tasks : CurrentEvidence(db', u) = CurrentEvidence(db, u)
  BY <1>7 DEF CurrentEvidence, EvidenceOf
<1>16. EvaluationCurrent(db')
  BY <1>1, <1>7, <1>15 DEF Safe, EvaluationCurrent
<1>17. \A u \in Tasks : Backed(db', u)
  BY <1>1, <1>7, <1>15 DEF Safe, Backed
<1>18. Safe(db', now)
  BY <1>13, <1>14, <1>16, <1>17 DEF Safe
<1> QED BY <1>9, <1>18, CommitInv DEF DecideApproval

\* Evidence arrives one kind at a time, so a metric's results are the evaluation.
LEMMA IngestLiveEvidenceInv ==
    ASSUME IInv, NEW t \in LiveTasks, NEW item \in LiveItems, NEW g, NEW v,
           IngestLiveEvidence(t, item, g, v)
    PROVE  IInv'
<1> DEFINE new == LiveRecord(t, item)
           evaluation == IF item.kind = "metric" THEN item.verdicts ELSE db.task[t].evaluation
           row == [db.task[t] EXCEPT !.evaluation = evaluation, !.version = @ + 1]
           E == CurrentEvidence(db, t)
<1>1. /\ db \in Databases /\ now \in Nat /\ Safe(db, now) /\ t \in Tasks
      /\ db.task[t] \in TaskRows /\ t \notin DemoTasks
  BY DatabaseFields, ConstantsAssumption DEF IInv, TypeOK, Tasks
<1>2. /\ new \in EvidenceRecords /\ new.task = t /\ new.gen = db.task[t].gen
      /\ new.kind = item.kind /\ new.verdicts = item.verdicts
  BY LiveRecordType DEF IInv, LiveRecord
<1>3. evaluation \in SUBSET Verdicts
  BY <1>1, ConstantsAssumption DEF Items, TaskRows
<1>4. /\ row \in TaskRows /\ row.stage = db.task[t].stage /\ row.gen = db.task[t].gen
      /\ row.decision = db.task[t].decision /\ row.evaluation = evaluation
  <2> HIDE DEF evaluation
  <2>1. db.task[t].version + 1 \in Nat
    BY <1>1 DEF TaskRows
  <2> QED BY <1>1, <1>3, <2>1 DEF TaskRows
<1>5. db' = [[db EXCEPT !.task[t] = row] EXCEPT !.evidence = @ \cup {new}]
  <2>1. db' = [db EXCEPT !.evidence = @ \cup {new}, !.task[t].evaluation = evaluation,
                         !.task[t].version = @ + 1]
    BY DEF IngestLiveEvidence
  <2> HIDE DEF new, evaluation
  <2> QED BY <1>1, <2>1 DEF Databases, TaskRows
<1> HIDE DEF row, new, evaluation
<1>6. /\ db'.task[t] = row /\ \A u \in Tasks \ {t} : db'.task[u] = db.task[u]
      /\ db'.evidence = db.evidence \cup {new} /\ db'.approvals = db.approvals
      /\ db'.requested = db.requested /\ db' \in Databases
  <2> DEFINE D == [db EXCEPT !.task[t] = row]
  <2>1. /\ D \in Databases
        /\ D.task[t] = row /\ \A u \in Tasks \ {t} : D.task[u] = db.task[u]
        /\ D.evidence = db.evidence /\ D.approvals = db.approvals
        /\ D.requested = db.requested
    BY <1>1, <1>4, RowWriteFields
  <2>2. db' = [D EXCEPT !.evidence = @ \cup {new}]
    BY <1>5
  <2> HIDE DEF D
  <2> QED BY <1>2, <2>1, <2>2 DEF Databases
<1>7. db.task[t].decision = "none"
  BY <1>1 DEF IngestLiveEvidence, IngestStage, Safe, Backed, DecidedStages
<1>8. db.task[t].stage # "ABSENT"
  BY DEF IngestLiveEvidence, IngestStage
<1>9. CurrentEvidence(db', t) = E \cup {new}
  BY <1>2, <1>4, <1>6 DEF CurrentEvidence, EvidenceOf
<1>10. db'.task[t].evaluation = MetricVerdicts(CurrentEvidence(db', t))
  <2>1. db.task[t].evaluation = MetricVerdicts(E)
    BY <1>1 DEF Safe, EvaluationCurrent
  <2>2. CASE item.kind = "metric"
    <3>1. {f \in E \cup {new} : f.kind = "metric"} = {new}
      BY <1>2, <2>2 DEF IngestLiveEvidence, KindsOf
    <3>2. MetricVerdicts(E \cup {new}) = item.verdicts
      BY <1>2, <3>1 DEF MetricVerdicts
    <3> QED BY <1>4, <1>6, <1>9, <2>2, <3>2 DEF evaluation
  <2>3. CASE item.kind # "metric"
    <3>1. {f \in E \cup {new} : f.kind = "metric"} = {f \in E : f.kind = "metric"}
      BY <1>2, <2>3
    <3>2. MetricVerdicts(E \cup {new}) = MetricVerdicts(E)
      BY <3>1 DEF MetricVerdicts
    <3> QED BY <1>4, <1>6, <1>9, <2>1, <2>3, <3>2 DEF evaluation
  <2> QED BY <2>2, <2>3
<1>11. /\ db'.task[t].gen = db.task[t].gen /\ db'.task[t].gen >= db.task[t].gen
       /\ db'.task[t].stage = db.task[t].stage /\ db'.task[t].decision = "none"
  BY <1>1, <1>4, <1>6, <1>7 DEF TaskRows
<1>12. /\ db.evidence \subseteq db'.evidence
       /\ \A e \in db'.evidence \ db.evidence : e.task = t /\ e.gen = db'.task[t].gen
  BY <1>2, <1>6, <1>11
<1>13. Safe(db', now)
  BY <1>1, <1>6, <1>8, <1>10, <1>11, <1>12, RowWriteSafe
<1> QED BY <1>6, <1>13, CommitInv DEF IngestLiveEvidence

-----------------------------------------------------------------------------
(* The transactions of several steps.                                      *)

\* autorun opens its transaction on a safe copy.
LEMMA AutorunBeginInv ==
    ASSUME IInv, NEW t \in DemoTasks, NEW token \in Tokens, AutorunBegin(t, token)
    PROVE  IInv'
<1>1. /\ txn' = [op |-> "autorun", task |-> t, token |-> token, steps |-> 0, db |-> db]
      /\ db' = db /\ now' = now /\ RoomForApproval(t)
  BY DEF AutorunBegin
<1>2. txn' \in Txns
  BY <1>1 DEF IInv, TypeOK, Txns, Tasks
<1>3. txn'.db = db /\ txn'.task = t
  BY <1>1
<1>4. TxnStage' = db.task[t].stage
  BY <1>3 DEF TxnStage
<1>5. TxnStage' \in BeforeApproval => txn'.db.requested < MaxApprovals
  BY <1>1, <1>3, <1>4 DEF RoomForApproval, BeforeApproval
<1>6. Safe(txn'.db, now)
  BY <1>3 DEF IInv
<1> QED BY <1>1, <1>2, <1>5, <1>6, WorkInv

\* finalize_live_task records its evidence in a copy that is still safe.
LEMMA FinalizeBeginInv ==
    ASSUME IInv, NEW t \in LiveTasks, NEW items \in Bundles, NEW g, NEW v, NEW actor,
           FinalizeBegin(t, items, g, v, actor)
    PROVE  IInv'
<1> DEFINE new == NewRecords(t, items)
           E == CurrentEvidence(db, t) \cup new
           row == [db.task[t] EXCEPT !.evaluation = MetricVerdicts(E),
                                     !.manifest = DigestsOf(NonReviews(E))]
           D == [[db EXCEPT !.task[t] = row] EXCEPT !.evidence = @ \cup new]
<1>1. /\ db \in Databases /\ now \in Nat /\ Safe(db, now) /\ t \in Tasks
      /\ db.task[t] \in TaskRows /\ t \notin DemoTasks
  BY DatabaseFields, ConstantsAssumption DEF IInv, TypeOK, Tasks
<1>2. \A e \in new : e \in EvidenceRecords /\ e.task = t /\ e.gen = db.task[t].gen
  <2>1. \A i \in items : i \in LiveItems
    BY ConstantsAssumption
  <2>2. \A i \in items : LiveRecord(t, i) \in EvidenceRecords
    BY <2>1, LiveRecordType DEF IInv
  <2>3. \A i \in items : LiveRecord(t, i).task = t /\ LiveRecord(t, i).gen = db.task[t].gen
    BY DEF LiveRecord
  <2> QED BY <2>2, <2>3 DEF NewRecords
<1>3. E \in SUBSET EvidenceRecords
  BY <1>1, <1>2, DatabaseFields DEF CurrentEvidence, EvidenceOf
<1>4. MetricVerdicts(E) \in SUBSET Verdicts /\ DigestsOf(NonReviews(E)) \in SUBSET Digests
  <2> HIDE DEF E
  <2> QED BY <1>3 DEF MetricVerdicts, DigestsOf, NonReviews, EvidenceRecords
<1>5. /\ row \in TaskRows /\ row.stage = db.task[t].stage /\ row.gen = db.task[t].gen
      /\ row.decision = db.task[t].decision /\ row.evaluation = MetricVerdicts(E)
  <2> HIDE DEF E
  <2> QED BY <1>1, <1>4 DEF TaskRows
<1>6. /\ txn' = [op |-> "finalize", task |-> t, token |-> NoToken, steps |-> 0,
                 db |-> [db EXCEPT !.evidence = @ \cup new,
                                   !.task[t].evaluation = MetricVerdicts(E),
                                   !.task[t].manifest = DigestsOf(NonReviews(E))]]
      /\ db' = db /\ now' = now /\ db.task[t].stage = "EXECUTE"
  BY DEF FinalizeBegin
<1> HIDE DEF E, new
<1>7. D = [db EXCEPT !.evidence = @ \cup new,
                     !.task[t].evaluation = MetricVerdicts(E),
                     !.task[t].manifest = DigestsOf(NonReviews(E))]
  BY <1>1 DEF Databases, TaskRows
<1>8. txn' = [op |-> "finalize", task |-> t, token |-> NoToken, steps |-> 0, db |-> D]
  <2> HIDE DEF D
  <2> QED BY <1>6, <1>7
<1> HIDE DEF row
<1>9. /\ D.task[t] = row /\ \A u \in Tasks \ {t} : D.task[u] = db.task[u]
      /\ D.evidence = db.evidence \cup new /\ D.approvals = db.approvals
      /\ D.requested = db.requested /\ D \in Databases
  <2> DEFINE B == [db EXCEPT !.task[t] = row]
  <2>1. /\ B \in Databases
        /\ B.task[t] = row /\ \A u \in Tasks \ {t} : B.task[u] = db.task[u]
        /\ B.evidence = db.evidence /\ B.approvals = db.approvals
        /\ B.requested = db.requested
    BY <1>1, <1>5, RowWriteFields
  <2>2. D = [B EXCEPT !.evidence = @ \cup new]
    OBVIOUS
  <2>3. new \subseteq EvidenceRecords
    BY <1>2
  <2> HIDE DEF D, B
  <2> QED BY <2>1, <2>2, <2>3 DEF Databases
<1> HIDE DEF D
<1>10. CurrentEvidence(D, t) = E
  BY <1>2, <1>5, <1>9 DEF CurrentEvidence, EvidenceOf, E
<1>11. db.task[t].decision = "none"
  BY <1>1, <1>6 DEF Safe, Backed, DecidedStages
<1>12. /\ D.task[t].gen = db.task[t].gen /\ D.task[t].gen >= db.task[t].gen
       /\ D.task[t].stage = "EXECUTE" /\ D.task[t].decision = "none"
       /\ D.task[t].evaluation = MetricVerdicts(CurrentEvidence(D, t))
  BY <1>1, <1>5, <1>6, <1>9, <1>10, <1>11 DEF TaskRows
<1>13. /\ db.evidence \subseteq D.evidence
       /\ \A e \in D.evidence \ db.evidence : e.task = t /\ e.gen = D.task[t].gen
  BY <1>2, <1>9, <1>12
<1>14. Safe(D, now)
  BY <1>1, <1>6, <1>9, <1>12, <1>13, RowWriteSafe
<1>15. txn' \in Txns /\ txn'.db = D /\ txn'.task = t
  BY <1>1, <1>8, <1>9 DEF Txns, Tokens
<1>16. TxnStage' \notin BeforeApproval
  BY <1>12, <1>15 DEF TxnStage, BeforeApproval
<1> QED BY <1>6, <1>14, <1>15, <1>16, WorkInv

\* The forward path never goes back to a stage before the approval.
LEMMA ForwardPath ==
    ASSUME NEW s \in Stages \ {"COMPLETED"}
    PROVE  NextForwardStage[s] \in BeforeApproval => s \in BeforeApproval
BY DEF Stages, NextForwardStage, BeforeApproval

\* A step of an open transaction, whichever request runs it.
LEMMA TxnTransition ==
    ASSUME IInv, txn.op \in {"autorun", "finalize"}, NEW token, TxnStage # "COMPLETED",
           CanTransition(txn.db, txn.task, NextForwardStage[TxnStage], token)
    PROVE  LET target == NextForwardStage[TxnStage]
               D == Transition(txn.db, txn.task, target, token)
           IN /\ D \in Databases /\ Safe(D, now) /\ D.task[txn.task].stage = target
              /\ target \in BeforeApproval => D.requested < MaxApprovals
<1> DEFINE target == NextForwardStage[TxnStage]
           D == Transition(txn.db, txn.task, target, token)
<1>1. /\ txn.task \in Tasks /\ txn.db \in Databases /\ now \in Nat /\ Safe(txn.db, now)
      /\ TxnStage \in BeforeApproval => txn.db.requested < MaxApprovals
  BY OpenTxn DEF IInv
<1>2. TxnStage \in Stages /\ target \in ALLOWED_TRANSITIONS[TxnStage]
  BY DEF CanTransition, TransitionAllowed, TxnStage
<1>3. target = "APPROVAL" => txn.db.requested < MaxApprovals
  BY <1>1, <1>2, StageGraph DEF BeforeApproval
<1>4. D \in Databases /\ Safe(D, now)
  BY <1>1, <1>3, TransitionSafe
<1>5. D.task[txn.task].stage = target /\ (target # "APPROVAL" => D.requested = txn.db.requested)
  BY <1>1, TransitionFields
<1>6. target \in BeforeApproval => D.requested < MaxApprovals
  BY <1>1, <1>2, <1>5, ForwardPath DEF BeforeApproval
<1> QED BY <1>4, <1>5, <1>6

\* An open transaction that made one more step is an open transaction.
LEMMA TxnUpdateType ==
    ASSUME NEW x \in [op: {"autorun", "finalize"}, task: Tasks, token: Tokens,
                      steps: Nat, db: Databases],
           NEW D \in Databases, NEW token \in Tokens
    PROVE  LET y == [x EXCEPT !.db = D, !.token = token, !.steps = @ + 1]
               z == [x EXCEPT !.db = D, !.steps = @ + 1]
           IN y \in Txns /\ z \in Txns /\ y.db = D /\ z.db = D /\ y.task = x.task /\ z.task = x.task
<1>1. x.steps + 1 \in Nat
  OBVIOUS
<1> QED BY <1>1 DEF Txns

\* One iteration of the autorun loop keeps the invariant.
LEMMA AutorunStepInv == ASSUME IInv, AutorunStep PROVE IInv'
<1> DEFINE target == NextForwardStage[TxnStage]
           D == Transition(txn.db, txn.task, target, txn.token)
           token == IF target = "EXECUTE" THEN NoToken ELSE txn.token
<1>1. /\ txn.op = "autorun" /\ TxnStage # "COMPLETED"
      /\ CanTransition(txn.db, txn.task, target, txn.token)
      /\ txn' = [txn EXCEPT !.db = D, !.token = token, !.steps = @ + 1]
      /\ db' = db /\ now' = now
  BY DEF AutorunStep, AutorunRuns, AutorunPaused
<1>2. /\ txn \in [op: {"autorun", "finalize"}, task: Tasks, token: Tokens,
                  steps: Nat, db: Databases]
      /\ txn.token \in Tokens /\ txn.steps \in Nat
  BY <1>1, OpenTxn DEF IInv
<1>3. /\ D \in Databases /\ Safe(D, now) /\ D.task[txn.task].stage = target
      /\ target \in BeforeApproval => D.requested < MaxApprovals
  BY <1>1, TxnTransition
<1>4. token \in Tokens
  BY <1>2 DEF Tokens
<1> HIDE DEF D, token, target
<1>5. txn' \in Txns /\ txn'.db = D /\ txn'.task = txn.task
  BY <1>1, <1>2, <1>3, <1>4, TxnUpdateType
<1>6. TxnStage' = target
  BY <1>3, <1>5 DEF TxnStage
<1> QED BY <1>1, <1>3, <1>5, <1>6, WorkInv

\* One transition of finalize_live_task keeps the invariant.
LEMMA FinalizeStepInv == ASSUME IInv, FinalizeStep PROVE IInv'
<1> DEFINE target == NextForwardStage[TxnStage]
           D == Transition(txn.db, txn.task, target, NoToken)
<1>1. /\ txn.op = "finalize" /\ TxnStage # "COMPLETED"
      /\ CanTransition(txn.db, txn.task, target, NoToken)
      /\ txn' = [txn EXCEPT !.db = D, !.steps = @ + 1] /\ db' = db /\ now' = now
  BY DEF FinalizeStep, FinalizeRuns
<1>2. /\ txn \in [op: {"autorun", "finalize"}, task: Tasks, token: Tokens,
                  steps: Nat, db: Databases]
      /\ txn.steps \in Nat
  BY <1>1, OpenTxn DEF IInv
<1>3. /\ D \in Databases /\ Safe(D, now) /\ D.task[txn.task].stage = target
      /\ target \in BeforeApproval => D.requested < MaxApprovals
  BY <1>1, TxnTransition
<1> HIDE DEF D, target
<1>4. txn' \in Txns /\ txn'.db = D /\ txn'.task = txn.task
  BY <1>1, <1>2, <1>3, TxnUpdateType DEF Tokens
<1>5. TxnStage' = target
  BY <1>3, <1>4 DEF TxnStage
<1> QED BY <1>1, <1>3, <1>4, <1>5, WorkInv

\* A transaction that commits writes its copy, one that fails or dies writes nothing,
\* and a failed gate writes the copy with the gate's result.
LEMMA TxnEndInv ==
    ASSUME IInv, \/ AutorunCommit \/ AutorunGateFailed \/ AutorunAbort
                 \/ FinalizeCommit \/ Crash
    PROVE  IInv'
<1>1. db \in Databases /\ now \in Nat /\ Safe(db, now)
  BY DEF IInv, TypeOK
<1>2. CASE AutorunCommit \/ FinalizeCommit
  <2>1. txn.db \in Databases /\ Safe(txn.db, now)
    BY <1>2, OpenTxn DEF IInv, AutorunCommit, FinalizeCommit
  <2>2. db' = txn.db /\ txn' = NoTxn /\ now' = now
    BY <1>2 DEF AutorunCommit, FinalizeCommit
  <2> QED BY <2>1, <2>2, EndInv
<1>3. CASE AutorunGateFailed
  <2>1. txn.db \in Databases /\ txn.task \in Tasks /\ Safe(txn.db, now)
    BY <1>3, OpenTxn DEF IInv, AutorunGateFailed, AutorunRuns
  <2>2. txn.db.task[txn.task].stage = "VERIFY"
    BY <1>3 DEF AutorunGateFailed, GateBlocks
  <2>3. db' \in Databases /\ Safe(db', now)
    BY <1>1, <1>3, <2>1, <2>2, GateFailureSafe DEF AutorunGateFailed
  <2> QED BY <1>3, <2>3, EndInv DEF AutorunGateFailed
<1>4. CASE AutorunAbort \/ Crash
  BY <1>1, <1>4, EndInv DEF AutorunAbort, Crash
<1> QED BY <1>2, <1>3, <1>4

\* The passing of time keeps the invariant.
LEMMA TickInv == ASSUME IInv, Tick PROVE IInv'
<1>1. now \in Nat /\ now' = now + 1 /\ db' = db /\ txn' = txn
  BY DEF IInv, TypeOK, Tick
<1>2. now' \in Nat /\ now <= now'
  BY <1>1
<1>3. TypeOK' /\ db \in Databases
  BY <1>1, <1>2 DEF IInv, TypeOK
<1>4. Safe(db', now')
  BY <1>1, <1>2, <1>3, SafeLater DEF IInv
<1>5. ~Idle => txn.db \in Databases
  BY DEF IInv, TypeOK, Txns, Idle
<1>6. ~Idle => Safe(txn.db, now')
  BY <1>1, <1>2, <1>5, SafeLater DEF IInv
<1>7. Idle' = Idle /\ TxnStage' = TxnStage
  BY <1>1 DEF Idle, TxnStage
<1> QED BY <1>1, <1>3, <1>4, <1>6, <1>7 DEF IInv

\* A step that changes nothing keeps the invariant.
LEMMA StutterInv == ASSUME IInv, UNCHANGED vars PROVE IInv'
<1>1. db' = db /\ txn' = txn /\ now' = now
  BY DEF vars
<1>2. TypeOK' /\ Idle' = Idle /\ TxnStage' = TxnStage
  BY <1>1 DEF IInv, TypeOK, Idle, TxnStage
<1> QED BY <1>1, <1>2 DEF IInv

-----------------------------------------------------------------------------
(* The theorems.                                                           *)

\* Every step keeps the inductive invariant.
LEMMA NextInv == IInv /\ [Next]_vars => IInv'
<1> SUFFICES ASSUME IInv, [Next]_vars PROVE IInv'
  OBVIOUS
<1>1. CASE Request
  <2>1. CASE \E t \in DemoTasks, s \in {"happy_path", "insufficient_evidence"} : ResetDemo(t, s)
    BY <2>1, ResetDemoInv
  <2>2. CASE \E t \in LiveTasks : CreateLiveTask(t)
    BY <2>2, CreateLiveTaskInv
  <2>3. CASE \E t \in Tasks, target \in Stages, token \in Tokens : Advance(t, target, token)
    BY <2>3, AdvanceInv
  <2>4. CASE \E t \in Tasks : AdvanceGateFailed(t)
    BY <2>4, AdvanceGateFailedInv
  <2>5. CASE \E i \in ApprovalIds, decision \in {"approved", "denied"},
                t \in Tasks, g \in 1..MaxGeneration :
                 DecideApproval(i, decision, ActionDigest(t, g))
    BY <2>5, DecideApprovalInv
  <2>6. CASE \E t \in LiveTasks, item \in LiveItems, g \in 1..MaxGeneration :
                 \E v \in SeenVersions(t) : IngestLiveEvidence(t, item, g, v)
    BY <2>6, IngestLiveEvidenceInv
  <2>7. CASE \E t \in DemoTasks, token \in Tokens : AutorunBegin(t, token)
    BY <2>7, AutorunBeginInv
  <2>8. CASE \E t \in LiveTasks, items \in Bundles, g \in 1..MaxGeneration,
                actor \in {"owner", "other"} :
                 \E v \in SeenVersions(t) : FinalizeBegin(t, items, g, v, actor)
    BY <2>8, FinalizeBeginInv
  <2> QED BY <1>1, <2>1, <2>2, <2>3, <2>4, <2>5, <2>6, <2>7, <2>8 DEF Request
<1>2. CASE TxnStep
  BY <1>2, AutorunStepInv, FinalizeStepInv, TxnEndInv DEF TxnStep
<1>3. CASE Crash
  BY <1>3, TxnEndInv
<1>4. CASE Tick
  BY <1>4, TickInv
<1>5. CASE UNCHANGED vars
  BY <1>5, StutterInv
<1> QED BY <1>1, <1>2, <1>3, <1>4, <1>5 DEF Next

\* The inductive invariant holds in every reachable state.
THEOREM Inductive == Spec => []IInv
<1>1. Init => IInv
  BY InitInv
<1>2. IInv /\ [Next]_vars => IInv'
  BY NextInv
<1> QED BY <1>1, <1>2, PTL DEF Spec

\* The committed rows, the transaction's copy and the clock keep their types under
\* every interleaving of requests, transaction steps, crashes and ticks.
THEOREM TypeCorrect == Spec => []TypeOK
<1>1. IInv => TypeOK
  BY DEF IInv
<1> QED BY <1>1, Inductive, PTL

\* No task of any deployment is beyond APPROVAL without having spent, in time, the
\* latest approval of its generation (_transition, validate_approval_token).
THEOREM ExecutionIsAuthorized == Spec => []ExecutionAuthorized
<1>1. IInv => ExecutionAuthorized
  BY DEF IInv, Safe, ExecutionAuthorized
<1> QED BY <1>1, Inductive, PTL

\* Every decision, of demo and live tasks alike, rests on evidence that passes the
\* gate now and on the metric results recorded in it (_refresh_gate, _enter_decide).
THEOREM DecisionsAreBacked == Spec => []DecisionBacked
<1>1. IInv => DecisionBacked
  BY DEF IInv, Safe, DecisionBacked
<1> QED BY <1>1, Inductive, PTL
-----------------------------------------------------------------------------
(* Review: on top of IInv.                                                 *)

ReviewedStages == DecidedStages \cup {"VERIFY"}

MemoryStages == {"MEMORY_SKILL", "COMPLETED"}

\* From VERIFY on the review of a live task binds its evidence; from DECIDE on the
\* evidence of any task passes the gate, and the row names its reviewer.
ReviewKept(d, t) ==
    LET E == CurrentEvidence(d, t)
        stage == d.task[t].stage
    IN /\ (t \in LiveTasks /\ stage \in ReviewedStages) => ReviewBindsEvidence(E)
       /\ stage \in DecidedStages => /\ EvidenceGate(E) = "PASS"
                                     /\ d.task[t].reviewer = IndependentReviewer(E)

\* Memory m cites evidence E and its reviewer.
Cites(m, E) ==
    /\ EvidenceGate(E) = "PASS"
    /\ m.closure = DigestsOf(E)
    /\ m.review = IndependentReviewer(E)

\* The evidence that a memory cites is complete: its task has left the generation, or
\* the stages that record evidence.
MemoryKept(d, m) ==
    /\ m \in d.candidates
    /\ Cites(m, EvidenceOf(d, m.task, m.gen))
    /\ m.gen <= d.task[m.task].gen
    /\ m.gen = d.task[m.task].gen => d.task[m.task].stage \in MemoryStages

Reviewed(d) ==
    /\ \A t \in Tasks : ReviewKept(d, t)
    /\ \A m \in d.memories : MemoryKept(d, m)

\* finalize_live_task works on evidence that its checks accepted.
FinalizeReady ==
    txn.op = "finalize" =>
        /\ txn.task \in LiveTasks /\ TxnStage \in ExecutedStages
        /\ ReviewBindsEvidence(CurrentEvidence(txn.db, txn.task))
        /\ EvidenceGate(CurrentEvidence(txn.db, txn.task)) = "PASS"

\* The place of a stage on FORWARD_PATH.
Place ==
    [INTAKE |-> 0, CONTEXT |-> 1, PLAN |-> 2, PLAN_REVIEW |-> 3, APPROVAL |-> 4,
     EXECUTE |-> 5, OBSERVE |-> 6, EVALUATE |-> 7, VERIFY |-> 8, DECIDE |-> 9,
     ARCHIVE |-> 10, MEMORY_SKILL |-> 11, COMPLETED |-> 12]

\* autorun moves one stage forward with each iteration.
AutorunCounted ==
    (txn.op = "autorun" /\ txn.steps # 0) =>
        TxnStage \in Stages /\ txn.steps <= Place[TxnStage]

\* What holds on top of IInv.
RInv ==
    /\ Reviewed(db)
    /\ ~Idle => Reviewed(txn.db)
    /\ FinalizeReady
    /\ AutorunCounted

-----------------------------------------------------------------------------
(* One write.                                                              *)

\* A write to the row of one task, to the evidence of its generation and to the
\* memories, which leaves the task's own review and the new memories in order.
LEMMA WriteReviewed ==
    ASSUME NEW d \in Databases, NEW D \in Databases, NEW t \in Tasks, Reviewed(d),
           \A u \in Tasks \ {t} : D.task[u] = d.task[u],
           d.evidence \subseteq D.evidence,
           \A e \in D.evidence \ d.evidence : e.task = t /\ e.gen = D.task[t].gen,
           d.candidates \subseteq D.candidates,
           \A m \in D.memories \ d.memories : MemoryKept(D, m),
           ReviewKept(D, t),
           D.task[t].gen >= d.task[t].gen,
           \/ D.task[t].gen > d.task[t].gen
           \/ d.task[t].stage \notin MemoryStages
           \/ D.task[t].stage \in MemoryStages /\ D.evidence = d.evidence
    PROVE  Reviewed(D)
<1>1. /\ d.task[t].gen \in Nat /\ D.task[t].gen \in Nat
      /\ \A m \in d.memories : m.task \in Tasks /\ m.gen \in Nat
  BY DatabaseFields DEF TaskRows, MemoryRecords
<1>2. ASSUME NEW u \in Tasks PROVE ReviewKept(D, u)
  <2>1. CASE u = t
    BY <2>1
  <2>2. CASE u # t
    <3>1. CurrentEvidence(D, u) = CurrentEvidence(d, u)
      BY <2>2 DEF CurrentEvidence, EvidenceOf
    <3>2. D.task[u] = d.task[u] /\ ReviewKept(d, u)
      BY <2>2 DEF Reviewed
    <3> QED BY <3>1, <3>2 DEF ReviewKept
  <2> QED BY <2>1, <2>2
<1>3. ASSUME NEW m \in d.memories PROVE MemoryKept(D, m)
  <2>1. MemoryKept(d, m) /\ m.task \in Tasks /\ m.gen \in Nat
    BY <1>1 DEF Reviewed
  <2>2. CASE m.task # t
    <3>1. EvidenceOf(D, m.task, m.gen) = EvidenceOf(d, m.task, m.gen)
      BY <2>2 DEF EvidenceOf
    <3>2. D.task[m.task] = d.task[m.task]
      BY <2>1, <2>2
    <3> QED BY <2>1, <3>1, <3>2 DEF MemoryKept
  <2>3. CASE m.task = t
    <3>1. m.gen <= d.task[t].gen /\ (m.gen = d.task[t].gen => d.task[t].stage \in MemoryStages)
      BY <2>1, <2>3 DEF MemoryKept
    <3>2. m.gen <= D.task[t].gen
      BY <1>1, <2>1, <3>1
    <3>3. m.gen = D.task[t].gen => /\ m.gen = d.task[t].gen
                                   /\ D.task[t].stage \in MemoryStages
                                   /\ D.evidence = d.evidence
      BY <1>1, <2>1, <3>1
    <3>4. EvidenceOf(D, m.task, m.gen) = EvidenceOf(d, m.task, m.gen)
      BY <2>3, <3>3 DEF EvidenceOf
    <3> QED BY <2>1, <2>3, <3>2, <3>3, <3>4 DEF MemoryKept
  <2> QED BY <2>2, <2>3
<1> QED BY <1>2, <1>3 DEF Reviewed

\* The memories that _enter_memory writes, and the candidates.
LEMMA EnterMemoryFacts ==
    ASSUME NEW d \in Databases, NEW t \in Tasks, NEW target,
           NEW m \in EnterMemory(d, t, target)
    PROVE  /\ t \in DemoTasks /\ target = "MEMORY_SKILL"
           /\ m.task = t /\ m.gen = d.task[t].gen
           /\ m.closure = DigestsOf(CurrentEvidence(d, t)) /\ m.review = d.task[t].reviewer
BY DEF EnterMemory

\* A stage that follows MEMORY_SKILL or precedes it on every way.
LEMMA MemoryGraph ==
    ASSUME NEW s \in Stages, NEW target \in ALLOWED_TRANSITIONS[s]
    PROVE  /\ target = "MEMORY_SKILL" => s \in DecidedStages
           /\ s \in MemoryStages => target = "COMPLETED"
           /\ target = "VERIFY" => s = "EVALUATE"
BY DEF Stages, ALLOWED_TRANSITIONS, DecidedStages, MemoryStages

\* A transition of _transition keeps what was reviewed.
LEMMA TransitionReviewed ==
    ASSUME NEW d \in Databases, NEW t \in Tasks, NEW target, NEW token, now \in Nat,
           CanTransition(d, t, target, token), Reviewed(d)
    PROVE  Reviewed(Transition(d, t, target, token))
<1> DEFINE D == Transition(d, t, target, token)
           E == CurrentEvidence(d, t)
           s == d.task[t].stage
<1>1. s \in Stages /\ target \in ALLOWED_TRANSITIONS[s] /\ target \in Stages
  BY StageGraph DEF CanTransition, TransitionAllowed
<1>2. /\ target = "DECIDE" => s = "VERIFY"
      /\ (target \in DecidedStages /\ target # "DECIDE") => s \in DecidedStages
      /\ s \in DecidedStages => target \in DecidedStages
      /\ target = "MEMORY_SKILL" => s \in DecidedStages
      /\ s \in MemoryStages => target = "COMPLETED"
      /\ target = "VERIFY" => s = "EVALUATE"
  BY <1>1, StageGraph, MemoryGraph
<1>3. D \in Databases
  BY <1>1, TransitionType
<1>4. /\ D.evidence = d.evidence \cup EnterEvidence(d, t, target)
      /\ D.task[t] = TransitionRow(d, t, target)
      /\ D.task[t].stage = target /\ D.task[t].gen = d.task[t].gen
      /\ \A u \in Tasks \ {t} : D.task[u] = d.task[u]
  BY TransitionFields
<1>5. /\ D.candidates = d.candidates \cup EnterMemory(d, t, target)
      /\ D.memories = d.memories \cup EnterMemory(d, t, target)
  BY DEF Transition
<1>6. /\ target \in DecidedStages \/ t \in LiveTasks => EnterEvidence(d, t, target) = {}
      /\ \A e \in EnterEvidence(d, t, target) : e.task = t /\ e.gen = d.task[t].gen
  BY EnterEvidenceFacts, ConstantsAssumption
<1>7. CurrentEvidence(D, t) = E \cup EnterEvidence(d, t, target)
  BY TransitionEvidence
<1>8. target = "DECIDE" => EvidenceGate(E) = "PASS"
  BY <1>2 DEF CanTransition, GateBlocks, EvidenceGate
<1>9. /\ D.task[t].reviewer = IF target = "DECIDE" THEN IndependentReviewer(E)
                                                  ELSE d.task[t].reviewer
  BY <1>4 DEF TransitionRow
<1>10. ReviewKept(d, t)
  BY DEF Reviewed
<1>11. (t \in LiveTasks /\ target = "VERIFY") => ReviewBindsEvidence(E)
  BY <1>2 DEF CanTransition, TransitionAllowed, LiveEvidenceAllows
<1> HIDE DEF E, s, D
<1>12. target \in DecidedStages =>
          /\ EvidenceGate(E) = "PASS" /\ D.task[t].reviewer = IndependentReviewer(E)
  BY <1>2, <1>8, <1>9, <1>10 DEF ReviewKept, E, s
<1>13. (t \in LiveTasks /\ target \in ReviewedStages) => ReviewBindsEvidence(E)
  BY <1>2, <1>10, <1>11 DEF ReviewKept, ReviewedStages, E, s
<1>14. ReviewKept(D, t)
  BY <1>4, <1>6, <1>7, <1>12, <1>13 DEF ReviewKept
<1>15. ASSUME NEW m \in D.memories \ d.memories PROVE MemoryKept(D, m)
  <2>1. m \in EnterMemory(d, t, target)
    BY <1>5
  <2>2. /\ target = "MEMORY_SKILL" /\ m.task = t /\ m.gen = d.task[t].gen
        /\ m.closure = DigestsOf(E) /\ m.review = d.task[t].reviewer
    BY <2>1, EnterMemoryFacts DEF E
  <2>3. target \in DecidedStages /\ target \in MemoryStages /\ target # "DECIDE"
    BY <2>2 DEF DecidedStages, MemoryStages
  <2>4. EvidenceOf(D, m.task, m.gen) = E
    BY <1>4, <1>6, <1>7, <2>2, <2>3 DEF CurrentEvidence
  <2>5. Cites(m, E)
    BY <1>9, <1>12, <2>2, <2>3 DEF Cites
  <2>6. m.gen \in Nat /\ m.gen = D.task[m.task].gen /\ D.task[m.task].stage \in MemoryStages
    BY <1>4, <2>2, <2>3, DatabaseFields DEF TaskRows
  <2> QED BY <1>5, <2>1, <2>4, <2>5, <2>6 DEF MemoryKept
<1>16. D.task[t].gen \in Nat /\ D.task[t].gen >= d.task[t].gen
  BY <1>4, DatabaseFields DEF TaskRows
<1>17. s \in MemoryStages => D.task[t].stage \in MemoryStages /\ D.evidence = d.evidence
  BY <1>2, <1>4, <1>6 DEF MemoryStages, DecidedStages
<1> QED BY <1>3, <1>4, <1>5, <1>6, <1>14, <1>15, <1>16, <1>17, WriteReviewed DEF D, s

\* D is d after a write to one row that leaves its stage before VERIFY, or at VERIFY: a
\* new row, a failed gate, live evidence.
EarlyWrite(d, D, t) ==
    /\ \A u \in Tasks \ {t} : D.task[u] = d.task[u]
    /\ d.evidence \subseteq D.evidence
    /\ \A e \in D.evidence \ d.evidence : e.task = t /\ e.gen = D.task[t].gen
    /\ D.candidates = d.candidates /\ D.memories = d.memories
    /\ D.task[t].stage \notin DecidedStages
    /\ D.task[t].stage = "VERIFY" => /\ d.task[t].stage = "VERIFY"
                                     /\ D.task[t].gen = d.task[t].gen
                                     /\ D.evidence = d.evidence
    /\ \/ D.task[t].gen > d.task[t].gen
       \/ D.task[t].gen = d.task[t].gen /\ d.task[t].stage \notin DecidedStages

\* Such a write keeps what was reviewed.
LEMMA EarlyWriteReviewed ==
    ASSUME NEW d \in Databases, NEW D \in Databases, NEW t \in Tasks, Reviewed(d),
           EarlyWrite(d, D, t)
    PROVE  Reviewed(D)
<1>0. /\ \A u \in Tasks \ {t} : D.task[u] = d.task[u]
      /\ d.evidence \subseteq D.evidence
      /\ \A e \in D.evidence \ d.evidence : e.task = t /\ e.gen = D.task[t].gen
      /\ D.candidates = d.candidates /\ D.memories = d.memories
  BY DEF EarlyWrite
<1>1. d.task[t].stage \notin DecidedStages => d.task[t].stage \notin MemoryStages
  BY DEF DecidedStages, MemoryStages
<1>2. ReviewKept(d, t)
  BY DEF Reviewed
<1>3. D.task[t].stage = "VERIFY" => CurrentEvidence(D, t) = CurrentEvidence(d, t)
  BY DEF EarlyWrite, CurrentEvidence, EvidenceOf
<1>4. ReviewKept(D, t)
  BY <1>2, <1>3 DEF EarlyWrite, ReviewKept, ReviewedStages
<1>5. d.task[t].gen \in Nat /\ D.task[t].gen \in Nat
  BY DatabaseFields DEF TaskRows
<1>6. /\ D.task[t].gen >= d.task[t].gen
      /\ D.task[t].gen > d.task[t].gen \/ d.task[t].stage \notin MemoryStages
  BY <1>1, <1>5 DEF EarlyWrite
<1> QED BY <1>0, <1>4, <1>6, WriteReviewed

\* The review looks at rows, evidence and memories only.
LEMMA SameReviewed ==
    ASSUME NEW d, NEW D, Reviewed(d),
           D.task = d.task, D.evidence = d.evidence,
           D.candidates = d.candidates, D.memories = d.memories
    PROVE  Reviewed(D)
BY DEF Reviewed, ReviewKept, MemoryKept, CurrentEvidence, EvidenceOf

\* A failed gate is recorded on a row that stays at VERIFY.
LEMMA GateFailureReviewed ==
    ASSUME NEW d \in Databases, NEW t \in Tasks, now \in Nat, Safe(d, now), Reviewed(d),
           d.task[t].stage = "VERIFY"
    PROVE  Reviewed(RecordGateFailure(d, t))
<1> DEFINE D == RecordGateFailure(d, t)
           row == [d.task[t] EXCEPT !.gate = "FAIL",
                       !.reviewer = IndependentReviewer(CurrentEvidence(d, t)),
                       !.version = @ + 1]
<1>1. D \in Databases
  BY GateFailureSafe
<1>2. d.task[t] \in TaskRows /\ d.task[t].gen \in Nat
  BY DatabaseFields DEF TaskRows
<1>3. row.stage = "VERIFY" /\ row.gen = d.task[t].gen
  BY <1>2 DEF TaskRows
<1> HIDE DEF row
<1>4. D.task = [d.task EXCEPT ![t] = row] /\ D.evidence = d.evidence
      /\ D.candidates = d.candidates /\ D.memories = d.memories
  BY DEF RecordGateFailure, Databases, row
<1>5. D.task[t] = row /\ \A u \in Tasks \ {t} : D.task[u] = d.task[u]
  BY <1>4, DatabaseFields
<1>6. "VERIFY" \notin DecidedStages
  BY DEF DecidedStages
<1> HIDE DEF D
<1>7. EarlyWrite(d, D, t)
  BY <1>3, <1>4, <1>5, <1>6 DEF EarlyWrite
<1>8. Reviewed(D)
  BY <1>1, <1>7, EarlyWriteReviewed
<1> QED BY <1>8 DEF D

-----------------------------------------------------------------------------
(* The steps.                                                              *)

\* A request of one step.
LEMMA CommitReviewed ==
    ASSUME RInv, Idle, txn' = txn, Reviewed(db') PROVE RInv'
BY DEF RInv, Idle, NoTxn, FinalizeReady, AutorunCounted

\* A transaction that ends.
LEMMA EndReviewed ==
    ASSUME txn' = NoTxn, Reviewed(db') PROVE RInv'
BY DEF RInv, Idle, NoTxn, FinalizeReady, AutorunCounted

\* A new row, of reset_demo or create_live_task.
LEMMA NewRowReviewed ==
    ASSUME IInv, RInv, NEW t \in Tasks, NEW g \in Nat, db.task[t].gen < g, Idle, txn' = txn,
           NEW s \in {"happy_path", "insufficient_evidence", "external_live"},
           db' = [db EXCEPT !.task[t] = NewRow(g, s)]
    PROVE  RInv'
<1>1. db \in Databases /\ db' \in Databases /\ Reviewed(db)
  BY NewRowSafe DEF IInv, TypeOK, RInv
<1>2. NewRow(g, s).stage = "INTAKE" /\ NewRow(g, s).gen = g
  BY DEF NewRow
<1>3. /\ db'.task = [db.task EXCEPT ![t] = NewRow(g, s)] /\ db'.evidence = db.evidence
      /\ db'.candidates = db.candidates /\ db'.memories = db.memories
  BY <1>1 DEF Databases
<1>4. db'.task[t] = NewRow(g, s) /\ \A u \in Tasks \ {t} : db'.task[u] = db.task[u]
  BY <1>1, <1>3, DatabaseFields
<1>5. db.task[t].gen \in Nat
  BY <1>1, DatabaseFields DEF TaskRows
<1>6. db'.task[t].gen > db.task[t].gen
  BY <1>2, <1>4, <1>5
<1>7. "INTAKE" \notin DecidedStages \cup {"VERIFY"}
  BY DEF DecidedStages
<1>8. EarlyWrite(db, db', t)
  BY <1>2, <1>3, <1>4, <1>6, <1>7 DEF EarlyWrite
<1> QED BY <1>1, <1>8, EarlyWriteReviewed, CommitReviewed

\* ingest_live_evidence takes evidence only before VERIFY.
LEMMA IngestReviewed ==
    ASSUME IInv, RInv, NEW t \in LiveTasks, NEW item \in LiveItems, NEW g, NEW v,
           IngestLiveEvidence(t, item, g, v)
    PROVE  RInv'
<1> DEFINE new == LiveRecord(t, item)
           evaluation == IF item.kind = "metric" THEN item.verdicts ELSE db.task[t].evaluation
           row == [db.task[t] EXCEPT !.evaluation = evaluation, !.version = @ + 1]
<1>1. db \in Databases /\ t \in Tasks /\ Reviewed(db) /\ db.task[t] \in TaskRows
  BY DatabaseFields DEF IInv, TypeOK, RInv, Tasks
<1>2. db' \in Databases
  BY IngestLiveEvidenceInv DEF IInv, TypeOK
<1>3. new.task = t /\ new.gen = db.task[t].gen
  BY DEF LiveRecord
<1>4. db' = [db EXCEPT !.evidence = @ \cup {new}, !.task[t].evaluation = evaluation,
                       !.task[t].version = @ + 1]
  BY DEF IngestLiveEvidence
<1> HIDE DEF new, evaluation
<1>5. /\ db'.task = [db.task EXCEPT ![t] = row] /\ db'.evidence = db.evidence \cup {new}
      /\ db'.candidates = db.candidates /\ db'.memories = db.memories
  BY <1>1, <1>4 DEF Databases, TaskRows
<1>6. row.stage = db.task[t].stage /\ row.gen = db.task[t].gen /\ row.gen \in Nat
  BY <1>1 DEF TaskRows
<1> HIDE DEF row
<1>7. db'.task[t] = row /\ \A u \in Tasks \ {t} : db'.task[u] = db.task[u]
  BY <1>1, <1>5, DatabaseFields
<1>8. db.task[t].stage \notin DecidedStages \cup {"VERIFY"}
  BY DEF IngestLiveEvidence, IngestStage, DecidedStages
<1>9. EarlyWrite(db, db', t)
  BY <1>3, <1>5, <1>6, <1>7, <1>8 DEF EarlyWrite
<1> QED BY <1>1, <1>2, <1>9, EarlyWriteReviewed, CommitReviewed DEF IngestLiveEvidence

\* finalize_live_task begins with the evidence that its checks looked at.
LEMMA FinalizeBeginReviewed ==
    ASSUME IInv, RInv, NEW t \in LiveTasks, NEW items \in Bundles, NEW g, NEW v, NEW actor,
           FinalizeBegin(t, items, g, v, actor)
    PROVE  RInv'
<1> DEFINE new == NewRecords(t, items)
           E == CurrentEvidence(db, t) \cup new
           D == txn'.db
           row == [db.task[t] EXCEPT !.evaluation = MetricVerdicts(E),
                                     !.manifest = DigestsOf(NonReviews(E))]
<1>1. db \in Databases /\ t \in Tasks /\ Reviewed(db) /\ db.task[t] \in TaskRows
  BY DatabaseFields DEF IInv, TypeOK, RInv, Tasks
<1>2. /\ txn' = [op |-> "finalize", task |-> t, token |-> NoToken, steps |-> 0,
                 db |-> [db EXCEPT !.evidence = @ \cup new,
                                   !.task[t].evaluation = MetricVerdicts(E),
                                   !.task[t].manifest = DigestsOf(NonReviews(E))]]
      /\ db' = db /\ db.task[t].stage = "EXECUTE"
      /\ ReviewBindsEvidence(E) /\ EvidenceGate(E) = "PASS"
  BY DEF FinalizeBegin, FinalizeEvidenceOk
<1>3. D \in Databases
  <2>1. txn' \in Txns
    BY FinalizeBeginInv DEF IInv, TypeOK
  <2> QED BY <1>2, <2>1 DEF Txns, NoTxn
<1>4. \A e \in new : e.task = t /\ e.gen = db.task[t].gen
  BY DEF NewRecords, LiveRecord
<1> HIDE DEF new, E
<1>5. /\ D.task = [db.task EXCEPT ![t] = row] /\ D.evidence = db.evidence \cup new
      /\ D.candidates = db.candidates /\ D.memories = db.memories
  BY <1>1, <1>2 DEF Databases, TaskRows
<1>6. row.stage = "EXECUTE" /\ row.gen = db.task[t].gen /\ row.gen \in Nat
  BY <1>1, <1>2 DEF TaskRows
<1> HIDE DEF row
<1>7. D.task[t] = row /\ \A u \in Tasks \ {t} : D.task[u] = db.task[u]
  BY <1>1, <1>5, DatabaseFields
<1>8. "EXECUTE" \notin DecidedStages \cup {"VERIFY"} /\ "EXECUTE" \in ExecutedStages
  BY DEF DecidedStages, ExecutedStages
<1>9. CurrentEvidence(D, t) = E
  BY <1>4, <1>5, <1>6, <1>7 DEF CurrentEvidence, EvidenceOf, E
<1>10. txn'.op = "finalize" /\ txn'.task = t
  BY <1>2
<1> HIDE DEF D
<1>11. Reviewed(D)
  <2>1. EarlyWrite(db, D, t)
    BY <1>2, <1>4, <1>5, <1>6, <1>7, <1>8 DEF EarlyWrite
  <2> QED BY <1>1, <1>3, <2>1, EarlyWriteReviewed
<1>12. FinalizeReady'
  BY <1>2, <1>6, <1>7, <1>8, <1>9, <1>10 DEF FinalizeReady, TxnStage, D
<1> QED BY <1>1, <1>2, <1>10, <1>11, <1>12 DEF RInv, AutorunCounted, D

\* The forward path.
LEMMA ForwardPlace ==
    ASSUME NEW s \in Stages \ {"COMPLETED"}
    PROVE  /\ NextForwardStage[s] \in Stages
           /\ Place[NextForwardStage[s]] = Place[s] + 1
           /\ Place[s] \in Nat /\ Place[s] <= 11
           /\ NextForwardStage[s] \in ALLOWED_TRANSITIONS[s]
           /\ s \in ExecutedStages => NextForwardStage[s] \in ExecutedStages
BY DEF Stages, NextForwardStage, Place, ALLOWED_TRANSITIONS, ExecutedStages

\* An iteration of autorun.
LEMMA AutorunStepReviewed ==
    ASSUME IInv, RInv, AutorunStep PROVE RInv'
<1> DEFINE target == NextForwardStage[TxnStage]
           D == Transition(txn.db, txn.task, target, txn.token)
           token == IF target = "EXECUTE" THEN NoToken ELSE txn.token
<1>1. /\ txn.op = "autorun" /\ TxnStage # "COMPLETED"
      /\ CanTransition(txn.db, txn.task, target, txn.token)
      /\ txn' = [txn EXCEPT !.db = D, !.token = token, !.steps = @ + 1] /\ db' = db
  BY DEF AutorunStep, AutorunRuns, AutorunPaused
<1>2. /\ ~Idle /\ txn \in [op: {"autorun", "finalize"}, task: Tasks, token: Tokens,
                           steps: Nat, db: Databases]
  BY <1>1, OpenTxn DEF IInv
<1>3. txn.task \in Tasks /\ txn.db \in Databases /\ txn.steps \in Nat /\ now \in Nat
  BY <1>2 DEF IInv, TypeOK
<1>4. Reviewed(D)
  BY <1>1, <1>2, <1>3, TransitionReviewed DEF RInv
<1>5. D.task[txn.task].stage = target
  BY <1>3, TransitionFields
<1>6. TxnStage \in Stages /\ target \in Stages /\ Place[target] = Place[TxnStage] + 1
      /\ Place[TxnStage] \in Nat
  BY <1>1, ForwardPlace DEF CanTransition, TransitionAllowed, TxnStage
<1>7. txn.steps <= Place[TxnStage]
  BY <1>1, <1>3, <1>6 DEF RInv, AutorunCounted
<1> HIDE DEF D, token, target
<1>8. /\ txn'.op = "autorun" /\ txn'.db = D /\ txn'.task = txn.task
      /\ txn'.steps = txn.steps + 1
  BY <1>1, <1>2
<1>9. TxnStage' = target
  BY <1>5, <1>8 DEF TxnStage
<1>10. txn.steps + 1 <= Place[target]
  BY <1>3, <1>6, <1>7
<1>11. AutorunCounted'
  BY <1>6, <1>8, <1>9, <1>10 DEF AutorunCounted, Place
<1>12. FinalizeReady'
  BY <1>8 DEF FinalizeReady
<1> QED BY <1>1, <1>4, <1>8, <1>11, <1>12 DEF RInv

\* A transition of finalize_live_task.
LEMMA FinalizeStepReviewed ==
    ASSUME IInv, RInv, FinalizeStep PROVE RInv'
<1> DEFINE target == NextForwardStage[TxnStage]
           D == Transition(txn.db, txn.task, target, NoToken)
<1>1. /\ txn.op = "finalize" /\ TxnStage # "COMPLETED"
      /\ CanTransition(txn.db, txn.task, target, NoToken)
      /\ txn' = [txn EXCEPT !.db = D, !.steps = @ + 1] /\ db' = db
  BY DEF FinalizeStep, FinalizeRuns
<1>2. /\ ~Idle /\ txn \in [op: {"autorun", "finalize"}, task: Tasks, token: Tokens,
                           steps: Nat, db: Databases]
  BY <1>1, OpenTxn DEF IInv
<1>3. txn.task \in Tasks /\ txn.db \in Databases /\ now \in Nat
  BY <1>2 DEF IInv, TypeOK
<1>4. Reviewed(D)
  BY <1>1, <1>2, <1>3, TransitionReviewed DEF RInv
<1>5. D.task[txn.task].stage = target
  BY <1>3, TransitionFields
<1>6. /\ txn.task \in LiveTasks /\ TxnStage \in ExecutedStages
      /\ ReviewBindsEvidence(CurrentEvidence(txn.db, txn.task))
      /\ EvidenceGate(CurrentEvidence(txn.db, txn.task)) = "PASS"
  BY <1>1 DEF RInv, FinalizeReady
<1>7. TxnStage \in Stages /\ target \in ExecutedStages
  BY <1>1, <1>6, ForwardPlace DEF CanTransition, TransitionAllowed, TxnStage
<1>8. EnterEvidence(txn.db, txn.task, target) = {}
  BY <1>6, ConstantsAssumption DEF EnterEvidence
<1>9. CurrentEvidence(D, txn.task) = CurrentEvidence(txn.db, txn.task)
  BY <1>3, <1>8, TransitionEvidence
<1> HIDE DEF D, target
<1>10. txn'.op = "finalize" /\ txn'.db = D /\ txn'.task = txn.task
  BY <1>1, <1>2
<1>11. FinalizeReady'
  BY <1>5, <1>6, <1>7, <1>9, <1>10 DEF FinalizeReady, TxnStage
<1> QED BY <1>1, <1>4, <1>10, <1>11 DEF RInv, AutorunCounted

\* The end of a transaction, in whichever way.
LEMMA TxnEndReviewed ==
    ASSUME IInv, RInv, \/ AutorunCommit \/ AutorunGateFailed \/ AutorunAbort
                       \/ FinalizeCommit \/ Crash
    PROVE  RInv'
<1>1. CASE AutorunCommit \/ FinalizeCommit
  <2>1. txn.op \in {"autorun", "finalize"} /\ db' = txn.db /\ txn' = NoTxn
    BY <1>1 DEF AutorunCommit, FinalizeCommit
  <2>2. Reviewed(txn.db)
    BY <2>1, OpenTxn DEF IInv, RInv
  <2> QED BY <2>1, <2>2, EndReviewed
<1>2. CASE AutorunGateFailed
  <2>1. /\ txn.op = "autorun" /\ txn' = NoTxn /\ db' = RecordGateFailure(txn.db, txn.task)
        /\ txn.db.task[txn.task].stage = "VERIFY"
    BY <1>2 DEF AutorunGateFailed, AutorunRuns, GateBlocks
  <2>2. /\ txn.db \in Databases /\ txn.task \in Tasks /\ now \in Nat
        /\ Safe(txn.db, now) /\ Reviewed(txn.db)
    BY <2>1, OpenTxn DEF IInv, RInv
  <2> QED BY <2>1, <2>2, GateFailureReviewed, EndReviewed
<1>3. CASE AutorunAbort \/ Crash
  BY <1>3, EndReviewed DEF AutorunAbort, Crash, RInv
<1> QED BY <1>1, <1>2, <1>3

\* A request of a client.
LEMMA RequestReviewed ==
    ASSUME IInv, RInv, Request PROVE RInv'
<1>1. db \in Databases /\ now \in Nat /\ Safe(db, now) /\ Reviewed(db)
  BY DEF IInv, TypeOK, RInv
<1>2. ASSUME NEW t \in DemoTasks, NEW s \in {"happy_path", "insufficient_evidence"},
             ResetDemo(t, s)
      PROVE  RInv'
  <2>1. t \in Tasks /\ db.task[t].gen \in Nat
    BY <1>1, DatabaseFields DEF Tasks, TaskRows
  <2>2. db.task[t].gen + 1 \in Nat /\ db.task[t].gen < db.task[t].gen + 1
    BY <2>1
  <2> QED BY <1>2, <2>1, <2>2, NewRowReviewed DEF ResetDemo
<1>3. ASSUME NEW t \in LiveTasks, CreateLiveTask(t) PROVE RInv'
  <2>1. t \in Tasks /\ 1 \in Nat /\ db.task[t].gen < 1
    BY <1>1, <1>3 DEF Safe, EvaluationCurrent, CreateLiveTask, Tasks
  <2> QED BY <1>3, <2>1, NewRowReviewed DEF CreateLiveTask
<1>4. ASSUME NEW t \in Tasks, NEW target, NEW token, Advance(t, target, token) PROVE RInv'
  BY <1>1, <1>4, TransitionReviewed, CommitReviewed DEF Advance
<1>5. ASSUME NEW t \in Tasks, AdvanceGateFailed(t) PROVE RInv'
  BY <1>1, <1>5, GateFailureReviewed, CommitReviewed DEF AdvanceGateFailed, GateBlocks
<1>6. ASSUME NEW i, NEW decision, NEW digest, DecideApproval(i, decision, digest) PROVE RInv'
  <2>1. /\ db'.task = db.task /\ db'.evidence = db.evidence
        /\ db'.candidates = db.candidates /\ db'.memories = db.memories
    BY <1>1, <1>6 DEF DecideApproval, Databases
  <2> QED BY <1>1, <1>6, <2>1, SameReviewed, CommitReviewed DEF DecideApproval
<1>7. ASSUME NEW t \in DemoTasks, NEW token, AutorunBegin(t, token) PROVE RInv'
  <2>1. db' = db /\ txn'.op = "autorun" /\ txn'.db = db /\ txn'.steps = 0
    BY <1>7 DEF AutorunBegin
  <2> QED BY <1>1, <2>1 DEF RInv, FinalizeReady, AutorunCounted
<1> QED BY <1>2, <1>3, <1>4, <1>5, <1>6, <1>7, IngestReviewed, FinalizeBeginReviewed DEF Request

\* Every step keeps RInv.
LEMMA NextReviewed == IInv /\ RInv /\ [Next]_vars => RInv'
<1> SUFFICES ASSUME IInv, RInv, [Next]_vars PROVE RInv'
  OBVIOUS
<1>1. CASE TxnStep
  BY <1>1, AutorunStepReviewed, FinalizeStepReviewed, TxnEndReviewed DEF TxnStep
<1>2. CASE Tick \/ UNCHANGED vars
  <2>1. db' = db /\ txn' = txn
    BY <1>2 DEF Tick, vars
  <2> QED BY <2>1 DEF RInv, Idle, FinalizeReady, AutorunCounted, TxnStage
<1> QED BY <1>1, <1>2, RequestReviewed, TxnEndReviewed DEF Next

\* Nothing is reviewed in the beginning.
LEMMA InitReviewed == Init => RInv
<1> SUFFICES ASSUME Init PROVE RInv
  OBVIOUS
<1>1. ASSUME NEW t \in Tasks PROVE db.task[t].stage \in {"INTAKE", "ABSENT"}
  BY DEF Init, NewRow, AbsentRow
<1>2. \A t \in Tasks : ReviewKept(db, t)
  BY <1>1 DEF ReviewKept, ReviewedStages, DecidedStages
<1>3. db.memories = {} /\ txn = NoTxn
  BY DEF Init
<1> QED BY <1>2, <1>3 DEF RInv, Reviewed, Idle, NoTxn, FinalizeReady, AutorunCounted

-----------------------------------------------------------------------------
(* The theorems.                                                           *)

\* IInv and RInv hold in every reachable state.
LEMMA AlwaysReviewed == Spec => [](IInv /\ RInv)
BY InitInv, InitReviewed, NextInv, NextReviewed, PTL DEF Spec

\* A decided live task keeps the evidence that its independent reviewer bound, however it
\* came there and whatever is submitted afterwards (_validate_live_transition_evidence,
\* finalize_live_task).
THEOREM LiveDecisionsAreReviewed == Spec => []LiveDecisionReviewed
<1>1. IInv /\ RInv => LiveDecisionReviewed
  <2> SUFFICES ASSUME IInv, RInv, NEW t \in LiveTasks, db.task[t].decision # "none"
               PROVE  ReviewBindsEvidence(CurrentEvidence(db, t))
    BY DEF LiveDecisionReviewed
  <2>1. t \in Tasks /\ Backed(db, t) /\ ReviewKept(db, t)
    BY DEF Tasks, IInv, Safe, RInv, Reviewed
  <2> QED BY <2>1 DEF Backed, ReviewKept, ReviewedStages
<1> QED BY <1>1, AlwaysReviewed, PTL

\* A memory cites the whole evidence of its generation and the reviewer of it for ever:
\* the generation takes no more evidence once its task has memories (_enter_memory).
THEOREM MemoriesAreBacked == Spec => []MemoryBacked
<1>1. RInv => MemoryBacked
  BY DEF RInv, Reviewed, MemoryKept, Cites, MemoryBacked
<1> QED BY <1>1, AlwaysReviewed, PTL

\* No transition of finalize_live_task is refused: what it checked first implies what
\* each of them asks for.
THEOREM FinalizeIsNeverBlocked == Spec => []FinalizeNeverBlocked
<1>1. IInv /\ RInv => FinalizeNeverBlocked
  <2> SUFFICES ASSUME IInv, RInv, FinalizeRuns
               PROVE  CanTransition(txn.db, txn.task, NextForwardStage[TxnStage], NoToken)
    BY DEF FinalizeNeverBlocked
  <2> DEFINE E == CurrentEvidence(txn.db, txn.task)
             target == NextForwardStage[TxnStage]
  <2>1. /\ txn.task \in LiveTasks /\ txn.task \notin DemoTasks
        /\ TxnStage \in ExecutedStages \ {"COMPLETED"}
        /\ ReviewBindsEvidence(E) /\ EvidenceGate(E) = "PASS"
    BY ConstantsAssumption DEF RInv, FinalizeReady, FinalizeRuns
  <2>2. REQUIRED_FOR_DECISION \subseteq KindsOf(E)
    BY <2>1 DEF EvidenceGate
  <2>3. ArtifactKinds \subseteq KindsOf(E) /\ "metric" \in KindsOf(E)
    BY <2>2 DEF REQUIRED_FOR_DECISION
  <2>4. TxnStage \in Stages /\ target \in ALLOWED_TRANSITIONS[TxnStage] /\ TxnStage # "APPROVAL"
    BY <2>1, ForwardPlace DEF ExecutedStages, Stages
  <2>5. LiveEvidenceAllows(txn.db, txn.task, target)
    BY <2>1, <2>3 DEF LiveEvidenceAllows
  <2>6. TransitionAllowed(txn.db, txn.task, target, NoToken)
    BY <2>1, <2>4, <2>5 DEF TransitionAllowed, ApprovalAllows, DemoEntryAllows, TxnStage
  <2> QED BY <2>1, <2>6 DEF CanTransition, GateBlocks
<1> QED BY <1>1, AlwaysReviewed, PTL

\* autorun pauses or completes before its cap: an iteration moves the task one of twelve
\* places forward (next_forward_stage).
THEOREM AutorunIsWithinCap == Spec => []AutorunWithinCap
<1>1. IInv /\ RInv => AutorunWithinCap
  <2> SUFFICES ASSUME IInv, RInv, txn.op = "autorun" PROVE txn.steps < AutorunLimit
    BY DEF AutorunWithinCap
  <2>1. txn.steps \in Nat
    BY OpenTxn DEF IInv
  <2>2. \A s \in Stages : Place[s] \in Nat /\ Place[s] <= 12
    BY DEF Stages, Place
  <2> QED BY <2>1, <2>2 DEF RInv, AutorunCounted, AutorunLimit
<1> QED BY <1>1, AlwaysReviewed, PTL

-----------------------------------------------------------------------------
(* What one transaction, of one step or of many, does to the database.     *)

\* The approvals that were good for an execution and are spent.
SpentOf(D, X, t) == {i \in ApprovalIds : /\ D.approvals[i].task = t
                                         /\ D.approvals[i].status = "APPROVED"
                                         /\ X.approvals[i].status = "CONSUMED"}

Executes(D, X, t) == D.task[t].stage \notin ExecutedStages /\ X.task[t].stage \in ExecutedStages

\* An approval stays, or is a new one, or is spent by the task whose generation it is of.
ApprovalKept(D, X, k, i) ==
    \/ X.approvals[i] = D.approvals[i]
    \/ i \notin 1..D.requested /\ X.approvals[i].status = "PENDING"
    \/ /\ D.approvals[i].status = "APPROVED" /\ X.approvals[i].status = "CONSUMED"
       /\ D.approvals[i].task = k /\ D.approvals[i].gen = D.task[k].gen

\* X is what n transitions of task k made of D.
Made(D, X, k, n) ==
    /\ \A t \in Tasks \ {k} : /\ X.task[t] = D.task[t]
                              /\ CurrentEvidence(X, t) = CurrentEvidence(D, t)
    /\ X.task[k].gen = D.task[k].gen
    /\ X.task[k].version = D.task[k].version + n
    /\ D.evidence \subseteq X.evidence /\ D.memories \subseteq X.memories
    /\ \A i \in ApprovalIds : ApprovalKept(D, X, k, i)
    /\ D.requested <= X.requested /\ SpentOf(D, X, k) \subseteq 1..X.requested
    /\ IF Executes(D, X, k) THEN \E i \in ApprovalIds : SpentOf(D, X, k) = {i}
       ELSE SpentOf(D, X, k) = {}

\* Nothing was done yet.
LEMMA MadeNothing ==
    ASSUME NEW D \in Databases, NEW k \in Tasks
    PROVE  Made(D, D, k, 0)
<1>1. D.task[k].version \in Nat /\ D.requested \in Nat
  BY DatabaseFields DEF TaskRows
<1> QED BY <1>1 DEF Made, ApprovalKept, SpentOf, Executes

\* Evidence that a transition records is its own task's.
LEMMA OthersEvidence ==
    ASSUME NEW d \in Databases, NEW X \in Databases, NEW k \in Tasks, NEW t \in Tasks \ {k},
           NEW E, X.evidence = d.evidence \cup E, \A e \in E : e.task = k,
           X.task[t].gen = d.task[t].gen
    PROVE  CurrentEvidence(X, t) = CurrentEvidence(d, t)
BY DEF CurrentEvidence, EvidenceOf

\* What a transition does to the approvals.
LEMMA TransitionApproval ==
    ASSUME NEW d \in Databases, NEW k \in Tasks, NEW target, NEW token \in Tokens,
           now \in Nat, CanTransition(d, k, target, token), NEW i \in ApprovalIds
    PROVE  LET Y == Transition(d, k, target, token) IN
           \/ Y.approvals[i] = d.approvals[i] /\ ~(target = "EXECUTE" /\ i = token)
           \/ target # "EXECUTE" /\ i \notin 1..d.requested /\ Y.approvals[i].status = "PENDING"
           \/ /\ target = "EXECUTE" /\ i = token /\ d.approvals[i].status = "APPROVED"
              /\ Y.approvals[i].status = "CONSUMED" /\ d.approvals[i].task = k
              /\ d.approvals[i].gen = d.task[k].gen
<1> DEFINE Y == Transition(d, k, target, token)
<1>1. d.approvals \in [ApprovalIds -> Approvals] /\ d.requested \in Nat
  BY DatabaseFields
<1>2. Y.approvals = TransitionApprovals(d, k, target, token)
  BY TransitionFields
<1>3. target = "EXECUTE" => d.task[k].stage = "APPROVAL"
  BY StageGraph DEF CanTransition, TransitionAllowed
<1> HIDE DEF Y
<1>4. CASE target = "EXECUTE"
  <2>1. PICK j \in 1..d.requested : IsLatestApproval(d, j, k, d.task[k].gen) /\ ValidToken(d, j, k, token)
    BY <1>3, <1>4 DEF CanTransition, TransitionAllowed, ApprovalAllows
  <2>2. /\ token = j /\ d.approvals[token].status = "APPROVED" /\ d.approvals[token].task = k
        /\ d.approvals[token].gen = d.task[k].gen
    BY <2>1 DEF ValidToken
  <2>3. Y.approvals = [d.approvals EXCEPT ![token].status = "CONSUMED", ![token].used = now]
    BY <1>2, <1>4 DEF TransitionApprovals, ConsumeApproval
  <2>4. i = token => Y.approvals[i].status = "CONSUMED"
    BY <1>1, <2>3 DEF Approvals
  <2>5. i # token => Y.approvals[i] = d.approvals[i]
    BY <1>1, <2>3
  <2> QED BY <1>4, <2>2, <2>4, <2>5 DEF Y
<1>5. CASE target = "APPROVAL"
  <2>1. Y.approvals = [d.approvals EXCEPT ![d.requested + 1] = BuildApproval(k, d.task[k].gen)]
    BY <1>2, <1>5 DEF TransitionApprovals
  <2>2. i = d.requested + 1 => Y.approvals[i].status = "PENDING" /\ i \notin 1..d.requested
    BY <1>1, <2>1 DEF BuildApproval
  <2>3. i # d.requested + 1 => Y.approvals[i] = d.approvals[i]
    BY <1>1, <2>1
  <2> QED BY <1>5, <2>2, <2>3 DEF Y
<1>6. CASE target \notin {"EXECUTE", "APPROVAL"}
  BY <1>2, <1>6 DEF TransitionApprovals, Y
<1> QED BY <1>4, <1>5, <1>6

\* One more transition.  The work on a copy only goes forward; a request of one step
\* may also go back.
LEMMA MadeTransition ==
    ASSUME NEW D \in Databases, NEW X \in Databases, NEW k \in Tasks, NEW n \in Nat,
           NEW target, NEW token \in Tokens, now \in Nat,
           CanTransition(X, k, target, token), Made(D, X, k, n),
           D.task[k].stage \in ExecutedStages => X.task[k].stage \in ExecutedStages,
           \/ D = X
           \/ X.task[k].stage \in ExecutedStages => target \in ExecutedStages
    PROVE  Made(D, Transition(X, k, target, token), k, n + 1)
<1> DEFINE Y == Transition(X, k, target, token)
<1>1. target \in Stages
  BY StageGraph DEF CanTransition, TransitionAllowed
<1>2. /\ Y.requested = (IF target = "APPROVAL" THEN X.requested + 1 ELSE X.requested)
      /\ Y.evidence = X.evidence \cup EnterEvidence(X, k, target)
      /\ Y.task[k] = TransitionRow(X, k, target)
      /\ Y.task[k].stage = target /\ Y.task[k].gen = X.task[k].gen
      /\ \A u \in Tasks \ {k} : Y.task[u] = X.task[u]
      /\ Y \in Databases
  BY <1>1, TransitionFields, TransitionType
<1>3. X.memories \subseteq Y.memories
  BY DEF Transition
<1>4. Y.task[k].version = X.task[k].version + 1
  BY <1>2 DEF TransitionRow
<1>5. \A i \in ApprovalIds :
        \/ Y.approvals[i] = X.approvals[i] /\ ~(target = "EXECUTE" /\ i = token)
        \/ target # "EXECUTE" /\ i \notin 1..X.requested /\ Y.approvals[i].status = "PENDING"
        \/ /\ target = "EXECUTE" /\ i = token /\ X.approvals[i].status = "APPROVED"
           /\ Y.approvals[i].status = "CONSUMED" /\ X.approvals[i].task = k
           /\ X.approvals[i].gen = X.task[k].gen
  BY TransitionApproval
<1>6. \A e \in EnterEvidence(X, k, target) : e.task = k
  BY DEF EnterEvidence, DemoRecord
<1> HIDE DEF Y
<1>7. ASSUME NEW t \in Tasks \ {k}
      PROVE  Y.task[t] = D.task[t] /\ CurrentEvidence(Y, t) = CurrentEvidence(D, t)
  <2>1. X.task[t] = D.task[t] /\ CurrentEvidence(X, t) = CurrentEvidence(D, t)
    BY DEF Made
  <2>2. CurrentEvidence(Y, t) = CurrentEvidence(X, t)
    BY <1>2, <1>6, OthersEvidence
  <2> QED BY <1>2, <2>1, <2>2
<1>8. /\ X.task[k].gen = D.task[k].gen /\ X.task[k].version = D.task[k].version + n
      /\ D.evidence \subseteq X.evidence /\ D.memories \subseteq X.memories
      /\ \A i \in ApprovalIds : ApprovalKept(D, X, k, i)
      /\ D.requested <= X.requested /\ SpentOf(D, X, k) \subseteq 1..X.requested
      /\ IF Executes(D, X, k) THEN \E i \in ApprovalIds : SpentOf(D, X, k) = {i}
         ELSE SpentOf(D, X, k) = {}
  BY DEF Made
<1>9. D.requested \in Nat /\ X.requested \in Nat /\ D.task[k].version \in Nat
  BY DatabaseFields DEF TaskRows
<1>10. /\ D.requested <= Y.requested /\ 1..D.requested \subseteq 1..X.requested
       /\ Y.task[k].version = D.task[k].version + (n + 1)
  BY <1>2, <1>4, <1>8, <1>9
<1>11. ASSUME NEW i \in ApprovalIds PROVE ApprovalKept(D, Y, k, i)
  <2>1. ApprovalKept(D, X, k, i)
    BY <1>8
  <2>2. CASE Y.approvals[i] = X.approvals[i]
    BY <2>1, <2>2 DEF ApprovalKept
  <2>3. CASE i \notin 1..X.requested /\ Y.approvals[i].status = "PENDING"
    BY <1>10, <2>3 DEF ApprovalKept
  <2>4. CASE /\ X.approvals[i].status = "APPROVED" /\ Y.approvals[i].status = "CONSUMED"
             /\ X.approvals[i].task = k /\ X.approvals[i].gen = X.task[k].gen
    BY <1>8, <2>1, <2>4 DEF ApprovalKept
  <2> QED BY <1>5, <2>2, <2>3, <2>4
<1>12. IF Executes(D, Y, k) THEN \E i \in ApprovalIds : SpentOf(D, Y, k) = {i}
       ELSE SpentOf(D, Y, k) = {}
  <2>1. CASE target = "EXECUTE"
    <3>1. X.task[k].stage = "APPROVAL"
      BY <2>1, StageGraph DEF CanTransition, TransitionAllowed
    <3>2. D.task[k].stage \notin ExecutedStages /\ ~Executes(D, X, k) /\ Executes(D, Y, k)
      BY <1>2, <2>1, <3>1 DEF Executes, ExecutedStages
    <3>3. SpentOf(D, X, k) = {}
      BY <1>8, <3>2
    <3>4. PICK j \in 1..X.requested : IsLatestApproval(X, j, k, X.task[k].gen) /\ ValidToken(X, j, k, token)
      BY <2>1, <3>1 DEF CanTransition, TransitionAllowed, ApprovalAllows
    <3>5. token # NoToken /\ X.approvals[token].status = "APPROVED"
      BY <3>4 DEF ValidToken
    <3>6. token \in ApprovalIds
      BY <3>5 DEF Tokens
    <3>7. D.approvals[token] = X.approvals[token]
      BY <1>8, <3>5, <3>6 DEF ApprovalKept
    <3>8. token \in SpentOf(D, Y, k)
      BY <1>5, <2>1, <3>5, <3>6, <3>7 DEF SpentOf
    <3>9. ASSUME NEW i \in SpentOf(D, Y, k) PROVE i = token
      BY <1>5, <2>1, <3>3 DEF SpentOf
    <3> QED BY <3>2, <3>6, <3>8, <3>9
  <2>2. CASE target # "EXECUTE"
    <3>1. SpentOf(D, Y, k) \subseteq SpentOf(D, X, k)
      BY <1>5, <2>2 DEF SpentOf
    <3>2. SpentOf(D, X, k) \subseteq SpentOf(D, Y, k)
      <4> SUFFICES ASSUME NEW i \in SpentOf(D, X, k) PROVE i \in SpentOf(D, Y, k)
        OBVIOUS
      <4>1. i \in ApprovalIds /\ X.approvals[i].status = "CONSUMED" /\ D.approvals[i].status = "APPROVED"
        BY DEF SpentOf
      <4>2. i \in 1..X.requested
        BY <1>8
      <4> QED BY <1>5, <2>2, <4>1, <4>2 DEF SpentOf
    <3>3. Executes(D, Y, k) <=> Executes(D, X, k)
      <4>1. target \in ExecutedStages => X.task[k].stage \in ExecutedStages
        BY <2>2, StageGraph DEF CanTransition, TransitionAllowed
      <4>2. CASE D = X
        BY <1>2, <4>1, <4>2 DEF Executes
      <4>3. CASE X.task[k].stage \in ExecutedStages => target \in ExecutedStages
        BY <1>2, <4>1, <4>3 DEF Executes
      <4> QED BY <4>2, <4>3
    <3> QED BY <1>8, <3>1, <3>2, <3>3
  <2> QED BY <2>1, <2>2
<1>13. /\ Y.task[k].gen = D.task[k].gen
       /\ D.evidence \subseteq Y.evidence /\ D.memories \subseteq Y.memories
  BY <1>2, <1>3, <1>8
<1>14. SpentOf(D, Y, k) \subseteq 1..Y.requested
  <2> SUFFICES ASSUME NEW i \in SpentOf(D, Y, k) PROVE i \in 1..Y.requested
    OBVIOUS
  <2>1. /\ i \in ApprovalIds /\ D.approvals[i].status = "APPROVED"
        /\ Y.approvals[i].status = "CONSUMED" /\ D.approvals[i].task = k
    BY DEF SpentOf
  <2>2. i \in 1..X.requested
    <3>1. CASE Y.approvals[i] = X.approvals[i]
      BY <1>8, <2>1, <3>1 DEF SpentOf
    <3>2. CASE target = "EXECUTE" /\ i = token
      <4>1. X.task[k].stage = "APPROVAL"
        BY <3>2, StageGraph DEF CanTransition, TransitionAllowed
      <4>2. PICK j \in 1..X.requested : ValidToken(X, j, k, token)
        BY <3>2, <4>1 DEF CanTransition, TransitionAllowed, ApprovalAllows
      <4> QED BY <3>2, <4>2 DEF ValidToken
    <3> QED BY <1>5, <2>1, <3>1, <3>2
  <2> QED BY <1>2, <1>9, <2>2
<1> QED BY <1>7, <1>10, <1>11, <1>12, <1>13, <1>14 DEF Made, Y

\* A gate that fails is one more version of the row, and nothing else.
LEMMA MadeGateFailure ==
    ASSUME NEW D \in Databases, NEW X \in Databases, NEW k \in Tasks, NEW n \in Nat,
           Made(D, X, k, n)
    PROVE  Made(D, RecordGateFailure(X, k), k, n + 1)
<1> DEFINE Y == RecordGateFailure(X, k)
<1>1. /\ Y.evidence = X.evidence /\ Y.memories = X.memories /\ Y.approvals = X.approvals
      /\ Y.requested = X.requested
      /\ Y.task = [X.task EXCEPT ![k] = [X.task[k] EXCEPT !.gate = "FAIL",
                       !.reviewer = IndependentReviewer(CurrentEvidence(X, k)),
                       !.version = @ + 1]]
  BY DEF RecordGateFailure, Databases
<1>2. X.task[k] \in TaskRows /\ X.task \in [Tasks -> TaskRows] /\ D.task[k].version \in Nat
  BY DatabaseFields DEF TaskRows
<1> DEFINE reviewer == IndependentReviewer(CurrentEvidence(X, k))
           row == [X.task[k] EXCEPT !.gate = "FAIL", !.reviewer = reviewer, !.version = @ + 1]
<1>3. row.gen = X.task[k].gen /\ row.stage = X.task[k].stage
      /\ row.version = X.task[k].version + 1
  <2> HIDE DEF reviewer
  <2> QED BY <1>2 DEF TaskRows
<1>4. Y.task[k] = row /\ \A u \in Tasks \ {k} : Y.task[u] = X.task[u]
  <2> HIDE DEF Y
  <2> QED BY <1>1, <1>2
<1> HIDE DEF Y, row
<1>5. \A u \in Tasks \ {k} : CurrentEvidence(Y, u) = CurrentEvidence(X, u)
  BY <1>1, <1>4 DEF CurrentEvidence, EvidenceOf
<1>6. /\ \A t \in Tasks \ {k} : /\ Y.task[t] = D.task[t]
                                /\ CurrentEvidence(Y, t) = CurrentEvidence(D, t)
      /\ Y.task[k].gen = D.task[k].gen
  BY <1>3, <1>4, <1>5 DEF Made
<1>7. Y.task[k].version = D.task[k].version + (n + 1)
  BY <1>2, <1>3, <1>4 DEF Made
<1>8. SpentOf(D, Y, k) = SpentOf(D, X, k) /\ (Executes(D, Y, k) <=> Executes(D, X, k))
  BY <1>1, <1>3, <1>4 DEF SpentOf, Executes
<1>9. \A i \in ApprovalIds : ApprovalKept(D, Y, k, i)
  BY <1>1 DEF Made, ApprovalKept
<1> QED BY <1>1, <1>6, <1>7, <1>8, <1>9 DEF Made, Y

\* What the action properties say of a step from D to X.
SpendRule(D, X) ==
    \A t \in Tasks : IF Executes(D, X, t) THEN Cardinality(SpentOf(D, X, t)) = 1
                     ELSE SpentOf(D, X, t) = {}
FenceRule(D, X) ==
    \A t \in Tasks : /\ X.task[t].gen >= D.task[t].gen
                     /\ (/\ X.task[t].gen = D.task[t].gen
                         /\ \/ X.task[t] # D.task[t]
                            \/ CurrentEvidence(X, t) # CurrentEvidence(D, t))
                        => X.task[t].version > D.task[t].version
HistoryRule(D, X) ==
    /\ D.evidence \subseteq X.evidence
    /\ D.memories \subseteq X.memories
    /\ \A i \in 1..D.requested :
          (\/ D.approvals[i].status \in {"CONSUMED", "DENIED"}
           \/ D.approvals[i].gen < D.task[D.approvals[i].task].gen)
              => X.approvals[i] = D.approvals[i]
Rules(D, X) == SpendRule(D, X) /\ FenceRule(D, X) /\ HistoryRule(D, X)

\* A step that leaves the database keeps to them.
LEMMA SameRules ==
    ASSUME NEW D \in Databases PROVE Rules(D, D)
<1>1. \A t \in Tasks : D.task[t].gen \in Nat
  BY DatabaseFields DEF TaskRows
<1> QED BY <1>1 DEF Rules, SpendRule, FenceRule, HistoryRule, Executes, SpentOf

\* So does the work of a transaction that made a transition.
LEMMA MadeRules ==
    ASSUME NEW D \in Databases, NEW X \in Databases, NEW k \in Tasks, NEW n \in Nat \ {0},
           Made(D, X, k, n), D.requested <= MaxApprovals
    PROVE  Rules(D, X)
<1>1. /\ \A t \in Tasks : D.task[t].gen \in Nat /\ D.task[t].version \in Nat
      /\ D.requested \in Nat /\ 1..D.requested \subseteq ApprovalIds
      /\ \A i \in ApprovalIds : D.approvals[i].gen \in Nat
  BY DatabaseFields, ConstantsAssumption DEF TaskRows, Approvals, ApprovalIds
<1>2. SpendRule(D, X)
  <2> SUFFICES ASSUME NEW t \in Tasks
               PROVE  IF Executes(D, X, t) THEN Cardinality(SpentOf(D, X, t)) = 1
                      ELSE SpentOf(D, X, t) = {}
    BY DEF SpendRule
  <2>1. CASE t = k
    <3>1. CASE Executes(D, X, t)
      <4>1. PICK i \in ApprovalIds : SpentOf(D, X, t) = {i}
        BY <2>1, <3>1 DEF Made
      <4> QED BY <3>1, <4>1, FS_Singleton
    <3> QED BY <2>1, <3>1 DEF Made
  <2>2. CASE t # k
    <3>1. X.task[t] = D.task[t] /\ \A i \in ApprovalIds : ApprovalKept(D, X, k, i)
      BY <2>2 DEF Made
    <3>2. ~Executes(D, X, t)
      BY <3>1 DEF Executes
    <3>3. SpentOf(D, X, t) = {}
      BY <2>2, <3>1 DEF SpentOf, ApprovalKept
    <3> QED BY <3>2, <3>3
  <2> QED BY <2>1, <2>2
<1>3. FenceRule(D, X)
  BY <1>1 DEF FenceRule, Made
<1>4. HistoryRule(D, X)
  <2>1. ASSUME NEW i \in 1..D.requested,
               \/ D.approvals[i].status \in {"CONSUMED", "DENIED"}
               \/ D.approvals[i].gen < D.task[D.approvals[i].task].gen
        PROVE  X.approvals[i] = D.approvals[i]
    <3>1. ApprovalKept(D, X, k, i) /\ D.task[k].gen \in Nat
      BY <1>1 DEF Made
    <3> QED BY <1>1, <2>1, <3>1 DEF ApprovalKept
  <2> QED BY <2>1 DEF HistoryRule, Made
<1> QED BY <1>2, <1>3, <1>4 DEF Rules

\* So does a write to one row that brings no task across the approval stage.
LEMMA RowRules ==
    ASSUME NEW D \in Databases, NEW X \in Databases, NEW k \in Tasks,
           X.approvals = D.approvals, D.memories \subseteq X.memories,
           D.evidence \subseteq X.evidence, \A e \in X.evidence \ D.evidence : e.task = k,
           \A t \in Tasks \ {k} : X.task[t] = D.task[t],
           ~Executes(D, X, k),
           \/ X.task[k].gen > D.task[k].gen
           \/ X.task[k].gen = D.task[k].gen /\ X.task[k].version > D.task[k].version
    PROVE  Rules(D, X)
<1>1. \A t \in Tasks : D.task[t].gen \in Nat /\ X.task[t].gen \in Nat
                       /\ D.task[t].version \in Nat
  BY DatabaseFields DEF TaskRows
<1>2. \A t \in Tasks : SpentOf(D, X, t) = {} /\ ~Executes(D, X, t)
  BY DEF SpentOf, Executes
<1>3. \A t \in Tasks \ {k} : CurrentEvidence(X, t) = CurrentEvidence(D, t)
  BY DEF CurrentEvidence, EvidenceOf
<1>4. SpendRule(D, X)
  BY <1>2 DEF SpendRule
<1>5. FenceRule(D, X)
  BY <1>1, <1>3 DEF FenceRule
<1> QED BY <1>4, <1>5 DEF Rules, HistoryRule

\* The copy of an open transaction is what its steps made of the database, which no
\* other request touches meanwhile, and only goes forward.
TInv == ~Idle => /\ Made(db, txn.db, txn.task, txn.steps)
                 /\ db.task[txn.task].stage \in ExecutedStages => TxnStage \in ExecutedStages
                 /\ txn.steps = 0 => \/ txn.op = "autorun" /\ txn.db = db
                                     \/ txn.op = "finalize" /\ TxnStage = "EXECUTE"

\* The requests that write one row.
LEMMA RowRequestRules ==
    ASSUME IInv, db' \in Databases,
           \/ \E t \in DemoTasks, s \in {"happy_path", "insufficient_evidence"} : ResetDemo(t, s)
           \/ \E t \in LiveTasks : CreateLiveTask(t)
           \/ \E t \in LiveTasks, item \in LiveItems, g \in 1..MaxGeneration :
                  \E v \in SeenVersions(t) : IngestLiveEvidence(t, item, g, v)
    PROVE  Rules(db, db')
<1>1. db \in Databases /\ \A t \in Tasks : db.task[t] \in TaskRows
  BY DatabaseFields DEF IInv, TypeOK
<1>2. \A t \in Tasks : db.task[t].gen \in Nat /\ db.task[t].version \in Nat
  BY <1>1 DEF TaskRows
<1>3. ASSUME NEW t \in Tasks, NEW g \in Nat, NEW s, db.task[t].gen < g,
             db' = [db EXCEPT !.task[t] = NewRow(g, s)]
      PROVE  Rules(db, db')
  <2>1. NewRow(g, s).stage = "INTAKE" /\ NewRow(g, s).gen = g
    BY DEF NewRow
  <2>2. /\ db'.approvals = db.approvals /\ db'.memories = db.memories
        /\ db.evidence \subseteq db'.evidence
        /\ \A e \in db'.evidence \ db.evidence : e.task = t
        /\ db'.task = [db.task EXCEPT ![t] = NewRow(g, s)]
    BY <1>1, <1>3 DEF Databases
  <2>3. db'.task[t] = NewRow(g, s) /\ \A u \in Tasks \ {t} : db'.task[u] = db.task[u]
    BY <1>1, <2>2, DatabaseFields
  <2>4. ~Executes(db, db', t)
    BY <2>1, <2>3 DEF Executes, ExecutedStages
  <2>5. db'.task[t].gen > db.task[t].gen
    BY <1>2, <1>3, <2>1, <2>3
  <2> QED BY <1>1, <2>2, <2>3, <2>4, <2>5, RowRules
<1>4. CASE \E t \in DemoTasks, s \in {"happy_path", "insufficient_evidence"} : ResetDemo(t, s)
  <2>1. PICK t \in DemoTasks, s \in {"happy_path", "insufficient_evidence"} : ResetDemo(t, s)
    BY <1>4
  <2>2. t \in Tasks /\ db.task[t].gen + 1 \in Nat /\ db.task[t].gen < db.task[t].gen + 1
    BY <1>2 DEF Tasks
  <2>3. db' = [db EXCEPT !.task[t] = NewRow(db.task[t].gen + 1, s)]
    BY <2>1 DEF ResetDemo
  <2> QED BY <1>3, <2>2, <2>3
<1>5. CASE \E t \in LiveTasks : CreateLiveTask(t)
  <2>1. PICK t \in LiveTasks : CreateLiveTask(t)
    BY <1>5
  <2>2. t \in Tasks /\ db.task[t].gen < 1
    BY <2>1 DEF IInv, Safe, EvaluationCurrent, CreateLiveTask, Tasks
  <2>3. db' = [db EXCEPT !.task[t] = NewRow(1, "external_live")]
    BY <2>1 DEF CreateLiveTask
  <2> QED BY <1>3, <2>2, <2>3
<1>6. CASE \E t \in LiveTasks, item \in LiveItems, g \in 1..MaxGeneration :
               \E v \in SeenVersions(t) : IngestLiveEvidence(t, item, g, v)
  <2>1. PICK t \in LiveTasks, item \in LiveItems : \E g, v : IngestLiveEvidence(t, item, g, v)
    BY <1>6
  <2> DEFINE new == LiveRecord(t, item)
             evaluation == IF item.kind = "metric" THEN item.verdicts ELSE db.task[t].evaluation
             row == [db.task[t] EXCEPT !.evaluation = evaluation, !.version = @ + 1]
  <2>2. t \in Tasks /\ db.task[t] \in TaskRows /\ db.task \in [Tasks -> TaskRows]
    BY <1>1, DatabaseFields DEF Tasks
  <2>3. db' = [db EXCEPT !.evidence = @ \cup {new}, !.task[t].evaluation = evaluation,
                         !.task[t].version = @ + 1]
    BY <2>1 DEF IngestLiveEvidence
  <2>4. new.task = t
    BY DEF LiveRecord
  <2> HIDE DEF new, evaluation
  <2>5. row.gen = db.task[t].gen /\ row.stage = db.task[t].stage
        /\ row.version = db.task[t].version + 1
    BY <2>2 DEF TaskRows
  <2>6. /\ db'.approvals = db.approvals /\ db'.memories = db.memories
        /\ db'.evidence = db.evidence \cup {new}
        /\ db'.task = [db.task EXCEPT ![t] = row]
    BY <1>1, <2>2, <2>3 DEF Databases, TaskRows
  <2> HIDE DEF row
  <2>7. db'.task[t] = row /\ \A u \in Tasks \ {t} : db'.task[u] = db.task[u]
    BY <2>2, <2>6
  <2>8. ~Executes(db, db', t)
    BY <2>5, <2>7 DEF Executes
  <2>9. db'.task[t].gen = db.task[t].gen /\ db'.task[t].version > db.task[t].version
    BY <1>2, <2>2, <2>5, <2>7
  <2>10. /\ db.evidence \subseteq db'.evidence
         /\ \A e \in db'.evidence \ db.evidence : e.task = t
    BY <2>4, <2>6
  <2> QED BY <1>1, <2>2, <2>6, <2>7, <2>8, <2>9, <2>10, RowRules
<1> QED BY <1>4, <1>5, <1>6

\* A human's decision about a pending approval of the current generation.
LEMMA DecideRules ==
    ASSUME IInv, NEW i \in ApprovalIds, NEW decision, NEW digest,
           DecideApproval(i, decision, digest)
    PROVE  Rules(db, db')
<1> DEFINE status == IF decision = "approved" THEN "APPROVED" ELSE "DENIED"
<1>1. /\ db \in Databases /\ db.approvals \in [ApprovalIds -> Approvals]
      /\ db.approvals[i].task \in Tasks /\ db.approvals[i].gen \in Nat
      /\ \A t \in Tasks : db.task[t].gen \in Nat
  BY DatabaseFields DEF IInv, TypeOK, TaskRows, Approvals
<1>2. /\ db.approvals[i].status = "PENDING"
      /\ db.approvals[i].gen = db.task[db.approvals[i].task].gen
      /\ db' = [db EXCEPT !.approvals[i].status = status, !.approvals[i].decided = now]
  BY DEF DecideApproval
<1> HIDE DEF status
<1>3. /\ db'.task = db.task /\ db'.evidence = db.evidence /\ db'.memories = db.memories
      /\ \A j \in ApprovalIds \ {i} : db'.approvals[j] = db.approvals[j]
  BY <1>1, <1>2 DEF Databases
<1>4. \A t \in Tasks : SpentOf(db, db', t) = {} /\ ~Executes(db, db', t)
  BY <1>2, <1>3 DEF SpentOf, Executes
<1>5. \A t \in Tasks : CurrentEvidence(db', t) = CurrentEvidence(db, t)
  BY <1>3 DEF CurrentEvidence, EvidenceOf
<1>6. SpendRule(db, db')
  BY <1>4 DEF SpendRule
<1>7. FenceRule(db, db')
  BY <1>1, <1>3, <1>5 DEF FenceRule
<1>8. 1..db.requested \subseteq ApprovalIds
  BY <1>1, DatabaseFields, ConstantsAssumption DEF ApprovalIds, IInv, Safe, ApprovalsInOrder
<1>9. ASSUME NEW j \in 1..db.requested,
             \/ db.approvals[j].status \in {"CONSUMED", "DENIED"}
             \/ db.approvals[j].gen < db.task[db.approvals[j].task].gen
      PROVE  db'.approvals[j] = db.approvals[j]
  <2>1. j \in ApprovalIds
    BY <1>8
  <2>2. j # i
    <3>1. ~(db.approvals[i].gen < db.task[db.approvals[i].task].gen)
      BY <1>1, <1>2
    <3> QED BY <1>2, <1>9, <3>1
  <2> QED BY <1>3, <2>1, <2>2
<1>10. HistoryRule(db, db')
  BY <1>3, <1>9 DEF HistoryRule
<1> QED BY <1>6, <1>7, <1>10 DEF Rules

\* A step of one request.
LEMMA RequestRules ==
    ASSUME IInv, Idle, Request, db' # db, db' \in Databases
    PROVE  Rules(db, db')
<1>1. /\ db \in Databases /\ now \in Nat /\ db.requested <= MaxApprovals
      /\ \A t \in Tasks : Made(db, db, t, 0)
  BY MadeNothing DEF IInv, TypeOK, Safe, ApprovalsInOrder
<1>2. CASE \/ \E t \in DemoTasks, s \in {"happy_path", "insufficient_evidence"} : ResetDemo(t, s)
           \/ \E t \in LiveTasks : CreateLiveTask(t)
           \/ \E t \in LiveTasks, item \in LiveItems, g \in 1..MaxGeneration :
                  \E v \in SeenVersions(t) : IngestLiveEvidence(t, item, g, v)
  BY <1>2, RowRequestRules
<1>3. CASE \E t \in Tasks, target \in Stages, token \in Tokens : Advance(t, target, token)
  <2>1. PICK t \in Tasks, target \in Stages, token \in Tokens : Advance(t, target, token)
    BY <1>3
  <2>2. CanTransition(db, t, target, token) /\ db' = Transition(db, t, target, token)
    BY <2>1 DEF Advance
  <2>3. Made(db, db', t, 0 + 1)
    BY <1>1, <2>2, MadeTransition
  <2> QED BY <1>1, <2>3, MadeRules
<1>4. CASE \E t \in Tasks : AdvanceGateFailed(t)
  <2>1. PICK t \in Tasks : db' = RecordGateFailure(db, t)
    BY <1>4 DEF AdvanceGateFailed
  <2>2. Made(db, db', t, 0 + 1)
    BY <1>1, <2>1, MadeGateFailure
  <2> QED BY <1>1, <2>2, MadeRules
<1>5. CASE \E i \in ApprovalIds, decision \in {"approved", "denied"},
              t \in Tasks, g \in 1..MaxGeneration :
               DecideApproval(i, decision, ActionDigest(t, g))
  BY <1>5, DecideRules
<1>6. CASE \/ \E t \in DemoTasks, token \in Tokens : AutorunBegin(t, token)
           \/ \E t \in LiveTasks, items \in Bundles, g \in 1..MaxGeneration,
                 actor \in {"owner", "other"} :
                  \E v \in SeenVersions(t) : FinalizeBegin(t, items, g, v, actor)
  <2>1. db' = db
    <3>1. CASE \E t \in DemoTasks, token \in Tokens : AutorunBegin(t, token)
      BY <3>1 DEF AutorunBegin
    <3>2. CASE \E t \in LiveTasks, items \in Bundles, g \in 1..MaxGeneration,
                  actor \in {"owner", "other"} :
                   \E v \in SeenVersions(t) : FinalizeBegin(t, items, g, v, actor)
      <4>1. PICK t, items, g, actor, v : FinalizeBegin(t, items, g, v, actor)
        BY <3>2
      <4> QED BY <4>1 DEF FinalizeBegin
    <3> QED BY <1>6, <3>1, <3>2
  <2> QED BY <2>1
<1> QED BY <1>2, <1>3, <1>4, <1>5, <1>6 DEF Request

\* The steps of an open transaction, on its copy.
LEMMA CopyStepMade ==
    ASSUME IInv, TInv, AutorunStep \/ FinalizeStep
    PROVE  TInv'
<1> DEFINE target == NextForwardStage[TxnStage]
           token == IF AutorunStep THEN txn.token ELSE NoToken
           D == Transition(txn.db, txn.task, target, token)
<1>1. /\ txn.op \in {"autorun", "finalize"} /\ TxnStage # "COMPLETED" /\ db' = db
      /\ CanTransition(txn.db, txn.task, target, token)
      /\ \/ txn' = [txn EXCEPT !.db = D, !.steps = @ + 1]
         \/ txn' = [txn EXCEPT !.db = D, !.token = IF target = "EXECUTE" THEN NoToken ELSE @,
                               !.steps = @ + 1]
  BY DEF AutorunStep, AutorunRuns, AutorunPaused, FinalizeStep, FinalizeRuns
<1>2. /\ ~Idle /\ txn \in [op: {"autorun", "finalize"}, task: Tasks, token: Tokens,
                           steps: Nat, db: Databases]
      /\ txn.task \in Tasks /\ txn.steps \in Nat /\ txn.db \in Databases /\ now \in Nat
      /\ db \in Databases
  BY <1>1, OpenTxn DEF IInv, TypeOK
<1>3. token \in Tokens
  BY <1>2 DEF Tokens
<1>4. TxnStage \in Stages \ {"COMPLETED"}
  BY <1>1 DEF CanTransition, TransitionAllowed, TxnStage
<1>5. TxnStage \in ExecutedStages => target \in ExecutedStages
  BY <1>4, ForwardPlace
<1>6. D.task[txn.task].stage = target
  BY <1>2, TransitionFields
<1> HIDE DEF target, token
<1>7. Made(db, D, txn.task, txn.steps + 1)
  <2>1. /\ Made(db, txn.db, txn.task, txn.steps)
        /\ db.task[txn.task].stage \in ExecutedStages => TxnStage \in ExecutedStages
    BY <1>2 DEF TInv
  <2> QED BY <1>1, <1>2, <1>3, <1>5, <2>1, MadeTransition DEF TxnStage
<1> HIDE DEF D
<1>8. txn'.db = D /\ txn'.task = txn.task /\ txn'.steps = txn.steps + 1
  BY <1>1, <1>2
<1>9. TxnStage' = target
  BY <1>6, <1>8 DEF TxnStage
<1>10. db'.task[txn'.task].stage \in ExecutedStages => TxnStage' \in ExecutedStages
  BY <1>1, <1>2, <1>5, <1>8, <1>9 DEF TInv
<1>11. Made(db', txn'.db, txn'.task, txn'.steps) /\ txn'.steps # 0
  BY <1>1, <1>2, <1>7, <1>8
<1> QED BY <1>10, <1>11 DEF TInv

\* The begin of a transaction of many steps.
LEMMA BeginMade ==
    ASSUME IInv,
           \/ \E t \in DemoTasks, token \in Tokens : AutorunBegin(t, token)
           \/ \E t \in LiveTasks, items \in Bundles, g \in 1..MaxGeneration,
                 actor \in {"owner", "other"} :
                  \E v \in SeenVersions(t) : FinalizeBegin(t, items, g, v, actor)
    PROVE  TInv'
<1>1. /\ db \in Databases /\ \A t \in Tasks : Made(db, db, t, 0) /\ db.task[t] \in TaskRows
      /\ db.task \in [Tasks -> TaskRows]
  BY MadeNothing, DatabaseFields DEF IInv, TypeOK
<1>2. CASE \E t \in DemoTasks, token \in Tokens : AutorunBegin(t, token)
  <2>1. PICK t \in DemoTasks : txn'.task = t /\ txn'.db = db /\ txn'.steps = 0
                               /\ txn'.op = "autorun" /\ db' = db
    BY <1>2 DEF AutorunBegin
  <2>2. t \in Tasks /\ TxnStage' = db.task[t].stage
    BY <2>1 DEF Tasks, TxnStage
  <2> QED BY <1>1, <2>1, <2>2 DEF TInv
<1>3. CASE \E t \in LiveTasks, items \in Bundles, g \in 1..MaxGeneration,
              actor \in {"owner", "other"} :
               \E v \in SeenVersions(t) : FinalizeBegin(t, items, g, v, actor)
  <2>1. PICK t \in LiveTasks, items \in Bundles :
               \E g, v, actor : FinalizeBegin(t, items, g, v, actor)
    BY <1>3
  <2> DEFINE new == NewRecords(t, items)
             E == CurrentEvidence(db, t) \cup new
             row == [db.task[t] EXCEPT !.evaluation = MetricVerdicts(E),
                                       !.manifest = DigestsOf(NonReviews(E))]
             D == [db EXCEPT !.evidence = @ \cup new,
                             !.task[t].evaluation = MetricVerdicts(E),
                             !.task[t].manifest = DigestsOf(NonReviews(E))]
  <2>2. /\ txn' = [op |-> "finalize", task |-> t, token |-> NoToken, steps |-> 0, db |-> D]
        /\ db' = db /\ db.task[t].stage = "EXECUTE"
    BY <2>1 DEF FinalizeBegin
  <2>3. t \in Tasks /\ db.task[t] \in TaskRows /\ db.task[t].version \in Nat
    BY <1>1 DEF Tasks, TaskRows
  <2>4. \A e \in new : e.task = t
    BY DEF NewRecords, LiveRecord
  <2> HIDE DEF E, new
  <2>5. /\ D.approvals = db.approvals /\ D.memories = db.memories /\ D.requested = db.requested
        /\ D.evidence = db.evidence \cup new
        /\ D.task = [db.task EXCEPT ![t] = row]
    BY <1>1, <2>3 DEF Databases, TaskRows
  <2>6. row.gen = db.task[t].gen /\ row.version = db.task[t].version /\ row.stage = "EXECUTE"
    BY <2>2, <2>3 DEF TaskRows
  <2> HIDE DEF D, row
  <2>7. D.task[t] = row /\ \A u \in Tasks \ {t} : D.task[u] = db.task[u]
    BY <1>1, <2>3, <2>5
  <2>8. \A u \in Tasks \ {t} : CurrentEvidence(D, u) = CurrentEvidence(db, u)
    BY <2>4, <2>5, <2>7 DEF CurrentEvidence, EvidenceOf
  <2>9. SpentOf(db, D, t) = {} /\ ~Executes(db, D, t)
    BY <2>2, <2>5 DEF SpentOf, Executes, ExecutedStages
  <2>10. db.requested <= D.requested /\ D.task[t].version = db.task[t].version + 0
    BY <1>1, <2>3, <2>5, <2>6, <2>7, DatabaseFields
  <2>11. Made(db, D, t, 0)
    BY <2>5, <2>6, <2>7, <2>8, <2>9, <2>10 DEF Made, ApprovalKept
  <2>12. txn'.op = "finalize" /\ txn'.task = t /\ txn'.steps = 0 /\ txn'.db = D
    BY <2>2
  <2>13. TxnStage' = "EXECUTE" /\ "EXECUTE" \in ExecutedStages
    BY <2>6, <2>7, <2>12 DEF TxnStage, ExecutedStages
  <2> QED BY <2>2, <2>11, <2>12, <2>13 DEF TInv
<1> QED BY <1>2, <1>3

\* The end of a transaction of many steps, with its copy or without.
LEMMA EndRules ==
    ASSUME IInv, TInv, db' \in Databases, TxnStep
    PROVE  Rules(db, db') /\ (txn' = NoTxn \/ AutorunStep \/ FinalizeStep)
<1>1. db \in Databases /\ db.requested <= MaxApprovals
  BY DEF IInv, TypeOK, Safe, ApprovalsInOrder
<1>2. CASE AutorunStep \/ FinalizeStep \/ AutorunAbort
  BY <1>1, <1>2, SameRules DEF AutorunStep, FinalizeStep, AutorunAbort
<1>3. CASE AutorunCommit \/ FinalizeCommit
  <2>1. /\ ~Idle /\ txn.task \in Tasks /\ txn.steps \in Nat
        /\ db' = txn.db /\ txn' = NoTxn /\ (txn.op = "finalize" => TxnStage # "EXECUTE")
    BY <1>3, OpenTxn DEF IInv, AutorunCommit, FinalizeCommit
  <2>2. CASE txn.steps = 0
    BY <1>1, <2>1, <2>2, SameRules DEF TInv
  <2>3. CASE txn.steps # 0
    BY <1>1, <2>1, <2>3, MadeRules DEF TInv
  <2> QED BY <2>1, <2>2, <2>3
<1>4. CASE AutorunGateFailed
  <2>1. /\ ~Idle /\ txn.task \in Tasks /\ txn.steps \in Nat /\ txn.db \in Databases
        /\ db' = RecordGateFailure(txn.db, txn.task) /\ txn' = NoTxn
    BY <1>4, OpenTxn DEF IInv, AutorunGateFailed, AutorunRuns
  <2>2. Made(db, db', txn.task, txn.steps + 1)
    BY <1>1, <2>1, MadeGateFailure DEF TInv
  <2> QED BY <1>1, <2>1, <2>2, MadeRules
<1> QED BY <1>2, <1>3, <1>4 DEF TxnStep

\* Every step keeps to the rules.
LEMMA NextRules == IInv /\ TInv /\ [Next]_vars => TInv' /\ Rules(db, db')
<1> SUFFICES ASSUME IInv, TInv, [Next]_vars PROVE TInv' /\ Rules(db, db')
  OBVIOUS
<1>1. db \in Databases /\ db' \in Databases
  BY NextInv DEF IInv, TypeOK
<1>2. txn' = NoTxn => TInv'
  BY DEF TInv, Idle
<1>3. CASE Request
  <2>1. Idle /\ (txn' = txn \/ db' = db)
    <3>1. ASSUME NEW t, NEW s, ResetDemo(t, s) PROVE Idle /\ txn' = txn
      BY <3>1 DEF ResetDemo
    <3>2. ASSUME NEW t, CreateLiveTask(t) PROVE Idle /\ txn' = txn
      BY <3>2 DEF CreateLiveTask
    <3>3. ASSUME NEW t, NEW target, NEW token, Advance(t, target, token)
          PROVE  Idle /\ txn' = txn
      BY <3>3 DEF Advance
    <3>4. ASSUME NEW t, AdvanceGateFailed(t) PROVE Idle /\ txn' = txn
      BY <3>4 DEF AdvanceGateFailed
    <3>5. ASSUME NEW i, NEW decision, NEW digest, DecideApproval(i, decision, digest)
          PROVE  Idle /\ txn' = txn
      BY <3>5 DEF DecideApproval
    <3>6. ASSUME NEW t, NEW item, NEW g, NEW v, IngestLiveEvidence(t, item, g, v)
          PROVE  Idle /\ txn' = txn
      BY <3>6 DEF IngestLiveEvidence
    <3>7. ASSUME NEW t, NEW token, AutorunBegin(t, token) PROVE Idle /\ db' = db
      BY <3>7 DEF AutorunBegin
    <3>8. ASSUME NEW t, NEW items, NEW g, NEW v, NEW actor, FinalizeBegin(t, items, g, v, actor)
          PROVE  Idle /\ db' = db
      BY <3>8 DEF FinalizeBegin
    <3> QED BY <1>3, <3>1, <3>2, <3>3, <3>4, <3>5, <3>6, <3>7, <3>8, Zenon DEF Request
  <2>2. Rules(db, db')
    BY <1>1, <1>3, <2>1, RequestRules, SameRules
  <2>3. CASE \/ \E t \in DemoTasks, token \in Tokens : AutorunBegin(t, token)
             \/ \E t \in LiveTasks, items \in Bundles, g \in 1..MaxGeneration,
                   actor \in {"owner", "other"} :
                    \E v \in SeenVersions(t) : FinalizeBegin(t, items, g, v, actor)
    BY <2>2, <2>3, BeginMade
  <2>4. CASE txn' = txn
    BY <1>2, <2>1, <2>2, <2>4 DEF Idle
  <2> QED BY <1>3, <2>3, <2>4 DEF Request, ResetDemo, CreateLiveTask, Advance,
             AdvanceGateFailed, DecideApproval, IngestLiveEvidence
<1>4. CASE TxnStep
  BY <1>1, <1>2, <1>4, EndRules, CopyStepMade
<1>5. CASE Crash
  BY <1>1, <1>2, <1>5, SameRules DEF Crash
<1>6. CASE Tick \/ UNCHANGED vars
  <2>1. db' = db /\ txn' = txn
    BY <1>6 DEF Tick, vars
  <2>2. TInv'
    BY <2>1 DEF TInv, Idle, TxnStage
  <2> QED BY <1>1, <2>1, <2>2, SameRules
<1> QED BY <1>3, <1>4, <1>5, <1>6 DEF Next

\* No copy is open at first.
LEMMA InitMade == Init => TInv
BY DEF Init, TInv, Idle

\* Every commit that takes a task across the APPROVAL stage spends exactly one approved
\* approval of that task, also when autorun crosses it in the middle of its transaction;
\* no other commit spends any (ConsumeApproval, _transition).
THEOREM ExecutionsSpendOneApproval == Spec => OneApprovalPerExecution
<1>1. IInv /\ TInv /\ [Next]_vars
        => [\A t \in Tasks :
              LET spent == {i \in ApprovalIds : /\ db.approvals[i].task = t
                                                /\ db.approvals[i].status = "APPROVED"
                                                /\ db'.approvals[i].status = "CONSUMED"}
              IN IF /\ db.task[t].stage \notin ExecutedStages
                    /\ db'.task[t].stage \in ExecutedStages
                 THEN Cardinality(spent) = 1
                 ELSE spent = {}]_vars
  BY NextRules DEF Rules, SpendRule, Executes, SpentOf
<1> QED BY <1>1, Inductive, InitMade, NextRules, PTL DEF Spec, OneApprovalPerExecution

\* Within a generation a task row, or the evidence of the task, changes only under a
\* higher version (save_task), whatever chain of transitions one commit made.
THEOREM VersionsFenceChanges == Spec => VersionFencesChange
<1>1. IInv /\ TInv /\ [Next]_vars
        => [\A t \in Tasks :
              /\ db'.task[t].gen >= db.task[t].gen
              /\ (/\ db'.task[t].gen = db.task[t].gen
                  /\ \/ db'.task[t] # db.task[t]
                     \/ CurrentEvidence(db', t) # CurrentEvidence(db, t))
                 => db'.task[t].version > db.task[t].version]_vars
  BY NextRules DEF Rules, FenceRule
<1> QED BY <1>1, Inductive, InitMade, NextRules, PTL DEF Spec, VersionFencesChange

\* Evidence and memories are only added to, and an approval that was spent, denied or
\* left behind in an earlier generation never changes again, reset_demo included.
THEOREM HistoryIsAppendOnly == Spec => HistoryAppendOnly
<1>1. IInv /\ TInv /\ [Next]_vars
        => [/\ db.evidence \subseteq db'.evidence
            /\ db.memories \subseteq db'.memories
            /\ \A i \in 1..db.requested :
                  LET a == db.approvals[i] IN
                  (a.status \in {"CONSUMED", "DENIED"} \/ a.gen < db.task[a.task].gen)
                      => db'.approvals[i] = a]_vars
  BY NextRules DEF Rules, HistoryRule
<1> QED BY <1>1, Inductive, InitMade, NextRules, PTL DEF Spec, HistoryAppendOnly
=============================================================================
