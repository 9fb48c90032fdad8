----------------------------- MODULE BridgeRun -----------------------------
(***************************************************************************)
(* One live run of the AgentTeams bridge (apps/agentteams_bridge).         *)
(*                                                                         *)
(* The bridge drives a project of the AgentTeams Controller, a chat room   *)
(* (Matrix) and a task of the EgoAgentOS API through one persisted row.    *)
(* Threads and processes of the bridge execute start_run, reconcile and    *)
(* grant_r2.  Each operation holds a lease stored in the row, renews it    *)
(* before a call that changes another service, and writes the row by       *)
(* compare-and-swap.  Calls fail or lose their answer, leases run out under *)
(* their owner, processes die.                                             *)
(***************************************************************************)
EXTENDS Naturals, Sequences, SequencesExt, FiniteSets

CONSTANTS
    Workers,        \* threads or processes that execute operations
    Pre, Post,      \* ROLE_PLAN: logical tasks before and after approval, in order
    Reassignable,   \* logical tasks for which another Worker has the skills
    MaxReassign,    \* bound on the max_reassignments a request asks for
    Outcomes,       \* what may become of a call: "ok", "refused", "lost", "malformed"
    Variants,       \* what may differ between two answers to the same request
    MaxFaults       \* bound on failed calls, crashes and leases that run out early

ASSUME BridgeAssumption ==
    /\ MaxReassign \in Nat /\ MaxFaults \in Nat
    /\ Outcomes \subseteq {"ok", "refused", "lost", "malformed"} /\ "ok" \in Outcomes
    /\ Pre \in Seq(STRING) /\ Post \in Seq(STRING) /\ Len(Pre) > 0 /\ Len(Post) > 0
    /\ ToSet(Pre) \cap ToSet(Post) = {}
    /\ "none" \notin Variants

VARIABLES
    row,        \* the bridge_runs row: state, task graph and checkpoint
    lease,      \* checkpoint["operation_lease"]
    frame,      \* per worker: the operation under way and its copy of the row
    receipts,   \* bridge_receipts: receipt key -> archived content
    ledger,     \* bridge_events: <<kind, task>> of the envelopes appended
    at,         \* the Controller's project: status and nodes (external)
    matrix,     \* kinds of envelopes that reached the room (external)
    ego,        \* the EgoAgentOS task: stage and approval (external)
    faults      \* faults that happened, up to MaxFaults

vars == <<row, lease, frame, receipts, ledger, at, matrix, ego, faults>>

-----------------------------------------------------------------------------
(* Data *)

RunState == {"ABSENT", "PROVISIONING", "PRE_APPROVAL", "WAITING_R2", "POST_APPROVAL",
             "COMPENSATION_REQUIRED", "BLOCKED", "COMPLETED"}

Plan == Pre \o Post
Origins == ToSet(Plan)
Tasks == Origins \X (1 .. MaxReassign + 1)    \* <<origin, attempt>>
NoTask == <<>>

\* Status of a Controller node.  "good", "unfit" and "bad" are "completed": with a result that
\* finalization takes, that only the result contract accepts, that the contract refuses.
NodeStatus == {"none", "pending", "delegated", "in-progress", "good", "unfit", "bad",
               "revision", "blocked"}
RawStatus == {"planned", "completed", "revision", "blocked"}
ACTIVE_NODE_STATUSES == {"delegated", "in-progress"}
Completed(s) == s \in {"good", "unfit", "bad"}

RetryOperations == {"none", "start-dispatch", "replan-notify", "approval-required-notify",
                    "terminal-notify", "resume-replan-notify", "grant-response-uncertain"}

EgoStages == <<"INTAKE", "CONTEXT", "PLAN", "PLAN_REVIEW", "APPROVAL">>

Key(name) == <<name, NoTask>>
TerminalKeys == {Key("project-create"), Key("live-finalization"), Key("project-complete")}
ReceiptKeys == TerminalKeys \cup {<<"artifact", t>> : t \in Tasks}

\* The part of a run that update_run writes.  The version is left out: a worker's copy is
\* `current` exactly when its version is the stored one.
Runs == [state : RunState, graph : Seq(Tasks), status : [Tasks -> RawStatus],
         envelope : BOOLEAN, committed : BOOLEAN, grant : BOOLEAN, final : BOOLEAN,
         retry : RetryOperations, resume : RunState,
         accepted : SUBSET Tasks, seen : [Tasks -> NodeStatus],
         max_reassignments : 0 .. MaxReassign]

AbsentRun == [state |-> "ABSENT", graph |-> <<>>, status |-> [t \in Tasks |-> "planned"],
              envelope |-> FALSE, committed |-> FALSE, grant |-> FALSE, final |-> FALSE,
              retry |-> "none", resume |-> "ABSENT",
              accepted |-> {}, seen |-> [t \in Tasks |-> "none"],
              max_reassignments |-> 0]

NoLease == [owner |-> "nobody", expired |-> FALSE]

NoNodes == [t \in Tasks |-> "none"]
NoFrame == [pc |-> "idle", run |-> AbsentRun, wf |-> NoNodes, current |-> FALSE,
            renewed |-> FALSE, task |-> NoTask]

-----------------------------------------------------------------------------
(* The task graph *)

\* Mutant: the plan is not split at the approval.
BuildWholePlan(part) == [i \in 1 .. Len(Plan) |-> <<Plan[i], 1>>]

\* _build_task_graph: the first attempts of the tasks of a part of the plan.
BuildTaskGraph(part) == [i \in 1 .. Len(part) |-> <<part[i], 1>>]

\* reassignments[origin]: replacements of a logical task that are in the graph.
Reassignments(run, o) == Cardinality({i \in DOMAIN run.graph : run.graph[i][1] = o}) - 1

\* _effective_tasks: the newest attempt of each logical task, by its position in the graph.
Effective(run) ==
    {i \in DOMAIN run.graph : run.graph[i][2] = Reassignments(run, run.graph[i][1]) + 1}
EffectiveTasks(run) == {run.graph[i] : i \in Effective(run)}

\* _all_stage_tasks_completed: judged by the workflow that was read.
AllStageTasksCompleted(f, part) ==
    LET tasks == {t \in EffectiveTasks(f.run) : t[1] \in ToSet(part)}
    IN  tasks # {} /\ \A t \in tasks : Completed(f.wf[t]) /\ t \in f.run.accepted

\* depends_on: a task waits for the newest attempt of the task before it in the plan.
DependsOn(o, p) == \E i \in 1 .. Len(Plan) - 1 : p = Plan[i] /\ o = Plan[i + 1]

\* The tasks of a graph that belong to a part of the plan, in graph order.
OfPart(graph, part) ==
    LET kept[i \in 0 .. Len(graph)] ==
            IF i = 0 THEN <<>>
            ELSE IF graph[i][1] \in ToSet(part) THEN Append(kept[i - 1], graph[i])
            ELSE kept[i - 1]
    IN  kept[Len(graph)]

\* _post_approval_graph: accepted tasks are marked, the post-approval part is added once.
PostApprovalGraph(run) ==
    LET existing == OfPart(run.graph, Post)
    IN  [run EXCEPT
           !.graph = OfPart(@, Pre)
                        \o (IF existing # <<>> THEN existing ELSE BuildTaskGraph(Post)),
           !.status = [t \in Tasks |-> IF t \in run.accepted /\ t[1] \in ToSet(Pre)
                                       THEN "completed" ELSE @[t]]]

-----------------------------------------------------------------------------
(* The store: every method is one transaction *)

\* _assert_update_lease: the caller owns the stored lease and it has not run out.
OwnsLease(w) == lease.owner = w /\ ~lease.expired

\* Mutant: update_run writes without looking at version and lease.
MayUpdateAlways(w) == TRUE

\* update_run: the version is the one read, the lease is the caller's.
MayUpdate(w) == frame[w].current /\ OwnsLease(w)

\* The frames after w wrote the row: no other copy is current any more.
Fence(w, f) == [v \in Workers |-> IF v = w THEN f ELSE [frame[v] EXCEPT !.current = FALSE]]

\* archive_receipt: first content wins; the same content again is a replay.
Archivable(key, v) == receipts[key] \in {"none", v}

\* The counter of faults moves with every outcome other than success.
Spend(outcome) == /\ outcome # "ok" => faults < MaxFaults
                  /\ faults' = IF outcome = "ok" THEN faults ELSE faults + 1
-----------------------------------------------------------------------------
(* Steps shared by the operations *)

\* The local variables that are still used at a program point.
Goto(f, pc) ==
    IF pc = "release" THEN [NoFrame EXCEPT !.pc = pc]
    ELSE [f EXCEPT !.pc = pc, !.renewed = FALSE,
             !.wf = IF pc \in {"r_cancel", "r_replan", "r_replaced"} THEN @ ELSE NoNodes,
             !.task = IF pc \in {"r_cancel", "r_replan", "r_replaced"} THEN @ ELSE NoTask]
Step(w, pc) == frame' = [frame EXCEPT ![w] = Goto(frame[w], pc)]

\* Where an exception raised at a program point is caught: the except clauses of start_run,
\* _reassign, _reconcile_claimed and _grant_r2_claimed; elsewhere `finally` releases the lease.
Handler(pc) ==
    CASE pc \in {"s_workers", "s_project", "s_replan", "s_envelope", "s_send", "s_finish"}
                                                       -> "s_error"
      [] pc \in {"g_resume", "g_replan", "g_send", "g_finish"} -> "g_error"
      [] pc = "r_send_replan"   -> "replan_error"
      [] pc = "r_send_approval" -> "approval_error"
      [] pc = "r_send_terminal" -> "terminal_error"
      [] pc = "s_error"         -> "s_compensate"
      [] pc = "replan_error"    -> "replan_compensate"
      [] pc = "g_error"         -> "g_compensate"
      [] OTHER                  -> "release"
Raise(w) == Step(w, Handler(frame[w].pc))

\* Program points at which the code renews the lease and then changes another service.
MutatingPoints == {"s_workers", "s_project", "s_replan", "s_send", "s_error",
                   "r_cancel", "r_replan", "r_send_replan", "replan_error", "r_advance",
                   "r_pause", "r_send_approval", "r_finalize", "r_complete",
                   "r_send_terminal", "c_send", "c_resume", "g_consume", "g_resume",
                   "g_replan", "g_send", "g_error", "approval_error", "terminal_error"}

External == <<at, matrix, ego>>
Stored == <<row, receipts, ledger>>

\* _renew_operation: prove ownership and extend the lease, or raise.
RenewOperation(w) ==
    /\ frame[w].pc \in MutatingPoints /\ ~frame[w].renewed
    /\ IF OwnsLease(w) THEN frame' = [frame EXCEPT ![w].renewed = TRUE] ELSE Raise(w)
    /\ UNCHANGED <<Stored, lease, External, faults>>

Ready(w, pc) == frame[w].pc = pc /\ frame[w].renewed


\* release_operation, in the finally clause of every operation.
ReleaseOperation(w) ==
    /\ frame[w].pc = "release"
    /\ lease' = IF lease.owner = w THEN NoLease ELSE lease
    /\ frame' = [frame EXCEPT ![w] = NoFrame]
    /\ UNCHANGED <<Stored, External, faults>>

\* claim_operation: the lease is free or has run out; the row is read in the same transaction.
Claim(w, pc) ==
    /\ lease.owner = "nobody" \/ lease.expired
    /\ lease' = [owner |-> w, expired |-> FALSE]
    /\ frame' = [frame EXCEPT ![w] = [NoFrame EXCEPT !.pc = pc, !.run = row, !.current = TRUE]]

\* update_run with the copy `run`, going on at pc; a refused update raises.
Update(w, run, pc) ==
    IF MayUpdate(w)
    THEN /\ row' = run
         /\ frame' = Fence(w, [Goto(frame[w], pc) EXCEPT !.run = run])
    ELSE /\ Raise(w)
         /\ row' = row

\* A call that changes the Controller's project to `next`.
CallController(w, next, pc) ==
    \E outcome \in Outcomes \ {"malformed"} :
        /\ Spend(outcome)
        /\ at' = IF outcome = "refused" THEN at ELSE next
        /\ IF outcome = "ok" THEN Step(w, pc) ELSE Raise(w)
        /\ UNCHANGED <<Stored, lease, matrix, ego>>

Delivered(kind) == matrix \cup {kind}

\* _send: the envelope goes to the room; its receipt and its event are stored if the lease
\* is still the caller's.
Send(w, kind, pc) ==
    \E outcome \in Outcomes \ {"malformed"} :
        /\ Spend(outcome)
        /\ matrix' = IF outcome = "refused" THEN matrix ELSE Delivered(kind)
        /\ IF outcome = "ok" /\ OwnsLease(w)
           THEN /\ ledger' = ledger \cup {<<kind, NoTask>>}
                /\ Step(w, pc)
           ELSE /\ Raise(w)
                /\ UNCHANGED ledger
        /\ UNCHANGED <<row, receipts, lease, at, ego>>

\* What the Controller makes of a list of tasks: new nodes are added, known ones stay.
Planned(tasks) == [at EXCEPT !.nodes = [t \in Tasks |->
                      IF t \in tasks /\ @[t] = "none" THEN "pending" ELSE @[t]]]
ProjectCreated == [at EXCEPT !.status = IF @ = "none" THEN "active" ELSE @]
Cancelled(t) == [at EXCEPT !.nodes[t] = IF @ \in ACTIVE_NODE_STATUSES THEN "blocked" ELSE @]
ProjectCompleted == [at EXCEPT !.status = "completed"]
Paused == [at EXCEPT !.status = IF @ = "active" THEN "paused" ELSE @]
Resumed == [at EXCEPT !.status = IF @ = "paused" THEN "active" ELSE @]

-----------------------------------------------------------------------------
(* start_run *)

\* Up to the reservation: the probes of the services, the binding to a task at INTAKE, and
\* create_run, or the reservation that is already there.
StartReserve(w) ==
    /\ frame[w].pc = "idle"
    /\ row.state = "ABSENT"
    /\ ego.stage = "INTAKE"
    /\ \E budget \in 0 .. MaxReassign :
          row' = [AbsentRun EXCEPT !.state = "PROVISIONING", !.graph = BuildTaskGraph(Pre),
                                   !.max_reassignments = budget]
    /\ UNCHANGED <<receipts, ledger, lease, frame, External, faults>>

\* The reservation is claimed by the request that made it or by a repeated request.
StartClaim(w) ==
    /\ frame[w].pc = "idle"
    /\ row.state = "PROVISIONING" /\ ego.stage = "INTAKE"
    /\ Claim(w, "s_workers")
    /\ UNCHANGED <<Stored, External, faults>>

\* _ensure_workers_ready: waking the Workers changes nothing that is modelled here.
StartWorkers(w) ==
    /\ Ready(w, "s_workers")
    /\ CallController(w, at, "s_project")

\* _confirm_reserved_project: the project is created, or found because an earlier attempt
\* created it; its receipt is archived and the checkpoint says so.
StartProject(w) ==
    /\ Ready(w, "s_project")
    /\ LET done == [frame[w].run EXCEPT !.committed = TRUE] IN
       IF frame[w].run.committed
       THEN /\ Step(w, "s_replan")
            /\ UNCHANGED <<Stored, at, faults>>
       ELSE IF receipts[Key("project-create")] # "none"
       THEN /\ Update(w, done, "s_replan")
            /\ UNCHANGED <<receipts, ledger, at, faults>>
       ELSE \E outcome \in Outcomes \ {"malformed"}, v \in Variants :
            /\ Spend(outcome)
            /\ at' = IF outcome = "refused" THEN at ELSE ProjectCreated
            /\ IF outcome = "ok" /\ OwnsLease(w)
               THEN /\ receipts' = [receipts EXCEPT ![Key("project-create")] = v]
                    /\ Step(w, "s_committed")
               ELSE /\ Raise(w)
                    /\ UNCHANGED receipts
            /\ UNCHANGED <<row, ledger>>
    /\ UNCHANGED <<lease, matrix, ego>>

StartCommitted(w) ==
    /\ frame[w].pc = "s_committed"
    /\ Update(w, [frame[w].run EXCEPT !.committed = TRUE], "s_replan")
    /\ UNCHANGED <<receipts, ledger, lease, External, faults>>

StartReplan(w) ==
    /\ Ready(w, "s_replan")
    /\ CallController(w, Planned(ToSet(frame[w].run.graph)), "s_envelope")

\* The envelope of the dispatch is stored before it is sent, so that a repetition sends the same.
StartEnvelope(w) ==
    /\ frame[w].pc = "s_envelope"
    /\ IF frame[w].run.envelope
       THEN Step(w, "s_send") /\ UNCHANGED row
       ELSE Update(w, [frame[w].run EXCEPT !.envelope = TRUE], "s_send")
    /\ UNCHANGED <<receipts, ledger, lease, External, faults>>

StartSend(w) == Ready(w, "s_send") /\ Send(w, "TASK_REQUEST", "s_finish")

StartFinish(w) ==
    /\ frame[w].pc = "s_finish"
    /\ Update(w, [frame[w].run EXCEPT !.state = "PRE_APPROVAL"], "release")
    /\ UNCHANGED <<receipts, ledger, lease, External, faults>>

\* The except clause: without a confirmed project nothing is left to undo; else the project
\* is paused, and whether or not that succeeds the run asks for compensation.
StartError(w) ==
    /\ frame[w].pc = "s_error"
    /\ \/ /\ ~frame[w].run.committed
          /\ Step(w, "release")
          /\ UNCHANGED <<Stored, lease, External, faults>>
       \/ /\ frame[w].run.committed /\ frame[w].renewed
          /\ CallController(w, Paused, "s_compensate")

StartCompensate(w) ==
    /\ frame[w].pc = "s_compensate"
    /\ Update(w, [frame[w].run EXCEPT !.state = "COMPENSATION_REQUIRED",
                                      !.retry = "start-dispatch"], "release")
    /\ UNCHANGED <<receipts, ledger, lease, External, faults>>

Start(w) == \/ StartReserve(w) \/ StartClaim(w) \/ StartWorkers(w) \/ StartProject(w)
            \/ StartCommitted(w) \/ StartReplan(w) \/ StartEnvelope(w) \/ StartSend(w)
            \/ StartFinish(w) \/ StartError(w) \/ StartCompensate(w)

-----------------------------------------------------------------------------
(* reconcile, also called by recover_active: reading, accepting, reassigning *)

\* recover_active leaves alone what only an operator may move; a client may still reconcile it.
ReconcileClaim(w) ==
    /\ frame[w].pc = "idle"
    /\ row.state \notin {"ABSENT", "BLOCKED", "COMPLETED"}
    /\ Claim(w, "r_read")
    /\ UNCHANGED <<Stored, External, faults>>

\* The workflow is read and archived under its digest; _observe_statuses notes every status
\* that changed, which restarts the task's timer.
ReconcileRead(w) ==
    /\ frame[w].pc = "r_read"
    /\ \E outcome \in Outcomes \cap {"ok", "refused"} :
        /\ Spend(outcome)
        /\ IF outcome = "ok" /\ at.status # "none" /\ OwnsLease(w)
           THEN frame' = [frame EXCEPT ![w].wf = at.nodes,
                    ![w].pc = IF frame[w].run.state = "COMPENSATION_REQUIRED"
                              THEN "c_recover" ELSE "r_examine"]
           ELSE Raise(w)
    /\ UNCHANGED <<Stored, lease, External>>

\* The timer of a task runs from the reconcile that first saw its status.
TimedOut(f, t) == f.wf[t] \in ACTIVE_NODE_STATUSES /\ f.run.seen[t] = f.wf[t]

\* The tasks of _first_conflict's loop that need attention: reported failed, perhaps timed
\* out, or completed and not yet accepted.
Failed(f, t) == f.wf[t] \in {"revision", "blocked"}
Unaccepted(f, t) == Completed(f.wf[t]) /\ t \notin f.run.accepted
Attention(f) ==
    {i \in Effective(f.run) :
        LET t == f.run.graph[i] IN Failed(f, t) \/ TimedOut(f, t) \/ Unaccepted(f, t)}

\* Mutant: a result is accepted once the Controller reports it completed.
AcceptCompleted(f, t) == Completed(f.wf[t])

\* _validate_task_contract: the declared artifact has the reported digest and its result
\* envelope answers this task; what a metric or a review binds is not looked at.
ValidTaskContract(f, t) == f.wf[t] \in {"good", "unfit"}

\* _observe_statuses
Observed(f) == [f.run EXCEPT !.seen = [t \in Tasks |-> IF f.wf[t] # "none" THEN f.wf[t] ELSE @[t]]]

\* One round of _first_conflict.  A task that timed out on the clock, failed, or whose result
\* cannot be fetched, archived or validated is a conflict; a valid result is accepted and
\* the loop goes on; when nothing is left the reconcile decides what comes next.
ReconcileExamine(w) ==
    /\ frame[w].pc = "r_examine"
    /\ LET f == frame[w]
           todo == Attention(f)
           At(i) == f.run.graph[i]
           Hard == {i \in todo : ~TimedOut(f, At(i))}
           Conflict(t) == frame' = [frame EXCEPT ![w].pc = "r_reassign", ![w].task = t,
                                                 ![w].run = Observed(f)]
       IN \/ /\ Hard = {}      \* no timer has run out
             /\ frame' = [frame EXCEPT ![w].pc = "r_decide", ![w].run = Observed(f)]
             /\ UNCHANGED <<receipts, ledger, faults>>
          \/ \E i \in todo :   \* the timers before task i have not run out
             /\ \A j \in Hard : i <= j
             /\ Failed(f, At(i)) \/ TimedOut(f, At(i))
             /\ Conflict(At(i))
             /\ UNCHANGED <<receipts, ledger, faults>>
          \/ \E i \in Hard, outcome \in Outcomes \cap {"ok", "refused"}, v \in Variants :
             /\ \A j \in Hard : i <= j
             /\ Unaccepted(f, At(i))
             /\ Spend(outcome)
             /\ LET t == At(i)
                    key == <<"artifact", t>>
                    fetched == outcome = "ok" /\ OwnsLease(w) /\ Archivable(key, v)
                IN /\ receipts' = IF fetched THEN [receipts EXCEPT ![key] = v] ELSE receipts
                   /\ IF fetched /\ ValidTaskContract(f, t)
                      THEN /\ frame' = [frame EXCEPT ![w].run.accepted = @ \cup {t}]
                           /\ ledger' = ledger \cup {<<"ARTIFACT_ACCEPTED", t>>}
                      ELSE /\ Conflict(t)
                           /\ UNCHANGED ledger
    /\ UNCHANGED <<row, lease, External>>

\* Mutant: the Worker that is too slow is not told to stop.
CancelNothing(f) == FALSE
MustCancel(f) == f.wf[f.task] \in ACTIVE_NODE_STATUSES

\* _reassign, up to its first call: out of budget or without another Worker the run is
\* blocked; while another node runs, or a later task has been touched, the replan is deferred.
ReconcileReassign(w) ==
    /\ frame[w].pc = "r_reassign"
    /\ LET f == frame[w]
           t == f.task
           otherActive == \E u \in Tasks \ {t} : f.wf[u] = "in-progress"
           downstreamStarted == \E u \in ToSet(f.run.graph) :
                                   DependsOn(u[1], t[1]) /\ f.run.status[u] # "planned"
           Blocked == frame' = [frame EXCEPT ![w] =
                                    [Goto(frame[w], "r_commit") EXCEPT !.run.state = "BLOCKED"]]
       IN IF Reassignments(f.run, t[1]) >= f.run.max_reassignments THEN Blocked
          ELSE IF otherActive \/ downstreamStarted THEN Step(w, "r_commit")
          ELSE IF t[1] \notin Reassignable THEN Blocked
          ELSE Step(w, IF MustCancel(f) THEN "r_cancel" ELSE "r_replan")
    /\ UNCHANGED <<Stored, lease, External, faults>>

\* The Controller cancels an active task; it stays in its graph as blocked.
ReconcileCancel(w) ==
    /\ Ready(w, "r_cancel")
    /\ CallController(w, Cancelled(frame[w].task), "r_replan")

\* _status_to_raw of the replaced task; an active one has just been cancelled.
StatusToRaw(s) == IF s \in ACTIVE_NODE_STATUSES THEN "blocked"
                  ELSE IF Completed(s) THEN "completed" ELSE s

Replacement(f) == <<f.task[1], f.task[2] + 1>>
ReplacedGraph(f) ==
    [f.run EXCEPT !.graph = Append(@, Replacement(f)),
                  !.status[f.task] = StatusToRaw(f.wf[f.task])]

ReconcileReplan(w) ==
    /\ Ready(w, "r_replan")
    /\ CallController(w, Planned(ToSet(ReplacedGraph(frame[w]).graph)), "r_replaced")

\* After the replan: the new graph, the counter and the CONFLICT event.
ReconcileReplaced(w) ==
    /\ frame[w].pc = "r_replaced"
    /\ IF OwnsLease(w)
       THEN /\ frame' = [frame EXCEPT ![w] =
                           [Goto(frame[w], "r_send_replan") EXCEPT !.run = ReplacedGraph(frame[w])]]
            /\ ledger' = ledger \cup {<<"CONFLICT", frame[w].task>>}
       ELSE Raise(w) /\ UNCHANGED ledger
    /\ UNCHANGED <<row, receipts, lease, External, faults>>

ReconcileSendReplan(w) == Ready(w, "r_send_replan") /\ Send(w, "REPLAN", "r_commit")

\* Its except clause: try to pause the project, then ask for compensation.
ReplanError(w) == Ready(w, "replan_error") /\ CallController(w, Paused, "replan_compensate")

Compensate(w, operation) ==
    /\ IF OwnsLease(w)
       THEN /\ frame' = [frame EXCEPT ![w].pc = "r_commit", ![w].renewed = FALSE,
                    ![w].run.state = "COMPENSATION_REQUIRED", ![w].run.retry = operation,
                    ![w].run.resume = frame[w].run.state]
            /\ ledger' = ledger \cup {<<"COMPENSATION", NoTask>>}
       ELSE Step(w, "release") /\ UNCHANGED ledger
    /\ UNCHANGED <<row, receipts, lease, External, faults>>

ReplanCompensate(w) == frame[w].pc = "replan_compensate" /\ Compensate(w, "replan-notify")

Examine(w) == \/ ReconcileClaim(w) \/ ReconcileRead(w) \/ ReconcileExamine(w)
              \/ ReconcileReassign(w) \/ ReconcileCancel(w) \/ ReconcileReplan(w)
              \/ ReconcileReplaced(w) \/ ReconcileSendReplan(w) \/ ReplanError(w)
              \/ ReplanCompensate(w)

-----------------------------------------------------------------------------
(* reconcile: the gates *)

\* No conflict: with the part of the plan completed, on to the approval or to the end.
ReconcileDecide(w) ==
    /\ frame[w].pc = "r_decide"
    /\ LET f == frame[w] IN
       Step(w, IF f.run.state = "PRE_APPROVAL" /\ AllStageTasksCompleted(f, Pre) THEN "r_advance"
               ELSE IF f.run.state = "POST_APPROVAL" /\ AllStageTasksCompleted(f, Post)
                    THEN IF f.run.final THEN "r_confirm" ELSE "r_finalize"
               ELSE "r_commit")
    /\ UNCHANGED <<Stored, lease, External, faults>>

\* advance_stage of the API: the next stage, with a pending approval at APPROVAL.
EgoAdvanced ==
    LET i == CHOOSE k \in DOMAIN EgoStages : EgoStages[k] = ego.stage
        next == EgoStages[i + 1]
    IN  [stage |-> next, approval |-> IF next = "APPROVAL" THEN "pending" ELSE "none"]

\* _advance_ego_to_approval: stage by stage from where the task is; each request has its own
\* idempotency key.  At APPROVAL the task must show a pending approval.
ReconcileAdvance(w) ==
    /\ Ready(w, "r_advance")
    /\ IF ego.stage \notin ToSet(EgoStages)
       THEN Raise(w) /\ UNCHANGED <<ego, faults>>
       ELSE IF ego.stage = "APPROVAL"
       THEN /\ IF ego.approval = "none" THEN Raise(w) ELSE Step(w, "r_pause")
            /\ UNCHANGED <<ego, faults>>
       ELSE \E outcome \in Outcomes \ {"malformed"} :
            /\ Spend(outcome)
            /\ ego' = IF outcome = "refused" THEN ego ELSE EgoAdvanced
            /\ IF outcome = "ok" /\ OwnsLease(w)
               THEN Step(w, "r_advance") ELSE Raise(w)
    /\ UNCHANGED <<Stored, lease, at, matrix>>

ReconcilePause(w) == Ready(w, "r_pause") /\ CallController(w, Paused, "r_send_approval")

\* WAITING_R2 is announced; if that fails the run asks for compensation.
ReconcileSendApproval(w) ==
    Ready(w, "r_send_approval") /\ Send(w, "APPROVAL_REQUIRED", "r_waiting")
ReconcileWaiting(w) ==
    /\ frame[w].pc = "r_waiting"
    /\ frame' = [frame EXCEPT ![w].run.state = "WAITING_R2", ![w].pc = "r_commit"]
    /\ UNCHANGED <<Stored, lease, External, faults>>
ApprovalError(w) == Ready(w, "approval_error") /\ Compensate(w, "approval-required-notify")

EgoFinalized == [ego EXCEPT !.stage = "COMPLETED"]

\* _build_finalization_evidence, and finalize_live which judges what it built: every task
\* has an accepted contract whose artifacts serve.  An evaluator's that binds no GPU
\* receipt or a review of other artifacts was accepted and is refused, now and at every
\* reconcile: a completed node keeps its result.
EvidenceComplete(run) ==
    \A t \in EffectiveTasks(run) : t \in run.accepted /\ at.nodes[t] # "unfit"

\* _finalize_ego: the evidence of the accepted tasks goes to EgoAgentOS while the task is
\* at EXECUTE; the receipt is archived, then the checkpoint records it.
ReconcileFinalize(w) ==
    /\ Ready(w, "r_finalize")
    /\ IF ego.stage # "EXECUTE" \/ ~EvidenceComplete(frame[w].run)
       THEN Raise(w) /\ UNCHANGED <<ego, faults>>
       ELSE \E outcome \in Outcomes \ {"malformed"} :
            /\ Spend(outcome)
            /\ ego' = IF outcome = "refused" THEN ego ELSE EgoFinalized
            /\ IF outcome = "ok" THEN Step(w, "r_finalized") ELSE Raise(w)
    /\ UNCHANGED <<Stored, lease, at, matrix>>

ReconcileFinalized(w) ==
    /\ frame[w].pc = "r_finalized"
    /\ \E v \in Variants :
        IF OwnsLease(w) /\ Archivable(Key("live-finalization"), v)
        THEN /\ receipts' = [receipts EXCEPT ![Key("live-finalization")] = v]
             /\ Step(w, "r_final")
        ELSE Raise(w) /\ UNCHANGED receipts
    /\ UNCHANGED <<row, ledger, lease, External, faults>>

ReconcileFinal(w) ==
    /\ frame[w].pc = "r_final"
    /\ Update(w, [frame[w].run EXCEPT !.final = TRUE], "r_complete")
    /\ UNCHANGED <<receipts, ledger, lease, External, faults>>

\* A finalization that the checkpoint already records is checked, not repeated.
ReconcileConfirm(w) ==
    /\ frame[w].pc = "r_confirm"
    /\ IF ego.stage = "COMPLETED" THEN Step(w, "r_complete") ELSE Raise(w)
    /\ UNCHANGED <<Stored, lease, External, faults>>

ReconcileComplete(w) ==
    /\ Ready(w, "r_complete")
    /\ CallController(w, ProjectCompleted, "r_completed")

ReconcileCompleted(w) ==
    /\ frame[w].pc = "r_completed"
    /\ \E v \in Variants :
        IF OwnsLease(w) /\ Archivable(Key("project-complete"), v)
        THEN /\ receipts' = [receipts EXCEPT ![Key("project-complete")] = v]
             /\ frame' = [frame EXCEPT ![w].run.state = "COMPLETED",
                                       ![w].pc = "r_send_terminal"]
        ELSE Raise(w) /\ UNCHANGED receipts
    /\ UNCHANGED <<row, ledger, lease, External, faults>>

ReconcileSendTerminal(w) == Ready(w, "r_send_terminal") /\ Send(w, "TERMINAL", "r_commit")
TerminalError(w) == Ready(w, "terminal_error") /\ Compensate(w, "terminal-notify")

\* The update_run at the end of _reconcile_claimed.
ReconcileCommit(w) ==
    /\ frame[w].pc = "r_commit"
    /\ Update(w, frame[w].run, "release")
    /\ UNCHANGED <<receipts, ledger, lease, External, faults>>

Gates(w) == \/ ReconcileDecide(w) \/ ReconcileAdvance(w) \/ ReconcilePause(w)
            \/ ReconcileSendApproval(w) \/ ReconcileWaiting(w) \/ ApprovalError(w)
            \/ ReconcileFinalize(w) \/ ReconcileFinalized(w) \/ ReconcileFinal(w)
            \/ ReconcileConfirm(w) \/ ReconcileComplete(w) \/ ReconcileCompleted(w)
            \/ ReconcileSendTerminal(w) \/ TerminalError(w) \/ ReconcileCommit(w)

-----------------------------------------------------------------------------
(* _recover_compensation *)

RecoveryKind(operation) ==
    CASE operation = "start-dispatch"           -> "TASK_REQUEST"
      [] operation = "replan-notify"            -> "REPLAN"
      [] operation = "approval-required-notify" -> "APPROVAL_REQUIRED"
      [] OTHER                                  -> "TERMINAL"

\* Operations that only an operator may repeat leave the run as it is.
RecoverBegin(w) ==
    /\ frame[w].pc = "c_recover"
    /\ Step(w, IF frame[w].run.retry \in {"start-dispatch", "replan-notify",
                                          "approval-required-notify", "terminal-notify"}
               THEN "c_send" ELSE "r_commit")
    /\ UNCHANGED <<Stored, lease, External, faults>>

RecoverSend(w) ==
    /\ Ready(w, "c_send")
    /\ LET retry == frame[w].run.retry IN
       Send(w, RecoveryKind(retry),
            IF retry \in {"start-dispatch", "replan-notify"} THEN "c_resume" ELSE "c_done")

RecoverResume(w) == Ready(w, "c_resume") /\ CallController(w, Resumed, "c_done")

RecoverDone(w) ==
    /\ frame[w].pc = "c_done"
    /\ LET r == frame[w].run
           next == CASE r.retry = "start-dispatch" -> "PRE_APPROVAL"
                     [] r.retry = "replan-notify" ->
                            IF r.resume \in {"PRE_APPROVAL", "POST_APPROVAL"} THEN r.resume
                            ELSE "PRE_APPROVAL"
                     [] r.retry = "approval-required-notify" -> "WAITING_R2"
                     [] OTHER -> "COMPLETED"
       IN frame' = [frame EXCEPT ![w].pc = "r_commit",
              ![w].run = [r EXCEPT !.state = next, !.retry = "none", !.resume = "ABSENT"]]
    /\ UNCHANGED <<Stored, lease, External, faults>>

Recover(w) == RecoverBegin(w) \/ RecoverSend(w) \/ RecoverResume(w) \/ RecoverDone(w)

-----------------------------------------------------------------------------
(* grant_r2 *)

GrantClaim(w) ==
    /\ frame[w].pc = "idle"
    /\ row.state \in {"WAITING_R2", "COMPENSATION_REQUIRED"}
    /\ Claim(w, "g_check")
    /\ UNCHANGED <<Stored, External, faults>>

\* A compensation that needs no token is for reconcile; a committed grant is not consumed
\* again; else the task must be at APPROVAL with a pending approval.
GrantCheck(w) ==
    /\ frame[w].pc = "g_check"
    /\ LET r == frame[w].run IN
       IF r.state = "COMPENSATION_REQUIRED"
          /\ r.retry \notin {"approval-required-notify", "resume-replan-notify"}
       THEN Raise(w)
       ELSE IF r.grant THEN Step(w, "g_resume")
       ELSE IF ego.stage = "APPROVAL" /\ ego.approval # "none" THEN Step(w, "g_consume")
       ELSE Raise(w)
    /\ UNCHANGED <<Stored, lease, External, faults>>

EgoGranted == [stage |-> "EXECUTE", approval |-> "consumed"]

\* The API spends the operator's token and moves the task to EXECUTE.
GrantConsume(w) ==
    /\ Ready(w, "g_consume")
    /\ IF ego.stage # "APPROVAL" \/ ego.approval # "approved"
       THEN Raise(w) /\ UNCHANGED <<ego, faults>>
       ELSE \E outcome \in Outcomes :
            /\ Spend(outcome)
            /\ ego' = IF outcome = "refused" THEN ego ELSE EgoGranted
            /\ CASE outcome = "ok"        -> Step(w, "g_committed")
                 [] outcome = "malformed" -> Step(w, "g_uncertain")
                 [] OTHER                 -> Raise(w)
    /\ UNCHANGED <<Stored, lease, at, matrix>>

\* "Persist immediately: the token is consumed".
GrantCommitted(w) ==
    /\ frame[w].pc \in {"g_committed", "g_uncertain"}
    /\ Update(w, [frame[w].run EXCEPT !.grant = TRUE],
              IF frame[w].pc = "g_committed" THEN "g_resume" ELSE "g_unverified")
    /\ UNCHANGED <<receipts, ledger, lease, External, faults>>

\* A success that does not show the task at EXECUTE is fenced for inspection.
GrantUnverified(w) ==
    /\ frame[w].pc = "g_unverified"
    /\ Update(w, [frame[w].run EXCEPT !.state = "COMPENSATION_REQUIRED",
                                      !.retry = "grant-response-uncertain"], "release")
    /\ UNCHANGED <<receipts, ledger, lease, External, faults>>

GrantResume(w) == Ready(w, "g_resume") /\ CallController(w, Resumed, "g_replan")

GrantReplan(w) ==
    /\ Ready(w, "g_replan")
    /\ CallController(w, Planned(ToSet(PostApprovalGraph(frame[w].run).graph)), "g_graph")

GrantGraph(w) ==
    /\ frame[w].pc = "g_graph"
    /\ frame' = [frame EXCEPT ![w].pc = "g_send",
           ![w].run = [PostApprovalGraph(@) EXCEPT !.state = "POST_APPROVAL"]]
    /\ UNCHANGED <<Stored, lease, External, faults>>

GrantSend(w) == Ready(w, "g_send") /\ Send(w, "APPROVAL_GRANTED", "g_finish")

GrantFinish(w) ==
    /\ frame[w].pc = "g_finish"
    /\ Update(w, [frame[w].run EXCEPT !.retry = "none", !.resume = "ABSENT"], "release")
    /\ UNCHANGED <<receipts, ledger, lease, External, faults>>

\* The except clause: try to pause the project, then ask for compensation.
GrantError(w) == Ready(w, "g_error") /\ CallController(w, Paused, "g_compensate")
GrantCompensate(w) ==
    /\ frame[w].pc = "g_compensate"
    /\ Update(w, [frame[w].run EXCEPT !.state = "COMPENSATION_REQUIRED",
                                      !.retry = "resume-replan-notify"], "release")
    /\ ledger' = IF MayUpdate(w) THEN ledger \cup {<<"COMPENSATION", NoTask>>} ELSE ledger
    /\ UNCHANGED <<receipts, lease, External, faults>>

Grant(w) == \/ GrantClaim(w) \/ GrantCheck(w) \/ GrantConsume(w) \/ GrantCommitted(w)
            \/ GrantUnverified(w) \/ GrantResume(w) \/ GrantReplan(w) \/ GrantGraph(w)
            \/ GrantSend(w) \/ GrantFinish(w) \/ GrantError(w) \/ GrantCompensate(w)

-----------------------------------------------------------------------------
(* Surroundings *)

\* A process dies; its lease stays until it runs out.
Crash(w) ==
    /\ frame[w].pc # "idle" /\ faults < MaxFaults
    /\ faults' = faults + 1
    /\ frame' = [frame EXCEPT ![w] = NoFrame]
    /\ lease' = IF lease.owner = w THEN [lease EXCEPT !.owner = "dead"] ELSE lease
    /\ UNCHANGED <<Stored, External>>

\* The lease of a dead owner runs out, or that of one which is too slow.
ExpireDead ==
    /\ lease.owner = "dead" /\ ~lease.expired
    /\ lease' = [lease EXCEPT !.expired = TRUE]
    /\ UNCHANGED <<Stored, frame, External, faults>>
ExpireLive ==
    /\ lease.owner \in Workers /\ ~lease.expired /\ faults < MaxFaults
    /\ lease' = [lease EXCEPT !.expired = TRUE]
    /\ faults' = faults + 1
    /\ UNCHANGED <<Stored, frame, External>>

\* The team: a task starts when the one before it is completed, and ends one way or another.
\* Nothing moves while the project is paused.
NodeSteps(s) == CASE s = "pending"     -> {"delegated"}
                  [] s = "delegated"   -> {"in-progress"}
                  [] s = "in-progress" -> {"good", "unfit", "bad", "revision", "blocked"}
                  [] OTHER             -> {}
Newest(t) == \A u \in Tasks : u[1] = t[1] /\ at.nodes[u] # "none" => u[2] <= t[2]
TeamProgress(t) ==
    /\ at.status = "active"
    /\ \A u \in Tasks : DependsOn(t[1], u[1]) /\ at.nodes[u] # "none" /\ Newest(u)
                            => Completed(at.nodes[u])
    /\ \E s \in NodeSteps(at.nodes[t]) : at' = [at EXCEPT !.nodes[t] = s]
    /\ UNCHANGED <<Stored, lease, frame, matrix, ego, faults>>

\* A human approves in EgoAgentOS; the operator holds the token.
Approve ==
    /\ ego.approval = "pending"
    /\ ego' = [ego EXCEPT !.approval = "approved"]
    /\ UNCHANGED <<Stored, lease, frame, at, matrix, faults>>

-----------------------------------------------------------------------------
Init ==
    /\ row = AbsentRun
    /\ lease = NoLease
    /\ frame = [w \in Workers |-> NoFrame]
    /\ receipts = [k \in ReceiptKeys |-> "none"]
    /\ ledger = {}
    /\ at = [status |-> "none", nodes |-> NoNodes]
    /\ matrix = {}
    /\ ego = [stage |-> "INTAKE", approval |-> "none"]
    /\ faults = 0

Operation(w) == Start(w) \/ Examine(w) \/ Gates(w) \/ Recover(w) \/ Grant(w)
                    \/ RenewOperation(w) \/ ReleaseOperation(w)

Next == \/ \E w \in Workers : Operation(w) \/ Crash(w)
        \/ ExpireDead \/ ExpireLive
        \/ \E t \in Tasks : TeamProgress(t)
        \/ Approve

Spec == Init /\ [][Next]_vars

\* A thread that is alive goes on; leases run out; clients and the recovery endpoint repeat
\* their requests until one is admitted; the team and the approver do their part.
Running(w) == frame[w].pc # "idle" /\ Operation(w)
Fairness ==
    /\ \A w \in Workers : WF_vars(Running(w))
    /\ SF_vars(\E w \in Workers : StartClaim(w))
    /\ SF_vars(\E w \in Workers : ReconcileClaim(w))
    /\ SF_vars(\E w \in Workers : GrantClaim(w))
    /\ WF_vars(ExpireDead)
    /\ \A t \in Tasks : WF_vars(TeamProgress(t))
    /\ WF_vars(Approve)

FairSpec == Spec /\ Fairness
-----------------------------------------------------------------------------
(* Properties *)

\* The row, the workers' copies of it, the archive and the project keep their types.
TypeOK ==
    /\ row \in Runs
    /\ lease \in [owner : Workers \cup {"nobody", "dead"}, expired : BOOLEAN]
    /\ \A w \in Workers : frame[w].run \in Runs /\ frame[w].wf \in [Tasks -> NodeStatus]
    /\ receipts \in [ReceiptKeys -> Variants \cup {"none"}]
    /\ at \in [status : {"none", "active", "paused", "completed"}, nodes : [Tasks -> NodeStatus]]
    /\ faults \in 0 .. MaxFaults

\* The Controller gets to know post-approval tasks only after EgoAgentOS has consumed the
\* approval (grant_r2 replans after consume_r2_grant), whatever fails, however operations
\* of several workers interleave and however late a stalled call arrives.
ExecutionGranted ==
    (\E t \in Tasks : t[1] \in ToSet(Post) /\ at.nodes[t] # "none")
        => ego.approval = "consumed"

\* A run is COMPLETED (service.py:2095) only with everything acceptance_input_index asks
\* for: the API's task finalized, the project completed, its three receipts archived, the
\* TERMINAL envelope delivered and every newest post-approval task accepted.
CompletionBacked ==
    row.state = "COMPLETED" =>
        /\ ego.stage = "COMPLETED" /\ at.status = "completed" /\ row.final /\ row.grant
        /\ \A k \in TerminalKeys : receipts[k] # "none"
        /\ "TERMINAL" \in matrix
        /\ \A t \in EffectiveTasks(row) : t[1] \in ToSet(Post) => t \in row.accepted

\* An accepted contract in the checkpoint (_first_conflict) was a valid result of the
\* Controller, with its artifact archived and its acceptance in the ledger.
AcceptanceRecorded ==
    \A t \in row.accepted :
        /\ at.nodes[t] \in {"good", "unfit"}
        /\ receipts[<<"artifact", t>>] # "none"
        /\ <<"ARTIFACT_ACCEPTED", t>> \in ledger

ResultsBacked == TypeOK /\ CompletionBacked /\ AcceptanceRecorded

\* Two Workers never work on the same logical task: an attempt that timed out is cancelled
\* at the Controller before its replacement is planned (_reassign), also when one of the
\* calls fails, loses its answer or is repeated after a crash.
OneActiveAttempt ==
    \A t, u \in Tasks : t # u /\ t[1] = u[1] =>
        ~(at.nodes[t] \in ACTIVE_NODE_STATUSES /\ at.nodes[u] \in ACTIVE_NODE_STATUSES)

\* What update_run has committed is never undone by a worker with an old copy of the row:
\* the project, the grant, the finalization and accepted contracts stay, a finished run
\* stays finished, and the graph only grows.
NoLostUpdate ==
    [][/\ row.committed => row'.committed
       /\ row.grant => row'.grant
       /\ row.final => row'.final
       /\ row.accepted \subseteq row'.accepted
       /\ row.state \in {"COMPLETED", "BLOCKED"} => row'.state = row.state
       /\ ToSet(row.graph) \subseteq ToSet(row'.graph)]_row

\* docs/security.md: once another process has taken over an expired lease, the stale process
\* cannot execute another external mutation.
StaleMakesNoCall ==
    [][\A w \in Workers :
          /\ External' # External
          /\ frame[w].renewed /\ ~frame'[w].renewed
          => lease.owner = w]_vars

\* docs/architecture.md: when a step after the grant fails, the run is COMPENSATION_REQUIRED
\* and the Controller project is fenced.
CompensationFenced ==
    row.state = "COMPENSATION_REQUIRED" /\ row.retry = "resume-replan-notify"
        => at.status = "paused"

\* An accepted result that finalization refuses: _first_conflict does not look at it again.
Unfinishable == \E t \in EffectiveTasks(row) :
                   at.nodes[t] = "unfit" /\ <<"ARTIFACT_ACCEPTED", t>> \in ledger


\* docs/agentteams-live-runbook.md: reassignment is bounded, so the tasks before the approval
\* are completed or the run is blocked in the end.
ReassignmentBounded == row.state = "PRE_APPROVAL" ~> row.state # "PRE_APPROVAL"

\* docs/agentteams-live-runbook.md: the compensation checkpoint recovers a dispatch that
\* failed, so the Controller gets the tasks of the graph.
DispatchRecovered ==
    row.state = "COMPENSATION_REQUIRED" /\ row.retry = "start-dispatch"
        ~> \A t \in ToSet(row.graph) : at.nodes[t] # "none"

\* docs/agentteams-live-runbook.md: a grant that the API committed before the bridge
\* recorded it is recovered.
GrantRecovered == ego.approval = "consumed" ~> row.grant

=============================================================================
