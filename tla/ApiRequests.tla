----------------------------- MODULE ApiRequests -----------------------------
(***************************************************************************)
(* The mutating HTTP routes on PostgreSQL (apps/api/main.py,               *)
(* apps/api/service.py, apps/api/postgres_store.py): idempotency keys, the *)
(* row and advisory locks in the order each handler takes them, the audit  *)
(* stream of a generation, and the answers the clients get or lose, for    *)
(* the demo task and the routes advance, approval decision and demo reset. *)
(*                                                                         *)
(* A step of a session is a statement that may wait for a lock, with what  *)
(* its handler does up to the next such statement.  Writes are private     *)
(* until the commit.  ResearchLifecycle has the policy in full; here a     *)
(* refusal that depends on data left out (the clock, a digest, operator    *)
(* authentication) is Fail.                                                *)
(***************************************************************************)
EXTENDS Integers, Sequences, FiniteSets, Functions

CONSTANTS
    Sessions,        \* request threads of the API processes
    Requests,        \* what clients send: [op, key, of, say]
    NoKey,           \* the key of a request without Idempotency-Key
    MaxSends,        \* bound on requests and retries
    MaxGenerations,  \* bound on resets
    MaxApprovals     \* bound on the approvals of a generation

Free == "free"    \* a lock nobody holds

Generations == 1..MaxGenerations
Scenarios == {"happy_path", "insufficient_evidence"}

FORWARD_PATH ==
    <<"INTAKE", "CONTEXT", "PLAN", "PLAN_REVIEW", "APPROVAL", "EXECUTE", "OBSERVE",
      "EVALUATE", "VERIFY", "DECIDE", "ARCHIVE", "MEMORY_SKILL", "COMPLETED">>
Stages == Range(FORWARD_PATH)
Position(stage) == CHOOSE i \in DOMAIN FORWARD_PATH : FORWARD_PATH[i] = stage
NextStage(stage) == FORWARD_PATH[Position(stage) + 1]

ALLOWED_TRANSITIONS ==
    [stage \in Stages |->
        (IF stage = "COMPLETED" THEN {} ELSE {NextStage(stage)})
        \cup (IF stage \in {"PLAN_REVIEW", "APPROVAL", "VERIFY"} THEN {"PLAN"} ELSE {})]

\* An approval is the n-th that its generation asked for.
Approvals == Generations \X (1..MaxApprovals)
NoApproval == <<0, 0>>

\* "of" is the approval a decision names, or the one whose token an advance presents;
\* "say" is the decision, the scenario of a reset, or the target of an advance, "" for
\* the next stage.
RequestOK(r) ==
    /\ r = [op |-> r.op, key |-> r.key, of |-> r.of, say |-> r.say]
    /\ \/ r.op = "advance" /\ r.of \in Approvals \cup {NoApproval} /\ r.say \in Stages \cup {""}
       \/ r.op = "decide" /\ r.of \in Approvals /\ r.say \in {"approved", "denied"}
       \/ r.op = "reset" /\ r.of = NoApproval /\ r.say \in Scenarios
ASSUME RequestsOK == \A r \in Requests : RequestOK(r)
ASSUME SessionsOK == IsFiniteSet(Sessions) /\ Free \notin Sessions
ASSUME Bounds == MaxSends \in Nat /\ MaxGenerations \in Nat \ {0} /\ MaxApprovals \in Nat

\* An idempotency row is found by method, path and key; the rest is the body.
Path(r) == <<r.op, IF r.op = "decide" THEN r.of ELSE NoApproval>>
Body(r) == <<IF r.op = "decide" THEN NoApproval ELSE r.of, r.say>>
Keyed(r) == r.key # NoKey
Row(r) == <<Path(r), r.key>>
Rows == {Row(r) : r \in {q \in Requests : Keyed(q)}}

VARIABLES
    task,        \* the committed task row
    approvals,   \* generation -> status of its approval rows, in the order of created_at
    events,      \* generation -> committed audit stream
    idempotency, \* committed idempotency rows: row -> [body, token]
    lock,        \* row or advisory lock -> the session that holds it
    session,     \* session -> the request it serves
    executed,    \* request -> commits of it: [ok, blocked]
    tokens,      \* approval -> answers received with its raw token
    sends        \* requests sent so far

vars == <<task, approvals, events, idempotency, lock, session, executed, tokens, sends>>
tables == <<task, approvals, events, idempotency>>
clients == <<tokens, sends>>

NoRow == [body |-> <<NoApproval, "">>, token |-> FALSE, present |-> FALSE]
Idle == [pc |-> "idle"]

TaskLock == <<"task", 0>>
ApprovalLock(a) == <<"approval", a>>
EventsLock(g) == <<"events", g>>
KeyLock(r) == <<"key", Row(r)>>
Locks == {TaskLock} \cup ({"approval"} \X Approvals) \cup ({"events"} \X Generations)
         \cup ({"key"} \X Rows)

ApprovalTypes == {"approval.requested", "approval.approved", "approval.denied",
                  "approval.token.consumed"}
GateTypes == {"evidence.gate.passed", "evidence.gate.failed"}

\* An audit event of a transaction that writes the row "t" and is about its approval "n".
\* "payload" is the version or the approval the event names; "previous" stands for the
\* hash of its predecessor, which is the one at that place of the stream.
Event(type, t, n, previous) ==
    [type |-> type,
     stage |-> IF type \in ApprovalTypes THEN "APPROVAL"
               ELSE IF type \in GateTypes THEN "VERIFY" ELSE t.stage,
     payload |-> IF type \in ApprovalTypes THEN n
                 ELSE IF type = "state.transitioned" THEN t.version ELSE 0,
     previous |-> previous]

\* append_event for each of a list of types.
Linked(stream, types, t, n) ==
    stream \o [i \in DOMAIN types |-> Event(types[i], t, n, Len(stream) + i - 1)]

\* The row and the events that reset_demo makes.
Seeded(g, scenario) == [generation |-> g, version |-> 1, stage |-> "INTAKE", scenario |-> scenario]
SeedTypes == <<"demo.reset", "research.goal.frozen">>

\* ensure_demo has run, nobody has called.
NoCalls ==
    /\ idempotency = [k \in Rows |-> NoRow]
    /\ lock = [l \in Locks |-> Free]
    /\ session = [s \in Sessions |-> Idle]
    /\ executed = [r \in Requests |-> [ok |-> 0, blocked |-> 0]]
    /\ tokens = [a \in Approvals |-> 0]
    /\ sends = 0

Init ==
    /\ task = Seeded(1, "happy_path")
    /\ approvals = [g \in Generations |-> <<>>]
    /\ events = [g \in Generations |->
                    IF g = 1 THEN Linked(<<>>, SeedTypes, task, 0) ELSE <<>>]
    /\ NoCalls

-----------------------------------------------------------------------------
(* Locks and transactions.                                                 *)

CanTake(s, l) == lock[l] \in {Free, s}

Take(s, l) == CanTake(s, l) /\ lock' = [lock EXCEPT ![l] = s]

\* The connection is closed: every lock of the transaction is released.
Released(s) == [l \in Locks |-> IF lock[l] = s THEN Free ELSE lock[l]]

ErrorAnswer == [code |-> "error", token |-> FALSE]

\* A rollback that forgets to close the connection.
LeakyEnd(s, answer) ==
    /\ session' = [session EXCEPT ![s] = [pc |-> "answer", request |-> session[s].request,
                                          answer |-> answer]]
    /\ lock' = IF answer = ErrorAnswer THEN lock ELSE Released(s)

\* transaction: commit or rollback, then the answer is on its way.
End(s, answer) ==
    /\ session' = [session EXCEPT ![s] = [pc |-> "answer", request |-> session[s].request,
                                          answer |-> answer]]
    /\ lock' = Released(s)

Rollback(s) == End(s, ErrorAnswer) /\ UNCHANGED <<tables, executed>>

Continue(s, work) == session' = [session EXCEPT ![s] = work]
Goto(s, pc) == Continue(s, [session[s] EXCEPT !.pc = pc])

Request(s) == session[s].request
At(s, pc) == session[s].pc = pc
InTransaction(s) == session[s].pc \notin {"idle", "answer"}

\* The first statement of a handler.
FirstStep(r) == IF r.op = "decide" THEN "get_approval" ELSE "get_task"

-----------------------------------------------------------------------------
(* The handlers.                                                           *)

InFlightResets == Cardinality({s \in Sessions : session[s].pc # "idle"
                                                /\ session[s].request.op = "reset"})

\* A client sends, or sends again.  It knows the approvals that exist and the
\* tokens it was answered.
Send(s, r) ==
    /\ At(s, "idle") /\ sends < MaxSends
    /\ r.op = "decide" => r.of[2] \in DOMAIN approvals[r.of[1]]
    /\ r.op = "advance" /\ r.of # NoApproval => tokens[r.of] > 0
    /\ r.op = "reset" => task.generation + InFlightResets < MaxGenerations
    /\ sends' = sends + 1
    /\ session' = [session EXCEPT ![s] =
           [pc |-> IF Keyed(r) THEN "lookup" ELSE FirstStep(r), request |-> r,
            task |-> task, approval |-> "none", number |-> 0, types |-> <<>>,
            answer |-> [code |-> "ok", token |-> FALSE]]]
    /\ UNCHANGED <<tables, lock, executed, tokens>>

\* What get_idempotent found: a replay, a conflict, or nothing.
Replay(s, row) == IF row.body = Body(Request(s)) THEN [code |-> "replay", token |-> row.token]
                  ELSE ErrorAnswer

\* The lookup without its advisory lock.
LookupUnlocked(s) ==
    /\ At(s, "lookup")
    /\ LET r == Request(s)
           row == idempotency[Row(r)]
       IN  IF row.present THEN End(s, Replay(s, row))
           ELSE Goto(s, FirstStep(r)) /\ UNCHANGED lock
    /\ UNCHANGED <<tables, executed, clients>>

\* _run_idempotent: get_idempotent under the lock of the key.
Lookup(s) ==
    /\ At(s, "lookup")
    /\ LET r == Request(s)
           row == idempotency[Row(r)]
       IN  /\ CanTake(s, KeyLock(r))
           /\ IF row.present THEN End(s, Replay(s, row))
              ELSE Goto(s, FirstStep(r)) /\ Take(s, KeyLock(r))
    /\ UNCHANGED <<tables, executed, clients>>

\* The status in the row of an approval.
Status(a) == approvals[a[1]][a[2]]

\* get_approval without FOR UPDATE.
GetApprovalUnlocked(s) ==
    /\ At(s, "get_approval")
    /\ Continue(s, [session[s] EXCEPT !.pc = "get_task", !.approval = Status(Request(s).of)])
    /\ UNCHANGED <<tables, lock, executed, clients>>

\* decide_approval: get_approval FOR UPDATE.
GetApproval(s) ==
    /\ At(s, "get_approval")
    /\ Take(s, ApprovalLock(Request(s).of))
    /\ Continue(s, [session[s] EXCEPT !.pc = "get_task", !.approval = Status(Request(s).of)])
    /\ UNCHANGED <<tables, executed, clients>>

Decided(r) == IF r.say = "approved" THEN "APPROVED" ELSE "DENIED"
DecisionEvent(r) == IF r.say = "approved" THEN "approval.approved" ELSE "approval.denied"

\* decide_approval reading the task without FOR UPDATE.
DecideUnlocked(s) ==
    LET r == Request(s)
    IN  IF task.generation # r.of[1] \/ session[s].approval # "PENDING" THEN Rollback(s)
        ELSE /\ Continue(s, [session[s] EXCEPT !.pc = "append_event", !.task = task,
                                 !.approval = Decided(r), !.number = r.of[2],
                                 !.types = <<DecisionEvent(r)>>])
             /\ UNCHANGED <<lock, tables, executed>>

\* decide_approval after get_task.
DecideWith(s) ==
    LET r == Request(s)
    IN  IF task.generation # r.of[1] \/ session[s].approval # "PENDING" THEN Rollback(s)
        ELSE /\ Continue(s, [session[s] EXCEPT !.pc = "append_event", !.task = task,
                                 !.approval = Decided(r), !.number = r.of[2],
                                 !.types = <<DecisionEvent(r)>>,
                                 !.answer = [code |-> "ok", token |-> r.say = "approved"]])
             /\ Take(s, TaskLock)
             /\ UNCHANGED <<tables, executed>>

\* The events of a transition of the demo task: what the _enter_* handler of the stage
\* appends, behind the consumption of a token or the gate where _transition has one.
TransitionTypes(target, scenario) ==
    CASE target \in {"CONTEXT", "PLAN", "EVALUATE", "VERIFY"} ->
             <<"evidence.recorded", "state.transitioned">>
      [] target = "PLAN_REVIEW" -> <<"plan.review.passed", "state.transitioned">>
      [] target = "APPROVAL" -> <<"approval.requested", "state.transitioned">>
      [] target = "EXECUTE" -> <<"approval.token.consumed", "evidence.recorded",
                                 "experiment.submitted", "state.transitioned">>
      [] target = "OBSERVE" ->     \* the log, and the trace unless evidence is to be missing
             IF scenario = "insufficient_evidence"
             THEN <<"evidence.recorded", "state.transitioned">>
             ELSE <<"evidence.recorded", "evidence.recorded", "state.transitioned">>
      [] target = "DECIDE" -> <<"evidence.gate.passed", "decision.committed", "state.transitioned">>
      [] target = "MEMORY_SKILL" ->
             <<"memory.candidate.proposed", "memory.candidate.proposed",
               "memory.validated", "memory.validated", "state.transitioned">>
      [] OTHER -> <<"state.transitioned">>

\* advance: the target it was given, or the next stage.
Destination(r) == IF r.say # "" THEN r.say
                  ELSE IF task.stage = "COMPLETED" THEN "COMPLETED" ELSE NextStage(task.stage)
Moved(target) == [task EXCEPT !.stage = target, !.version = @ + 1]
GateFails(target) == target = "DECIDE" /\ task.scenario = "insufficient_evidence"
Requested == Len(approvals[task.generation])

Refused(target) == \/ target \notin ALLOWED_TRANSITIONS[task.stage]
                   \/ target = "APPROVAL" /\ Requested = MaxApprovals

\* advance, _transition: refused, blocked by the gate, or going on.
AdvanceFrom(s) ==
    LET target == Destination(Request(s))
        w == session[s]
    IN  IF Refused(target) THEN Rollback(s)
        ELSE /\ Continue(s,
                  IF GateFails(target)
                  THEN [w EXCEPT !.pc = "append_event", !.task = [task EXCEPT !.version = @ + 1],
                                 !.types = <<"evidence.gate.failed">>,
                                 !.answer = [code |-> "blocked", token |-> FALSE]]
                  ELSE IF target = "EXECUTE"
                  THEN [w EXCEPT !.pc = "latest_approval", !.task = Moved(target)]
                  ELSE [w EXCEPT !.pc = "append_event", !.task = Moved(target),
                                 !.approval = IF target = "APPROVAL" THEN "PENDING" ELSE "none",
                                 !.number = IF target = "APPROVAL" THEN Requested + 1 ELSE 0,
                                 !.types = TransitionTypes(target, task.scenario)])
             /\ Take(s, TaskLock)
             /\ UNCHANGED <<tables, executed>>

\* reset_demo: upsert_seed_task waits for the row and overwrites it.
ResetTask(s) ==
    /\ Continue(s, [session[s] EXCEPT
           !.pc = "append_event", !.task = Seeded(task.generation + 1, Request(s).say),
           !.types = SeedTypes])
    /\ Take(s, TaskLock)
    /\ UNCHANGED <<tables, executed>>

\* get_task FOR UPDATE, or the upsert, and the handler up to its next lock.
GetTask(s) ==
    /\ At(s, "get_task") /\ CanTake(s, TaskLock)
    /\ CASE Request(s).op = "decide" -> DecideWith(s)
         [] Request(s).op = "advance" -> AdvanceFrom(s)
         [] Request(s).op = "reset" -> ResetTask(s)
    /\ UNCHANGED clients

\* The row latest_approval finds.
Latest(g) == <<g, Len(approvals[g])>>

\* validate_approval_token.
TokenValid(s) == LET latest == Latest(session[s].task.generation)
                 IN  Request(s).of = latest /\ Status(latest) = "APPROVED"

\* _transition to EXECUTE: latest_approval FOR UPDATE, the token is consumed.
ConsumeToken(s) ==
    LET w == session[s]
        latest == Latest(w.task.generation)
    IN  /\ At(s, "latest_approval")
        /\ latest[2] > 0 => CanTake(s, ApprovalLock(latest))
        /\ IF latest[2] > 0 /\ TokenValid(s)
           THEN /\ Continue(s, [w EXCEPT
                       !.pc = "append_event", !.approval = "CONSUMED", !.number = latest[2],
                       !.types = TransitionTypes("EXECUTE", w.task.scenario)])
                /\ Take(s, ApprovalLock(latest))
                /\ UNCHANGED <<tables, executed>>
           ELSE Rollback(s)
        /\ UNCHANGED clients

\* save_task: the row is still the one get_task read.
SaveTask(s) == Request(s).op = "advance" =>
                   /\ task.generation = session[s].task.generation
                   /\ task.version = session[s].task.version - 1

\* The first append_event takes the advisory lock of the stream and holds it until the
\* commit; save_task is among the appends.  A decision and a blocked advance answer
\* without task_view.
AppendEvent(s) ==
    LET w == session[s]
    IN  /\ At(s, "append_event") /\ CanTake(s, EventsLock(w.task.generation))
        /\ IF SaveTask(s)
           THEN /\ Take(s, EventsLock(w.task.generation))
                /\ Goto(s, IF w.request.op = "decide" \/ w.answer.code = "blocked"
                           THEN "commit" ELSE "task_view")
                /\ UNCHANGED <<tables, executed>>
           ELSE Rollback(s)
        /\ UNCHANGED clients

\* task_view: latest_approval FOR UPDATE of a committed row; a row the transaction
\* inserted is newer and its own already.
Viewed(s) == LET latest == Latest(session[s].task.generation)
             IN  IF latest[2] = 0 \/ session[s].number > latest[2] THEN NoApproval ELSE latest
TaskView(s) ==
    /\ At(s, "task_view")
    /\ IF Viewed(s) = NoApproval THEN UNCHANGED lock ELSE Take(s, ApprovalLock(Viewed(s)))
    /\ Goto(s, "commit")
    /\ UNCHANGED <<tables, executed, clients>>

\* _redact_approval_replay: the row never holds the raw token.
Cached(s) == FALSE

\* put_idempotent, in the same transaction; only an answer 200 is kept.
Recorded(s) ==
    LET r == Request(s)
    IN  IF Keyed(r) /\ session[s].answer.code = "ok" /\ ~idempotency[Row(r)].present
        THEN [idempotency EXCEPT ![Row(r)] = [body |-> Body(r), token |-> Cached(s),
                                              present |-> TRUE]]
        ELSE idempotency

\* save_approval: a new row or one that is there.
Saved(rows, n, status) == IF n \in DOMAIN rows THEN [rows EXCEPT ![n] = status]
                          ELSE Append(rows, status)

\* connection.commit: the rows, the events and the answer become visible at once.
Commit(s) ==
    LET w == session[s]
        g == w.task.generation
    IN  /\ At(s, "commit")
        /\ task' = IF w.request.op = "decide" THEN task ELSE w.task
        /\ approvals' = IF w.approval = "none" THEN approvals
                        ELSE [approvals EXCEPT ![g] = Saved(@, w.number, w.approval)]
        /\ events' = [events EXCEPT ![g] = Linked(@, w.types, w.task, w.number)]
        /\ idempotency' = Recorded(s)
        /\ executed' = [executed EXCEPT ![w.request][w.answer.code] = @ + 1]
        /\ End(s, w.answer)
        /\ UNCHANGED clients

\* The answer arrives, or is lost on the way.
Answer(s) ==
    /\ At(s, "answer")
    /\ session' = [session EXCEPT ![s] = Idle]
    /\ tokens' = IF session[s].answer.token THEN [tokens EXCEPT ![Request(s).of] = @ + 1]
                 ELSE tokens
    /\ UNCHANGED <<tables, lock, executed, sends>>

LoseAnswer(s) ==
    /\ At(s, "answer")
    /\ session' = [session EXCEPT ![s] = Idle]
    /\ UNCHANGED <<tables, lock, executed, clients>>

\* The process or the connection dies, or a check that is not modelled refuses.
Fail(s) == InTransaction(s) /\ Rollback(s) /\ UNCHANGED clients

\* The lock the next statement of a session asks for.
Wanted(s) ==
    CASE At(s, "lookup") -> KeyLock(Request(s))
      [] At(s, "get_approval") -> ApprovalLock(Request(s).of)
      [] At(s, "get_task") -> TaskLock
      [] At(s, "append_event") -> EventsLock(session[s].task.generation)
      [] At(s, "latest_approval") -> ApprovalLock(Latest(session[s].task.generation))
      [] At(s, "task_view") -> ApprovalLock(Viewed(s))
      [] OTHER -> <<"none", 0>>

WaitsFor(s) == IF Wanted(s) \in Locks /\ lock[Wanted(s)] \notin {Free, s} THEN lock[Wanted(s)]
               ELSE Free

Deadlocked(s) == \E cycle \in SUBSET Sessions :
                    s \in cycle /\ {WaitsFor(x) : x \in cycle} = cycle

\* PostgreSQL ends one transaction of a cycle; the API answers 500.
DeadlockAbort(s) == InTransaction(s) /\ Deadlocked(s) /\ Rollback(s) /\ UNCHANGED clients

Step(s) == \/ Lookup(s) \/ GetApproval(s) \/ GetTask(s) \/ ConsumeToken(s)
           \/ AppendEvent(s) \/ TaskView(s)

Next == \E s \in Sessions :
           \/ \E r \in Requests : Send(s, r)
           \/ Lookup(s) \/ GetApproval(s) \/ GetTask(s) \/ ConsumeToken(s)
           \/ AppendEvent(s) \/ TaskView(s) \/ Commit(s)
           \/ Answer(s) \/ LoseAnswer(s) \/ Fail(s) \/ DeadlockAbort(s)

Spec == Init /\ [][Next]_vars

\* A waiting lock request is granted in its turn (the lock queue), a deadlock is
\* broken after deadlock_timeout, a handler that holds its locks runs on.
Fairness == /\ \A s \in Sessions : /\ SF_vars(Step(s)) /\ WF_vars(Commit(s))
                                     /\ WF_vars(Answer(s) \/ LoseAnswer(s))
            /\ WF_vars(\E s \in Sessions : DeadlockAbort(s))

FairSpec == Spec /\ Fairness

-----------------------------------------------------------------------------
(* Properties.                                                             *)

\* The rows, locks and answers keep their types.
TypeOK ==
    /\ task \in [generation: Generations, version: Nat \ {0}, stage: Stages,
                 scenario: Scenarios]
    /\ \A g \in Generations :
          /\ approvals[g] \in Seq({"PENDING", "APPROVED", "DENIED", "CONSUMED"})
          /\ Len(approvals[g]) <= MaxApprovals
    /\ lock \in [Locks -> Sessions \cup {Free}]
    /\ \A s \in Sessions : ~InTransaction(s) => \A l \in Locks : lock[l] # s
    /\ \A a \in Approvals : tokens[a] \in Nat

\* A request under a key is carried out at most once however often it is sent,
\* and its answer is stored exactly when it was (main._run_idempotent): a crash,
\* a lost answer or a concurrent duplicate cannot separate the two.  The raw token
\* of an approval is answered at most once: a retried decision gets the redacted
\* replay (main._redact_approval_replay).
KeyedOnce ==
    /\ \A k \in Rows :
         LET same == {r \in Requests : Keyed(r) /\ Row(r) = k /\ executed[r].ok > 0}
         IN  /\ (same # {}) <=> idempotency[k].present
             /\ \A r \in same : executed[r].ok = 1 /\ idempotency[k].body = Body(r)
             /\ Cardinality(same) <= 1
    /\ \A a \in Approvals : tokens[a] <= 1

\* What must have been said since the transition before, and only then may be said.
Announcements(stage) ==
    CASE stage = "APPROVAL" -> {"approval.requested"}
      [] stage = "EXECUTE" -> {"approval.token.consumed", "experiment.submitted"}
      [] stage = "DECIDE" -> {"evidence.gate.passed", "decision.committed"}
      [] OTHER -> {}
Announcing == UNION {Announcements(stage) : stage \in {"APPROVAL", "EXECUTE", "DECIDE"}}

\* An auditor who reads a stream and nothing else: whether the next event follows from what
\* was read.  The chain is unbroken, an approval is decided once and only the newest is
\* spent, a transition is allowed, has a higher version and was announced.
Follows(audit, e) ==
    /\ e.previous = audit.read
    /\ e.type = "approval.requested" => e.payload = Len(audit.approvals) + 1
    /\ e.type \in {"approval.approved", "approval.denied"} =>
           e.payload \in DOMAIN audit.approvals /\ audit.approvals[e.payload] = "PENDING"
    /\ e.type = "approval.token.consumed" =>
           /\ e.payload = Len(audit.approvals) /\ e.payload > 0
           /\ audit.approvals[e.payload] = "APPROVED"
    /\ e.type \in Announcing => e.type \notin audit.announced
    /\ e.type = "state.transitioned" =>
           /\ e.stage \in ALLOWED_TRANSITIONS[audit.stage]
           /\ e.payload > audit.version
           /\ audit.announced = Announcements(e.stage)

Becomes == [t \in ApprovalTypes |->
               CASE t = "approval.requested" -> "PENDING"
                 [] t = "approval.approved" -> "APPROVED"
                 [] t = "approval.denied" -> "DENIED"
                 [] t = "approval.token.consumed" -> "CONSUMED"]

Noted(audit, e) ==
    IF e.type = "state.transitioned"
    THEN [audit EXCEPT !.read = @ + 1, !.stage = e.stage, !.version = e.payload, !.announced = {}]
    ELSE [audit EXCEPT
             !.read = @ + 1,
             !.announced = @ \cup ({e.type} \cap Announcing),
             !.approvals = IF e.type \in ApprovalTypes
                           THEN Saved(@, e.payload, Becomes[e.type]) ELSE @]

Turn(audit, e) == IF audit.explained /\ Follows(audit, e) THEN Noted(audit, e)
                  ELSE [audit EXCEPT !.explained = FALSE]

NewAudit == [read |-> 0, stage |-> "INTAKE", version |-> 1, approvals |-> <<>>,
             announced |-> {}, explained |-> TRUE]
Audit(stream) ==
    LET after[i \in 0..Len(stream)] ==
            IF i = 0 THEN NewAudit ELSE Turn(after[i - 1], stream[i])
    IN  after[Len(stream)]

\* What the approval rows and the task row say is what the committed audit stream tells to
\* a reader who has only the stream, for every generation, whatever requests interleave:
\* each event follows from those before it, EXECUTE is entered by the consumption of the
\* newest approval after it was approved, nothing is announced that did not come, and the
\* rows are what was read (service._transition, decide_approval, append_event).
AuditExplainsRows ==
    \A g \in Generations :
        LET audit == Audit(events[g])
        IN  /\ audit.explained /\ audit.announced = {}
            /\ audit.approvals = approvals[g]
            /\ g = task.generation => audit.stage = task.stage /\ audit.version <= task.version
            /\ g > task.generation => events[g] = <<>>

\* Every request is answered, or its answer is lost: handlers that take the task
\* row and the approval row in opposite orders do not wait for ever.
RequestsEnd == \A s \in Sessions : session[s].pc # "idle" ~> session[s].pc = "idle"

\* apps/api/README.md:126 "Reusing a key with a different body returns a
\* structured conflict": the commits under one key have one body.
ReusedKeyConflicts ==
    \A q, r \in Requests :
        Keyed(q) /\ Keyed(r) /\ Row(q) = Row(r)
        /\ executed[q].ok + executed[q].blocked > 0 /\ executed[r].ok + executed[r].blocked > 0
            => Body(q) = Body(r)
=============================================================================
