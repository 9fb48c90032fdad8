--------------------------- MODULE ApiStreamProofs ---------------------------
(***************************************************************************)
(* What an idempotency key, an audit stream and a followed stream promise, *)
(* for any number of request threads, requests, keys, generations and      *)
(* approvals: the mutating routes do what ApiRequests says of them, and    *)
(* what they commit reaches the browser that follows it.                   *)
(***************************************************************************)
EXTENDS ApiStream, FiniteSetTheorems, SequenceTheorems, WellFoundedInduction, TLAPS

Statuses == {"PENDING", "APPROVED", "DENIED", "CONSUMED"}
TaskRows == [generation: Generations, version: Nat \ {0}, stage: Stages, scenario: Scenarios]
Written == [generation: Nat, version: Nat \ {0}, stage: Stages, scenario: Scenarios]
PlainTypes == {"demo.reset", "research.goal.frozen", "evidence.recorded", "plan.review.passed",
               "evidence.gate.failed", "memory.candidate.proposed", "memory.validated"}
EventTypes == PlainTypes \cup ApprovalTypes \cup Announcing \cup {"state.transitioned"}
AuditEvents == [type: EventTypes, stage: Stages, payload: Nat, previous: Nat]
TypeLists == {types \in Seq(EventTypes) : Len(types) \in 0..5}
Phases == {"lookup", "get_approval", "get_task", "latest_approval", "append_event",
           "task_view", "commit"}
Calls == [pc: Phases, request: Requests, task: Written, approval: Statuses \cup {"none"},
          number: Nat, types: TypeLists, answer: [code: {"ok", "blocked"}, token: BOOLEAN]]
Answers == [pc: {"answer"}, request: Requests,
            answer: [code: {"ok", "blocked", "replay", "error"}, token: BOOLEAN]]
Bodies == {Body(r) : r \in Requests} \cup {NoRow.body}

Shapes ==
    /\ task \in TaskRows
    /\ approvals \in [Generations -> Seq(Statuses)]
    /\ events \in [Generations -> Seq(AuditEvents)]
    /\ idempotency \in [Rows -> [body: Bodies, token: {FALSE}, present: BOOLEAN]]
    /\ lock \in [Locks -> Sessions \cup {Free}]
    /\ session \in [Sessions -> {Idle} \cup Calls \cup Answers]
    /\ executed \in [Requests -> [ok: Nat, blocked: Nat]]
    /\ tokens \in [Approvals -> Nat]
    /\ sends \in 0..MaxSends

\* Without a transaction a session holds no lock.
LocksFreed == \A s \in Sessions : ~InTransaction(s) => \A l \in Locks : lock[l] # s

\* A keyed request has its key from the lookup to the end, and nobody has stored an
\* answer under it.
KeyHeld(s) ==
    Keyed(Request(s)) => /\ lock[KeyLock(Request(s))] = s
                         /\ ~idempotency[Row(Request(s))].present

OkAnswer == [code |-> "ok", token |-> FALSE]

\* The approval has a row.
Present(a) == a[2] \in DOMAIN approvals[a[1]]

\* What a handler has read before it locks the task row; a decision has the approval
\* row, and it is as it was read.
Unwritten(s) ==
    /\ session[s].types = <<>> /\ session[s].answer = OkAnswer /\ session[s].number = 0
    /\ session[s].approval = IF At(s, "get_task") /\ Request(s).op = "decide"
                             THEN Status(Request(s).of) ELSE "none"
    /\ At(s, "lookup") => Keyed(Request(s))
    /\ At(s, "get_approval") => Request(s).op = "decide"
    /\ Request(s).op = "decide" => Present(Request(s).of)
    /\ At(s, "get_task") /\ Request(s).op = "decide" => lock[ApprovalLock(Request(s).of)] = s

\* What a handler is going to commit, in terms of the rows as they are: it has the
\* lock of the task row.
Decides(s) ==
    LET w == session[s]
        r == Request(s)
    IN  /\ r.op = "decide" /\ w.pc \in {"append_event", "commit"}
        /\ r.of[1] = task.generation /\ Present(r.of) /\ Status(r.of) = "PENDING"
        /\ lock[ApprovalLock(r.of)] = s
        /\ w.task = task /\ w.approval = Decided(r) /\ w.number = r.of[2]
        /\ w.types = <<DecisionEvent(r)>>
        /\ w.answer = [code |-> "ok", token |-> r.say = "approved"]

Moves(s, target) ==
    /\ Request(s).op = "advance" /\ session[s].answer = OkAnswer
    /\ target \in ALLOWED_TRANSITIONS[task.stage] /\ session[s].task = Moved(target)

Advances(s) ==
    LET w == session[s]
        target == w.task.stage
    IN  /\ Moves(s, target) /\ w.pc \in {"append_event", "task_view", "commit"}
        /\ target # "EXECUTE" /\ (target = "APPROVAL" => Requested < MaxApprovals)
        /\ w.approval = IF target = "APPROVAL" THEN "PENDING" ELSE "none"
        /\ w.number = IF target = "APPROVAL" THEN Requested + 1 ELSE 0
        /\ w.types = TransitionTypes(target, task.scenario)

Awaits(s) ==
    LET w == session[s]
    IN  /\ Moves(s, "EXECUTE") /\ w.pc = "latest_approval"
        /\ w.approval = "none" /\ w.number = 0 /\ w.types = <<>>

Spends(s) ==
    LET w == session[s]
    IN  /\ Moves(s, "EXECUTE") /\ w.pc \in {"append_event", "task_view", "commit"}
        /\ Requested > 0 /\ Status(Latest(task.generation)) = "APPROVED"
        /\ lock[ApprovalLock(Latest(task.generation))] = s
        /\ w.approval = "CONSUMED" /\ w.number = Requested
        /\ w.types = TransitionTypes("EXECUTE", task.scenario)

Blocked(s) ==
    LET w == session[s]
    IN  /\ Request(s).op = "advance" /\ w.pc \in {"append_event", "commit"}
        /\ w.task = [task EXCEPT !.version = @ + 1]
        /\ w.answer = [code |-> "blocked", token |-> FALSE]
        /\ w.approval = "none" /\ w.number = 0 /\ w.types = <<"evidence.gate.failed">>

Resets(s) ==
    LET w == session[s]
    IN  /\ Request(s).op = "reset" /\ w.pc \in {"append_event", "task_view", "commit"}
        /\ w.task = Seeded(task.generation + 1, Request(s).say)
        /\ w.answer = OkAnswer /\ w.approval = "none" /\ w.number = 0 /\ w.types = SeedTypes

\* What is complete, and what waits for the approval row.
Writes(s) == Decides(s) \/ Advances(s) \/ Spends(s) \/ Blocked(s) \/ Resets(s)

Working(s) == lock[TaskLock] = s /\ (Writes(s) \/ Awaits(s))

Serves(s) ==
    /\ At(s, "lookup") \/ KeyHeld(s)
    /\ IF session[s].pc \in {"lookup", "get_approval", "get_task"} THEN Unwritten(s)
       ELSE Working(s)

AllServe == \A s \in Sessions : InTransaction(s) => Serves(s)

\* A keyed request that was carried out has its answer stored, and the other way round.
Stored ==
    /\ \A r \in Requests : Keyed(r) /\ executed[r].ok > 0 =>
          /\ executed[r].ok = 1
          /\ idempotency[Row(r)].present /\ idempotency[Row(r)].body = Body(r)
    /\ \A k \in Rows : idempotency[k].present =>
          \E r \in Requests : Keyed(r) /\ Row(r) = k /\ executed[r].ok > 0

\* The raw token of an approval is in one answer on its way, or was received, after the
\* approval left PENDING.
Carries(s, a) == At(s, "answer") /\ session[s].answer.token /\ Request(s).of = a
Settled(a) == Present(a) /\ Status(a) # "PENDING"

TokenOnce ==
    \A a \in Approvals :
        /\ tokens[a] <= 1
        /\ tokens[a] > 0 => Settled(a)
        /\ \A s \in Sessions : Carries(s, a) =>
              /\ Settled(a) /\ tokens[a] = 0
              /\ \A u \in Sessions : Carries(u, a) => u = s

CarriesDecision ==
    \A s \in Sessions : At(s, "answer") /\ session[s].answer.token => Request(s).op = "decide"

\* No generation asks for more approvals than the bound, a later one for none yet.
ApprovalsFit ==
    /\ \A g \in Generations : Len(approvals[g]) <= MaxApprovals
    /\ \A g \in Generations : g > task.generation => approvals[g] = <<>>

\* The auditor has read every event.
Audits == [read: Nat, stage: Stages, version: Nat, approvals: Seq(Statuses),
           announced: SUBSET Announcing, explained: BOOLEAN]
AllRead == \A g \in Generations :
              Audit(events[g]) \in Audits /\ Audit(events[g]).read = Len(events[g])

\* What the pending requests may still commit fits the bounds.
Pending == {s \in Sessions : InTransaction(s)}
PendingResets == {s \in Pending : Request(s).op = "reset"}

Fits ==
    /\ \A g \in Generations : Len(events[g]) + 5 * Cardinality(Pending) <= 2 + 5 * sends
    /\ task.generation + Cardinality(PendingResets) <= MaxGenerations

\* KeyedOnce needs that a key is held while a request under it is carried out, and
\* AuditExplainsRows that whoever writes has the task row, so that what it read holds.
RInv == /\ Shapes /\ LocksFreed /\ AllServe /\ Stored /\ TokenOnce /\ CarriesDecision
        /\ ApprovalsFit /\ AllRead /\ AuditExplainsRows /\ Fits

-----------------------------------------------------------------------------
(* Facts about stages, requests and locks.                                 *)

\* The stages and their places on the forward path.
LEMMA PathShape ==
    /\ DOMAIN FORWARD_PATH = 1..13
    /\ Stages = {FORWARD_PATH[i] : i \in 1..13}
    /\ \A i, j \in 1..13 : FORWARD_PATH[i] = FORWARD_PATH[j] => i = j
    /\ FORWARD_PATH[1] = "INTAKE" /\ FORWARD_PATH[3] = "PLAN"
    /\ FORWARD_PATH[5] = "APPROVAL" /\ FORWARD_PATH[6] = "EXECUTE"
    /\ FORWARD_PATH[9] = "VERIFY" /\ FORWARD_PATH[10] = "DECIDE"
    /\ FORWARD_PATH[13] = "COMPLETED"
<1>1. DOMAIN FORWARD_PATH = 1..13
  BY DEF FORWARD_PATH
<1>2. \A i \in 1..13 : i \in {1, 2, 3, 4, 5, 6, 7, 8, 9, 10, 11, 12, 13}
  OBVIOUS
<1>3. \A i, j \in 1..13 : FORWARD_PATH[i] = FORWARD_PATH[j] => i = j
  BY <1>2 DEF FORWARD_PATH
<1> QED BY <1>1, <1>3 DEF FORWARD_PATH, Stages, Range

\* A stage is where its position says.
LEMMA PositionOf == \A i \in 1..13 : Position(FORWARD_PATH[i]) = i
BY PathShape DEF Position

\* The stages named here are stages; one that is not the last has a next one, and every
\* transition leads to a stage.
LEMMA TransitionShape ==
    /\ {"INTAKE", "PLAN", "APPROVAL", "EXECUTE", "VERIFY", "DECIDE", "COMPLETED"} \subseteq Stages
    /\ \A stage \in Stages : ALLOWED_TRANSITIONS[stage] \subseteq Stages
<1>1. {"INTAKE", "PLAN", "APPROVAL", "EXECUTE", "VERIFY", "DECIDE", "COMPLETED"} \subseteq Stages
  BY PathShape
<1>2. ASSUME NEW stage \in Stages, stage # "COMPLETED" PROVE NextStage(stage) \in Stages
  <2>1. PICK i \in 1..13 : stage = FORWARD_PATH[i]
    BY PathShape
  <2>2. i # 13 /\ Position(stage) = i
    BY <1>2, <2>1, PathShape, PositionOf
  <2>3. i + 1 \in 1..13
    BY <2>2
  <2> QED BY <2>2, <2>3, PathShape DEF NextStage
<1> QED BY <1>1, <1>2 DEF ALLOWED_TRANSITIONS

\* A request is one of the three routes'.
LEMMA RequestShape ==
    ASSUME NEW r \in Requests
    PROVE  /\ r = [op |-> r.op, key |-> r.key, of |-> r.of, say |-> r.say]
           /\ r.op \in {"advance", "decide", "reset"}
           /\ r.op = "decide" => r.of \in Approvals /\ r.say \in {"approved", "denied"}
           /\ r.op = "reset" => r.say \in Scenarios /\ r.of = NoApproval
BY RequestsOK DEF RequestOK

\* A keyed request has a row; its row and its body tell it from every other.
LEMMA RowShape ==
    ASSUME NEW r \in Requests, Keyed(r)
    PROVE  /\ Row(r) \in Rows /\ Body(r) \in Bodies
           /\ \A q \in Requests : Keyed(q) /\ Row(q) = Row(r) /\ Body(q) = Body(r) => q = r
<1>1. ASSUME NEW q \in Requests, Keyed(q), Row(q) = Row(r), Body(q) = Body(r) PROVE q = r
  <2>1. Path(q) = Path(r) /\ q.key = r.key
    BY <1>1 DEF Row
  <2>2. q.op = r.op
    BY <2>1, RequestShape DEF Path
  <2>3. q.of = r.of /\ q.say = r.say
    BY <1>1, <2>1, <2>2 DEF Path, Body
  <2> QED BY <2>1, <2>2, <2>3, RequestShape
<1> QED BY <1>1 DEF Rows, Bodies

\* The locks are apart.
LEMMA LockShape ==
    /\ TaskLock \in Locks
    /\ \A a \in Approvals : ApprovalLock(a) \in Locks /\ ApprovalLock(a) # TaskLock
    /\ \A g \in Generations : EventsLock(g) \in Locks
    /\ \A r \in Requests : Keyed(r) => KeyLock(r) \in Locks
<1>1. \A r \in Requests : Keyed(r) => KeyLock(r) \in Locks
  BY RowShape DEF KeyLock, Locks
<1>2. /\ TaskLock \in Locks
      /\ \A a \in Approvals : ApprovalLock(a) \in Locks
      /\ \A g \in Generations : EventsLock(g) \in Locks
  BY DEF Locks, TaskLock, ApprovalLock, EventsLock
<1> QED BY <1>1, <1>2 DEF TaskLock, ApprovalLock

\* The newest approval of the current generation, if there is one, has a row and a lock.
LEMMA LatestShape ==
    ASSUME Shapes, ApprovalsFit
    PROVE  /\ Requested \in Nat /\ Requested <= MaxApprovals
           /\ DOMAIN approvals[task.generation] = 1..Requested
           /\ Requested > 0 => /\ Latest(task.generation) \in Approvals
                               /\ Present(Latest(task.generation))
                               /\ ApprovalLock(Latest(task.generation)) \in Locks
<1>1. task.generation \in Generations /\ approvals[task.generation] \in Seq(Statuses)
  BY DEF Shapes, TaskRows
<1>2. /\ Requested \in Nat /\ Requested <= MaxApprovals
      /\ DOMAIN approvals[task.generation] = 1..Requested
  BY <1>1, LenProperties DEF Requested, ApprovalsFit
<1>3. ASSUME Requested > 0
      PROVE Latest(task.generation) \in Approvals /\ Present(Latest(task.generation))
  <2>1. Latest(task.generation) = <<task.generation, Requested>>
    BY DEF Latest, Requested
  <2>2. Requested \in 1..MaxApprovals /\ Requested \in 1..Requested
    BY <1>2, <1>3, Bounds
  <2> QED BY <1>1, <1>2, <2>1, <2>2 DEF Approvals, Present
<1> QED BY <1>2, <1>3, LockShape

-----------------------------------------------------------------------------
(* Steps that write no row.                                                *)

\* What a session holds in a transaction, and when it answers.
LEMMA SessionShape ==
    ASSUME Shapes, NEW s \in Sessions
    PROVE  /\ InTransaction(s) <=> session[s] \in Calls
           /\ At(s, "answer") => session[s] \in Answers
           /\ ~At(s, "idle") => Request(s) \in Requests
           /\ InTransaction(s) => ~At(s, "idle") /\ session[s].pc \in Phases
BY DEF Shapes, InTransaction, At, Request, Calls, Answers, Idle, Phases

\* A session that goes on in its transaction leaves the others.
LEMMA SessionWritten ==
    ASSUME Shapes, NEW s \in Sessions, NEW w \in {Idle} \cup Calls \cup Answers,
           session' = [session EXCEPT ![s] = w]
    PROVE  /\ session' \in [Sessions -> {Idle} \cup Calls \cup Answers]
           /\ session'[s] = w
           /\ \A u \in Sessions \ {s} : session'[u] = session[u]
BY DEF Shapes

\* Others in a transaction keep what they rely on while rows stay and no lock of theirs
\* is taken.
LEMMA OthersServe ==
    ASSUME NEW u \in Sessions, Serves(u), session'[u] = session[u],
           \A l \in Locks : lock[l] = u => lock'[l] = u,
           InTransaction(u), Shapes, ApprovalsFit, UNCHANGED <<task, approvals, idempotency>>
    PROVE  Serves(u)'
<1>1. Request(u)' = Request(u) /\ \A pc : At(u, pc)' = At(u, pc)
  BY DEF Request, At
<1>2. Request(u) \in Requests
  BY SessionShape
<1>3. KeyHeld(u) => KeyHeld(u)'
  BY <1>1, <1>2, LockShape DEF KeyHeld
<1>4. Unwritten(u) => Unwritten(u)'
  <2> SUFFICES ASSUME Unwritten(u) PROVE Unwritten(u)'
    OBVIOUS
  <2>1. Request(u).op = "decide" => ApprovalLock(Request(u).of) \in Locks
    BY <1>2, RequestShape, LockShape
  <2> QED BY <1>1, <2>1 DEF Unwritten, Present, Status
<1>5. /\ \A target : Moves(u, target)' <=> Moves(u, target)
      /\ Requested' = Requested /\ Latest(task.generation)' = Latest(task.generation)
      /\ \A a : (Present(a)' <=> Present(a)) /\ Status(a)' = Status(a)
  BY <1>1 DEF Moves, Moved, Requested, Latest, Present, Status
<1>6. Working(u) => Working(u)'
  <2> SUFFICES ASSUME Working(u), ApprovalsFit PROVE Working(u)'
    OBVIOUS
  <2>1. lock'[TaskLock] = u
    BY LockShape DEF Working
  <2>2. Decides(u) => Decides(u)'
    <3>1. Decides(u) => ApprovalLock(Request(u).of) \in Locks
      BY <1>2, RequestShape, LockShape DEF Decides
    <3> QED BY <1>1, <1>5, <3>1 DEF Decides
  <2>3. Spends(u) => Spends(u)'
    BY <1>1, <1>5, LatestShape DEF Spends
  <2>4. Advances(u) => Advances(u)'
    BY <1>1, <1>5 DEF Advances
  <2>5. Awaits(u) => Awaits(u)'
    BY <1>1, <1>5 DEF Awaits
  <2>6. (Blocked(u) => Blocked(u)') /\ (Resets(u) => Resets(u)')
    BY <1>1 DEF Blocked, Resets
  <2> QED BY <2>1, <2>2, <2>3, <2>4, <2>5, <2>6 DEF Working, Writes
<1> QED BY <1>1, <1>3, <1>4, <1>6 DEF Serves

\* The invariants about rows say nothing of sessions and locks.
LEMMA RowsKept ==
    ASSUME UNCHANGED <<tables, executed>>
    PROVE  /\ Stored => Stored'
           /\ ApprovalsFit => ApprovalsFit'
           /\ AllRead => AllRead'
           /\ AuditExplainsRows => AuditExplainsRows'
           /\ \A a : Settled(a)' <=> Settled(a)
<1>1. Stored => Stored'
  BY DEF Stored, tables
<1>2. ApprovalsFit => ApprovalsFit'
  BY DEF ApprovalsFit, tables
<1>3. AllRead => AllRead'
  BY DEF AllRead, tables
<1>4. AuditExplainsRows => AuditExplainsRows'
  BY DEF AuditExplainsRows, tables
<1>5. \A a : Settled(a)' <=> Settled(a)
  BY DEF Settled, Present, Status, tables
<1> QED BY <1>1, <1>2, <1>3, <1>4, <1>5

\* The pending sessions are finitely many.
LEMMA PendingFinite ==
    /\ IsFiniteSet(Pending) /\ Cardinality(Pending) \in Nat
    /\ IsFiniteSet(PendingResets) /\ Cardinality(PendingResets) \in Nat
<1>1. Pending \subseteq Sessions /\ PendingResets \subseteq Sessions
  BY DEF Pending, PendingResets
<1>2. IsFiniteSet(Pending) /\ IsFiniteSet(PendingResets)
  BY <1>1, SessionsOK, FS_Subset
<1> QED BY <1>2, FS_CardinalityType

\* A session that goes on with its request stays pending.
LEMMA PendingKept ==
    ASSUME Shapes, NEW s \in Sessions, InTransaction(s), NEW w \in Calls,
           session' = [session EXCEPT ![s] = w], w.request = session[s].request
    PROVE  Pending' = Pending /\ PendingResets' = PendingResets
<1>1. /\ session'[s] = w /\ w.pc \in Phases
      /\ \A u \in Sessions \ {s} : session'[u] = session[u]
  BY SessionWritten DEF Calls
<1>2. \A u \in Sessions : InTransaction(u)' <=> InTransaction(u)
  BY <1>1 DEF InTransaction, Phases
<1>3. \A u \in Sessions : Request(u)' = Request(u)
  BY <1>1 DEF Request
<1>4. Pending' = Pending
  BY <1>2 DEF Pending
<1> QED BY <1>3, <1>4 DEF PendingResets, Pending

\* One that ends leaves them.
LEMMA PendingLeft ==
    ASSUME Shapes, NEW s \in Sessions, InTransaction(s), ~InTransaction(s)',
           \A u \in Sessions \ {s} : session'[u] = session[u]
    PROVE  /\ Pending' = Pending \ {s} /\ Cardinality(Pending') = Cardinality(Pending) - 1
           /\ PendingResets' = PendingResets \ {s}
           /\ Cardinality(PendingResets') =
                IF Request(s).op = "reset" THEN Cardinality(PendingResets) - 1
                ELSE Cardinality(PendingResets)
<1>1. \A u \in Sessions \ {s} : (InTransaction(u)' <=> InTransaction(u)) /\ Request(u)' = Request(u)
  BY DEF InTransaction, Request
<1>2. Pending' = Pending \ {s} /\ s \in Pending
  BY <1>1 DEF Pending
<1>3. PendingResets' = PendingResets \ {s} /\ (s \in PendingResets <=> Request(s).op = "reset")
  BY <1>1, <1>2 DEF PendingResets, Pending
<1>4. Cardinality(Pending \ {s}) = Cardinality(Pending) - 1
  BY <1>2, PendingFinite, FS_RemoveElement
<1>5. s \in PendingResets => Cardinality(PendingResets \ {s}) = Cardinality(PendingResets) - 1
  BY PendingFinite, FS_RemoveElement
<1>6. s \notin PendingResets => PendingResets \ {s} = PendingResets
  OBVIOUS
<1> QED BY <1>2, <1>3, <1>4, <1>5, <1>6

\* A step inside a transaction: a lock may be taken, the rows stay, and what the session
\* relies on from now on holds.
LEMMA PrivateInv ==
    ASSUME RInv, NEW s \in Sessions, InTransaction(s), UNCHANGED <<tables, executed, clients>>,
           NEW w \in Calls, session' = [session EXCEPT ![s] = w],
           w.request = session[s].request, lock' \in [Locks -> Sessions \cup {Free}],
           \A l \in Locks : lock'[l] # lock[l] => lock[l] = Free /\ lock'[l] = s,
           Serves(s)'
    PROVE  RInv'
<1>1. /\ session' \in [Sessions -> {Idle} \cup Calls \cup Answers] /\ session'[s] = w
      /\ \A u \in Sessions \ {s} : session'[u] = session[u]
  BY SessionWritten DEF RInv
<1>2. Shapes'
  BY <1>1 DEF RInv, Shapes, tables, clients
<1>3. w.pc \in Phases /\ InTransaction(s)'
  BY <1>1 DEF Calls, InTransaction, Phases
<1>4. LocksFreed'
  <2> SUFFICES ASSUME NEW u \in Sessions, ~InTransaction(u)', NEW l \in Locks PROVE lock'[l] # u
    BY DEF LocksFreed
  <2>1. u # s /\ ~InTransaction(u)
    BY <1>1, <1>3 DEF InTransaction
  <2> QED BY <2>1 DEF RInv, LocksFreed
<1>5. AllServe'
  <2> SUFFICES ASSUME NEW u \in Sessions, InTransaction(u)' PROVE Serves(u)'
    BY DEF AllServe
  <2>1. CASE u # s
    <3>1. session'[u] = session[u] /\ InTransaction(u)
      BY <1>1, <2>1 DEF InTransaction
    <3>2. \A l \in Locks : lock[l] = u => lock'[l] = u
      BY SessionsOK
    <3> QED BY <3>1, <3>2, OthersServe DEF RInv, AllServe, tables
  <2> QED BY <2>1
<1>6. Stored' /\ ApprovalsFit' /\ AllRead' /\ AuditExplainsRows'
  BY RowsKept DEF RInv
<1>7. \A u \in Sessions : /\ At(u, "answer")' <=> At(u, "answer")
                          /\ At(u, "answer") => session'[u] = session[u]
  BY <1>1, <1>3 DEF At, InTransaction, Phases
<1>8. TokenOnce' /\ CarriesDecision'
  <2>1. \A u \in Sessions, a \in Approvals : Carries(u, a)' <=> Carries(u, a)
    BY <1>7 DEF Carries, Request
  <2>2. TokenOnce'
    BY <2>1, RowsKept DEF RInv, TokenOnce, clients
  <2> QED BY <1>7, <2>2 DEF RInv, CarriesDecision, Request
<1>9. Fits'
  BY PendingKept DEF RInv, Fits, tables, clients
<1> QED BY <1>2, <1>4, <1>5, <1>6, <1>8, <1>9 DEF RInv

\* A transaction that ends gives up its locks and no others.
LEMMA EndWritten ==
    ASSUME Shapes, LocksFreed, NEW s \in Sessions, InTransaction(s),
           NEW answer \in [code: {"ok", "blocked", "replay", "error"}, token: BOOLEAN],
           End(s, answer)
    PROVE  /\ session' \in [Sessions -> {Idle} \cup Calls \cup Answers]
           /\ session'[s] = [pc |-> "answer", request |-> Request(s), answer |-> answer]
           /\ \A u \in Sessions \ {s} : session'[u] = session[u]
           /\ ~InTransaction(s)'
           /\ lock' \in [Locks -> Sessions \cup {Free}]
           /\ \A l \in Locks : lock'[l] # s /\ (lock[l] # s => lock'[l] = lock[l])
           /\ LocksFreed'
<1>1. Request(s) \in Requests
  BY SessionShape
<1>2. [pc |-> "answer", request |-> Request(s), answer |-> answer] \in Answers
  BY <1>1 DEF Answers
<1>3. /\ session' \in [Sessions -> {Idle} \cup Calls \cup Answers]
      /\ session'[s] = [pc |-> "answer", request |-> Request(s), answer |-> answer]
      /\ \A u \in Sessions \ {s} : session'[u] = session[u]
  BY <1>2, SessionWritten DEF End, Request
<1>4. ~InTransaction(s)'
  BY <1>3 DEF InTransaction
<1>5. /\ lock' \in [Locks -> Sessions \cup {Free}]
      /\ \A l \in Locks : lock'[l] # s /\ (lock[l] # s => lock'[l] = lock[l])
  BY SessionsOK DEF End, Released, Shapes
<1>6. LocksFreed'
  <2> SUFFICES ASSUME NEW u \in Sessions, ~InTransaction(u)', NEW l \in Locks PROVE lock'[l] # u
    BY DEF LocksFreed
  <2>1. u # s => ~InTransaction(u)
    BY <1>3 DEF InTransaction
  <2>2. u # s => lock[l] # u
    BY <2>1 DEF LocksFreed
  <2>3. lock'[l] \in {lock[l], Free}
    BY DEF End, Released
  <2> QED BY <1>5, <2>2, <2>3, SessionsOK
<1> QED BY <1>3, <1>4, <1>5, <1>6

\* A transaction that ends without a row leaves the rows and the other sessions as they are.
LEMMA AnswerInv ==
    ASSUME RInv, NEW s \in Sessions, InTransaction(s),
           NEW answer \in [code: {"replay", "error"}, token: {FALSE}], End(s, answer),
           UNCHANGED <<tables, executed, clients>>
    PROVE  RInv'
<1>1. /\ session' \in [Sessions -> {Idle} \cup Calls \cup Answers]
      /\ session'[s] = [pc |-> "answer", request |-> Request(s), answer |-> answer]
      /\ \A u \in Sessions \ {s} : session'[u] = session[u]
      /\ ~InTransaction(s)'
      /\ lock' \in [Locks -> Sessions \cup {Free}]
      /\ \A l \in Locks : lock'[l] # s /\ (lock[l] # s => lock'[l] = lock[l])
      /\ LocksFreed'
  BY EndWritten DEF RInv
<1>2. Shapes'
  BY <1>1 DEF RInv, Shapes, tables, clients
<1>3. AllServe'
  <2> SUFFICES ASSUME NEW u \in Sessions, InTransaction(u)' PROVE Serves(u)'
    BY DEF AllServe
  <2>1. u # s
    BY <1>1
  <2>2. InTransaction(u) /\ session'[u] = session[u]
    BY <1>1, <2>1 DEF InTransaction
  <2> QED BY <1>1, <2>1, <2>2, OthersServe DEF RInv, AllServe, tables
<1>4. Stored' /\ ApprovalsFit' /\ AllRead' /\ AuditExplainsRows'
  BY RowsKept DEF RInv
<1>5. ~At(s, "answer") /\ session'[s].answer.token = FALSE
  <2>1. answer.token = FALSE
    OBVIOUS
  <2>2. session'[s].answer = answer
    BY <1>1
  <2> QED BY <2>1, <2>2 DEF InTransaction, At
<1>6. \A u \in Sessions, a \in Approvals : Carries(u, a)' <=> Carries(u, a)
  <2>1. \A a : ~Carries(s, a)
    BY <1>5 DEF Carries
  <2>3. \A a : ~Carries(s, a)'
    BY <1>5 DEF Carries
  <2>4. \A u \in Sessions \ {s}, a \in Approvals : Carries(u, a)' <=> Carries(u, a)
    BY <1>1 DEF Carries, At, Request
  <2> QED BY <2>1, <2>3, <2>4
<1>7. TokenOnce'
  BY <1>6, RowsKept DEF RInv, TokenOnce, clients
<1>8. CarriesDecision'
  BY <1>1, <1>5 DEF RInv, CarriesDecision, At, Request
<1>9. Fits'
  <2>1. /\ Cardinality(Pending') = Cardinality(Pending) - 1
        /\ Cardinality(PendingResets') \in {Cardinality(PendingResets), Cardinality(PendingResets) - 1}
    BY <1>1, PendingLeft DEF RInv
  <2>2. Shapes
    BY DEF RInv
  <2>3. \A g \in Generations : Len(events[g]) \in Nat
    BY <2>2, LenProperties DEF Shapes
  <2>4. task.generation \in Nat /\ sends \in Nat /\ MaxGenerations \in Nat
    BY <2>2, Bounds DEF Shapes, TaskRows, Generations
  <2> QED BY <2>1, <2>3, <2>4, PendingFinite DEF RInv, Fits, tables, clients
<1> QED BY <1>1, <1>2, <1>3, <1>4, <1>7, <1>8, <1>9 DEF RInv

\* A rollback: a refusal, a lost connection, or the victim of a deadlock.
LEMMA RollbackInv ==
    ASSUME RInv, NEW s \in Sessions, InTransaction(s), Rollback(s), UNCHANGED clients
    PROVE  RInv'
BY AnswerInv DEF Rollback, ErrorAnswer

\* A lock that is taken was free or is the session's already.
LEMMA TakeShape ==
    ASSUME Shapes, NEW s \in Sessions, NEW l \in Locks, Take(s, l)
    PROVE  /\ lock' \in [Locks -> Sessions \cup {Free}] /\ lock'[l] = s
           /\ \A m \in Locks : lock'[m] # lock[m] => lock[m] = Free /\ lock'[m] = s
           /\ \A m \in Locks : lock[m] = s => lock'[m] = s
BY DEF Shapes, Take, CanTake

LEMMA GotoShape ==
    ASSUME Shapes, NEW s \in Sessions, InTransaction(s), NEW pc \in Phases, Goto(s, pc)
    PROVE  /\ session' = [session EXCEPT ![s] = [session[s] EXCEPT !.pc = pc]]
           /\ [session[s] EXCEPT !.pc = pc] \in Calls
           /\ session'[s] = [session[s] EXCEPT !.pc = pc]
           /\ session'[s].pc = pc /\ session'[s].request = session[s].request
           /\ session'[s].task = session[s].task /\ session'[s].approval = session[s].approval
           /\ session'[s].types = session[s].types /\ session'[s].answer = session[s].answer
           /\ session'[s].number = session[s].number
<1>1. session[s] \in Calls
  BY SessionShape
<1>2. [session[s] EXCEPT !.pc = pc] \in Calls
  BY <1>1 DEF Calls
<1>3. session' = [session EXCEPT ![s] = [session[s] EXCEPT !.pc = pc]]
  BY DEF Goto, Continue
<1>4. session'[s] = [session[s] EXCEPT !.pc = pc]
  BY <1>2, <1>3, SessionWritten
<1> QED BY <1>1, <1>2, <1>3, <1>4 DEF Calls

\* _run_idempotent: a stored answer is replayed, or the key is taken.
LEMMA LookupInv ==
    ASSUME RInv, NEW s \in Sessions, Lookup(s)
    PROVE  RInv'
<1> DEFINE r == Request(s)
           row == idempotency[Row(r)]
<1>1. InTransaction(s) /\ Shapes /\ r \in Requests /\ Serves(s)
  BY SessionShape DEF Lookup, At, InTransaction, RInv, AllServe
<1>2. Unwritten(s) /\ Keyed(r) /\ Row(r) \in Rows /\ KeyLock(r) \in Locks
  BY <1>1, RowShape, LockShape DEF Lookup, At, Serves, Unwritten
<1>3. UNCHANGED <<tables, executed, clients>>
  BY DEF Lookup
<1>4. CASE row.present
  <2>1. End(s, Replay(s, row))
    BY <1>4 DEF Lookup
  <2>2. row.token = FALSE
    BY <1>1, <1>2 DEF Shapes
  <2>3. Replay(s, row) \in [code: {"replay", "error"}, token: {FALSE}]
    BY <2>2 DEF Replay, ErrorAnswer
  <2> QED BY <1>1, <1>3, <2>1, <2>3, AnswerInv
<1>5. CASE ~row.present
  <2>1. Goto(s, FirstStep(r)) /\ Take(s, KeyLock(r))
    BY <1>5 DEF Lookup
  <2>2. FirstStep(r) \in Phases /\ FirstStep(r) \in {"get_approval", "get_task"}
    BY DEF FirstStep, Phases
  <2>3. FirstStep(r) = "get_approval" <=> r.op = "decide"
    BY DEF FirstStep
  <2>4. /\ session'[s].pc = FirstStep(r) /\ Request(s)' = r
        /\ session'[s].types = <<>> /\ session'[s].answer = OkAnswer
        /\ session'[s].approval = "none" /\ session'[s].number = 0
    BY <1>1, <1>2, <2>1, <2>2, GotoShape DEF Unwritten, Request, Lookup, At
  <2>5. lock'[KeyLock(r)] = s
    BY <1>1, <1>2, <2>1, TakeShape
  <2>6. KeyHeld(s)'
    BY <1>3, <1>5, <2>4, <2>5 DEF KeyHeld, tables
  <2>7. Unwritten(s)'
    <3>1. r.op = "decide" => Present(Request(s).of)'
      BY <1>2, <1>3, <2>4 DEF Unwritten, Present, tables
    <3> HIDE DEF r
    <3> QED BY <2>2, <2>3, <2>4, <3>1 DEF Unwritten, At
  <2>8. Serves(s)'
    BY <2>2, <2>4, <2>6, <2>7 DEF Serves
  <2> DEFINE w == [session[s] EXCEPT !.pc = FirstStep(r)]
  <2>9. w \in Calls /\ session' = [session EXCEPT ![s] = w] /\ w.request = session[s].request
    BY <1>1, <2>1, <2>2, GotoShape
  <2> HIDE DEF w
  <2> QED BY <1>1, <1>2, <1>3, <2>1, <2>8, <2>9, TakeShape, PrivateInv
<1> QED BY <1>4, <1>5

\* get_approval: the row that is read is locked.
LEMMA GetApprovalInv ==
    ASSUME RInv, NEW s \in Sessions, GetApproval(s)
    PROVE  RInv'
<1> DEFINE r == Request(s)
           w == [session[s] EXCEPT !.pc = "get_task", !.approval = Status(r.of)]
<1>1. InTransaction(s) /\ Shapes /\ r \in Requests /\ Serves(s) /\ session[s] \in Calls
  BY SessionShape DEF GetApproval, At, InTransaction, RInv, AllServe
<1>2. Unwritten(s) /\ KeyHeld(s) /\ r.op = "decide" /\ Present(r.of)
  BY <1>1 DEF GetApproval, At, Serves, Unwritten
<1>3. r.of \in Approvals /\ ApprovalLock(r.of) \in Locks /\ Status(r.of) \in Statuses
  <2>1. r.of \in Approvals /\ ApprovalLock(r.of) \in Locks
    BY <1>1, <1>2, RequestShape, LockShape
  <2>2. approvals[r.of[1]] \in Seq(Statuses)
    BY <1>1, <2>1 DEF Shapes, Approvals
  <2> QED BY <1>2, <2>1, <2>2, ElementOfSeq DEF Present, Status
<1>4. w \in Calls /\ w.request = r
  BY <1>1, <1>3 DEF Calls, Phases, Request
<1>5. session' = [session EXCEPT ![s] = w] /\ session'[s] = w
  BY <1>1, <1>4, SessionWritten DEF GetApproval, Continue
<1>6. /\ Take(s, ApprovalLock(r.of)) /\ UNCHANGED <<tables, executed, clients>>
  BY DEF GetApproval
<1>7. /\ Request(s)' = r /\ At(s, "get_task")' /\ session'[s].approval = Status(r.of)
      /\ session'[s].types = <<>> /\ session'[s].answer = OkAnswer /\ session'[s].number = 0
  <2>1. session[s].types = <<>> /\ session[s].answer = OkAnswer /\ session[s].number = 0
    BY <1>2 DEF Unwritten
  <2>2. /\ w.pc = "get_task" /\ w.approval = Status(r.of)
        /\ w.types = session[s].types /\ w.answer = session[s].answer
        /\ w.number = session[s].number
    BY <1>1 DEF Calls
  <2> HIDE DEF w
  <2> QED BY <1>4, <1>5, <2>1, <2>2 DEF Request, At
<1>8. KeyHeld(s)'
  <2>1. Keyed(r) => lock'[KeyLock(r)] = s
    BY <1>1, <1>2, <1>3, <1>6, TakeShape, LockShape DEF KeyHeld
  <2> QED BY <1>2, <1>6, <1>7, <2>1 DEF KeyHeld, tables
<1>9. Unwritten(s)'
  <2>1. lock'[ApprovalLock(r.of)] = s
    BY <1>1, <1>3, <1>6, TakeShape
  <2>2. Present(Request(s).of)' /\ Status(Request(s).of)' = Status(r.of)
    BY <1>2, <1>6, <1>7 DEF Present, Status, tables
  <2> HIDE DEF r, w
  <2> QED BY <1>2, <1>7, <2>1, <2>2 DEF Unwritten, At
<1>10. Serves(s)'
  BY <1>7, <1>8, <1>9 DEF Serves, At
<1> HIDE DEF w
<1> QED BY <1>1, <1>3, <1>4, <1>5, <1>6, <1>10, TakeShape, PrivateInv DEF Request

\* The types of events.
LEMMA EventTypeShape ==
    /\ Announcing = {"approval.requested", "approval.token.consumed", "experiment.submitted",
                     "evidence.gate.passed", "decision.committed"}
    /\ ApprovalTypes \subseteq EventTypes /\ Announcing \subseteq EventTypes
    /\ PlainTypes \subseteq EventTypes /\ "state.transitioned" \in EventTypes
BY DEF Announcing, Announcements, EventTypes

\* The lists of events that the handlers write.
LEMMA TypeListShape ==
    /\ <<>> \in TypeLists
    /\ \A a \in EventTypes : <<a>> \in TypeLists
    /\ \A a, b \in EventTypes : <<a, b>> \in TypeLists
    /\ \A a, b, c \in EventTypes : <<a, b, c>> \in TypeLists
    /\ \A a, b, c, d \in EventTypes : <<a, b, c, d>> \in TypeLists
    /\ \A a, b, c, d, e \in EventTypes : <<a, b, c, d, e>> \in TypeLists
BY DEF TypeLists

LEMMA TransitionTypeLists ==
    ASSUME NEW target, NEW scenario
    PROVE  TransitionTypes(target, scenario) \in TypeLists
BY EventTypeShape, TypeListShape DEF TransitionTypes, PlainTypes, ApprovalTypes

\* decide_approval: the approval that was read is of the current generation and pending.
LEMMA DecideWithInv ==
    ASSUME RInv, NEW s \in Sessions, At(s, "get_task"), Request(s).op = "decide", CanTake(s, TaskLock),
           DecideWith(s), UNCHANGED clients
    PROVE  RInv'
<1> DEFINE r == Request(s)
           w == [session[s] EXCEPT !.pc = "append_event", !.task = task,
                   !.approval = Decided(r), !.number = r.of[2], !.types = <<DecisionEvent(r)>>,
                   !.answer = [code |-> "ok", token |-> r.say = "approved"]]
<1>1. /\ InTransaction(s) /\ Shapes /\ r \in Requests /\ Serves(s) /\ session[s] \in Calls
      /\ Unwritten(s) /\ KeyHeld(s)
  BY SessionShape DEF At, InTransaction, RInv, AllServe, Serves
<1>2. CASE task.generation # r.of[1] \/ session[s].approval # "PENDING"
  BY <1>1, <1>2, RollbackInv DEF DecideWith
<1>3. CASE ~(task.generation # r.of[1] \/ session[s].approval # "PENDING")
  <2>1. /\ session' = [session EXCEPT ![s] = w] /\ Take(s, TaskLock)
        /\ UNCHANGED <<tables, executed>>
    BY <1>3 DEF DecideWith, Continue
  <2>2. /\ Present(r.of) /\ Status(r.of) = "PENDING" /\ r.of[1] = task.generation
        /\ r.of \in Approvals /\ r.of[2] \in Nat
    BY <1>1, <1>3, RequestShape DEF Unwritten, Approvals
  <2>3. Decided(r) \in Statuses /\ DecisionEvent(r) \in EventTypes
    BY DEF Decided, DecisionEvent, Statuses, EventTypes, ApprovalTypes
  <2>4. task \in Written /\ <<DecisionEvent(r)>> \in TypeLists
    BY <1>1, <2>3, TypeListShape DEF Shapes, TaskRows, Written, Generations
  <2>5. w \in Calls
    BY <1>1, <2>2, <2>3, <2>4 DEF Calls, Phases
  <2>6. /\ w.pc = "append_event" /\ w.request = r /\ w.task = task /\ w.approval = Decided(r)
        /\ w.number = r.of[2]
        /\ w.types = <<DecisionEvent(r)>> /\ w.answer = [code |-> "ok", token |-> r.say = "approved"]
    BY <1>1 DEF Calls, Request
  <2>7. session'[s] = w
    BY <1>1, <2>1, <2>5, SessionWritten
  <2> HIDE DEF w
  <2>8. Request(s)' = r
    BY <2>6, <2>7 DEF Request
  <2>9. lock'[TaskLock] = s /\ (Keyed(r) => lock'[KeyLock(r)] = s)
    BY <1>1, <2>1, TakeShape, LockShape DEF KeyHeld
  <2>10. KeyHeld(s)'
    BY <1>1, <2>1, <2>8, <2>9 DEF KeyHeld, tables
  <2>11. Decides(s)'
    <3>1. lock[ApprovalLock(r.of)] = s /\ ApprovalLock(r.of) \in Locks
      BY <1>1, RequestShape, LockShape DEF Unwritten
    <3>2. lock'[ApprovalLock(r.of)] = s
      BY <1>1, <2>1, <3>1, TakeShape, LockShape
    <3>3. Present(Request(s).of)' /\ Status(Request(s).of)' = Status(r.of)
      BY <2>1, <2>2, <2>8 DEF Present, Status, tables
    <3> QED BY <2>1, <2>2, <2>6, <2>7, <2>8, <3>2, <3>3 DEF Decides, tables
  <2>12. Serves(s)'
    BY <2>6, <2>7, <2>9, <2>10, <2>11 DEF Serves, Working, Writes
  <2> QED BY <1>1, <2>1, <2>5, <2>6, <2>12, LockShape, TakeShape, PrivateInv DEF Request
<1> QED BY <1>2, <1>3

\* The row of a transition is a row, one version and one stage further.
LEMMA MovedShape ==
    ASSUME task \in TaskRows, NEW target \in Stages
    PROVE  /\ Moved(target) \in Written
           /\ Moved(target).generation = task.generation
           /\ Moved(target).version = task.version + 1
           /\ Moved(target).stage = target /\ Moved(target).scenario = task.scenario
<1> DEFINE t == [task EXCEPT !.stage = target]
<1>1. /\ t \in TaskRows /\ t.stage = target /\ t.generation = task.generation
      /\ t.version = task.version /\ t.scenario = task.scenario
  BY DEF TaskRows
<1>2. Moved(target) = [t EXCEPT !.version = @ + 1]
  BY DEF Moved, TaskRows
<1> HIDE DEF t
<1> QED BY <1>1, <1>2 DEF TaskRows, Written, Generations

\* What the three outcomes of advance that go on have in common.
LEMMA AdvanceOn ==
    ASSUME RInv, NEW s \in Sessions, At(s, "get_task"), Request(s).op = "advance",
           NEW w \in Calls, session' = [session EXCEPT ![s] = w], w.request = Request(s),
           w.pc \in {"latest_approval", "append_event", "task_view", "commit"}, Take(s, TaskLock),
           UNCHANGED <<tables, executed, clients>>,
           Writes(s)' \/ Awaits(s)'
    PROVE  RInv'
<1>1. /\ InTransaction(s) /\ Shapes /\ Request(s) \in Requests /\ Serves(s) /\ KeyHeld(s)
  BY SessionShape DEF At, InTransaction, RInv, AllServe, Serves
<1>2. session'[s] = w
  BY <1>1, SessionWritten
<1>3. Request(s)' = Request(s)
  BY <1>2 DEF Request
<1>4. lock'[TaskLock] = s /\ (Keyed(Request(s)) => lock'[KeyLock(Request(s))] = s)
  BY <1>1, TakeShape, LockShape DEF KeyHeld
<1>5. KeyHeld(s)'
  BY <1>1, <1>3, <1>4 DEF KeyHeld, tables
<1>6. Serves(s)'
  BY <1>2, <1>4, <1>5 DEF Serves, Working
<1> QED BY <1>1, <1>6, LockShape, TakeShape, PrivateInv DEF Request

\* advance up to the lock it takes after the task row's.
LEMMA AdvanceFromInv ==
    ASSUME RInv, NEW s \in Sessions, At(s, "get_task"), Request(s).op = "advance",
           AdvanceFrom(s), UNCHANGED clients
    PROVE  RInv'
<1>1. /\ InTransaction(s) /\ Shapes /\ Request(s) \in Requests /\ session[s] \in Calls
      /\ Unwritten(s) /\ session[s].request = Request(s)
  BY SessionShape DEF At, InTransaction, RInv, AllServe, Serves, Request
<1>2. session[s].approval = "none" /\ session[s].types = <<>> /\ session[s].answer = OkAnswer
  BY <1>1 DEF Unwritten
<1>3. task \in TaskRows /\ session[s].number = 0
  BY <1>1 DEF Shapes, Unwritten
<1> DEFINE target == Destination(Request(s))
<1>4. CASE Refused(target)
  BY <1>1, <1>4, RollbackInv DEF AdvanceFrom
<1>5. ASSUME ~Refused(target) PROVE target \in ALLOWED_TRANSITIONS[task.stage] /\ target \in Stages
  BY <1>3, <1>5, TransitionShape DEF TaskRows, Refused
<1> HIDE DEF target
<1>6. CASE ~Refused(target) /\ GateFails(target)
  <2> DEFINE w == [session[s] EXCEPT !.pc = "append_event", !.task = [task EXCEPT !.version = @ + 1],
                     !.types = <<"evidence.gate.failed">>,
                     !.answer = [code |-> "blocked", token |-> FALSE]]
  <2>1. session' = [session EXCEPT ![s] = w] /\ Take(s, TaskLock) /\ UNCHANGED <<tables, executed>>
    BY <1>6 DEF AdvanceFrom, Continue, target
  <2>2. [task EXCEPT !.version = @ + 1] \in Written
    BY <1>3 DEF TaskRows, Written, Generations
  <2>3. <<"evidence.gate.failed">> \in TypeLists
    BY EventTypeShape, TypeListShape DEF PlainTypes
  <2>4. w \in Calls
    BY <1>1, <2>2, <2>3 DEF Calls, Phases
  <2>5. /\ w.pc = "append_event" /\ w.request = Request(s) /\ w.task = [task EXCEPT !.version = @ + 1]
        /\ w.answer = [code |-> "blocked", token |-> FALSE] /\ w.approval = "none" /\ w.number = 0
        /\ w.types = <<"evidence.gate.failed">>
    BY <1>1, <1>2, <1>3 DEF Calls
  <2>6. session'[s] = w
    BY <1>1, <2>1, <2>4, SessionWritten
  <2> HIDE DEF w
  <2>7. Blocked(s)'
    BY <2>1, <2>5, <2>6 DEF Blocked, Request, tables
  <2> QED BY <2>1, <2>4, <2>5, <2>7, AdvanceOn DEF Writes
<1>7. CASE ~Refused(target) /\ ~GateFails(target) /\ target = "EXECUTE"
  <2> DEFINE w == [session[s] EXCEPT !.pc = "latest_approval", !.task = Moved("EXECUTE")]
  <2>1. session' = [session EXCEPT ![s] = w] /\ Take(s, TaskLock) /\ UNCHANGED <<tables, executed>>
    BY <1>7 DEF AdvanceFrom, Continue, target
  <2>2. Moved("EXECUTE") \in Written
    BY <1>3, MovedShape, TransitionShape
  <2>3. w \in Calls
    BY <1>1, <2>2 DEF Calls, Phases
  <2>4. /\ w.pc = "latest_approval" /\ w.request = Request(s) /\ w.task = Moved("EXECUTE")
        /\ w.answer = OkAnswer /\ w.approval = "none" /\ w.number = 0 /\ w.types = <<>>
    BY <1>1, <1>2, <1>3 DEF Calls
  <2>5. session'[s] = w
    BY <1>1, <2>1, <2>3, SessionWritten
  <2> HIDE DEF w
  <2>6. Moved("EXECUTE")' = Moved("EXECUTE") /\ task' = task
    BY <2>1 DEF Moved, tables
  <2>7. Awaits(s)'
    BY <1>5, <1>7, <2>4, <2>5, <2>6 DEF Awaits, Moves, Request
  <2> QED BY <2>1, <2>3, <2>4, <2>7, AdvanceOn
<1>8. CASE ~Refused(target) /\ ~GateFails(target) /\ target # "EXECUTE"
  <2> DEFINE approval == IF target = "APPROVAL" THEN "PENDING" ELSE "none"
             number == IF target = "APPROVAL" THEN Requested + 1 ELSE 0
             types == TransitionTypes(target, task.scenario)
             w == [session[s] EXCEPT !.pc = "append_event", !.task = Moved(target),
                     !.approval = approval, !.number = number, !.types = types]
  <2>1. session' = [session EXCEPT ![s] = w] /\ Take(s, TaskLock) /\ UNCHANGED <<tables, executed>>
    BY <1>8 DEF AdvanceFrom, Continue, target
  <2>2. /\ Moved(target) \in Written /\ Moved(target).stage = target
        /\ Requested \in Nat /\ Requested <= MaxApprovals
    BY <1>1, <1>3, <1>5, <1>8, MovedShape, LatestShape DEF RInv
  <2>3. /\ approval \in Statuses \cup {"none"} /\ number \in Nat /\ types \in TypeLists
        /\ target = "APPROVAL" => Requested < MaxApprovals
    BY <1>8, <2>2, TransitionTypeLists, Bounds DEF Statuses, Refused
  <2> HIDE DEF approval, types, number
  <2>4. w \in Calls
    BY <1>1, <2>2, <2>3 DEF Calls, Phases
  <2>5. /\ w.pc = "append_event" /\ w.request = Request(s) /\ w.task = Moved(target)
        /\ w.answer = OkAnswer /\ w.approval = approval /\ w.number = number /\ w.types = types
    BY <1>1, <1>2 DEF Calls
  <2>6. session'[s] = w
    BY <1>1, <2>1, <2>4, SessionWritten
  <2> HIDE DEF w
  <2>7. Moved(target)' = [task EXCEPT !.stage = target', !.version = @ + 1] /\ Requested' = Requested
        /\ task' = task
    BY <2>1 DEF Moved, Requested, tables
  <2>8. session'[s].task.stage = target /\ session'[s].task = Moved(target)
    BY <2>2, <2>5, <2>6
  <2>9. Advances(s)'
    BY <1>5, <1>8, <2>3, <2>5, <2>6, <2>7, <2>8
       DEF Advances, Moves, Moved, Request, approval, types, number
  <2> QED BY <2>1, <2>4, <2>5, <2>9, AdvanceOn DEF Writes
<1> QED BY <1>4, <1>6, <1>7, <1>8

\* reset_demo: the upsert waits for the row and overwrites it.
LEMMA ResetTaskInv ==
    ASSUME RInv, NEW s \in Sessions, At(s, "get_task"), Request(s).op = "reset",
           ResetTask(s), UNCHANGED clients
    PROVE  RInv'
<1> DEFINE w == [session[s] EXCEPT !.pc = "append_event",
                   !.task = Seeded(task.generation + 1, Request(s).say), !.types = SeedTypes]
<1>1. /\ InTransaction(s) /\ Shapes /\ Request(s) \in Requests /\ session[s] \in Calls
      /\ Unwritten(s) /\ KeyHeld(s) /\ session[s].request = Request(s)
  BY SessionShape DEF At, InTransaction, RInv, AllServe, Serves, Request
<1>2. session[s].approval = "none" /\ session[s].answer = OkAnswer /\ session[s].number = 0
  BY <1>1 DEF Unwritten
<1>3. session' = [session EXCEPT ![s] = w] /\ Take(s, TaskLock) /\ UNCHANGED <<tables, executed>>
  BY DEF ResetTask, Continue
<1>4. Seeded(task.generation + 1, Request(s).say) \in Written /\ SeedTypes \in TypeLists
  <2>1. Request(s).say \in Scenarios
    BY <1>1, RequestShape
  <2>2. task.generation + 1 \in Nat
    BY <1>1 DEF Shapes, TaskRows, Generations
  <2>3. SeedTypes \in TypeLists
    BY EventTypeShape, TypeListShape DEF SeedTypes, PlainTypes
  <2> QED BY <2>1, <2>2, <2>3, TransitionShape DEF Written, Seeded
<1>5. w \in Calls
  BY <1>1, <1>4 DEF Calls, Phases
<1>6. /\ w.pc = "append_event" /\ w.request = Request(s)
      /\ w.task = Seeded(task.generation + 1, Request(s).say)
      /\ w.answer = OkAnswer /\ w.approval = "none" /\ w.number = 0 /\ w.types = SeedTypes
  BY <1>1, <1>2 DEF Calls
<1>7. session'[s] = w
  BY <1>1, <1>3, <1>5, SessionWritten
<1> HIDE DEF w
<1>8. Request(s)' = Request(s)
  BY <1>6, <1>7 DEF Request
<1>9. Resets(s)'
  BY <1>3, <1>6, <1>7, <1>8 DEF Resets, tables
<1>10. lock'[TaskLock] = s /\ (Keyed(Request(s)) => lock'[KeyLock(Request(s))] = s)
  BY <1>1, <1>3, TakeShape, LockShape DEF KeyHeld
<1>11. KeyHeld(s)'
  BY <1>1, <1>3, <1>8, <1>10 DEF KeyHeld, tables
<1>12. Serves(s)'
  BY <1>6, <1>7, <1>9, <1>10, <1>11 DEF Serves, Working, Writes
<1> QED BY <1>1, <1>3, <1>5, <1>6, <1>12, LockShape, TakeShape, PrivateInv

\* get_task FOR UPDATE, or the upsert, and the handler up to its next lock.
LEMMA GetTaskInv ==
    ASSUME RInv, NEW s \in Sessions, GetTask(s)
    PROVE  RInv'
<1>1. At(s, "get_task") /\ CanTake(s, TaskLock) /\ UNCHANGED clients
  BY DEF GetTask
<1>2. Request(s).op \in {"advance", "decide", "reset"}
  BY <1>1, SessionShape, RequestShape DEF RInv, At
<1>3. CASE Request(s).op = "decide"
  BY <1>1, <1>3, DecideWithInv DEF GetTask
<1>4. CASE Request(s).op = "advance"
  BY <1>1, <1>4, AdvanceFromInv DEF GetTask
<1>5. CASE Request(s).op = "reset"
  BY <1>1, <1>5, ResetTaskInv DEF GetTask
<1> QED BY <1>2, <1>3, <1>4, <1>5

\* A handler that has the task row goes on to its next statement.
LEMMA WorkOn ==
    ASSUME RInv, NEW s \in Sessions, InTransaction(s), Serves(s), KeyHeld(s), lock[TaskLock] = s,
           NEW w \in Calls, session' = [session EXCEPT ![s] = w], w.request = Request(s),
           w.pc \in {"append_event", "task_view", "commit"},
           UNCHANGED <<tables, executed, clients>>,
           lock' = lock \/ \E l \in Locks : Take(s, l),
           Writes(s)'
    PROVE  RInv'
<1>1. Shapes /\ Request(s) \in Requests
  BY SessionShape DEF RInv
<1>2. session'[s] = w /\ Request(s)' = Request(s)
  BY <1>1, SessionWritten DEF Request
<1>3. /\ lock' \in [Locks -> Sessions \cup {Free}]
      /\ \A m \in Locks : lock'[m] # lock[m] => lock[m] = Free /\ lock'[m] = s
      /\ \A m \in Locks : lock[m] = s => lock'[m] = s
  <2>1. CASE lock' = lock
    BY <1>1, <2>1 DEF Shapes
  <2>2. CASE \E l \in Locks : Take(s, l)
    BY <1>1, <2>2, TakeShape
  <2> QED BY <2>1, <2>2
<1>4. KeyHeld(s)'
  BY <1>1, <1>2, <1>3, LockShape DEF KeyHeld, tables
<1>5. lock'[TaskLock] = s
  BY <1>3, LockShape
<1>6. Serves(s)'
  BY <1>2, <1>4, <1>5 DEF Serves, Working
<1> QED BY <1>1, <1>3, <1>6, PrivateInv DEF Request

\* What a session at its later statements relies on.
LEMMA WorkingShape ==
    ASSUME RInv, NEW s \in Sessions,
           session[s].pc \in {"latest_approval", "append_event", "task_view", "commit"}
    PROVE  /\ InTransaction(s) /\ Serves(s) /\ KeyHeld(s) /\ Working(s) /\ lock[TaskLock] = s
           /\ Shapes /\ session[s] \in Calls /\ session[s].request = Request(s)
           /\ Request(s) \in Requests
BY SessionShape DEF At, InTransaction, RInv, AllServe, Serves, Request, Working

\* _transition from APPROVAL: the token is checked under the approval's lock.
LEMMA ConsumeTokenInv ==
    ASSUME RInv, NEW s \in Sessions, ConsumeToken(s)
    PROVE  RInv'
<1> DEFINE latest == Latest(task.generation)
           w == [session[s] EXCEPT !.pc = "append_event", !.approval = "CONSUMED",
                   !.number = Requested, !.types = TransitionTypes("EXECUTE", task.scenario)]
<1>1. /\ InTransaction(s) /\ Serves(s) /\ KeyHeld(s) /\ Working(s) /\ lock[TaskLock] = s
      /\ Shapes /\ session[s] \in Calls /\ session[s].request = Request(s)
  BY WorkingShape DEF ConsumeToken, At
<1>2. Awaits(s)
  BY <1>1 DEF ConsumeToken, At, Working, Writes, Decides, Advances, Spends, Blocked, Resets
<1>3. /\ session[s].task.generation = task.generation
      /\ session[s].task.scenario = task.scenario
      /\ Latest(task.generation)[2] = Requested
  BY <1>1, <1>2, MovedShape, TransitionShape DEF Shapes, Awaits, Moves, Latest, Requested
<1>4. CASE ~(Requested > 0 /\ TokenValid(s))
  BY <1>1, <1>3, <1>4, RollbackInv DEF ConsumeToken
<1>5. CASE Requested > 0 /\ TokenValid(s)
  <2>1. /\ session' = [session EXCEPT ![s] = w] /\ Take(s, ApprovalLock(latest))
        /\ UNCHANGED <<tables, executed, clients>>
    BY <1>3, <1>5 DEF ConsumeToken, Continue
  <2>2. Status(latest) = "APPROVED"
    BY <1>3, <1>5 DEF TokenValid
  <2>3. Requested \in Nat /\ ApprovalLock(latest) \in Locks
    BY <1>1, <1>5, LatestShape DEF RInv
  <2>4. w \in Calls
    BY <1>1, <2>3, TransitionTypeLists DEF Calls, Phases, Statuses
  <2>5. /\ w.pc = "append_event" /\ w.request = Request(s) /\ w.task = session[s].task
        /\ w.answer = session[s].answer /\ w.approval = "CONSUMED" /\ w.number = Requested
        /\ w.types = TransitionTypes("EXECUTE", task.scenario)
    BY <1>1 DEF Calls
  <2>6. session'[s] = w
    BY <1>1, <2>1, <2>4, SessionWritten
  <2> HIDE DEF w
  <2>7. /\ task' = task /\ Requested' = Requested
        /\ Latest(task.generation)' = latest /\ Status(latest)' = Status(latest)
    BY <2>1 DEF Latest, Status, Requested, tables
  <2>8. lock'[ApprovalLock(latest)] = s
    BY <1>1, <2>1, <2>3, TakeShape
  <2>9. Spends(s)'
    BY <1>2, <1>5, <2>2, <2>5, <2>6, <2>7, <2>8 DEF Awaits, Spends, Moves, Moved, Request
  <2> HIDE DEF latest
  <2>10. \E l \in Locks : Take(s, l)
    BY <2>1, <2>3
  <2> QED BY <1>1, <2>1, <2>4, <2>5, <2>9, <2>10, WorkOn DEF Writes
<1> QED BY <1>4, <1>5

\* The row that is going to be written is of the current generation, or of the next one,
\* for which there is room.
LEMMA WrittenGeneration ==
    ASSUME RInv, NEW s \in Sessions, Working(s), InTransaction(s)
    PROVE  /\ session[s].task.generation \in Generations
           /\ session[s].task.generation = task.generation \/ Resets(s)
           /\ Resets(s) => session[s].task.generation = task.generation + 1
<1>1. task \in TaskRows /\ task.generation \in Nat /\ task.generation \in Generations
  BY DEF RInv, Shapes, TaskRows, Generations
<1>2. CASE Resets(s)
  <2>1. s \in PendingResets
    BY <1>2 DEF PendingResets, Pending, Resets
  <2>2. Cardinality(PendingResets) # 0
    BY <2>1, PendingFinite, FS_EmptySet
  <2>3. task.generation + 1 <= MaxGenerations
    BY <1>1, <2>2, PendingFinite, Bounds DEF RInv, Fits
  <2>4. session[s].task.generation = task.generation + 1
    BY <1>2 DEF Resets, Seeded
  <2> QED BY <1>1, <1>2, <2>3, <2>4, Bounds DEF Generations
<1>3. CASE Decides(s)
  BY <1>1, <1>3 DEF Decides, Resets
<1>4. CASE Advances(s) \/ Awaits(s) \/ Spends(s)
  <2>1. PICK target \in Stages : Moves(s, target)
    BY <1>1, <1>4, TransitionShape DEF Advances, Awaits, Spends, Moves, TaskRows
  <2>2. session[s].task.generation = task.generation
    BY <1>1, <2>1, MovedShape DEF Moves
  <2> QED BY <1>1, <2>1, <2>2 DEF Moves, Resets
<1>5. CASE Blocked(s)
  BY <1>1, <1>5 DEF Blocked, Resets, TaskRows
<1> QED BY <1>2, <1>3, <1>4, <1>5 DEF Working, Writes

\* A handler that goes on keeps what it is going to write.
LEMMA WorkKept ==
    ASSUME RInv, NEW s \in Sessions, Working(s), InTransaction(s),
           NEW pc \in {"task_view", "commit"}, Goto(s, pc), UNCHANGED tables,
           session[s].pc \in {"append_event", "task_view"},
           Request(s).op = "decide" \/ session[s].answer.code = "blocked" => pc = "commit",
           \A l \in Locks : lock[l] = s => lock'[l] = s
    PROVE  Writes(s)'
<1>1. /\ session'[s].pc = pc /\ Request(s)' = Request(s)
      /\ session'[s].task = session[s].task /\ session'[s].approval = session[s].approval
      /\ session'[s].types = session[s].types /\ session'[s].answer = session[s].answer
      /\ session'[s].number = session[s].number
  BY GotoShape DEF RInv, Request, Phases
<1>2. /\ task' = task /\ Requested' = Requested /\ Latest(task.generation)' = Latest(task.generation)
      /\ \A a : (Present(a)' <=> Present(a)) /\ Status(a)' = Status(a)
      /\ \A target : Moves(s, target)' <=> Moves(s, target)
  BY <1>1 DEF Moves, Moved, Requested, Latest, Present, Status, tables
<1>3. CASE Decides(s)
  <2>1. ApprovalLock(Request(s).of) \in Locks
    BY <1>3, SessionShape, RequestShape, LockShape DEF Decides, RInv
  <2> QED BY <1>1, <1>2, <1>3, <2>1 DEF Decides, Writes
<1>4. CASE Advances(s)
  BY <1>1, <1>2, <1>4 DEF Advances, Writes
<1>5. CASE Spends(s)
  <2>1. lock'[ApprovalLock(Latest(task.generation))] = s
    BY <1>5, LatestShape DEF Spends, RInv
  <2> QED BY <1>1, <1>2, <1>5, <2>1 DEF Spends, Writes
<1>6. CASE Resets(s)
  BY <1>1, <1>2, <1>6 DEF Resets, Writes
<1>7. CASE Blocked(s)
  BY <1>1, <1>2, <1>7 DEF Blocked, Writes
<1> QED BY <1>3, <1>4, <1>5, <1>6, <1>7 DEF Working, Writes, Awaits

\* save_task and append_event: the advisory lock of the stream.
LEMMA AppendEventInv ==
    ASSUME RInv, NEW s \in Sessions, AppendEvent(s)
    PROVE  RInv'
<1> DEFINE g == session[s].task.generation
           pc == IF Request(s).op = "decide" \/ session[s].answer.code = "blocked"
                 THEN "commit" ELSE "task_view"
<1>1. /\ InTransaction(s) /\ Serves(s) /\ KeyHeld(s) /\ Working(s) /\ lock[TaskLock] = s
      /\ Shapes /\ session[s].pc = "append_event" /\ session[s].request = Request(s)
  BY WorkingShape DEF AppendEvent, At
<1>2. CASE ~SaveTask(s)
  BY <1>1, <1>2, RollbackInv DEF AppendEvent
<1>3. CASE SaveTask(s)
  <2>1. Take(s, EventsLock(g)) /\ Goto(s, pc) /\ UNCHANGED <<tables, executed, clients>>
    BY <1>1, <1>3 DEF AppendEvent
  <2>2. EventsLock(g) \in Locks
    BY <1>1, WrittenGeneration, LockShape
  <2>3. pc \in {"task_view", "commit"} /\ pc \in Phases
    BY DEF Phases
  <2>4. Writes(s)'
    BY <1>1, <2>1, <2>2, <2>3, TakeShape, WorkKept
  <2> DEFINE w == [session[s] EXCEPT !.pc = pc]
  <2>5. /\ w \in Calls /\ session' = [session EXCEPT ![s] = w] /\ w.pc = pc
        /\ w.request = Request(s) /\ session'[s] = w
    BY <1>1, <2>1, <2>3, GotoShape DEF Request
  <2>6. \E l \in Locks : Take(s, l)
    BY <2>1, <2>2
  <2> HIDE DEF w, pc, g
  <2> QED BY <1>1, <2>1, <2>3, <2>4, <2>5, <2>6, WorkOn
<1> QED BY <1>2, <1>3

\* task_view: a committed approval row is locked.
LEMMA TaskViewInv ==
    ASSUME RInv, NEW s \in Sessions, TaskView(s)
    PROVE  RInv'
<1> DEFINE g == session[s].task.generation
           w == [session[s] EXCEPT !.pc = "commit"]
<1>1. /\ InTransaction(s) /\ Serves(s) /\ KeyHeld(s) /\ Working(s) /\ lock[TaskLock] = s
      /\ Shapes /\ session[s].pc = "task_view"
  BY WorkingShape DEF TaskView, At
<1>2. /\ lock' = lock \/ (Viewed(s) # NoApproval /\ Take(s, ApprovalLock(Viewed(s))))
      /\ Goto(s, "commit") /\ UNCHANGED <<tables, executed, clients>>
  BY DEF TaskView
<1>3. Viewed(s) # NoApproval => ApprovalLock(Viewed(s)) \in Locks
  <2> SUFFICES ASSUME Viewed(s) # NoApproval PROVE Viewed(s) \in Approvals
    BY LockShape
  <2>1. g \in Generations /\ approvals[g] \in Seq(Statuses) /\ Len(approvals[g]) <= MaxApprovals
    BY <1>1, WrittenGeneration DEF Shapes, RInv, ApprovalsFit
  <2>2. Viewed(s) = <<g, Len(approvals[g])>> /\ Len(approvals[g]) # 0
    BY DEF Viewed, Latest
  <2>3. Len(approvals[g]) \in 1..MaxApprovals
    BY <2>1, <2>2, LenProperties, Bounds
  <2> QED BY <2>1, <2>2, <2>3 DEF Approvals
<1>4. \A l \in Locks : lock[l] = s => lock'[l] = s
  BY <1>1, <1>2, <1>3, TakeShape, SMTT(30)
<1>5. Writes(s)'
  BY <1>1, <1>2, <1>4, WorkKept DEF Working, Writes, Decides, Blocked, Awaits,
     Advances, Spends, Resets, Moves, OkAnswer
<1>6. /\ w \in Calls /\ session' = [session EXCEPT ![s] = w] /\ w.pc = "commit"
      /\ w.request = Request(s)
  <2>1. "commit" \in Phases
    BY DEF Phases
  <2>2. session[s] \in Calls
    BY <1>1, SessionShape
  <2>3. w \in Calls /\ w.pc = "commit" /\ w.request = Request(s)
    BY <2>1, <2>2 DEF Calls, Request
  <2>4. session' = [session EXCEPT ![s] = w]
    BY <1>2 DEF Goto, Continue
  <2> QED BY <2>3, <2>4
<1>7. lock' = lock \/ \E l \in Locks : Take(s, l)
  BY <1>2, <1>3
<1> HIDE DEF w, g
<1> QED BY <1>1, <1>2, <1>5, <1>6, <1>7, WorkOn

\* A client sends: the session begins a transaction without locks.
LEMMA SendInv ==
    ASSUME RInv, NEW s \in Sessions, NEW r \in Requests, Send(s, r)
    PROVE  RInv'
<1> DEFINE w == [pc |-> IF Keyed(r) THEN "lookup" ELSE FirstStep(r), request |-> r,
                 task |-> task, approval |-> "none", number |-> 0, types |-> <<>>,
                 answer |-> OkAnswer]
<1>1. /\ session[s].pc = "idle" /\ sends < MaxSends /\ sends' = sends + 1
      /\ session' = [session EXCEPT ![s] = w]
      /\ UNCHANGED <<tables, lock, executed, tokens>>
      /\ r.op = "reset" => task.generation + InFlightResets < MaxGenerations
  BY DEF Send, At, OkAnswer
<1>2. Shapes /\ r.op \in {"advance", "decide", "reset"}
  BY RequestShape DEF RInv
<1>3. w.pc \in {"lookup", "get_approval", "get_task"}
  BY DEF FirstStep
<1>4. /\ w.pc = "lookup" => Keyed(r)
      /\ w.pc # "lookup" => ~Keyed(r) /\ (w.pc = "get_approval" <=> r.op = "decide")
      /\ w.request = r /\ w.approval = "none" /\ w.types = <<>> /\ w.answer = OkAnswer
      /\ w.number = 0
  BY DEF FirstStep
<1>5. w \in Calls
  <2>1. task \in Written /\ <<>> \in TypeLists
    BY <1>2, TypeListShape DEF Shapes, TaskRows, Written, Generations
  <2>2. OkAnswer \in [code: {"ok", "blocked"}, token: BOOLEAN]
    BY DEF OkAnswer
  <2>3. w.pc \in Phases
    BY <1>3 DEF Phases
  <2> QED BY <2>1, <2>2, <2>3 DEF Calls
<1> HIDE DEF w
<1>6. /\ session' \in [Sessions -> {Idle} \cup Calls \cup Answers] /\ session'[s] = w
      /\ \A u \in Sessions \ {s} : session'[u] = session[u]
  BY <1>1, <1>2, <1>5, SessionWritten
<1>7. ~InTransaction(s) /\ InTransaction(s)' /\ Request(s)' = r
  BY <1>1, <1>3, <1>4, <1>6 DEF InTransaction, Request
<1>8. Shapes'
  <2>1. sends' \in 0..MaxSends
    BY <1>1, <1>2, Bounds DEF Shapes
  <2> QED BY <1>1, <1>2, <1>6, <2>1 DEF Shapes, tables
<1>9. LocksFreed'
  <2>1. \A u \in Sessions : ~InTransaction(u)' => ~InTransaction(u)
    BY <1>6, <1>7 DEF InTransaction
  <2> QED BY <1>1, <2>1 DEF RInv, LocksFreed
<1>10. AllServe'
  <2> SUFFICES ASSUME NEW u \in Sessions, InTransaction(u)' PROVE Serves(u)'
    BY DEF AllServe
  <2>1. CASE u # s
    <3>1. session'[u] = session[u] /\ InTransaction(u)
      BY <1>6, <2>1 DEF InTransaction
    <3>2. Serves(u)
      BY <3>1 DEF RInv, AllServe
    <3> QED BY <1>1, <1>2, <3>1, <3>2, OthersServe DEF RInv, tables
  <2>2. CASE u = s
    <3>1. At(s, "lookup")' \/ KeyHeld(s)'
      BY <1>4, <1>6, <1>7 DEF At, KeyHeld
    <3>2. Unwritten(s)'
      <4>1. r.op = "decide" => Present(r.of)'
        BY <1>1 DEF Send, Present, tables
      <4> QED BY <1>3, <1>4, <1>6, <1>7, <4>1 DEF Unwritten, At
    <3> QED BY <1>3, <1>6, <2>2, <3>1, <3>2 DEF Serves
  <2> QED BY <2>1, <2>2
<1>11. Stored' /\ ApprovalsFit' /\ AllRead' /\ AuditExplainsRows'
  BY <1>1, RowsKept DEF RInv
<1>12. TokenOnce' /\ CarriesDecision'
  <2>1. \A u \in Sessions : /\ At(u, "answer")' <=> At(u, "answer")
                            /\ At(u, "answer") => session'[u] = session[u]
    BY <1>1, <1>3, <1>6 DEF At
  <2>2. \A u \in Sessions, a \in Approvals : Carries(u, a)' <=> Carries(u, a)
    BY <2>1 DEF Carries, Request
  <2>3. TokenOnce'
    BY <1>1, <2>2, RowsKept DEF RInv, TokenOnce
  <2> QED BY <2>1, <2>3 DEF RInv, CarriesDecision, Request
<1>13. Fits'
  <2>1. Pending' = Pending \cup {s} /\ s \notin Pending
    BY <1>6, <1>7 DEF Pending, InTransaction
  <2>2. Cardinality(Pending') = Cardinality(Pending) + 1
    BY <2>1, PendingFinite, FS_AddElement
  <2>3. /\ r.op = "reset" => PendingResets' = PendingResets \cup {s}
        /\ r.op # "reset" => PendingResets' = PendingResets
    <3>1. \A u \in Pending : Request(u)' = Request(u)
      BY <1>6, <2>1 DEF Request, Pending
    <3>2. PendingResets' = {u \in Pending : Request(u).op = "reset"}
                          \cup {u \in {s} : r.op = "reset"}
      BY <1>7, <2>1, <3>1 DEF PendingResets
    <3> QED BY <3>2 DEF PendingResets
  <2>4. Cardinality(PendingResets) \in Nat /\ InFlightResets \in Nat
        /\ Cardinality(PendingResets) <= InFlightResets
    <3> DEFINE flight == {u \in Sessions : session[u].pc # "idle" /\ session[u].request.op = "reset"}
    <3>1. PendingResets \subseteq flight
      BY DEF PendingResets, Pending, InTransaction, Request
    <3>2. IsFiniteSet(flight)
      BY SessionsOK, FS_Subset
    <3> QED BY <3>1, <3>2, FS_Subset, FS_CardinalityType DEF InFlightResets
  <2>5. s \notin PendingResets
    BY <2>1 DEF PendingResets
  <2>6. r.op = "reset" => Cardinality(PendingResets') = Cardinality(PendingResets) + 1
    BY <2>3, <2>5, PendingFinite, FS_AddElement
  <2>7. \A g \in Generations : Len(events[g]) \in Nat
    BY <1>2, LenProperties DEF Shapes
  <2>8. task.generation \in Nat /\ sends \in Nat /\ MaxGenerations \in Nat
    BY <1>2, Bounds DEF Shapes, TaskRows, Generations
  <2>9. \A g \in Generations : Len(events[g]) + 5 * Cardinality(Pending') <= 2 + 5 * (sends + 1)
    BY <2>2, <2>7, <2>8, PendingFinite DEF RInv, Fits
  <2>10. task.generation + Cardinality(PendingResets') <= MaxGenerations
    BY <1>1, <2>3, <2>4, <2>6, <2>8 DEF RInv, Fits
  <2> QED BY <1>1, <2>9, <2>10 DEF Fits, tables
<1> QED BY <1>8, <1>9, <1>10, <1>11, <1>12, <1>13 DEF RInv

\* The answer arrives or is lost: the session is idle again.
LEMMA AnswerGone ==
    ASSUME RInv, NEW s \in Sessions, At(s, "answer"), session' = [session EXCEPT ![s] = Idle],
           UNCHANGED <<tables, lock, executed, sends>>, tokens' \in [Approvals -> Nat],
           TokenOnce'
    PROVE  RInv'
<1>1. /\ session' \in [Sessions -> {Idle} \cup Calls \cup Answers] /\ session'[s] = Idle
      /\ \A u \in Sessions \ {s} : session'[u] = session[u]
  BY SessionWritten DEF RInv
<1>2. Shapes'
  BY <1>1 DEF RInv, Shapes, tables
<1>3. \A u \in Sessions : InTransaction(u)' <=> InTransaction(u)
  BY <1>1 DEF InTransaction, At, Idle
<1>4. ~InTransaction(s)
  BY DEF InTransaction, At
<1>5. LocksFreed'
  BY <1>3 DEF RInv, LocksFreed
<1>6. AllServe'
  <2> SUFFICES ASSUME NEW u \in Sessions, InTransaction(u)' PROVE Serves(u)'
    BY DEF AllServe
  <2>1. InTransaction(u) /\ session'[u] = session[u]
    BY <1>1, <1>3, <1>4
  <2>2. Serves(u) /\ Shapes /\ ApprovalsFit
    BY <2>1 DEF RInv, AllServe
  <2> QED BY <2>1, <2>2, OthersServe DEF tables
<1>7. Stored' /\ ApprovalsFit' /\ AllRead' /\ AuditExplainsRows'
  BY RowsKept DEF RInv
<1>8. CarriesDecision'
  BY <1>1 DEF RInv, CarriesDecision, At, Request, Idle
<1>9. Fits'
  <2>1. Pending' = Pending
    BY <1>3 DEF Pending
  <2>2. \A u \in Pending : Request(u)' = Request(u)
    BY <1>1, <1>4 DEF Request, Pending
  <2>3. PendingResets' = PendingResets
    BY <2>1, <2>2 DEF PendingResets
  <2> QED BY <2>1, <2>3 DEF RInv, Fits, tables
<1> QED BY <1>2, <1>5, <1>6, <1>7, <1>8, <1>9 DEF RInv

LEMMA AnswerStep ==
    ASSUME RInv, NEW s \in Sessions, Answer(s) \/ LoseAnswer(s)
    PROVE  RInv'
<1>1. /\ session[s].pc = "answer" /\ session' = [session EXCEPT ![s] = Idle]
      /\ UNCHANGED <<tables, lock, executed, sends>>
  BY DEF Answer, LoseAnswer, At, clients
<1>2. /\ session'[s] = Idle /\ \A u \in Sessions \ {s} : session'[u] = session[u]
  BY <1>1, SessionWritten DEF RInv
<1>3. \A u \in Sessions, a \in Approvals : Carries(u, a)' => u # s /\ Carries(u, a)
  BY <1>2 DEF Carries, At, Request, Idle
<1>4. CASE session[s].answer.token /\ Answer(s)
  <2> DEFINE h == Request(s).of
  <2>1. h \in Approvals /\ Carries(s, h)
    <3>1. Request(s).op = "decide"
      BY <1>1, <1>4 DEF RInv, CarriesDecision, At
    <3>2. Request(s) \in Requests
      BY <1>1, SessionShape DEF RInv, At
    <3> QED BY <1>1, <1>4, <3>1, <3>2, RequestShape DEF Carries, At
  <2>2. tokens' = [tokens EXCEPT ![h] = @ + 1] /\ tokens \in [Approvals -> Nat]
    BY <1>4 DEF Answer, RInv, Shapes
  <2>3. /\ Settled(h) /\ tokens[h] = 0
        /\ \A u \in Sessions : Carries(u, h) => u = s
    BY <2>1 DEF RInv, TokenOnce
  <2> HIDE DEF h
  <2>4. /\ tokens' \in [Approvals -> Nat] /\ tokens'[h] = 1
        /\ \A a \in Approvals \ {h} : tokens'[a] = tokens[a]
    BY <2>1, <2>2, <2>3
  <2>5. TokenOnce'
    <3> SUFFICES ASSUME NEW a \in Approvals
                 PROVE  /\ tokens'[a] <= 1
                        /\ tokens'[a] > 0 => Settled(a)'
                        /\ \A u \in Sessions : Carries(u, a)' =>
                              /\ Settled(a)' /\ tokens'[a] = 0
                              /\ \A v \in Sessions : Carries(v, a)' => v = u
      BY DEF TokenOnce
    <3>1. Settled(a)' <=> Settled(a)
      BY <1>1 DEF Settled, Present, Status, tables
    <3>2. CASE a = h
      BY <1>1, <1>3, <2>3, <2>4, <3>1, <3>2
    <3>3. CASE a # h
      BY <1>1, <1>3, <2>4, <3>1, <3>3 DEF RInv, TokenOnce
    <3> QED BY <3>2, <3>3
  <2> QED BY <1>1, <2>4, <2>5, AnswerGone DEF At
<1>5. CASE ~(session[s].answer.token /\ Answer(s))
  <2>1. tokens' = tokens
    BY <1>5 DEF Answer, LoseAnswer, clients
  <2>2. TokenOnce'
    BY <1>1, <1>3, <2>1, RowsKept DEF RInv, TokenOnce
  <2> QED BY <1>1, <2>1, <2>2, AnswerGone DEF At, RInv, Shapes
<1> QED BY <1>4, <1>5

-----------------------------------------------------------------------------
(* The streams that a commit extends.                                      *)

\* append_event: the events so far stay, the new ones come after them.
LEMMA LinkedShape ==
    ASSUME NEW stream \in Seq(AuditEvents), NEW types \in TypeLists, NEW t \in Written,
           NEW n \in Nat
    PROVE  LET longer == Linked(stream, types, t, n)
           IN  /\ longer \in Seq(AuditEvents) /\ Len(longer) = Len(stream) + Len(types)
               /\ Len(stream) \in Nat /\ Len(types) \in 0..5 /\ DOMAIN types = 1..Len(types)
               /\ \A i \in 1..Len(stream) : longer[i] = stream[i]
               /\ \A i \in 1..Len(types) :
                     longer[Len(stream) + i] = Event(types[i], t, n, Len(stream) + i - 1)
<1> DEFINE added == [i \in DOMAIN types |-> Event(types[i], t, n, Len(stream) + i - 1)]
<1>1. /\ Len(types) \in Nat /\ Len(types) \in 0..5 /\ DOMAIN types = 1..Len(types)
      /\ Len(stream) \in Nat /\ \A i \in 1..Len(types) : types[i] \in EventTypes
  BY DEF TypeLists
<1>2. ASSUME NEW i \in 1..Len(types) PROVE added[i] \in AuditEvents
  <2>1. added[i] = Event(types[i], t, n, Len(stream) + i - 1) /\ Len(stream) + i - 1 \in Nat
    BY <1>1
  <2>2. t.stage \in Stages /\ t.version \in Nat /\ types[i] \in EventTypes
    BY <1>1 DEF Written
  <2> HIDE DEF added
  <2> QED BY <2>1, <2>2, TransitionShape DEF Event, AuditEvents
<1>3. added \in Seq(AuditEvents) /\ Len(added) = Len(types)
  BY <1>1, <1>2
<1>4. Linked(stream, types, t, n) = stream \o added
  BY DEF Linked
<1>5. \A i \in 1..Len(types) : added[i] = Event(types[i], t, n, Len(stream) + i - 1)
  BY <1>1
<1> HIDE DEF added
<1>6. /\ stream \o added \in Seq(AuditEvents)
      /\ Len(stream \o added) = Len(stream) + Len(added)
      /\ \A i \in 1..(Len(stream) + Len(added)) :
            (stream \o added)[i] = IF i <= Len(stream) THEN stream[i] ELSE added[i - Len(stream)]
  BY <1>3, ConcatProperties
<1>7. \A i \in 1..Len(stream) : (stream \o added)[i] = stream[i]
  BY <1>1, <1>3, <1>6
<1>8. ASSUME NEW i \in 1..Len(types) PROVE (stream \o added)[Len(stream) + i] = added[i]
  <2>1. /\ Len(stream) + i \in 1..(Len(stream) + Len(added))
        /\ ~(Len(stream) + i <= Len(stream)) /\ Len(stream) + i - Len(stream) = i
    BY <1>1, <1>3
  <2>2. (stream \o added)[Len(stream) + i] =
           IF Len(stream) + i <= Len(stream) THEN stream[Len(stream) + i]
           ELSE added[Len(stream) + i - Len(stream)]
    BY <1>6, <2>1
  <2> QED BY <2>1, <2>2
<1> QED BY <1>1, <1>3, <1>4, <1>5, <1>6, <1>7, <1>8

-----------------------------------------------------------------------------
(* The auditor's replay is a recursive function over the events.           *)

\* A set of numbers has a least one.
LEMMA LeastElement ==
  ASSUME NEW T, T \subseteq Nat, T # {}
  PROVE  \E x \in T : \A y \in T : x =< y
<1>1. PICK x \in T : \A y \in T : ~ (<<y, x>> \in OpToRel(<,Nat))
  <2>1. \E x \in T : \A y \in T : ~ (<<y, x>> \in OpToRel(<,Nat))
    BY WFMin, NatLessThanWellFounded
  <2> QED BY <2>1
<1>2. ASSUME NEW y \in T, y < x PROVE FALSE
  <2>1. <<y,x>> \in OpToRel(<,Nat)
    BY <1>2 DEF OpToRel
  <2> QED BY <2>1, <1>1
<1>3. \A y \in T : ~ (y < x)
  BY <1>2
<1>4. \A y \in T : x =< y
  BY <1>3
<1> QED BY <1>4

\* A set that has zero and every successor has every number.
LEMMA CountingUp ==
    ASSUME NEW S, 0 \in S, \A m \in Nat : m \in S => m + 1 \in S
    PROVE  Nat \subseteq S
<1> SUFFICES ASSUME Nat \ S # {} PROVE FALSE
  OBVIOUS
<1>1. PICK x \in Nat \ S : \A y \in Nat \ S : x <= y
  BY LeastElement
<1>2. x # 0 /\ x - 1 \in Nat
  BY <1>1
<1>3. x - 1 \in S
  BY <1>1, <1>2
<1>4. (x - 1) + 1 \in S
  BY <1>2, <1>3
<1> QED BY <1>1, <1>2, <1>4

\* The replay of the first n events.
Replays(stream, n, f) ==
    f = [i \in 0..n |-> IF i = 0 THEN NewAudit ELSE Turn(f[i - 1], stream[i])]

\* Any number of events can be replayed.
LEMMA ReplayExists ==
    ASSUME NEW stream, NEW n \in Nat
    PROVE  \E f : Replays(stream, n, f)
<1> DEFINE S == {m \in Nat : \E f : Replays(stream, m, f)}
<1>1. 0 \in S
  <2>1. Replays(stream, 0, [i \in 0..0 |-> NewAudit])
    BY DEF Replays
  <2> QED BY <2>1
<1>2. ASSUME NEW m \in Nat, m \in S PROVE m + 1 \in S
  <2>1. PICK f : Replays(stream, m, f)
    BY <1>2
  <2> DEFINE last == Turn(f[m], stream[m + 1])
             longer == [i \in 0..(m + 1) |-> IF i = m + 1 THEN last ELSE f[i]]
  <2>2. ASSUME NEW i \in 0..(m + 1)
        PROVE  longer[i] = IF i = 0 THEN NewAudit ELSE Turn(longer[i - 1], stream[i])
    <3>1. CASE i = m + 1
      <4>1. longer[i] = last /\ longer[i - 1] = f[m] /\ i # 0
        BY <3>1
      <4> QED BY <3>1, <4>1
    <3>2. CASE i \in 1..m
      <4>1. longer[i] = f[i] /\ longer[i - 1] = f[i - 1] /\ i # 0 /\ i \in 0..m
        BY <3>2
      <4>2. f[i] = Turn(f[i - 1], stream[i])
        BY <2>1, <4>1 DEF Replays
      <4> QED BY <4>1, <4>2
    <3>3. CASE i = 0
      <4>1. longer[0] = f[0] /\ f[0] = NewAudit
        BY <2>1 DEF Replays
      <4> QED BY <3>3, <4>1
    <3> QED BY <3>1, <3>2, <3>3
  <2>3. longer = [i \in 0..(m + 1) |-> longer[i]]
    OBVIOUS
  <2> HIDE DEF longer
  <2>4. Replays(stream, m + 1, longer)
    BY <2>2, <2>3 DEF Replays
  <2> QED BY <2>4
<1> HIDE DEF S
<1>3. Nat \subseteq S
  BY <1>1, <1>2, CountingUp
<1> QED BY <1>3 DEF S

\* Streams that begin with the same events are replayed to the same audit there.
LEMMA ReplaysAgree ==
    ASSUME NEW n \in Nat, NEW m \in Nat, n <= m, NEW short, NEW long, NEW f, NEW h,
           Replays(short, n, f), Replays(long, m, h), \A i \in 1..n : short[i] = long[i]
    PROVE  \A i \in 0..n : f[i] = h[i]
<1> DEFINE S == {i \in Nat : i <= n => f[i] = h[i]}
<1>1. 0 \in S
  <2>1. f[0] = NewAudit /\ h[0] = NewAudit
    BY DEF Replays
  <2> QED BY <2>1
<1>2. ASSUME NEW i \in Nat, i \in S PROVE i + 1 \in S
  <2> SUFFICES ASSUME i + 1 <= n PROVE f[i + 1] = h[i + 1]
    OBVIOUS
  <2>1. i + 1 \in 0..n /\ i + 1 \in 0..m /\ i + 1 # 0 /\ i + 1 \in 1..n /\ (i + 1) - 1 = i
    OBVIOUS
  <2>2. f[i + 1] = Turn(f[i], short[i + 1]) /\ h[i + 1] = Turn(h[i], long[i + 1])
    BY <2>1 DEF Replays
  <2>3. f[i] = h[i]
    BY <1>2
  <2> QED BY <2>1, <2>2, <2>3
<1> HIDE DEF S
<1>3. Nat \subseteq S
  BY <1>1, <1>2, CountingUp
<1> QED BY <1>3 DEF S

LEMMA AuditReplays ==
    ASSUME NEW stream \in Seq(AuditEvents), NEW f, Replays(stream, Len(stream), f)
    PROVE  Audit(stream) = f[Len(stream)]
<1> DEFINE after == CHOOSE h : Replays(stream, Len(stream), h)
<1>1. Audit(stream) = after[Len(stream)]
  BY DEF Audit, Replays
<1>2. Replays(stream, Len(stream), after) /\ Len(stream) \in Nat
  OBVIOUS
<1> HIDE DEF after
<1>3. Len(stream) \in 0..Len(stream) /\ Len(stream) <= Len(stream)
  BY <1>2
<1>4. \A i \in 0..Len(stream) : after[i] = f[i]
  BY <1>2, <1>3, ReplaysAgree
<1> QED BY <1>1, <1>3, <1>4

\* From the audit of a stream to that of a longer one, event by event.
LEMMA AuditSteps ==
    ASSUME NEW stream \in Seq(AuditEvents), NEW types \in TypeLists, NEW t \in Written,
           NEW n \in Nat
    PROVE  \E a : /\ a[0] = Audit(stream)
                  /\ \A i \in 1..Len(types) :
                        a[i] = Turn(a[i - 1], Event(types[i], t, n, Len(stream) + i - 1))
                  /\ a[Len(types)] = Audit(Linked(stream, types, t, n))
<1> DEFINE longer == Linked(stream, types, t, n)
           k == Len(stream)
           l == Len(types)
<1>1. /\ longer \in Seq(AuditEvents) /\ Len(longer) = k + l /\ k \in Nat /\ l \in Nat
      /\ \A i \in 1..k : longer[i] = stream[i]
      /\ \A i \in 1..l : longer[k + i] = Event(types[i], t, n, k + i - 1)
  <2>1. Linked(stream, types, t, n) = longer
    OBVIOUS
  <2> HIDE DEF longer
  <2>2. /\ longer \in Seq(AuditEvents) /\ Len(longer) = Len(stream) + Len(types)
        /\ Len(stream) \in Nat /\ Len(types) \in 0..5
        /\ \A i \in 1..Len(stream) : longer[i] = stream[i]
        /\ \A i \in 1..Len(types) :
              longer[Len(stream) + i] = Event(types[i], t, n, Len(stream) + i - 1)
    BY <2>1, LinkedShape, ZenonT(60)
  <2>3. \A m \in 0..5 : m \in Nat
    OBVIOUS
  <2> QED BY <2>2, <2>3
<1> HIDE DEF longer, k, l
<1>2. PICK f : Replays(stream, k, f)
  BY <1>1, ReplayExists
<1>3. PICK h : Replays(longer, k + l, h)
  <2>1. k + l \in Nat
    BY <1>1
  <2> QED BY <2>1, ReplayExists
<1>4. Audit(stream) = f[k] /\ Audit(longer) = h[k + l]
  BY <1>1, <1>2, <1>3, AuditReplays DEF k
<1>5. f[k] = h[k]
  <2>1. k <= k + l /\ k + l \in Nat /\ k \in 0..k
    BY <1>1
  <2> QED BY <1>1, <1>2, <1>3, <2>1, ReplaysAgree
<1> DEFINE a == [i \in 0..l |-> h[k + i]]
<1>6. a[0] = Audit(stream) /\ a[l] = Audit(longer)
  BY <1>1, <1>4, <1>5
<1>7. ASSUME NEW i \in 1..l PROVE a[i] = Turn(a[i - 1], Event(types[i], t, n, k + i - 1))
  <2>1. i \in 0..l /\ i - 1 \in 0..l /\ k + i \in 0..(k + l) /\ k + i # 0 /\ k + (i - 1) = (k + i) - 1
    BY <1>1
  <2>2. h[k + i] = Turn(h[(k + i) - 1], longer[k + i])
    BY <1>3, <2>1 DEF Replays
  <2> QED BY <1>1, <2>1, <2>2
<1> HIDE DEF a
<1> QED BY <1>6, <1>7 DEF k, l, longer

-----------------------------------------------------------------------------
(* What the auditor makes of an event.                                     *)

\* The audit of somebody to whom everything is explained.
Heard(read, stage, version, rows, said) ==
    [read |-> read, stage |-> stage, version |-> version, approvals |-> rows,
     announced |-> said, explained |-> TRUE]

\* An event that announces nothing.
LEMMA PlainTurn ==
    ASSUME NEW read \in Nat, NEW stage \in Stages, NEW version \in Nat, NEW rows, NEW said \in SUBSET Announcing,
           NEW type \in PlainTypes, NEW t \in Written, NEW n \in Nat
    PROVE  Turn(Heard(read, stage, version, rows, said), Event(type, t, n, read)) =
               Heard(read + 1, stage, version, rows, said)
<1> DEFINE a == Heard(read, stage, version, rows, said)
           e == Event(type, t, n, read)
<1>1. /\ e.type = type /\ e.previous = read /\ type \notin Announcing
      /\ type \notin ApprovalTypes /\ type # "state.transitioned"
  BY DEF Event, PlainTypes, Announcing, Announcements, ApprovalTypes
<1>2. a.explained /\ a.read = read
  BY DEF Heard
<1> HIDE DEF e
<1>3. Follows(a, e)
  BY <1>1, <1>2 DEF Follows, ApprovalTypes
<1>4. said \cup ({e.type} \cap Announcing) = said
  BY <1>1
<1>5. Noted(a, e) = Heard(read + 1, stage, version, rows, said \cup ({e.type} \cap Announcing))
  BY <1>1 DEF Noted, Heard
<1> HIDE DEF a
<1>6. Turn(a, e) = Noted(a, e)
  BY <1>2, <1>3 DEF Turn
<1> QED BY <1>4, <1>5, <1>6 DEF a, e

\* An announcement that is not about an approval.
LEMMA AnnouncedTurn ==
    ASSUME NEW read \in Nat, NEW stage \in Stages, NEW version \in Nat, NEW rows, NEW said \in SUBSET Announcing,
           NEW type \in Announcing \ ApprovalTypes, type \notin said, NEW t \in Written, NEW n \in Nat
    PROVE  Turn(Heard(read, stage, version, rows, said), Event(type, t, n, read)) =
               Heard(read + 1, stage, version, rows, said \cup {type})
<1> DEFINE a == Heard(read, stage, version, rows, said)
           e == Event(type, t, n, read)
<1>1. /\ e.type = type /\ e.previous = read
      /\ type \notin ApprovalTypes /\ type # "state.transitioned"
  BY DEF Event, Announcing, Announcements
<1>2. a.explained /\ a.read = read /\ a.announced = said
  BY DEF Heard
<1> HIDE DEF e
<1>3. Follows(a, e)
  BY <1>1, <1>2 DEF Follows, ApprovalTypes
<1>4. said \cup ({e.type} \cap Announcing) = said \cup {type}
  BY <1>1
<1>5. Noted(a, e) = Heard(read + 1, stage, version, rows, said \cup ({e.type} \cap Announcing))
  BY <1>1 DEF Noted, Heard
<1> HIDE DEF a
<1>6. Turn(a, e) = Noted(a, e)
  BY <1>2, <1>3 DEF Turn
<1> QED BY <1>4, <1>5, <1>6 DEF a, e

\* What has to be true of the approvals read so far for an event about the n-th.
Due(type, rows, n) ==
    CASE type = "approval.requested" -> n = Len(rows) + 1
      [] type \in {"approval.approved", "approval.denied"} ->
             n \in DOMAIN rows /\ rows[n] = "PENDING"
      [] type = "approval.token.consumed" -> n = Len(rows) /\ n > 0 /\ rows[n] = "APPROVED"

\* An event about an approval.
LEMMA ApprovalTurn ==
    ASSUME NEW read \in Nat, NEW stage \in Stages, NEW version \in Nat, NEW rows, NEW said \in SUBSET Announcing,
           NEW type \in ApprovalTypes, type \notin said, NEW t \in Written, NEW n \in Nat, Due(type, rows, n),
           NEW more, more = Saved(rows, n, Becomes[type]),
           NEW after, after = said \cup ({type} \cap Announcing)
    PROVE  Turn(Heard(read, stage, version, rows, said), Event(type, t, n, read)) =
               Heard(read + 1, stage, version, more, after)
<1> DEFINE a == Heard(read, stage, version, rows, said)
           e == Event(type, t, n, read)
<1>1. /\ e.type = type /\ e.previous = read /\ e.payload = n /\ e.type # "state.transitioned"
  BY DEF Event, ApprovalTypes
<1>2. a.explained /\ a.read = read /\ a.announced = said /\ a.approvals = rows
  BY DEF Heard
<1> HIDE DEF e
<1>3. Follows(a, e)
  <2> HIDE DEF a
  <2>1. CASE type = "approval.requested"
    BY <1>1, <1>2, <2>1 DEF Follows, Due
  <2>2. CASE type \in {"approval.approved", "approval.denied"}
    BY <1>1, <1>2, <2>2 DEF Follows, Due
  <2>3. CASE type = "approval.token.consumed"
    BY <1>1, <1>2, <2>3 DEF Follows, Due
  <2> QED BY <2>1, <2>2, <2>3 DEF ApprovalTypes
<1>4. Noted(a, e) = Heard(read + 1, stage, version, more, after)
  BY <1>1 DEF Noted, Heard
<1> HIDE DEF a
<1>5. Turn(a, e) = Noted(a, e)
  BY <1>2, <1>3 DEF Turn
<1> QED BY <1>4, <1>5 DEF a, e

\* An approval is asked for, or its token is spent.
AskedOrSpent(type, read, stage, version, rows, t, n) ==
    Turn(Heard(read, stage, version, rows, {}), Event(type, t, n, read)) =
        Heard(read + 1, stage, version, Saved(rows, n, Becomes[type]), {type})

LEMMA AskOrSpendTurn ==
    ASSUME NEW read \in Nat, NEW stage \in Stages, NEW version \in Nat, NEW rows,
           NEW type \in ApprovalTypes \cap Announcing, NEW t \in Written, NEW n \in Nat,
           Due(type, rows, n)
    PROVE  AskedOrSpent(type, read, stage, version, rows, t, n)
<1>1. PICK none \in SUBSET Announcing : none = {}
  OBVIOUS
<1>2. {type} = none \cup ({type} \cap Announcing) /\ type \notin none
  BY <1>1
<1>3. Turn(Heard(read, stage, version, rows, none), Event(type, t, n, read)) =
          Heard(read + 1, stage, version, Saved(rows, n, Becomes[type]), {type})
  BY <1>2, ApprovalTurn
<1> QED BY <1>1, <1>3 DEF AskedOrSpent

LEMMA AskTurn ==
    ASSUME NEW read \in Nat, NEW stage \in Stages, NEW version \in Nat, NEW rows,
           NEW t \in Written, NEW n \in Nat, Due("approval.requested", rows, n)
    PROVE  Turn(Heard(read, stage, version, rows, {}), Event("approval.requested", t, n, read)) =
               Heard(read + 1, stage, version, Saved(rows, n, Becomes["approval.requested"]),
                     {"approval.requested"})
<1>1. "approval.requested" \in ApprovalTypes \cap Announcing
  BY EventTypeShape DEF ApprovalTypes
<1>2. AskedOrSpent("approval.requested", read, stage, version, rows, t, n)
  BY <1>1, AskOrSpendTurn
<1> QED BY <1>2 DEF AskedOrSpent

LEMMA SpendTurn ==
    ASSUME NEW read \in Nat, NEW stage \in Stages, NEW version \in Nat, NEW rows,
           NEW t \in Written, NEW n \in Nat, Due("approval.token.consumed", rows, n)
    PROVE  Turn(Heard(read, stage, version, rows, {}),
                Event("approval.token.consumed", t, n, read)) =
               Heard(read + 1, stage, version, Saved(rows, n, Becomes["approval.token.consumed"]),
                     {"approval.token.consumed"})
<1>1. "approval.token.consumed" \in ApprovalTypes \cap Announcing
  BY EventTypeShape DEF ApprovalTypes
<1>2. AskedOrSpent("approval.token.consumed", read, stage, version, rows, t, n)
  BY <1>1, AskOrSpendTurn
<1> QED BY <1>2 DEF AskedOrSpent

\* An approval is approved or denied.
LEMMA DecidedTurn ==
    ASSUME NEW read \in Nat, NEW stage \in Stages, NEW version \in Nat, NEW rows,
           NEW said \in SUBSET Announcing, NEW type \in ApprovalTypes \ Announcing,
           NEW t \in Written, NEW n \in Nat, Due(type, rows, n), NEW status, status = Becomes[type]
    PROVE  Turn(Heard(read, stage, version, rows, said), Event(type, t, n, read)) =
               Heard(read + 1, stage, version, Saved(rows, n, status), said)
<1>1. said = said \cup ({type} \cap Announcing) /\ type \notin said
  OBVIOUS
<1> QED BY <1>1, ApprovalTurn

\* A transition that is allowed and was announced.
LEMMA MovedTurn ==
    ASSUME NEW read \in Nat, NEW stage \in Stages, NEW version \in Nat, NEW rows, NEW said,
           NEW t \in Written, NEW n \in Nat, said = Announcements(t.stage),
           t.stage \in ALLOWED_TRANSITIONS[stage], t.version > version
    PROVE  Turn(Heard(read, stage, version, rows, said), Event("state.transitioned", t, n, read)) =
               Heard(read + 1, t.stage, t.version, rows, {})
<1> DEFINE a == Heard(read, stage, version, rows, said)
           e == Event("state.transitioned", t, n, read)
<1>1. /\ e.type = "state.transitioned" /\ e.previous = read
      /\ e.stage = t.stage /\ e.payload = t.version
  BY DEF Event, ApprovalTypes, GateTypes
<1>2. /\ a.explained /\ a.read = read /\ a.announced = Announcements(t.stage)
      /\ a.stage = stage /\ a.version = version
  BY DEF Heard
<1> HIDE DEF e
<1>3. Follows(a, e)
  <2> HIDE DEF a
  <2>1. e.type \notin Announcing
    BY <1>1 DEF Announcing, Announcements
  <2> QED BY <1>1, <1>2, <2>1 DEF Follows
<1>4. Noted(a, e) = Heard(read + 1, t.stage, t.version, rows, {})
  BY <1>1 DEF Noted, Heard
<1> HIDE DEF a
<1>5. Turn(a, e) = Noted(a, e)
  BY <1>2, <1>3 DEF Turn
<1> QED BY <1>4, <1>5 DEF a, e

\* Plain events and the transition they belong to.
ThenMoves(types) ==
    /\ Len(types) > 0 /\ types[Len(types)] = "state.transitioned"
    /\ \A i \in 1..(Len(types) - 1) : types[i] \in PlainTypes

Announced(said, stage) == said = Announcements(stage)

LEMMA PlainMove ==
    ASSUME NEW stream \in Seq(AuditEvents), NEW types \in TypeLists, NEW t \in Written,
           NEW n \in Nat, NEW stage \in Stages, NEW version \in Nat, NEW rows,
           NEW said \in SUBSET Announcing,
           Audit(stream) = Heard(Len(stream), stage, version, rows, said), ThenMoves(types),
           Announced(said, t.stage),
           t.stage \in ALLOWED_TRANSITIONS[stage], t.version > version
    PROVE  Audit(Linked(stream, types, t, n)) =
               Heard(Len(stream) + Len(types), t.stage, t.version, rows, {})
<1> DEFINE k == Len(stream)
           l == Len(types)
<1>1. k \in Nat /\ l \in 0..5
  BY LinkedShape
<1>10. /\ said = Announcements(t.stage)
       /\ Len(types) > 0 /\ types[Len(types)] = "state.transitioned"
       /\ \A i \in 1..(Len(types) - 1) : types[i] \in PlainTypes
  BY DEF Announced, ThenMoves
<1>2. PICK a : /\ a[0] = Audit(stream)
               /\ \A i \in 1..l : a[i] = Turn(a[i - 1], Event(types[i], t, n, k + i - 1))
               /\ a[l] = Audit(Linked(stream, types, t, n))
  BY AuditSteps
<1> HIDE DEF k, l
<1> DEFINE S == {i \in Nat : i < l => a[i] = Heard(k + i, stage, version, rows, said)}
<1>3. 0 \in S
  <2>1. k + 0 = k
    BY <1>1
  <2> QED BY <1>2, <2>1 DEF k
<1>4. ASSUME NEW i \in Nat, i \in S PROVE i + 1 \in S
  <2> SUFFICES ASSUME i + 1 < l PROVE a[i + 1] = Heard(k + (i + 1), stage, version, rows, said)
    OBVIOUS
  <2>1. i + 1 \in 1..l /\ i + 1 \in 1..(Len(types) - 1) /\ i < l /\ (i + 1) - 1 = i
        /\ k + (i + 1) - 1 = k + i /\ k + (i + 1) = (k + i) + 1
    BY <1>1 DEF l
  <2>2. a[i + 1] = Turn(a[i], Event(types[i + 1], t, n, k + i))
    BY <1>2, <2>1
  <2>3. a[i] = Heard(k + i, stage, version, rows, said) /\ types[i + 1] \in PlainTypes
        /\ k + i \in Nat
    <3>1. a[i] = Heard(k + i, stage, version, rows, said)
      BY <1>4, <2>1
    <3>2. types[i + 1] \in PlainTypes
      BY <1>10, <2>1
    <3>3. k + i \in Nat
      BY <1>1
    <3> QED BY <3>1, <3>2, <3>3
  <2>4. Turn(Heard(k + i, stage, version, rows, said), Event(types[i + 1], t, n, k + i)) =
            Heard((k + i) + 1, stage, version, rows, said)
    BY <2>3, PlainTurn
  <2> QED BY <2>1, <2>2, <2>3, <2>4
<1> HIDE DEF S
<1>5. Nat \subseteq S
  BY <1>3, <1>4, CountingUp
<1>6. /\ l - 1 \in Nat /\ l - 1 < l /\ l \in 1..l /\ k + l - 1 = k + (l - 1)
      /\ (k + (l - 1)) + 1 = k + l
  BY <1>10, <1>1 DEF l
<1>7. a[l - 1] = Heard(k + (l - 1), stage, version, rows, said)
  BY <1>5, <1>6 DEF S
<1>8. a[l] = Turn(a[l - 1], Event("state.transitioned", t, n, k + (l - 1)))
  BY <1>10, <1>2, <1>6 DEF l
<1>9. Turn(Heard(k + (l - 1), stage, version, rows, said),
           Event("state.transitioned", t, n, k + (l - 1))) =
          Heard((k + (l - 1)) + 1, t.stage, t.version, rows, {})
  <2>1. k + (l - 1) \in Nat
    BY <1>1, <1>6
  <2> QED BY <1>10, <2>1, MovedTurn
<1> QED BY <1>10, <1>2, <1>6, <1>7, <1>8, <1>9 DEF k, l

\* One event.
LEMMA OneEvent ==
    ASSUME NEW stream \in Seq(AuditEvents), NEW type \in EventTypes, NEW t \in Written,
           NEW n \in Nat
    PROVE  /\ Len(stream) \in Nat
           /\ Audit(Linked(stream, <<type>>, t, n)) =
                  Turn(Audit(stream), Event(type, t, n, Len(stream)))
<1> DEFINE types == <<type>>
           k == Len(stream)
<1>1. types \in TypeLists /\ Len(types) = 1 /\ types[1] = type /\ k \in Nat
  BY DEF TypeLists
<1> HIDE DEF types, k
<1>2. PICK a : /\ a[0] = Audit(stream)
               /\ \A i \in 1..Len(types) : a[i] = Turn(a[i - 1], Event(types[i], t, n, k + i - 1))
               /\ a[Len(types)] = Audit(Linked(stream, types, t, n))
  BY <1>1, AuditSteps DEF k
<1>3. a[1] = Turn(a[0], Event(type, t, n, k))
  <2>1. 1 \in 1..Len(types) /\ k + 1 - 1 = k /\ 1 - 1 = 0
    BY <1>1
  <2> QED BY <1>1, <1>2, <2>1
<1> QED BY <1>1, <1>2, <1>3 DEF types, k

\* Two events.
LEMMA TwoEvents ==
    ASSUME NEW stream \in Seq(AuditEvents), NEW first \in EventTypes, NEW second \in EventTypes,
           NEW t \in Written, NEW n \in Nat
    PROVE  /\ Len(stream) \in Nat
           /\ Audit(Linked(stream, <<first, second>>, t, n)) =
                  Turn(Turn(Audit(stream), Event(first, t, n, Len(stream))),
                       Event(second, t, n, Len(stream) + 1))
<1> DEFINE types == <<first, second>>
           k == Len(stream)
<1>1. /\ types \in TypeLists /\ Len(types) = 2 /\ types[1] = first /\ types[2] = second
      /\ k \in Nat
  BY DEF TypeLists
<1> HIDE DEF types, k
<1>2. PICK a : /\ a[0] = Audit(stream)
               /\ \A i \in 1..Len(types) : a[i] = Turn(a[i - 1], Event(types[i], t, n, k + i - 1))
               /\ a[Len(types)] = Audit(Linked(stream, types, t, n))
  BY <1>1, AuditSteps DEF k
<1>3. a[1] = Turn(a[0], Event(first, t, n, k))
  <2>1. 1 \in 1..Len(types) /\ k + 1 - 1 = k /\ 1 - 1 = 0
    BY <1>1
  <2> QED BY <1>1, <1>2, <2>1
<1>4. a[2] = Turn(a[1], Event(second, t, n, k + 1))
  <2>1. 2 \in 1..Len(types) /\ k + 2 - 1 = k + 1 /\ 2 - 1 = 1
    BY <1>1
  <2> QED BY <1>1, <1>2, <2>1
<1> QED BY <1>1, <1>2, <1>3, <1>4 DEF types, k

\* Three events.
LEMMA ThreeEvents ==
    ASSUME NEW stream \in Seq(AuditEvents), NEW first \in EventTypes, NEW second \in EventTypes,
           NEW third \in EventTypes,
           NEW t \in Written, NEW n \in Nat
    PROVE  /\ Len(stream) \in Nat
           /\ Audit(Linked(stream, <<first, second, third>>, t, n)) =
                  Turn(Turn(Turn(Audit(stream), Event(first, t, n, Len(stream))),
                       Event(second, t, n, Len(stream) + 1)),
                       Event(third, t, n, Len(stream) + 2))
<1> DEFINE types == <<first, second, third>>
           k == Len(stream)
<1>1. /\ types \in TypeLists /\ Len(types) = 3 /\ k \in Nat
      /\ types[1] = first /\ types[2] = second /\ types[3] = third
  BY DEF TypeLists
<1> HIDE DEF types, k
<1>2. PICK a : /\ a[0] = Audit(stream)
               /\ \A i \in 1..Len(types) : a[i] = Turn(a[i - 1], Event(types[i], t, n, k + i - 1))
               /\ a[Len(types)] = Audit(Linked(stream, types, t, n))
  BY <1>1, AuditSteps DEF k
<1>3. a[1] = Turn(a[0], Event(first, t, n, k))
  <2>1. 1 \in 1..Len(types) /\ k + 1 - 1 = k /\ 1 - 1 = 0
    BY <1>1
  <2> QED BY <1>1, <1>2, <2>1
<1>4. a[2] = Turn(a[1], Event(second, t, n, k + 1))
  <2>1. 2 \in 1..Len(types) /\ k + 2 - 1 = k + 1 /\ 2 - 1 = 1
    BY <1>1
  <2> QED BY <1>1, <1>2, <2>1
<1>5. a[3] = Turn(a[2], Event(third, t, n, k + 2))
  <2>1. 3 \in 1..Len(types) /\ k + 3 - 1 = k + 2 /\ 3 - 1 = 2
    BY <1>1
  <2> QED BY <1>1, <1>2, <2>1
<1> QED BY <1>1, <1>2, <1>3, <1>4, <1>5 DEF types, k

\* Four events.
LEMMA FourEvents ==
    ASSUME NEW stream \in Seq(AuditEvents), NEW first \in EventTypes, NEW second \in EventTypes,
           NEW third \in EventTypes, NEW fourth \in EventTypes,
           NEW t \in Written, NEW n \in Nat
    PROVE  /\ Len(stream) \in Nat
           /\ Audit(Linked(stream, <<first, second, third, fourth>>, t, n)) =
                  Turn(Turn(Turn(Turn(Audit(stream), Event(first, t, n, Len(stream))),
                       Event(second, t, n, Len(stream) + 1)),
                       Event(third, t, n, Len(stream) + 2)),
                       Event(fourth, t, n, Len(stream) + 3))
<1> DEFINE types == <<first, second, third, fourth>>
           k == Len(stream)
<1>1. /\ types \in TypeLists /\ Len(types) = 4 /\ k \in Nat
      /\ types[1] = first /\ types[2] = second /\ types[3] = third /\ types[4] = fourth
  BY DEF TypeLists
<1> HIDE DEF types, k
<1>2. PICK a : /\ a[0] = Audit(stream)
               /\ \A i \in 1..Len(types) : a[i] = Turn(a[i - 1], Event(types[i], t, n, k + i - 1))
               /\ a[Len(types)] = Audit(Linked(stream, types, t, n))
  BY <1>1, AuditSteps DEF k
<1>3. a[1] = Turn(a[0], Event(first, t, n, k))
  <2>1. 1 \in 1..Len(types) /\ k + 1 - 1 = k /\ 1 - 1 = 0
    BY <1>1
  <2> QED BY <1>1, <1>2, <2>1
<1>4. a[2] = Turn(a[1], Event(second, t, n, k + 1))
  <2>1. 2 \in 1..Len(types) /\ k + 2 - 1 = k + 1 /\ 2 - 1 = 1
    BY <1>1
  <2> QED BY <1>1, <1>2, <2>1
<1>5. a[3] = Turn(a[2], Event(third, t, n, k + 2))
  <2>1. 3 \in 1..Len(types) /\ k + 3 - 1 = k + 2 /\ 3 - 1 = 2
    BY <1>1
  <2> QED BY <1>1, <1>2, <2>1
<1>6. a[4] = Turn(a[3], Event(fourth, t, n, k + 3))
  <2>1. 4 \in 1..Len(types) /\ k + 4 - 1 = k + 3 /\ 4 - 1 = 3
    BY <1>1
  <2> QED BY <1>1, <1>2, <2>1
<1> QED BY <1>1, <1>2, <1>3, <1>4, <1>5, <1>6 DEF types, k

\* An approval is asked for and the task moves.
LEMMA RequestMove ==
    ASSUME NEW stream \in Seq(AuditEvents), NEW t \in Written, NEW n \in Nat,
           NEW stage \in Stages, NEW version \in Nat, NEW rows,
           Audit(stream) = Heard(Len(stream), stage, version, rows, {}), Due("approval.requested", rows, n),
           t.stage = "APPROVAL", t.stage \in ALLOWED_TRANSITIONS[stage], t.version > version
    PROVE  Audit(Linked(stream, <<"approval.requested", "state.transitioned">>, t, n)) =
               Heard(Len(stream) + 2, t.stage, t.version, Saved(rows, n, Becomes["approval.requested"]), {})
<1> DEFINE k == Len(stream)
           more == Saved(rows, n, Becomes["approval.requested"])
           said == {"approval.requested"}
<1>1. /\ k \in Nat /\ k + 1 \in Nat /\ (k + 1) + 1 = k + 2
      /\ Audit(Linked(stream, <<"approval.requested", "state.transitioned">>, t, n)) =
             Turn(Turn(Audit(stream), Event("approval.requested", t, n, k)),
                  Event("state.transitioned", t, n, k + 1))
  BY TwoEvents, EventTypeShape DEF ApprovalTypes
<1>2. said = Announcements(t.stage)
  BY EventTypeShape DEF Announcements
<1>3. "approval.requested" \in ApprovalTypes \cap Announcing
  BY EventTypeShape DEF ApprovalTypes
<1> HIDE DEF k
<1>4. Turn(Heard(k, stage, version, rows, {}), Event("approval.requested", t, n, k)) =
          Heard(k + 1, stage, version, more, said)
  BY <1>1, AskTurn
<1> HIDE DEF said, more
<1>5. Turn(Heard(k + 1, stage, version, more, said), Event("state.transitioned", t, n, k + 1)) =
          Heard((k + 1) + 1, t.stage, t.version, more, {})
  BY <1>1, <1>2, MovedTurn
<1> QED BY <1>1, <1>4, <1>5 DEF k, more

\* The gate passes, the decision is written and the task moves.
LEMMA DecideMove ==
    ASSUME NEW stream \in Seq(AuditEvents), NEW t \in Written, NEW n \in Nat,
           NEW stage \in Stages, NEW version \in Nat, NEW rows,
           Audit(stream) = Heard(Len(stream), stage, version, rows, {}),
           t.stage = "DECIDE", t.stage \in ALLOWED_TRANSITIONS[stage], t.version > version
    PROVE  Audit(Linked(stream,
                        <<"evidence.gate.passed", "decision.committed", "state.transitioned">>,
                        t, n)) =
               Heard(Len(stream) + 3, t.stage, t.version, rows, {})
<1> DEFINE k == Len(stream)
           passed == {} \cup {"evidence.gate.passed"}
           said == passed \cup {"decision.committed"}
<1>1. /\ k \in Nat /\ k + 1 \in Nat /\ k + 2 \in Nat /\ (k + 1) + 1 = k + 2 /\ (k + 2) + 1 = k + 3
      /\ Audit(Linked(stream,
                      <<"evidence.gate.passed", "decision.committed", "state.transitioned">>,
                      t, n)) =
             Turn(Turn(Turn(Audit(stream), Event("evidence.gate.passed", t, n, k)),
                       Event("decision.committed", t, n, k + 1)),
                  Event("state.transitioned", t, n, k + 2))
  BY ThreeEvents, EventTypeShape
<1>2. said = Announcements(t.stage)
  BY DEF Announcements
<1>3. /\ {} \in SUBSET Announcing /\ "evidence.gate.passed" \notin {}
      /\ "evidence.gate.passed" \in Announcing \ ApprovalTypes
      /\ passed \in SUBSET Announcing /\ "decision.committed" \notin passed
      /\ "decision.committed" \in Announcing \ ApprovalTypes
  BY EventTypeShape DEF ApprovalTypes
<1> HIDE DEF k
<1>4. Turn(Heard(k, stage, version, rows, {}), Event("evidence.gate.passed", t, n, k)) =
          Heard(k + 1, stage, version, rows, passed)
  BY <1>1, <1>3, AnnouncedTurn
<1> HIDE DEF passed
<1>5. Turn(Heard(k + 1, stage, version, rows, passed), Event("decision.committed", t, n, k + 1)) =
          Heard(k + 2, stage, version, rows, said)
  BY <1>1, <1>3, AnnouncedTurn
<1> HIDE DEF said
<1>6. Turn(Heard(k + 2, stage, version, rows, said), Event("state.transitioned", t, n, k + 2)) =
          Heard(k + 3, t.stage, t.version, rows, {})
  BY <1>1, <1>2, MovedTurn
<1> QED BY <1>1, <1>4, <1>5, <1>6 DEF k

\* A token is consumed, the experiment is submitted and the task moves.
LEMMA SpendMove ==
    ASSUME NEW stream \in Seq(AuditEvents), NEW t \in Written, NEW n \in Nat,
           NEW stage \in Stages, NEW version \in Nat, NEW rows,
           Audit(stream) = Heard(Len(stream), stage, version, rows, {}),
           Due("approval.token.consumed", rows, n),
           t.stage = "EXECUTE", t.stage \in ALLOWED_TRANSITIONS[stage], t.version > version
    PROVE  Audit(Linked(stream, <<"approval.token.consumed", "evidence.recorded",
                                  "experiment.submitted", "state.transitioned">>, t, n)) =
               Heard(Len(stream) + 4, t.stage, t.version, Saved(rows, n, Becomes["approval.token.consumed"]), {})
<1> DEFINE k == Len(stream)
           more == Saved(rows, n, Becomes["approval.token.consumed"])
           spent == {"approval.token.consumed"}
           said == spent \cup {"experiment.submitted"}
<1>1. /\ k \in Nat /\ k + 1 \in Nat /\ k + 2 \in Nat /\ k + 3 \in Nat
      /\ (k + 1) + 1 = k + 2 /\ (k + 2) + 1 = k + 3 /\ (k + 3) + 1 = k + 4
      /\ Audit(Linked(stream, <<"approval.token.consumed", "evidence.recorded",
                                "experiment.submitted", "state.transitioned">>, t, n)) =
             Turn(Turn(Turn(Turn(Audit(stream), Event("approval.token.consumed", t, n, k)),
                            Event("evidence.recorded", t, n, k + 1)),
                       Event("experiment.submitted", t, n, k + 2)),
                  Event("state.transitioned", t, n, k + 3))
  <2>1. {"approval.token.consumed", "evidence.recorded", "experiment.submitted",
         "state.transitioned"} \subseteq EventTypes
    BY EventTypeShape DEF PlainTypes, ApprovalTypes
  <2> QED BY <2>1, FourEvents
<1>2. said = Announcements(t.stage)
  BY EventTypeShape DEF Announcements
<1>3. "approval.token.consumed" \in ApprovalTypes \cap Announcing
  BY EventTypeShape DEF ApprovalTypes
<1>4. /\ spent \in SUBSET Announcing /\ "experiment.submitted" \notin spent
      /\ "experiment.submitted" \in Announcing \ ApprovalTypes
      /\ "evidence.recorded" \in PlainTypes
  BY EventTypeShape DEF ApprovalTypes, PlainTypes
<1> HIDE DEF k
<1>5. Turn(Heard(k, stage, version, rows, {}), Event("approval.token.consumed", t, n, k)) =
          Heard(k + 1, stage, version, more, spent)
  BY <1>1, SpendTurn
<1> HIDE DEF spent, more
<1>6. Turn(Heard(k + 1, stage, version, more, spent), Event("evidence.recorded", t, n, k + 1)) =
          Heard(k + 2, stage, version, more, spent)
  BY <1>1, <1>4, PlainTurn
<1>7. Turn(Heard(k + 2, stage, version, more, spent), Event("experiment.submitted", t, n, k + 2)) =
          Heard(k + 3, stage, version, more, said)
  BY <1>1, <1>4, AnnouncedTurn
<1> HIDE DEF said
<1>8. Turn(Heard(k + 3, stage, version, more, said), Event("state.transitioned", t, n, k + 3)) =
          Heard(k + 4, t.stage, t.version, more, {})
  BY <1>1, <1>2, MovedTurn
<1> QED BY <1>1, <1>5, <1>6, <1>7, <1>8 DEF k, more

\* An approval is decided.
LEMMA DecisionEvents ==
    ASSUME NEW stream \in Seq(AuditEvents), NEW t \in Written, NEW n \in Nat,
           NEW stage \in Stages, NEW version \in Nat, NEW rows,
           Audit(stream) = Heard(Len(stream), stage, version, rows, {}),
           NEW type \in {"approval.approved", "approval.denied"},
           n \in DOMAIN rows, rows[n] = "PENDING"
    PROVE  Audit(Linked(stream, <<type>>, t, n)) =
               Heard(Len(stream) + 1, stage, version, Saved(rows, n, Becomes[type]), {})
<1> DEFINE k == Len(stream)
<1>1. /\ k \in Nat
      /\ Audit(Linked(stream, <<type>>, t, n)) = Turn(Audit(stream), Event(type, t, n, k))
  BY OneEvent, EventTypeShape DEF ApprovalTypes
<1>2. Due(type, rows, n) /\ type \in ApprovalTypes
  BY DEF Due, ApprovalTypes
<1>3. {} \in SUBSET Announcing /\ type \in ApprovalTypes \ Announcing
  BY <1>2, EventTypeShape
<1> HIDE DEF k
<1>4. Turn(Heard(k, stage, version, rows, {}), Event(type, t, n, k)) =
          Heard(k + 1, stage, version, Saved(rows, n, Becomes[type]), {})
  BY <1>1, <1>2, <1>3, DecidedTurn
<1> QED BY <1>1, <1>4 DEF k

\* The gate fails.
LEMMA GateEvents ==
    ASSUME NEW stream \in Seq(AuditEvents), NEW t \in Written, NEW n \in Nat,
           NEW stage \in Stages, NEW version \in Nat, NEW rows,
           Audit(stream) = Heard(Len(stream), stage, version, rows, {})
    PROVE  Audit(Linked(stream, <<"evidence.gate.failed">>, t, n)) =
               Heard(Len(stream) + 1, stage, version, rows, {})
<1>1. /\ "evidence.gate.failed" \in PlainTypes /\ "evidence.gate.failed" \in EventTypes
      /\ {} \in SUBSET Announcing
  BY EventTypeShape DEF PlainTypes
<1> QED BY <1>1, OneEvent, PlainTurn

\* A generation begins.
LEMMA SeedEvents ==
    ASSUME NEW t \in Written, NEW n \in Nat
    PROVE  /\ Audit(Linked(<<>>, SeedTypes, t, n)) = Heard(2, "INTAKE", 1, <<>>, {})
           /\ Linked(<<>>, SeedTypes, t, n) \in Seq(AuditEvents)
           /\ Len(Linked(<<>>, SeedTypes, t, n)) = 2
           /\ Audit(<<>>) = Heard(0, "INTAKE", 1, <<>>, {})
<1>1. /\ <<>> \in Seq(AuditEvents) /\ Len(<<>>) = 0 /\ SeedTypes \in TypeLists
      /\ Len(SeedTypes) = 2 /\ "INTAKE" \in Stages
      /\ {"demo.reset", "research.goal.frozen"} \subseteq PlainTypes
      /\ {} \in SUBSET Announcing
  BY EventTypeShape, TypeListShape, TransitionShape DEF SeedTypes, PlainTypes
<1>2. Audit(<<>>) = Heard(0, "INTAKE", 1, <<>>, {})
  <2>1. PICK f : Replays(<<>>, 0, f)
    BY ReplayExists
  <2>2. Audit(<<>>) = f[0]
    BY <1>1, <2>1, AuditReplays
  <2>3. f[0] = NewAudit
    BY <2>1 DEF Replays
  <2> QED BY <2>2, <2>3 DEF NewAudit, Heard
<1>3. Audit(Linked(<<>>, SeedTypes, t, n)) =
          Turn(Turn(Audit(<<>>), Event("demo.reset", t, n, 0)),
               Event("research.goal.frozen", t, n, 1))
  <2>1. "demo.reset" \in EventTypes /\ "research.goal.frozen" \in EventTypes
    BY <1>1, EventTypeShape
  <2>2. PICK empty \in Seq(AuditEvents) : empty = <<>> /\ Len(empty) = 0
    BY <1>1
  <2>3. Audit(Linked(empty, <<"demo.reset", "research.goal.frozen">>, t, n)) =
            Turn(Turn(Audit(empty), Event("demo.reset", t, n, Len(empty))),
                 Event("research.goal.frozen", t, n, Len(empty) + 1))
    BY <2>1, TwoEvents
  <2>4. Len(empty) = 0 /\ Len(empty) + 1 = 1
    BY <2>2
  <2>5. Audit(Linked(empty, <<"demo.reset", "research.goal.frozen">>, t, n)) =
            Turn(Turn(Audit(empty), Event("demo.reset", t, n, 0)),
                 Event("research.goal.frozen", t, n, 1))
    BY <2>3, <2>4
  <2> QED BY <2>2, <2>5 DEF SeedTypes
<1>4. Turn(Heard(0, "INTAKE", 1, <<>>, {}), Event("demo.reset", t, n, 0)) =
          Heard(1, "INTAKE", 1, <<>>, {})
  <2>1. Turn(Heard(0, "INTAKE", 1, <<>>, {}), Event("demo.reset", t, n, 0)) =
            Heard(0 + 1, "INTAKE", 1, <<>>, {})
    BY <1>1, PlainTurn
  <2> QED BY <2>1
<1>5. Turn(Heard(1, "INTAKE", 1, <<>>, {}), Event("research.goal.frozen", t, n, 1)) =
          Heard(2, "INTAKE", 1, <<>>, {})
  <2>1. Turn(Heard(1, "INTAKE", 1, <<>>, {}), Event("research.goal.frozen", t, n, 1)) =
            Heard(1 + 1, "INTAKE", 1, <<>>, {})
    BY <1>1, PlainTurn
  <2> QED BY <2>1
<1>6. /\ Linked(<<>>, SeedTypes, t, n) \in Seq(AuditEvents)
      /\ Len(Linked(<<>>, SeedTypes, t, n)) = 0 + 2
  <2>1. PICK empty \in Seq(AuditEvents) : empty = <<>> /\ Len(empty) = 0
    BY <1>1
  <2>2. /\ Linked(empty, SeedTypes, t, n) \in Seq(AuditEvents)
        /\ Len(Linked(empty, SeedTypes, t, n)) = Len(empty) + Len(SeedTypes)
    BY <1>1, LinkedShape, ZenonT(60)
  <2> QED BY <1>1, <2>1, <2>2
<1> QED BY <1>2, <1>3, <1>4, <1>5, <1>6

-----------------------------------------------------------------------------
(* The commit.                                                             *)

\* What a commit writes, and what it relies on.
LEMMA CommitShape ==
    ASSUME RInv, NEW s \in Sessions, Commit(s)
    PROVE  /\ InTransaction(s) /\ Serves(s) /\ KeyHeld(s) /\ lock[TaskLock] = s
           /\ Shapes /\ ApprovalsFit /\ session[s] \in Calls /\ session[s].request = Request(s)
           /\ Request(s) \in Requests /\ Writes(s)
           /\ task' = session[s].task /\ task \in TaskRows /\ task' \in TaskRows
           /\ task'.generation = task.generation \/ Resets(s)
           /\ Resets(s) => task'.generation = task.generation + 1
           /\ approvals' = IF session[s].approval = "none" THEN approvals
                           ELSE [approvals EXCEPT ![task'.generation] =
                                    Saved(@, session[s].number, session[s].approval)]
           /\ events' = [events EXCEPT ![task'.generation] =
                            Linked(@, session[s].types, task', session[s].number)]
           /\ End(s, session[s].answer)
<1>1. /\ InTransaction(s) /\ Serves(s) /\ KeyHeld(s) /\ Working(s) /\ lock[TaskLock] = s
      /\ Shapes /\ session[s] \in Calls /\ session[s].request = Request(s)
      /\ Request(s) \in Requests
  BY WorkingShape DEF Commit, At
<1>2. Writes(s)
  BY <1>1 DEF Commit, At, Working, Awaits
<1>3. task' = session[s].task
  BY <1>1, <1>2 DEF Commit, Writes, Decides, Advances, Spends, Moves, Blocked, Resets
<1>4. task \in TaskRows
  BY <1>1 DEF Shapes
<1>5. /\ session[s].task.generation \in Generations
      /\ session[s].task.generation = task.generation \/ Resets(s)
      /\ Resets(s) => session[s].task.generation = task.generation + 1
  BY <1>1, WrittenGeneration
<1>6. task' \in TaskRows
  <2>1. session[s].task \in Written
    BY <1>1 DEF Calls
  <2> QED BY <1>3, <1>5, <2>1 DEF Written, TaskRows
<1> QED BY <1>1, <1>2, <1>3, <1>4, <1>5, <1>6 DEF Commit, RInv

\* save_approval: a row is written over, or comes at the end.
LEMMA SavedShape ==
    ASSUME NEW rows \in Seq(Statuses), NEW n \in 1..(Len(rows) + 1), NEW status \in Statuses
    PROVE  LET more == Saved(rows, n, status)
           IN  /\ more \in Seq(Statuses) /\ more[n] = status /\ n \in DOMAIN more
               /\ Len(more) = IF n \in DOMAIN rows THEN Len(rows) ELSE Len(rows) + 1
               /\ \A i \in DOMAIN rows : i \in DOMAIN more /\ (i # n => more[i] = rows[i])
<1>1. Len(rows) \in Nat /\ DOMAIN rows = 1..Len(rows)
  OBVIOUS
<1>2. CASE n \in DOMAIN rows
  <2>1. Saved(rows, n, status) = [rows EXCEPT ![n] = status]
    BY <1>2 DEF Saved
  <2> QED BY <1>1, <1>2, <2>1
<1>3. CASE n \notin DOMAIN rows
  <2>1. Saved(rows, n, status) = Append(rows, status)
    BY <1>3 DEF Saved
  <2>3. n = Len(rows) + 1
    BY <1>1, <1>3
  <2>2. /\ Append(rows, status) \in Seq(Statuses)
        /\ Len(Append(rows, status)) = Len(rows) + 1
        /\ \A i \in 1..Len(rows) : Append(rows, status)[i] = rows[i]
        /\ Append(rows, status)[Len(rows) + 1] = status
    BY AppendProperties
  <2> QED BY <1>1, <1>3, <2>1, <2>2, <2>3
<1> QED BY <1>2, <1>3

\* The approval a commit writes: the row is locked, or it is a new one and there is room.
LEMMA CommitWrites ==
    ASSUME RInv, NEW s \in Sessions, Commit(s), session[s].approval # "none"
    PROVE  LET g == task.generation
               n == session[s].number
           IN  /\ task'.generation = g /\ g \in Generations
               /\ approvals[g] \in Seq(Statuses) /\ Len(approvals[g]) = Requested
               /\ Requested \in Nat /\ Requested <= MaxApprovals /\ DOMAIN approvals[g] = 1..Requested
               /\ n \in 1..(Requested + 1) /\ session[s].approval \in Statuses
               /\ n <= Requested => /\ session[s].approval # "PENDING"
                                    /\ lock[ApprovalLock(<<g, n>>)] = s
               /\ n = Requested + 1 => Requested < MaxApprovals
               /\ approvals'[g] = Saved(approvals[g], n, session[s].approval)
               /\ \A h \in Generations : h # g => approvals'[h] = approvals[h]
<1> DEFINE g == task.generation
           n == session[s].number
<1>1. /\ Shapes /\ ApprovalsFit /\ Writes(s) /\ g \in Generations /\ session[s] \in Calls
      /\ Request(s) \in Requests
      /\ task'.generation = g \/ Resets(s)
      /\ approvals' = [approvals EXCEPT ![task'.generation] = Saved(@, n, session[s].approval)]
  BY CommitShape DEF TaskRows
<1>2. task'.generation = g
  BY <1>1 DEF Resets
<1>3. /\ approvals[g] \in Seq(Statuses) /\ Len(approvals[g]) = Requested
      /\ approvals'[g] = Saved(approvals[g], n, session[s].approval)
      /\ \A h \in Generations : h # g => approvals'[h] = approvals[h]
  BY <1>1, <1>2 DEF Shapes, Requested
<1>4. /\ Requested \in Nat /\ Requested <= MaxApprovals /\ DOMAIN approvals[g] = 1..Requested
  BY <1>1, LatestShape
<1>5. session[s].approval \in Statuses
  BY <1>1 DEF Calls
<1>6. /\ n \in 1..(Requested + 1)
      /\ n <= Requested => session[s].approval # "PENDING" /\ lock[ApprovalLock(<<g, n>>)] = s
      /\ n = Requested + 1 => Requested < MaxApprovals
  <2>1. CASE Decides(s)
    <3>1. /\ Request(s).of[1] = g /\ Request(s).of[2] = n /\ Request(s).of \in Approvals
          /\ Present(Request(s).of) /\ lock[ApprovalLock(Request(s).of)] = s
          /\ session[s].approval = Decided(Request(s))
      BY <1>1, <2>1, RequestShape DEF Decides
    <3>2. Request(s).of = <<g, n>>
      BY <3>1 DEF Approvals
    <3>3. n \in 1..Requested
      BY <1>4, <3>1 DEF Present
    <3>4. session[s].approval # "PENDING"
      BY <3>1 DEF Decided
    <3> HIDE DEF g, n
    <3> QED BY <1>4, <3>1, <3>2, <3>3, <3>4
  <2>2. CASE Spends(s)
    <3>1. /\ n = Requested /\ Requested > 0 /\ session[s].approval = "CONSUMED"
          /\ lock[ApprovalLock(Latest(g))] = s /\ Latest(g) = <<g, n>>
      BY <2>2 DEF Spends, Latest, Requested
    <3> HIDE DEF g, n
    <3> QED BY <1>4, <3>1
  <2>3. CASE Advances(s)
    <3>1. n = Requested + 1 /\ Requested < MaxApprovals
      BY <2>3 DEF Advances
    <3> HIDE DEF g, n
    <3> QED BY <1>4, <3>1
  <2>4. CASE Blocked(s) \/ Resets(s)
    BY <2>4 DEF Blocked, Resets
  <2> QED BY <1>1, <2>1, <2>2, <2>3, <2>4 DEF Writes
<1> QED BY <1>1, <1>2, <1>3, <1>4, <1>5, <1>6

\* The approvals keep their type and their bound, and a row changes where it is locked.
LEMMA CommitApprovals ==
    ASSUME RInv, NEW s \in Sessions, Commit(s)
    PROVE  /\ approvals' \in [Generations -> Seq(Statuses)] /\ ApprovalsFit'
           /\ \A a \in Approvals : Present(a) =>
                 /\ Present(a)'
                 /\ \/ Status(a)' = Status(a)
                    \/ lock[ApprovalLock(a)] = s /\ Status(a)' # "PENDING"
<1>1. /\ Shapes /\ ApprovalsFit /\ task \in TaskRows /\ task' \in TaskRows
      /\ task'.generation >= task.generation
      /\ session[s].approval = "none" => approvals' = approvals
      /\ session[s].approval # "none" =>
           approvals' = [approvals EXCEPT ![task'.generation] =
                            Saved(@, session[s].number, session[s].approval)]
  BY CommitShape DEF TaskRows, Generations
<1>2. CASE session[s].approval = "none"
  <2>1. ApprovalsFit'
    <3>1. \A g \in Generations : g > task'.generation => g > task.generation
      BY <1>1 DEF TaskRows, Generations
    <3> QED BY <1>1, <1>2, <3>1 DEF ApprovalsFit
  <2> QED BY <1>1, <1>2, <2>1 DEF Shapes, Present, Status
<1>3. CASE session[s].approval # "none"
  <2> DEFINE g == task.generation
             n == session[s].number
             status == session[s].approval
  <2>1. /\ task'.generation = g /\ g \in Generations
        /\ approvals[g] \in Seq(Statuses) /\ Len(approvals[g]) = Requested
        /\ Requested \in Nat /\ Requested <= MaxApprovals /\ DOMAIN approvals[g] = 1..Requested
        /\ n \in 1..(Requested + 1) /\ status \in Statuses
        /\ n <= Requested => /\ status # "PENDING"
                             /\ lock[ApprovalLock(<<g, n>>)] = s
        /\ n = Requested + 1 => Requested < MaxApprovals
        /\ approvals'[g] = Saved(approvals[g], n, status)
        /\ \A h \in Generations : h # g => approvals'[h] = approvals[h]
    BY <1>3, CommitWrites
  <2> HIDE DEF n, g, status
  <2>2. /\ approvals'[g] \in Seq(Statuses) /\ approvals'[g][n] = status
        /\ Len(approvals'[g]) = IF n \in DOMAIN approvals[g] THEN Requested ELSE Requested + 1
        /\ \A i \in DOMAIN approvals[g] :
              i \in DOMAIN approvals'[g] /\ (i # n => approvals'[g][i] = approvals[g][i])
    <3>1. approvals[g] \in Seq(Statuses) /\ n \in 1..(Len(approvals[g]) + 1)
      BY <2>1
    <3>2. LET more == Saved(approvals[g], n, status)
          IN  /\ more \in Seq(Statuses) /\ more[n] = status
              /\ Len(more) = IF n \in DOMAIN approvals[g] THEN Len(approvals[g])
                             ELSE Len(approvals[g]) + 1
              /\ \A i \in DOMAIN approvals[g] :
                    i \in DOMAIN more /\ (i # n => more[i] = approvals[g][i])
      BY <2>1, <3>1, SavedShape
    <3> QED BY <2>1, <3>2
  <2>3. approvals' \in [Generations -> Seq(Statuses)]
    <3>1. DOMAIN approvals' = Generations /\ approvals' = [h \in Generations |-> approvals'[h]]
      BY <1>1, <1>3 DEF Shapes
    <3>2. \A h \in Generations : approvals'[h] \in Seq(Statuses)
      BY <1>1, <2>1, <2>2 DEF Shapes
    <3> QED BY <3>1, <3>2
  <2>4. ApprovalsFit'
    <3>1. Len(approvals'[g]) <= MaxApprovals
      BY <2>1, <2>2, Bounds
    <3>2. \A h \in Generations : h > task'.generation => h # g
      BY <2>1 DEF Generations
    <3> QED BY <1>1, <2>1, <3>1, <3>2 DEF ApprovalsFit, g
  <2>5. ASSUME NEW a \in Approvals, Present(a)
        PROVE  /\ Present(a)'
               /\ \/ Status(a)' = Status(a)
                  \/ lock[ApprovalLock(a)] = s /\ Status(a)' # "PENDING"
    <3>1. a[1] \in Generations /\ a[2] \in Nat /\ a = <<a[1], a[2]>>
      BY DEF Approvals
    <3>2. CASE a[1] # g
      BY <2>1, <2>5, <3>1, <3>2 DEF Present, Status
    <3>3. CASE a[1] = g /\ a[2] # n
      <4>1. a[2] \in DOMAIN approvals[g]
        BY <2>5, <3>3 DEF Present
      <4>2. a[2] \in DOMAIN approvals'[g] /\ approvals'[g][a[2]] = approvals[g][a[2]]
        <5>1. PICK i \in DOMAIN approvals[g] : i = a[2] /\ i # n
          BY <3>3, <4>1
        <5>2. i \in DOMAIN approvals'[g] /\ approvals'[g][i] = approvals[g][i]
          BY <2>2, <5>1
        <5> QED BY <5>1, <5>2
      <4> QED BY <3>3, <4>2 DEF Present, Status
    <3>4. CASE a[1] = g /\ a[2] = n
      <4>1. n \in DOMAIN approvals[g] /\ n <= Requested
        BY <2>1, <2>5, <3>4 DEF Present
      <4>2. lock[ApprovalLock(a)] = s
        BY <2>1, <3>1, <3>4, <4>1
      <4> QED BY <2>1, <2>2, <3>4, <4>1, <4>2 DEF Present, Status
    <3> QED BY <3>2, <3>3, <3>4
  <2> QED BY <2>3, <2>4, <2>5
<1> QED BY <1>2, <1>3

\* The tables keep their types.
LEMMA CommitShapes ==
    ASSUME RInv, NEW s \in Sessions, Commit(s)
    PROVE  LET g == task'.generation
           IN  /\ Shapes' /\ LocksFreed'
               /\ g \in Generations /\ events[g] \in Seq(AuditEvents) /\ task' \in Written
               /\ session[s].types \in TypeLists /\ session[s].number \in Nat
               /\ events'[g] = Linked(events[g], session[s].types, task', session[s].number)
               /\ \A h \in Generations : h # g => events'[h] = events[h]
<1> DEFINE g == task'.generation
           types == session[s].types
           n == session[s].number
<1>1. /\ InTransaction(s) /\ Shapes /\ session[s] \in Calls /\ session[s].request = Request(s)
      /\ Request(s) \in Requests /\ task' \in TaskRows /\ task' = session[s].task
      /\ events' = [events EXCEPT ![g] = Linked(@, types, task', n)]
      /\ End(s, session[s].answer)
  BY CommitShape
<1>2. /\ types \in TypeLists /\ n \in Nat /\ task' \in Written /\ g \in Generations
      /\ session[s].answer \in [code: {"ok", "blocked"}, token: BOOLEAN]
  BY <1>1 DEF Calls, TaskRows
<1>3. session[s].answer \in [code: {"ok", "blocked", "replay", "error"}, token: BOOLEAN]
  BY <1>2
<1>4. /\ session' \in [Sessions -> {Idle} \cup Calls \cup Answers] /\ LocksFreed'
      /\ lock' \in [Locks -> Sessions \cup {Free}]
  BY <1>1, <1>3, EndWritten DEF RInv
<1>5. approvals' \in [Generations -> Seq(Statuses)]
  BY CommitApprovals
<1>6. events \in [Generations -> Seq(AuditEvents)] /\ events[g] \in Seq(AuditEvents)
  BY <1>1, <1>2 DEF Shapes
<1> HIDE DEF g, types, n
<1>7. Linked(events[g], types, task', n) \in Seq(AuditEvents)
  BY <1>2, <1>6, LinkedShape
<1>8. /\ events'[g] = Linked(events[g], types, task', n)
      /\ \A h \in Generations : h # g => events'[h] = events[h]
      /\ events' \in [Generations -> Seq(AuditEvents)]
  BY <1>1, <1>2, <1>6, <1>7
<1>9. idempotency' \in [Rows -> [body: Bodies, token: {FALSE}, present: BOOLEAN]]
  <2>1. idempotency' = Recorded(s)
    BY DEF Commit
  <2>2. Keyed(Request(s)) => Body(Request(s)) \in Bodies
    BY <1>1, RowShape
  <2> QED BY <1>1, <2>1, <2>2 DEF Recorded, Cached, Shapes
<1>10. executed' \in [Requests -> [ok: Nat, blocked: Nat]]
  <2> DEFINE r == Request(s)
             code == session[s].answer.code
  <2>1. executed' = [executed EXCEPT ![r][code] = @ + 1]
    BY <1>1 DEF Commit
  <2>2. code \in {"ok", "blocked"} /\ r \in Requests
    BY <1>1, <1>2
  <2>3. executed[r] \in [ok: Nat, blocked: Nat]
    BY <1>1, <2>2 DEF Shapes
  <2> HIDE DEF r, code
  <2>4. [executed[r] EXCEPT ![code] = @ + 1] \in [ok: Nat, blocked: Nat]
    BY <2>2, <2>3
  <2> QED BY <1>1, <2>1, <2>2, <2>4 DEF Shapes
<1>11. UNCHANGED <<tokens, sends>>
  BY DEF Commit, clients
<1>12. Shapes'
  BY <1>1, <1>4, <1>5, <1>8, <1>9, <1>10, <1>11 DEF Shapes
<1> QED BY <1>2, <1>4, <1>6, <1>8, <1>12 DEF g, types, n

\* The sessions that wait for the task row keep what they have read, and their keys.
LEMMA CommitServes ==
    ASSUME RInv, NEW s \in Sessions, Commit(s)
    PROVE  AllServe'
<1>1. /\ InTransaction(s) /\ Shapes /\ LocksFreed /\ lock[TaskLock] = s /\ KeyHeld(s)
      /\ Request(s) \in Requests /\ session[s] \in Calls /\ End(s, session[s].answer)
      /\ session[s].request = Request(s)
  BY CommitShape DEF RInv
<1>2. session[s].answer \in [code: {"ok", "blocked", "replay", "error"}, token: BOOLEAN]
  BY <1>1 DEF Calls
<1>3. /\ session'[s].pc = "answer" /\ \A u \in Sessions \ {s} : session'[u] = session[u]
      /\ ~InTransaction(s)'
      /\ \A l \in Locks : lock[l] # s => lock'[l] = lock[l]
  <2>1. /\ session'[s] = [pc |-> "answer", request |-> Request(s), answer |-> session[s].answer]
        /\ \A u \in Sessions \ {s} : session'[u] = session[u]
        /\ ~InTransaction(s)'
        /\ \A l \in Locks : lock'[l] # s /\ (lock[l] # s => lock'[l] = lock[l])
    BY <1>1, <1>2, EndWritten
  <2> QED BY <2>1
<1> SUFFICES ASSUME NEW u \in Sessions, InTransaction(u)' PROVE Serves(u)'
  BY DEF AllServe
<1>4. u # s
  BY <1>3
<1>5. session'[u] = session[u] /\ InTransaction(u) /\ Serves(u)
  BY <1>3, <1>4 DEF InTransaction, RInv, AllServe
<1>6. Request(u)' = Request(u) /\ \A pc : At(u, pc)' = At(u, pc)
  BY <1>5 DEF Request, At
<1>7. \A l \in Locks : lock[l] = u => lock'[l] = u
  BY <1>3, <1>4
<1>8. Request(u) \in Requests
  BY <1>1, <1>5, SessionShape
<1>9. KeyHeld(u) => KeyHeld(u)'
  <2> SUFFICES ASSUME KeyHeld(u), Keyed(Request(u))
               PROVE  lock'[KeyLock(Request(u))] = u /\ ~idempotency'[Row(Request(u))].present
    BY <1>6 DEF KeyHeld
  <2>1. lock[KeyLock(Request(u))] = u /\ ~idempotency[Row(Request(u))].present
    BY DEF KeyHeld
  <2>2. lock'[KeyLock(Request(u))] = u
    BY <1>7, <1>8, <2>1, LockShape
  <2>3. Keyed(Request(s)) => Row(Request(s)) # Row(Request(u))
    BY <1>1, <1>4, <2>1 DEF KeyHeld, KeyLock
  <2>4. idempotency' = Recorded(s)
    BY DEF Commit
  <2>5. Row(Request(u)) \in Rows
    BY <1>8, RowShape
  <2>6. idempotency'[Row(Request(u))] = idempotency[Row(Request(u))]
    BY <1>1, <2>3, <2>4, <2>5 DEF Recorded, Shapes
  <2> QED BY <2>1, <2>2, <2>6
<1>10. ~Working(u)
  BY <1>1, <1>4 DEF Working
<1>11. session[u].pc \in {"lookup", "get_approval", "get_task"} /\ Unwritten(u)
  BY <1>5, <1>10 DEF Serves
<1>12. Unwritten(u)'
  <2>1. PICK q \in Requests : q = Request(u)
    BY <1>8
  <2>2. PICK a : a = q.of
    OBVIOUS
  <2>3. q.op = "decide" => a \in Approvals /\ ApprovalLock(a) \in Locks
    BY <2>2, RequestShape, LockShape
  <2>4. /\ session[u].types = <<>> /\ session[u].answer = OkAnswer /\ session[u].number = 0
        /\ session[u].approval = IF At(u, "get_task") /\ q.op = "decide" THEN Status(a)
                                 ELSE "none"
        /\ At(u, "lookup") => Keyed(q)
        /\ At(u, "get_approval") => q.op = "decide"
        /\ q.op = "decide" => Present(a)
        /\ At(u, "get_task") /\ q.op = "decide" => lock[ApprovalLock(a)] = u
    BY <1>11, <2>1, <2>2 DEF Unwritten
  <2>5. q.op = "decide" => Present(a)'
    BY <2>3, <2>4, CommitApprovals
  <2>6. At(u, "get_task") /\ q.op = "decide" => Status(a)' = Status(a)
    BY <1>4, <2>3, <2>4, CommitApprovals
  <2>7. At(u, "get_task") /\ q.op = "decide" => lock'[ApprovalLock(a)] = u
    BY <1>7, <2>3, <2>4
  <2>8. session'[u].approval = IF At(u, "get_task") /\ q.op = "decide" THEN Status(a)' ELSE "none"
    BY <1>5, <2>4, <2>6
  <2>9. Request(u)' = q /\ Request(u)'.of = a
    BY <1>6, <2>1, <2>2
  <2> QED BY <1>5, <1>6, <2>4, <2>5, <2>7, <2>8, <2>9 DEF Unwritten, Present, Status
<1> QED BY <1>5, <1>6, <1>9, <1>11, <1>12 DEF Serves

\* put_idempotent is in the transaction that carries the request out.
LEMMA CommitStored ==
    ASSUME RInv, NEW s \in Sessions, Commit(s)
    PROVE  Stored'
<1> DEFINE r == Request(s)
           code == session[s].answer.code
<1>1. /\ Shapes /\ r \in Requests /\ session[s] \in Calls /\ session[s].request = r /\ KeyHeld(s)
  BY CommitShape
<1>2. /\ executed' = [executed EXCEPT ![r][code] = @ + 1] /\ idempotency' = Recorded(s)
      /\ code \in {"ok", "blocked"}
  BY <1>1 DEF Commit, Calls
<1>3. \A q \in Requests : q # r => executed'[q] = executed[q]
  BY <1>1, <1>2 DEF Shapes
<1>4. Stored
  BY DEF RInv
<1>5. CASE Keyed(r) /\ code = "ok"
  <2>1. ~idempotency[Row(r)].present /\ Row(r) \in Rows
    BY <1>1, <1>5, RowShape DEF KeyHeld
  <2>2. idempotency' = [idempotency EXCEPT ![Row(r)] = [body |-> Body(r), token |-> Cached(s),
                                                       present |-> TRUE]]
    BY <1>2, <1>5, <2>1 DEF Recorded
  <2>3. \A q \in Requests : Keyed(q) /\ Row(q) = Row(r) => executed[q].ok = 0
    <3>1. \A q \in Requests : Keyed(q) /\ Row(q) = Row(r) => ~(executed[q].ok > 0)
      BY <1>4, <2>1 DEF Stored
    <3>2. \A q \in Requests : executed[q].ok \in Nat
      BY <1>1 DEF Shapes
    <3> QED BY <3>1, <3>2
  <2>4. executed'[r].ok = 1
    <3>1. executed[r].ok = 0 /\ executed[r] \in [ok: Nat, blocked: Nat]
      BY <1>1, <1>5, <2>3 DEF Shapes
    <3> HIDE DEF r, code
    <3> QED BY <1>1, <1>2, <1>5, <3>1 DEF Shapes
  <2>5. /\ idempotency'[Row(r)].present /\ idempotency'[Row(r)].body = Body(r)
        /\ \A k \in Rows : k # Row(r) => idempotency'[k] = idempotency[k]
    BY <1>1, <2>1, <2>2 DEF Shapes
  <2> HIDE DEF r, code
  <2>6. ASSUME NEW q \in Requests, Keyed(q), executed'[q].ok > 0
        PROVE  /\ executed'[q].ok = 1
               /\ idempotency'[Row(q)].present /\ idempotency'[Row(q)].body = Body(q)
    <3>1. CASE q = r
      BY <2>4, <2>5, <3>1
    <3>2. CASE q # r
      <4>1. executed[q].ok > 0 /\ executed'[q].ok = executed[q].ok
        BY <1>3, <2>6, <3>2
      <4>2. Row(q) # Row(r)
        BY <2>3, <2>6, <4>1
      <4>3. Row(q) \in Rows
        BY <2>6, RowShape
      <4> QED BY <1>4, <2>5, <2>6, <4>1, <4>2, <4>3 DEF Stored
    <3> QED BY <3>1, <3>2
  <2>7. ASSUME NEW k \in Rows, idempotency'[k].present
        PROVE  \E q \in Requests : Keyed(q) /\ Row(q) = k /\ executed'[q].ok > 0
    <3>1. CASE k = Row(r)
      BY <1>1, <1>5, <2>4, <3>1
    <3>2. CASE k # Row(r)
      <4>1. PICK q \in Requests : Keyed(q) /\ Row(q) = k /\ executed[q].ok > 0
        BY <1>4, <2>5, <2>7, <3>2 DEF Stored
      <4> QED BY <1>3, <3>2, <4>1
    <3> QED BY <3>1, <3>2
  <2> QED BY <2>6, <2>7 DEF Stored
<1>6. CASE ~(Keyed(r) /\ code = "ok")
  <2>1. idempotency' = idempotency
    BY <1>1, <1>2, <1>6 DEF Recorded
  <2>2. \A q \in Requests : Keyed(q) => executed'[q].ok = executed[q].ok
    <3>1. ASSUME Keyed(r) PROVE executed'[r].ok = executed[r].ok
      <4>1. code = "blocked" /\ executed[r] \in [ok: Nat, blocked: Nat]
        BY <1>1, <1>2, <1>6, <3>1 DEF Shapes
      <4> HIDE DEF r, code
      <4> QED BY <1>1, <1>2, <4>1 DEF Shapes
    <3> QED BY <1>3, <3>1
  <2> QED BY <1>4, <2>1, <2>2 DEF Stored
<1> QED BY <1>5, <1>6

\* The token is answered by the decision that takes the approval out of PENDING.
LEMMA CommitTokens ==
    ASSUME RInv, NEW s \in Sessions, Commit(s)
    PROVE  TokenOnce' /\ CarriesDecision'
<1> DEFINE r == Request(s)
<1>1. /\ InTransaction(s) /\ Shapes /\ LocksFreed /\ r \in Requests /\ session[s] \in Calls
      /\ session[s].request = r /\ End(s, session[s].answer) /\ Writes(s)
  BY CommitShape DEF RInv
<1>2. session[s].answer \in [code: {"ok", "blocked", "replay", "error"}, token: BOOLEAN]
  BY <1>1 DEF Calls
<1>3. /\ session'[s] = [pc |-> "answer", request |-> r, answer |-> session[s].answer]
      /\ \A u \in Sessions \ {s} : session'[u] = session[u]
  BY <1>1, <1>2, EndWritten
<1>4. \A u \in Sessions \ {s} : /\ At(u, "answer")' = At(u, "answer") /\ Request(u)' = Request(u)
                                /\ \A a \in Approvals : Carries(u, a)' = Carries(u, a)
  BY <1>3 DEF At, Request, Carries
<1>5. Request(s)' = r /\ session'[s].answer = session[s].answer /\ At(s, "answer")'
  BY <1>3 DEF Request, At
<1>6. ~At(s, "answer") /\ \A a \in Approvals : ~Carries(s, a)
  BY <1>1 DEF InTransaction, At, Carries
<1>7. session[s].answer.token => Decides(s) /\ r.say = "approved"
  <2>1. Advances(s) \/ Spends(s) \/ Blocked(s) \/ Resets(s) => ~session[s].answer.token
    BY DEF Advances, Spends, Moves, Blocked, Resets, OkAnswer
  <2>2. Decides(s) => session[s].answer.token = (r.say = "approved")
    BY DEF Decides
  <2> QED BY <1>1, <2>1, <2>2 DEF Writes
<1>8. CarriesDecision'
  <2>1. session[s].answer.token => r.op = "decide"
    BY <1>7 DEF Decides
  <2>2. \A u \in Sessions \ {s} : session'[u].answer.token = session[u].answer.token
    BY <1>3
  <2> QED BY <1>4, <1>5, <2>1, <2>2 DEF RInv, CarriesDecision
<1>9. tokens' = tokens
  BY DEF Commit, clients
<1>10. \A a \in Approvals : Settled(a) => Settled(a)'
  BY CommitApprovals DEF Settled
<1>11. ASSUME NEW a \in Approvals, Carries(s, a)'
       PROVE  /\ ~Settled(a) /\ Settled(a)' /\ tokens[a] = 0
              /\ \A u \in Sessions : ~Carries(u, a)
  <2>1. Decides(s) /\ r.say = "approved" /\ r.of = a
    BY <1>5, <1>7, <1>11 DEF Carries
  <2>2. /\ Present(a) /\ Status(a) = "PENDING" /\ a[1] = task.generation
        /\ session[s].approval = "APPROVED" /\ session[s].number = a[2]
    BY <2>1 DEF Decides, Decided
  <2>3. Settled(a)'
    <3>1. /\ Len(approvals[task.generation]) = Requested /\ session[s].approval # "none"
          /\ approvals[task.generation] \in Seq(Statuses)
          /\ session[s].number \in 1..(Requested + 1) /\ session[s].approval \in Statuses
          /\ approvals'[task.generation] =
                Saved(approvals[task.generation], session[s].number, session[s].approval)
      BY <2>2, CommitWrites
    <3>2. approvals'[a[1]][a[2]] = "APPROVED"
      <4> DEFINE rows == approvals[task.generation]
                 n == session[s].number
                 status == session[s].approval
      <4>1. rows \in Seq(Statuses) /\ n \in 1..(Len(rows) + 1) /\ status \in Statuses
        BY <3>1
      <4> HIDE DEF rows, n, status
      <4>2. Saved(rows, n, status)[n] = status
        BY <4>1, SavedShape
      <4> QED BY <2>2, <3>1, <4>2 DEF rows, n, status
    <3>3. Present(a)'
      BY <2>2, CommitApprovals
    <3> QED BY <3>2, <3>3 DEF Settled, Status
  <2>4. ~Settled(a)
    BY <2>2 DEF Settled
  <2>5. tokens[a] = 0 /\ \A u \in Sessions : ~Carries(u, a)
    <3>1. tokens[a] \in Nat
      BY <1>1 DEF Shapes
    <3> QED BY <2>4, <3>1 DEF RInv, TokenOnce
  <2> QED BY <2>3, <2>4, <2>5
<1> HIDE DEF r
<1>12. ASSUME NEW a \in Approvals
       PROVE  /\ tokens'[a] <= 1
              /\ tokens'[a] > 0 => Settled(a)'
              /\ \A u \in Sessions : Carries(u, a)' =>
                    /\ Settled(a)' /\ tokens'[a] = 0
                    /\ \A v \in Sessions : Carries(v, a)' => v = u
  <2>1. /\ tokens[a] <= 1
        /\ tokens[a] > 0 => Settled(a)
        /\ \A u \in Sessions : Carries(u, a) =>
              /\ Settled(a) /\ tokens[a] = 0
              /\ \A v \in Sessions : Carries(v, a) => v = u
    BY DEF RInv, TokenOnce
  <2>2. CASE Carries(s, a)'
    BY <1>4, <1>9, <1>11, <2>1, <2>2
  <2>3. CASE ~Carries(s, a)'
    <3>1. \A u \in Sessions : Carries(u, a)' => Carries(u, a)
      BY <1>4, <2>3
    <3>2. ASSUME NEW u \in Sessions, Carries(u, a)'
          PROVE  /\ Settled(a)' /\ tokens'[a] = 0
                 /\ \A v \in Sessions : Carries(v, a)' => v = u
      <4>1. Carries(u, a)
        BY <3>1, <3>2
      <4> QED BY <1>9, <1>10, <2>1, <3>1, <4>1
    <3> QED BY <1>9, <1>10, <2>1, <3>2
  <2> QED BY <2>2, <2>3
<1> QED BY <1>8, <1>12 DEF TokenOnce

\* The events that are written were counted for the request.
LEMMA CommitFits ==
    ASSUME RInv, NEW s \in Sessions, Commit(s)
    PROVE  Fits'
<1>1. /\ InTransaction(s) /\ Shapes /\ LocksFreed /\ session[s] \in Calls
      /\ End(s, session[s].answer) /\ task \in TaskRows /\ task' \in TaskRows
      /\ task'.generation = task.generation \/ Resets(s)
      /\ Resets(s) => task'.generation = task.generation + 1
  BY CommitShape DEF RInv
<1>2. session[s].answer \in [code: {"ok", "blocked", "replay", "error"}, token: BOOLEAN]
  BY <1>1 DEF Calls
<1>3. /\ Cardinality(Pending') = Cardinality(Pending) - 1
      /\ Cardinality(PendingResets') =
           IF Request(s).op = "reset" THEN Cardinality(PendingResets) - 1
           ELSE Cardinality(PendingResets)
  BY <1>1, <1>2, EndWritten, PendingLeft
<1>4. /\ Cardinality(Pending) \in Nat /\ Cardinality(PendingResets) \in Nat
  BY PendingFinite
<1>5. sends \in Nat /\ sends' = sends /\ MaxGenerations \in Nat
  BY <1>1, Bounds DEF Shapes, Commit, clients
<1>6. ASSUME NEW g \in Generations
      PROVE  Len(events'[g]) + 5 * Cardinality(Pending') <= 2 + 5 * sends'
  <2>1. Len(events[g]) + 5 * Cardinality(Pending) <= 2 + 5 * sends
    BY DEF RInv, Fits
  <2>2. Len(events[g]) \in Nat
    BY <1>1, LenProperties DEF Shapes
  <2>3. Len(events'[g]) \in Nat /\ Len(events'[g]) <= Len(events[g]) + 5
    <3>1. CASE g = task'.generation
      <4>1. /\ events[g] \in Seq(AuditEvents) /\ task' \in Written
            /\ session[s].types \in TypeLists /\ session[s].number \in Nat
            /\ events'[g] = Linked(events[g], session[s].types, task', session[s].number)
        BY <3>1, CommitShapes
      <4>2. /\ Len(events'[g]) = Len(events[g]) + Len(session[s].types)
            /\ Len(session[s].types) \in 0..5
        <5> DEFINE stream == events[g]
                   types == session[s].types
                   t == task'
                   n == session[s].number
        <5>1. stream \in Seq(AuditEvents) /\ types \in TypeLists /\ t \in Written /\ n \in Nat
          BY <4>1
        <5> HIDE DEF stream, types, t, n
        <5>2. /\ Len(Linked(stream, types, t, n)) = Len(stream) + Len(types)
              /\ Len(types) \in 0..5
          BY <5>1, LinkedShape
        <5> QED BY <4>1, <5>2 DEF stream, types, t, n
      <4>3. \A n \in Nat, k \in 0..5 : n + k \in Nat /\ n + k <= n + 5
        OBVIOUS
      <4> QED BY <2>2, <4>2, <4>3
    <3>2. CASE g # task'.generation
      BY <3>2, <2>2, CommitShapes
    <3> QED BY <3>1, <3>2
  <2> QED BY <1>3, <1>4, <1>5, <2>1, <2>2, <2>3, SMTT(30)
<1>7. task'.generation + Cardinality(PendingResets') <= MaxGenerations
  <2>1. task.generation \in Nat /\ task.generation + Cardinality(PendingResets) <= MaxGenerations
    BY <1>1 DEF RInv, Fits, TaskRows, Generations
  <2>2. CASE Resets(s)
    <3>1. Request(s).op = "reset"
      BY <2>2 DEF Resets
    <3> QED BY <1>1, <1>3, <1>4, <1>5, <2>1, <2>2, <3>1
  <2>3. CASE ~Resets(s)
    BY <1>1, <1>3, <1>4, <1>5, <2>1, <2>3
  <2> QED BY <2>2, <2>3
<1> QED BY <1>6, <1>7 DEF Fits

\* The transitions that announce nothing.
LEMMA PlainTransition ==
    ASSUME NEW target, target \notin {"APPROVAL", "EXECUTE", "DECIDE"}, NEW scenario
    PROVE  LET types == TransitionTypes(target, scenario)
           IN  /\ Len(types) > 0 /\ types[Len(types)] = "state.transitioned"
               /\ \A i \in 1..(Len(types) - 1) : types[i] \in PlainTypes
               /\ Announcements(target) = {}
<1> DEFINE types == TransitionTypes(target, scenario)
           Fine(list) == /\ Len(list) > 0 /\ list[Len(list)] = "state.transitioned"
                         /\ \A i \in 1..(Len(list) - 1) : list[i] \in PlainTypes
<1>1. Fine(<<"state.transitioned">>)
  OBVIOUS
<1>2. \A a \in PlainTypes : Fine(<<a, "state.transitioned">>)
  <2> SUFFICES ASSUME NEW a \in PlainTypes PROVE Fine(<<a, "state.transitioned">>)
    OBVIOUS
  <2>1. \A i \in 1..(2 - 1) : i = 1
    OBVIOUS
  <2> QED BY <2>1
<1>3. \A a, b \in PlainTypes : Fine(<<a, b, "state.transitioned">>)
  <2> SUFFICES ASSUME NEW a \in PlainTypes, NEW b \in PlainTypes
               PROVE  Fine(<<a, b, "state.transitioned">>)
    OBVIOUS
  <2>1. \A i \in 1..(3 - 1) : i = 1 \/ i = 2
    OBVIOUS
  <2> QED BY <2>1
<1>4. \A a, b, c, d \in PlainTypes : Fine(<<a, b, c, d, "state.transitioned">>)
  <2> SUFFICES ASSUME NEW a \in PlainTypes, NEW b \in PlainTypes, NEW c \in PlainTypes,
                      NEW d \in PlainTypes
               PROVE  Fine(<<a, b, c, d, "state.transitioned">>)
    OBVIOUS
  <2>1. \A i \in 1..(5 - 1) : i = 1 \/ i = 2 \/ i = 3 \/ i = 4
    OBVIOUS
  <2> QED BY <2>1
<1>5. {"evidence.recorded", "plan.review.passed", "memory.candidate.proposed",
       "memory.validated"} \subseteq PlainTypes
  BY DEF PlainTypes
<1> HIDE DEF Fine
<1>6. Fine(types)
  BY <1>1, <1>2, <1>3, <1>4, <1>5 DEF TransitionTypes
<1>7. Announcements(target) = {}
  BY DEF Announcements
<1> QED BY <1>6, <1>7 DEF Fine

\* The rows after a transition, as its events tell it.
RowsAfter(rows, n, target) ==
    CASE target = "APPROVAL" -> Saved(rows, n, Becomes["approval.requested"])
      [] target = "EXECUTE" -> Saved(rows, n, Becomes["approval.token.consumed"])
      [] OTHER -> rows

\* A transition is told by its events.
LEMMA TransitionTold ==
    ASSUME NEW stream \in Seq(AuditEvents), NEW t \in Written, NEW n \in Nat,
           NEW stage \in Stages, NEW version \in Nat, NEW rows, NEW scenario,
           Audit(stream) = Heard(Len(stream), stage, version, rows, {}),
           t.stage \in ALLOWED_TRANSITIONS[stage], t.version > version,
           t.stage = "APPROVAL" => Due("approval.requested", rows, n),
           t.stage = "EXECUTE" => Due("approval.token.consumed", rows, n)
    PROVE  LET types == TransitionTypes(t.stage, scenario)
           IN  Audit(Linked(stream, types, t, n)) =
                   Heard(Len(stream) + Len(types), t.stage, t.version,
                         RowsAfter(rows, n, t.stage), {})
<1> DEFINE types == TransitionTypes(t.stage, scenario)
<1>1. CASE t.stage = "APPROVAL"
  <2>1. types = <<"approval.requested", "state.transitioned">> /\ Len(types) = 2
    BY <1>1 DEF TransitionTypes
  <2>2. RowsAfter(rows, n, t.stage) = Saved(rows, n, Becomes["approval.requested"])
    BY <1>1 DEF RowsAfter
  <2> HIDE DEF types
  <2>3. Audit(Linked(stream, <<"approval.requested", "state.transitioned">>, t, n)) =
            Heard(Len(stream) + 2, t.stage, t.version,
                  Saved(rows, n, Becomes["approval.requested"]), {})
    BY <1>1, RequestMove
  <2> QED BY <2>1, <2>2, <2>3 DEF types
<1>2. CASE t.stage = "EXECUTE"
  <2>1. /\ types = <<"approval.token.consumed", "evidence.recorded", "experiment.submitted",
                     "state.transitioned">>
        /\ Len(types) = 4
    BY <1>2 DEF TransitionTypes
  <2>2. RowsAfter(rows, n, t.stage) = Saved(rows, n, Becomes["approval.token.consumed"])
    BY <1>2 DEF RowsAfter
  <2> HIDE DEF types
  <2>3. Audit(Linked(stream, <<"approval.token.consumed", "evidence.recorded",
                               "experiment.submitted", "state.transitioned">>, t, n)) =
            Heard(Len(stream) + 4, t.stage, t.version,
                  Saved(rows, n, Becomes["approval.token.consumed"]), {})
    BY <1>2, SpendMove
  <2> QED BY <2>1, <2>2, <2>3 DEF types
<1>3. CASE t.stage = "DECIDE"
  <2>1. /\ types = <<"evidence.gate.passed", "decision.committed", "state.transitioned">>
        /\ Len(types) = 3
    BY <1>3 DEF TransitionTypes
  <2>2. RowsAfter(rows, n, t.stage) = rows
    BY <1>3 DEF RowsAfter
  <2> HIDE DEF types
  <2>3. Audit(Linked(stream,
                     <<"evidence.gate.passed", "decision.committed", "state.transitioned">>,
                     t, n)) =
            Heard(Len(stream) + 3, t.stage, t.version, rows, {})
    BY <1>3, DecideMove
  <2> QED BY <2>1, <2>2, <2>3 DEF types
<1>4. CASE t.stage \notin {"APPROVAL", "EXECUTE", "DECIDE"}
  <2>1. /\ Len(types) > 0 /\ types[Len(types)] = "state.transitioned"
        /\ \A i \in 1..(Len(types) - 1) : types[i] \in PlainTypes
        /\ types \in TypeLists
    BY <1>4, PlainTransition, TransitionTypeLists
  <2>2. RowsAfter(rows, n, t.stage) = rows
    BY <1>4 DEF RowsAfter
  <2> HIDE DEF types
  <2>3. ThenMoves(types)
    BY <2>1 DEF ThenMoves
  <2>4. {} \in SUBSET Announcing /\ Announced({}, t.stage) /\ types \in TypeLists
    BY <1>4, <2>1, PlainTransition DEF Announced
  <2>5. Audit(Linked(stream, types, t, n)) =
            Heard(Len(stream) + Len(types), t.stage, t.version, rows, {})
    BY <2>3, <2>4, PlainMove
  <2> QED BY <2>2, <2>5 DEF types
<1> QED BY <1>1, <1>2, <1>3, <1>4

\* The auditor has read the events of the generation up to the task row.
Told == \E version \in Nat :
           /\ version <= task.version
           /\ Audit(events[task.generation]) =
                  Heard(Len(events[task.generation]), task.stage, version,
                        approvals[task.generation], {})

LEMMA AuditNow ==
    ASSUME RInv
    PROVE  LET g == task.generation
           IN  /\ g \in Generations /\ events[g] \in Seq(AuditEvents)
               /\ approvals[g] \in Seq(Statuses) /\ task.stage \in Stages
               /\ task.version \in Nat /\ Told
<1> DEFINE g == task.generation
           audit == Audit(events[g])
<1>1. /\ g \in Generations /\ events[g] \in Seq(AuditEvents) /\ approvals[g] \in Seq(Statuses)
      /\ task.stage \in Stages /\ task.version \in Nat
  BY DEF RInv, Shapes, TaskRows
<1>2. /\ audit \in Audits /\ audit.read = Len(events[g]) /\ audit.explained
      /\ audit.announced = {} /\ audit.approvals = approvals[g] /\ audit.stage = task.stage
      /\ audit.version <= task.version
  BY <1>1 DEF RInv, AllRead, AuditExplainsRows
<1> HIDE DEF audit, g
<1>3. audit.version \in Nat
  BY <1>2 DEF Audits
<1>4. audit = Heard(audit.read, audit.stage, audit.version, audit.approvals, audit.announced)
  BY <1>2 DEF Audits, Heard
<1>5. audit = Heard(Len(events[g]), task.stage, audit.version, approvals[g], {})
  BY <1>2, <1>4
<1> QED BY <1>1, <1>2, <1>3, <1>5 DEF audit, g, Told

\* What a commit leaves, in terms of what it had read.
LEMMA CommitWritten ==
    ASSUME RInv, NEW s \in Sessions, Commit(s), ~Resets(s)
    PROVE  LET g == task.generation
               w == session[s]
           IN  /\ w.task \in Written /\ w.number \in Nat /\ w.types \in TypeLists
               /\ task' = w.task /\ task'.generation = g
               /\ events'[g] = Linked(events[g], w.types, w.task, w.number)
               /\ approvals'[g] = IF w.approval = "none" THEN approvals[g]
                                  ELSE Saved(approvals[g], w.number, w.approval)
<1>1. /\ task' = session[s].task /\ task'.generation = task.generation
      /\ approvals' = IF session[s].approval = "none" THEN approvals
                      ELSE [approvals EXCEPT ![task'.generation] =
                               Saved(@, session[s].number, session[s].approval)]
  BY CommitShape
<1>2. /\ task' \in Written /\ session[s].types \in TypeLists /\ session[s].number \in Nat
      /\ events'[task'.generation] =
             Linked(events[task'.generation], session[s].types, task', session[s].number)
  BY CommitShapes
<1>3. task.generation \in Generations /\ approvals \in [Generations -> Seq(Statuses)]
  BY DEF RInv, Shapes, TaskRows
<1> QED BY <1>1, <1>2, <1>3

\* What holds of the events of a commit holds of the stream after it.
LEMMA ToldAfter ==
    ASSUME RInv, NEW s \in Sessions, Commit(s), ~Resets(s),
           NEW stage \in Stages, NEW version \in Nat, NEW rows,
           stage = session[s].task.stage, version <= session[s].task.version,
           rows = IF session[s].approval = "none" THEN approvals[task.generation]
                  ELSE Saved(approvals[task.generation], session[s].number, session[s].approval),
           LET stream == Linked(events[task.generation], session[s].types, session[s].task,
                                session[s].number)
           IN  Audit(stream) =
                   Heard(Len(events[task.generation]) + Len(session[s].types),
                         stage, version, rows, {})
    PROVE  Told'
<1> DEFINE g == task.generation
           old == events[g]
           types == session[s].types
           t == session[s].task
           n == session[s].number
<1>1. /\ t \in Written /\ n \in Nat /\ types \in TypeLists
      /\ task' = t /\ task'.generation = g /\ events'[g] = Linked(old, types, t, n)
      /\ approvals'[g] = rows
  BY CommitWritten
<1>2. old \in Seq(AuditEvents)
  BY AuditNow
<1>3. Audit(Linked(old, types, t, n)) = Heard(Len(old) + Len(types), stage, version, rows, {})
  OBVIOUS
<1>4. stage = t.stage /\ version <= t.version
  OBVIOUS
<1> HIDE DEF old, types, t, n, g
<1>5. Len(Linked(old, types, t, n)) = Len(old) + Len(types)
  BY <1>1, <1>2, LinkedShape
<1> QED BY <1>1, <1>3, <1>4, <1>5 DEF Told

\* A decision.
LEMMA DecidesTold ==
    ASSUME RInv, NEW s \in Sessions, Commit(s), Decides(s)
    PROVE  Told'
<1> DEFINE g == task.generation
           w == session[s]
           type == DecisionEvent(Request(s))
           n == w.number
           stream == events[g]
           rows == approvals[g]
           stage == task.stage
<1>1. /\ w.types = <<type>> /\ type \in {"approval.approved", "approval.denied"}
      /\ w.approval = Becomes[type] /\ w.approval # "none" /\ w.task = task
      /\ n \in DOMAIN rows /\ rows[n] = "PENDING"
  BY DEF Decides, DecisionEvent, Decided, Becomes, ApprovalTypes, Present, Status
<1>2. ~Resets(s)
  BY DEF Decides, Resets
<1>3. /\ stream \in Seq(AuditEvents) /\ stage \in Stages /\ task.version \in Nat /\ Told
  BY AuditNow
<1>4. PICK version \in Nat : /\ version <= task.version
                             /\ Audit(stream) = Heard(Len(stream), stage, version, rows, {})
  BY <1>3 DEF Told
<1>5. task \in Written /\ n \in Nat
  BY <1>1, <1>2, CommitWritten
<1>6. Len(<<type>>) = 1
  OBVIOUS
<1> HIDE DEF type, n, stream, rows, stage
<1>7. Audit(Linked(stream, <<type>>, task, n)) =
          Heard(Len(stream) + 1, stage, version, Saved(rows, n, Becomes[type]), {})
  BY <1>1, <1>3, <1>4, <1>5, DecisionEvents
<1> QED BY <1>1, <1>2, <1>3, <1>4, <1>6, <1>7, ToldAfter DEF n, stream, rows, stage

\* A refusal of the gate.
LEMMA BlockedTold ==
    ASSUME RInv, NEW s \in Sessions, Commit(s), Blocked(s)
    PROVE  Told'
<1> DEFINE g == task.generation
           w == session[s]
           n == w.number
           t == w.task
           stream == events[g]
           rows == approvals[g]
           stage == task.stage
<1>1. w.types = <<"evidence.gate.failed">> /\ w.approval = "none"
  BY DEF Blocked
<1>2. ~Resets(s)
  BY DEF Blocked, Resets
<1>3. /\ stream \in Seq(AuditEvents) /\ stage \in Stages /\ task.version \in Nat /\ Told
      /\ task \in TaskRows
  BY AuditNow, CommitShape
<1>4. PICK version \in Nat : /\ version <= task.version
                             /\ Audit(stream) = Heard(Len(stream), stage, version, rows, {})
  BY <1>3 DEF Told
<1>5. t \in Written /\ n \in Nat
  BY <1>2, CommitWritten
<1>6. t.stage = stage /\ t.version = task.version + 1
  BY <1>3 DEF Blocked, TaskRows
<1>7. version <= t.version
  BY <1>3, <1>4, <1>6
<1>8. Len(<<"evidence.gate.failed">>) = 1
  OBVIOUS
<1> HIDE DEF n, stream, rows, stage, t
<1>9. Audit(Linked(stream, <<"evidence.gate.failed">>, t, n)) =
          Heard(Len(stream) + 1, stage, version, rows, {})
  BY <1>3, <1>4, <1>5, GateEvents
<1> QED BY <1>1, <1>2, <1>3, <1>6, <1>7, <1>8, <1>9, ToldAfter DEF n, stream, rows, stage, t

\* A transition.
LEMMA MovesTold ==
    ASSUME RInv, NEW s \in Sessions, Commit(s), Advances(s) \/ Spends(s)
    PROVE  Told'
<1> DEFINE g == task.generation
           w == session[s]
           n == w.number
           t == w.task
           stream == events[g]
           rows == approvals[g]
           stage == task.stage
           scenario == task.scenario
           types == TransitionTypes(t.stage, scenario)
           after == RowsAfter(rows, n, t.stage)
<1>0. t = Moved(t.stage)
  <2>1. Spends(s) => t = Moved("EXECUTE")
    BY DEF Spends, Moves
  <2>2. "EXECUTE" \in Stages /\ task \in TaskRows
    BY TransitionShape, CommitShape
  <2>3. Moved("EXECUTE").stage = "EXECUTE"
    BY <2>2, MovedShape
  <2> QED BY <2>1, <2>3 DEF Advances, Moves
<1>1. /\ t.stage \in ALLOWED_TRANSITIONS[stage] /\ w.types = types
      /\ t.stage = "EXECUTE" <=> Spends(s)
  <2>1. CASE Advances(s)
    BY <2>1 DEF Advances, Spends, Moves
  <2>2. CASE Spends(s)
    <3>1. t.stage = "EXECUTE"
      <4>1. "EXECUTE" \in Stages /\ task \in TaskRows /\ t = Moved("EXECUTE")
        BY <2>2, TransitionShape, CommitShape DEF Spends, Moves
      <4> QED BY <4>1, MovedShape
    <3> QED BY <2>2, <3>1 DEF Spends, Moves
  <2> QED BY <2>1, <2>2
<1>2. ~Resets(s)
  BY DEF Advances, Spends, Moves, Resets
<1>3. /\ stream \in Seq(AuditEvents) /\ stage \in Stages /\ task.version \in Nat /\ Told
      /\ task \in TaskRows /\ Requested \in Nat /\ DOMAIN rows = 1..Requested
      /\ Len(rows) = Requested
  <2>1. Requested \in Nat /\ DOMAIN rows = 1..Requested
    BY LatestShape DEF RInv
  <2> QED BY <2>1, AuditNow, CommitShape DEF Requested
<1>4. PICK version \in Nat : /\ version <= task.version
                             /\ Audit(stream) = Heard(Len(stream), stage, version, rows, {})
  BY <1>3 DEF Told
<1>5. t \in Written /\ n \in Nat /\ t.stage \in Stages
  BY <1>2, CommitWritten DEF Written
<1>6. t.version = task.version + 1
  BY <1>0, <1>3, <1>5, MovedShape
<1>7. t.version > version /\ t.version \in Nat
  BY <1>3, <1>4, <1>6
<1>8. /\ t.stage = "APPROVAL" => Due("approval.requested", rows, n)
      /\ t.stage = "EXECUTE" => Due("approval.token.consumed", rows, n)
      /\ after = IF w.approval = "none" THEN rows ELSE Saved(rows, n, w.approval)
  <2>1. CASE t.stage = "APPROVAL"
    <3>1. n = Requested + 1 /\ w.approval = "PENDING"
      BY <1>1, <2>1 DEF Advances
    <3>2. Due("approval.requested", rows, n)
      BY <1>3, <3>1 DEF Due
    <3>3. after = Saved(rows, n, "PENDING")
      BY <2>1 DEF RowsAfter, Becomes, ApprovalTypes
    <3> QED BY <2>1, <3>1, <3>2, <3>3
  <2>2. CASE t.stage = "EXECUTE"
    <3>1. n = Requested /\ w.approval = "CONSUMED" /\ Requested > 0 /\ rows[n] = "APPROVED"
      BY <1>1, <2>2 DEF Spends, Status, Latest, Requested
    <3>2. Due("approval.token.consumed", rows, n)
      BY <1>3, <3>1 DEF Due
    <3>3. after = Saved(rows, n, "CONSUMED")
      BY <2>2 DEF RowsAfter, Becomes, ApprovalTypes
    <3> QED BY <2>2, <3>1, <3>2, <3>3
  <2>3. CASE t.stage \notin {"APPROVAL", "EXECUTE"}
    <3>1. w.approval = "none"
      BY <1>1, <2>3 DEF Advances
    <3>2. after = rows
      BY <2>3 DEF RowsAfter
    <3> QED BY <2>3, <3>1, <3>2
  <2> QED BY <2>1, <2>2, <2>3
<1> HIDE DEF n, stream, rows, stage, t, scenario
<1>9. Audit(Linked(stream, types, t, n)) =
          Heard(Len(stream) + Len(types), t.stage, t.version, after, {})
  BY <1>1, <1>3, <1>4, <1>5, <1>7, <1>8, TransitionTold
<1>10. t.version <= t.version
  BY <1>7
<1> HIDE DEF types, after
<1> QED BY <1>1, <1>2, <1>5, <1>7, <1>8, <1>9, <1>10, ToldAfter DEF n, stream, rows, t

\* A reset starts the stream of the next generation.
LEMMA ResetsTold ==
    ASSUME RInv, NEW s \in Sessions, Commit(s), Resets(s)
    PROVE  Told'
<1> DEFINE g == task'.generation
           n == session[s].number
           t == session[s].task
<1>1. /\ g = task.generation + 1 /\ task' = t /\ approvals' = approvals
      /\ session[s].types = SeedTypes /\ task' \in TaskRows /\ task \in TaskRows
      /\ t = Seeded(task.generation + 1, Request(s).say)
  BY CommitShape DEF Resets
<1>2. /\ g \in Generations /\ task' \in Written /\ n \in Nat
      /\ events'[g] = Linked(events[g], session[s].types, task', n)
  BY CommitShapes
<1>3. g > task.generation
  BY <1>1 DEF TaskRows, Generations
<1>4. events[g] = <<>> /\ approvals[g] = <<>>
  BY <1>2, <1>3 DEF RInv, AuditExplainsRows, ApprovalsFit
<1>5. t.stage = "INTAKE" /\ t.version = 1 /\ t \in Written
  BY <1>1, <1>2 DEF Seeded
<1>6. events'[g] = Linked(<<>>, SeedTypes, t, n) /\ approvals'[g] = <<>>
  BY <1>1, <1>2, <1>4
<1> HIDE DEF t, n, g
<1>7. /\ Audit(Linked(<<>>, SeedTypes, t, n)) = Heard(2, "INTAKE", 1, <<>>, {})
      /\ Len(Linked(<<>>, SeedTypes, t, n)) = 2
  BY <1>2, <1>5, SeedEvents
<1>8. Audit(events'[g]) = Heard(Len(events'[g]), task'.stage, 1, approvals'[g], {})
  BY <1>1, <1>5, <1>6, <1>7
<1>9. 1 \in Nat /\ 1 <= task'.version
  BY <1>1, <1>5
<1> QED BY <1>8, <1>9 DEF Told, g

\* The audit stream tells what the rows say after every commit.
LEMMA CommitAudit ==
    ASSUME RInv, NEW s \in Sessions, Commit(s)
    PROVE  AuditExplainsRows' /\ AllRead'
<1> DEFINE h == task'.generation
<1>1. /\ Writes(s) /\ task \in TaskRows /\ task' \in TaskRows
      /\ h = task.generation \/ Resets(s)
      /\ Resets(s) => h = task.generation + 1 /\ approvals' = approvals
  BY CommitShape DEF Resets
<1>2. Told'
  BY <1>1, DecidesTold, BlockedTold, MovesTold, ResetsTold DEF Writes
<1>3. /\ task.generation \in Nat /\ h \in Nat /\ h >= task.generation /\ h \in Generations
  BY <1>1 DEF TaskRows, Generations
<1>4. Shapes'
  BY CommitShapes
<1>5. /\ events'[h] \in Seq(AuditEvents) /\ approvals'[h] \in Seq(Statuses)
      /\ task'.stage \in Stages
  BY <1>1, <1>3, <1>4 DEF Shapes, TaskRows
<1>6. PICK version \in Nat :
          /\ version <= task'.version
          /\ Audit(events'[h]) = Heard(Len(events'[h]), task'.stage, version, approvals'[h], {})
  BY <1>2 DEF Told
<1>7. /\ Audit(events'[h]) \in Audits /\ Audit(events'[h]).read = Len(events'[h])
      /\ Audit(events'[h]).explained /\ Audit(events'[h]).announced = {}
      /\ Audit(events'[h]).approvals = approvals'[h]
      /\ Audit(events'[h]).stage = task'.stage /\ Audit(events'[h]).version <= task'.version
  <2>1. Len(events'[h]) \in Nat
    BY <1>5, LenProperties
  <2> QED BY <1>5, <1>6, <2>1 DEF Heard, Audits
<1>8. ASSUME NEW g \in Generations, g # h
      PROVE  events'[g] = events[g] /\ approvals'[g] = approvals[g]
  <2>1. events'[g] = events[g]
    BY <1>8, CommitShapes
  <2>2. approvals' = IF session[s].approval = "none" THEN approvals
                     ELSE [approvals EXCEPT ![h] = Saved(@, session[s].number, session[s].approval)]
    BY CommitShape
  <2>3. approvals'[g] = approvals[g]
    BY <1>8, <2>2 DEF RInv, Shapes
  <2> QED BY <2>1, <2>3
<1>9. ASSUME NEW g \in Generations
      PROVE  /\ Audit(events[g]) \in Audits /\ Audit(events[g]).read = Len(events[g])
             /\ Audit(events[g]).explained /\ Audit(events[g]).announced = {}
             /\ Audit(events[g]).approvals = approvals[g]
             /\ g > task.generation => events[g] = <<>>
  BY DEF RInv, AllRead, AuditExplainsRows
<1>10. \A g \in Generations : g > h => g > task.generation /\ g # h
  BY <1>3 DEF Generations
<1> HIDE DEF h
<1>11. AllRead'
  BY <1>7, <1>8, <1>9 DEF AllRead
<1>12. ASSUME NEW g \in Generations
       PROVE  LET audit == Audit(events'[g])
              IN  /\ audit.explained /\ audit.announced = {}
                  /\ audit.approvals = approvals'[g]
                  /\ g = h => audit.stage = task'.stage /\ audit.version <= task'.version
                  /\ g > h => events'[g] = <<>>
  <2>1. CASE g = h
    <3>1. ~(g > h)
      BY <1>3, <2>1
    <3> QED BY <1>7, <2>1, <3>1
  <2>2. CASE g # h
    BY <1>8, <1>9, <1>10, <2>2
  <2> QED BY <2>1, <2>2
<1> QED BY <1>11, <1>12 DEF AuditExplainsRows, h

\* connection.commit keeps what the routes promise.
LEMMA CommitInv ==
    ASSUME RInv, NEW s \in Sessions, Commit(s)
    PROVE  RInv'
BY CommitShapes, CommitServes, CommitStored, CommitTokens, CommitApprovals, CommitAudit,
   CommitFits DEF RInv

\* Every step of the routes does.
LEMMA NextInv ==
    ASSUME RInv, [Next]_vars
    PROVE  RInv'
<1>1. CASE UNCHANGED vars
  <2>1. UNCHANGED <<task, approvals, events, idempotency, lock, session, executed, tokens, sends>>
    BY <1>1 DEF vars
  <2>2. Shapes' /\ LocksFreed'
    BY <2>1 DEF RInv, Shapes, LocksFreed, InTransaction
  <2>3. AllServe'
    <3> SUFFICES ASSUME NEW u \in Sessions, InTransaction(u)' PROVE Serves(u)'
      BY DEF AllServe
    <3>1. InTransaction(u) /\ session'[u] = session[u]
      BY <2>1 DEF InTransaction
    <3> QED BY <2>1, <3>1, OthersServe DEF RInv, AllServe
  <2>4. Stored' /\ ApprovalsFit' /\ AllRead' /\ AuditExplainsRows'
    BY <2>1, RowsKept DEF RInv, tables
  <2>5. TokenOnce' /\ CarriesDecision'
    BY <2>1 DEF RInv, TokenOnce, Settled, Present, Status, CarriesDecision, Carries, At, Request
  <2>6. Fits'
    BY <2>1 DEF RInv, Fits, Pending, PendingResets, InTransaction, Request
  <2> QED BY <2>2, <2>3, <2>4, <2>5, <2>6 DEF RInv
<1>2. ASSUME NEW s \in Sessions, NEW r \in Requests, Send(s, r) PROVE RInv'
  BY <1>2, SendInv
<1>3. ASSUME NEW s \in Sessions, Fail(s) \/ DeadlockAbort(s) PROVE RInv'
  BY <1>3, RollbackInv DEF Fail, DeadlockAbort
<1> QED BY <1>1, <1>2, <1>3, LookupInv, GetApprovalInv, GetTaskInv, ConsumeTokenInv,
           AppendEventInv, TaskViewInv, CommitInv, AnswerStep DEF Next

\* ensure_demo has made the task, and the auditor has read its two events.
LEMMA InitInv == Init => RInv
<1> SUFFICES ASSUME Init PROVE RInv
  OBVIOUS
<1>1. 1 \in Generations /\ \A g \in Generations : g \in Nat
  BY Bounds DEF Generations
<1>2. /\ task = Seeded(1, "happy_path") /\ approvals = [g \in Generations |-> <<>>]
      /\ events = [g \in Generations |->
                      IF g = 1 THEN Linked(<<>>, SeedTypes, task, 0) ELSE <<>>]
      /\ idempotency = [k \in Rows |-> NoRow]
      /\ lock = [l \in Locks |-> Free]
      /\ session = [s \in Sessions |-> Idle]
      /\ executed = [r \in Requests |-> [ok |-> 0, blocked |-> 0]]
      /\ tokens = [a \in Approvals |-> 0]
      /\ sends = 0
  BY DEF Init, NoCalls
<1>3. /\ task \in TaskRows /\ task \in Written /\ task.generation = 1 /\ task.stage = "INTAKE"
      /\ task.version = 1
  BY <1>1, <1>2, TransitionShape DEF Seeded, TaskRows, Written, Scenarios
<1>4. \A s \in Sessions : At(s, "idle") /\ ~InTransaction(s) /\ ~At(s, "answer")
  BY <1>2 DEF At, InTransaction, Idle
<1>5. /\ Audit(Linked(<<>>, SeedTypes, task, 0)) = Heard(2, "INTAKE", 1, <<>>, {})
      /\ Linked(<<>>, SeedTypes, task, 0) \in Seq(AuditEvents)
      /\ Len(Linked(<<>>, SeedTypes, task, 0)) = 2
  <2>1. 0 \in Nat
    OBVIOUS
  <2> QED BY <1>3, <2>1, SeedEvents
<1>6. /\ events[1] = Linked(<<>>, SeedTypes, task, 0)
      /\ \A g \in Generations : g # 1 => events[g] = <<>>
      /\ \A g \in Generations : approvals[g] = <<>>
  BY <1>1, <1>2
<1>7. Shapes
  <2>1. events \in [Generations -> Seq(AuditEvents)]
    <3>1. <<>> \in Seq(AuditEvents)
      OBVIOUS
    <3> QED BY <1>2, <1>5, <3>1
  <2>2. approvals \in [Generations -> Seq(Statuses)]
    BY <1>2
  <2>3. idempotency \in [Rows -> [body: Bodies, token: {FALSE}, present: BOOLEAN]]
    BY <1>2 DEF NoRow, Bodies
  <2>4. /\ lock \in [Locks -> Sessions \cup {Free}]
        /\ session \in [Sessions -> {Idle} \cup Calls \cup Answers]
        /\ executed \in [Requests -> [ok: Nat, blocked: Nat]]
        /\ tokens \in [Approvals -> Nat] /\ sends \in 0..MaxSends
    BY <1>2, Bounds
  <2> QED BY <1>3, <2>1, <2>2, <2>3, <2>4 DEF Shapes
<1>8. LocksFreed /\ AllServe /\ CarriesDecision
  BY <1>2, <1>4, SessionsOK DEF LocksFreed, AllServe, CarriesDecision
<1>9. Stored
  <2>1. \A r \in Requests : executed[r].ok = 0
    BY <1>2
  <2>2. \A k \in Rows : ~idempotency[k].present
    BY <1>2 DEF NoRow
  <2> QED BY <2>1, <2>2 DEF Stored
<1>10. TokenOnce
  BY <1>2, <1>4 DEF TokenOnce, Carries
<1>11. ApprovalsFit
  BY <1>6, Bounds DEF ApprovalsFit
<1>12. ASSUME NEW g \in Generations
       PROVE  \E read \in Nat : /\ Audit(events[g]) = Heard(read, "INTAKE", 1, <<>>, {})
                                /\ read = Len(events[g])
  <2>1. CASE g = 1
    BY <1>5, <1>6, <2>1
  <2>2. CASE g # 1
    <3>1. Audit(<<>>) = Heard(0, "INTAKE", 1, <<>>, {}) /\ Len(<<>>) = 0
      BY <1>3, SeedEvents
    <3> QED BY <1>6, <2>2, <3>1
  <2> QED BY <2>1, <2>2
<1>13. AllRead
  <2>1. "INTAKE" \in Stages /\ <<>> \in Seq(Statuses)
    BY <1>3 DEF TaskRows
  <2>2. ASSUME NEW g \in Generations
        PROVE  Audit(events[g]) \in Audits /\ Audit(events[g]).read = Len(events[g])
    <3>1. PICK read \in Nat : /\ Audit(events[g]) = Heard(read, "INTAKE", 1, <<>>, {})
                              /\ read = Len(events[g])
      BY <1>12
    <3>2. Heard(read, "INTAKE", 1, <<>>, {}) \in Audits
      BY <2>1 DEF Heard, Audits
    <3>3. Heard(read, "INTAKE", 1, <<>>, {}).read = read
      BY DEF Heard
    <3> QED BY <3>1, <3>2, <3>3
  <2> QED BY <2>2 DEF AllRead
<1>14. AuditExplainsRows
  <2>1. ASSUME NEW g \in Generations
        PROVE  LET audit == Audit(events[g])
               IN  /\ audit.explained /\ audit.announced = {}
                   /\ audit.approvals = approvals[g]
                   /\ g = task.generation => audit.stage = task.stage /\ audit.version <= task.version
                   /\ g > task.generation => events[g] = <<>>
    <3>1. g > 1 => g # 1
      BY <1>1
    <3>2. PICK read \in Nat : Audit(events[g]) = Heard(read, "INTAKE", 1, <<>>, {})
      BY <1>12
    <3>3. LET audit == Heard(read, "INTAKE", 1, <<>>, {})
          IN  /\ audit.explained /\ audit.announced = {} /\ audit.approvals = <<>>
              /\ audit.stage = "INTAKE" /\ audit.version = 1
      BY DEF Heard
    <3> QED BY <1>3, <1>6, <3>1, <3>2, <3>3
  <2> QED BY <2>1 DEF AuditExplainsRows
<1>15. Fits
  <2>1. Pending = {} /\ PendingResets = {}
    BY <1>4 DEF Pending, PendingResets
  <2>2. Cardinality(Pending) = 0 /\ Cardinality(PendingResets) = 0
    BY <2>1, FS_EmptySet
  <2>3. \A g \in Generations : Len(events[g]) <= 2
    <3>1. Len(<<>>) <= 2 /\ 2 <= 2
      OBVIOUS
    <3>2. Len(events[1]) = 2
      BY <1>5, <1>6
    <3> QED BY <1>6, <3>1, <3>2
  <2>4. \A g \in Generations : Len(events[g]) \in Nat
    BY <1>7, LenProperties DEF Shapes
  <2> QED BY <1>2, <1>3, <2>2, <2>3, <2>4, Bounds DEF Fits
<1> QED BY <1>7, <1>8, <1>9, <1>10, <1>11, <1>13, <1>14, <1>15 DEF RInv

\* RInv is inductive, whatever the threads interleave and however transactions end.
LEMMA AlwaysRInv == Spec => []RInv
<1>1. RInv /\ [Next]_vars => RInv'
  BY NextInv
<1> QED BY <1>1, InitInv, PTL DEF Spec

-----------------------------------------------------------------------------
(* What the routes promise.                                                *)

\* The rows, locks and answers keep their types, and no session holds a lock outside a
\* transaction: every way out of a handler closes its connection.
LEMMA RInvTypes == RInv => TypeOK
BY DEF RInv, Shapes, LocksFreed, ApprovalsFit, TypeOK, TaskRows, Statuses

THEOREM RoutesTypeOK == Spec => []TypeOK
<1>1. RInv => TypeOK
  BY RInvTypes
<1> QED BY <1>1, AlwaysRInv, PTL

\* RInv says that of every key one request was carried out, and its answer stored.
LEMMA StoredOnce == RInv => KeyedOnce
<1> SUFFICES ASSUME RInv PROVE KeyedOnce
  OBVIOUS
<1>1. \A a \in Approvals : tokens[a] <= 1
  BY DEF RInv, TokenOnce
<1>2. ASSUME NEW k \in Rows
      PROVE  LET same == {r \in Requests : Keyed(r) /\ Row(r) = k /\ executed[r].ok > 0}
             IN  /\ (same # {}) <=> idempotency[k].present
                 /\ \A r \in same : executed[r].ok = 1 /\ idempotency[k].body = Body(r)
                 /\ Cardinality(same) <= 1
  <2> DEFINE same == {r \in Requests : Keyed(r) /\ Row(r) = k /\ executed[r].ok > 0}
  <2>1. (same # {}) <=> idempotency[k].present
    BY DEF RInv, Stored
  <2>2. \A r \in same : executed[r].ok = 1 /\ idempotency[k].body = Body(r)
    BY DEF RInv, Stored
  <2>3. \A q, r \in same : q = r
    BY <2>2, RowShape
  <2>4. same = {} \/ \E r : same = {r}
    BY <2>3
  <2>5. Cardinality(same) <= 1
    <3>1. Cardinality({}) = 0 /\ \A r : Cardinality({r}) = 1
      BY FS_EmptySet, FS_Singleton
    <3>2. Cardinality(same) = 0 \/ Cardinality(same) = 1
      BY <2>4, <3>1, Zenon
    <3> HIDE DEF same
    <3> QED BY <3>2
  <2> QED BY <2>1, <2>2, <2>5
<1> QED BY <1>1, <1>2 DEF KeyedOnce

\* However often a request is sent under a key, and whatever is lost or dies meanwhile, it
\* is carried out at most once and its answer is stored exactly when it was; a raw token is
\* answered at most once.
THEOREM KeysExecuteOnce == Spec => []KeyedOnce
BY AlwaysRInv, StoredOnce, PTL

\* Whoever reads the committed audit stream of a generation and nothing else finds that each
\* event follows from those before it and arrives at what the rows of its approvals and the
\* task say, whatever requests the threads interleave and however transactions end.
THEOREM AuditTells == Spec => []AuditExplainsRows
<1>1. RInv => AuditExplainsRows
  BY DEF RInv
<1> QED BY <1>1, AlwaysRInv, PTL

-----------------------------------------------------------------------------
(* The requests as the environment of the event stream.                    *)

\* The reader changes none of the tables.
LEMMA StreamRInv == StreamSpec => []RInv
<1>1. StreamInit => RInv
  BY InitInv DEF StreamInit
<1>2. RInv /\ [StreamNext]_composed => RInv'
  <2> SUFFICES ASSUME RInv, [StreamNext]_composed PROVE RInv'
    OBVIOUS
  <2>1. [Next]_vars
    BY DEF StreamNext, RequestStep, ReaderStep, composed
  <2> QED BY <2>1, NextInv
<1> QED BY <1>1, <1>2, PTL DEF StreamSpec

\* Only a commit writes rows or events.
LEMMA OnlyCommits ==
    ASSUME RInv, Next, \A s \in Sessions : ~Commit(s)
    PROVE  UNCHANGED <<task, events>>
<1>1. PICK s \in Sessions :
          \/ \E r \in Requests : Send(s, r)
          \/ Lookup(s) \/ GetApproval(s) \/ GetTask(s) \/ ConsumeToken(s)
          \/ AppendEvent(s) \/ TaskView(s)
          \/ Answer(s) \/ LoseAnswer(s) \/ Fail(s) \/ DeadlockAbort(s)
  BY DEF Next
<1>2. Rollback(s) => UNCHANGED <<task, events>>
  BY DEF Rollback, tables
<1>3. (\E r \in Requests : Send(s, r)) => UNCHANGED <<task, events>>
  BY DEF Send, tables
<1>4. Lookup(s) \/ GetApproval(s) \/ TaskView(s) => UNCHANGED <<task, events>>
  BY DEF Lookup, GetApproval, TaskView, tables
<1>5. GetTask(s) => UNCHANGED <<task, events>>
  <2>1. DecideWith(s) => UNCHANGED <<task, events>>
    BY <1>2 DEF DecideWith, tables
  <2>2. AdvanceFrom(s) => UNCHANGED <<task, events>>
    BY <1>2 DEF AdvanceFrom, tables
  <2>3. ResetTask(s) => UNCHANGED <<task, events>>
    BY DEF ResetTask, tables
  <2>4. GetTask(s) => Request(s).op \in {"decide", "advance", "reset"}
    BY SessionShape, RequestShape DEF RInv, GetTask, At
  <2> QED BY <2>1, <2>2, <2>3, <2>4 DEF GetTask
<1>6. ConsumeToken(s) \/ AppendEvent(s) => UNCHANGED <<task, events>>
  BY <1>2 DEF ConsumeToken, AppendEvent, tables
<1>7. Answer(s) \/ LoseAnswer(s) \/ Fail(s) \/ DeadlockAbort(s) => UNCHANGED <<task, events>>
  BY <1>2 DEF Answer, LoseAnswer, Fail, DeadlockAbort, tables
<1> QED BY <1>1, <1>3, <1>4, <1>5, <1>6, <1>7

\* What a commit is to the stream: the events of the current generation, or a reset.
LEMMA CommitImplements ==
    ASSUME LogFits, RInv, NEW s \in Sessions, Commit(s), UNCHANGED client
    PROVE  Stream!Next \/ UNCHANGED <<task.generation, Log>>
<1> DEFINE g == task'.generation
           types == session[s].types
<1>1. /\ Shapes /\ task \in TaskRows /\ task' \in TaskRows
      /\ g = task.generation \/ Resets(s)
      /\ Resets(s) => g = task.generation + 1
      /\ g \in Generations /\ task.generation \in Nat /\ InTransaction(s)
  BY CommitShape DEF TaskRows, Generations
<1>2. /\ Len(events'[g]) = Len(events[g]) + Len(types) /\ Len(types) \in 0..5
      /\ \A h \in Generations : h # g => events'[h] = events[h]
  <2>1. /\ events[g] \in Seq(AuditEvents) /\ task' \in Written
        /\ types \in TypeLists /\ session[s].number \in Nat
        /\ events'[g] = Linked(events[g], types, task', session[s].number)
        /\ \A h \in Generations : h # g => events'[h] = events[h]
    BY CommitShapes
  <2> DEFINE stream == events[g]
             t == task'
             n == session[s].number
  <2>0. stream \in Seq(AuditEvents) /\ types \in TypeLists /\ t \in Written /\ n \in Nat
    BY <2>1
  <2> HIDE DEF stream, types, t, n
  <2>2. Len(Linked(stream, types, t, n)) = Len(stream) + Len(types) /\ Len(types) \in 0..5
    BY <2>0, LinkedShape
  <2> QED BY <2>1, <2>2 DEF stream, t, n
<1>3. Log' = [Log EXCEPT ![g] = Len(events[g]) + Len(types)]
  BY <1>1, <1>2 DEF Log
<1>4. Log[g] = Len(events[g]) /\ Len(events[g]) \in Nat
  BY <1>1, LenProperties DEF Log, Shapes
<1>5. CASE Resets(s)
  <2>1. Len(types) = 2
    BY <1>5 DEF Resets, SeedTypes
  <2>2. events[g] = <<>>
    BY <1>1, <1>5 DEF RInv, AuditExplainsRows
  <2> HIDE DEF types
  <2>3. Len(events[g]) + Len(types) = 2
    <3>1. Len(<<>>) = 0
      OBVIOUS
    <3> QED BY <2>1, <2>2, <3>1
  <2>4. task.generation < MaxGenerations
    BY <1>1, <1>5, Bounds DEF Generations
  <2>5. Stream!Reset
    BY <1>1, <1>3, <1>5, <2>3, <2>4 DEF Stream!Reset, client
  <2> QED BY <2>5 DEF Stream!Next
<1> HIDE DEF types
<1>6. CASE ~Resets(s)
  <2>1. g = task.generation
    BY <1>1, <1>6
  <2>2. CASE Len(types) = 0
    <3>1. Log' = Log
      BY <1>3, <1>4, <2>2 DEF Log
    <3> QED BY <2>1, <3>1
  <2>3. CASE Len(types) \in 1..5
    <3>1. Cardinality(Pending) >= 1
      <4>1. Pending # {}
        BY <1>1 DEF Pending
      <4> QED BY <4>1, PendingFinite, FS_EmptySet
    <3>2. Log[g] + Len(types) <= MaxEvents /\ Len(types) \in 1..MaxEvents
      <4>1. Len(events[g]) + 5 * Cardinality(Pending) <= 2 + 5 * sends
        BY <1>1 DEF RInv, Fits
      <4>2. sends \in Nat /\ sends <= MaxSends /\ MaxSends \in Nat
        BY <1>1, Bounds DEF Shapes
      <4>3. Len(types) <= 5 /\ Len(types) \in Nat /\ Len(types) >= 1
        <5>1. \A n \in 1..5 : n <= 5 /\ n \in Nat /\ n >= 1
          OBVIOUS
        <5> QED BY <2>3, <5>1
      <4>4. MaxEvents \in Nat /\ MaxEvents >= 2 + 5 * MaxSends
        BY DEF LogFits
      <4> HIDE DEF g
      <4> QED BY <1>4, <3>1, <4>1, <4>2, <4>3, <4>4, PendingFinite
    <3>3. Stream!CommitEvents(Len(types))
      BY <1>3, <1>4, <2>1, <3>2 DEF Stream!CommitEvents, client
    <3> QED BY <3>2, <3>3 DEF Stream!Next
  <2>4. Len(types) = 0 \/ Len(types) \in 1..5
    BY <1>2
  <2> QED BY <2>2, <2>3, <2>4
<1> QED BY <1>5, <1>6

\* The requests are the environment the event stream was written for: a transaction only
\* extends the stream of the current generation by the events its handler appended, or
\* starts the next one with the two of the seed, for any threads and requests.
THEOREM RequestsImplementStream ==
    ASSUME LogFits
    PROVE  StreamSpec => ImplementsStream
<1>1. StreamInit => Stream!Init
  <2> SUFFICES ASSUME Init, Stream!ClientInit PROVE Stream!Init
    BY DEF StreamInit
  <2>1. /\ task = Seeded(1, "happy_path")
        /\ events = [g \in Generations |->
                        IF g = 1 THEN Linked(<<>>, SeedTypes, task, 0) ELSE <<>>]
    BY DEF Init
  <2>2. task.generation = 1 /\ 1 \in Generations /\ \A g \in Generations : g \in Nat
    BY <2>1, Bounds DEF Seeded, Generations
  <2>3. Len(Linked(<<>>, SeedTypes, task, 0)) = 2
    <3>1. task \in Written /\ 0 \in Nat
      BY <2>1, Bounds, TransitionShape DEF Seeded, Written, Scenarios
    <3> QED BY <3>1, SeedEvents
  <2>4. \A g \in Generations : Log[g] = IF g = 1 THEN 2 ELSE 0
    <3>1. Len(<<>>) = 0
      OBVIOUS
    <3>2. \A g \in Generations :
             events[g] = IF g = 1 THEN Linked(<<>>, SeedTypes, task, 0) ELSE <<>>
      BY <2>1
    <3>3. \A g \in Generations : Len(events[g]) = IF g = 1 THEN 2 ELSE 0
      BY <2>3, <3>1, <3>2
    <3> QED BY <3>3 DEF Log
  <2>5. 2 \in 0..MaxEvents /\ 0 \in 0..MaxEvents
    BY Bounds DEF LogFits
  <2>6. Log \in [Generations -> 0..MaxEvents]
    BY <2>4, <2>5 DEF Log
  <2>7. \A g \in Generations : Log[g] > 0 <=> g <= 1
    <3>1. \A g \in Generations : g <= 1 <=> g = 1
      BY <2>2 DEF Generations
    <3> QED BY <2>4, <3>1
  <2> QED BY <2>2, <2>6, <2>7 DEF Stream!Init, Stream!Generations, Generations
<1>2. RInv /\ [StreamNext]_composed => [Stream!Next]_(Stream!vars)
  <2> SUFFICES ASSUME RInv, [StreamNext]_composed
               PROVE  Stream!Next \/ UNCHANGED <<task.generation, Log, client>>
    BY DEF Stream!vars, client
  <2>1. CASE RequestStep
    <3>1. CASE \E s \in Sessions : Commit(s)
      BY <2>1, <3>1, CommitImplements DEF RequestStep
    <3>2. CASE \A s \in Sessions : ~Commit(s)
      BY <2>1, <3>2, OnlyCommits DEF RequestStep, Log
    <3> QED BY <3>1, <3>2
  <2>2. CASE ReaderStep
    BY <2>2 DEF ReaderStep, Stream!Next
  <2>3. CASE UNCHANGED composed
    BY <2>3 DEF composed, vars, Log
  <2> QED BY <2>1, <2>2, <2>3 DEF StreamNext
<1> QED BY <1>1, <1>2, StreamRInv, PTL DEF StreamSpec, ImplementsStream, Stream!Spec

-----------------------------------------------------------------------------
(* What reaches the client.                                                *)

Cursors == [generation: Generations \cup {0}, sequence: Nat]
Readers == [pc: {"closed", "get_task", "list_events", "wait"},
            generation: Generations \cup {0}, sequence: Nat]

\* The numbers follow one another from the first one on, up to "last".
Numbered(numbers, last) ==
    /\ \A i \in DOMAIN numbers : numbers[i] = numbers[1] + i - 1
    /\ numbers[1] + Len(numbers) - 1 = last

\* The last of numbers that follow one another.
LastNumber(numbers) == numbers[1] + Len(numbers) - 1

Received(g) ==
    received[g] # <<>> =>
        /\ g <= lastEventId.generation
        /\ received[g][1] \in {1, url + 1}
        /\ Numbered(received[g], LastNumber(received[g])) /\ LastNumber(received[g]) <= Log[g]

\* Where the iterator reads on.
Reads ==
    reader.pc # "closed" =>
        /\ reader.generation \in Generations
        /\ lastEventId.generation <= reader.generation /\ reader.generation <= task.generation
        /\ IF received[reader.generation] = <<>> THEN reader.sequence \in {0, url}
           ELSE reader.sequence = LastNumber(received[reader.generation])

\* The client's cursor and the server's iterator stand at the end of what the client got,
\* and neither is of a generation that is still to come.
SInv ==
    /\ task.generation \in Generations /\ Log \in [Generations -> Nat] /\ url \in Nat
    /\ received \in [Generations -> Seq(Nat)]
    /\ lastEventId \in Cursors /\ reader \in Readers
    /\ lastEventId.generation <= task.generation
    /\ lastEventId.generation # 0 =>
          /\ received[lastEventId.generation] # <<>>
          /\ lastEventId.sequence = LastNumber(received[lastEventId.generation])
    /\ \A g \in Generations : Received(g)
    /\ Reads

\* A page that is sent continues the numbers.
LEMMA NumbersGo ==
    ASSUME NEW numbers \in Seq(Nat), NEW from \in Nat, NEW last \in Nat, from <= last,
           numbers # <<>> => Numbered(numbers, from)
    PROVE  LET longer == numbers \o [i \in 1..(last - from) |-> from + i]
           IN  /\ longer \in Seq(Nat)
               /\ last = from => longer = numbers
               /\ last > from =>
                     /\ longer # <<>> /\ Numbered(longer, last)
                     /\ longer[1] = IF numbers = <<>> THEN from + 1 ELSE numbers[1]
<1> DEFINE sent == [i \in 1..(last - from) |-> from + i]
           longer == numbers \o sent
<1>1. last - from \in Nat /\ \A i \in 1..(last - from) : from + i \in Nat
  OBVIOUS
<1>2. sent \in Seq(Nat) /\ Len(sent) = last - from /\ \A i \in 1..(last - from) : sent[i] = from + i
  BY <1>1
<1>3. Len(numbers) \in Nat /\ DOMAIN numbers = 1..Len(numbers)
  BY LenProperties
<1> HIDE DEF sent
<1>4. /\ longer \in Seq(Nat) /\ Len(longer) = Len(numbers) + (last - from)
      /\ \A i \in 1..(Len(numbers) + (last - from)) :
            longer[i] = IF i <= Len(numbers) THEN numbers[i] ELSE sent[i - Len(numbers)]
  <2>1. /\ numbers \o sent \in Seq(Nat) /\ Len(numbers \o sent) = Len(numbers) + Len(sent)
        /\ \A i \in 1..(Len(numbers) + Len(sent)) :
              (numbers \o sent)[i] = IF i <= Len(numbers) THEN numbers[i] ELSE sent[i - Len(numbers)]
    BY <1>2, ConcatProperties
  <2>2. Len(sent) = last - from
    BY <1>2
  <2> QED BY <2>1, <2>2
<1>5. ASSUME last = from PROVE longer = numbers
  <2>1. Len(sent) = 0
    BY <1>2, <1>5
  <2>2. sent = <<>>
    BY <1>2, <2>1, EmptySeq
  <2> QED BY <2>2, ConcatEmptySeq
<1>6. ASSUME last > from
      PROVE  /\ longer # <<>> /\ Numbered(longer, last)
             /\ longer[1] = IF numbers = <<>> THEN from + 1 ELSE numbers[1]
  <2>1. Len(longer) > 0 /\ DOMAIN longer = 1..Len(longer) /\ 1 \in 1..Len(longer)
    BY <1>3, <1>4, <1>6, LenProperties
  <2>2. CASE numbers = <<>>
    <3>1. Len(numbers) = 0
      BY <2>2
    <3>2. \A i \in 1..Len(longer) : longer[i] = from + i
      BY <1>2, <1>4, <3>1
    <3>3. longer[1] = from + 1
      BY <2>1, <3>2
    <3>4. Numbered(longer, last)
      <4>1. Len(longer) = last - from
        BY <1>1, <1>4, <3>1
      <4>2. longer[1] + Len(longer) - 1 = last
        BY <3>3, <4>1
      <4>3. \A i \in DOMAIN longer : longer[i] = longer[1] + i - 1
        <5> SUFFICES ASSUME NEW i \in 1..Len(longer) PROVE longer[i] = longer[1] + i - 1
          BY <2>1
        <5>1. i \in Int /\ longer[i] = from + i
          BY <3>2
        <5> HIDE DEF longer
        <5> QED BY <3>3, <5>1
      <4> QED BY <4>2, <4>3 DEF Numbered
    <3> QED BY <2>1, <2>2, <3>3, <3>4
  <2>3. CASE numbers # <<>>
    <3>1. Len(numbers) > 0 /\ numbers[1] \in Nat
      BY <1>3, <2>3, EmptySeq
    <3>2. /\ \A i \in 1..Len(numbers) : numbers[i] = numbers[1] + i - 1
          /\ numbers[1] + Len(numbers) - 1 = from
      BY <1>3, <2>3 DEF Numbered
    <3>3. longer[1] = numbers[1]
      BY <1>3, <1>4, <3>1
    <3>4. \A i \in 1..Len(longer) : longer[i] = numbers[1] + i - 1
      <4> SUFFICES ASSUME NEW i \in 1..Len(longer) PROVE longer[i] = numbers[1] + i - 1
        OBVIOUS
      <4>1. CASE i <= Len(numbers)
        BY <1>3, <1>4, <3>2, <4>1
      <4>2. CASE i > Len(numbers)
        <5>1. i - Len(numbers) \in 1..(last - from) /\ longer[i] = sent[i - Len(numbers)]
          BY <1>3, <1>4, <4>2
        <5>2. longer[i] = from + (i - Len(numbers))
          BY <1>2, <5>1
        <5>3. from = numbers[1] + Len(numbers) - 1
          BY <3>2
        <5>4. i \in Int
          OBVIOUS
        <5> HIDE DEF longer
        <5> QED BY <1>3, <3>1, <5>2, <5>3, <5>4
      <4> QED BY <1>3, <1>4, <4>1, <4>2, SMTT(30)
    <3>5. Numbered(longer, last)
      <4>1. Len(longer) = Len(numbers) + (last - from)
        BY <1>4
      <4>2. from = numbers[1] + Len(numbers) - 1
        BY <3>2
      <4> HIDE DEF longer
      <4>3. longer[1] + Len(longer) - 1 = last
        <5>1. numbers[1] \in Int /\ Len(numbers) \in Int
          BY <1>3, <3>1
        <5>2. numbers[1] + (Len(numbers) + (last - from)) - 1 = last
          <6> DEFINE a == numbers[1]
                     b == Len(numbers)
          <6>1. a \in Int /\ b \in Int /\ from = a + b - 1
            BY <4>2, <5>1
          <6> HIDE DEF a, b
          <6>2. a + (b + (last - from)) - 1 = last
            BY <6>1
          <6> QED BY <6>2 DEF a, b
        <5> QED BY <3>3, <4>1, <5>2
      <4>4. \A i \in DOMAIN longer : longer[i] = longer[1] + i - 1
        BY <2>1, <3>3, <3>4
      <4> QED BY <4>3, <4>4 DEF Numbered
    <3> QED BY <2>1, <2>3, <3>3, <3>5
  <2> QED BY <2>2, <2>3
<1> QED BY <1>4, <1>5, <1>6 DEF sent

\* The events of a page up to "last" reach the client, wherever it is cut.
LEMMA YieldInv ==
    ASSUME SInv, reader.pc = "list_events", NEW last \in Nat,
           reader.sequence <= last, last > reader.sequence => last <= Log[reader.generation],
           Stream!Yield(last), UNCHANGED <<task.generation, Log, url>>
    PROVE  /\ received' \in [Generations -> Seq(Nat)] /\ lastEventId' \in Cursors
           /\ lastEventId'.generation <= reader.generation
           /\ lastEventId'.generation # 0 =>
                 /\ received'[lastEventId'.generation] # <<>>
                 /\ lastEventId'.sequence = LastNumber(received'[lastEventId'.generation])
           /\ \A g \in Generations : Received(g)'
           /\ IF received'[reader.generation] = <<>> THEN last \in {0, url}
              ELSE last = LastNumber(received'[reader.generation])
<1> DEFINE g == reader.generation
           from == reader.sequence
           sent == [i \in 1..(last - from) |-> from + i]
           longer == received[g] \o sent
<1>1. /\ g \in Generations /\ from \in Nat /\ received[g] \in Seq(Nat) /\ url \in Nat
      /\ lastEventId.generation <= g /\ g <= task.generation
      /\ IF received[g] = <<>> THEN from \in {0, url} ELSE from = LastNumber(received[g])
      /\ \A h \in Generations : h \in Nat \ {0}
      /\ lastEventId \in Cursors /\ received \in [Generations -> Seq(Nat)]
  BY DEF SInv, Reads, Readers, Generations
<1>2. /\ received' = [received EXCEPT ![g] = longer]
      /\ lastEventId' = IF sent = <<>> THEN lastEventId ELSE [generation |-> g, sequence |-> last]
  BY DEF Stream!Yield
<1>3. received[g] # <<>> => Numbered(received[g], from)
  BY <1>1 DEF SInv, Received
<1>4. /\ longer \in Seq(Nat) /\ (last = from => longer = received[g])
      /\ last > from => /\ longer # <<>> /\ Numbered(longer, last)
                        /\ longer[1] = IF received[g] = <<>> THEN from + 1 ELSE received[g][1]
  BY <1>1, <1>3, NumbersGo, ZenonT(60)
<1>5. /\ last = from => sent = <<>>
      /\ last > from => sent # <<>>
  <2>1. ASSUME last = from PROVE sent = <<>>
    <3>1. last - from = 0
      BY <1>1, <2>1
    <3> QED BY <3>1
  <2>2. ASSUME last > from PROVE sent # <<>>
    <3>1. 1 \in DOMAIN sent
      BY <1>1, <2>2
    <3> QED BY <3>1
  <2> QED BY <2>1, <2>2
<1> HIDE DEF sent, longer
<1>6. /\ received' \in [Generations -> Seq(Nat)] /\ received'[g] = longer
      /\ \A h \in Generations : h # g => received'[h] = received[h]
  BY <1>1, <1>2, <1>4
<1>7. \A h \in Generations :
         received'[h] = received[h] => LastNumber(received'[h]) = LastNumber(received[h])
  BY DEF LastNumber
<1>8. CASE last = from
  <2>1. received' = received /\ lastEventId' = lastEventId
    BY <1>1, <1>2, <1>4, <1>5, <1>8
  <2>2. \A h \in Generations : Received(h)'
    BY <2>1 DEF SInv, Received, LastNumber
  <2>3. lastEventId.generation # 0 => lastEventId.generation \in Generations
    BY <1>1 DEF Cursors
  <2> QED BY <1>1, <1>6, <1>7, <1>8, <2>1, <2>2, <2>3 DEF SInv
<1>9. CASE last > from
  <2>1. /\ lastEventId' = [generation |-> g, sequence |-> last]
        /\ longer # <<>> /\ Numbered(longer, last)
        /\ longer[1] = IF received[g] = <<>> THEN from + 1 ELSE received[g][1]
    BY <1>2, <1>4, <1>5, <1>9
  <2>2. LastNumber(received'[g]) = last
    BY <1>6, <2>1 DEF LastNumber, Numbered
  <2>3. longer[1] \in {1, url + 1}
    BY <1>1, <2>1 DEF SInv, Received
  <2>4. ASSUME NEW h \in Generations PROVE Received(h)'
    <3>1. CASE h = g
      BY <1>1, <1>6, <1>9, <2>1, <2>2, <2>3, <3>1 DEF Received
    <3>2. CASE h # g
      <4>1. /\ received'[h] = received[h] /\ Received(h)
            /\ LastNumber(received'[h]) = LastNumber(received[h])
        BY <1>6, <1>7, <3>2 DEF SInv
      <4>2. lastEventId.generation <= lastEventId'.generation
        BY <1>1, <2>1
      <4>3. h <= lastEventId.generation => h <= lastEventId'.generation
        BY <1>1, <2>1, <4>2 DEF Cursors, Generations
      <4> QED BY <4>1, <4>3 DEF Received
    <3> QED BY <3>1, <3>2
  <2>5. lastEventId' \in Cursors
    BY <1>1, <2>1 DEF Cursors
  <2> QED BY <1>1, <1>6, <2>1, <2>2, <2>4, <2>5
<1> QED BY <1>1, <1>8, <1>9

\* What the log may do: it grows, and a generation that starts is not the client's yet.
LEMMA LogGrows ==
    ASSUME SInv, UNCHANGED client,
           task'.generation \in Generations, task.generation <= task'.generation,
           Log' \in [Generations -> Nat],
           \A g \in Generations : g <= task.generation => Log[g] <= Log'[g]
    PROVE  SInv'
<1>1. UNCHANGED <<url, lastEventId, reader, received>>
  BY DEF client
<1>2. \A g \in Generations : LastNumber(received'[g]) = LastNumber(received[g])
  BY <1>1 DEF LastNumber
<1>3. /\ task.generation \in Generations /\ lastEventId \in Cursors
      /\ lastEventId.generation <= task.generation
  BY DEF SInv
<1>4. ASSUME NEW g \in Generations PROVE Received(g)'
  <2> SUFFICES ASSUME received[g] # <<>> PROVE LastNumber(received[g]) <= Log'[g]
    BY <1>1, <1>2 DEF SInv, Received
  <2>1. /\ g <= lastEventId.generation /\ LastNumber(received[g]) <= Log[g]
        /\ received[g][1] \in {1, url + 1}
    BY DEF SInv, Received
  <2>2. LastNumber(received[g]) \in Int
    <3>1. received[g][1] \in Int /\ Len(received[g]) \in Int
      BY <2>1, LenProperties DEF SInv
    <3> QED BY <3>1 DEF LastNumber
  <2>3. g <= task.generation
    BY <1>3, <2>1 DEF Cursors, Generations
  <2>4. Log[g] <= Log'[g] /\ Log[g] \in Nat /\ Log'[g] \in Nat
    BY <2>3 DEF SInv
  <2> QED BY <2>1, <2>2, <2>4
<1>5. Reads'
  <2>1. reader.pc # "closed" => reader.generation \in Generations /\ reader.generation <= task.generation
    BY DEF SInv, Reads
  <2>2. reader.pc # "closed" => reader.generation <= task'.generation
    BY <1>3, <2>1 DEF Generations
  <2> QED BY <1>1, <1>2, <2>1, <2>2 DEF SInv, Reads
<1>6. lastEventId.generation <= task'.generation
  BY <1>3 DEF Cursors, Generations
<1>7. lastEventId.generation # 0 => lastEventId.generation \in Generations
  BY <1>3 DEF Cursors
<1> QED BY <1>1, <1>2, <1>4, <1>5, <1>6, <1>7 DEF SInv

\* The stream keeps its cursors: every action of EventStream.
LEMMA StreamNextInv ==
    ASSUME SInv, [Stream!Next]_(Stream!vars)
    PROVE  SInv'
<1>0. /\ task.generation \in Generations /\ Log \in [Generations -> Nat] /\ url \in Nat
      /\ received \in [Generations -> Seq(Nat)]
      /\ lastEventId \in Cursors /\ reader \in Readers
      /\ \A g \in Generations : g \in Nat \ {0}
  BY DEF SInv, Generations
<1>1. CASE UNCHANGED Stream!vars
  BY <1>0, <1>1, LogGrows DEF Stream!vars, client, Generations
<1>2. ASSUME NEW n \in 1..MaxEvents, Stream!CommitEvents(n) PROVE SInv'
  <2>1. /\ Log' = [Log EXCEPT ![task.generation] = @ + n] /\ task'.generation = task.generation
        /\ UNCHANGED client
    BY <1>2 DEF Stream!CommitEvents, client
  <2>2. Log' \in [Generations -> Nat] /\ \A g \in Generations : Log[g] <= Log'[g]
    BY <1>0, <2>1
  <2> QED BY <1>0, <2>1, <2>2, LogGrows
<1>3. CASE Stream!Reset
  <2>1. /\ task.generation < MaxGenerations /\ task'.generation = task.generation + 1
        /\ Log' = [Log EXCEPT ![task'.generation] = 2] /\ UNCHANGED client
    BY <1>3 DEF Stream!Reset, client
  <2>2. task'.generation \in Generations /\ task.generation <= task'.generation
    <3>1. task.generation \in 1..MaxGenerations /\ MaxGenerations \in Nat
      BY <1>0, Bounds DEF Generations
    <3>2. \A n \in 1..MaxGenerations : n < MaxGenerations => n + 1 \in 1..MaxGenerations /\ n <= n + 1
      BY <3>1
    <3>3. task.generation + 1 \in 1..MaxGenerations /\ task.generation <= task.generation + 1
      BY <2>1, <3>1, <3>2
    <3> QED BY <2>1, <3>3 DEF Generations
  <2>3. Log' \in [Generations -> Nat]
    BY <1>0, <2>1
  <2>4. \A g \in Generations : g <= task.generation => Log[g] <= Log'[g]
    <3> SUFFICES ASSUME NEW g \in Generations, g <= task.generation PROVE Log[g] <= Log'[g]
      OBVIOUS
    <3>1. g # task'.generation
      BY <1>0, <2>1
    <3> QED BY <1>0, <2>1, <3>1
  <2> QED BY <2>1, <2>2, <2>3, <2>4, LogGrows
<1>4. ASSUME UNCHANGED <<task.generation, Log, url, lastEventId, received>>,
             reader' \in Readers, Reads'
      PROVE  SInv'
  <2>1. \A g \in Generations : /\ LastNumber(received'[g]) = LastNumber(received[g])
                               /\ Received(g) => Received(g)'
    BY <1>4 DEF LastNumber, Received
  <2>2. lastEventId.generation # 0 => lastEventId.generation \in Generations
    BY <1>0 DEF Cursors
  <2> QED BY <1>4, <2>1, <2>2 DEF SInv
<1>5. \A g \in Generations : received[g] # <<>> => g <= lastEventId.generation
  BY DEF SInv, Received
<1>6. CASE Stream!Connect
  <2>1. /\ reader' = [pc |-> "get_task", generation |-> task.generation,
                      sequence |-> Stream!StartAfter]
        /\ UNCHANGED <<task.generation, Log, url, lastEventId, received>>
    BY <1>6 DEF Stream!Connect, Stream!database
  <2>2. Stream!StartAfter = IF lastEventId.generation = task.generation THEN lastEventId.sequence
                            ELSE url
    BY DEF Stream!StartAfter
  <2>3. reader' \in Readers
    BY <1>0, <2>1, <2>2 DEF Readers, Cursors
  <2>4. IF received[task.generation] = <<>> THEN Stream!StartAfter \in {0, url}
        ELSE Stream!StartAfter = LastNumber(received[task.generation])
    <3>1. CASE lastEventId.generation = task.generation
      BY <1>0, <2>2, <3>1 DEF SInv
    <3>2. CASE lastEventId.generation # task.generation
      <4>1. ~(task.generation <= lastEventId.generation)
        BY <1>0, <3>2 DEF SInv, Cursors
      <4>2. received[task.generation] = <<>>
        BY <1>0, <1>5, <4>1
      <4> QED BY <2>2, <3>2, <4>2
    <3> QED BY <3>1, <3>2
  <2>5. Reads'
    <3>1. LastNumber(received'[task.generation]) = LastNumber(received[task.generation])
      BY <2>1 DEF LastNumber
    <3> QED BY <1>0, <2>1, <2>4, <3>1 DEF Reads, SInv, LastNumber
  <2> QED BY <1>4, <2>1, <2>3, <2>5
<1>7. CASE Stream!GetTask
  <2>1. /\ reader' = [pc |-> "list_events", generation |-> task.generation,
                      sequence |-> Stream!SequenceNow]
        /\ UNCHANGED <<task.generation, Log, url, lastEventId, received>>
        /\ reader.pc = "get_task"
    BY <1>7 DEF Stream!GetTask, Stream!database
  <2>2. Stream!SequenceNow = IF task.generation = reader.generation THEN reader.sequence ELSE 0
    BY DEF Stream!SequenceNow
  <2>3. reader' \in Readers
    BY <1>0, <2>1, <2>2 DEF Readers
  <2>4. IF received[task.generation] = <<>> THEN Stream!SequenceNow \in {0, url}
        ELSE Stream!SequenceNow = LastNumber(received[task.generation])
    <3>1. /\ reader.generation \in Generations /\ lastEventId.generation <= reader.generation
          /\ reader.generation <= task.generation
          /\ IF received[reader.generation] = <<>> THEN reader.sequence \in {0, url}
             ELSE reader.sequence = LastNumber(received[reader.generation])
      BY <2>1 DEF SInv, Reads
    <3>2. CASE task.generation = reader.generation
      BY <2>2, <3>1, <3>2
    <3>3. CASE task.generation # reader.generation
      <4>1. ~(task.generation <= lastEventId.generation)
        BY <1>0, <3>1, <3>3 DEF Cursors
      <4>2. received[task.generation] = <<>>
        BY <1>0, <1>5, <4>1
      <4> QED BY <2>2, <3>3, <4>2
    <3> QED BY <3>2, <3>3
  <2>5. Reads'
    BY <1>0, <2>1, <2>4 DEF Reads, SInv, LastNumber
  <2> QED BY <1>4, <2>1, <2>3, <2>5
<1>8. CASE Stream!Wake
  <2>1. /\ reader' = [reader EXCEPT !.pc = "get_task"] /\ reader.pc = "wait"
        /\ UNCHANGED <<task.generation, Log, url, lastEventId, received>>
    BY <1>8 DEF Stream!Wake, Stream!database
  <2>2. /\ reader' \in Readers /\ reader'.generation = reader.generation
        /\ reader'.sequence = reader.sequence
    BY <1>0, <2>1 DEF Readers
  <2>3. Reads'
    BY <2>1, <2>2 DEF SInv, Reads, LastNumber
  <2> QED BY <1>4, <2>1, <2>2, <2>3
<1>9. CASE Stream!Drop
  <2>1. reader' = Stream!Closed /\ UNCHANGED <<task.generation, Log, url, lastEventId, received>>
    BY <1>9 DEF Stream!Drop, Stream!database
  <2>2. reader' \in Readers /\ reader'.pc = "closed"
    BY <2>1 DEF Stream!Closed, Stream!NoGeneration, Readers
  <2> QED BY <1>4, <2>1, <2>2 DEF Reads
<1>10. reader.pc = "list_events" =>
          /\ Stream!PageEnd \in Nat /\ reader.sequence <= Stream!PageEnd
          /\ Stream!PageEnd > reader.sequence => Stream!PageEnd <= Log[reader.generation]
          /\ reader.sequence \in Nat /\ reader.generation \in Generations
          /\ Log[reader.generation] \in Nat
  <2> SUFFICES ASSUME reader.pc = "list_events"
               PROVE  /\ Stream!PageEnd \in Nat /\ reader.sequence <= Stream!PageEnd
                      /\ Stream!PageEnd > reader.sequence => Stream!PageEnd <= Log[reader.generation]
                      /\ reader.sequence \in Nat /\ reader.generation \in Generations
                      /\ Log[reader.generation] \in Nat
    OBVIOUS
  <2>1. reader.sequence \in Nat /\ reader.generation \in Generations
    BY <1>0 DEF SInv, Reads, Readers
  <2>2. Log[reader.generation] \in Nat /\ PageSize \in Nat
    BY <1>0, <2>1, StreamInputs DEF Stream!Inputs
  <2> QED BY <2>1, <2>2 DEF Stream!PageEnd
<1>11. ASSUME reader.pc = "list_events", NEW last \in Nat, reader.sequence <= last,
              last <= Stream!PageEnd, Stream!Yield(last), UNCHANGED <<task.generation, Log, url>>,
              reader' \in Readers,
              reader'.pc # "closed" => reader'.generation = reader.generation /\ reader'.sequence = last
       PROVE  SInv'
  <2>1. last > reader.sequence => last <= Log[reader.generation]
    BY <1>10, <1>11
  <2>2. /\ received' \in [Generations -> Seq(Nat)] /\ lastEventId' \in Cursors
        /\ lastEventId'.generation <= reader.generation
        /\ lastEventId'.generation # 0 =>
              /\ received'[lastEventId'.generation] # <<>>
              /\ lastEventId'.sequence = LastNumber(received'[lastEventId'.generation])
        /\ \A g \in Generations : Received(g)'
        /\ IF received'[reader.generation] = <<>> THEN last \in {0, url}
           ELSE last = LastNumber(received'[reader.generation])
    BY <1>11, <2>1, YieldInv
  <2>3. /\ reader.generation \in Generations /\ reader.generation <= task.generation
    BY <1>11 DEF SInv, Reads
  <2>4. lastEventId'.generation <= task'.generation
    BY <1>0, <1>11, <2>2, <2>3, SMTT(30) DEF Cursors
  <2>5. Reads'
    <3> SUFFICES ASSUME reader'.pc # "closed"
                 PROVE  /\ reader'.generation \in Generations
                        /\ lastEventId'.generation <= reader'.generation
                        /\ reader'.generation <= task'.generation
                        /\ IF received'[reader'.generation] = <<>> THEN reader'.sequence \in {0, url'}
                           ELSE reader'.sequence = LastNumber(received'[reader'.generation])
      BY DEF Reads
    <3>1. reader'.generation = reader.generation /\ reader'.sequence = last
      BY <1>11
    <3>2. LastNumber(received'[reader'.generation]) = LastNumber(received'[reader.generation])
      BY <3>1 DEF LastNumber
    <3> QED BY <1>11, <2>2, <2>3, <3>1, <3>2
  <2> QED BY <1>0, <1>11, <2>2, <2>4, <2>5 DEF SInv
<1>12. CASE Stream!ListEvents
  <2>1. /\ reader.pc = "list_events" /\ Stream!Yield(Stream!PageEnd)
        /\ reader' = [reader EXCEPT !.pc = "wait", !.sequence = Stream!PageEnd]
        /\ UNCHANGED <<task.generation, Log, url>>
    BY <1>12 DEF Stream!ListEvents, Stream!database
  <2>2. /\ reader' \in Readers /\ reader'.generation = reader.generation
        /\ reader'.sequence = Stream!PageEnd
    BY <1>0, <1>10, <2>1 DEF Readers
  <2>3. Stream!PageEnd <= Stream!PageEnd
    BY <1>10, <2>1
  <2> QED BY <1>10, <1>11, <2>1, <2>2, <2>3
<1>13. CASE Stream!ListEventsCut
  <2>1. /\ reader.pc = "list_events" /\ reader' = Stream!Closed
        /\ UNCHANGED <<task.generation, Log, url>>
    BY <1>13 DEF Stream!ListEventsCut, Stream!database
  <2>2. PICK last \in reader.sequence..Stream!PageEnd : Stream!Yield(last)
    BY <1>13 DEF Stream!ListEventsCut
  <2>3. last \in Nat /\ reader.sequence <= last /\ last <= Stream!PageEnd
    BY <1>10, <2>1
  <2>4. reader' \in Readers /\ reader'.pc = "closed"
    BY <2>1 DEF Stream!Closed, Stream!NoGeneration, Readers
  <2> QED BY <1>11, <2>1, <2>2, <2>3, <2>4
<1> QED BY <1>1, <1>2, <1>3, <1>6, <1>7, <1>8, <1>9, <1>12, <1>13 DEF Stream!Next

LEMMA StreamInitInv == Stream!Init => SInv
<1> SUFFICES ASSUME Stream!Init PROVE SInv
  OBVIOUS
<1>1. /\ Generations \subseteq Nat \ {0} /\ 1 \in Generations /\ MaxEvents \in Nat
      /\ AfterSequences \subseteq Nat
  BY Bounds, StreamInputs DEF Generations, Stream!Inputs
<1>2. /\ task.generation \in Generations /\ url \in AfterSequences
      /\ lastEventId = [generation |-> 0, sequence |-> 0]
      /\ reader = [pc |-> "closed", generation |-> 0, sequence |-> 0]
      /\ received = [g \in Generations |-> <<>>]
      /\ Log \in [Generations -> 0..MaxEvents]
  BY DEF Stream!Init, Stream!ClientInit, Stream!Closed, Stream!NoGeneration, Stream!Generations,
         Generations
<1>3. Log \in [Generations -> Nat]
  BY <1>1, <1>2
<1>4. \A g \in Generations : received[g] = <<>>
  BY <1>2
<1>5. received \in [Generations -> Seq(Nat)]
  BY <1>2
<1>6. lastEventId \in Cursors /\ reader \in Readers
  BY <1>2 DEF Cursors, Readers
<1>7. lastEventId.generation = 0 /\ lastEventId.generation <= task.generation
  BY <1>1, <1>2
<1>8. Reads /\ \A g \in Generations : Received(g)
  BY <1>2, <1>4 DEF Reads, Received
<1>9. url \in Nat /\ task.generation \in Generations
  BY <1>1, <1>2
<1> QED BY <1>3, <1>5, <1>6, <1>7, <1>8, <1>9 DEF SInv

LEMMA AlwaysSInv == Stream!Spec => []SInv
<1> QED BY StreamInitInv, StreamNextInv, PTL DEF Stream!Spec

\* Numbers that follow one another and end within the log are no more than it has.
LEMMA SInvDelivers == SInv => Stream!TypeOK /\ Stream!DeliveredInOrder
<1> SUFFICES ASSUME SInv PROVE Stream!TypeOK /\ Stream!DeliveredInOrder
  OBVIOUS
<1>1. /\ lastEventId \in Cursors /\ reader \in Readers /\ received \in [Generations -> Seq(Nat)]
      /\ Log \in [Generations -> Nat] /\ url \in Nat /\ Stream!Generations = Generations
  BY DEF SInv, Stream!Generations, Generations
<1>2. ASSUME NEW g \in Generations, received[g] # <<>>
      PROVE  /\ Len(received[g]) <= Log[g] /\ received[g][1] \in {1, url + 1}
             /\ \A i \in 2..Len(received[g]) : received[g][i] = received[g][i - 1] + 1
  <2> DEFINE first == received[g][1]
             len == Len(received[g])
  <2>1. /\ first \in {1, url + 1} /\ first + len - 1 <= Log[g]
        /\ \A i \in DOMAIN received[g] : received[g][i] = first + i - 1
    BY <1>2 DEF SInv, Received, Numbered, LastNumber
  <2>2. len \in Nat /\ DOMAIN received[g] = 1..len /\ Log[g] \in Nat
    BY <1>1, LenProperties
  <2>3. first \in Nat /\ first >= 1
    BY <1>1, <2>1
  <2> HIDE DEF first
  <2>4. ASSUME NEW i \in 2..len PROVE received[g][i] = received[g][i - 1] + 1
    <3>1. i \in Int /\ i \in 1..len /\ i - 1 \in 1..len
      BY <2>2
    <3>2. received[g][i] = first + i - 1 /\ received[g][i - 1] = first + (i - 1) - 1
      BY <2>1, <2>2, <3>1
    <3> QED BY <2>3, <3>1, <3>2
  <2> HIDE DEF len
  <2>5. len <= Log[g]
    BY <2>1, <2>2, <2>3
  <2> QED BY <2>1, <2>4, <2>5 DEF first, len
<1>3. ASSUME NEW g \in Generations, received[g] = <<>> PROVE Len(received[g]) <= Log[g]
  BY <1>1, <1>3
<1>4. Stream!TypeOK
  BY <1>1, <1>2, <1>3 DEF Stream!TypeOK, Stream!NoGeneration, Cursors, Readers
<1> QED BY <1>1, <1>2, <1>4 DEF Stream!DeliveredInOrder

\* Over all its connections the client gets the events that the transactions of the
\* request threads commit in order, without a duplicate or a hole, whatever the threads
\* interleave, wherever a connection breaks and however often the task is reset
\* (apps/api/event_stream.py iter_task_events).
THEOREM StreamDeliversInOrder ==
    ASSUME LogFits
    PROVE  StreamSpec => []DeliveredInOrder
<1>1. StreamSpec => []TypeOK
  <2>1. RInv => TypeOK
    BY RInvTypes
  <2> QED BY <2>1, StreamRInv, PTL
<1>2. StreamSpec => Stream!Spec
  BY LogFits, RequestsImplementStream DEF ImplementsStream
<1> QED BY <1>1, <1>2, AlwaysSInv, SInvDelivers, PTL DEF DeliveredInOrder
=============================================================================
