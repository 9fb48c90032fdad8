----------------------------- MODULE MemoryProofs -----------------------------
(***************************************************************************)
(* The two memories, for any processes, agents, lineages and bounds.       *)
(*                                                                         *)
(* Expert runs with the private memory of one agent: decisions are         *)
(* justified, what was read of a run is not taken back while saves         *)
(* succeed, a completed role has a row of its own in the agent's ledger,   *)
(* and what was answered of a commit stays what the ledger keeps.          *)
(*                                                                         *)
(* Trusted memory: the current fact of a lineage is what its history       *)
(* rebuilds, the history is one chain the verifier accepts, and a decision *)
(* closure is committed with all its facts.                                *)
(***************************************************************************)
EXTENDS ExpertMemory, TrustedMemory, SequenceTheorems, FiniteSetTheorems, TLAPS

-----------------------------------------------------------------------------
(* Records of a run.                                                       *)

Statuses == {"queued", "running", "completed", "rejected", "failed"}
RoleStatuses == {"queued", "running", "completed", "failed"}
Decisions == {"none", "PLAN_READY_FOR_HUMAN_REVIEW", "BLOCKED_BY_REVIEWER", "FAILED_CLOSED"}
EventTypes == {"run.queued", "run.started", "gateway.verified", "role.started",
               "role.completed", "plan.compiled", "run.decided", "run.failed"}
RunEvents == [type : EventTypes, role : Roles \cup {"none"}]
RunRecords == [status : Statuses, roles : [Roles -> RoleStatuses], compiled : BOOLEAN,
               verdict : Verdicts \cup {"none"}, decision : Decisions, events : Seq(RunEvents)]

\* One chain of events goes on where the other ends.
Continues(a, b) == Len(a) <= Len(b) /\ \A i \in 1..Len(a) : b[i] = a[i]

LEMMA RolesNamed ==
    /\ Roles = {"research-pi", "scout", "experiment-architect", "reviewer"}
    /\ ROLE_ORDER[1] = "research-pi" /\ ROLE_ORDER[2] = "scout"
    /\ ROLE_ORDER[3] = "experiment-architect" /\ ROLE_ORDER[4] = "reviewer"
<1>1. /\ DOMAIN ROLE_ORDER = 1..4
      /\ ROLE_ORDER[1] = "research-pi" /\ ROLE_ORDER[2] = "scout"
      /\ ROLE_ORDER[3] = "experiment-architect" /\ ROLE_ORDER[4] = "reviewer"
  BY DEF ROLE_ORDER
<1>2. Roles = {ROLE_ORDER[i] : i \in 1..4}
  BY <1>1 DEF Roles, Range
<1>3. 1..4 = {1, 2, 3, 4}
  OBVIOUS
<1> QED BY <1>1, <1>2, <1>3

\* Every role has a place in the order, and it is its only one.
LEMMA RoleAt ==
    /\ \A i \in 1..4 : ROLE_ORDER[i] \in Roles
    /\ \A i, j \in 1..4 : ROLE_ORDER[i] = ROLE_ORDER[j] => i = j
    /\ \A x \in Roles : \E i \in 1..4 : x = ROLE_ORDER[i]
    /\ "none" \notin Roles
<1>1. \A i \in 1..4 : i = 1 \/ i = 2 \/ i = 3 \/ i = 4
  OBVIOUS
<1>2. 1 \in 1..4 /\ 2 \in 1..4 /\ 3 \in 1..4 /\ 4 \in 1..4
  OBVIOUS
<1>3. \A i \in 1..4 : ROLE_ORDER[i] \in Roles
  BY <1>1, RolesNamed
<1>4. \A i, j \in 1..4 : ROLE_ORDER[i] = ROLE_ORDER[j] => i = j
  BY <1>1, RolesNamed
<1>5. \A x \in Roles : \E i \in 1..4 : x = ROLE_ORDER[i]
  BY <1>2, RolesNamed
<1>6. "none" \notin Roles
  BY RolesNamed
<1> QED BY <1>3, <1>4, <1>5, <1>6

LEMMA AppendedRecord ==
    ASSUME NEW run \in RunRecords, NEW e \in RunEvents
    PROVE  /\ Appended(run, e) \in RunRecords
           /\ Appended(run, e).status = run.status
           /\ Appended(run, e).roles = run.roles
           /\ Appended(run, e).compiled = run.compiled
           /\ Appended(run, e).verdict = run.verdict
           /\ Appended(run, e).decision = run.decision
           /\ Continues(run.events, Appended(run, e).events)
<1>1. run.events \in Seq(RunEvents)
  BY DEF RunRecords
<1>2. /\ Append(run.events, e) \in Seq(RunEvents)
      /\ Len(run.events) \in Nat
      /\ Len(Append(run.events, e)) = Len(run.events) + 1
      /\ \A i \in 1..Len(run.events) : Append(run.events, e)[i] = run.events[i]
  BY <1>1, AppendProperties
<1>3. Appended(run, e) = [run EXCEPT !.events = Append(run.events, e)]
  BY DEF Appended
<1>4. Appended(run, e).events = Append(run.events, e)
  BY <1>3 DEF RunRecords
<1>5. Continues(run.events, Appended(run, e).events)
  BY <1>2, <1>4 DEF Continues
<1>6. Appended(run, e) \in RunRecords
  BY <1>2, <1>3 DEF RunRecords
<1> QED BY <1>3, <1>5, <1>6 DEF RunRecords

LEMMA UpdatedRecord ==
    ASSUME NEW run \in RunRecords, NEW x \in Roles, NEW s \in RoleStatuses
    PROVE  /\ UpdateRole(run, x, s) \in RunRecords
           /\ UpdateRole(run, x, s).status = run.status
           /\ UpdateRole(run, x, s).roles = [run.roles EXCEPT ![x] = s]
           /\ UpdateRole(run, x, s).compiled = run.compiled
           /\ UpdateRole(run, x, s).verdict = run.verdict
           /\ UpdateRole(run, x, s).decision = run.decision
           /\ UpdateRole(run, x, s).events = run.events
<1>1. UpdateRole(run, x, s) = [run EXCEPT !.roles = [run.roles EXCEPT ![x] = s]]
  BY DEF UpdateRole
<1>2. run.roles \in [Roles -> RoleStatuses]
  BY DEF RunRecords
<1>3. [run.roles EXCEPT ![x] = s] \in [Roles -> RoleStatuses]
  BY <1>2
<1>4. UpdateRole(run, x, s) \in RunRecords
  BY <1>1, <1>3 DEF RunRecords
<1> QED BY <1>1, <1>4 DEF RunRecords

LEMMA EventIsOne ==
    ASSUME NEW type \in EventTypes, NEW x \in Roles \cup {"none"}
    PROVE  Event(type, x) \in RunEvents
BY DEF Event, RunEvents

LEMMA ContinuesOn ==
    /\ \A a \in Seq(RunEvents) : Continues(a, a)
    /\ \A a, b, c \in Seq(RunEvents) : Continues(a, b) /\ Continues(b, c) => Continues(a, c)
    /\ \A a, b \in Seq(RunEvents) : Continues(a, b) => IsPrefix(a, b)
    /\ \A b \in Seq(RunEvents) : Continues(<<>>, b)
<1>1. \A a \in Seq(RunEvents) : Len(a) \in Nat
  BY LenProperties
<1>2. \A a \in Seq(RunEvents) : Continues(a, a)
  BY <1>1 DEF Continues
<1>3. \A a, b, c \in Seq(RunEvents) : Continues(a, b) /\ Continues(b, c) => Continues(a, c)
  BY <1>1 DEF Continues
<1>4. ASSUME NEW a \in Seq(RunEvents), NEW b \in Seq(RunEvents), Continues(a, b)
      PROVE  IsPrefix(a, b)
  <2>1. Len(a) \in Nat /\ Len(b) \in Nat /\ Len(a) <= Len(b)
    BY <1>1, <1>4 DEF Continues
  <2>2. SubSeq(a, 1, Len(a)) = [i \in 1..Len(a) |-> a[i]]
    BY <2>1
  <2>3. SubSeq(b, 1, Len(a)) = [i \in 1..Len(a) |-> b[i]]
    BY <2>1
  <2>4. \A i \in 1..Len(a) : b[i] = a[i]
    BY <1>4 DEF Continues
  <2>5. SubSeq(a, 1, Len(a)) = SubSeq(b, 1, Len(a))
    BY <2>2, <2>3, <2>4
  <2> QED BY <2>1, <2>5 DEF IsPrefix
<1>5. \A b \in Seq(RunEvents) : Continues(<<>>, b)
  BY <1>1 DEF Continues
<1> QED BY <1>2, <1>3, <1>4, <1>5

\* What a thread takes for granted of the record it works on, and leaves for its next block.
Working == {"verify", "start", "call", "called", "compile"}
Pcs == Working \cup {"none", "unknown", "queued", "fail", "ended"}
RunThreads == [pc : Pcs, role : 1..4, attempt : 1..2]

Fresh(run) == /\ run.status = "queued" /\ run.decision = "none"
              /\ \A x \in Roles : run.roles[x] = "queued"
Standing(t, j) == IF j < t.role THEN "completed"
                  ELSE IF j = t.role /\ t.pc \in {"call", "called"} THEN "running" ELSE "queued"
Works(run, t) ==
    /\ run.status = "running" /\ run.decision = "none"
    /\ t.pc = "verify" => t.role = 1
    /\ t.pc = "start" => t.role < 4
    /\ t.pc = "compile" => t.role = 4
    /\ t.pc \in {"call", "called"} /\ t.role = 4 => run.compiled
    /\ \A j \in 1..4 : run.roles[ROLE_ORDER[j]] = Standing(t, j)

Suits(run, t) ==
    /\ t.pc \in Working \cup {"queued", "fail"} => run \in RunRecords /\ Justified(run)
    /\ t.pc = "queued" => Fresh(run)
    /\ t.pc \in Working => Works(run, t)

LEMMA FreshIsJustified == \A run \in RunRecords : Fresh(run) => Justified(run)
<1> SUFFICES ASSUME NEW run \in RunRecords, Fresh(run) PROVE Justified(run)
  OBVIOUS
<1>1. \A i \in 2..4 : run.roles[ROLE_ORDER[i]] = "queued"
  <2>1. \A i \in 2..4 : i \in 1..4
    OBVIOUS
  <2> QED BY <2>1, RoleAt DEF Fresh
<1> QED BY <1>1 DEF Fresh, Justified

LEMMA WorksIsJustified ==
    \A run \in RunRecords, t \in RunThreads : Works(run, t) => Justified(run)
<1> SUFFICES ASSUME NEW run \in RunRecords, NEW t \in RunThreads, Works(run, t)
             PROVE  Justified(run)
  OBVIOUS
<1>1. t.role \in 1..4
  BY DEF RunThreads
<1>2. \A i \in 2..4 : /\ i \in 1..4 /\ i - 1 \in 1..4
                      /\ Standing(t, i) # "queued" => Standing(t, i - 1) = "completed"
  BY <1>1 DEF Standing
<1>3. \A i \in 2..4 : run.roles[ROLE_ORDER[i]] # "queued" =>
                        run.roles[ROLE_ORDER[i - 1]] = "completed"
  BY <1>2 DEF Works
<1> QED BY <1>3 DEF Works, Justified

\* What each block of a thread makes of the record.
LEMMA CreatedRecord ==
    LET run == Appended(Queued, Event("run.queued", "none"))
    IN  run \in RunRecords /\ Fresh(run) /\ Justified(run)
<1>1. Queued \in RunRecords
  BY EmptySeq DEF Queued, RunRecords, Statuses, RoleStatuses, Decisions
<1>2. Event("run.queued", "none") \in RunEvents
  BY EventIsOne DEF EventTypes
<1> DEFINE run == Appended(Queued, Event("run.queued", "none"))
<1>3. run \in RunRecords /\ run.status = Queued.status /\ run.decision = Queued.decision
      /\ run.roles = Queued.roles
  BY <1>1, <1>2, AppendedRecord
<1>4. Fresh(run)
  BY <1>3 DEF Fresh, Queued
<1> QED BY <1>3, <1>4, FreshIsJustified

LEMMA StatusChanged ==
    ASSUME NEW run \in RunRecords
    PROVE  LET new == [run EXCEPT !.status = "running"]
           IN  /\ new \in RunRecords /\ new.status = "running"
               /\ new.roles = run.roles /\ new.compiled = run.compiled
               /\ new.decision = run.decision /\ new.events = run.events
BY DEF RunRecords, Statuses

LEMMA StartedRecord ==
    ASSUME NEW run \in RunRecords, Fresh(run)
    PROVE  LET new == Appended([run EXCEPT !.status = "running"], Event("run.started", "none"))
           IN  /\ new \in RunRecords /\ Continues(run.events, new.events)
               /\ Works(new, Thread("verify", 1, 1))
               /\ new.roles = run.roles
<1> DEFINE mid == [run EXCEPT !.status = "running"]
           new == Appended(mid, Event("run.started", "none"))
<1>1. mid \in RunRecords /\ mid.status = "running" /\ mid.roles = run.roles
      /\ mid.decision = run.decision /\ mid.events = run.events
  BY StatusChanged
<1>2. Event("run.started", "none") \in RunEvents
  BY EventIsOne DEF EventTypes
<1> HIDE DEF mid
<1>3. new \in RunRecords /\ Continues(mid.events, new.events) /\ new.status = mid.status
      /\ new.decision = mid.decision /\ new.roles = mid.roles
  BY <1>1, <1>2, AppendedRecord
<1> HIDE DEF new
<1>4. \A j \in 1..4 : new.roles[ROLE_ORDER[j]] = "queued"
  BY <1>1, <1>3, RoleAt DEF Fresh
<1>5. Works(new, Thread("verify", 1, 1))
  BY <1>1, <1>3, <1>4 DEF Works, Fresh, Thread, Standing
<1> QED BY <1>1, <1>3, <1>5 DEF new, mid

LEMMA VerifiedRecord ==
    ASSUME NEW run \in RunRecords, NEW t \in RunThreads, t.pc = "verify", Works(run, t)
    PROVE  LET new == Appended(run, Event("gateway.verified", "none"))
           IN  /\ new \in RunRecords /\ Continues(run.events, new.events)
               /\ Works(new, Thread("start", 1, 1))
               /\ new.roles = run.roles
<1> DEFINE new == Appended(run, Event("gateway.verified", "none"))
<1>1. Event("gateway.verified", "none") \in RunEvents
  BY EventIsOne DEF EventTypes
<1>2. new \in RunRecords /\ Continues(run.events, new.events) /\ new.status = run.status
      /\ new.decision = run.decision /\ new.roles = run.roles
  BY <1>1, AppendedRecord
<1> HIDE DEF new
<1>3. \A j \in 1..4 : new.roles[ROLE_ORDER[j]] = "queued"
  BY <1>2 DEF Works, Standing
<1>4. Works(new, Thread("start", 1, 1))
  BY <1>2, <1>3 DEF Works, Thread, Standing
<1> QED BY <1>2, <1>4 DEF new

LEMMA RunningRecord ==
    ASSUME NEW run \in RunRecords, NEW t \in RunThreads, t.pc = "start", Works(run, t)
    PROVE  LET x == ROLE_ORDER[t.role]
               new == Appended(UpdateRole(run, x, "running"), Event("role.started", x))
           IN  /\ new \in RunRecords /\ Continues(run.events, new.events)
               /\ Works(new, Thread("call", t.role, 1))
               /\ \A y \in Roles : new.roles[y] = "completed" => run.roles[y] = "completed"
<1> DEFINE x == ROLE_ORDER[t.role]
           mid == UpdateRole(run, x, "running")
           new == Appended(mid, Event("role.started", x))
<1>1. t.role \in 1..4 /\ t.role < 4 /\ x \in Roles
  BY RoleAt DEF RunThreads, Works
<1>2. Event("role.started", x) \in RunEvents
  BY <1>1, EventIsOne DEF EventTypes
<1> HIDE DEF x
<1>3. mid \in RunRecords /\ mid.status = run.status /\ mid.decision = run.decision
      /\ mid.roles = [run.roles EXCEPT ![x] = "running"] /\ mid.events = run.events
  BY <1>1, UpdatedRecord DEF RoleStatuses
<1> HIDE DEF mid
<1>4. new \in RunRecords /\ Continues(mid.events, new.events) /\ new.status = mid.status
      /\ new.decision = mid.decision /\ new.roles = mid.roles
  BY <1>2, <1>3, AppendedRecord
<1> HIDE DEF new
<1>5. run.roles \in [Roles -> RoleStatuses]
  BY DEF RunRecords
<1>6. \A y \in Roles : new.roles[y] = IF y = x THEN "running" ELSE run.roles[y]
  BY <1>1, <1>3, <1>4, <1>5
<1>7. \A j \in 1..4 : new.roles[ROLE_ORDER[j]] = Standing(Thread("call", t.role, 1), j)
  <2> TAKE j \in 1..4
  <2>1. ROLE_ORDER[j] \in Roles /\ (ROLE_ORDER[j] = x <=> j = t.role)
    BY <1>1, RoleAt DEF x
  <2>2. run.roles[ROLE_ORDER[j]] = Standing(t, j)
    BY DEF Works
  <2> QED BY <1>1, <1>6, <2>1, <2>2 DEF Standing, Thread
<1>8. Works(new, Thread("call", t.role, 1))
  BY <1>1, <1>3, <1>4, <1>7 DEF Works, Thread
<1> QED BY <1>3, <1>4, <1>6, <1>8 DEF new, mid, x

LEMMA CompletedRecord ==
    ASSUME NEW run \in RunRecords, NEW t \in RunThreads, t.pc = "called", Works(run, t),
           ROLE_ORDER[t.role] # "reviewer"
    PROVE  LET x == ROLE_ORDER[t.role]
               new == Appended(UpdateRole(run, x, "completed"), Event("role.completed", x))
               next == IF x = "experiment-architect" THEN Thread("compile", 4, 1)
                       ELSE Thread("start", t.role + 1, 1)
           IN  /\ new \in RunRecords /\ Continues(run.events, new.events)
               /\ Works(new, next) /\ next \in RunThreads /\ next.pc \in {"compile", "start"}
               /\ \A y \in Roles : new.roles[y] = "completed" =>
                                      y = x \/ run.roles[y] = "completed"
<1> DEFINE x == ROLE_ORDER[t.role]
           mid == UpdateRole(run, x, "completed")
           new == Appended(mid, Event("role.completed", x))
           next == IF x = "experiment-architect" THEN Thread("compile", 4, 1)
                   ELSE Thread("start", t.role + 1, 1)
<1>1. t.role \in 1..4 /\ t.role < 4 /\ x \in Roles /\ (x = "experiment-architect" <=> t.role = 3)
  <2>1. t.role \in 1..4 /\ x \in Roles
    BY RoleAt DEF RunThreads
  <2>2. t.role = 1 \/ t.role = 2 \/ t.role = 3 \/ t.role = 4
    BY <2>1
  <2> QED BY <2>1, <2>2, RolesNamed
<1>2. Event("role.completed", x) \in RunEvents
  BY <1>1, EventIsOne DEF EventTypes
<1>3. next.pc = (IF t.role = 3 THEN "compile" ELSE "start") /\ next.role = t.role + 1
      /\ next \in RunThreads
  BY <1>1 DEF Thread, RunThreads, Pcs, Working
<1> HIDE DEF x, next
<1>4. mid \in RunRecords /\ mid.status = run.status /\ mid.decision = run.decision
      /\ mid.roles = [run.roles EXCEPT ![x] = "completed"] /\ mid.events = run.events
  BY <1>1, UpdatedRecord DEF RoleStatuses
<1> HIDE DEF mid
<1>5. new \in RunRecords /\ Continues(mid.events, new.events) /\ new.status = mid.status
      /\ new.decision = mid.decision /\ new.roles = mid.roles
  BY <1>2, <1>4, AppendedRecord
<1> HIDE DEF new
<1>6. run.roles \in [Roles -> RoleStatuses]
  BY DEF RunRecords
<1>7. \A y \in Roles : new.roles[y] = IF y = x THEN "completed" ELSE run.roles[y]
  BY <1>1, <1>4, <1>5, <1>6
<1>8. \A j \in 1..4 : new.roles[ROLE_ORDER[j]] = Standing(next, j)
  <2> TAKE j \in 1..4
  <2>1. ROLE_ORDER[j] \in Roles /\ (ROLE_ORDER[j] = x <=> j = t.role)
    BY <1>1, RoleAt DEF x
  <2>2. run.roles[ROLE_ORDER[j]] = Standing(t, j)
    BY DEF Works
  <2> QED BY <1>1, <1>3, <1>7, <2>1, <2>2 DEF Standing
<1>9. Works(new, next)
  BY <1>1, <1>3, <1>4, <1>5, <1>8 DEF Works
<1> QED BY <1>3, <1>4, <1>5, <1>7, <1>9 DEF new, mid, x, next

LEMMA CompiledRecord ==
    ASSUME NEW run \in RunRecords, NEW t \in RunThreads, t.pc = "compile", Works(run, t)
    PROVE  LET compiled == Appended([run EXCEPT !.compiled = TRUE],
                                    Event("plan.compiled", "experiment-architect"))
               new == Appended(UpdateRole(compiled, "reviewer", "running"),
                               Event("role.started", "reviewer"))
           IN  /\ new \in RunRecords /\ Continues(run.events, new.events)
               /\ Works(new, Thread("call", 4, 1))
               /\ \A y \in Roles : new.roles[y] = "completed" => run.roles[y] = "completed"
<1> DEFINE bare == [run EXCEPT !.compiled = TRUE]
           compiled == Appended(bare, Event("plan.compiled", "experiment-architect"))
           mid == UpdateRole(compiled, "reviewer", "running")
           new == Appended(mid, Event("role.started", "reviewer"))
<1>1. t.role = 4 /\ "reviewer" \in Roles /\ "reviewer" = ROLE_ORDER[4]
      /\ "experiment-architect" \in Roles
  BY RolesNamed DEF Works
<1>2. /\ Event("role.started", "reviewer") \in RunEvents
      /\ Event("plan.compiled", "experiment-architect") \in RunEvents
  BY <1>1, EventIsOne DEF EventTypes
<1>3. bare \in RunRecords /\ bare.status = run.status /\ bare.decision = run.decision
      /\ bare.roles = run.roles /\ bare.events = run.events /\ bare.compiled = TRUE
  BY DEF RunRecords
<1> HIDE DEF bare
<1>4. compiled \in RunRecords /\ Continues(bare.events, compiled.events)
      /\ compiled.status = bare.status /\ compiled.decision = bare.decision
      /\ compiled.roles = bare.roles /\ compiled.compiled = bare.compiled
  BY <1>2, <1>3, AppendedRecord
<1> HIDE DEF compiled
<1>5. mid \in RunRecords /\ mid.status = compiled.status /\ mid.decision = compiled.decision
      /\ mid.roles = [compiled.roles EXCEPT !["reviewer"] = "running"]
      /\ mid.events = compiled.events /\ mid.compiled = compiled.compiled
  BY <1>1, <1>4, UpdatedRecord DEF RoleStatuses
<1> HIDE DEF mid
<1>6. new \in RunRecords /\ Continues(mid.events, new.events) /\ new.status = mid.status
      /\ new.decision = mid.decision /\ new.roles = mid.roles /\ new.compiled = mid.compiled
  BY <1>2, <1>5, AppendedRecord
<1> HIDE DEF new
<1>7. run.roles \in [Roles -> RoleStatuses]
  BY DEF RunRecords
<1>8. \A y \in Roles : new.roles[y] = IF y = "reviewer" THEN "running" ELSE run.roles[y]
  BY <1>1, <1>3, <1>4, <1>5, <1>6, <1>7
<1>9. \A j \in 1..4 : new.roles[ROLE_ORDER[j]] = Standing(Thread("call", 4, 1), j)
  <2> TAKE j \in 1..4
  <2>1. ROLE_ORDER[j] \in Roles /\ (ROLE_ORDER[j] = "reviewer" <=> j = 4)
    <3>1. 4 \in 1..4
      OBVIOUS
    <3> QED BY <1>1, <3>1, RoleAt
  <2>2. run.roles[ROLE_ORDER[j]] = Standing(t, j)
    BY DEF Works
  <2> QED BY <1>1, <1>8, <2>1, <2>2 DEF Standing, Thread
<1>10. Works(new, Thread("call", 4, 1))
  BY <1>1, <1>3, <1>4, <1>5, <1>6, <1>9 DEF Works, Thread
<1>11. Continues(run.events, new.events)
  <2>1. /\ run.events \in Seq(RunEvents) /\ compiled.events \in Seq(RunEvents)
        /\ new.events \in Seq(RunEvents)
    BY <1>4, <1>6 DEF RunRecords
  <2> QED BY <1>3, <1>4, <1>5, <1>6, <2>1, ContinuesOn
<1> QED BY <1>6, <1>8, <1>10, <1>11 DEF new, mid, compiled, bare

LEMMA DecidedRecord ==
    ASSUME NEW run \in RunRecords, NEW t \in RunThreads, t.pc = "called", Works(run, t),
           ROLE_ORDER[t.role] = "reviewer", NEW verdict \in Verdicts
    PROVE  LET new == Decided(run, verdict)
           IN  /\ new \in RunRecords /\ Continues(run.events, new.events) /\ Justified(new)
               /\ \A y \in Roles : new.roles[y] = "completed" =>
                                      y = "reviewer" \/ run.roles[y] = "completed"
<1> DEFINE status == IF verdict = "FAIL" THEN "rejected" ELSE "completed"
           decision == IF verdict = "FAIL" THEN "BLOCKED_BY_REVIEWER"
                       ELSE "PLAN_READY_FOR_HUMAN_REVIEW"
           mid == UpdateRole(run, "reviewer", "completed")
           reviewed == Appended(mid, Event("role.completed", "reviewer"))
           bare == [reviewed EXCEPT !.status = status, !.verdict = verdict,
                                    !.decision = decision]
           new == Appended(bare, Event("run.decided", "reviewer"))
<1>1. t.role = 4 /\ "reviewer" \in Roles /\ "reviewer" = ROLE_ORDER[4]
  <2>1. t.role \in 1..4 /\ 4 \in 1..4 /\ "reviewer" = ROLE_ORDER[4]
    BY RolesNamed DEF RunThreads
  <2> QED BY <2>1, RoleAt
<1>2. /\ Event("role.completed", "reviewer") \in RunEvents
      /\ Event("run.decided", "reviewer") \in RunEvents
  BY <1>1, EventIsOne DEF EventTypes
<1>3. mid \in RunRecords
      /\ mid.roles = [run.roles EXCEPT !["reviewer"] = "completed"]
      /\ mid.events = run.events /\ mid.compiled = run.compiled
  BY <1>1, UpdatedRecord DEF RoleStatuses
<1> HIDE DEF mid
<1>4. reviewed \in RunRecords /\ Continues(mid.events, reviewed.events)
      /\ reviewed.roles = mid.roles /\ reviewed.compiled = mid.compiled
  BY <1>2, <1>3, AppendedRecord
<1> HIDE DEF reviewed
<1>5. bare \in RunRecords /\ bare.status = status /\ bare.decision = decision
      /\ bare.verdict = verdict
      /\ bare.roles = reviewed.roles /\ bare.events = reviewed.events
      /\ bare.compiled = reviewed.compiled
  <2>1. status \in Statuses /\ decision \in Decisions /\ verdict \in Verdicts \cup {"none"}
    BY DEF Statuses, Decisions
  <2> HIDE DEF status, decision
  <2> QED BY <1>4, <2>1 DEF RunRecords
<1> HIDE DEF bare
<1>6. new \in RunRecords /\ Continues(bare.events, new.events) /\ new.status = bare.status
      /\ new.decision = bare.decision /\ new.roles = bare.roles
      /\ new.compiled = bare.compiled /\ new.verdict = bare.verdict
  BY <1>2, <1>5, AppendedRecord
<1>0. new = Decided(run, verdict)
  BY DEF new, bare, reviewed, mid, status, decision, Decided
<1> HIDE DEF new
<1>7. run.roles \in [Roles -> RoleStatuses]
  BY DEF RunRecords
<1>8. \A y \in Roles : new.roles[y] = IF y = "reviewer" THEN "completed" ELSE run.roles[y]
  BY <1>1, <1>3, <1>4, <1>5, <1>6, <1>7
<1>9. \A x \in Roles : new.roles[x] = "completed"
  <2> TAKE x \in Roles
  <2>1. PICK j \in 1..4 : x = ROLE_ORDER[j]
    BY RoleAt
  <2>2. j = 4 \/ run.roles[x] = "completed"
    BY <1>1, <2>1 DEF Works, Standing
  <2> QED BY <1>1, <1>8, <2>1, <2>2
<1>10. Justified(new)
  <2>1. \A i \in 2..4 : i - 1 \in 1..4
    OBVIOUS
  <2>2. \A i \in 2..4 : new.roles[ROLE_ORDER[i - 1]] = "completed"
    BY <1>9, <2>1, RoleAt
  <2>3. new.compiled
    BY <1>1, <1>3, <1>4, <1>5, <1>6 DEF Works
  <2> QED BY <1>5, <1>6, <1>9, <2>2, <2>3 DEF Justified
<1>11. Continues(run.events, new.events)
  <2>1. /\ run.events \in Seq(RunEvents) /\ reviewed.events \in Seq(RunEvents)
        /\ new.events \in Seq(RunEvents)
    BY <1>4, <1>6 DEF RunRecords
  <2> QED BY <1>3, <1>4, <1>5, <1>6, <2>1, ContinuesOn
<1> QED BY <1>0, <1>6, <1>8, <1>10, <1>11

\* However far a record had come, it fails closed.
LEMMA FailedRecord ==
    ASSUME NEW run \in RunRecords, Justified(run)
    PROVE  LET new == Failed(run, RunningRole(run))
           IN  /\ new \in RunRecords /\ Continues(run.events, new.events) /\ Justified(new)
               /\ \A y \in Roles : new.roles[y] = "completed" => run.roles[y] = "completed"
<1> DEFINE x == RunningRole(run)
           roles == IF x = "none" THEN run.roles ELSE [run.roles EXCEPT ![x] = "failed"]
           bare == [run EXCEPT !.status = "failed", !.decision = "FAILED_CLOSED",
                               !.roles = roles]
           new == Appended(bare, Event("run.failed", x))
<1>1. x \in Roles \cup {"none"} /\ (x \in Roles => run.roles[x] = "running")
  BY RoleAt DEF RunningRole
<1>2. Event("run.failed", x) \in RunEvents
  BY <1>1, EventIsOne DEF EventTypes
<1>0. new = Failed(run, x)
  BY DEF new, bare, roles, Failed
<1> HIDE DEF x
<1>3. run.roles \in [Roles -> RoleStatuses]
  BY DEF RunRecords
<1>4. /\ roles \in [Roles -> RoleStatuses]
      /\ \A y \in Roles : roles[y] = IF y = x THEN "failed" ELSE run.roles[y]
  BY <1>1, <1>3, RoleAt DEF RoleStatuses
<1> HIDE DEF roles
<1>5. bare \in RunRecords /\ bare.status = "failed" /\ bare.decision = "FAILED_CLOSED"
      /\ bare.roles = roles /\ bare.events = run.events
  BY <1>4 DEF RunRecords, Statuses, Decisions
<1> HIDE DEF bare
<1>6. new \in RunRecords /\ Continues(bare.events, new.events) /\ new.status = bare.status
      /\ new.decision = bare.decision /\ new.roles = bare.roles
  BY <1>2, <1>5, AppendedRecord
<1> HIDE DEF new
<1>7. \A i \in 2..4 : new.roles[ROLE_ORDER[i]] # "queued" =>
                        new.roles[ROLE_ORDER[i - 1]] = "completed"
  <2> SUFFICES ASSUME NEW i \in 2..4, new.roles[ROLE_ORDER[i]] # "queued"
               PROVE  new.roles[ROLE_ORDER[i - 1]] = "completed"
    OBVIOUS
  <2>1. i \in 1..4 /\ i - 1 \in 1..4
    OBVIOUS
  <2>2. ROLE_ORDER[i] \in Roles /\ ROLE_ORDER[i - 1] \in Roles
    BY <2>1, RoleAt
  <2>3. run.roles[ROLE_ORDER[i]] # "queued"
    BY <1>1, <1>4, <1>5, <1>6, <2>2
  <2>4. run.roles[ROLE_ORDER[i - 1]] = "completed"
    BY <2>3 DEF Justified
  <2> QED BY <1>1, <1>4, <1>5, <1>6, <2>2, <2>4
<1>8. Justified(new)
  BY <1>5, <1>6, <1>7 DEF Justified
<1> QED BY <1>0, <1>1, <1>4, <1>5, <1>6, <1>8 DEF x

-----------------------------------------------------------------------------
(* The invariant of the runs.                                              *)

RunShapes ==
    /\ memory \in [Runs -> RunRecords \cup {Absent}]
    /\ disk \in [Runs -> RunRecords \cup {Absent}]
    /\ served \in [Runs -> RunRecords \cup {Absent}]
    /\ thread \in [Runs -> RunThreads]
    /\ failures \in Nat

\* While no save has failed the file holds what memory holds, and all a reader has seen.
Saved == failures = 0 =>
    \A r \in Runs : /\ memory[r] = Absent \/ memory[r] = disk[r]
                    /\ Continues(served[r].events, disk[r].events)

RunInv ==
    /\ RunShapes
    /\ \A r \in Runs : Suits(memory[r], thread[r])
    /\ \A r \in Runs : At(r, "none") => memory[r] = Absent /\ served[r] = Absent
    /\ DecisionJustified
    /\ Saved

LEMMA AbsentRecord == /\ Absent \notin RunRecords /\ Absent.events = <<>>
                      /\ Absent.events \in Seq(RunEvents)
<1>1. Absent.status = "absent" /\ Absent.events = <<>>
  BY DEF Absent
<1>2. \A run \in RunRecords : run.status # "absent"
  BY DEF RunRecords, Statuses
<1> QED BY <1>1, <1>2, EmptySeq

LEMMA EventsOf == \A run \in RunRecords \cup {Absent} : run.events \in Seq(RunEvents)
BY AbsentRecord DEF RunRecords

\* One block of a thread: the record it saves, and the thread's next block either way.
Agrees(run) == run \notin {Absent} /\ run.roles[Agent] = "completed"
Block(r, run, next, raised) ==
    /\ Persist(r, run, next, raised)
    /\ Justified(run)
    /\ Suits(run, next) /\ next.pc \notin {"none", "called"}
    /\ Suits(run, raised) /\ raised.pc \notin {"none", "called"}
    /\ thread[r].pc # "call"
    /\ \/ (memory[r] = Absent /\ served[r] = Absent)
       \/ (memory[r] \in RunRecords /\ Continues(memory[r].events, run.events))
    /\ Agrees(run) => Agrees(memory[r]) \/ (At(r, "called") /\ Role(r) = Agent)

SavingStep(r) == \/ Create(r) \/ Start(r) \/ VerifyGateway(r) \/ StartRole(r)
                 \/ CompleteRole(r) \/ Compile(r) \/ Decide(r) \/ Fail(r)

LEMMA FailingThread ==
    ASSUME RunShapes, NEW r \in Runs
    PROVE  /\ Failing(r) \in RunThreads /\ Failing(r).pc = "fail"
           /\ Dead \in RunThreads /\ Dead.pc = "ended"
           /\ \A run \in RunRecords : Justified(run) => Suits(run, Failing(r)) /\ Suits(run, Dead)
<1>1. thread[r] \in RunThreads
  BY DEF RunShapes
<1>2. Failing(r) \in RunThreads /\ Failing(r).pc = "fail"
  BY <1>1 DEF Failing, RunThreads, Pcs
<1>3. Dead \in RunThreads /\ Dead.pc = "ended"
  BY DEF Dead, Thread, RunThreads, Pcs
<1> QED BY <1>2, <1>3 DEF Suits, Working

LEMMA SavingBlock ==
    ASSUME RunInv, NEW r \in Runs, SavingStep(r)
    PROVE  \/ Raise(r) /\ thread[r].pc \in {"verify", "compile"}
           \/ \E run \in RunRecords, next, raised \in RunThreads : Block(r, run, next, raised)
<1> DEFINE t == thread[r]
           m == memory[r]
<1>1. t \in RunThreads /\ m \in RunRecords \cup {Absent} /\ Suits(m, t)
  BY DEF RunInv, RunShapes
<1>2. /\ Failing(r) \in RunThreads /\ Failing(r).pc = "fail"
      /\ Dead \in RunThreads /\ Dead.pc = "ended"
      /\ \A run \in RunRecords : Justified(run) => Suits(run, Failing(r)) /\ Suits(run, Dead)
  BY FailingThread DEF RunInv
<1>3. Agent \in Roles /\ "none" \notin Roles
  BY AgentMemory, RoleAt
<1>4. \A run \in RunRecords : run \notin {Absent}
  BY AbsentRecord
<1>5. CASE Create(r)
  <2> DEFINE run == Appended(Queued, Event("run.queued", "none"))
  <2>1. run \in RunRecords /\ Fresh(run) /\ Justified(run)
    BY CreatedRecord
  <2>2. At(r, "none") /\ Persist(r, run, Thread("queued", 1, 1), Thread("unknown", 1, 1))
    BY <1>5 DEF Create
  <2> HIDE DEF run
  <2>3. ~Agrees(run)
    BY <1>3, <2>1 DEF Agrees, Fresh
  <2>4. /\ Thread("queued", 1, 1) \in RunThreads /\ Thread("unknown", 1, 1) \in RunThreads
        /\ Suits(run, Thread("queued", 1, 1)) /\ Suits(run, Thread("unknown", 1, 1))
        /\ Thread("queued", 1, 1).pc = "queued" /\ Thread("unknown", 1, 1).pc = "unknown"
    BY <2>1 DEF Thread, RunThreads, Pcs, Suits, Working
  <2>5. m = Absent /\ served[r] = Absent /\ t.pc = "none"
    BY <2>2 DEF RunInv, At
  <2>6. Block(r, run, Thread("queued", 1, 1), Thread("unknown", 1, 1))
    BY <2>1, <2>2, <2>3, <2>4, <2>5 DEF Block
  <2> QED BY <2>1, <2>4, <2>6
<1>6. CASE Start(r)
  <2> DEFINE run == Appended([memory[r] EXCEPT !.status = "running"],
                             Event("run.started", "none"))
  <2>1. t.pc = "queued" /\ m \in RunRecords /\ Fresh(m)
    BY <1>1, <1>6 DEF Start, At, Suits
  <2>2. /\ run \in RunRecords /\ Continues(m.events, run.events)
        /\ Works(run, Thread("verify", 1, 1)) /\ run.roles = m.roles
    BY <2>1, StartedRecord
  <2>3. Persist(r, run, Thread("verify", 1, 1), Dead)
    BY <1>6 DEF Start
  <2> HIDE DEF run
  <2>4. Thread("verify", 1, 1) \in RunThreads /\ Thread("verify", 1, 1).pc = "verify"
    BY DEF Thread, RunThreads, Pcs, Working
  <2>5. Justified(run)
    BY <2>2, <2>4, WorksIsJustified
  <2>6. Suits(run, Thread("verify", 1, 1))
    BY <2>2, <2>4, <2>5 DEF Suits
  <2>7. Agrees(run) => Agrees(m)
    BY <1>4, <2>1, <2>2 DEF Agrees
  <2>8. Block(r, run, Thread("verify", 1, 1), Dead)
    BY <1>2, <2>1, <2>2, <2>3, <2>4, <2>5, <2>6, <2>7 DEF Block
  <2> QED BY <1>2, <2>2, <2>4, <2>8
<1>7. CASE VerifyGateway(r)
  <2> DEFINE run == Appended(memory[r], Event("gateway.verified", "none"))
  <2>1. t.pc = "verify" /\ m \in RunRecords /\ Works(m, t)
    BY <1>1, <1>7 DEF VerifyGateway, At, Suits, Working
  <2>2. /\ run \in RunRecords /\ Continues(m.events, run.events)
        /\ Works(run, Thread("start", 1, 1)) /\ run.roles = m.roles
    BY <1>1, <2>1, VerifiedRecord
  <2>3. Raise(r) \/ Persist(r, run, Thread("start", 1, 1), Failing(r))
    BY <1>7 DEF VerifyGateway
  <2> HIDE DEF run
  <2>4. Thread("start", 1, 1) \in RunThreads /\ Thread("start", 1, 1).pc = "start"
    BY DEF Thread, RunThreads, Pcs, Working
  <2>5. Justified(run)
    BY <2>2, <2>4, WorksIsJustified
  <2>6. Suits(run, Thread("start", 1, 1))
    BY <2>2, <2>4, <2>5 DEF Suits, Working
  <2>7. Agrees(run) => Agrees(m)
    BY <1>4, <2>1, <2>2 DEF Agrees
  <2>8. Raise(r) \/ Block(r, run, Thread("start", 1, 1), Failing(r))
    BY <1>2, <2>1, <2>2, <2>3, <2>4, <2>5, <2>6, <2>7 DEF Block
  <2> QED BY <1>2, <2>1, <2>2, <2>4, <2>8
<1>8. CASE StartRole(r)
  <2> DEFINE run == Appended(UpdateRole(memory[r], Role(r), "running"),
                             Event("role.started", Role(r)))
             next == Thread("call", thread[r].role, 1)
  <2>1. t.pc = "start" /\ m \in RunRecords /\ Works(m, t)
    BY <1>1, <1>8 DEF StartRole, At, Suits, Working
  <2>2. /\ run \in RunRecords /\ Continues(m.events, run.events)
        /\ Works(run, next)
        /\ \A y \in Roles : run.roles[y] = "completed" => m.roles[y] = "completed"
    BY <1>1, <2>1, RunningRecord DEF Role
  <2>3. Persist(r, run, next, Failing(r))
    BY <1>8 DEF StartRole
  <2>4. next \in RunThreads /\ next.pc = "call"
    BY <1>1 DEF Thread, RunThreads, Pcs, Working
  <2> HIDE DEF run, next
  <2>5. Justified(run)
    BY <2>2, <2>4, WorksIsJustified
  <2>6. Suits(run, next)
    BY <2>2, <2>4, <2>5 DEF Suits, Working
  <2>7. Agrees(run) => Agrees(m)
    BY <1>3, <1>4, <2>1, <2>2 DEF Agrees
  <2>8. Block(r, run, next, Failing(r))
    BY <1>2, <2>1, <2>2, <2>3, <2>4, <2>5, <2>6, <2>7 DEF Block
  <2> QED BY <1>2, <2>2, <2>4, <2>8
<1>9. CASE CompleteRole(r)
  <2> DEFINE run == Appended(UpdateRole(memory[r], Role(r), "completed"),
                             Event("role.completed", Role(r)))
             next == IF Role(r) = "experiment-architect" THEN Thread("compile", 4, 1)
                     ELSE Thread("start", thread[r].role + 1, 1)
  <2>1. t.pc = "called" /\ m \in RunRecords /\ Works(m, t) /\ ROLE_ORDER[t.role] # "reviewer"
    BY <1>1, <1>9 DEF CompleteRole, At, Suits, Working, Role
  <2>2. /\ run \in RunRecords /\ Continues(m.events, run.events)
        /\ Works(run, next) /\ next \in RunThreads /\ next.pc \in {"compile", "start"}
        /\ \A y \in Roles : run.roles[y] = "completed" =>
                               y = Role(r) \/ m.roles[y] = "completed"
    BY <1>1, <2>1, CompletedRecord DEF Role
  <2>3. Persist(r, run, next, Failing(r))
    BY <1>9 DEF CompleteRole
  <2> HIDE DEF run, next
  <2>5. Justified(run)
    BY <2>2, WorksIsJustified
  <2>6. Suits(run, next)
    BY <2>2, <2>5 DEF Suits, Working
  <2>7. Agrees(run) => Agrees(m) \/ (At(r, "called") /\ Role(r) = Agent)
    BY <1>3, <1>4, <2>1, <2>2 DEF Agrees, At
  <2>8. Block(r, run, next, Failing(r))
    BY <1>2, <2>1, <2>2, <2>3, <2>5, <2>6, <2>7 DEF Block
  <2> QED BY <1>2, <2>2, <2>8
<1>10. CASE Compile(r)
  <2> DEFINE compiled == Appended([memory[r] EXCEPT !.compiled = TRUE],
                                  Event("plan.compiled", "experiment-architect"))
             run == Appended(UpdateRole(compiled, "reviewer", "running"),
                             Event("role.started", "reviewer"))
             next == Thread("call", 4, 1)
  <2>1. t.pc = "compile" /\ m \in RunRecords /\ Works(m, t)
    BY <1>1, <1>10 DEF Compile, At, Suits, Working
  <2>2. /\ run \in RunRecords /\ Continues(m.events, run.events)
        /\ Works(run, next)
        /\ \A y \in Roles : run.roles[y] = "completed" => m.roles[y] = "completed"
    BY <1>1, <2>1, CompiledRecord
  <2>3. Raise(r) \/ Persist(r, run, next, Failing(r))
    BY <1>10 DEF Compile
  <2>4. next \in RunThreads /\ next.pc = "call"
    BY DEF Thread, RunThreads, Pcs, Working
  <2> HIDE DEF run, next
  <2>5. Justified(run)
    BY <2>2, <2>4, WorksIsJustified
  <2>6. Suits(run, next)
    BY <2>2, <2>4, <2>5 DEF Suits, Working
  <2>7. Agrees(run) => Agrees(m)
    BY <1>3, <1>4, <2>1, <2>2 DEF Agrees
  <2>8. Raise(r) \/ Block(r, run, next, Failing(r))
    BY <1>2, <2>1, <2>2, <2>3, <2>4, <2>5, <2>6, <2>7 DEF Block
  <2> QED BY <1>2, <2>1, <2>2, <2>4, <2>8
<1>11. CASE Decide(r)
  <2>0. PICK verdict \in Verdicts : Persist(r, Decided(memory[r], verdict), Dead, Failing(r))
    BY <1>11 DEF Decide
  <2> DEFINE run == Decided(memory[r], verdict)
  <2>1. t.pc = "called" /\ m \in RunRecords /\ Works(m, t) /\ ROLE_ORDER[t.role] = "reviewer"
    BY <1>1, <1>11 DEF Decide, At, Suits, Working, Role
  <2>2. /\ run \in RunRecords /\ Continues(m.events, run.events) /\ Justified(run)
        /\ \A y \in Roles : run.roles[y] = "completed" =>
                               y = Role(r) \/ m.roles[y] = "completed"
    BY <1>1, <2>1, DecidedRecord DEF Role
  <2> HIDE DEF run
  <2>3. Persist(r, run, Dead, Failing(r))
    BY <2>0 DEF run
  <2>7. Agrees(run) => Agrees(m) \/ (At(r, "called") /\ Role(r) = Agent)
    BY <1>3, <1>4, <2>1, <2>2 DEF Agrees, At
  <2>8. Block(r, run, Dead, Failing(r))
    BY <1>2, <2>1, <2>2, <2>3, <2>7 DEF Block
  <2> QED BY <1>2, <2>2, <2>8
<1>12. CASE Fail(r)
  <2> DEFINE run == Failed(memory[r], RunningRole(memory[r]))
  <2>1. t.pc = "fail" /\ m \in RunRecords /\ Justified(m)
    BY <1>1, <1>12 DEF Fail, At, Suits
  <2>2. /\ run \in RunRecords /\ Continues(m.events, run.events) /\ Justified(run)
        /\ \A y \in Roles : run.roles[y] = "completed" => m.roles[y] = "completed"
    BY <2>1, FailedRecord
  <2>3. Persist(r, run, Dead, Dead)
    BY <1>12 DEF Fail
  <2> HIDE DEF run
  <2>7. Agrees(run) => Agrees(m)
    BY <1>3, <1>4, <2>1, <2>2 DEF Agrees
  <2>8. Block(r, run, Dead, Dead)
    BY <1>2, <2>1, <2>2, <2>3, <2>7 DEF Block
  <2> QED BY <1>2, <2>2, <2>8
<1> QED BY <1>5, <1>6, <1>7, <1>8, <1>9, <1>10, <1>11, <1>12 DEF SavingStep

LEMMA BlockKeeps ==
    ASSUME RunInv, NEW r \in Runs, NEW run \in RunRecords, NEW next \in RunThreads,
           NEW raised \in RunThreads, Block(r, run, next, raised)
    PROVE  RunInv'
<1>1. Persist(r, run, next, raised)
  BY DEF Block
<1>2. RunShapes
  BY DEF RunInv
<1>3. /\ memory' = [memory EXCEPT ![r] = run] /\ served' = served
      /\ disk' = disk \/ disk' = [disk EXCEPT ![r] = run]
      /\ failures' = failures \/ failures' = failures + 1
      /\ thread' = [thread EXCEPT ![r] = next] \/ thread' = [thread EXCEPT ![r] = raised]
  BY <1>1 DEF Persist, Stored, Goto
<1>4. failures' = 0 => failures = 0 /\ disk' = [disk EXCEPT ![r] = run]
  BY <1>1, <1>2 DEF Persist, Stored, RunShapes
<1>5. RunShapes'
  BY <1>2, <1>3 DEF RunShapes
<1>6. memory'[r] = run /\ \A q \in Runs \ {r} : memory'[q] = memory[q]
  BY <1>2, <1>3 DEF RunShapes
<1>7. /\ thread'[r] \in {next, raised}
      /\ \A q \in Runs \ {r} : thread'[q] = thread[q]
  BY <1>2, <1>3 DEF RunShapes
<1>8. \A q \in Runs : disk'[q] = disk[q] \/ (q = r /\ disk'[q] = run)
  BY <1>2, <1>3 DEF RunShapes
<1>9. \A q \in Runs : Suits(memory[q], thread[q])'
  <2> SUFFICES ASSUME NEW q \in Runs PROVE Suits(memory'[q], thread'[q])
    OBVIOUS
  <2>1. CASE q = r
    BY <1>6, <1>7, <2>1 DEF Block
  <2>2. CASE q # r
    <3>1. Suits(memory[q], thread[q])
      BY DEF RunInv
    <3>2. memory'[q] = memory[q] /\ thread'[q] = thread[q]
      BY <1>6, <1>7, <2>2
    <3> QED BY <3>1, <3>2
  <2> QED BY <2>1, <2>2
<1>10. \A q \in Runs : At(q, "none")' => memory'[q] = Absent /\ served'[q] = Absent
  BY <1>3, <1>6, <1>7 DEF RunInv, At, Block
<1>11. DecisionJustified'
  <2>1. \A q \in Runs : \A x \in {memory[q], disk[q], served[q]} \ {Absent} : Justified(x)
    BY DEF RunInv, DecisionJustified
  <2> SUFFICES ASSUME NEW q \in Runs,
                      NEW x \in {memory'[q], disk'[q], served'[q]} \ {Absent}
               PROVE  Justified(x)
    BY DEF DecisionJustified
  <2>2. x = run \/ x \in {memory[q], disk[q], served[q]} \ {Absent}
    BY <1>3, <1>6, <1>8
  <2> QED BY <2>1, <2>2 DEF Block
<1>12. Saved'
  <2> SUFFICES ASSUME failures' = 0, NEW q \in Runs
               PROVE  /\ memory'[q] = Absent \/ memory'[q] = disk'[q]
                      /\ Continues(served'[q].events, disk'[q].events)
    BY DEF Saved
  <2>1. /\ \A p \in Runs : /\ memory[p] = Absent \/ memory[p] = disk[p]
                           /\ Continues(served[p].events, disk[p].events)
    BY <1>4 DEF RunInv, Saved
  <2>2. CASE q # r
    BY <1>3, <1>6, <1>8, <2>1, <2>2
  <2>3. CASE q = r
    <3>1. memory'[r] = run /\ disk'[r] = run /\ served'[r] = served[r]
      BY <1>2, <1>3, <1>4 DEF RunShapes
    <3>2. /\ served[r].events \in Seq(RunEvents) /\ run.events \in Seq(RunEvents)
          /\ memory[r].events \in Seq(RunEvents)
      BY <1>2, EventsOf DEF RunShapes
    <3>3. CASE memory[r] = Absent /\ served[r] = Absent
      BY <2>3, <3>1, <3>2, <3>3, AbsentRecord, ContinuesOn
    <3>4. CASE memory[r] \in RunRecords /\ Continues(memory[r].events, run.events)
      <4>1. memory[r] = disk[r]
        BY <2>1, <3>4, AbsentRecord
      <4>2. Continues(served[r].events, memory[r].events)
        BY <2>1, <4>1
      <4> QED BY <2>3, <3>1, <3>2, <3>4, <4>2, ContinuesOn
    <3> QED BY <3>3, <3>4 DEF Block
  <2> QED BY <2>2, <2>3
<1> QED BY <1>5, <1>9, <1>10, <1>11, <1>12 DEF RunInv

\* A thread moves on, and the records stay.
LEMMA ThreadMoves ==
    ASSUME RunInv, NEW r \in Runs, NEW next \in RunThreads,
           thread' = [thread EXCEPT ![r] = next], Suits(memory[r], next), next.pc # "none",
           UNCHANGED <<memory, disk, served>>,
           failures' \in Nat, failures' = 0 => failures = 0
    PROVE  RunInv'
<1>1. RunShapes
  BY DEF RunInv
<1>2. RunShapes'
  BY <1>1 DEF RunShapes
<1>3. thread'[r] = next /\ \A q \in Runs \ {r} : thread'[q] = thread[q]
  BY <1>1 DEF RunShapes
<1>4. \A q \in Runs : Suits(memory[q], thread[q])'
  <2> SUFFICES ASSUME NEW q \in Runs PROVE Suits(memory'[q], thread'[q])
    OBVIOUS
  <2>1. Suits(memory[q], thread[q])
    BY DEF RunInv
  <2>2. q # r => thread'[q] = thread[q]
    BY <1>3
  <2> QED BY <1>3, <2>1, <2>2
<1>5. \A q \in Runs : At(q, "none")' => memory'[q] = Absent /\ served'[q] = Absent
  BY <1>3 DEF RunInv, At
<1>6. DecisionJustified'
  BY DEF RunInv, DecisionJustified
<1>7. Saved'
  BY DEF RunInv, Saved
<1> QED BY <1>2, <1>4, <1>5, <1>6, <1>7 DEF RunInv

LEMMA RaiseKeeps ==
    ASSUME RunInv, NEW r \in Runs, thread[r].pc \in Working,
           Goto(r, Failing(r)), UNCHANGED <<memory, disk, served>>,
           failures' \in Nat, failures' = 0 => failures = 0
    PROVE  RunInv'
<1>1. Suits(memory[r], thread[r]) /\ RunShapes
  BY DEF RunInv
<1>2. memory[r] \in RunRecords /\ Justified(memory[r])
  BY <1>1 DEF Suits
<1>3. Failing(r) \in RunThreads /\ Failing(r).pc = "fail" /\ Suits(memory[r], Failing(r))
  BY <1>1, <1>2, FailingThread
<1> QED BY <1>3, ThreadMoves DEF Goto

\* The model answers, or is asked again.
LEMMA AnswerKeeps ==
    ASSUME RunInv, NEW r \in Runs, At(r, "call"), NEW next \in RunThreads,
           next.role = thread[r].role, next.pc \in {"call", "called"},
           Goto(r, next), UNCHANGED <<memory, disk, served, failures>>
    PROVE  RunInv'
<1>1. Suits(memory[r], thread[r]) /\ RunShapes
  BY DEF RunInv
<1>2. memory[r] \in RunRecords /\ Justified(memory[r]) /\ Works(memory[r], thread[r])
  BY <1>1 DEF Suits, At, Working
<1>3. \A j \in 1..4 : Standing(next, j) = Standing(thread[r], j)
  BY DEF Standing, At
<1>4. Works(memory[r], next)
  BY <1>2, <1>3 DEF Works, At
<1>5. Suits(memory[r], next)
  BY <1>2, <1>4 DEF Suits
<1>6. failures' \in Nat /\ (failures' = 0 => failures = 0)
  BY <1>1 DEF RunShapes
<1> QED BY <1>5, <1>6, ThreadMoves DEF Goto

LEMMA CallRoleKeeps ==
    ASSUME RunInv, NEW r \in Runs, CallRole(r) PROVE RunInv'
<1>1. thread[r] \in RunThreads /\ thread[r].pc = "call" /\ failures \in Nat
  BY DEF RunInv, RunShapes, CallRole, At
<1>2. CASE Goto(r, Failing(r)) /\ UNCHANGED <<memory, disk, served, failures, crashes>>
  BY <1>1, <1>2, RaiseKeeps DEF Working
<1>3. CASE /\ Goto(r, Thread("call", thread[r].role, 2))
           /\ UNCHANGED <<memory, disk, served, failures, crashes>>
  <2>1. /\ Thread("call", thread[r].role, 2) \in RunThreads
        /\ Thread("call", thread[r].role, 2).pc = "call"
        /\ Thread("call", thread[r].role, 2).role = thread[r].role
    BY <1>1 DEF Thread, RunThreads
  <2> QED BY <1>1, <1>3, <2>1, AnswerKeeps DEF At
<1>4. CASE /\ Goto(r, [thread[r] EXCEPT !.pc = "called"])
           /\ UNCHANGED <<memory, disk, served, failures, crashes>>
  <2>1. /\ [thread[r] EXCEPT !.pc = "called"] \in RunThreads
        /\ [thread[r] EXCEPT !.pc = "called"].pc = "called"
        /\ [thread[r] EXCEPT !.pc = "called"].role = thread[r].role
    BY <1>1 DEF RunThreads, Pcs, Working
  <2> QED BY <1>1, <1>4, <2>1, AnswerKeeps DEF At
<1> QED BY <1>2, <1>3, <1>4 DEF CallRole, Raise

\* A reader sees the record, and no reader's record is taken back while saves succeed.
LEMMA GetKeeps ==
    ASSUME RunInv, NEW r \in Runs, Get(r) PROVE RunInv'
<1> DEFINE run == IF memory[r] # Absent THEN memory[r] ELSE disk[r]
<1>1. /\ thread[r].pc \notin {"none", "unknown"} /\ run # Absent
      /\ memory' = [memory EXCEPT ![r] = run] /\ served' = [served EXCEPT ![r] = run]
      /\ disk' = disk /\ thread' = thread /\ failures' = failures
  BY DEF Get
<1>2. RunShapes
  BY DEF RunInv
<1>3. run \in RunRecords /\ Justified(run) /\ run \in {memory[r], disk[r]}
  BY <1>1, <1>2 DEF RunInv, RunShapes, DecisionJustified
<1>4. memory[r] # Absent => run = memory[r]
  OBVIOUS
<1> HIDE DEF run
<1>5. RunShapes'
  BY <1>1, <1>2, <1>3 DEF RunShapes
<1>6. /\ memory'[r] = run /\ served'[r] = run
      /\ \A q \in Runs \ {r} : memory'[q] = memory[q] /\ served'[q] = served[q]
  BY <1>1, <1>2 DEF RunShapes
<1>7. \A q \in Runs : Suits(memory[q], thread[q])'
  <2> SUFFICES ASSUME NEW q \in Runs PROVE Suits(memory'[q], thread[q])
    BY <1>1
  <2>1. Suits(memory[q], thread[q])
    BY DEF RunInv
  <2>2. CASE memory'[q] = memory[q]
    BY <2>1, <2>2
  <2>3. CASE q = r /\ memory[r] = Absent
    <3>1. thread[r].pc \notin Working \cup {"queued", "fail"}
      BY <2>1, <2>3, AbsentRecord DEF Suits
    <3> QED BY <2>3, <3>1 DEF Suits
  <2> QED BY <1>4, <1>6, <2>2, <2>3
<1>8. \A q \in Runs : At(q, "none")' => memory'[q] = Absent /\ served'[q] = Absent
  BY <1>1, <1>6 DEF RunInv, At
<1>9. DecisionJustified'
  <2>1. \A q \in Runs : \A x \in {memory[q], disk[q], served[q]} \ {Absent} : Justified(x)
    BY DEF RunInv, DecisionJustified
  <2> SUFFICES ASSUME NEW q \in Runs,
                      NEW x \in {memory'[q], disk'[q], served'[q]} \ {Absent}
               PROVE  Justified(x)
    BY DEF DecisionJustified
  <2>2. x = run \/ x \in {memory[q], disk[q], served[q]} \ {Absent}
    BY <1>1, <1>6
  <2> QED BY <1>3, <2>1, <2>2
<1>10. Saved'
  <2> SUFFICES ASSUME failures' = 0, NEW q \in Runs
               PROVE  /\ memory'[q] = Absent \/ memory'[q] = disk'[q]
                      /\ Continues(served'[q].events, disk'[q].events)
    BY DEF Saved
  <2>1. /\ \A p \in Runs : /\ memory[p] = Absent \/ memory[p] = disk[p]
                           /\ Continues(served[p].events, disk[p].events)
    BY <1>1 DEF RunInv, Saved
  <2>2. CASE q # r
    BY <1>1, <1>6, <2>1, <2>2
  <2>3. CASE q = r
    <3>1. run = disk[r]
      BY <1>1, <1>3, <1>4, <2>1
    <3>2. run.events \in Seq(RunEvents)
      BY <1>3, EventsOf
    <3> QED BY <1>1, <1>6, <2>3, <3>1, <3>2, ContinuesOn
  <2> QED BY <2>2, <2>3
<1> QED BY <1>5, <1>7, <1>8, <1>9, <1>10 DEF RunInv

LEMMA CrashKeeps ==
    ASSUME RunInv, Crash PROVE RunInv'
<1>1. /\ memory' = [r \in Runs |-> Absent] /\ UNCHANGED <<disk, served, failures>>
      /\ thread' = [r \in Runs |-> IF thread[r].pc \in {"none", "unknown"} THEN thread[r]
                                   ELSE Dead]
  BY DEF Crash
<1>2. RunShapes
  BY DEF RunInv
<1>3. Dead \in RunThreads /\ Dead.pc = "ended"
  BY DEF Dead, Thread, RunThreads, Pcs
<1>4. RunShapes'
  BY <1>1, <1>2, <1>3 DEF RunShapes
<1>5. \A r \in Runs : /\ memory'[r] = Absent
                      /\ thread'[r].pc \in {"none", "unknown", "ended"}
                      /\ thread'[r].pc = "none" => thread[r].pc = "none"
  BY <1>1, <1>3
<1>6. \A r \in Runs : Suits(memory[r], thread[r])'
  BY <1>5 DEF Suits, Working
<1>7. \A r \in Runs : At(r, "none")' => memory'[r] = Absent /\ served'[r] = Absent
  BY <1>1, <1>5 DEF RunInv, At
<1>8. DecisionJustified'
  BY <1>1, <1>5 DEF RunInv, DecisionJustified
<1>9. Saved'
  BY <1>1, <1>5 DEF RunInv, Saved
<1> QED BY <1>4, <1>6, <1>7, <1>8, <1>9 DEF RunInv

LEMMA RunsStayKeeps ==
    ASSUME RunInv, RunsStay, failures' \in Nat, failures' = 0 => failures = 0
    PROVE  RunInv'
<1>1. memory' = memory /\ disk' = disk /\ thread' = thread /\ served' = served
  BY DEF RunsStay
<1> QED BY <1>1 DEF RunInv, RunShapes, DecisionJustified, Saved, At

LEMMA RunInit == Init => RunInv
<1> SUFFICES ASSUME Init PROVE RunInv
  OBVIOUS
<1>1. Thread("none", 1, 1) \in RunThreads /\ Thread("none", 1, 1).pc = "none"
  BY DEF Thread, RunThreads, Pcs
<1>2. RunShapes
  BY <1>1 DEF Init, RunShapes
<1>3. \A r \in Runs : /\ memory[r] = Absent /\ disk[r] = Absent /\ served[r] = Absent
                      /\ thread[r].pc = "none"
  BY <1>1 DEF Init
<1>4. \A r \in Runs : Suits(memory[r], thread[r])
  BY <1>3 DEF Suits, Working
<1>5. DecisionJustified /\ Saved
  BY <1>3, AbsentRecord, ContinuesOn DEF DecisionJustified, Saved
<1> QED BY <1>2, <1>3, <1>4, <1>5 DEF RunInv, At

-----------------------------------------------------------------------------
(* The invariant of the agent's ledger.                                    *)

Stagers == Runs \cup Clients
FocusPcs == {"idle", "read", "insert", "project", "add", "archive", "answer"}
Past == {"project", "add", "archive", "answer"}
StageCalls == [pc : FocusPcs, call : 0..MaxCalls, sync : BOOLEAN, previous : 0..MaxCalls,
               sequence : Nat]
Rows == [receipt : 1..MaxCalls, previous : 0..MaxCalls]

LedgerShapes ==
    /\ commits \in Seq(Rows)
    /\ focusMd \in 0..Len(commits)
    /\ calls \in 0..MaxCalls
    /\ remote \in [added : SUBSET (1..MaxCalls), archived : SUBSET (1..MaxCalls)]
    /\ caller \in [Stagers -> StageCalls]
    /\ receipt \in [Runs -> Nat]

\* A call has read the receipt of a row before its own, and past its INSERT it has that row.
Earlier(p, n) == p = 0 \/ \E i \in 1..(n - 1) : commits[i].receipt = p
Fits(c) ==
    /\ c.pc # "idle" => c.call # 0
    /\ c.pc = "insert" => Earlier(c.previous, Len(commits) + 1)
    /\ c.pc \in Past => /\ c.sequence \in 1..Len(commits)
                        /\ commits[c.sequence] = [receipt |-> c.call, previous |-> c.previous]
                        /\ Earlier(c.previous, c.sequence)
    /\ c.pc = "archive" => c.call \in remote.added

\* Rows have one owner: a call under way or the run that was answered.
RowsApart ==
    /\ \A t, u \in Stagers :
          t # u /\ caller[t].pc \in Past /\ caller[u].pc \in Past
              => caller[t].sequence # caller[u].sequence
    /\ \A r, q \in Runs : r # q /\ receipt[r] # 0 => receipt[q] # receipt[r]
    /\ \A r \in Runs, t \in Stagers :
          receipt[r] # 0 /\ caller[t].pc \in Past => caller[t].sequence # receipt[r]

Answered(n) == /\ n \in 1..Len(commits)
               /\ \E a \in answers : a.sequence = n /\ a.receipt = commits[n].receipt
AnswersAnchored ==
    \A a \in answers : /\ a.sequence \in 1..Len(commits)
                       /\ commits[a.sequence] = [receipt |-> a.receipt, previous |-> a.previous]
                       /\ Earlier(a.previous, a.sequence)
Known == {commits[i].receipt : i \in 1..Len(commits)}
Local == remote.added \subseteq Known /\ remote.archived \subseteq remote.added

LedgerInv ==
    /\ LedgerShapes
    /\ \A t \in Stagers : Fits(caller[t])
    /\ RowsApart
    /\ \A r \in Runs : receipt[r] # 0 => Answered(receipt[r])
    /\ AnswersAnchored
    /\ Local

LEMMA LedgerBounds == MaxCalls \in Nat /\ MaxFailures \in Nat /\ MaxCrashes \in Nat
BY AgentMemory DEF Focus!Inputs

\* A call moves on without a new row or answer.
LEMMA CallerMoves ==
    ASSUME LedgerInv, NEW t \in Stagers, NEW c \in StageCalls,
           caller' = [caller EXCEPT ![t] = c],
           UNCHANGED <<commits, answers, receipt>>,
           focusMd' \in 0..Len(commits), calls' \in 0..MaxCalls,
           remote' \in [added : SUBSET (1..MaxCalls), archived : SUBSET (1..MaxCalls)],
           remote.added \subseteq remote'.added,
           remote'.added \subseteq Known, remote'.archived \subseteq remote'.added,
           Fits(c)',
           c.pc \in Past => caller[t].pc \in Past /\ c.sequence = caller[t].sequence
    PROVE  LedgerInv'
<1>1. LedgerShapes
  BY DEF LedgerInv
<1>2. LedgerShapes'
  BY <1>1 DEF LedgerShapes
<1>3. caller'[t] = c /\ \A u \in Stagers \ {t} : caller'[u] = caller[u]
  BY <1>1 DEF LedgerShapes
<1>4. \A u \in Stagers : Fits(caller[u])'
  <2> SUFFICES ASSUME NEW u \in Stagers PROVE Fits(caller[u])'
    OBVIOUS
  <2>1. CASE u = t
    BY <1>3, <2>1 DEF Fits, Earlier
  <2>2. CASE u # t
    <3>1. Fits(caller[u]) /\ caller'[u] = caller[u]
      BY <1>3, <2>2 DEF LedgerInv
    <3> QED BY <3>1 DEF Fits, Earlier
  <2> QED BY <2>1, <2>2
<1>5. \A u \in Stagers : caller'[u].pc \in Past =>
                           caller[u].pc \in Past /\ caller'[u].sequence = caller[u].sequence
  BY <1>3
<1>6. RowsApart'
  BY <1>5 DEF LedgerInv, RowsApart
<1>7. (\A r \in Runs : receipt[r] # 0 => Answered(receipt[r]))' /\ AnswersAnchored'
  BY DEF LedgerInv, Answered, AnswersAnchored, Earlier
<1>8. Local'
  BY DEF Local, Known
<1> QED BY <1>2, <1>4, <1>6, <1>7, <1>8 DEF LedgerInv

LEMMA CallKeeps ==
    ASSUME LedgerInv, NEW t \in Stagers, NEW sync \in BOOLEAN, Focus!Call(t, sync),
           UNCHANGED receipt
    PROVE  LedgerInv'
<1>1. LedgerShapes /\ Local /\ MaxCalls \in Nat
  BY LedgerBounds DEF LedgerInv
<1>0. PICK c : c = [Focus!Idle EXCEPT !.pc = "read", !.call = calls + 1, !.sync = sync]
  OBVIOUS
<1>2. /\ calls < MaxCalls /\ calls' = calls + 1 /\ caller' = [caller EXCEPT ![t] = c]
      /\ UNCHANGED <<commits, focusMd, remote, answers>>
  BY <1>0 DEF Focus!Call, Focus!durable
<1>3. calls + 1 \in 0..MaxCalls /\ calls + 1 # 0
  BY <1>1, <1>2 DEF LedgerShapes
<1>4. c \in StageCalls /\ c.pc = "read" /\ c.call = calls + 1
  <2>1. Focus!Idle \in StageCalls
    BY <1>1 DEF StageCalls, FocusPcs, Focus!Idle, Focus!ZERO_HASH
  <2> QED BY <1>0, <1>3, <2>1 DEF StageCalls, FocusPcs
<1>5. Fits(c)' /\ c.pc \notin Past
  BY <1>3, <1>4 DEF Fits, Past
<1> QED BY <1>1, <1>2, <1>3, <1>4, <1>5, CallerMoves DEF LedgerShapes, Local

LEMMA ReadKeeps ==
    ASSUME LedgerInv, NEW t \in Stagers, Focus!ReadPrevious(t), UNCHANGED receipt
    PROVE  LedgerInv'
<1>1. LedgerShapes /\ Local /\ MaxCalls \in Nat /\ Fits(caller[t])
  BY LedgerBounds DEF LedgerInv
<1>0. PICK last : last = Focus!LastReceipt
  OBVIOUS
<1>8. PICK c : c = [caller[t] EXCEPT !.pc = "insert", !.previous = last]
  OBVIOUS
<1>2. /\ caller[t].pc = "read" /\ caller' = [caller EXCEPT ![t] = c]
      /\ UNCHANGED <<commits, focusMd, remote, answers, calls>>
  <2>1. caller' = [caller EXCEPT ![t].pc = "insert", ![t].previous = last]
    BY <1>0 DEF Focus!ReadPrevious
  <2>2. [caller EXCEPT ![t].pc = "insert", ![t].previous = last] = [caller EXCEPT ![t] = c]
    BY <1>1, <1>8 DEF LedgerShapes, StageCalls
  <2> QED BY <2>1, <2>2 DEF Focus!ReadPrevious, Focus!At, Focus!durable, Focus!Stay
<1>3. last \in 0..MaxCalls /\ Earlier(last, Len(commits) + 1)
  <2>1. commits \in Seq(Rows) /\ Len(commits) \in Nat
    BY <1>1 DEF LedgerShapes
  <2>2. CASE commits = <<>>
    BY <1>0, <1>1, <2>2 DEF Focus!LastReceipt, Focus!ZERO_HASH, Earlier
  <2>3. CASE commits # <<>>
    <3>1. Len(commits) \in 1..Len(commits) /\ commits[Len(commits)] \in Rows
      BY <2>1, <2>3, EmptySeq, ElementOfSeq
    <3>2. last = commits[Len(commits)].receipt
      BY <1>0, <2>3 DEF Focus!LastReceipt
    <3>3. Len(commits) \in 1..((Len(commits) + 1) - 1)
      BY <2>1, <3>1
    <3> QED BY <1>1, <3>1, <3>2, <3>3 DEF Earlier, Rows
  <2> QED BY <2>2, <2>3
<1>4. caller[t] \in StageCalls
  BY <1>1 DEF LedgerShapes
<1>5. c \in StageCalls /\ c.pc = "insert" /\ c.previous = last /\ c.call = caller[t].call
  BY <1>3, <1>4, <1>8 DEF StageCalls, FocusPcs
<1>6. Fits(c)' /\ c.pc \notin Past
  BY <1>1, <1>2, <1>3, <1>5 DEF Fits, Past, Earlier
<1> QED BY <1>1, <1>2, <1>5, <1>6, CallerMoves DEF LedgerShapes, Local

LEMMA ProjectKeeps ==
    ASSUME LedgerInv, NEW t \in Stagers, Focus!Project(t), UNCHANGED receipt
    PROVE  LedgerInv'
<1>1. LedgerShapes /\ Local /\ MaxCalls \in Nat /\ Fits(caller[t])
  BY LedgerBounds DEF LedgerInv
<1>0. PICK pc : pc = IF caller[t].sync THEN "add" ELSE "answer"
  OBVIOUS
<1>8. PICK c : c = [caller[t] EXCEPT !.pc = pc]
  OBVIOUS
<1>2. /\ caller[t].pc = "project" /\ caller' = [caller EXCEPT ![t] = c]
      /\ focusMd' = caller[t].sequence
      /\ UNCHANGED <<commits, remote, answers, calls>>
  <2>1. caller' = [caller EXCEPT ![t].pc = pc]
    BY <1>0 DEF Focus!Project, Focus!Goto
  <2>2. [caller EXCEPT ![t].pc = pc] = [caller EXCEPT ![t] = c]
    BY <1>1, <1>8 DEF LedgerShapes, StageCalls
  <2> QED BY <2>1, <2>2 DEF Focus!Project, Focus!At, Focus!Stay
<1>3. pc \in {"add", "answer"}
  BY <1>0
<1>4. caller[t] \in StageCalls
  BY <1>1 DEF LedgerShapes
<1>5. /\ c \in StageCalls /\ c.pc = pc /\ c.previous = caller[t].previous
      /\ c.call = caller[t].call /\ c.sequence = caller[t].sequence
  BY <1>3, <1>4, <1>8 DEF StageCalls, FocusPcs
<1>6. Fits(c)' /\ caller[t].pc \in Past
  BY <1>1, <1>2, <1>3, <1>5 DEF Fits, Past, Earlier
<1>7. focusMd' \in 0..Len(commits)
  BY <1>1, <1>2 DEF Fits, Past
<1> QED BY <1>1, <1>2, <1>5, <1>6, <1>7, CallerMoves DEF LedgerShapes, Local

LEMMA AddKeeps ==
    ASSUME LedgerInv, NEW t \in Stagers, Focus!ConversationAdd(t), UNCHANGED receipt
    PROVE  LedgerInv'
<1>1. LedgerShapes /\ Local /\ MaxCalls \in Nat /\ Fits(caller[t])
  BY LedgerBounds DEF LedgerInv
<1>8. PICK c : c = [caller[t] EXCEPT !.pc = "archive"]
  OBVIOUS
<1>2. /\ caller[t].pc = "add" /\ caller' = [caller EXCEPT ![t] = c]
      /\ remote' = [remote EXCEPT !.added = remote.added \cup {caller[t].call}]
      /\ UNCHANGED <<commits, focusMd, answers, calls>>
  <2>1. caller' = [caller EXCEPT ![t].pc = "archive"]
    BY DEF Focus!ConversationAdd, Focus!Goto
  <2>2. [caller EXCEPT ![t].pc = "archive"] = [caller EXCEPT ![t] = c]
    BY <1>1, <1>8 DEF LedgerShapes, StageCalls
  <2> QED BY <2>1, <2>2 DEF Focus!ConversationAdd, Focus!At, Focus!Stay
<1>4. caller[t] \in StageCalls
  BY <1>1 DEF LedgerShapes
<1>5. /\ c \in StageCalls /\ c.pc = "archive" /\ c.previous = caller[t].previous
      /\ c.call = caller[t].call /\ c.sequence = caller[t].sequence
  BY <1>4, <1>8 DEF StageCalls, FocusPcs
<1>6. /\ remote'.added = remote.added \cup {caller[t].call}
      /\ remote'.archived = remote.archived
      /\ remote' = [added |-> remote'.added, archived |-> remote'.archived]
  BY <1>1, <1>2 DEF LedgerShapes
<1>7. /\ caller[t].sequence \in 1..Len(commits)
      /\ commits[caller[t].sequence].receipt = caller[t].call
      /\ caller[t].call \in 1..MaxCalls
  BY <1>1, <1>2, <1>4 DEF Fits, Past, StageCalls
<1>12. caller[t].call \in Known
  BY <1>7 DEF Known
<1>9. Fits(c)' /\ caller[t].pc \in Past
  BY <1>1, <1>2, <1>5, <1>6 DEF Fits, Past, Earlier
<1>10. remote' \in [added : SUBSET (1..MaxCalls), archived : SUBSET (1..MaxCalls)]
  BY <1>1, <1>6, <1>7 DEF LedgerShapes
<1>11. /\ remote.added \subseteq remote'.added /\ remote'.added \subseteq Known
       /\ remote'.archived \subseteq remote'.added
  BY <1>1, <1>6, <1>12 DEF Local
<1> QED BY <1>1, <1>2, <1>5, <1>9, <1>10, <1>11, CallerMoves DEF LedgerShapes

LEMMA ArchiveKeeps ==
    ASSUME LedgerInv, NEW t \in Stagers, Focus!ForceArchive(t), UNCHANGED receipt
    PROVE  LedgerInv'
<1>1. LedgerShapes /\ Local /\ MaxCalls \in Nat /\ Fits(caller[t])
  BY LedgerBounds DEF LedgerInv
<1>8. PICK c : c = [caller[t] EXCEPT !.pc = "answer"]
  OBVIOUS
<1>2. /\ caller[t].pc = "archive" /\ caller' = [caller EXCEPT ![t] = c]
      /\ remote' = [remote EXCEPT !.archived = remote.archived \cup {caller[t].call}]
      /\ UNCHANGED <<commits, focusMd, answers, calls>>
  <2>1. caller' = [caller EXCEPT ![t].pc = "answer"]
    BY DEF Focus!ForceArchive, Focus!Goto
  <2>2. [caller EXCEPT ![t].pc = "answer"] = [caller EXCEPT ![t] = c]
    BY <1>1, <1>8 DEF LedgerShapes, StageCalls
  <2> QED BY <2>1, <2>2 DEF Focus!ForceArchive, Focus!At, Focus!Stay
<1>4. caller[t] \in StageCalls
  BY <1>1 DEF LedgerShapes
<1>5. /\ c \in StageCalls /\ c.pc = "answer" /\ c.previous = caller[t].previous
      /\ c.call = caller[t].call /\ c.sequence = caller[t].sequence
  BY <1>4, <1>8 DEF StageCalls, FocusPcs
<1>6. /\ remote'.archived = remote.archived \cup {caller[t].call}
      /\ remote'.added = remote.added
      /\ remote' = [added |-> remote'.added, archived |-> remote'.archived]
  BY <1>1, <1>2 DEF LedgerShapes
<1>7. caller[t].call \in remote.added
  BY <1>1, <1>2 DEF Fits
<1>9. Fits(c)' /\ caller[t].pc \in Past
  BY <1>1, <1>2, <1>5, <1>6 DEF Fits, Past, Earlier
<1>10. remote' \in [added : SUBSET (1..MaxCalls), archived : SUBSET (1..MaxCalls)]
  BY <1>1, <1>6, <1>7 DEF LedgerShapes
<1>11. /\ remote.added \subseteq remote'.added /\ remote'.added \subseteq Known
       /\ remote'.archived \subseteq remote'.added
  BY <1>1, <1>6, <1>7 DEF Local
<1> QED BY <1>1, <1>2, <1>5, <1>9, <1>10, <1>11, CallerMoves DEF LedgerShapes

\* The INSERT: the rows there were stay, and the new one is the call's own.
LEMMA InsertKeeps ==
    ASSUME LedgerInv, NEW t \in Stagers, Focus!Insert(t), UNCHANGED receipt
    PROVE  LedgerInv'
<1>1. LedgerShapes /\ Local /\ MaxCalls \in Nat /\ Fits(caller[t])
  BY LedgerBounds DEF LedgerInv
<1>2. PICK n : n = Len(commits) + 1
  OBVIOUS
<1>3. PICK row : row = [receipt |-> caller[t].call, previous |-> caller[t].previous]
  OBVIOUS
<1>4. PICK c : c = [caller[t] EXCEPT !.pc = "project", !.previous = caller[t].previous,
                                     !.sequence = n]
  OBVIOUS
<1>5. /\ caller[t].pc = "insert" /\ caller' = [caller EXCEPT ![t] = c]
      /\ commits' = Append(commits, row)
      /\ UNCHANGED <<focusMd, remote, answers, calls>>
  <2>1. caller' = [caller EXCEPT ![t].pc = "project", ![t].previous = caller[t].previous,
                                 ![t].sequence = n]
    BY <1>2 DEF Focus!Insert, Focus!Previous, Focus!Rowid
  <2>2. [caller EXCEPT ![t].pc = "project", ![t].previous = caller[t].previous,
                       ![t].sequence = n] = [caller EXCEPT ![t] = c]
    BY <1>1, <1>4 DEF LedgerShapes, StageCalls
  <2>3. commits' = Append(commits, row)
    BY <1>3 DEF Focus!Insert, Focus!Previous
  <2> QED BY <2>1, <2>2, <2>3 DEF Focus!Insert, Focus!At, Focus!Stay
<1>6. caller[t] \in StageCalls /\ Len(commits) \in Nat /\ n \in 1..n
  BY <1>1, <1>2 DEF LedgerShapes
<1>7. /\ c \in StageCalls /\ c.pc = "project" /\ c.previous = caller[t].previous
      /\ c.call = caller[t].call /\ c.sequence = n
  <2>1. n \in Nat /\ "project" \in FocusPcs
    BY <1>2, <1>6 DEF FocusPcs
  <2>2. caller[t] = [pc |-> caller[t].pc, call |-> caller[t].call, sync |-> caller[t].sync,
                     previous |-> caller[t].previous, sequence |-> caller[t].sequence]
    BY <1>6 DEF StageCalls
  <2>3. c = [pc |-> "project", call |-> caller[t].call, sync |-> caller[t].sync,
             previous |-> caller[t].previous, sequence |-> n]
    BY <1>4, <2>2
  <2> QED BY <1>6, <2>1, <2>3 DEF StageCalls
<1>8. row \in Rows /\ row.receipt = caller[t].call
  <2>1. caller[t].call \in 1..MaxCalls /\ caller[t].previous \in 0..MaxCalls
    BY <1>1, <1>5, <1>6 DEF Fits, StageCalls
  <2> QED BY <1>3, <2>1 DEF Rows
<1>9. /\ commits' \in Seq(Rows) /\ Len(commits') = n /\ commits'[n] = row
      /\ \A i \in 1..Len(commits) : i \in 1..n /\ commits'[i] = commits[i]
  <2>1. commits \in Seq(Rows)
    BY <1>1 DEF LedgerShapes
  <2>2. /\ Append(commits, row) \in Seq(Rows) /\ Len(Append(commits, row)) = Len(commits) + 1
        /\ \A i \in 1..Len(commits) : Append(commits, row)[i] = commits[i]
        /\ Append(commits, row)[Len(commits) + 1] = row
    BY <2>1, <1>8, AppendProperties
  <2>3. \A i \in 1..Len(commits) : i \in 1..n
    BY <1>2, <1>6
  <2> QED BY <1>2, <1>5, <2>2, <2>3
<1>10. ASSUME NEW p, NEW m \in 1..n, Earlier(p, m) PROVE Earlier(p, m)'
  <2>1. \A i \in 1..(m - 1) : i \in 1..Len(commits)
    BY <1>2, <1>6
  <2> QED BY <1>9, <1>10, <2>1 DEF Earlier
<1>11. caller'[t] = c /\ \A u \in Stagers \ {t} : caller'[u] = caller[u]
  BY <1>1, <1>5 DEF LedgerShapes
<1>12. LedgerShapes'
  <2>1. focusMd' \in 0..Len(commits')
    BY <1>1, <1>2, <1>5, <1>6, <1>9 DEF LedgerShapes
  <2> QED BY <1>1, <1>5, <1>7, <1>9, <2>1 DEF LedgerShapes
<1>13. \A u \in Stagers : Fits(caller[u])'
  <2> SUFFICES ASSUME NEW u \in Stagers PROVE Fits(caller[u])'
    OBVIOUS
  <2>1. CASE u = t
    <3>1. Earlier(c.previous, n)
      BY <1>1, <1>2, <1>5, <1>7 DEF Fits
    <3>2. Earlier(c.previous, n)'
      BY <1>6, <1>10, <3>1
    <3>3. commits'[c.sequence] = [receipt |-> c.call, previous |-> c.previous]
      BY <1>3, <1>7, <1>9
    <3>4. c.call # 0
      BY <1>1, <1>5, <1>7 DEF Fits
    <3>5. caller'[u] = c /\ c.sequence = n
      BY <1>7, <1>11, <2>1
    <3>6. (c.previous = 0 \/ \E i \in 1..(n - 1) : commits'[i].receipt = c.previous)
      BY <3>2 DEF Earlier
    <3> QED BY <1>6, <1>7, <1>9, <3>3, <3>4, <3>5, <3>6 DEF Fits, Past, Earlier
  <2>2. CASE u # t
    <3>1. Fits(caller[u]) /\ caller'[u] = caller[u] /\ caller[u] \in StageCalls
      BY <1>1, <1>11, <2>2 DEF LedgerInv, LedgerShapes
    <3>2. PICK d : d = caller[u]
      OBVIOUS
    <3>3. d.pc = "insert" => Earlier(d.previous, Len(commits) + 1)
      BY <3>1, <3>2 DEF Fits
    <3>4. d.pc = "insert" => Earlier(d.previous, n)'
      BY <1>2, <1>6, <1>10, <3>3
    <3>5. d.pc = "insert" => Earlier(d.previous, Len(commits) + 1)'
      BY <1>2, <1>6, <1>9, <3>4 DEF Earlier
    <3>6. d.pc \in Past => /\ d.sequence \in 1..Len(commits)
                           /\ commits[d.sequence] = [receipt |-> d.call, previous |-> d.previous]
                           /\ Earlier(d.previous, d.sequence)
      BY <3>1, <3>2 DEF Fits
    <3>7. d.pc \in Past => /\ d.sequence \in 1..n
                           /\ commits'[d.sequence] = [receipt |-> d.call, previous |-> d.previous]
      BY <1>9, <3>6
    <3>8. d.pc \in Past => Earlier(d.previous, d.sequence)'
      BY <1>10, <3>6, <3>7
    <3>9. /\ d.pc # "idle" => d.call # 0
          /\ d.pc = "archive" => d.call \in remote.added
      BY <3>1, <3>2 DEF Fits
    <3>10. Fits(d)'
      BY <1>5, <1>9, <3>5, <3>7, <3>8, <3>9 DEF Fits
    <3>11. caller'[u] = d
      BY <3>1, <3>2
    <3> QED BY <3>10, <3>11 DEF Fits, Earlier
  <2> QED BY <2>1, <2>2
<1>14. \A u \in Stagers : caller[u].pc \in Past => caller[u].sequence # n
  <2> SUFFICES ASSUME NEW u \in Stagers, caller[u].pc \in Past PROVE caller[u].sequence # n
    OBVIOUS
  <2>1. caller[u].sequence \in 1..Len(commits)
    BY DEF LedgerInv, Fits
  <2> QED BY <1>2, <1>6, <2>1
<1>15. \A r \in Runs : receipt[r] # 0 => receipt[r] # n
  <2> SUFFICES ASSUME NEW r \in Runs, receipt[r] # 0 PROVE receipt[r] # n
    OBVIOUS
  <2>1. receipt[r] \in 1..Len(commits)
    BY DEF LedgerInv, Answered
  <2> QED BY <1>2, <1>6, <2>1
<1>16. RowsApart'
  <2>1. receipt' = receipt /\ RowsApart /\ caller[t].pc \notin Past
    BY <1>5 DEF LedgerInv, Past
  <2>2. \A u, v \in Stagers : u # v /\ caller'[u].pc \in Past /\ caller'[v].pc \in Past
                                => caller'[u].sequence # caller'[v].sequence
    BY <1>7, <1>11, <1>14, <2>1 DEF RowsApart
  <2>3. \A r, q \in Runs : r # q /\ receipt'[r] # 0 => receipt'[q] # receipt'[r]
    BY <2>1 DEF RowsApart
  <2>4. \A r \in Runs, u \in Stagers :
          receipt'[r] # 0 /\ caller'[u].pc \in Past => caller'[u].sequence # receipt'[r]
    BY <1>7, <1>11, <1>15, <2>1 DEF RowsApart
  <2> QED BY <2>2, <2>3, <2>4 DEF RowsApart
<1>17. (\A r \in Runs : receipt[r] # 0 => Answered(receipt[r]))'
  <2> SUFFICES ASSUME NEW r \in Runs, receipt[r] # 0 PROVE Answered(receipt[r])'
    OBVIOUS
  <2>1. /\ receipt[r] \in 1..Len(commits)
        /\ \E a \in answers : a.sequence = receipt[r] /\ a.receipt = commits[receipt[r]].receipt
    BY DEF LedgerInv, Answered
  <2>2. receipt[r] \in 1..Len(commits') /\ commits'[receipt[r]] = commits[receipt[r]]
    BY <1>9, <2>1
  <2> QED BY <1>5, <2>1, <2>2 DEF Answered
<1>18. AnswersAnchored'
  <2> SUFFICES ASSUME NEW a \in answers
               PROVE  /\ a.sequence \in 1..Len(commits')
                      /\ commits'[a.sequence] = [receipt |-> a.receipt, previous |-> a.previous]
                      /\ Earlier(a.previous, a.sequence)'
    BY <1>5 DEF AnswersAnchored
  <2>1. /\ a.sequence \in 1..Len(commits)
        /\ commits[a.sequence] = [receipt |-> a.receipt, previous |-> a.previous]
        /\ Earlier(a.previous, a.sequence)
    BY DEF LedgerInv, AnswersAnchored
  <2>2. a.sequence \in 1..n
    BY <1>9, <2>1
  <2>3. Earlier(a.previous, a.sequence)'
    BY <1>10, <2>1, <2>2
  <2> QED BY <1>9, <2>1, <2>3
<1>19. Local'
  <2>1. Known \subseteq Known'
    BY <1>9 DEF Known
  <2> QED BY <1>1, <1>5, <2>1 DEF Local
<1> QED BY <1>12, <1>13, <1>16, <1>17, <1>18, <1>19 DEF LedgerInv

LEMMA IdleCall == Focus!Idle \in StageCalls /\ Focus!Idle.pc = "idle" /\ Fits(Focus!Idle)
<1>1. Focus!Idle \in StageCalls /\ Focus!Idle.pc = "idle"
  BY LedgerBounds DEF StageCalls, FocusPcs, Focus!Idle, Focus!ZERO_HASH
<1> QED BY <1>1 DEF Fits, Past

\* A step that raises: its row stays, if it has one, and nobody is told of it.
LEMMA RaisedKeeps ==
    ASSUME LedgerInv, NEW t \in Stagers, Focus!Raise(t), UNCHANGED receipt
    PROVE  LedgerInv'
<1>1. LedgerShapes /\ Local /\ MaxCalls \in Nat /\ Fits(caller[t])
  BY LedgerBounds DEF LedgerInv
<1>2. PICK c : c = Focus!Idle
  OBVIOUS
<1>3. /\ caller' = [caller EXCEPT ![t] = c]
      /\ UNCHANGED <<commits, focusMd, answers, calls>>
      /\ \/ remote' = remote
         \/ /\ caller[t].pc = "add"
            /\ remote' = [remote EXCEPT !.added = remote.added \cup {caller[t].call}]
         \/ /\ caller[t].pc = "archive"
            /\ remote' = [remote EXCEPT !.archived = remote.archived \cup {caller[t].call}]
  BY <1>2 DEF Focus!Raise, Focus!At
<1>4. c \in StageCalls /\ c.pc = "idle" /\ c.pc \notin Past /\ Fits(c)'
  <2>1. c \in StageCalls /\ c.pc = "idle"
    BY <1>2, IdleCall
  <2> QED BY <2>1 DEF Fits, Past
<1>5. caller[t] \in StageCalls /\ remote \in [added : SUBSET (1..MaxCalls),
                                              archived : SUBSET (1..MaxCalls)]
  BY <1>1 DEF LedgerShapes
<1>6. caller[t].pc \in {"add", "archive"} => caller[t].call \in 1..MaxCalls /\ caller[t].call \in Known
  <2> SUFFICES ASSUME caller[t].pc \in {"add", "archive"}
               PROVE  caller[t].call \in 1..MaxCalls /\ caller[t].call \in Known
    OBVIOUS
  <2>1. /\ caller[t].sequence \in 1..Len(commits)
        /\ commits[caller[t].sequence].receipt = caller[t].call
        /\ caller[t].call \in 1..MaxCalls
    BY <1>1, <1>5 DEF Fits, Past, StageCalls
  <2> QED BY <2>1 DEF Known
<1>7. /\ remote' \in [added : SUBSET (1..MaxCalls), archived : SUBSET (1..MaxCalls)]
      /\ remote.added \subseteq remote'.added /\ remote'.added \subseteq Known
      /\ remote'.archived \subseteq remote'.added
  <2>1. CASE remote' = remote
    BY <1>1, <1>5, <2>1 DEF Local
  <2>2. CASE /\ caller[t].pc = "add"
             /\ remote' = [remote EXCEPT !.added = remote.added \cup {caller[t].call}]
    <3>1. /\ remote'.added = remote.added \cup {caller[t].call}
          /\ remote'.archived = remote.archived
          /\ remote' = [added |-> remote'.added, archived |-> remote'.archived]
      BY <1>5, <2>2
    <3> QED BY <1>1, <1>5, <1>6, <2>2, <3>1 DEF Local
  <2>3. CASE /\ caller[t].pc = "archive"
             /\ remote' = [remote EXCEPT !.archived = remote.archived \cup {caller[t].call}]
    <3>1. /\ remote'.archived = remote.archived \cup {caller[t].call}
          /\ remote'.added = remote.added
          /\ remote' = [added |-> remote'.added, archived |-> remote'.archived]
      BY <1>5, <2>3
    <3>2. caller[t].call \in remote.added
      BY <1>1, <2>3 DEF Fits
    <3> QED BY <1>1, <1>5, <1>6, <2>3, <3>1, <3>2 DEF Local
  <2> QED BY <1>3, <2>1, <2>2, <2>3
<1> QED BY <1>1, <1>3, <1>4, <1>7, CallerMoves DEF LedgerShapes

\* The answer: of a request, or to the run, which keeps it as its receipt.
LEMMA AnsweredKeeps ==
    ASSUME LedgerInv, NEW t \in Stagers, Focus!Answer(t),
           \/ UNCHANGED receipt
           \/ /\ t \in Runs
              /\ receipt' = [receipt EXCEPT ![t] = caller[t].sequence]
    PROVE  LedgerInv'
<1>1. LedgerShapes /\ Local /\ MaxCalls \in Nat /\ Fits(caller[t]) /\ AnswersAnchored /\ RowsApart
  BY LedgerBounds DEF LedgerInv
<1>2. PICK c : c = Focus!Idle
  OBVIOUS
<1>3. PICK n : n = caller[t].sequence
  OBVIOUS
<1>4. PICK said : said = [receipt |-> caller[t].call, previous |-> caller[t].previous,
                          sequence |-> n]
  OBVIOUS
<1>5. /\ caller[t].pc = "answer" /\ caller' = [caller EXCEPT ![t] = c]
      /\ answers' = answers \cup {said}
      /\ UNCHANGED <<commits, focusMd, remote, calls>>
  BY <1>2, <1>3, <1>4 DEF Focus!Answer, Focus!At, Focus!Sequence, Focus!durable
<1>6. c \in StageCalls /\ c.pc = "idle" /\ c.pc \notin Past
  BY <1>2, IdleCall DEF Past
<1>7. caller'[t] = c /\ \A u \in Stagers \ {t} : caller'[u] = caller[u]
  BY <1>1, <1>5 DEF LedgerShapes
<1>8. /\ n \in 1..Len(commits)
      /\ commits[n] = [receipt |-> said.receipt, previous |-> said.previous]
      /\ Earlier(said.previous, n) /\ said.sequence = n
      /\ commits[n].receipt = said.receipt
  BY <1>1, <1>3, <1>4, <1>5 DEF Fits, Past
<1>9. n \in Nat /\ n # 0 /\ Len(commits) \in Nat
  BY <1>1, <1>8 DEF LedgerShapes
<1>10. receipt' \in [Runs -> Nat]
  BY <1>1, <1>3, <1>9 DEF LedgerShapes
<1>11. LedgerShapes'
  BY <1>1, <1>5, <1>6, <1>10 DEF LedgerShapes
<1>12. \A u \in Stagers : Fits(caller[u])'
  <2> SUFFICES ASSUME NEW u \in Stagers PROVE Fits(caller[u])'
    OBVIOUS
  <2>1. CASE u = t
    BY <1>6, <1>7, <2>1 DEF Fits, Past
  <2>2. CASE u # t
    <3>1. Fits(caller[u]) /\ caller'[u] = caller[u]
      BY <1>7, <2>2 DEF LedgerInv
    <3> QED BY <1>5, <3>1 DEF Fits, Earlier
  <2> QED BY <2>1, <2>2
<1>13. \A r \in Runs : receipt'[r] = receipt[r] \/ (r = t /\ receipt'[r] = n)
  BY <1>1, <1>3 DEF LedgerShapes
<1>14. t \in Runs => \A r \in Runs \ {t} : receipt'[r] = receipt[r]
  BY <1>1 DEF LedgerShapes
<1>15. \A r \in Runs : receipt[r] # 0 => receipt[r] # n
  BY <1>1, <1>3, <1>5 DEF RowsApart, Past
<1>16. \A u \in Stagers \ {t} : caller[u].pc \in Past => caller[u].sequence # n
  BY <1>1, <1>3, <1>5 DEF RowsApart, Past
<1>17. RowsApart'
  <2>1. \A u, v \in Stagers : u # v /\ caller'[u].pc \in Past /\ caller'[v].pc \in Past
                                => caller'[u].sequence # caller'[v].sequence
    BY <1>1, <1>6, <1>7 DEF RowsApart
  <2>2. \A r, q \in Runs : r # q /\ receipt'[r] # 0 => receipt'[q] # receipt'[r]
    <3> SUFFICES ASSUME NEW r \in Runs, NEW q \in Runs, r # q, receipt'[r] # 0
                 PROVE  receipt'[q] # receipt'[r]
      OBVIOUS
    <3>1. receipt[r] # 0 => receipt[q] # receipt[r]
      BY <1>1 DEF RowsApart
    <3>2. receipt[q] # 0 => receipt[q] # receipt[r]
      BY <1>1 DEF RowsApart
    <3> QED BY <1>9, <1>13, <1>15, <3>1, <3>2
  <2>3. \A r \in Runs, u \in Stagers :
          receipt'[r] # 0 /\ caller'[u].pc \in Past => caller'[u].sequence # receipt'[r]
    <3> SUFFICES ASSUME NEW r \in Runs, NEW u \in Stagers, receipt'[r] # 0,
                        caller'[u].pc \in Past
                 PROVE  caller'[u].sequence # receipt'[r]
      OBVIOUS
    <3>1. u # t /\ caller'[u] = caller[u] /\ caller[u].sequence # n
      BY <1>6, <1>7, <1>16
    <3>2. receipt[r] # 0 => caller[u].sequence # receipt[r]
      BY <1>1, <3>1 DEF RowsApart
    <3> QED BY <1>13, <3>1, <3>2
  <2> QED BY <2>1, <2>2, <2>3 DEF RowsApart
<1>18. (\A r \in Runs : receipt[r] # 0 => Answered(receipt[r]))'
  <2> SUFFICES ASSUME NEW r \in Runs, receipt'[r] # 0
               PROVE  /\ receipt'[r] \in 1..Len(commits)
                      /\ \E a \in answers' : /\ a.sequence = receipt'[r]
                                             /\ a.receipt = commits[receipt'[r]].receipt
    BY <1>5 DEF Answered
  <2>1. CASE receipt'[r] = receipt[r]
    <3>1. Answered(receipt[r])
      BY <2>1 DEF LedgerInv
    <3> QED BY <1>5, <2>1, <3>1 DEF Answered
  <2>2. CASE receipt'[r] = n
    BY <1>5, <1>8, <2>2
  <2> QED BY <1>13, <2>1, <2>2
<1>19. AnswersAnchored'
  <2> SUFFICES ASSUME NEW a \in answers \cup {said}
               PROVE  /\ a.sequence \in 1..Len(commits)
                      /\ commits[a.sequence] = [receipt |-> a.receipt, previous |-> a.previous]
                      /\ Earlier(a.previous, a.sequence)
    BY <1>5 DEF AnswersAnchored, Earlier
  <2> QED BY <1>1, <1>8 DEF AnswersAnchored
<1>20. Local'
  BY <1>1, <1>5 DEF Local, Known
<1> QED BY <1>11, <1>12, <1>17, <1>18, <1>19, <1>20 DEF LedgerInv

LEMMA LedgerStays ==
    ASSUME LedgerInv, UNCHANGED <<commits, focusMd, remote, caller, answers, calls, receipt>>
    PROVE  LedgerInv'
BY DEF LedgerInv, LedgerShapes, Fits, Earlier, RowsApart, Answered, AnswersAnchored, Local, Known

LEMMA FocusCrashKeeps ==
    ASSUME LedgerInv, Focus!Crash, UNCHANGED receipt PROVE LedgerInv'
<1>1. LedgerShapes /\ Local
  BY DEF LedgerInv
<1>2. PICK c : c = Focus!Idle
  OBVIOUS
<1>3. /\ caller' = [t \in Stagers |-> c]
      /\ UNCHANGED <<commits, focusMd, remote, answers, calls>>
  BY <1>2 DEF Focus!Crash, Focus!durable, Stagers
<1>4. c \in StageCalls /\ c.pc = "idle"
  BY <1>2, IdleCall
<1>5. LedgerShapes'
  BY <1>1, <1>3, <1>4 DEF LedgerShapes
<1>6. \A t \in Stagers : caller'[t].pc = "idle"
  BY <1>3, <1>4
<1>7. \A t \in Stagers : Fits(caller[t])'
  BY <1>6 DEF Fits, Past
<1>8. RowsApart'
  BY <1>6 DEF LedgerInv, RowsApart, Past
<1>9. (\A r \in Runs : receipt[r] # 0 => Answered(receipt[r]))'
  BY <1>3 DEF LedgerInv, Answered
<1>10. AnswersAnchored'
  BY <1>3 DEF LedgerInv, AnswersAnchored, Earlier
<1>11. Local'
  BY <1>1, <1>3 DEF Local, Known
<1> QED BY <1>5, <1>7, <1>8, <1>9, <1>10, <1>11 DEF LedgerInv

LEMMA LedgerInit == Focus!Init /\ receipt = [r \in Runs |-> 0] => LedgerInv
<1> SUFFICES ASSUME Focus!Init, receipt = [r \in Runs |-> 0] PROVE LedgerInv
  OBVIOUS
<1>1. PICK c : c = Focus!Idle
  OBVIOUS
<1>2. /\ commits = <<>> /\ focusMd = 0 /\ remote = [added |-> {}, archived |-> {}]
      /\ caller = [t \in Stagers |-> c] /\ answers = {} /\ calls = 0
  BY <1>1 DEF Focus!Init, Stagers
<1>3. c \in StageCalls /\ c.pc = "idle" /\ MaxCalls \in Nat
  BY <1>1, IdleCall, LedgerBounds
<1>4. LedgerShapes
  BY <1>2, <1>3, EmptySeq DEF LedgerShapes
<1>5. \A t \in Stagers : caller[t].pc = "idle"
  BY <1>2, <1>3
<1>6. \A r \in Runs : receipt[r] = 0
  OBVIOUS
<1>7. (\A t \in Stagers : Fits(caller[t])) /\ RowsApart
  BY <1>5, <1>6 DEF Fits, Past, RowsApart
<1>8. AnswersAnchored /\ Local
  BY <1>2 DEF AnswersAnchored, Local
<1> QED BY <1>4, <1>6, <1>7, <1>8 DEF LedgerInv

\* Every step of a call.
LEMMA StepKeeps ==
    ASSUME LedgerInv, NEW t \in Stagers, UNCHANGED receipt,
           Focus!Step(t) \/ \E sync \in BOOLEAN : Focus!Call(t, sync)
    PROVE  LedgerInv'
BY CallKeeps, ReadKeeps, InsertKeeps, ProjectKeeps, AddKeeps, ArchiveKeeps, AnsweredKeeps,
   RaisedKeeps DEF Focus!Step

-----------------------------------------------------------------------------
(* The composition.                                                        *)

\* The record of a role that completed comes with a receipt, and a run's call into the
\* ledger is under way only while its thread waits for the agent.
Committed(r) ==
    Agrees(memory[r]) \/ Agrees(disk[r]) \/ Agrees(served[r])
        \/ (At(r, "called") /\ Role(r) = Agent) => receipt[r] # 0
CallsInMemory == \A r \in Runs : InMemory(r) => At(r, "call") /\ Role(r) = Agent

ComposedInv ==
    /\ RunInv
    /\ LedgerInv
    /\ \A r \in Runs : Committed(r)
    /\ CallsInMemory

\* The runs, when the ledger's step is none of theirs.
LEMMA OthersKeep ==
    ASSUME ComposedInv, RunsStay, UNCHANGED receipt,
           \A r \in Runs : caller'[r].pc # "idle" => caller[r].pc # "idle"
    PROVE  (\A r \in Runs : Committed(r))' /\ CallsInMemory'
<1>1. memory' = memory /\ disk' = disk /\ served' = served /\ thread' = thread
      /\ receipt' = receipt
  BY DEF RunsStay
<1>2. (\A r \in Runs : Committed(r))'
  BY <1>1 DEF ComposedInv, Committed, Agrees, At, Role
<1>3. CallsInMemory'
  BY <1>1 DEF ComposedInv, CallsInMemory, InMemory, At, Role
<1> QED BY <1>2, <1>3

LEMMA FailuresCount ==
    ASSUME RunShapes,
           failures' = failures \/ failures' = failures + 1
    PROVE  failures' \in Nat /\ (failures' = 0 => failures = 0)
BY DEF RunShapes

\* One thread moves, and the records stay.
LEMMA MovedKeeps ==
    ASSUME ComposedInv, NEW r \in Runs, NEW next,
           thread' = [thread EXCEPT ![r] = next],
           UNCHANGED <<memory, disk, served>>,
           \A q \in Runs : receipt[q] # 0 => receipt'[q] # 0,
           \A q \in Runs : caller'[q].pc # "idle" => q # r /\ caller[q].pc # "idle",
           next.pc = "called" /\ ROLE_ORDER[next.role] = Agent => receipt'[r] # 0
    PROVE  (\A q \in Runs : Committed(q))' /\ CallsInMemory'
<1>1. thread'[r] = next /\ \A q \in Runs \ {r} : thread'[q] = thread[q]
  BY DEF ComposedInv, RunInv, RunShapes
<1>2. (\A q \in Runs : Committed(q))'
  <2> SUFFICES ASSUME NEW q \in Runs PROVE Committed(q)'
    OBVIOUS
  <2>1. Committed(q)
    BY DEF ComposedInv
  <2>2. /\ Agrees(memory[q])' <=> Agrees(memory[q])
        /\ Agrees(disk[q])' <=> Agrees(disk[q])
        /\ Agrees(served[q])' <=> Agrees(served[q])
    BY DEF Agrees
  <2>3. CASE q = r
    BY <1>1, <2>1, <2>2, <2>3 DEF Committed, At, Role
  <2>4. CASE q # r
    <3>1. thread'[q] = thread[q]
      BY <1>1, <2>4
    <3> QED BY <2>1, <2>2, <3>1 DEF Committed, At, Role
  <2> QED BY <2>3, <2>4
<1>3. CallsInMemory'
  BY <1>1 DEF ComposedInv, CallsInMemory, InMemory, At, Role
<1> QED BY <1>2, <1>3

\* A step of a run that saves: the agent's role completes only when it was answered.
LEMMA SavingKeeps ==
    ASSUME ComposedInv, NEW r \in Runs, SavingStep(r), UNCHANGED <<focusVars, receipt>>
    PROVE  ComposedInv'
<1>1. RunInv /\ RunShapes /\ LedgerInv /\ CallsInMemory
  BY DEF ComposedInv, RunInv
<1>2. /\ caller' = caller /\ receipt' = receipt
      /\ UNCHANGED <<commits, focusMd, remote, caller, answers, calls, receipt>>
  BY DEF focusVars
<1>3. LedgerInv'
  BY <1>1, <1>2, LedgerStays
<1>4. CASE Raise(r) /\ thread[r].pc \in {"verify", "compile"}
  <2>1. /\ thread' = [thread EXCEPT ![r] = Failing(r)] /\ Goto(r, Failing(r))
        /\ UNCHANGED <<memory, disk, served>> /\ failures' = failures
    BY <1>4 DEF Raise, Goto
  <2>2. Failing(r).pc = "fail"
    BY <1>1, FailingThread
  <2>3. RunInv'
    BY <1>1, <1>4, <2>1, FailuresCount, RaiseKeeps DEF Working
  <2>4. caller[r].pc = "idle"
    BY <1>1, <1>4 DEF CallsInMemory, InMemory, At
  <2>5. (\A q \in Runs : Committed(q))' /\ CallsInMemory'
    BY <1>2, <2>1, <2>2, <2>4, MovedKeeps
  <2> QED BY <1>3, <2>3, <2>5 DEF ComposedInv
<1>5. ASSUME NEW run \in RunRecords, NEW next \in RunThreads, NEW raised \in RunThreads,
             Block(r, run, next, raised)
      PROVE  ComposedInv'
  <2>1. RunInv'
    BY <1>1, <1>5, BlockKeeps
  <2>2. /\ memory' = [memory EXCEPT ![r] = run] /\ served' = served
        /\ disk' = disk \/ disk' = [disk EXCEPT ![r] = run]
        /\ thread' = [thread EXCEPT ![r] = next] \/ thread' = [thread EXCEPT ![r] = raised]
    BY <1>5 DEF Block, Persist, Stored, Goto
  <2>3. /\ memory'[r] = run /\ \A q \in Runs \ {r} : memory'[q] = memory[q]
        /\ \A q \in Runs : disk'[q] = disk[q] \/ (q = r /\ disk'[q] = run)
        /\ \A q \in Runs \ {r} : thread'[q] = thread[q]
        /\ thread'[r] \in {next, raised}
    BY <1>1, <2>2 DEF RunShapes
  <2>4. thread'[r].pc # "called" /\ caller[r].pc = "idle"
    BY <1>1, <1>5, <2>3 DEF Block, CallsInMemory, InMemory, At
  <2>5. Agrees(run) => receipt[r] # 0
    BY <1>5 DEF Block, ComposedInv, Committed
  <2>6. (\A q \in Runs : Committed(q))'
    <3> SUFFICES ASSUME NEW q \in Runs PROVE Committed(q)'
      OBVIOUS
    <3>1. Committed(q)
      BY DEF ComposedInv
    <3>2. CASE q # r
      <4>1. memory'[q] = memory[q] /\ disk'[q] = disk[q] /\ served'[q] = served[q]
            /\ thread'[q] = thread[q]
        BY <2>2, <2>3, <3>2
      <4> QED BY <1>2, <3>1, <4>1 DEF Committed, Agrees, At, Role
    <3>3. CASE q = r
      <4>1. memory'[r] = run /\ disk'[r] \in {disk[r], run} /\ served'[r] = served[r]
        BY <2>2, <2>3
      <4>2. /\ Agrees(memory[r])' => Agrees(run)
            /\ Agrees(disk[r])' => Agrees(disk[r]) \/ Agrees(run)
            /\ Agrees(served[r])' => Agrees(served[r])
        BY <4>1 DEF Agrees
      <4> QED BY <1>2, <2>4, <2>5, <3>1, <3>3, <4>2 DEF Committed, At
    <3> QED BY <3>2, <3>3
  <2>7. CallsInMemory'
    BY <1>1, <1>2, <2>3, <2>4 DEF CallsInMemory, InMemory, At, Role
  <2> QED BY <1>3, <2>1, <2>6, <2>7 DEF ComposedInv
<1> QED BY <1>1, <1>4, <1>5, SavingBlock

\* The model answers or fails, for another role or before the commit.
LEMMA CallKeepsAll ==
    ASSUME ComposedInv, NEW r \in Runs, CallRole(r), ~InMemory(r),
           At(r, "call") /\ Role(r) = Agent => ~ thread'[r].pc = "called",
           UNCHANGED <<focusVars, receipt>>
    PROVE  ComposedInv'
<1>1. RunInv /\ RunShapes /\ LedgerInv /\ CallsInMemory
  BY DEF ComposedInv, RunInv
<1>2. /\ caller' = caller /\ receipt' = receipt
      /\ UNCHANGED <<commits, focusMd, remote, caller, answers, calls, receipt>>
  BY DEF focusVars
<1>3. LedgerInv' /\ RunInv'
  BY <1>1, <1>2, LedgerStays, CallRoleKeeps
<1>4. PICK next : /\ thread' = [thread EXCEPT ![r] = next]
                  /\ next.role = thread[r].role
                  /\ UNCHANGED <<memory, disk, served>>
  <2>1. CASE Goto(r, Failing(r)) /\ UNCHANGED <<memory, disk, served, failures, crashes>>
    <3>1. Failing(r).role = thread[r].role
      BY <1>1 DEF RunShapes, RunThreads, Failing
    <3> QED BY <2>1, <3>1 DEF Goto
  <2>2. CASE /\ Goto(r, Thread("call", thread[r].role, 2))
             /\ UNCHANGED <<memory, disk, served, failures, crashes>>
    <3>1. Thread("call", thread[r].role, 2).role = thread[r].role
      BY DEF Thread
    <3> QED BY <2>2, <3>1 DEF Goto
  <2>3. CASE /\ Goto(r, [thread[r] EXCEPT !.pc = "called"])
             /\ UNCHANGED <<memory, disk, served, failures, crashes>>
    <3>1. [thread[r] EXCEPT !.pc = "called"].role = thread[r].role
      BY <1>1 DEF RunShapes, RunThreads
    <3> QED BY <2>3, <3>1 DEF Goto
  <2> QED BY <2>1, <2>2, <2>3 DEF CallRole, Raise
<1>5. thread'[r] = next /\ At(r, "call")
  BY <1>1, <1>4 DEF RunShapes, CallRole
<1>6. ~(next.pc = "called" /\ ROLE_ORDER[next.role] = Agent)
  BY <1>4, <1>5 DEF Role
<1>7. \A q \in Runs : caller'[q].pc # "idle" => q # r /\ caller[q].pc # "idle"
  BY <1>2 DEF InMemory
<1>8. (\A q \in Runs : Committed(q))' /\ CallsInMemory'
  BY <1>2, <1>4, <1>6, <1>7, MovedKeeps
<1> QED BY <1>3, <1>8 DEF ComposedInv

LEMMA GetKeepsAll ==
    ASSUME ComposedInv, NEW r \in Runs, Get(r), UNCHANGED <<focusVars, receipt>>
    PROVE  ComposedInv'
<1>1. RunInv /\ RunShapes /\ LedgerInv /\ CallsInMemory
  BY DEF ComposedInv, RunInv
<1>2. /\ caller' = caller /\ receipt' = receipt /\ disk' = disk /\ thread' = thread
      /\ UNCHANGED <<commits, focusMd, remote, caller, answers, calls, receipt>>
  BY DEF focusVars, Get
<1>3. LedgerInv' /\ RunInv'
  BY <1>1, <1>2, LedgerStays, GetKeeps
<1>4. \A q \in Runs : /\ memory'[q] \in {memory[q], disk[q]}
                      /\ served'[q] \in {served[q], memory[q], disk[q]}
  BY <1>1 DEF RunShapes, Get
<1>5. (\A q \in Runs : Committed(q))'
  <2> SUFFICES ASSUME NEW q \in Runs PROVE Committed(q)'
    OBVIOUS
  <2>1. Committed(q) /\ disk'[q] = disk[q] /\ thread'[q] = thread[q]
    BY <1>2 DEF ComposedInv
  <2>2. /\ Agrees(memory[q])' => Agrees(memory[q]) \/ Agrees(disk[q])
        /\ Agrees(disk[q])' => Agrees(disk[q])
        /\ Agrees(served[q])' => Agrees(served[q]) \/ Agrees(memory[q]) \/ Agrees(disk[q])
    BY <1>4, <2>1 DEF Agrees
  <2> QED BY <1>2, <2>1, <2>2 DEF Committed, At, Role
<1>6. CallsInMemory'
  BY <1>1, <1>2 DEF CallsInMemory, InMemory, At, Role
<1> QED BY <1>3, <1>5, <1>6 DEF ComposedInv

LEMMA RunStepKeeps ==
    ASSUME ComposedInv, NEW r \in Runs, RunStep(r) PROVE ComposedInv'
BY SavingKeeps, CallKeepsAll, GetKeepsAll DEF RunStep, SavingStep

\* The agent's model has answered: the run's call begins.
LEMMA CompactKeeps ==
    ASSUME ComposedInv, NEW r \in Runs, CompactRole(r) PROVE ComposedInv'
<1>1. /\ RunInv /\ RunShapes /\ LedgerInv /\ LedgerShapes /\ CallsInMemory
      /\ At(r, "call") /\ Role(r) = Agent /\ RunsStay /\ receipt' = receipt
      /\ Focus!Call(r, FALSE) /\ r \in Stagers
  BY DEF ComposedInv, RunInv, LedgerInv, CompactRole, Stagers
<1>2. LedgerInv'
  BY <1>1, CallKeeps
<1>3. failures' = failures
      /\ caller' = [caller EXCEPT ![r] = [Focus!Idle EXCEPT !.pc = "read", !.call = calls + 1,
                                                            !.sync = FALSE]]
  BY <1>1 DEF Focus!Call
<1>4. RunInv'
  BY <1>1, <1>3, FailuresCount, RunsStayKeeps
<1>5. memory' = memory /\ disk' = disk /\ served' = served /\ thread' = thread
  BY <1>1 DEF RunsStay
<1>6. (\A q \in Runs : Committed(q))'
  BY <1>1, <1>5 DEF ComposedInv, Committed, Agrees, At, Role
<1>7. \A q \in Runs \ {r} : caller'[q] = caller[q]
  BY <1>1, <1>3 DEF LedgerShapes, Stagers
<1>8. CallsInMemory'
  BY <1>1, <1>5, <1>7 DEF CallsInMemory, InMemory, At, Role
<1> QED BY <1>2, <1>4, <1>6, <1>8 DEF ComposedInv

\* Only the caller of t moves in its step, and t's own call goes on or ends.
LEMMA CallOf ==
    ASSUME LedgerShapes, NEW t \in Stagers, Focus!Step(t)
    PROVE  /\ \A u \in Stagers \ {t} : caller'[u] = caller[u]
           /\ caller[t].pc # "idle"
           /\ Focus!Answer(t) \/ Focus!Raise(t) => caller'[t].pc = "idle"
<1>1. PICK c : caller' = [caller EXCEPT ![t] = c]
  <2>1. caller[t] \in StageCalls
    BY DEF LedgerShapes
  <2>2. CASE Focus!ReadPrevious(t)
    <3>1. caller' = [caller EXCEPT ![t] = [caller[t] EXCEPT !.pc = "insert",
                                                            !.previous = Focus!LastReceipt]]
      BY <2>1, <2>2 DEF Focus!ReadPrevious, LedgerShapes
    <3> QED BY <3>1
  <2>3. CASE Focus!Insert(t)
    <3>1. caller' = [caller EXCEPT ![t] = [caller[t] EXCEPT !.pc = "project",
                        !.previous = Focus!Previous(t), !.sequence = Focus!Rowid(t)]]
      BY <2>1, <2>3 DEF Focus!Insert, LedgerShapes
    <3> QED BY <3>1
  <2>4. ASSUME NEW pc, Focus!Goto(t, pc)
        PROVE  \E c : caller' = [caller EXCEPT ![t] = c]
    <3>1. caller' = [caller EXCEPT ![t] = [caller[t] EXCEPT !.pc = pc]]
      BY <2>1, <2>4 DEF Focus!Goto, LedgerShapes
    <3> QED BY <3>1
  <2>5. CASE Focus!Project(t)
    BY <2>4, <2>5 DEF Focus!Project
  <2>6. CASE Focus!ConversationAdd(t)
    BY <2>4, <2>6 DEF Focus!ConversationAdd
  <2>7. CASE Focus!ForceArchive(t)
    BY <2>4, <2>7 DEF Focus!ForceArchive
  <2>8. CASE Focus!Answer(t)
    BY <2>8 DEF Focus!Answer
  <2>9. CASE Focus!Raise(t)
    BY <2>9 DEF Focus!Raise
  <2> QED BY <2>2, <2>3, <2>5, <2>6, <2>7, <2>8, <2>9 DEF Focus!Step
<1>2. \A u \in Stagers \ {t} : caller'[u] = caller[u]
  BY <1>1 DEF LedgerShapes
<1>3. caller[t].pc # "idle"
  BY DEF Focus!Step, Focus!ReadPrevious, Focus!Insert, Focus!Project, Focus!ConversationAdd,
         Focus!ForceArchive, Focus!Answer, Focus!Raise, Focus!At
<1>4. Focus!Answer(t) \/ Focus!Raise(t) => caller'[t].pc = "idle"
  <2>1. PICK ended : ended = Focus!Idle
    OBVIOUS
  <2>2. Focus!Answer(t) \/ Focus!Raise(t) => caller' = [caller EXCEPT ![t] = ended]
    BY <2>1 DEF Focus!Answer, Focus!Raise
  <2>3. ended.pc = "idle"
    BY <2>1, IdleCall
  <2> QED BY <2>2, <2>3 DEF LedgerShapes
<1> QED BY <1>2, <1>3, <1>4

LEMMA FailuresOf ==
    ASSUME NEW t \in Stagers, Focus!Step(t) \/ \E sync \in BOOLEAN : Focus!Call(t, sync)
    PROVE  failures' = failures \/ failures' = failures + 1
BY DEF Focus!Step, Focus!ReadPrevious, Focus!Insert, Focus!Project, Focus!ConversationAdd,
       Focus!ForceArchive, Focus!Answer, Focus!Raise, Focus!Call, Focus!Stay

\* The run's call goes on, raises or is answered.
LEMMA MemoryStepKeeps ==
    ASSUME ComposedInv, NEW r \in Runs, MemoryStep(r) PROVE ComposedInv'
<1>1. /\ RunInv /\ RunShapes /\ LedgerInv /\ LedgerShapes /\ CallsInMemory
      /\ thread[r].pc = "call" /\ Role(r) = Agent /\ r \in Stagers
      /\ thread[r] \in RunThreads
  BY DEF ComposedInv, RunInv, RunShapes, LedgerInv, CallsInMemory, MemoryStep, Stagers, At
<1>2. Focus!Step(r)
  BY DEF MemoryStep, Focus!Step
<1>3. /\ \A u \in Stagers \ {r} : caller'[u] = caller[u]
      /\ caller[r].pc # "idle"
      /\ Focus!Answer(r) \/ Focus!Raise(r) => caller'[r].pc = "idle"
  BY <1>1, <1>2, CallOf
<1>4. failures' \in Nat /\ (failures' = 0 => failures = 0)
  BY <1>1, <1>2, FailuresOf, FailuresCount
<1>5. \A q \in Runs \ {r} : caller'[q] = caller[q]
  BY <1>3 DEF Stagers
<1>6. CASE /\ Focus!ReadPrevious(r) \/ Focus!Insert(r) \/ Focus!Project(r)
           /\ RunsStay /\ UNCHANGED receipt
  <2>1. LedgerInv' /\ RunInv'
    BY <1>1, <1>2, <1>4, <1>6, StepKeeps, RunsStayKeeps
  <2>2. \A q \in Runs : caller'[q].pc # "idle" => caller[q].pc # "idle"
    BY <1>3, <1>5
  <2>3. (\A q \in Runs : Committed(q))' /\ CallsInMemory'
    BY <1>6, <2>2, OthersKeep
  <2> QED BY <2>1, <2>3 DEF ComposedInv
<1>7. CASE /\ Focus!Raise(r) /\ Goto(r, Raised(r))
           /\ UNCHANGED <<memory, disk, served, receipt>>
  <2>1. thread' = [thread EXCEPT ![r] = Failing(r)] /\ Goto(r, Failing(r))
    BY <1>7 DEF Goto, Raised
  <2>2. LedgerInv' /\ RunInv'
    BY <1>1, <1>2, <1>4, <1>7, <2>1, StepKeeps, RaiseKeeps DEF Working
  <2>3. Failing(r).pc = "fail"
    BY <1>1, FailingThread
  <2>4. \A q \in Runs : caller'[q].pc # "idle" => q # r /\ caller[q].pc # "idle"
    BY <1>3, <1>5, <1>7
  <2>5. (\A q \in Runs : Committed(q))' /\ CallsInMemory'
    BY <1>7, <2>1, <2>3, <2>4, MovedKeeps
  <2> QED BY <2>2, <2>5 DEF ComposedInv
<1>8. CASE /\ Focus!Answer(r)
           /\ receipt' = [receipt EXCEPT ![r] = caller[r].sequence]
           /\ Goto(r, [thread[r] EXCEPT !.pc = "called"])
           /\ UNCHANGED <<memory, disk, served>>
  <2>1. PICK next : next = [thread[r] EXCEPT !.pc = "called"]
    OBVIOUS
  <2>2. next \in RunThreads /\ next.pc = "called" /\ next.role = thread[r].role
    BY <1>1, <2>1 DEF RunThreads, Pcs, Working
  <2>3. thread' = [thread EXCEPT ![r] = next] /\ Goto(r, next)
    BY <1>8, <2>1 DEF Goto
  <2>4. failures' = failures
    BY <1>8 DEF Focus!Answer
  <2>5. RunInv'
    BY <1>1, <1>8, <2>2, <2>3, <2>4, AnswerKeeps DEF At
  <2>6. LedgerInv'
    BY <1>1, <1>8, AnsweredKeeps
  <2>7. caller[r].sequence \in 1..Len(commits) /\ caller[r].sequence # 0
    <3>1. caller[r].pc = "answer" /\ Fits(caller[r])
      BY <1>1, <1>8 DEF LedgerInv, Focus!Answer, Focus!At
    <3>2. caller[r].sequence \in 1..Len(commits)
      BY <3>1 DEF Fits, Past
    <3>3. Len(commits) \in Nat
      BY <1>1 DEF LedgerShapes
    <3> QED BY <3>2, <3>3
  <2>8. receipt'[r] # 0 /\ \A q \in Runs : receipt[q] # 0 => receipt'[q] # 0
    BY <1>1, <1>8, <2>7 DEF LedgerShapes
  <2>9. \A q \in Runs : caller'[q].pc # "idle" => q # r /\ caller[q].pc # "idle"
    BY <1>3, <1>5, <1>8
  <2>10. (\A q \in Runs : Committed(q))' /\ CallsInMemory'
    BY <1>8, <2>3, <2>8, <2>9, MovedKeeps
  <2> QED BY <2>5, <2>6, <2>10 DEF ComposedInv
<1> QED BY <1>6, <1>7, <1>8 DEF MemoryStep

\* Requests leave the runs alone.
LEMMA ClientKeeps ==
    ASSUME ComposedInv, NEW t \in Clients, ClientStep(t) PROVE ComposedInv'
<1>1. /\ RunInv /\ RunShapes /\ LedgerInv /\ LedgerShapes /\ t \in Stagers
      /\ RunsStay /\ UNCHANGED receipt
      /\ Focus!Step(t) \/ \E sync \in BOOLEAN : Focus!Call(t, sync)
  BY DEF ComposedInv, RunInv, LedgerInv, ClientStep, Stagers
<1>2. LedgerInv'
  BY <1>1, StepKeeps
<1>3. RunInv'
  BY <1>1, FailuresOf, FailuresCount, RunsStayKeeps
<1>4. \A u \in Stagers \ {t} : caller'[u] = caller[u]
  <2>1. CASE Focus!Step(t)
    BY <1>1, <2>1, CallOf
  <2>2. ASSUME NEW sync \in BOOLEAN, Focus!Call(t, sync)
        PROVE  \A u \in Stagers \ {t} : caller'[u] = caller[u]
    BY <1>1, <2>2 DEF Focus!Call, LedgerShapes
  <2> QED BY <1>1, <2>1, <2>2
<1>5. \A r \in Runs : caller'[r] = caller[r]
  BY <1>4, AgentMemory DEF Stagers
<1>6. (\A r \in Runs : Committed(r))' /\ CallsInMemory'
  BY <1>1, <1>5, OthersKeep
<1> QED BY <1>2, <1>3, <1>6 DEF ComposedInv

LEMMA RestartKeeps == ComposedInv /\ Restart => ComposedInv'
<1> SUFFICES ASSUME ComposedInv, Restart PROVE ComposedInv'
  OBVIOUS
<1>1. RunInv /\ RunShapes /\ LedgerInv /\ Crash /\ Focus!Crash /\ receipt' = receipt
  BY DEF ComposedInv, RunInv, Restart
<1>2. RunInv' /\ LedgerInv'
  BY <1>1, CrashKeeps, FocusCrashKeeps
<1>3. /\ memory' = [r \in Runs |-> Absent] /\ disk' = disk /\ served' = served
      /\ thread' = [r \in Runs |-> IF thread[r].pc \in {"none", "unknown"} THEN thread[r]
                                   ELSE Dead]
  BY <1>1 DEF Crash
<1>4. \A r \in Runs : memory'[r] = Absent /\ thread'[r].pc # "called"
  BY <1>3 DEF Dead, Thread
<1>5. (\A r \in Runs : Committed(r))'
  BY <1>1, <1>3, <1>4 DEF ComposedInv, Committed, Agrees, At
<1>6. \A r \in Runs : caller'[r].pc = "idle"
  BY <1>1, IdleCall DEF Focus!Crash
<1>7. CallsInMemory'
  BY <1>6 DEF CallsInMemory, InMemory
<1> QED BY <1>2, <1>5, <1>7 DEF ComposedInv

LEMMA ComposedStays == ComposedInv /\ UNCHANGED composed => ComposedInv'
<1> SUFFICES ASSUME ComposedInv, UNCHANGED composed PROVE ComposedInv'
  OBVIOUS
<1>1. /\ UNCHANGED <<memory, disk, thread, served, failures>>
      /\ UNCHANGED <<commits, focusMd, remote, caller, answers, calls, receipt>>
  BY DEF composed, vars, focusVars
<1>2. RunInv' /\ LedgerInv'
  BY <1>1, LedgerStays DEF ComposedInv, RunInv, RunShapes, DecisionJustified, Saved, At
<1>3. (\A r \in Runs : Committed(r))' /\ CallsInMemory'
  BY <1>1 DEF ComposedInv, Committed, CallsInMemory, InMemory, Agrees, At, Role
<1> QED BY <1>2, <1>3 DEF ComposedInv

LEMMA ComposedKeeps == ComposedInv /\ [ComposedNext]_composed => ComposedInv'
BY RunStepKeeps, CompactKeeps, MemoryStepKeeps, ClientKeeps, RestartKeeps, ComposedStays
   DEF ComposedNext

LEMMA ComposedStarts == ComposedInit => ComposedInv
<1> SUFFICES ASSUME ComposedInit PROVE ComposedInv
  OBVIOUS
<1>1. RunInv /\ LedgerInv
  BY RunInit, LedgerInit DEF ComposedInit
<1>2. \A r \in Runs : /\ memory[r] = Absent /\ disk[r] = Absent /\ served[r] = Absent
                      /\ thread[r].pc = "none"
  BY DEF ComposedInit, Init, Thread
<1>3. \A r \in Runs : caller[r].pc = "idle"
  BY IdleCall DEF ComposedInit, Focus!Init
<1> QED BY <1>1, <1>2, <1>3 DEF ComposedInv, Committed, CallsInMemory, InMemory, Agrees, At

LEMMA AlwaysComposed == ComposedSpec => []ComposedInv
BY ComposedStarts, ComposedKeeps, PTL DEF ComposedSpec

-----------------------------------------------------------------------------
(* Theorems.                                                               *)

LEMMA CommittedFollows == ComposedInv => CompletedIsCommitted
<1> SUFFICES ASSUME ComposedInv, NEW r \in Runs,
                    NEW run \in {memory[r], disk[r], served[r]} \ {Absent},
                    run.roles[Agent] = "completed"
             PROVE  /\ receipt[r] \in DOMAIN commits
                    /\ \A q \in Runs \ {r} : receipt[q] # receipt[r]
                    /\ \E a \in answers : a.sequence = receipt[r]
                                          /\ a.receipt = commits[receipt[r]].receipt
  BY DEF CompletedIsCommitted
<1>1. receipt[r] # 0
  BY DEF ComposedInv, Committed, Agrees
<1>2. Answered(receipt[r]) /\ LedgerShapes /\ RowsApart
  BY <1>1 DEF ComposedInv, LedgerInv
<1>3. DOMAIN commits = 1..Len(commits)
  BY <1>2, LenProperties DEF LedgerShapes
<1> QED BY <1>1, <1>2, <1>3 DEF Answered, RowsApart

LEMMA AnchoredFollows == ComposedInv => ReceiptsAnchored
<1> SUFFICES ASSUME ComposedInv PROVE ReceiptsAnchored
  OBVIOUS
<1>1. LedgerInv /\ LedgerShapes /\ AnswersAnchored /\ Local
  BY DEF ComposedInv, LedgerInv
<1>2. DOMAIN commits = 1..Len(commits)
  BY <1>1, LenProperties DEF LedgerShapes
<1>3. \A i \in DOMAIN commits : commits[i] \in Rows
  BY <1>1, <1>2, ElementOfSeq DEF LedgerShapes
<1>4. \A t \in Stagers : caller[t].pc \in {"project", "add", "archive", "answer"} =>
         /\ caller[t].sequence \in DOMAIN commits
         /\ commits[caller[t].sequence].receipt = caller[t].call
  <2> SUFFICES ASSUME NEW t \in Stagers, caller[t].pc \in {"project", "add", "archive", "answer"}
               PROVE  /\ caller[t].sequence \in DOMAIN commits
                      /\ commits[caller[t].sequence].receipt = caller[t].call
    OBVIOUS
  <2>1. Fits(caller[t]) /\ caller[t].pc \in Past
    BY <1>1 DEF LedgerInv, Past
  <2>2. /\ caller[t].sequence \in 1..Len(commits)
        /\ commits[caller[t].sequence] = [receipt |-> caller[t].call,
                                          previous |-> caller[t].previous]
    BY <2>1 DEF Fits
  <2> QED BY <1>2, <2>2
<1>5. Focus!TypeOK
  BY <1>1, <1>3, <1>4 DEF Focus!TypeOK, LedgerShapes, Rows, Stagers
<1>6. Focus!ReceiptsAnchored
  BY <1>1, <1>2 DEF Focus!ReceiptsAnchored, AnswersAnchored, Earlier, Focus!ZERO_HASH
<1>7. Focus!LocalFirst
  BY <1>1, <1>2 DEF Focus!LocalFirst, Focus!Receipts, Local, Known
<1> QED BY <1>5, <1>6, <1>7 DEF ReceiptsAnchored

LEMMA TypesFollow == ComposedInv => TypeOK
<1> SUFFICES ASSUME ComposedInv, NEW r \in Runs
             PROVE  /\ thread[r].pc \in {"none", "unknown", "queued", "verify", "start", "call",
                                         "called", "compile", "fail", "ended"}
                    /\ thread[r].attempt \in 1..2
                    /\ thread[r].pc \in {"verify", "start", "call", "called", "compile"} =>
                         /\ memory[r].status = "running"
                         /\ {x \in Roles : memory[r].roles[x] = "running"} =
                              IF thread[r].pc \in {"call", "called"} THEN {Role(r)} ELSE {}
  BY DEF TypeOK
<1>1. thread[r] \in RunThreads /\ Suits(memory[r], thread[r])
  BY DEF ComposedInv, RunInv, RunShapes
<1>2. thread[r].pc \in Pcs /\ thread[r].attempt \in 1..2 /\ thread[r].role \in 1..4
  BY <1>1 DEF RunThreads
<1>3. ASSUME thread[r].pc \in Working
      PROVE  /\ memory[r].status = "running"
             /\ {x \in Roles : memory[r].roles[x] = "running"} =
                  IF thread[r].pc \in {"call", "called"} THEN {Role(r)} ELSE {}
  <2>1. Works(memory[r], thread[r])
    BY <1>1, <1>3 DEF Suits
  <2>2. \A j \in 1..4 : memory[r].roles[ROLE_ORDER[j]] = "running" <=>
                          j = thread[r].role /\ thread[r].pc \in {"call", "called"}
    BY <2>1 DEF Works, Standing
  <2>3. \A x \in Roles : memory[r].roles[x] = "running" <=>
                           x = Role(r) /\ thread[r].pc \in {"call", "called"}
    BY <1>2, <2>2, RoleAt DEF Role
  <2>4. Role(r) \in Roles
    BY <1>2, RoleAt DEF Role
  <2> QED BY <2>1, <2>3, <2>4 DEF Works
<1> QED BY <1>2, <1>3 DEF Pcs, Working

\* While no save has failed, a reader's record is replaced by one that goes on from it.
LEMMA ServedGrows ==
    ComposedInv /\ [ComposedNext]_composed
        => [failures' = 0 => \A r \in Runs : IsPrefix(served[r].events, served'[r].events)]_vars
<1> SUFFICES ASSUME ComposedInv, [ComposedNext]_composed, failures' = 0, NEW r \in Runs
             PROVE  IsPrefix(served[r].events, served'[r].events)
  OBVIOUS
<1>1. RunInv /\ RunShapes
  BY DEF ComposedInv, RunInv
<1>2. served[r].events \in Seq(RunEvents)
  BY <1>1, EventsOf DEF RunShapes
<1>3. CASE served' = served
  BY <1>2, <1>3, ContinuesOn
<1>4. ASSUME NEW q \in Runs, Get(q)
      PROVE  IsPrefix(served[r].events, served'[r].events)
  <2>1. failures = 0
    BY <1>4 DEF Get
  <2>2. \A p \in Runs : /\ memory[p] = Absent \/ memory[p] = disk[p]
                        /\ Continues(served[p].events, disk[p].events)
    BY <1>1, <2>1 DEF RunInv, Saved
  <2>3. served' = [served EXCEPT ![q] = disk[q]]
    BY <1>4, <2>2 DEF Get
  <2>4. served'[r] = served[r] \/ served'[r] = disk[r]
    BY <1>1, <2>3 DEF RunShapes
  <2>5. disk[r].events \in Seq(RunEvents)
    BY <1>1, EventsOf DEF RunShapes
  <2> QED BY <1>2, <2>2, <2>4, <2>5, ContinuesOn
<1>5. served' = served \/ \E q \in Runs : Get(q)
  BY DEF ComposedNext, RunStep, CompactRole, MemoryStep, ClientStep, Restart, RunsStay, Create,
         Start, VerifyGateway, StartRole, CallRole, CompleteRole, Compile, Decide, Fail, Raise,
         Persist, Crash, composed, vars
<1> QED BY <1>3, <1>4, <1>5

\* A role that any record of a run calls completed, in memory, in the file or in an
\* operator's hands, has one row of its own in the agent's ledger, and the answer of
\* commit_stage names it: for any runs and requests, failures and restarts (_compact_role).
THEOREM CompletedRolesAreCommitted == ComposedSpec => []CompletedIsCommitted
BY AlwaysComposed, CommittedFollows, PTL

\* What commit_stage answered, sequence, receipt and the receipt before it, is what the
\* ledger keeps, whatever was committed between the SELECT, the INSERT and the answer; and
\* the provider is given no conversation that the ledger does not have.
THEOREM AnswersStayAnchored == ComposedSpec => []ReceiptsAnchored
BY AlwaysComposed, AnchoredFollows, PTL

\* A thread works on the record its block needs, decisions are justified in every copy of
\* a record, and while no save fails what an operator has read of the event chain is never
\* taken back (_persist_locked, get).
THEOREM ExpertRunsHold == ComposedSpec => RunsHold
<1>1. ComposedInv => DecisionJustified
  BY DEF ComposedInv, RunInv
<1>2. ComposedSpec => [](TypeOK /\ DecisionJustified)
  BY <1>1, AlwaysComposed, TypesFollow, PTL
<1>3. ComposedSpec => ServedChainGrows
  BY AlwaysComposed, ServedGrows, PTL DEF ComposedSpec, ServedChainGrows
<1> QED BY <1>2, <1>3, PTL DEF RunsHold

-----------------------------------------------------------------------------
(* Trusted memory: records, events and rows.                               *)

FactRecords == [type : {"fact"}, content : Contents, revision : 1..MaxHistory, closure : Closures]
CandidateRecords == [type : {"candidate"}, content : Contents]
Edges == [type : {"transition"}, content : Contents, revision : 1..MaxHistory,
          from : {"CANDIDATE", "VALIDATED"},
          to : {"VALIDATED", "REJECTED", "QUARANTINED", "CONFLICTED", "EXPIRED", "REVOKED",
                "SUPERSEDED"}]
MoveRecords ==
    {e \in Edges : e.from = "VALIDATED" => e.to \in {"SUPERSEDED", "CONFLICTED", "EXPIRED",
                                                     "REVOKED"}}
    \cup [type : {"supersession", "revocation"}, content : Contents, revision : 1..MaxHistory]
    \cup [type : {"conflict"},
          members : SUBSET [lineage : Lineages, content : Contents, revision : 1..MaxHistory]]
AllRecords == FactRecords \cup CandidateRecords \cup MoveRecords
Hashes == Seq(AllRecords)
EventKeys == {"record", "fact"} \X SUBSET Keys
MemoryEvents == [record : AllRecords, previous_hash : Hashes, event_hash : Hashes, key : EventKeys]

\* A fact is never a candidate again once it is promoted.
Settled == {"VALIDATED", "SUPERSEDED", "CONFLICTED", "EXPIRED", "REVOKED"}
Currents == [eligible : BOOLEAN, fact : FactRecords, state : Settled, fact_event : Hashes,
             projection : Hashes]
StreamRows == [history : Seq(MemoryEvents), root : Hashes, current : Currents \cup {NoFact},
               outbox : Seq(Hashes)]

FactsAt(h) == {i \in 1..Len(h) : IsFact(h[i].record)}
MovesAt(h) == {i \in 1..Len(h) : ~IsCandidate(h[i].record)}
HasLast(places) == places # {} => \E i \in places : \A j \in places : j <= i
HashBefore(h, i) == IF i = 1 THEN ZeroHash ELSE h[i - 1].event_hash

Chained(row) ==
    LET h == row.history
    IN  /\ \A i \in 1..Len(h) : /\ h[i].previous_hash = HashBefore(h, i)
                                /\ h[i].event_hash = EventHash(h[i].previous_hash, h[i].record)
        /\ row.root = HashBefore(h, Len(h) + 1)
        /\ Len(row.outbox) = Len(h)
        /\ \A i \in 1..Len(h) : row.outbox[i] = h[i].event_hash
        /\ \A i, j \in 1..Len(h) : h[i].key = h[j].key => i = j

Rebuilt(h, current) ==
    /\ HasLast(FactsAt(h)) /\ HasLast(MovesAt(h))
    /\ \A i \in FactsAt(h) : h[i].record.revision = Cardinality({j \in FactsAt(h) : j <= i})
    /\ (current = NoFact) = (FactsAt(h) = {})
    /\ \A i \in FactsAt(h) : (\A j \in FactsAt(h) : j <= i) =>
           current.fact = h[i].record /\ current.fact_event = h[i].event_hash
    /\ FactsAt(h) # {} =>
         \A i \in MovesAt(h) : (\A j \in MovesAt(h) : j <= i) =>
             /\ current.projection = h[i].event_hash
             /\ current.eligible = IsFact(h[i].record)

RowInv(row) == /\ row \in StreamRows /\ Len(row.history) <= MaxHistory
               /\ Chained(row) /\ Rebuilt(row.history, row.current)

LEMMA NoFactApart == NoFact \notin Currents
<1>1. "fact" \notin DOMAIN NoFact
  BY DEF NoFact
<1>2. \A c \in Currents : "fact" \in DOMAIN c
  BY DEF Currents
<1> QED BY <1>1, <1>2

LEMMA KindsApart ==
    ASSUME NEW r \in AllRecords
    PROVE  /\ IsFact(r) => r \in FactRecords /\ ~IsCandidate(r)
           /\ ~IsFact(r) /\ ~IsCandidate(r) => r \in MoveRecords
           /\ r \in MoveRecords => ~IsFact(r) /\ ~IsCandidate(r)
           /\ r \in FactRecords => IsFact(r)
BY DEF AllRecords, FactRecords, CandidateRecords, MoveRecords, Edges, IsFact, IsCandidate

LEMMA HistoryBounds == MaxHistory \in Nat \ {0} /\ PageSize \in Nat \ {0}
BY TrustedBounds

LEMMA EmptyRow == RowInv(EmptyStream)
<1>1. EmptyStream.history = <<>> /\ EmptyStream.root = <<>> /\ EmptyStream.current = NoFact
      /\ EmptyStream.outbox = <<>>
  BY DEF EmptyStream, ZeroHash
<1>2. EmptyStream \in StreamRows
  BY EmptySeq DEF EmptyStream, StreamRows, ZeroHash, Hashes
<1>3. Len(EmptyStream.history) = 0 /\ 1..0 = {}
  BY <1>1
<1>4. Chained(EmptyStream)
  BY <1>1, <1>3 DEF Chained, HashBefore, ZeroHash
<1>5. FactsAt(EmptyStream.history) = {} /\ MovesAt(EmptyStream.history) = {}
  BY <1>3 DEF FactsAt, MovesAt
<1>6. Rebuilt(EmptyStream.history, EmptyStream.current)
  BY <1>1, <1>5 DEF Rebuilt, HasLast
<1> QED BY <1>2, <1>3, <1>4, <1>6, HistoryBounds DEF RowInv

\* What an accepted record leaves of the projection.
Moved(r, hash, old, new) ==
    /\ new \in Currents \cup {NoFact}
    /\ IsCandidate(r) => new = old
    /\ IsFact(r) => /\ new \in Currents /\ new.fact = r /\ new.fact_event = hash
                    /\ new.projection = hash /\ new.eligible = TRUE
                    /\ (old = NoFact => r.revision = 1)
                    /\ (old # NoFact => r.revision = old.fact.revision + 1)
    /\ ~IsFact(r) /\ ~IsCandidate(r) =>
                    /\ old # NoFact /\ new \in Currents /\ new.fact = old.fact
                    /\ new.fact_event = old.fact_event
                    /\ new.projection = hash /\ new.eligible = FALSE

\* The projection after a record that the append accepted.
LEMMA ProjectionShape ==
    ASSUME NEW l, NEW r \in AllRecords, NEW current \in Currents \cup {NoFact}, NEW expected,
           NEW hash \in Hashes, Projects(l, r, expected, current)
    PROVE  Moved(r, hash, current, Projection(current, r, hash))
<1> DEFINE new == Projection(current, r, hash)
<1>1. CASE IsCandidate(r)
  <2>1. ~IsFact(r)
    BY <1>1 DEF IsFact, IsCandidate
  <2>2. new = current
    BY <1>1, <2>1 DEF Projection
  <2> QED BY <1>1, <2>1, <2>2 DEF Moved
<1>2. CASE IsFact(r)
  <2>1. ~IsCandidate(r) /\ r \in FactRecords
    BY <1>2, KindsApart
  <2>2. new = [eligible |-> TRUE, fact |-> r, state |-> "VALIDATED",
               fact_event |-> hash, projection |-> hash]
    BY <1>2, <2>1 DEF Projection
  <2>3. new \in Currents
    BY <2>1, <2>2 DEF Currents, Settled
  <2>4. /\ current = NoFact => r.revision = 1
        /\ current # NoFact => r.revision = current.fact.revision + 1
    BY <1>2, <2>1 DEF Projects
  <2> HIDE DEF new
  <2> QED BY <1>2, <2>1, <2>2, <2>3, <2>4 DEF new, Moved
<1>3. CASE ~IsFact(r) /\ ~IsCandidate(r)
  <2>1. r \in MoveRecords
    BY <1>3, KindsApart
  <2>2. current # NoFact /\ ProjectionMatches(l, r, current)
    BY <1>3 DEF Projects
  <2>3. current \in Currents
    BY <2>2
  <2>4. new = [current EXCEPT !.state = ProjectedState(r),
                              !.eligible = (ProjectedState(r) = "VALIDATED"),
                              !.projection = hash]
    BY <1>3 DEF Projection
  <2>5. ProjectedState(r) \in Settled \ {"VALIDATED"}
    <3>1. CASE r.type = "transition"
      <4>1. ProjectedState(r) = r.to
        BY <3>1 DEF ProjectedState
      <4>2. r.from = current.state
        BY <2>2, <3>1 DEF ProjectionMatches
      <4>3. r \in Edges /\ (r.from = "VALIDATED" => r.to \in {"SUPERSEDED", "CONFLICTED",
                                                              "EXPIRED", "REVOKED"})
        BY <2>1, <3>1 DEF MoveRecords
      <4>4. r.from \in {"CANDIDATE", "VALIDATED"} /\ current.state \in Settled
        BY <2>3, <4>3 DEF Edges, Currents
      <4>5. r.from = "VALIDATED"
        BY <4>2, <4>4 DEF Settled
      <4> QED BY <4>1, <4>3, <4>5 DEF Settled
    <3>2. CASE r.type = "conflict"
      BY <3>2 DEF ProjectedState, Settled
    <3>3. CASE r.type = "supersession"
      BY <3>3 DEF ProjectedState, Settled
    <3>4. CASE r.type = "revocation"
      BY <3>4 DEF ProjectedState, Settled
    <3> QED BY <2>1, <3>1, <3>2, <3>3, <3>4 DEF MoveRecords, Edges
  <2>6. new \in Currents /\ new.fact = current.fact /\ new.fact_event = current.fact_event
        /\ new.projection = hash /\ new.eligible = FALSE
    BY <2>3, <2>4, <2>5 DEF Currents
  <2> HIDE DEF new
  <2> QED BY <1>3, <2>2, <2>6 DEF new, Moved
<1> QED BY <1>1, <1>2, <1>3

LEMMA ContinuesAny ==
    ASSUME NEW S
    PROVE  /\ \A a \in Seq(S) : Continues(a, a)
           /\ \A a, b, c \in Seq(S) : Continues(a, b) /\ Continues(b, c) => Continues(a, c)
<1>1. \A a \in Seq(S) : Len(a) \in Nat
  BY LenProperties
<1> QED BY <1>1 DEF Continues

LEMMA FactsFinite ==
    ASSUME NEW h, Len(h) \in Nat
    PROVE  IsFiniteSet(FactsAt(h)) /\ FactsAt(h) \subseteq 1..Len(h) /\ MovesAt(h) \subseteq 1..Len(h)
<1>1. FactsAt(h) \subseteq 1..Len(h) /\ MovesAt(h) \subseteq 1..Len(h)
  BY DEF FactsAt, MovesAt
<1>2. IsFiniteSet(1..Len(h))
  BY FS_Interval
<1> QED BY <1>1, <1>2, FS_Subset

\* An accepted record on a well-formed row leaves a well-formed row that goes on from it.
LEMMA RowGrows ==
    ASSUME NEW row, RowInv(row), NEW r \in AllRecords, NEW key \in EventKeys,
           Keyed(row, key) = {}, Len(row.history) < MaxHistory,
           NEW l, NEW expected, Projects(l, r, expected, row.current)
    PROVE  /\ RowInv(AppendedRow(row, r, key))
           /\ Continues(row.history, AppendedRow(row, r, key).history)
           /\ Len(AppendedRow(row, r, key).history) = Len(row.history) + 1
           /\ AppendedRow(row, r, key).history[Len(row.history) + 1].record = r
<1>1. PICK hash : hash = EventHash(row.root, r)
  OBVIOUS
<1>2. PICK e : e = [record |-> r, previous_hash |-> row.root, event_hash |-> hash, key |-> key]
  OBVIOUS
<1>3. PICK h : h = row.history
  OBVIOUS
<1>4. PICK n : n = Len(h) + 1
  OBVIOUS
<1>5. PICK g : g = Append(h, e)
  OBVIOUS
<1>6. PICK current : current = Projection(row.current, r, hash)
  OBVIOUS
<1>7. PICK outbox : outbox = Append(row.outbox, hash)
  OBVIOUS
<1>8. PICK new : new = [history |-> g, root |-> hash, current |-> current, outbox |-> outbox]
  OBVIOUS
<1>9. AppendedRow(row, r, key) = new
  BY <1>1, <1>2, <1>3, <1>5, <1>6, <1>7, <1>8 DEF AppendedRow
<1>10. /\ row \in StreamRows /\ h \in Seq(MemoryEvents) /\ row.root \in Hashes
       /\ row.current \in Currents \cup {NoFact} /\ row.outbox \in Seq(Hashes)
       /\ Len(h) \in Nat /\ Chained(row) /\ Rebuilt(h, row.current)
  BY <1>3 DEF RowInv, StreamRows
<1>11. hash \in Hashes
  BY <1>1, <1>10, AppendProperties DEF EventHash, Hashes
<1>12. e \in MemoryEvents
  BY <1>2, <1>10, <1>11 DEF MemoryEvents
<1>13. /\ g \in Seq(MemoryEvents) /\ Len(g) = n /\ g[n] = e
       /\ \A i \in 1..Len(h) : g[i] = h[i]
  BY <1>4, <1>5, <1>10, <1>12, AppendProperties
<1>14. /\ outbox \in Seq(Hashes) /\ Len(outbox) = Len(row.outbox) + 1
       /\ outbox[Len(row.outbox) + 1] = hash
       /\ \A i \in 1..Len(row.outbox) : outbox[i] = row.outbox[i]
  BY <1>7, <1>10, <1>11, AppendProperties
<1>15. current \in Currents \cup {NoFact}
  BY <1>6, <1>10, <1>11, ProjectionShape DEF Moved
<1>16. new \in StreamRows
  BY <1>8, <1>11, <1>13, <1>14, <1>15 DEF StreamRows
<1>17. n \in Nat /\ n \in 1..n /\ \A i \in 1..n : i = n \/ i \in 1..Len(h)
  BY <1>4, <1>10
<1>18. \A i \in 1..Len(h) : i \in 1..n /\ i < n /\ ~(n <= i)
  BY <1>4, <1>10
<1>19. new.history = g /\ new.root = hash /\ new.current = current /\ new.outbox = outbox
  BY <1>8
<1>20. Chained(new)
  <2>1. \A i \in 1..n : HashBefore(g, i) = HashBefore(h, i)
    <3> TAKE i \in 1..n
    <3>1. i # 1 => i - 1 \in 1..Len(h)
      BY <1>4, <1>10
    <3> QED BY <1>13, <3>1 DEF HashBefore
  <2>2. row.root = HashBefore(h, n)
    BY <1>3, <1>4, <1>10 DEF Chained
  <2>3. \A i \in 1..n : /\ g[i].previous_hash = HashBefore(g, i)
                        /\ g[i].event_hash = EventHash(g[i].previous_hash, g[i].record)
    <3> TAKE i \in 1..n
    <3>1. CASE i = n
      BY <1>1, <1>2, <1>13, <2>1, <2>2, <3>1
    <3>2. CASE i \in 1..Len(h)
      BY <1>3, <1>10, <1>13, <2>1, <3>2 DEF Chained
    <3> QED BY <1>17, <3>1, <3>2
  <2>4. hash = HashBefore(g, n + 1)
    <3>1. n + 1 # 1 /\ (n + 1) - 1 = n
      BY <1>4, <1>10
    <3> QED BY <1>2, <1>13, <3>1 DEF HashBefore
  <2>5. Len(row.outbox) = Len(h)
    BY <1>3, <1>10 DEF Chained
  <2>6. \A i \in 1..n : outbox[i] = g[i].event_hash
    <3> TAKE i \in 1..n
    <3>1. CASE i = n
      BY <1>2, <1>4, <1>13, <1>14, <2>5, <3>1
    <3>2. CASE i \in 1..Len(h)
      BY <1>3, <1>10, <1>13, <1>14, <2>5, <3>2 DEF Chained
    <3> QED BY <1>17, <3>1, <3>2
  <2>7. \A i \in 1..Len(h) : h[i].key # key
    <3> TAKE i \in 1..Len(h)
    <3>1. h[i] \in ToSet(h)
      BY <1>10 DEF ToSet
    <3> QED BY <1>3, <3>1 DEF Keyed
  <2>8. \A i, j \in 1..n : g[i].key = g[j].key => i = j
    <3> TAKE i, j \in 1..n
    <3>1. CASE i = n /\ j = n
      BY <3>1
    <3>2. CASE i = n /\ j \in 1..Len(h)
      BY <1>2, <1>13, <2>7, <3>2
    <3>3. CASE j = n /\ i \in 1..Len(h)
      BY <1>2, <1>13, <2>7, <3>3
    <3>4. CASE i \in 1..Len(h) /\ j \in 1..Len(h)
      BY <1>3, <1>10, <1>13, <3>4 DEF Chained
    <3> QED BY <1>17, <3>1, <3>2, <3>3, <3>4
  <2>9. Len(outbox) = n
    BY <1>4, <1>14, <2>5
  <2> QED BY <1>13, <1>19, <2>3, <2>4, <2>6, <2>8, <2>9 DEF Chained
<1>21. FactsAt(g) = IF IsFact(r) THEN FactsAt(h) \cup {n} ELSE FactsAt(h)
  BY <1>2, <1>13, <1>17, <1>18 DEF FactsAt
<1>22. MovesAt(g) = IF IsCandidate(r) THEN MovesAt(h) ELSE MovesAt(h) \cup {n}
  BY <1>2, <1>13, <1>17, <1>18 DEF MovesAt
<1>23. FactsAt(h) \subseteq 1..Len(h) /\ MovesAt(h) \subseteq 1..Len(h) /\ IsFiniteSet(FactsAt(h))
  BY <1>10, FactsFinite
<1>24. \A i \in FactsAt(h) \cup MovesAt(h) : g[i] = h[i] /\ i <= n /\ ~(n <= i)
  BY <1>13, <1>18, <1>23
<1>25. n \notin FactsAt(h) /\ n \notin MovesAt(h) /\ g[n].record = r /\ g[n].event_hash = hash
       /\ n <= n
  BY <1>2, <1>13, <1>17, <1>24
<1>26. /\ HasLast(FactsAt(h)) /\ HasLast(MovesAt(h))
       /\ \A i \in FactsAt(h) : h[i].record.revision = Cardinality({j \in FactsAt(h) : j <= i})
       /\ (row.current = NoFact) = (FactsAt(h) = {})
       /\ \A i \in FactsAt(h) : (\A j \in FactsAt(h) : j <= i) =>
              row.current.fact = h[i].record /\ row.current.fact_event = h[i].event_hash
       /\ FactsAt(h) # {} =>
            \A i \in MovesAt(h) : (\A j \in MovesAt(h) : j <= i) =>
                /\ row.current.projection = h[i].event_hash
                /\ row.current.eligible = IsFact(h[i].record)
  BY <1>10 DEF Rebuilt
<1>27. Projects(l, r, expected, row.current)
  OBVIOUS
<1>27a. Moved(r, hash, row.current, current)
  BY <1>6, <1>10, <1>11, <1>27, ProjectionShape
<1>28. Rebuilt(g, current)
  <2>1. CASE IsCandidate(r)
    <3>1. ~IsFact(r)
      BY <2>1 DEF IsFact, IsCandidate
    <3>2. FactsAt(g) = FactsAt(h) /\ MovesAt(g) = MovesAt(h)
      BY <1>21, <1>22, <2>1, <3>1
    <3>3. current = row.current
      BY <1>27a, <2>1 DEF Moved
    <3> QED BY <1>24, <1>26, <3>2, <3>3 DEF Rebuilt
  <2>2. CASE IsFact(r)
    <3>1. ~IsCandidate(r)
      BY <2>2, KindsApart
    <3>2. FactsAt(g) = FactsAt(h) \cup {n} /\ MovesAt(g) = MovesAt(h) \cup {n}
      BY <1>21, <1>22, <2>2, <3>1
    <3>3. /\ current \in Currents /\ current.fact = r /\ current.fact_event = hash
          /\ current.projection = hash /\ current.eligible = TRUE
          /\ row.current = NoFact => r.revision = 1
          /\ row.current # NoFact => r.revision = row.current.fact.revision + 1
      BY <1>27a, <2>2 DEF Moved
    <3>4. HasLast(FactsAt(g)) /\ HasLast(MovesAt(g))
      BY <1>24, <1>25, <3>2 DEF HasLast
    <3>5. Cardinality(FactsAt(g)) = Cardinality(FactsAt(h)) + 1
      BY <1>23, <1>25, <3>2, FS_AddElement
    <3>6. r.revision = Cardinality(FactsAt(g))
      <4>1. CASE row.current = NoFact
        <5>1. FactsAt(h) = {} /\ r.revision = 1
          BY <1>26, <3>3, <4>1
        <5>2. Cardinality(FactsAt(h)) = 0
          BY <5>1, FS_EmptySet
        <5> QED BY <3>5, <5>1, <5>2
      <4>2. CASE row.current # NoFact
        <5>1. PICK i \in FactsAt(h) : \A j \in FactsAt(h) : j <= i
          BY <1>26, <4>2 DEF HasLast
        <5>2. row.current.fact = h[i].record
          BY <1>26, <5>1
        <5>3. {j \in FactsAt(h) : j <= i} = FactsAt(h)
          BY <5>1
        <5>4. h[i].record.revision = Cardinality(FactsAt(h))
          BY <1>26, <5>1, <5>3
        <5> QED BY <3>3, <3>5, <4>2, <5>2, <5>4
      <4> QED BY <4>1, <4>2
    <3>7. \A i \in FactsAt(g) : g[i].record.revision = Cardinality({j \in FactsAt(g) : j <= i})
      <4> TAKE i \in FactsAt(g)
      <4>1. CASE i = n
        <5>1. {j \in FactsAt(g) : j <= n} = FactsAt(g)
          BY <1>24, <1>25, <3>2
        <5> QED BY <1>25, <3>6, <4>1, <5>1
      <4>2. CASE i \in FactsAt(h)
        <5>1. {j \in FactsAt(g) : j <= i} = {j \in FactsAt(h) : j <= i}
          BY <1>24, <3>2, <4>2
        <5> QED BY <1>24, <1>26, <4>2, <5>1
      <4> QED BY <3>2, <4>1, <4>2
    <3>8. current # NoFact /\ FactsAt(g) # {}
      BY <3>2, <3>3, NoFactApart
    <3>9. \A i \in FactsAt(g) : (\A j \in FactsAt(g) : j <= i) => i = n
      BY <1>24, <3>2
    <3>10. \A i \in MovesAt(g) : (\A j \in MovesAt(g) : j <= i) => i = n
      BY <1>24, <3>2
    <3> QED BY <1>25, <2>2, <3>3, <3>4, <3>7, <3>8, <3>9, <3>10 DEF Rebuilt
  <2>3. CASE ~IsFact(r) /\ ~IsCandidate(r)
    <3>1. FactsAt(g) = FactsAt(h) /\ MovesAt(g) = MovesAt(h) \cup {n}
      BY <1>21, <1>22, <2>3
    <3>2. /\ row.current # NoFact /\ current \in Currents
          /\ current.fact = row.current.fact /\ current.fact_event = row.current.fact_event
          /\ current.projection = hash /\ current.eligible = FALSE
      BY <1>27a, <2>3 DEF Moved
    <3>3. HasLast(FactsAt(g)) /\ HasLast(MovesAt(g))
      BY <1>24, <1>25, <1>26, <3>1 DEF HasLast
    <3>4. current # NoFact /\ FactsAt(g) # {}
      BY <1>26, <3>1, <3>2, NoFactApart
    <3>5. \A i \in MovesAt(g) : (\A j \in MovesAt(g) : j <= i) => i = n
      BY <1>24, <3>1
    <3>6. \A i \in FactsAt(g) : /\ g[i] = h[i]
                                /\ g[i].record.revision = Cardinality({j \in FactsAt(g) : j <= i})
                                /\ (\A j \in FactsAt(g) : j <= i) =>
                                     /\ current.fact = g[i].record
                                     /\ current.fact_event = g[i].event_hash
      <4> TAKE i \in FactsAt(g)
      <4>1. g[i] = h[i] /\ h[i].record.revision = Cardinality({j \in FactsAt(h) : j <= i})
        BY <1>24, <1>26, <3>1
      <4>2. (\A j \in FactsAt(h) : j <= i) =>
                row.current.fact = h[i].record /\ row.current.fact_event = h[i].event_hash
        BY <1>26, <3>1
      <4> QED BY <3>1, <3>2, <4>1, <4>2
    <3>7. IsFact(g[n].record) = FALSE
      BY <1>25, <2>3 DEF IsFact
    <3>8. /\ (current = NoFact) = (FactsAt(g) = {})
          /\ \A i \in MovesAt(g) : (\A j \in MovesAt(g) : j <= i) =>
               current.projection = g[i].event_hash /\ current.eligible = IsFact(g[i].record)
      BY <1>25, <3>2, <3>4, <3>5, <3>7
    <3> QED BY <3>3, <3>6, <3>8 DEF Rebuilt
  <2> QED BY <2>1, <2>2, <2>3
<1>29. Len(g) <= MaxHistory
  BY <1>3, <1>4, <1>10, <1>13, HistoryBounds
<1>30. RowInv(new)
  BY <1>16, <1>19, <1>20, <1>28, <1>29 DEF RowInv
<1>31. Continues(h, g)
  BY <1>4, <1>10, <1>13 DEF Continues
<1>32. g[Len(h) + 1].record = r /\ Len(g) = Len(h) + 1
  BY <1>2, <1>4, <1>13
<1> QED BY <1>3, <1>9, <1>19, <1>30, <1>31, <1>32

-----------------------------------------------------------------------------
(* Trusted memory: sessions, locks and the committed state.                *)

InputSet == [lineage : Lineages, expected : SUBSET Hashes, record : FactRecords]
ClosureRecords == [closure : Closures, key : Keys]

Holds(row, closure, content) ==
    \E i \in 1..Len(row.history) :
        LET r == row.history[i].record
        IN  IsFact(r) /\ r.closure = closure /\ r.content = content
Named(decided, closure) == \E c \in decided : c.closure = closure
FactsNamed(row, decided) ==
    \A i \in 1..Len(row.history) :
        IsFact(row.history[i].record) => Named(decided, row.history[i].record.closure)
RowOf(work, rows, l) == IF l \in DOMAIN work THEN work[l] ELSE rows[l]

\* A transaction t of session s over the committed rows and closures: its rows go on
\* from the committed ones it has locked, and what its closure names is in them or
\* still to come.
Ready(s, t, rows, decided, held) ==
    /\ t = [pc |-> t.pc, work |-> t.work, closure |-> t.closure, facts |-> t.facts, key |-> t.key]
    /\ t.pc \in {"idle", "facts", "commit"}
    /\ t.pc = "idle" => t = NoTransaction
    /\ t.pc = "facts" <=> t.facts # <<>>
    /\ t.closure \subseteq ClosureRecords /\ t.facts \in Seq(InputSet) /\ t.key \subseteq Keys
    /\ \A l \in DOMAIN t.work : /\ l \in Lineages /\ held[l] = s
                                /\ RowInv(t.work[l]) /\ FactsNamed(t.work[l], decided \cup t.closure)
                                /\ Continues(rows[l].history, t.work[l].history)
    /\ \A i \in 1..Len(t.facts) : Named(decided \cup t.closure, t.facts[i].record.closure)
    /\ \A c \in t.closure : \A content \in VerifiedFacts[c.closure] :
           \/ \E i \in 1..Len(t.facts) : /\ t.facts[i].record.closure = c.closure
                                         /\ t.facts[i].record.content = content
           \/ \E l \in Lineages : Holds(RowOf(t.work, rows, l), c.closure, content)

StoreSound(rows, decided) ==
    /\ DOMAIN rows = Lineages /\ decided \subseteq ClosureRecords
    /\ \A l \in Lineages : RowInv(rows[l]) /\ FactsNamed(rows[l], decided)
    /\ \A c \in decided : \A content \in VerifiedFacts[c.closure] :
           \E l \in Lineages : Holds(rows[l], c.closure, content)

Locked(held, opened) ==
    /\ DOMAIN held = Lineages \cup {Project}
    /\ \A r \in Lineages \cup {Project} : held[r] \in Sessions \cup {Free}
    /\ DOMAIN opened = Sessions
    /\ \A r \in Lineages \cup {Project}, s \in Sessions : held[r] = s => opened[s].pc # "idle"

\* A reader has verified a prefix of the history it reads.
Walked(w, rows) ==
    /\ w = [pc |-> w.pc, lineage |-> w.lineage, sequence |-> w.sequence, hash |-> w.hash,
            began |-> w.began, verdict |-> w.verdict]
    /\ w.pc \in {"idle", "page", "stream", "done"}
    /\ w.pc # "idle" => /\ w.lineage \in Lineages /\ w.began \in Nat
                        /\ w.began <= Len(rows[w.lineage].history)
    /\ w.pc \in {"page", "stream"} =>
           /\ w.sequence \in Nat /\ w.sequence <= Len(rows[w.lineage].history)
           /\ w.hash = HashBefore(rows[w.lineage].history, w.sequence + 1)
    /\ w.pc = "stream" => w.began <= w.sequence
    /\ w.pc = "done" /\ ~w.verdict => Len(rows[w.lineage].history) > w.began

TrustedInv == /\ StoreSound(streams, closures) /\ Locked(lock, session) /\ Walked(walk, streams)
              /\ \A s \in Sessions : Ready(s, session[s], streams, closures, lock)

LEMMA LengthOfRow ==
    ASSUME NEW row, RowInv(row)
    PROVE  /\ row.history \in Seq(MemoryEvents) /\ Len(row.history) \in Nat
           /\ \A i \in 1..Len(row.history) : row.history[i] \in MemoryEvents
<1>1. row.history \in Seq(MemoryEvents)
  BY DEF RowInv, StreamRows
<1> QED BY <1>1, LenProperties, ElementOfSeq

LEMMA HoldsOn ==
    ASSUME NEW a, NEW b, Continues(a.history, b.history), Len(a.history) \in Nat,
           Len(b.history) \in Nat, NEW closure, NEW content, Holds(a, closure, content)
    PROVE  Holds(b, closure, content)
BY DEF Continues, Holds

LEMMA ReadyKept ==
    ASSUME NEW s, NEW t, NEW rows, NEW decided, NEW held, Ready(s, t, rows, decided, held),
           NEW rows2, NEW decided2, NEW held2, decided \subseteq decided2,
           \A l \in Lineages : RowInv(rows[l]) /\ RowInv(rows2[l])
                               /\ Continues(rows[l].history, rows2[l].history),
           \A l \in DOMAIN t.work : rows2[l] = rows[l] /\ held2[l] = s
    PROVE  Ready(s, t, rows2, decided2, held2)
<1>1. \A c : Named(decided \cup t.closure, c) => Named(decided2 \cup t.closure, c)
  BY DEF Named
<1>2. \A row : FactsNamed(row, decided \cup t.closure) => FactsNamed(row, decided2 \cup t.closure)
  BY <1>1 DEF FactsNamed
<1>3. \A l \in Lineages : \A c, content : Holds(RowOf(t.work, rows, l), c, content)
                                      => Holds(RowOf(t.work, rows2, l), c, content)
  <2> TAKE l \in Lineages
  <2> TAKE c, content
  <2>1. CASE l \in DOMAIN t.work
    BY <2>1 DEF RowOf
  <2>2. CASE l \notin DOMAIN t.work
    <3>1. Len(rows[l].history) \in Nat /\ Len(rows2[l].history) \in Nat
      BY LengthOfRow
    <3> QED BY <2>2, <3>1, HoldsOn DEF RowOf
  <2> QED BY <2>1, <2>2
<1>4. \A l \in DOMAIN t.work : /\ l \in Lineages /\ held2[l] = s
                               /\ RowInv(t.work[l]) /\ FactsNamed(t.work[l], decided2 \cup t.closure)
                               /\ Continues(rows2[l].history, t.work[l].history)
  BY <1>2 DEF Ready
<1>5. \A i \in 1..Len(t.facts) : Named(decided2 \cup t.closure, t.facts[i].record.closure)
  BY <1>1 DEF Ready
<1>6. \A c \in t.closure : \A content \in VerifiedFacts[c.closure] :
           \/ \E i \in 1..Len(t.facts) : /\ t.facts[i].record.closure = c.closure
                                         /\ t.facts[i].record.content = content
           \/ \E l \in Lineages : Holds(RowOf(t.work, rows2, l), c.closure, content)
  BY <1>3 DEF Ready
<1> QED BY <1>4, <1>5, <1>6 DEF Ready

LEMMA NoTransactionReady ==
    ASSUME NEW s, NEW rows, NEW decided, NEW held
    PROVE  Ready(s, NoTransaction, rows, decided, held)
<1>1. PICK t : t = NoTransaction
  OBVIOUS
<1>2. t = [pc |-> "idle", work |-> <<>>, closure |-> {}, facts |-> <<>>, key |-> {}]
  BY <1>1 DEF NoTransaction
<1>3. <<>> \in Seq(InputSet) /\ DOMAIN <<>> = {} /\ Len(<<>>) = 0 /\ 1..0 = {}
  BY EmptySeq
<1>4. Ready(s, t, rows, decided, held)
  BY <1>1, <1>2, <1>3 DEF Ready
<1> QED BY <1>1, <1>4

\* A step of one session that commits nothing.
LEMMA SessionMoves ==
    ASSUME TrustedInv, NEW s \in Sessions, NEW t, session' = [session EXCEPT ![s] = t],
           UNCHANGED <<streams, closures, walk>>,
           DOMAIN lock' = Lineages \cup {Project},
           \A r \in Lineages \cup {Project} : \/ lock'[r] = lock[r]
                                              \/ lock'[r] \in {s, Free} /\ lock[r] \in {s, Free},
           \A r \in Lineages \cup {Project} : lock'[r] = s => t.pc # "idle",
           Ready(s, t, streams, closures, lock')
    PROVE  TrustedInv'
<1>1. Locked(lock, session) /\ StoreSound(streams, closures)
  BY DEF TrustedInv
<1>2. DOMAIN session' = Sessions /\ session'[s] = t
      /\ \A o \in Sessions \ {s} : session'[o] = session[o]
  BY <1>1 DEF Locked
<1>3. \A r \in Lineages \cup {Project}, o \in Sessions \ {s} : (lock'[r] = o) <=> (lock[r] = o)
  BY SessionsNamed DEF Free
<1>4. Locked(lock', session')
  <2>1. \A r \in Lineages \cup {Project} : lock'[r] \in Sessions \cup {Free}
    BY <1>1 DEF Locked
  <2>2. \A r \in Lineages \cup {Project}, o \in Sessions : lock'[r] = o => session'[o].pc # "idle"
    BY <1>1, <1>2, <1>3 DEF Locked
  <2> QED BY <1>2, <2>1, <2>2 DEF Locked
<1>5. \A l \in Lineages : RowInv(streams[l]) /\ Continues(streams[l].history, streams[l].history)
  <2> TAKE l \in Lineages
  <2>1. RowInv(streams[l])
    BY <1>1 DEF StoreSound
  <2> QED BY <2>1, LengthOfRow, ContinuesAny
<1>6. ASSUME NEW o \in Sessions \ {s}
      PROVE  Ready(o, session[o], streams, closures, lock')
  <2>1. Ready(o, session[o], streams, closures, lock)
    BY DEF TrustedInv
  <2>2. \A l \in DOMAIN session[o].work : l \in Lineages /\ lock[l] = o
    BY <2>1 DEF Ready
  <2>3. \A l \in DOMAIN session[o].work : streams[l] = streams[l] /\ lock'[l] = o
    BY <1>3, <2>2
  <2>4. PICK x : x = session[o]
    OBVIOUS
  <2>5. PICK y : y = lock'
    OBVIOUS
  <2>6. Ready(o, x, streams, closures, lock) /\ \A l \in DOMAIN x.work : y[l] = o
    BY <2>1, <2>3, <2>4, <2>5
  <2>7. closures \subseteq closures
    OBVIOUS
  <2>8. Ready(o, x, streams, closures, y)
    BY <1>5, <2>6, <2>7, ReadyKept
  <2> QED BY <2>4, <2>5, <2>8
<1>7. \A o \in Sessions : Ready(o, session'[o], streams', closures', lock')
  BY <1>2, <1>6
<1>8. StoreSound(streams', closures') /\ Walked(walk', streams')
  BY DEF TrustedInv
<1> QED BY <1>4, <1>7, <1>8 DEF TrustedInv

-----------------------------------------------------------------------------
(* What callers may append, and the steps of a transaction.                *)

LEMMA SeenFacts ==
    ASSUME NEW l, RowInv(streams[l])
    PROVE  /\ FactsOf(l) \subseteq FactRecords
           /\ \A h \in Expectations(l) : h \subseteq Hashes
<1>1. \A e \in ToSet(streams[l].history) : e \in MemoryEvents
  BY LengthOfRow DEF ToSet
<1>2. \A e \in ToSet(streams[l].history) : e.record \in AllRecords /\ e.event_hash \in Hashes
  BY <1>1 DEF MemoryEvents
<1>3. FactsOf(l) \subseteq FactRecords
  BY <1>2, KindsApart DEF FactsOf
<1> QED BY <1>2, <1>3 DEF Expectations

LEMMA LifecycleTyped ==
    ASSUME NEW l \in Lineages, \A k \in Lineages : RowInv(streams[k]),
           NEW r \in LifecycleRecords(l)
    PROVE  r \in AllRecords /\ ~IsFact(r)
<1>1. \A k \in Lineages : FactsOf(k) \subseteq FactRecords
  BY SeenFacts
<1>2. ASSUME NEW f \in FactsOf(l), NEW e \in Transitions, r = LifecycleTransition(f, e)
      PROVE  r \in MoveRecords
  <2>1. f \in FactRecords
    BY <1>1
  <2>2. \/ e[1] = "CANDIDATE" /\ e[2] \in {"VALIDATED", "REJECTED", "QUARANTINED", "CONFLICTED",
                                           "EXPIRED", "REVOKED"}
        \/ e[1] = "VALIDATED" /\ e[2] \in {"SUPERSEDED", "CONFLICTED", "EXPIRED", "REVOKED"}
    BY <1>2, TransitionsAllowed DEF AllowedLifecycleTransitions
  <2> QED BY <1>2, <2>1, <2>2 DEF LifecycleTransition, MoveRecords, Edges, FactRecords
<1>3. ASSUME NEW f \in FactsOf(l), r = Supersession(f) \/ r = Revocation(f)
      PROVE  r \in MoveRecords
  <2>1. f \in FactRecords
    BY <1>1
  <2> QED BY <1>3, <2>1 DEF Supersession, Revocation, MoveRecords, FactRecords
<1>4. ASSUME r \in Conflicts(l)
      PROVE  r \in MoveRecords
  <2>1. PICK f \in FactsOf(l), k \in Lineages :
            \E g \in FactsOf(k) : r = Conflict({Member(l, f), Member(k, g)})
    BY <1>4 DEF Conflicts
  <2>1a. PICK g \in FactsOf(k) : r = Conflict({Member(l, f), Member(k, g)})
    BY <2>1
  <2>2. f \in FactRecords /\ g \in FactRecords
    BY <1>1, <2>1, <2>1a
  <2>3. {Member(l, f), Member(k, g)}
          \in SUBSET [lineage : Lineages, content : Contents, revision : 1..MaxHistory]
    BY <2>1, <2>2 DEF Member, FactRecords
  <2> QED BY <2>1a, <2>3 DEF Conflict, MoveRecords
<1>5. r \in MoveRecords
  BY <1>2, <1>3, <1>4 DEF LifecycleRecords
<1> QED BY <1>5, KindsApart DEF AllRecords

LEMMA CandidateTyped ==
    ASSUME NEW c \in Candidates
    PROVE  Candidate(c) \in AllRecords /\ ~IsFact(Candidate(c))
BY CallerInputs DEF Candidate, AllRecords, CandidateRecords, IsFact

\* A finalization request carries a fact of the closure for every digest it names.
LEMMA InputsCover ==
    ASSUME NEW closure \in Closures, \A l \in Lineages : RowInv(streams[l]),
           NEW facts \in Inputs(closure)
    PROVE  /\ facts \in Seq(InputSet) /\ facts # <<>>
           /\ \A i \in 1..Len(facts) : facts[i].record.closure = closure
           /\ \A content \in VerifiedFacts[closure] :
                  \E i \in 1..Len(facts) : facts[i].record.content = content
<1>1. PICK names : names = VerifiedFacts[closure]
  OBVIOUS
<1>2. names \subseteq Contents /\ names # {} /\ IsFiniteSet(names)
  BY <1>1, ClosuresName
<1>3. PICK n : n = Cardinality(names)
  OBVIOUS
<1>4. n \in Nat
  BY <1>2, <1>3, FS_CardinalityType
<1> DEFINE places == UNION {{[lineage |-> l, expected |-> hash, record |-> Fact(c, v, closure)] :
                              c \in names, v \in 1..MaxHistory, hash \in Expectations(l)} :
                             l \in Lineages}
<1>6. facts \in [1..n -> places] /\ {facts[i].record.content : i \in DOMAIN facts} = names
  BY <1>1, <1>3 DEF Inputs
<1>7. \A p \in places : p \in InputSet /\ p.record.closure = closure
  <2> TAKE p \in places
  <2>1a. PICK l \in Lineages :
             p \in {[lineage |-> l, expected |-> hash, record |-> Fact(c, v, closure)] :
                       c \in names, v \in 1..MaxHistory, hash \in Expectations(l)}
    OBVIOUS
  <2>1. PICK c \in names, v \in 1..MaxHistory, hash \in Expectations(l) :
            p = [lineage |-> l, expected |-> hash, record |-> Fact(c, v, closure)]
    BY <2>1a
  <2>2. hash \subseteq Hashes
    BY <2>1, SeenFacts
  <2>3. Fact(c, v, closure) \in FactRecords /\ Fact(c, v, closure).closure = closure
    BY <1>2, <2>1 DEF Fact, FactRecords
  <2> QED BY <2>1, <2>2, <2>3 DEF InputSet
<1> HIDE DEF places
<1>8. facts \in Seq(places) /\ Len(facts) = n /\ DOMAIN facts = 1..n
  BY <1>4, <1>6
<1>9. facts \in Seq(InputSet) /\ \A i \in 1..n : facts[i] \in places
  BY <1>4, <1>6, <1>7
<1>10. facts # <<>>
  BY <1>2, <1>6, <1>8
<1> QED BY <1>1, <1>6, <1>7, <1>8, <1>9, <1>10

LEMMA TakenLock ==
    ASSUME NEW s \in Sessions, NEW r \in Lineages \cup {Project}, Locked(lock, session),
           CanTake(s, r), Take(s, r)
    PROVE  /\ DOMAIN lock' = Lineages \cup {Project} /\ lock'[r] = s
           /\ \A q \in Lineages \cup {Project} : q # r => lock'[q] = lock[q]
           /\ \A q \in Lineages \cup {Project} :
                  \/ lock'[q] = lock[q]
                  \/ lock'[q] \in {s, Free} /\ lock[q] \in {s, Free}
<1>1. DOMAIN lock = Lineages \cup {Project} /\ lock[r] \in {Free, s}
      /\ lock' = [lock EXCEPT ![r] = s]
  BY DEF Locked, CanTake, Take
<1>2. /\ DOMAIN lock' = Lineages \cup {Project} /\ lock'[r] = s
      /\ \A q \in Lineages \cup {Project} : q # r => lock'[q] = lock[q]
  BY <1>1
<1>3. ASSUME NEW q \in Lineages \cup {Project}
      PROVE  \/ lock'[q] = lock[q]
             \/ lock'[q] \in {s, Free} /\ lock[q] \in {s, Free}
  <2>1. CASE q = r
    BY <1>1, <1>2, <2>1
  <2>2. CASE q # r
    BY <1>2, <2>2
  <2> QED BY <2>1, <2>2
<1>4. \A q \in Lineages \cup {Project} : \/ lock'[q] = lock[q]
                                         \/ lock'[q] \in {s, Free} /\ lock[q] \in {s, Free}
  BY <1>3
<1> QED BY <1>2, <1>4

LEMMA EndedLocks ==
    ASSUME NEW s \in Sessions, Locked(lock, session), End(s)
    PROVE  /\ DOMAIN lock' = Lineages \cup {Project}
           /\ \A r \in Lineages \cup {Project} : lock'[r] = IF lock[r] = s THEN Free ELSE lock[r]
           /\ \A r \in Lineages \cup {Project} : lock'[r] # s
BY SessionsNamed DEF Locked, End, Free

LEMMA RollbackKeeps ==
    ASSUME TrustedInv, NEW s \in Sessions, Rollback(s)
    PROVE  TrustedInv'
<1>1. Locked(lock, session) /\ End(s)
  BY DEF TrustedInv, Rollback
<1>2. session' = [session EXCEPT ![s] = NoTransaction] /\ UNCHANGED <<streams, closures, walk>>
  BY DEF Rollback, End
<1>3. Ready(s, NoTransaction, streams, closures, lock')
  BY NoTransactionReady
<1>4. \A r \in Lineages \cup {Project} : \/ lock'[r] = lock[r]
                                         \/ lock'[r] \in {s, Free} /\ lock[r] \in {s, Free}
  BY <1>1, EndedLocks
<1>5. DOMAIN lock' = Lineages \cup {Project} /\ \A r \in Lineages \cup {Project} : lock'[r] # s
  BY <1>1, EndedLocks
<1> QED BY <1>2, <1>3, <1>4, <1>5, SessionMoves

\* A row grown by an accepted record that is no fact, or a fact whose closure is decided.
LEMMA GrownNamed ==
    ASSUME NEW row, NEW r, NEW grown, RowInv(row), RowInv(grown), NEW decided,
           FactsNamed(row, decided), Continues(row.history, grown.history),
           Len(grown.history) = Len(row.history) + 1,
           grown.history[Len(row.history) + 1].record = r,
           IsFact(r) => Named(decided, r.closure)
    PROVE  FactsNamed(grown, decided)
<1>1. Len(row.history) \in Nat
  BY LengthOfRow
<1>2. \A i \in 1..Len(grown.history) : i \in 1..Len(row.history) \/ i = Len(row.history) + 1
  BY <1>1
<1> QED BY <1>2 DEF FactsNamed, Continues

LEMMA RecordKeeps ==
    ASSUME TrustedInv, NEW s \in Sessions, NEW l \in Lineages, NEW key \in Keys, NEW r \in AllRecords,
           ~IsFact(r), NEW expected, Record(s, l, r, key, expected)
    PROVE  TrustedInv'
<1>1. Locked(lock, session) /\ StoreSound(streams, closures)
  BY DEF TrustedInv
<1>2. PICK k : k = <<"record", {key}>>
  OBVIOUS
<1>3. PICK grown : grown = AppendedRow(streams[l], r, k)
  OBVIOUS
<1>4. PICK w : w = Staged(<<>>, l, grown)
  OBVIOUS
<1>5. PICK t : t = [NoTransaction EXCEPT !.pc = "commit", !.work = w]
  OBVIOUS
<1>6. k \in EventKeys
  BY <1>2 DEF EventKeys
<1>7. RowInv(streams[l]) /\ FactsNamed(streams[l], closures)
  BY <1>1 DEF StoreSound
<1>8. /\ Keyed(streams[l], k) = {} /\ Len(streams[l].history) < MaxHistory
      /\ Projects(l, r, expected, streams[l].current)
      /\ session' = [session EXCEPT ![s] = t] /\ Take(s, l) /\ lock[l] = Free
      /\ UNCHANGED <<streams, closures, walk>>
  BY <1>2, <1>3, <1>4, <1>5 DEF Record
<1>9. /\ RowInv(grown) /\ Continues(streams[l].history, grown.history)
      /\ Len(grown.history) = Len(streams[l].history) + 1
      /\ grown.history[Len(streams[l].history) + 1].record = r
  BY <1>3, <1>6, <1>7, <1>8, RowGrows
<1>10. FactsNamed(grown, closures)
  BY <1>7, <1>9, GrownNamed
<1>11. DOMAIN w = {l} /\ w[l] = grown
  BY <1>4 DEF Staged
<1>12. t = [pc |-> "commit", work |-> w, closure |-> {}, facts |-> <<>>, key |-> {}]
  BY <1>5 DEF NoTransaction
<1>13. CanTake(s, l)
  BY <1>8 DEF CanTake
<1>14. DOMAIN lock' = Lineages \cup {Project} /\ lock'[l] = s
       /\ \A q \in Lineages \cup {Project} : \/ lock'[q] = lock[q]
                                             \/ lock'[q] \in {s, Free} /\ lock[q] \in {s, Free}
  BY <1>1, <1>8, <1>13, TakenLock
<1>15. PICK held : held = lock'
  OBVIOUS
<1>16. <<>> \in Seq(InputSet) /\ Len(<<>>) = 0 /\ 1..0 = {}
  BY EmptySeq
<1>17. closures \cup {} = closures
  OBVIOUS
<1>18. Ready(s, t, streams, closures, held)
  BY <1>9, <1>10, <1>11, <1>12, <1>14, <1>15, <1>16, <1>17 DEF Ready
<1>19. t.pc # "idle"
  BY <1>12
<1> QED BY <1>8, <1>14, <1>15, <1>18, <1>19, SessionMoves

LEMMA RowOfReady ==
    ASSUME NEW s, NEW t, NEW rows, NEW decided, NEW held, Ready(s, t, rows, decided, held),
           StoreSound(rows, decided), NEW l \in Lineages
    PROVE  /\ RowInv(RowOf(t.work, rows, l))
           /\ FactsNamed(RowOf(t.work, rows, l), decided \cup t.closure)
           /\ Continues(rows[l].history, RowOf(t.work, rows, l).history)
<1>1. CASE l \in DOMAIN t.work
  BY <1>1 DEF Ready, RowOf
<1>2. CASE l \notin DOMAIN t.work
  <2>1. RowInv(rows[l]) /\ FactsNamed(rows[l], decided)
    BY DEF StoreSound
  <2>2. FactsNamed(rows[l], decided \cup t.closure)
    BY <2>1 DEF FactsNamed, Named
  <2>3. Continues(rows[l].history, rows[l].history)
    BY <2>1, LengthOfRow, ContinuesAny
  <2> QED BY <1>2, <2>1, <2>2, <2>3 DEF RowOf
<1> QED BY <1>1, <1>2

\* The next fact of a finalization is in the rows of the transaction: it goes on.
LEMMA FactTaken ==
    ASSUME NEW s, NEW t, NEW rows, NEW decided, NEW held, NEW held2,
           Ready(s, t, rows, decided, held), t.pc = "facts", StoreSound(rows, decided), NEW w,
           \A l \in DOMAIN w : /\ l \in Lineages /\ held2[l] = s /\ RowInv(w[l])
                               /\ FactsNamed(w[l], decided \cup t.closure)
                               /\ Continues(rows[l].history, w[l].history),
           \A l \in Lineages : Continues(RowOf(t.work, rows, l).history, RowOf(w, rows, l).history),
           \E l \in Lineages : Holds(RowOf(w, rows, l), Head(t.facts).record.closure,
                                     Head(t.facts).record.content),
           NEW t2,
           t2 = [pc |-> IF Len(t.facts) = 1 THEN "commit" ELSE "facts", work |-> w,
                 closure |-> t.closure, facts |-> Tail(t.facts), key |-> t.key]
    PROVE  Ready(s, t2, rows, decided, held2) /\ t2.pc # "idle"
<1>1. t.facts \in Seq(InputSet) /\ t.facts # <<>> /\ t.closure \subseteq ClosureRecords
      /\ t.key \subseteq Keys
  BY DEF Ready
<1>2. PICK n : n = Len(t.facts)
  OBVIOUS
<1>3. /\ n \in Nat /\ n # 0 /\ Tail(t.facts) \in Seq(InputSet) /\ Len(Tail(t.facts)) = n - 1
      /\ \A i \in 1..(n - 1) : Tail(t.facts)[i] = t.facts[i + 1]
      /\ Head(t.facts) = t.facts[1]
  BY <1>1, <1>2, LenProperties, HeadTailProperties, EmptySeq
<1>4. \A i \in 1..n : i = 1 \/ (i - 1 \in 1..(n - 1) /\ (i - 1) + 1 = i)
  BY <1>3
<1>5. \A i \in 1..(n - 1) : i + 1 \in 1..n
  BY <1>3
<1>6. PICK rest : rest = Tail(t.facts)
  OBVIOUS
<1>7. \A i \in 1..Len(rest) : Named(decided \cup t.closure, rest[i].record.closure)
  BY <1>2, <1>3, <1>5, <1>6 DEF Ready
<1>8. \A l \in Lineages : \A c, content : Holds(RowOf(t.work, rows, l), c, content)
                                      => Holds(RowOf(w, rows, l), c, content)
  <2> TAKE l \in Lineages
  <2> TAKE c, content
  <2>1. RowInv(RowOf(t.work, rows, l))
    BY RowOfReady
  <2>2. RowInv(RowOf(w, rows, l))
    BY DEF RowOf, StoreSound
  <2>3. Len(RowOf(t.work, rows, l).history) \in Nat /\ Len(RowOf(w, rows, l).history) \in Nat
    BY <2>1, <2>2, LengthOfRow
  <2> QED BY <2>3, HoldsOn
<1>9. ASSUME NEW c \in t.closure, NEW content \in VerifiedFacts[c.closure]
      PROVE  \/ \E i \in 1..Len(rest) : /\ rest[i].record.closure = c.closure
                                        /\ rest[i].record.content = content
             \/ \E l \in Lineages : Holds(RowOf(w, rows, l), c.closure, content)
  <2>1. CASE \E l \in Lineages : Holds(RowOf(t.work, rows, l), c.closure, content)
    BY <1>8, <2>1
  <2>2. CASE \E i \in 1..n : /\ t.facts[i].record.closure = c.closure
                             /\ t.facts[i].record.content = content
    <3>1. PICK i \in 1..n : /\ t.facts[i].record.closure = c.closure
                            /\ t.facts[i].record.content = content
      BY <2>2
    <3>2. CASE i = 1
      BY <1>3, <3>1, <3>2
    <3>3. CASE i - 1 \in 1..(n - 1) /\ (i - 1) + 1 = i
      <4>1. PICK j : j = i - 1
        OBVIOUS
      <4>2. j \in 1..Len(rest) /\ rest[j] = t.facts[i]
        BY <1>3, <1>6, <3>3, <4>1
      <4> QED BY <3>1, <4>2
    <3> QED BY <1>4, <3>2, <3>3
  <2> QED BY <1>2, <2>1, <2>2 DEF Ready
<1>10. t2 = [pc |-> IF n = 1 THEN "commit" ELSE "facts", work |-> w,
             closure |-> t.closure, facts |-> rest, key |-> t.key]
  BY <1>2, <1>6
<1>11. t2.pc = (IF n = 1 THEN "commit" ELSE "facts") /\ t2.work = w /\ t2.closure = t.closure
       /\ t2.facts = rest /\ t2.key = t.key
  BY <1>10
<1>12. t2 = [pc |-> t2.pc, work |-> t2.work, closure |-> t2.closure, facts |-> t2.facts,
             key |-> t2.key]
  BY <1>10
<1>13. (t2.pc = "facts") <=> rest # <<>>
  BY <1>3, <1>6, <1>11, EmptySeq
<1>14. t2.pc \in {"facts", "commit"}
  BY <1>11
<1>15. rest \in Seq(InputSet)
  BY <1>3, <1>6
<1>16. Ready(s, t2, rows, decided, held2)
  <2>1. \A i \in 1..Len(t2.facts) : Named(decided \cup t2.closure, t2.facts[i].record.closure)
    BY <1>7, <1>11
  <2>2. \A l \in DOMAIN t2.work : /\ l \in Lineages /\ held2[l] = s /\ RowInv(t2.work[l])
                                  /\ FactsNamed(t2.work[l], decided \cup t2.closure)
                                  /\ Continues(rows[l].history, t2.work[l].history)
    BY <1>11
  <2>3. \A c \in t2.closure : \A content \in VerifiedFacts[c.closure] :
             \/ \E i \in 1..Len(t2.facts) : /\ t2.facts[i].record.closure = c.closure
                                            /\ t2.facts[i].record.content = content
             \/ \E l \in Lineages : Holds(RowOf(t2.work, rows, l), c.closure, content)
    BY <1>9, <1>11
  <2>4. /\ t2.pc \in {"idle", "facts", "commit"} /\ t2.pc # "idle"
        /\ (t2.pc = "facts") <=> t2.facts # <<>>
        /\ t2.closure \subseteq ClosureRecords /\ t2.facts \in Seq(InputSet)
        /\ t2.key \subseteq Keys
    BY <1>1, <1>11, <1>13, <1>14, <1>15
  <2> QED BY <1>12, <2>1, <2>2, <2>3, <2>4 DEF Ready
<1> QED BY <1>14, <1>16

LEMMA FinalizeFactKeeps ==
    ASSUME TrustedInv, NEW s \in Sessions, FinalizeFact(s)
    PROVE  TrustedInv'
<1>1. Locked(lock, session) /\ StoreSound(streams, closures)
  BY DEF TrustedInv
<1>2. PICK t : t = session[s]
  OBVIOUS
<1>3. PICK input : input = Head(t.facts)
  OBVIOUS
<1>4. PICK l : l = input.lineage
  OBVIOUS
<1>5. PICK row : row = Overlay(t.work, l)
  OBVIOUS
<1>6. PICK k : k = <<"fact", t.key>>
  OBVIOUS
<1>7. PICK grown : grown = AppendedRow(row, input.record, k)
  OBVIOUS
<1>8. PICK next : next = IF Len(t.facts) = 1 THEN "commit" ELSE "facts"
  OBVIOUS
<1>9. /\ Ready(s, t, streams, closures, lock) /\ t.pc = "facts" /\ CanTake(s, l)
      /\ \/ /\ \E e \in Keyed(row, k) : e.record = input.record
            /\ session' = [session EXCEPT ![s] = [t EXCEPT !.facts = Tail(@), !.work = t.work,
                                                            !.pc = next]]
            /\ Take(s, l) /\ UNCHANGED <<streams, closures, walk>>
         \/ /\ Keyed(row, k) = {} /\ Projects(l, input.record, input.expected, row.current)
            /\ Len(row.history) < MaxHistory
            /\ session' = [session EXCEPT ![s] = [t EXCEPT !.facts = Tail(@),
                                                            !.work = Staged(t.work, l, grown),
                                                            !.pc = next]]
            /\ Take(s, l) /\ UNCHANGED <<streams, closures, walk>>
         \/ Rollback(s)
  BY <1>2, <1>3, <1>4, <1>5, <1>6, <1>7, <1>8 DEF FinalizeFact, TrustedInv
<1>10. input \in InputSet /\ l \in Lineages /\ input.record \in FactRecords
       /\ Named(closures \cup t.closure, input.record.closure)
  <2>1. t.facts \in Seq(InputSet) /\ t.facts # <<>>
    BY <1>9 DEF Ready
  <2>2. input = t.facts[1] /\ 1 \in 1..Len(t.facts) /\ input \in InputSet
    BY <1>3, <2>1, EmptySeq, LenProperties, HeadTailProperties
  <2> QED BY <1>4, <1>9, <2>2 DEF Ready, InputSet
<1>11. row = RowOf(t.work, streams, l)
  BY <1>5 DEF Overlay, RowOf
<1>12. /\ RowInv(row) /\ FactsNamed(row, closures \cup t.closure)
       /\ Continues(streams[l].history, row.history)
  BY <1>1, <1>9, <1>10, <1>11, RowOfReady
<1>13. k \in EventKeys /\ input.record \in AllRecords /\ IsFact(input.record)
  BY <1>6, <1>9, <1>10 DEF EventKeys, Ready, AllRecords, FactRecords, IsFact
<1>14. ASSUME Take(s, l)
       PROVE  /\ DOMAIN lock' = Lineages \cup {Project} /\ lock'[l] = s
              /\ \A q \in Lineages \cup {Project} : q # l => lock'[q] = lock[q]
              /\ \A q \in Lineages \cup {Project} :
                    \/ lock'[q] = lock[q]
                    \/ lock'[q] \in {s, Free} /\ lock[q] \in {s, Free}
  BY <1>1, <1>9, <1>10, <1>14, TakenLock
<1>15. \A q \in DOMAIN t.work : /\ q \in Lineages /\ lock[q] = s /\ RowInv(t.work[q])
                                /\ FactsNamed(t.work[q], closures \cup t.closure)
                                /\ Continues(streams[q].history, t.work[q].history)
  BY <1>9 DEF Ready
<1>16. ASSUME NEW q \in Lineages
       PROVE  Continues(RowOf(t.work, streams, q).history, RowOf(t.work, streams, q).history)
  <2>1. RowInv(RowOf(t.work, streams, q))
    BY <1>1, <1>9, RowOfReady
  <2> QED BY <2>1, LengthOfRow, ContinuesAny
<1>17. PICK held : held = lock'
  OBVIOUS
<1>18. ASSUME NEW w, Take(s, l),
              session' = [session EXCEPT ![s] = [t EXCEPT !.facts = Tail(@), !.work = w, !.pc = next]],
              UNCHANGED <<streams, closures, walk>>,
              \A q \in DOMAIN w : /\ q \in Lineages /\ (q = l \/ lock[q] = s) /\ RowInv(w[q])
                                  /\ FactsNamed(w[q], closures \cup t.closure)
                                  /\ Continues(streams[q].history, w[q].history),
              \A q \in Lineages : Continues(RowOf(t.work, streams, q).history,
                                            RowOf(w, streams, q).history),
              Holds(RowOf(w, streams, l), input.record.closure, input.record.content)
       PROVE  TrustedInv'
  <2>1. PICK t2 : t2 = [t EXCEPT !.facts = Tail(@), !.work = w, !.pc = next]
    OBVIOUS
  <2>2. t = [pc |-> t.pc, work |-> t.work, closure |-> t.closure, facts |-> t.facts, key |-> t.key]
    BY <1>9 DEF Ready
  <2>3. t2 = [pc |-> next, work |-> w, closure |-> t.closure, facts |-> Tail(t.facts),
              key |-> t.key]
    BY <2>1, <2>2
  <2>4. \A q \in DOMAIN w : held[q] = s
    <3> TAKE q \in DOMAIN w
    <3>1. q \in Lineages /\ (q = l \/ lock[q] = s)
      BY <1>18
    <3> QED BY <1>14, <1>17, <1>18, <3>1
  <2>5. \A q \in DOMAIN w : /\ q \in Lineages /\ held[q] = s /\ RowInv(w[q])
                            /\ FactsNamed(w[q], closures \cup t.closure)
                            /\ Continues(streams[q].history, w[q].history)
    BY <1>18, <2>4
  <2>6. \E q \in Lineages : Holds(RowOf(w, streams, q), Head(t.facts).record.closure,
                                  Head(t.facts).record.content)
    BY <1>3, <1>10, <1>18
  <2>7. \A q \in Lineages : Continues(RowOf(t.work, streams, q).history,
                                      RowOf(w, streams, q).history)
    BY <1>18
  <2>8. t2 = [pc |-> IF Len(t.facts) = 1 THEN "commit" ELSE "facts", work |-> w,
              closure |-> t.closure, facts |-> Tail(t.facts), key |-> t.key]
    BY <1>8, <2>3
  <2>9. Ready(s, t2, streams, closures, held) /\ t2.pc # "idle"
    BY <1>1, <1>9, <2>5, <2>6, <2>7, <2>8, FactTaken
  <2>10. session' = [session EXCEPT ![s] = t2]
    BY <1>18, <2>1
  <2> QED BY <1>14, <1>17, <1>18, <2>9, <2>10, SessionMoves
<1>19. CASE /\ \E e \in Keyed(row, k) : e.record = input.record
            /\ session' = [session EXCEPT ![s] = [t EXCEPT !.facts = Tail(@), !.work = t.work,
                                                            !.pc = next]]
            /\ Take(s, l) /\ UNCHANGED <<streams, closures, walk>>
  <2>1. PICK e \in Keyed(row, k) : e.record = input.record
    BY <1>19
  <2>2. e \in ToSet(row.history)
    BY DEF Keyed
  <2>3. \E i \in 1..Len(row.history) : row.history[i] = e
    BY <1>12, <2>2, LengthOfRow DEF ToSet
  <2>4. Holds(row, input.record.closure, input.record.content)
    BY <1>13, <2>1, <2>3 DEF Holds
  <2> QED BY <1>11, <1>15, <1>16, <1>18, <1>19, <2>4
<1>20. CASE /\ Keyed(row, k) = {} /\ Projects(l, input.record, input.expected, row.current)
            /\ Len(row.history) < MaxHistory
            /\ session' = [session EXCEPT ![s] = [t EXCEPT !.facts = Tail(@),
                                                            !.work = Staged(t.work, l, grown),
                                                            !.pc = next]]
            /\ Take(s, l) /\ UNCHANGED <<streams, closures, walk>>
  <2>1. PICK w : w = Staged(t.work, l, grown)
    OBVIOUS
  <2>2. DOMAIN w = DOMAIN t.work \cup {l} /\ w[l] = grown
        /\ \A q \in DOMAIN t.work : q # l => w[q] = t.work[q]
    BY <2>1 DEF Staged
  <2>3. /\ RowInv(grown) /\ Continues(row.history, grown.history)
        /\ Len(grown.history) = Len(row.history) + 1
        /\ grown.history[Len(row.history) + 1].record = input.record
    BY <1>7, <1>12, <1>13, <1>20, RowGrows
  <2>4. FactsNamed(grown, closures \cup t.closure)
    BY <1>10, <1>12, <2>3, GrownNamed
  <2>5. Continues(streams[l].history, grown.history)
    <3>1. RowInv(streams[l])
      BY <1>1, <1>10 DEF StoreSound
    <3> QED BY <1>12, <2>3, <3>1, LengthOfRow, ContinuesAny
  <2>6. \A q \in DOMAIN w : /\ q \in Lineages /\ (q = l \/ lock[q] = s) /\ RowInv(w[q])
                            /\ FactsNamed(w[q], closures \cup t.closure)
                            /\ Continues(streams[q].history, w[q].history)
    <3> TAKE q \in DOMAIN w
    <3>1. CASE q = l
      BY <1>10, <2>2, <2>3, <2>4, <2>5, <3>1
    <3>2. CASE q # l
      BY <1>15, <2>2, <3>2
    <3> QED BY <3>1, <3>2
  <2>7. RowOf(w, streams, l) = grown
    BY <2>2 DEF RowOf
  <2>8. \A q \in Lineages : Continues(RowOf(t.work, streams, q).history,
                                      RowOf(w, streams, q).history)
    <3> TAKE q \in Lineages
    <3>1. CASE q = l
      BY <1>11, <2>3, <2>7, <3>1
    <3>2. CASE q # l
      <4>1. RowOf(w, streams, q) = RowOf(t.work, streams, q)
        BY <2>2, <3>2 DEF RowOf
      <4> QED BY <1>16, <4>1
    <3> QED BY <3>1, <3>2
  <2>9. Holds(grown, input.record.closure, input.record.content)
    <3>1. Len(row.history) + 1 \in 1..Len(grown.history)
      BY <1>12, <2>3, LengthOfRow
    <3> QED BY <1>13, <2>3, <3>1 DEF Holds
  <2>10. session' = [session EXCEPT ![s] = [t EXCEPT !.facts = Tail(@), !.work = w, !.pc = next]]
    BY <1>20, <2>1
  <2> QED BY <1>18, <1>20, <2>6, <2>7, <2>8, <2>9, <2>10
<1>21. CASE Rollback(s)
  BY <1>21, RollbackKeeps
<1> QED BY <1>9, <1>19, <1>20, <1>21

LEMMA FinalizeKeeps ==
    ASSUME TrustedInv, NEW s \in Sessions, NEW closure \in Closures, NEW key \in Keys,
           Finalize(s, closure, key)
    PROVE  TrustedInv'
<1>1. Locked(lock, session) /\ StoreSound(streams, closures)
  BY DEF TrustedInv
<1>2. PICK decided : decided = ClosureRows(closure, key)
  OBVIOUS
<1>3. \A l \in Lineages : RowInv(streams[l])
  BY <1>1 DEF StoreSound
<1>4. PICK facts \in Inputs(closure) :
          session' = [session EXCEPT ![s] = [NoTransaction EXCEPT
                         !.pc = "facts", !.facts = facts, !.key = {key}, !.closure = decided]]
  BY <1>2 DEF Finalize
<1>5. lock[Project] = Free /\ ~ClosureConflicts(closure, key) /\ Take(s, Project)
      /\ UNCHANGED <<streams, closures, walk>>
  BY DEF Finalize
<1>6. /\ facts \in Seq(InputSet) /\ facts # <<>>
      /\ \A i \in 1..Len(facts) : facts[i].record.closure = closure
      /\ \A content \in VerifiedFacts[closure] :
             \E i \in 1..Len(facts) : facts[i].record.content = content
  BY <1>3, <1>4, InputsCover
<1>7. PICK t : t = [NoTransaction EXCEPT !.pc = "facts", !.facts = facts, !.key = {key},
                                         !.closure = decided]
  OBVIOUS
<1>8. t = [pc |-> "facts", work |-> <<>>, closure |-> decided, facts |-> facts, key |-> {key}]
  BY <1>7 DEF NoTransaction
<1>9. decided \subseteq {[closure |-> closure, key |-> key]}
      /\ Named(closures \cup decided, closure)
  <2>1. CASE \E c \in closures : c.key = key \/ c.closure = closure
    <3>1. decided = {}
      BY <1>2, <2>1 DEF ClosureRows
    <3>2. \E c \in closures : c.closure = closure
      BY <1>5, <2>1 DEF ClosureConflicts
    <3> QED BY <3>1, <3>2 DEF Named
  <2>2. CASE ~\E c \in closures : c.key = key \/ c.closure = closure
    <3>1. decided = {[closure |-> closure, key |-> key]}
      BY <1>2, <2>2 DEF ClosureRows
    <3>2. PICK c \in decided : c = [closure |-> closure, key |-> key]
      BY <3>1
    <3>3. c \in closures \cup decided /\ c.closure = closure
      BY <3>2
    <3> QED BY <3>1, <3>3 DEF Named
  <2> QED BY <2>1, <2>2
<1>10. \A c \in decided : c.closure = closure /\ c \in ClosureRecords
  BY <1>9 DEF ClosureRecords
<1>11. CanTake(s, Project) /\ Project \in Lineages \cup {Project}
  BY <1>5 DEF CanTake
<1>12. DOMAIN lock' = Lineages \cup {Project} /\ lock'[Project] = s
       /\ \A q \in Lineages \cup {Project} : \/ lock'[q] = lock[q]
                                             \/ lock'[q] \in {s, Free} /\ lock[q] \in {s, Free}
  BY <1>1, <1>5, <1>11, TakenLock
<1>13. PICK held : held = lock'
  OBVIOUS
<1>14. DOMAIN <<>> = {}
  OBVIOUS
<1>15. \A c \in decided : \A content \in VerifiedFacts[c.closure] :
           \E i \in 1..Len(facts) : /\ facts[i].record.closure = c.closure
                                    /\ facts[i].record.content = content
  <2> TAKE c \in decided
  <2> TAKE content \in VerifiedFacts[c.closure]
  <2>1. content \in VerifiedFacts[closure]
    BY <1>10
  <2>2. PICK i \in 1..Len(facts) : facts[i].record.content = content
    BY <1>6, <2>1
  <2> QED BY <1>6, <1>10, <2>2
<1>16. \A i \in 1..Len(facts) : Named(closures \cup decided, facts[i].record.closure)
  BY <1>6, <1>9
<1>17. t.pc = "facts" /\ t.work = <<>> /\ t.closure = decided /\ t.facts = facts /\ t.key = {key}
  BY <1>8
<1>18. t = [pc |-> t.pc, work |-> t.work, closure |-> t.closure, facts |-> t.facts, key |-> t.key]
  BY <1>8
<1>19. DOMAIN t.work = {} /\ t.closure \subseteq ClosureRecords /\ t.key \subseteq Keys
  BY <1>10, <1>14, <1>17
<1>20. Ready(s, t, streams, closures, held)
  <2>1. \A c \in t.closure : \A content \in VerifiedFacts[c.closure] :
             \E i \in 1..Len(t.facts) : /\ t.facts[i].record.closure = c.closure
                                        /\ t.facts[i].record.content = content
    BY <1>15, <1>17
  <2>2. \A i \in 1..Len(t.facts) : Named(closures \cup t.closure, t.facts[i].record.closure)
    BY <1>16, <1>17
  <2>3. t.pc = "facts" /\ t.facts # <<>> /\ t.facts \in Seq(InputSet)
    BY <1>6, <1>17
  <2> QED BY <1>18, <1>19, <2>1, <2>2, <2>3 DEF Ready
<1>21. session' = [session EXCEPT ![s] = t]
  BY <1>4, <1>7
<1> QED BY <1>5, <1>12, <1>13, <1>17, <1>20, <1>21, SessionMoves

\* A reader's prefix stays a prefix of a history that goes on.
LEMMA WalkKept ==
    ASSUME NEW w, NEW rows, NEW rows2, Walked(w, rows),
           \A l \in Lineages : RowInv(rows[l]) /\ RowInv(rows2[l])
                               /\ Continues(rows[l].history, rows2[l].history)
    PROVE  Walked(w, rows2)
<1>1. \A l \in Lineages : Len(rows[l].history) \in Nat /\ Len(rows2[l].history) \in Nat
                          /\ Len(rows[l].history) <= Len(rows2[l].history)
  BY LengthOfRow DEF Continues
<1>2. w.pc # "idle" => /\ w.lineage \in Lineages /\ w.began \in Nat
                       /\ w.began <= Len(rows2[w.lineage].history)
  BY <1>1 DEF Walked
<1>3. ASSUME w.pc \in {"page", "stream"}
      PROVE  /\ w.sequence \in Nat /\ w.sequence <= Len(rows2[w.lineage].history)
             /\ w.hash = HashBefore(rows2[w.lineage].history, w.sequence + 1)
  <2>1. w.lineage \in Lineages /\ w.sequence \in Nat
        /\ w.sequence <= Len(rows[w.lineage].history)
        /\ w.hash = HashBefore(rows[w.lineage].history, w.sequence + 1)
    BY <1>3 DEF Walked
  <2>2. PICK l \in Lineages : l = w.lineage
    BY <2>1
  <2>3. PICK q \in Nat : q = w.sequence
    BY <2>1
  <2>4. q <= Len(rows2[l].history)
    BY <1>1, <2>1, <2>2, <2>3
  <2>5. HashBefore(rows2[l].history, q + 1) = HashBefore(rows[l].history, q + 1)
    <3>1. CASE q = 0
      BY <3>1 DEF HashBefore
    <3>2. CASE q # 0
      <4>1. q \in 1..Len(rows[l].history) /\ (q + 1) - 1 = q /\ q + 1 # 1
        BY <1>1, <2>1, <2>2, <2>3, <3>2
      <4>2. rows2[l].history[q] = rows[l].history[q]
        BY <4>1 DEF Continues
      <4> QED BY <4>1, <4>2 DEF HashBefore
    <3> QED BY <3>1, <3>2
  <2> QED BY <2>1, <2>2, <2>3, <2>4, <2>5
<1>4. w.pc = "done" /\ ~w.verdict => Len(rows2[w.lineage].history) > w.began
  BY <1>1, <1>2 DEF Walked
<1> QED BY <1>2, <1>3, <1>4 DEF Walked

LEMMA CommitKeeps ==
    ASSUME TrustedInv, NEW s \in Sessions, Commit(s)
    PROVE  TrustedInv'
<1>1. Locked(lock, session) /\ StoreSound(streams, closures) /\ Walked(walk, streams)
  BY DEF TrustedInv
<1>2. PICK t : t = session[s]
  OBVIOUS
<1>3. PICK rows : rows = streams'
  OBVIOUS
<1>4. PICK decided : decided = closures'
  OBVIOUS
<1>5. PICK held : held = lock'
  OBVIOUS
<1>6. /\ t.pc = "commit" /\ rows = [l \in Lineages |-> RowOf(t.work, streams, l)]
      /\ decided = closures \cup t.closure /\ End(s) /\ UNCHANGED walk
  BY <1>2, <1>3, <1>4 DEF Commit, Overlay, RowOf
<1>7. Ready(s, t, streams, closures, lock)
  BY <1>2 DEF TrustedInv
<1>8. t.facts = <<>> /\ t.closure \subseteq ClosureRecords
  BY <1>6, <1>7 DEF Ready
<1>9. ASSUME NEW l \in Lineages
      PROVE  /\ RowInv(rows[l]) /\ FactsNamed(rows[l], decided) /\ RowInv(streams[l])
             /\ Continues(streams[l].history, rows[l].history)
  <2>1. rows[l] = RowOf(t.work, streams, l)
    BY <1>6
  <2>2. RowInv(streams[l])
    BY <1>1 DEF StoreSound
  <2> QED BY <1>1, <1>6, <1>7, <2>1, <2>2, RowOfReady
<1>10. ASSUME NEW c \in decided, NEW content \in VerifiedFacts[c.closure]
       PROVE  \E l \in Lineages : Holds(rows[l], c.closure, content)
  <2>1. CASE c \in closures
    <3>1. PICK l \in Lineages : Holds(streams[l], c.closure, content)
      BY <1>1, <2>1 DEF StoreSound
    <3>2. Len(streams[l].history) \in Nat /\ Len(rows[l].history) \in Nat
      BY <1>9, LengthOfRow
    <3>3. Holds(rows[l], c.closure, content)
      BY <1>9, <3>1, <3>2, HoldsOn
    <3> QED BY <3>3
  <2>2. CASE c \in t.closure
    <3>1. Len(<<>>) = 0 /\ 1..0 = {}
      OBVIOUS
    <3>2. PICK l \in Lineages : Holds(RowOf(t.work, streams, l), c.closure, content)
      BY <1>7, <1>8, <2>2, <3>1 DEF Ready
    <3> QED BY <1>6, <3>2
  <2> QED BY <1>6, <2>1, <2>2
<1>11. StoreSound(rows, decided)
  <2>1. DOMAIN rows = Lineages
    BY <1>6
  <2>2. decided \subseteq ClosureRecords
    BY <1>1, <1>6, <1>8 DEF StoreSound
  <2> QED BY <1>9, <1>10, <2>1, <2>2 DEF StoreSound
<1>12. Walked(walk, rows)
  BY <1>1, <1>9, WalkKept
<1>13. session' = [session EXCEPT ![s] = NoTransaction]
  BY <1>6 DEF End
<1>14. DOMAIN session' = Sessions /\ session'[s] = NoTransaction
       /\ \A o \in Sessions \ {s} : session'[o] = session[o]
  BY <1>1, <1>13 DEF Locked
<1>15. DOMAIN held = Lineages \cup {Project}
       /\ \A r \in Lineages \cup {Project} : held[r] = IF lock[r] = s THEN Free ELSE lock[r]
  BY <1>1, <1>5, <1>6, EndedLocks
<1>16. Locked(held, session')
  <2>1. \A r \in Lineages \cup {Project} : held[r] \in Sessions \cup {Free}
    BY <1>1, <1>15 DEF Locked
  <2>2. \A r \in Lineages \cup {Project}, o \in Sessions : held[r] = o => session'[o].pc # "idle"
    <3> TAKE r \in Lineages \cup {Project}, o \in Sessions
    <3>1. held[r] = o => o # s /\ lock[r] = o
      BY <1>15, SessionsNamed DEF Free
    <3> QED BY <1>1, <1>14, <3>1 DEF Locked
  <2> QED BY <1>14, <1>15, <2>1, <2>2 DEF Locked
<1>17. ASSUME NEW o \in Sessions \ {s}
       PROVE  Ready(o, session[o], rows, decided, held)
  <2>1. PICK x : x = session[o]
    OBVIOUS
  <2>2. Ready(o, x, streams, closures, lock)
    BY <2>1 DEF TrustedInv
  <2>3. \A l \in DOMAIN x.work : rows[l] = streams[l] /\ held[l] = o
    <3> TAKE l \in DOMAIN x.work
    <3>1. l \in Lineages /\ lock[l] = o
      BY <2>2 DEF Ready
    <3>2. l \notin DOMAIN t.work
      BY <1>7, <3>1 DEF Ready
    <3> QED BY <1>6, <1>15, <3>1, <3>2 DEF RowOf
  <2>4. closures \subseteq decided
    BY <1>6
  <2>5. \A l \in Lineages : RowInv(streams[l]) /\ RowInv(rows[l])
                            /\ Continues(streams[l].history, rows[l].history)
    BY <1>9
  <2>6. Ready(o, x, rows, decided, held)
    BY <2>2, <2>3, <2>4, <2>5, ReadyKept
  <2> QED BY <2>1, <2>6
<1>18. Ready(s, NoTransaction, rows, decided, held)
  BY NoTransactionReady
<1>19. \A o \in Sessions : Ready(o, session'[o], rows, decided, held)
  BY <1>14, <1>17, <1>18
<1> QED BY <1>3, <1>4, <1>5, <1>6, <1>11, <1>12, <1>16, <1>19 DEF TrustedInv

LEMMA SmallerOfTwo ==
    ASSUME NEW a \in Nat, NEW b \in Nat
    PROVE  Min({a, b}) = IF a <= b THEN a ELSE b
<1>1. PICK m \in {a, b} : \A y \in {a, b} : m <= y
  OBVIOUS
<1>2. Min({a, b}) \in {a, b} /\ \A y \in {a, b} : Min({a, b}) <= y
  BY <1>1, Zenon DEF Min
<1> QED BY <1>2

\* A page of a history after the sequence already verified.
Paged(page, h, q) == /\ Len(page) \in Nat /\ q + Len(page) <= Len(h)
                     /\ \A i \in 1..Len(page) : page[i] = h[q + i]
                     /\ page = <<>> => q = Len(h)
                     /\ page # <<>> => Len(page) # 0

LEMMA PageShape ==
    ASSUME NEW row, RowInv(row), NEW q \in Nat, q <= Len(row.history), NEW page,
           page = Page(row.history, q)
    PROVE  Paged(page, row.history, q)
<1>1. PICK h : h = row.history
  OBVIOUS
<1>2. h \in Seq(MemoryEvents) /\ Len(h) \in Nat /\ \A i \in 1..Len(h) : h[i] \in MemoryEvents
  BY <1>1, LengthOfRow
<1>3. PICK m : m = Min({q + PageSize, Len(h)})
  OBVIOUS
<1>4. m \in Nat /\ q <= m /\ m <= Len(h) /\ (m = q => q = Len(h))
  <2>1. q + PageSize \in Nat /\ q + PageSize > q
    BY HistoryBounds
  <2>2. m = IF q + PageSize <= Len(h) THEN q + PageSize ELSE Len(h)
    BY <1>2, <1>3, <2>1, SmallerOfTwo
  <2> QED BY <1>1, <1>2, <2>1, <2>2
<1>5. page = SubSeq(h, q + 1, m)
  BY <1>1, <1>3 DEF Page
<1>6. \A i \in (q + 1)..m : h[i] \in MemoryEvents
  BY <1>2, <1>4
<1>7. /\ page \in Seq(MemoryEvents)
      /\ Len(page) = IF q + 1 <= m THEN m - (q + 1) + 1 ELSE 0
      /\ \A i \in 1..(m - (q + 1) + 1) : page[i] = h[(q + 1) + i - 1]
  BY <1>4, <1>5, <1>6, SubSeqProperties
<1>8. Len(page) = m - q
  BY <1>4, <1>7
<1>9. \A i \in 1..Len(page) : page[i] = h[q + i]
  <2> TAKE i \in 1..Len(page)
  <2>1. i \in 1..(m - (q + 1) + 1) /\ (q + 1) + i - 1 = q + i
    BY <1>4, <1>8
  <2> QED BY <1>7, <2>1
<1>10. page = <<>> <=> Len(page) = 0
  BY <1>7, EmptySeq
<1> QED BY <1>1, <1>4, <1>7, <1>8, <1>9, <1>10 DEF Paged

LEMMA PageLinked ==
    ASSUME NEW row, RowInv(row), NEW q \in Nat, q <= Len(row.history), NEW page,
           page = Page(row.history, q), NEW hash, hash = HashBefore(row.history, q + 1)
    PROVE  /\ Linked(page, hash)
           /\ page # <<>> => Last(page).event_hash = HashBefore(row.history, q + Len(page) + 1)
<1>1. PICK h : h = row.history
  OBVIOUS
<1>2. /\ Len(page) \in Nat /\ q + Len(page) <= Len(h) /\ Len(h) \in Nat
      /\ \A i \in 1..Len(page) : page[i] = h[q + i]
      /\ page # <<>> => Len(page) # 0
  <2>1. Paged(page, h, q)
    BY <1>1, PageShape
  <2>2. Len(h) \in Nat
    BY <1>1, LengthOfRow
  <2> QED BY <2>1, <2>2 DEF Paged
<1>3. \A i \in 1..Len(h) : /\ h[i].previous_hash = HashBefore(h, i)
                           /\ h[i].event_hash = EventHash(h[i].previous_hash, h[i].record)
  BY <1>1 DEF RowInv, Chained
<1>4. ASSUME NEW i \in 1..Len(page)
      PROVE  /\ page[i].previous_hash = IF i = 1 THEN hash ELSE page[i - 1].event_hash
             /\ page[i].event_hash = EventHash(page[i].previous_hash, page[i].record)
  <2>1. q + i \in 1..Len(h)
    BY <1>2
  <2>2. HashBefore(h, q + i) = IF i = 1 THEN hash ELSE page[i - 1].event_hash
    <3>1. CASE i = 1
      BY <1>1, <3>1
    <3>2. CASE i # 1
      <4>1. i - 1 \in 1..Len(page) /\ q + i # 1 /\ (q + i) - 1 = q + (i - 1)
        BY <1>2, <3>2
      <4>2. page[i - 1] = h[q + (i - 1)]
        BY <1>2, <4>1
      <4> QED BY <3>2, <4>1, <4>2 DEF HashBefore
    <3> QED BY <3>1, <3>2
  <2> QED BY <1>2, <1>3, <2>1, <2>2
<1>5. Linked(page, hash)
  BY <1>4 DEF Linked
<1>6. ASSUME page # <<>>
      PROVE  Last(page).event_hash = HashBefore(h, q + Len(page) + 1)
  <2>1. Len(page) \in 1..Len(page) /\ q + Len(page) + 1 # 1
        /\ (q + Len(page) + 1) - 1 = q + Len(page)
    BY <1>2, <1>6
  <2>2. Last(page) = h[q + Len(page)]
    BY <1>2, <2>1 DEF Last
  <2> QED BY <2>1, <2>2 DEF HashBefore
<1> QED BY <1>1, <1>5, <1>6

LEMMA WalkSteps ==
    ASSUME TrustedInv, UNCHANGED <<streams, closures, lock, session>>, Walked(walk', streams)
    PROVE  TrustedInv'
BY DEF TrustedInv

LEMMA VerifyKeeps ==
    ASSUME TrustedInv, NEW l \in Lineages, Verify(l)
    PROVE  TrustedInv'
<1>1. RowInv(streams[l])
  BY DEF TrustedInv, StoreSound
<1>2. Len(streams[l].history) \in Nat
  BY <1>1, LengthOfRow
<1>3. walk' = [pc |-> "page", lineage |-> l, sequence |-> 0, hash |-> ZeroHash,
               began |-> Len(streams[l].history), verdict |-> TRUE]
  BY DEF Verify, NoWalk
<1>4. HashBefore(streams[l].history, 0 + 1) = ZeroHash
  BY DEF HashBefore
<1>5. PICK w : w = walk'
  OBVIOUS
<1>6. Walked(w, streams)
  BY <1>2, <1>3, <1>4, <1>5 DEF Walked
<1>7. UNCHANGED <<streams, closures, lock, session>>
  BY DEF Verify
<1> QED BY <1>5, <1>6, <1>7, WalkSteps

LEMMA VerifyPageKeeps ==
    ASSUME TrustedInv, VerifyPage
    PROVE  TrustedInv'
<1>1. Walked(walk, streams) /\ StoreSound(streams, closures)
  BY DEF TrustedInv
<1>2. PICK l : l = walk.lineage
  OBVIOUS
<1>3. PICK q : q = walk.sequence
  OBVIOUS
<1>4. PICK page : page = Page(streams[l].history, q)
  OBVIOUS
<1>5. walk.pc = "page" /\ UNCHANGED <<streams, closures, lock, session>>
  BY DEF VerifyPage
<1>6. /\ l \in Lineages /\ walk.began \in Nat /\ walk.began <= Len(streams[l].history)
      /\ q \in Nat /\ q <= Len(streams[l].history)
      /\ walk.hash = HashBefore(streams[l].history, q + 1)
      /\ walk = [pc |-> walk.pc, lineage |-> l, sequence |-> q, hash |-> walk.hash,
                 began |-> walk.began, verdict |-> walk.verdict]
  BY <1>1, <1>2, <1>3, <1>5 DEF Walked
<1>7. RowInv(streams[l])
  BY <1>1, <1>6 DEF StoreSound
<1>8. /\ Len(page) \in Nat /\ q + Len(page) <= Len(streams[l].history)
      /\ page = <<>> => q = Len(streams[l].history)
      /\ Linked(page, walk.hash)
      /\ page # <<>> => Last(page).event_hash
                          = HashBefore(streams[l].history, q + Len(page) + 1)
  <2>1. Paged(page, streams[l].history, q)
    BY <1>4, <1>6, <1>7, PageShape
  <2>2. /\ Linked(page, walk.hash)
        /\ page # <<>> => Last(page).event_hash
                            = HashBefore(streams[l].history, q + Len(page) + 1)
    BY <1>4, <1>6, <1>7, PageLinked
  <2> QED BY <2>1, <2>2 DEF Paged
<1>8a. PICK o : o = walk
  OBVIOUS
<1>8b. PICK before : before = walk.hash
  OBVIOUS
<1>8c. PICK began : began = walk.began
  OBVIOUS
<1>8d. PICK verdict : verdict = walk.verdict
  OBVIOUS
<1>8e. o = [pc |-> "page", lineage |-> l, sequence |-> q, hash |-> before, began |-> began,
            verdict |-> verdict]
  BY <1>5, <1>6, <1>8a, <1>8b, <1>8c, <1>8d
<1>9. walk' = IF page = <<>> THEN [walk EXCEPT !.pc = "stream"]
              ELSE [walk EXCEPT !.sequence = @ + Len(page), !.hash = Last(page).event_hash]
  BY <1>2, <1>3, <1>4, <1>8 DEF VerifyPage
<1>10. PICK w : w = walk'
  OBVIOUS
<1>11. CASE page = <<>>
  <2>1. w = [pc |-> "stream", lineage |-> l, sequence |-> q, hash |-> walk.hash,
             began |-> walk.began, verdict |-> walk.verdict]
    BY <1>6, <1>9, <1>10, <1>11
  <2>2. Walked(w, streams)
    BY <1>6, <1>8, <1>11, <2>1 DEF Walked
  <2> QED BY <1>5, <1>10, <2>2, WalkSteps
<1>12. CASE page # <<>>
  <2>1. w = [pc |-> "page", lineage |-> l, sequence |-> q + Len(page),
             hash |-> Last(page).event_hash, began |-> began, verdict |-> verdict]
    <3>1. w = [o EXCEPT !.sequence = @ + Len(page), !.hash = Last(page).event_hash]
      BY <1>8a, <1>9, <1>10, <1>12
    <3> QED BY <1>8e, <3>1
  <2>2. q + Len(page) \in Nat
    BY <1>6, <1>8
  <2>3. Walked(w, streams)
    BY <1>6, <1>8, <1>8c, <1>12, <2>1, <2>2 DEF Walked
  <2> QED BY <1>5, <1>10, <2>3, WalkSteps
<1> QED BY <1>11, <1>12

LEMMA VerifyRootKeeps ==
    ASSUME TrustedInv, VerifyRoot
    PROVE  TrustedInv'
<1>1. Walked(walk, streams) /\ StoreSound(streams, closures)
  BY DEF TrustedInv
<1>2. PICK l : l = walk.lineage
  OBVIOUS
<1>3. walk.pc = "stream" /\ UNCHANGED <<streams, closures, lock, session>>
  BY DEF VerifyRoot
<1>4. /\ l \in Lineages /\ walk.began \in Nat /\ walk.began <= Len(streams[l].history)
      /\ walk.sequence \in Nat /\ walk.sequence <= Len(streams[l].history)
      /\ walk.hash = HashBefore(streams[l].history, walk.sequence + 1)
      /\ walk.began <= walk.sequence
      /\ walk = [pc |-> walk.pc, lineage |-> l, sequence |-> walk.sequence, hash |-> walk.hash,
                 began |-> walk.began, verdict |-> walk.verdict]
  BY <1>1, <1>2, <1>3 DEF Walked
<1>5. RowInv(streams[l])
  BY <1>1, <1>4 DEF StoreSound
<1>6. streams[l].root = HashBefore(streams[l].history, Len(streams[l].history) + 1)
  BY <1>5 DEF RowInv, Chained
<1>7. PICK v : v = (/\ Len(streams[l].history) = walk.sequence /\ streams[l].root = walk.hash)
  OBVIOUS
<1>8. walk' = [walk EXCEPT !.pc = "done", !.verdict = v]
  BY <1>2, <1>7 DEF VerifyRoot
<1>9. ~v => Len(streams[l].history) > walk.began
  <2>1. Len(streams[l].history) \in Nat
    BY <1>5, LengthOfRow
  <2> QED BY <1>4, <1>6, <1>7, <2>1
<1>10. PICK w : w = walk'
  OBVIOUS
<1>11. w = [pc |-> "done", lineage |-> l, sequence |-> walk.sequence, hash |-> walk.hash,
            began |-> walk.began, verdict |-> v]
  <2>1. PICK o : o = walk
    OBVIOUS
  <2>2. PICK o2 : o2 = [pc |-> o.pc, lineage |-> l, sequence |-> o.sequence, hash |-> o.hash,
                        began |-> o.began, verdict |-> o.verdict]
    OBVIOUS
  <2>3. o = o2 /\ w = [o EXCEPT !.pc = "done", !.verdict = v]
    BY <1>4, <1>8, <1>10, <2>1, <2>2
  <2>4. w = [o2 EXCEPT !.pc = "done", !.verdict = v]
    BY <2>3
  <2>5. w = [pc |-> "done", lineage |-> l, sequence |-> o.sequence, hash |-> o.hash,
             began |-> o.began, verdict |-> v]
    BY <2>2, <2>4
  <2> QED BY <2>1, <2>5
<1>12. Walked(w, streams)
  BY <1>4, <1>9, <1>11 DEF Walked
<1> QED BY <1>3, <1>10, <1>12, WalkSteps

LEMMA WalkAnswers ==
    ASSUME TrustedInv, Answer
    PROVE  TrustedInv'
<1>1. PICK w : w = walk'
  OBVIOUS
<1>2. w = [pc |-> "idle", lineage |-> Project, sequence |-> 0, hash |-> ZeroHash, began |-> 0,
           verdict |-> TRUE]
  BY <1>1 DEF Answer, NoWalk
<1>3. Walked(w, streams)
  BY <1>2 DEF Walked
<1>4. UNCHANGED <<streams, closures, lock, session>>
  BY DEF Answer
<1> QED BY <1>1, <1>3, <1>4, WalkSteps

LEMMA TrustedInitHolds ==
    ASSUME TrustedInit
    PROVE  TrustedInv
<1>1. \A l \in Lineages : streams[l] = EmptyStream /\ RowInv(streams[l])
  BY EmptyRow DEF TrustedInit
<1>2. Len(EmptyStream.history) = 0 /\ 1..0 = {}
  BY DEF EmptyStream
<1>3. StoreSound(streams, closures)
  BY <1>1, <1>2 DEF TrustedInit, StoreSound, FactsNamed
<1>4. Locked(lock, session)
  BY SessionsNamed DEF TrustedInit, Locked, Free
<1>5. \A s \in Sessions : Ready(s, session[s], streams, closures, lock)
  BY NoTransactionReady DEF TrustedInit
<1>6. PICK w : w = walk
  OBVIOUS
<1>7. w = [pc |-> "idle", lineage |-> Project, sequence |-> 0, hash |-> ZeroHash, began |-> 0,
           verdict |-> TRUE]
  BY <1>6 DEF TrustedInit, NoWalk
<1>8. Walked(w, streams)
  BY <1>7 DEF Walked
<1> QED BY <1>3, <1>4, <1>5, <1>6, <1>8 DEF TrustedInv

LEMMA TrustedSteps ==
    ASSUME TrustedInv, [TrustedNext]_trustedVars
    PROVE  TrustedInv'
<1>1. \A l \in Lineages : RowInv(streams[l])
  BY DEF TrustedInv, StoreSound
<1>2. ASSUME NEW s \in Sessions, RecordAny(s)
      PROVE  TrustedInv'
  <2>1. PICK l \in Lineages, key \in Keys :
            \/ \E c \in Candidates : Record(s, l, Candidate(c), key, {})
            \/ \E r \in LifecycleRecords(l), h \in Expectations(l) : Record(s, l, r, key, h)
    BY <1>2 DEF RecordAny
  <2>2. ASSUME NEW c \in Candidates, Record(s, l, Candidate(c), key, {})
        PROVE  TrustedInv'
    BY <2>2, CandidateTyped, RecordKeeps
  <2>3. ASSUME NEW r \in LifecycleRecords(l), NEW h \in Expectations(l), Record(s, l, r, key, h)
        PROVE  TrustedInv'
    <3>1. r \in AllRecords /\ ~IsFact(r)
      BY <1>1, LifecycleTyped
    <3> QED BY <2>3, <3>1, RecordKeeps
  <2> QED BY <2>1, <2>2, <2>3
<1>3. ASSUME NEW s \in Sessions, FinalizeAny(s)
      PROVE  TrustedInv'
  <2>1. PICK closure \in Closures, key \in Keys : Finalize(s, closure, key)
    BY <1>3 DEF FinalizeAny
  <2> QED BY <2>1, FinalizeKeeps
<1>4. ASSUME NEW s \in Sessions, Lose(s)
      PROVE  TrustedInv'
  BY <1>4, RollbackKeeps DEF Lose
<1>5. ASSUME NEW l \in Verified, Verify(l)
      PROVE  TrustedInv'
  BY <1>5, CallerInputs, VerifyKeeps
<1>6. CASE UNCHANGED trustedVars
  BY <1>6 DEF trustedVars, TrustedInv
<1>7. CASE TrustedNext
  BY <1>2, <1>3, <1>4, <1>5, <1>7, FinalizeFactKeeps, CommitKeeps, VerifyPageKeeps,
     VerifyRootKeeps, WalkAnswers DEF TrustedNext
<1> QED BY <1>6, <1>7

LEMMA TrustedHolds == TrustedSpec => []TrustedInv
<1>1. TrustedInit => TrustedInv
  BY TrustedInitHolds
<1>2. TrustedInv /\ [TrustedNext]_trustedVars => TrustedInv'
  BY TrustedSteps
<1> QED BY <1>1, <1>2, PTL DEF TrustedSpec

LEMMA WellFormedRow ==
    ASSUME NEW row, RowInv(row)
    PROVE  /\ Linked(row.history, ZeroHash)
           /\ row.root = IF row.history = <<>> THEN ZeroHash ELSE Last(row.history).event_hash
           /\ row.outbox = [i \in 1..Len(row.history) |-> row.history[i].event_hash]
<1>1. PICK h : h = row.history
  OBVIOUS
<1>2. h \in Seq(MemoryEvents) /\ Len(h) \in Nat
  BY <1>1, LengthOfRow
<1>3. /\ \A i \in 1..Len(h) : /\ h[i].previous_hash = HashBefore(h, i)
                              /\ h[i].event_hash = EventHash(h[i].previous_hash, h[i].record)
      /\ row.root = HashBefore(h, Len(h) + 1)
      /\ Len(row.outbox) = Len(h)
      /\ \A i \in 1..Len(h) : row.outbox[i] = h[i].event_hash
  BY <1>1 DEF RowInv, Chained
<1>4. Linked(h, ZeroHash)
  BY <1>3 DEF Linked, HashBefore
<1>5. row.root = IF h = <<>> THEN ZeroHash ELSE Last(h).event_hash
  <2>1. CASE h = <<>>
    BY <1>3, <2>1 DEF HashBefore
  <2>2. CASE h # <<>>
    <3>1. Len(h) # 0
      BY <1>2, <2>2, EmptySeq
    <3>2. Len(h) + 1 # 1 /\ (Len(h) + 1) - 1 = Len(h)
      BY <1>2, <3>1
    <3> QED BY <1>3, <2>2, <3>2 DEF HashBefore, Last
  <2> QED BY <2>1, <2>2
<1>6. row.outbox = [i \in 1..Len(h) |-> h[i].event_hash]
  <2>1. row.outbox \in Seq(Hashes)
    BY DEF RowInv, StreamRows
  <2>2. DOMAIN row.outbox = 1..Len(h)
    BY <1>3, <2>1
  <2> QED BY <1>3, <2>1, <2>2
<1> QED BY <1>1, <1>4, <1>5, <1>6

LEMMA TrustedTypes ==
    ASSUME TrustedInv
    PROVE  TrustedTypeOK
<1>1. StoreSound(streams, closures) /\ Locked(lock, session) /\ Walked(walk, streams)
  BY DEF TrustedInv
<1>2. DOMAIN streams = Lineages /\ \A l \in Lineages : Len(streams[l].history) <= MaxHistory
  BY <1>1 DEF StoreSound, RowInv
<1>3. \A l \in Lineages : streams[l].current.eligible \in BOOLEAN
  <2> TAKE l \in Lineages
  <2>1. streams[l].current \in Currents \cup {NoFact}
    BY <1>1 DEF StoreSound, RowInv, StreamRows
  <2>2. NoFact.eligible = FALSE
    BY DEF NoFact
  <2>3. \A c \in Currents : c.eligible \in BOOLEAN
    BY DEF Currents
  <2> QED BY <2>1, <2>2, <2>3
<1>4. \A c \in closures : c.closure \in Closures /\ c.key \in Keys
  BY <1>1 DEF StoreSound, ClosureRecords
<1>5. \A s \in Sessions : session[s].pc \in {"idle", "facts", "commit"}
  BY DEF TrustedInv, Ready
<1>6. /\ \A r \in DOMAIN lock : lock[r] \in Sessions \cup {Free}
      /\ \A r \in DOMAIN lock, s \in Sessions : lock[r] = s => session[s].pc # "idle"
  BY <1>1 DEF Locked
<1>7. walk.pc \in {"idle", "page", "stream", "done"}
  BY <1>1 DEF Walked
<1> QED BY <1>2, <1>3, <1>4, <1>5, <1>6, <1>7 DEF TrustedTypeOK

LEMMA TrustedRebuilt ==
    ASSUME TrustedInv
    PROVE  CurrentRebuilt
<1> SUFFICES ASSUME NEW l \in Lineages
             PROVE  LET h == streams[l].history
                        facts == {i \in 1..Len(h) : IsFact(h[i].record)}
                        moves == {i \in 1..Len(h) : ~IsCandidate(h[i].record)}
                        LastOf(places) == {i \in places : \A j \in places : j <= i}
                        current == streams[l].current
                    IN  /\ \A i \in facts : h[i].record.revision = Cardinality({j \in facts : j <= i})
                        /\ (current = NoFact) = (facts = {})
                        /\ \A i \in LastOf(facts) : /\ current.fact = h[i].record
                                                   /\ current.fact_event = h[i].event_hash
                        /\ facts # {} =>
                             \A i \in LastOf(moves) : /\ current.projection = h[i].event_hash
                                                      /\ current.eligible = IsFact(h[i].record)
  BY DEF CurrentRebuilt
<1>1. PICK h : h = streams[l].history
  OBVIOUS
<1>2. PICK current : current = streams[l].current
  OBVIOUS
<1>3. Rebuilt(h, current)
  BY <1>1, <1>2 DEF TrustedInv, StoreSound, RowInv
<1>4. PICK facts : facts = {i \in 1..Len(h) : IsFact(h[i].record)}
  OBVIOUS
<1>5. PICK moves : moves = {i \in 1..Len(h) : ~IsCandidate(h[i].record)}
  OBVIOUS
<1>6. /\ \A i \in facts : h[i].record.revision = Cardinality({j \in facts : j <= i})
      /\ (current = NoFact) = (facts = {})
      /\ \A i \in {x \in facts : \A j \in facts : j <= x} :
             current.fact = h[i].record /\ current.fact_event = h[i].event_hash
      /\ facts # {} => \A i \in {x \in moves : \A j \in moves : j <= x} :
             /\ current.projection = h[i].event_hash
             /\ current.eligible = IsFact(h[i].record)
  <2>1. facts = FactsAt(h) /\ moves = MovesAt(h)
    BY <1>4, <1>5 DEF FactsAt, MovesAt
  <2> QED BY <1>3, <2>1 DEF Rebuilt
<1> QED BY <1>1, <1>2, <1>4, <1>5, <1>6

LEMMA TrustedIntact ==
    ASSUME TrustedInv
    PROVE  StreamIntact /\ RejectedOnlyIfMoved
<1>1. ASSUME NEW l \in Lineages
      PROVE  /\ RowInv(streams[l])
             /\ \A i, j \in 1..Len(streams[l].history) :
                    streams[l].history[i].key = streams[l].history[j].key => i = j
  BY DEF TrustedInv, StoreSound, RowInv, Chained
<1>2. StreamIntact
  BY <1>1, WellFormedRow DEF StreamIntact
<1>3. RejectedOnlyIfMoved
  BY DEF TrustedInv, Walked, RejectedOnlyIfMoved
<1> QED BY <1>2, <1>3

\* Whatever mix of candidates, facts and lifecycle records the transactions append, the
\* materialized current fact is what the committed history rebuilds, the history is one
\* hash chain mirrored in the outbox, and verify_trusted_memory_stream accepts it
\* (append_trusted_memory_record under the lineage lock, apps/api/postgres_store.py).
THEOREM CurrentFactIsRebuilt == TrustedSpec => []CurrentIsRebuilt
<1>1. TrustedInv => CurrentIsRebuilt
  BY TrustedTypes, TrustedRebuilt, TrustedIntact DEF CurrentIsRebuilt
<1> QED BY <1>1, TrustedHolds, PTL

\* A decision closure is committed together with every fact its evaluator result names,
\* and no fact is committed without its closure (finalize_decision_closure commits once,
\* at the end of its transaction).
THEOREM ClosuresAreWhole == TrustedSpec => []ClosureIsWhole
<1>1. TrustedInv => ClosureIsWhole
  <2> SUFFICES ASSUME TrustedInv
               PROVE  ClosureIsWhole
    OBVIOUS
  <2>1. StoreSound(streams, closures)
    BY DEF TrustedInv
  <2>2. \A l \in Lineages : \A e \in ToSet(streams[l].history) : e.record \in Records
    BY DEF Records
  <2>3. ASSUME NEW c \in closures, NEW content \in Contents, content \in VerifiedFacts[c.closure]
        PROVE  \E r \in Records : IsFact(r) /\ r.content = content /\ r.closure = c.closure
    <3>1. PICK l \in Lineages : Holds(streams[l], c.closure, content)
      BY <2>1, <2>3 DEF StoreSound
    <3>2. PICK i \in 1..Len(streams[l].history) :
              /\ IsFact(streams[l].history[i].record)
              /\ streams[l].history[i].record.closure = c.closure
              /\ streams[l].history[i].record.content = content
      BY <3>1 DEF Holds
    <3>3. RowInv(streams[l])
      BY <2>1 DEF StoreSound
    <3>4. streams[l].history[i] \in ToSet(streams[l].history)
      BY <3>3, LengthOfRow DEF ToSet
    <3> QED BY <2>2, <3>2, <3>4
  <2>4. ASSUME NEW r \in Records, IsFact(r)
        PROVE  \E c \in closures : c.closure = r.closure
    <3>1. PICK l \in Lineages : r \in {e.record : e \in ToSet(streams[l].history)}
      BY DEF Records
    <3>2. RowInv(streams[l]) /\ FactsNamed(streams[l], closures)
      BY <2>1 DEF StoreSound
    <3>3. PICK i \in 1..Len(streams[l].history) : streams[l].history[i].record = r
      BY <3>1, <3>2, LengthOfRow DEF ToSet
    <3> QED BY <2>4, <3>2, <3>3 DEF FactsNamed, Named
  <2> QED BY <2>3, <2>4 DEF ClosureIsWhole
<1> QED BY <1>1, TrustedHolds, PTL

=============================================================================
