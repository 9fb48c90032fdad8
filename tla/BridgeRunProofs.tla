--------------------------- MODULE BridgeRunProofs ---------------------------
(***************************************************************************)
(* A run of the bridge executes what was approved, claims what it can      *)
(* show, has one active attempt per task and loses no update, for any      *)
(* number of workers, any plan, any bound on reassignments and any faults. *)
(***************************************************************************)
EXTENDS BridgeRun, FiniteSetTheorems, SequenceTheorems, WellFoundedInduction, TLAPS

-----------------------------------------------------------------------------
(* The invariant *)

Active == ACTIVE_NODE_STATUSES
Ended == {"good", "unfit", "bad", "revision", "blocked"}

\* What the other services and the archive hold, as one value.
World == [at |-> at, ego |-> ego, receipts |-> receipts, ledger |-> ledger, matrix |-> matrix]

EgoStage == {"INTAKE", "CONTEXT", "PLAN", "PLAN_REVIEW", "APPROVAL", "EXECUTE", "COMPLETED"}
Projects == [status : {"none", "active", "paused", "completed"}, nodes : [Tasks -> NodeStatus]]
Egos == [stage : EgoStage, approval : {"none", "pending", "approved", "consumed"}]
Archives == [ReceiptKeys -> Variants \cup {"none"}]

\* Facts about the world that the bridge brings about step by step.
Created(u) == u.receipts[Key("project-create")] # "none"
Consumed(u) == u.ego.approval = "consumed"
Lower(t) == {s \in Tasks : s[1] = t[1] /\ s[2] < t[2]}
EndedBelow(t, u) == \A s \in Lower(t) : u.at.nodes[s] \in Ended

\* The world alone: the Controller has an attempt only when the earlier ones have ended, a
\* post-approval task only when the approval is consumed, and any node only of a project
\* whose receipt is archived.
WorldOK(u) ==
    /\ u.at \in Projects /\ u.ego \in Egos /\ u.receipts \in Archives
    /\ \A t \in Tasks : u.at.nodes[t] # "none" =>
          /\ EndedBelow(t, u)
          /\ t[1] \in ToSet(Post) => Consumed(u)
          /\ Created(u)
    /\ Consumed(u) => u.ego.stage \in {"EXECUTE", "COMPLETED"}
    /\ u.ego.stage # "INTAKE" => Created(u)

\* How the world moves: attempts end and stay ended, nothing achieved is taken back.
Grows(u, v) ==
    /\ \A t \in Tasks : /\ u.at.nodes[t] \in Ended => v.at.nodes[t] = u.at.nodes[t]
                        /\ u.at.nodes[t] \in Active => v.at.nodes[t] \in Active \cup Ended
    /\ u.at.status = "completed" => v.at.status = "completed"
    /\ Consumed(u) => Consumed(v)
    /\ u.ego.stage = "COMPLETED" => v.ego.stage = "COMPLETED"
    /\ \A k \in ReceiptKeys : u.receipts[k] # "none" => v.receipts[k] # "none"
    /\ u.ledger \subseteq v.ledger
    /\ u.matrix \subseteq v.matrix

PostAccepted(x) == \A t \in EffectiveTasks(x) : t[1] \in ToSet(Post) => t \in x.accepted

\* All a COMPLETED run claims but the TERMINAL envelope.
Finished(x, u) ==
    /\ u.ego.stage = "COMPLETED" /\ u.at.status = "completed" /\ x.final /\ x.grant
    /\ \A k \in TerminalKeys : u.receipts[k] # "none"
    /\ PostAccepted(x)

Accepted(t, u) ==
    /\ u.at.nodes[t] \in {"good", "unfit"}
    /\ u.receipts[<<"artifact", t>>] # "none"
    /\ <<"ARTIFACT_ACCEPTED", t>> \in u.ledger

\* What the stored row and every worker's copy of it, old or new, say of the world.
RunOK(x, u) ==
    /\ x \in Runs
    /\ \A t \in ToSet(x.graph) : EndedBelow(t, u) /\ (t[1] \in ToSet(Post) => Consumed(u))
    /\ x.grant => Consumed(u)
    /\ x.committed => Created(u)
    /\ "POST_APPROVAL" \in {x.state, x.resume} => x.grant
    /\ x.final => u.receipts[Key("live-finalization")] # "none"
    /\ \A t \in x.accepted : Accepted(t, u)
    /\ (x.state = "COMPLETED"
        \/ (x.state = "COMPENSATION_REQUIRED" /\ x.retry = "terminal-notify"))
         => Finished(x, u)

\* What the stored row says beyond that.
RowOK(x, u) ==
    /\ x.state = "ABSENT" => x = AbsentRun
    /\ x.state = "COMPLETED" => "TERMINAL" \in u.matrix

\* A workflow that was read: what had ended has, what was active is or has ended.
Snapshot(f, u) ==
    \A t \in Tasks : /\ f.wf[t] \in Ended => u.at.nodes[t] = f.wf[t]
                     /\ f.wf[t] \in Active => u.at.nodes[t] \in Active \cup Ended

\* x has achieved all that y has.
Extends(x, y) ==
    /\ y.committed => x.committed
    /\ y.grant => x.grant
    /\ y.final => x.final
    /\ y.accepted \subseteq x.accepted
    /\ ToSet(y.graph) \subseteq ToSet(x.graph)

\* A copy that update_run would take extends the stored row, which is under way.
Current(f, x) ==
    f.current => x.state \notin {"ABSENT", "COMPLETED", "BLOCKED"} /\ Extends(f.run, x)

\* What _recover_compensation sends again.
Sendable == {"start-dispatch", "replan-notify", "approval-required-notify", "terminal-notify"}

\* What a worker knows at its program point.
Control(f, u) ==
    /\ f.pc \notin {"idle", "release"} => f.run.state # "ABSENT"
    /\ f.pc \notin {"idle", "release", "r_commit", "r_send_terminal", "terminal_error"}
          => f.run.state \notin {"COMPLETED", "BLOCKED"}
    /\ f.pc \in {"r_send_terminal", "terminal_error"} => f.run.state = "COMPLETED"
    /\ f.pc = "r_commit" /\ f.run.state = "COMPLETED" => "TERMINAL" \in u.matrix
    /\ f.pc \in {"s_committed", "s_replan", "r_advance"} => Created(u)
    /\ f.pc \in {"g_committed", "g_uncertain"} => Consumed(u)
    /\ f.pc \in {"g_resume", "g_replan", "g_graph"} => f.run.grant
    /\ f.pc \in {"r_finalize", "r_finalized", "r_final", "r_confirm", "r_complete", "r_completed"}
          => f.run.state = "POST_APPROVAL" /\ PostAccepted(f.run)
    /\ f.pc \in {"r_finalized", "r_final", "r_complete", "r_completed"}
          => u.ego.stage = "COMPLETED"
    /\ f.pc = "r_final" => u.receipts[Key("live-finalization")] # "none"
    /\ f.pc \in {"r_confirm", "r_complete", "r_completed"} => f.run.final
    /\ f.pc = "r_completed" => u.at.status = "completed"
    /\ f.pc \in {"r_examine", "r_reassign", "r_cancel", "r_replan", "r_replaced"}
          => f.run.state # "COMPENSATION_REQUIRED"
    /\ f.pc \in {"c_recover", "c_send", "c_resume", "c_done"}
          => f.run.state = "COMPENSATION_REQUIRED"
    /\ f.pc \in {"c_send", "c_done"} => f.run.retry \in Sendable
    /\ f.pc = "c_resume" => f.run.retry \in {"start-dispatch", "replan-notify"}
    /\ f.pc = "c_done" /\ f.run.retry = "terminal-notify" => "TERMINAL" \in u.matrix
    /\ f.pc \in {"r_reassign", "r_cancel", "r_replan", "r_replaced"} =>
          /\ f.task \in ToSet(f.run.graph)
          /\ f.wf[f.task] \in Active \cup Ended
    /\ f.pc = "r_reassign" => f.task \in EffectiveTasks(f.run)
    /\ f.pc \in {"r_cancel", "r_replan", "r_replaced"} => f.task[2] <= MaxReassign
    /\ f.pc \in {"r_replan", "r_replaced"} => u.at.nodes[f.task] \in Ended

\* The program points.
Points ==
    {"idle", "release",
     "s_workers", "s_project", "s_committed", "s_replan", "s_envelope", "s_send", "s_finish",
     "s_error", "s_compensate",
     "r_read", "r_examine", "r_reassign", "r_cancel", "r_replan", "r_replaced",
     "r_send_replan", "replan_error", "replan_compensate",
     "r_decide", "r_advance", "r_pause", "r_send_approval", "r_waiting", "approval_error",
     "r_finalize", "r_finalized", "r_final", "r_confirm", "r_complete", "r_completed",
     "r_send_terminal", "terminal_error", "r_commit",
     "c_recover", "c_send", "c_resume", "c_done",
     "g_check", "g_consume", "g_committed", "g_uncertain", "g_unverified", "g_resume",
     "g_replan", "g_graph", "g_send", "g_finish", "g_error", "g_compensate"}

Frames == [pc : Points, run : Runs, wf : [Tasks -> NodeStatus],
           current : BOOLEAN, renewed : BOOLEAN, task : Tasks \cup {NoTask}]

FrameOK(f, x, u) ==
    f \in Frames /\ RunOK(f.run, u) /\ Snapshot(f, u) /\ Current(f, x) /\ Control(f, u)

\* The inductive invariant.
IInv ==
    /\ WorldOK(World)
    /\ RunOK(row, World)
    /\ RowOK(row, World)
    /\ lease \in [owner : Workers \cup {"nobody", "dead"}, expired : BOOLEAN]
    /\ faults \in 0 .. MaxFaults
    /\ frame \in [Workers -> Frames]
    /\ \A w \in Workers : FrameOK(frame[w], row, World)

-----------------------------------------------------------------------------
(* The tasks of a graph *)

\* Induction over the numbers, with a set in the place of the predicate.
LEMMA SetInduction ==
  ASSUME NEW S, 0 \in S, \A n \in Nat : n \in S => n + 1 \in S
  PROVE  Nat \subseteq S
<1> DEFINE T == Nat \ S
<1>1. SUFFICES ASSUME T # {} PROVE FALSE
  OBVIOUS
<1>2. PICK x \in T : \A y \in T : ~ (<<y, x>> \in OpToRel(<,Nat))
  <2>1. T \subseteq Nat
    OBVIOUS
  <2> QED BY <1>1, <2>1, NatLessThanWellFounded, WFMin
<1>3. x # 0 /\ x - 1 \in Nat /\ (x - 1) + 1 = x
  OBVIOUS
<1>4. x - 1 \in S
  <2>1. SUFFICES ASSUME x - 1 \in T PROVE FALSE
    BY <1>3
  <2>2. <<x - 1, x>> \in OpToRel(<,Nat)
    BY <1>3 DEF OpToRel
  <2> QED BY <1>2, <2>1, <2>2
<1> QED BY <1>3, <1>4

\* The logical tasks of ROLE_PLAN are those before and those after the approval.
LEMMA OriginsAreParts ==
  /\ Pre \in Seq(STRING) /\ Post \in Seq(STRING)
  /\ Origins = ToSet(Pre) \cup ToSet(Post)
  /\ Origins \subseteq STRING
<1>1. Pre \in Seq(STRING) /\ Post \in Seq(STRING)
  BY BridgeAssumption
<1>2. Len(Pre) \in Nat /\ Len(Post) \in Nat /\ Len(Plan) = Len(Pre) + Len(Post)
  BY <1>1 DEF Plan
<1>3. \A i \in 1 .. Len(Pre) : Plan[i] = Pre[i]
  BY <1>1 DEF Plan
<1>4. \A i \in 1 .. Len(Post) : Plan[Len(Pre) + i] = Post[i]
  BY <1>1 DEF Plan
<1>5. /\ DOMAIN Plan = 1 .. Len(Pre) + Len(Post)
      /\ DOMAIN Pre = 1 .. Len(Pre) /\ DOMAIN Post = 1 .. Len(Post)
  BY <1>1 DEF Plan
<1>6. ToSet(Pre) \cup ToSet(Post) \subseteq Origins
  <2>1. \A i \in 1 .. Len(Pre) : i \in DOMAIN Plan BY <1>2, <1>5
  <2>2. \A i \in 1 .. Len(Post) : Len(Pre) + i \in DOMAIN Plan BY <1>2, <1>5
  <2> QED BY <1>3, <1>4, <1>5, <2>1, <2>2 DEF Origins, ToSet
<1>7. ASSUME NEW i \in DOMAIN Plan PROVE Plan[i] \in ToSet(Pre) \cup ToSet(Post)
  <2>1. CASE i \in 1 .. Len(Pre) BY <2>1, <1>3, <1>5 DEF ToSet
  <2>2. CASE i \notin 1 .. Len(Pre)
    <3>1. i - Len(Pre) \in 1 .. Len(Post) /\ Len(Pre) + (i - Len(Pre)) = i BY <2>2, <1>2, <1>5
    <3>2. Plan[i] = Post[i - Len(Pre)] BY <3>1, <1>4
    <3> QED BY <3>1, <3>2, <1>5 DEF ToSet
  <2> QED BY <2>1, <2>2
<1>8. Origins \subseteq ToSet(Pre) \cup ToSet(Post) BY <1>7 DEF Origins, ToSet
<1>9. ToSet(Pre) \subseteq STRING /\ ToSet(Post) \subseteq STRING BY <1>1, <1>5 DEF ToSet
<1> QED BY <1>1, <1>6, <1>8, <1>9

\* A task is a logical task and the number of its attempt.
LEMMA TaskShape ==
  /\ \A t \in Tasks : t = <<t[1], t[2]>> /\ t[1] \in Origins /\ t[2] \in 1 .. MaxReassign + 1
  /\ \A o \in Origins : <<o, 1>> \in Tasks
  /\ \A o \in Origins, n \in Nat : (n > 0 /\ n <= MaxReassign) => <<o, n + 1>> \in Tasks
  /\ MaxReassign \in Nat
BY BridgeAssumption DEF Tasks

\* _build_task_graph makes first attempts of the tasks of a part.
LEMMA FirstAttempts ==
  ASSUME NEW part \in Seq(STRING), ToSet(part) \subseteq Origins
  PROVE  /\ BuildTaskGraph(part) \in Seq(Tasks)
         /\ \A t \in ToSet(BuildTaskGraph(part)) : t \in Tasks /\ t[1] \in ToSet(part) /\ t[2] = 1
<1>1. \A i \in 1 .. Len(part) : part[i] \in ToSet(part)
  BY DEF ToSet
<1>2. \A i \in 1 .. Len(part) : <<part[i], 1>> \in Tasks
  BY <1>1, TaskShape
<1>3. Len(part) \in Nat /\ DOMAIN BuildTaskGraph(part) = 1 .. Len(part)
  BY DEF BuildTaskGraph
<1>4. BuildTaskGraph(part) \in Seq(Tasks)
  BY <1>2, <1>3 DEF BuildTaskGraph
<1> QED BY <1>1, <1>2, <1>3, <1>4 DEF BuildTaskGraph, ToSet

Keeping(graph, part, n, f) ==
  f = [i \in 0 .. n |-> IF i = 0 THEN <<>>
                        ELSE IF graph[i][1] \in ToSet(part) THEN Append(f[i - 1], graph[i])
                        ELSE f[i - 1]]

\* The recursion of OfPart has a solution, whatever the length of the graph ...
LEMMA KeepingExists ==
  ASSUME NEW graph, NEW part, NEW n \in Nat
  PROVE  \E f : Keeping(graph, part, n, f)
<1> DEFINE S == {m \in Nat : \E f : Keeping(graph, part, m, f)}
           Next1(m, f) == [i \in 0 .. m + 1 |->
               IF i = 0 THEN <<>>
               ELSE IF graph[i][1] \in ToSet(part) THEN Append(f[i - 1], graph[i]) ELSE f[i - 1]]
<1>1. 0 \in S
  <2>1. Keeping(graph, part, 0, [i \in 0 .. 0 |-> <<>>])
    BY DEF Keeping
  <2> QED BY <2>1
<1>2. ASSUME NEW m \in Nat, m \in S PROVE m + 1 \in S
  <2>1. PICK f : Keeping(graph, part, m, f)
    BY <1>2
  <2>2. \A i \in 0 .. m : f[i] = IF i = 0 THEN <<>>
           ELSE IF graph[i][1] \in ToSet(part) THEN Append(f[i - 1], graph[i]) ELSE f[i - 1]
    BY <2>1 DEF Keeping
  <2> DEFINE g == Next1(m, f)
  <2>3. \A i \in 0 .. m : g[i] = f[i]
    BY <2>2
  <2>4. \A i \in 0 .. m + 1 : i # 0 => i - 1 \in 0 .. m
    OBVIOUS
  <2>5. Keeping(graph, part, m + 1, g)
    BY <2>3, <2>4 DEF Keeping
  <2> QED BY <2>5
<1> HIDE DEF S
<1>3. Nat \subseteq S BY <1>1, <1>2, SetInduction
<1> QED BY <1>3 DEF S

\* ... and OfPart is the last value of one.
LEMMA OfPartIsKept ==
  ASSUME NEW graph \in Seq(Tasks), NEW part
  PROVE  \E f : Keeping(graph, part, Len(graph), f) /\ OfPart(graph, part) = f[Len(graph)]
<1>1. Len(graph) \in Nat
  OBVIOUS
<1>2. \E f : Keeping(graph, part, Len(graph), f)
  BY <1>1, KeepingExists
<1> DEFINE kept == CHOOSE f : Keeping(graph, part, Len(graph), f)
<1>3. Keeping(graph, part, Len(graph), kept)
  BY <1>2
<1>4. OfPart(graph, part) = kept[Len(graph)]
  BY DEF OfPart, Keeping
<1> QED BY <1>3, <1>4

\* OfPart keeps exactly the tasks of the part.
LEMMA OfPartTasks ==
  ASSUME NEW graph \in Seq(Tasks), NEW part
  PROVE  /\ OfPart(graph, part) \in Seq(Tasks)
         /\ ToSet(OfPart(graph, part)) = {t \in ToSet(graph) : t[1] \in ToSet(part)}
<1>1. PICK f : Keeping(graph, part, Len(graph), f) /\ OfPart(graph, part) = f[Len(graph)]
  BY OfPartIsKept
<1> DEFINE n == Len(graph)
           Of(m) == {graph[i] : i \in {j \in 1 .. m : graph[j][1] \in ToSet(part)}}
           S == {m \in Nat : m <= n => f[m] \in Seq(Tasks) /\ ToSet(f[m]) = Of(m)}
<1>2. n \in Nat /\ \A i \in 1 .. n : graph[i] \in Tasks
  OBVIOUS
<1>3. f[0] = <<>> /\ \A i \in 1 .. n :
          f[i] = IF graph[i][1] \in ToSet(part) THEN Append(f[i - 1], graph[i]) ELSE f[i - 1]
  <2>1. \A i \in 0 .. n : f[i] = IF i = 0 THEN <<>>
           ELSE IF graph[i][1] \in ToSet(part) THEN Append(f[i - 1], graph[i]) ELSE f[i - 1]
    BY <1>1 DEF Keeping
  <2> QED BY <2>1, <1>2
<1>4. 0 \in S
  <2>1. ToSet(<<>>) = {} BY DEF ToSet
  <2>2. Of(0) = {} OBVIOUS
  <2>3. <<>> \in Seq(Tasks) OBVIOUS
  <2> QED BY <1>3, <2>1, <2>2, <2>3
<1>5. ASSUME NEW m \in Nat, m \in S PROVE m + 1 \in S
  <2>1. SUFFICES ASSUME m + 1 <= n
                 PROVE  f[m + 1] \in Seq(Tasks) /\ ToSet(f[m + 1]) = Of(m + 1)
    OBVIOUS
  <2>2. m + 1 \in 1 .. n /\ (m + 1) - 1 = m /\ m <= n
    BY <2>1, <1>2
  <2>3. f[m] \in Seq(Tasks) /\ ToSet(f[m]) = Of(m)
    BY <1>5, <2>2
  <2>4. \A j : j \in 1 .. m + 1 <=> (j \in 1 .. m \/ j = m + 1)
    OBVIOUS
  <2>5. CASE graph[m + 1][1] \in ToSet(part)
    <3>1. f[m + 1] = Append(f[m], graph[m + 1]) BY <2>5, <2>2, <1>3
    <3>2. graph[m + 1] \in Tasks BY <2>2, <1>2
    <3>3. f[m + 1] \in Seq(Tasks) BY <3>1, <3>2, <2>3
    <3>4. ToSet(f[m + 1]) = ToSet(f[m]) \cup {graph[m + 1]}
      <4> DEFINE s == f[m]
      <4>1. s \in Seq(Tasks) /\ Len(s) \in Nat /\ DOMAIN s = 1 .. Len(s) BY <2>3
      <4>2. DOMAIN Append(s, graph[m + 1]) = 1 .. Len(s) + 1 BY <4>1
      <4>3. \A i \in 1 .. Len(s) : Append(s, graph[m + 1])[i] = s[i] BY <4>1
      <4>4. Append(s, graph[m + 1])[Len(s) + 1] = graph[m + 1] BY <4>1
      <4>5. \A i : i \in 1 .. Len(s) + 1 <=> (i \in 1 .. Len(s) \/ i = Len(s) + 1) BY <4>1
      <4> HIDE DEF s
      <4>6. ToSet(Append(s, graph[m + 1])) = ToSet(s) \cup {graph[m + 1]}
        BY <4>1, <4>2, <4>3, <4>4, <4>5 DEF ToSet
      <4> QED BY <4>6, <3>1 DEF s
    <3>5. Of(m + 1) = Of(m) \cup {graph[m + 1]} BY <2>4, <2>5
    <3> QED BY <3>3, <3>4, <3>5, <2>3
  <2>6. CASE graph[m + 1][1] \notin ToSet(part)
    <3>1. f[m + 1] = f[m] BY <2>6, <2>2, <1>3
    <3>2. Of(m + 1) = Of(m) BY <2>4, <2>6
    <3> QED BY <3>1, <3>2, <2>3
  <2> QED BY <2>5, <2>6
<1> HIDE DEF S
<1>6. Nat \subseteq S BY <1>4, <1>5, SetInduction
<1>7. n \in S BY <1>2, <1>6
<1>8. f[n] \in Seq(Tasks) /\ ToSet(f[n]) = Of(n) BY <1>7, <1>2 DEF S
<1>9. Of(n) = {t \in ToSet(graph) : t[1] \in ToSet(part)}
  <2>1. DOMAIN graph = 1 .. n OBVIOUS
  <2> QED BY <2>1 DEF ToSet
<1> QED BY <1>1, <1>8, <1>9

\* The tasks of two graphs one after the other.
LEMMA JoinTasks ==
  ASSUME NEW g \in Seq(Tasks), NEW h \in Seq(Tasks)
  PROVE  g \o h \in Seq(Tasks) /\ ToSet(g \o h) = ToSet(g) \cup ToSet(h)
<1>1. g \o h \in Seq(Tasks) /\ Len(g) \in Nat /\ Len(h) \in Nat
  OBVIOUS
<1>2. DOMAIN (g \o h) = 1 .. Len(g) + Len(h) /\ DOMAIN g = 1 .. Len(g) /\ DOMAIN h = 1 .. Len(h)
  OBVIOUS
<1>3. \A i \in 1 .. Len(g) : i \in DOMAIN (g \o h) /\ (g \o h)[i] = g[i]
  BY <1>1, <1>2
<1>4. \A i \in 1 .. Len(h) : Len(g) + i \in DOMAIN (g \o h) /\ (g \o h)[Len(g) + i] = h[i]
  BY <1>1, <1>2
<1>5. ASSUME NEW i \in DOMAIN (g \o h) PROVE (g \o h)[i] \in ToSet(g) \cup ToSet(h)
  <2>1. CASE i \in 1 .. Len(g) BY <2>1, <1>2, <1>3 DEF ToSet
  <2>2. CASE i \notin 1 .. Len(g)
    <3>1. i - Len(g) \in 1 .. Len(h) /\ Len(g) + (i - Len(g)) = i BY <2>2, <1>1, <1>2
    <3>2. (g \o h)[i] = h[i - Len(g)] BY <3>1, <1>4
    <3> QED BY <3>1, <3>2, <1>2 DEF ToSet
  <2> QED BY <2>1, <2>2
<1>6. ToSet(g \o h) \subseteq ToSet(g) \cup ToSet(h) BY <1>5 DEF ToSet
<1>7. ToSet(g) \cup ToSet(h) \subseteq ToSet(g \o h) BY <1>2, <1>3, <1>4 DEF ToSet
<1> QED BY <1>1, <1>6, <1>7

\* A graph has tasks only.
LEMMA GraphTasks ==
  ASSUME NEW g \in Seq(Tasks)
  PROVE  ToSet(g) \subseteq Tasks
BY DEF ToSet

\* What _post_approval_graph makes of a run.
LEMMA PostApprovalGraphIs ==
  ASSUME NEW x \in Runs
  PROVE  LET y == PostApprovalGraph(x) IN
         /\ y \in Runs
         /\ \A t \in ToSet(y.graph) : t \in ToSet(x.graph) \/ (t \in Tasks /\ t[2] = 1)
         /\ ToSet(x.graph) \subseteq ToSet(y.graph)
         /\ y.state = x.state /\ y.retry = x.retry /\ y.resume = x.resume
         /\ y.committed = x.committed /\ y.grant = x.grant /\ y.final = x.final
         /\ y.accepted = x.accepted
<1> DEFINE existing == OfPart(x.graph, Post)
           tail == IF existing # <<>> THEN existing ELSE BuildTaskGraph(Post)
           g == OfPart(x.graph, Pre) \o tail
           s == [t \in Tasks |-> IF t \in x.accepted /\ t[1] \in ToSet(Pre)
                                 THEN "completed" ELSE x.status[t]]
           y == PostApprovalGraph(x)
<1>1. x.graph \in Seq(Tasks) /\ x.status \in [Tasks -> RawStatus]
  BY DEF Runs
<1>2. existing \in Seq(Tasks) /\ ToSet(existing) = {t \in ToSet(x.graph) : t[1] \in ToSet(Post)}
  BY <1>1, OfPartTasks
<1>3. /\ OfPart(x.graph, Pre) \in Seq(Tasks)
      /\ ToSet(OfPart(x.graph, Pre)) = {t \in ToSet(x.graph) : t[1] \in ToSet(Pre)}
  BY <1>1, OfPartTasks
<1>4. /\ BuildTaskGraph(Post) \in Seq(Tasks)
      /\ \A t \in ToSet(BuildTaskGraph(Post)) : t \in Tasks /\ t[2] = 1
  BY OriginsAreParts, FirstAttempts
<1>5. /\ tail \in Seq(Tasks)
      /\ \A t \in ToSet(tail) : t \in ToSet(x.graph) \/ (t \in Tasks /\ t[2] = 1)
      /\ {t \in ToSet(x.graph) : t[1] \in ToSet(Post)} \subseteq ToSet(tail)
  <2>1. CASE existing # <<>> BY <2>1, <1>2
  <2>2. CASE existing = <<>>
    <3>1. ToSet(existing) = {} BY <2>2 DEF ToSet
    <3> QED BY <2>2, <3>1, <1>2, <1>4
  <2> QED BY <2>1, <2>2
<1>6. y = [x EXCEPT !.graph = g, !.status = s]
  BY DEF PostApprovalGraph
<1> HIDE DEF existing, tail
<1>7. g \in Seq(Tasks) /\ ToSet(g) = ToSet(OfPart(x.graph, Pre)) \cup ToSet(tail)
  BY <1>3, <1>5, JoinTasks
<1>8. s \in [Tasks -> RawStatus]
  BY <1>1 DEF RawStatus
<1>9. \A t \in ToSet(g) : t \in ToSet(x.graph) \/ (t \in Tasks /\ t[2] = 1)
  BY <1>3, <1>5, <1>7
<1>10. ToSet(x.graph) \subseteq ToSet(g)
  <2>1. ASSUME NEW t \in ToSet(x.graph) PROVE t[1] \in ToSet(Pre) \cup ToSet(Post)
    <3>1. t \in Tasks BY <1>1, GraphTasks
    <3> QED BY <3>1, TaskShape, OriginsAreParts
  <2> QED BY <2>1, <1>3, <1>5, <1>7
<1> HIDE DEF g, s, y
<1>11. y \in Runs /\ y.graph = g
  BY <1>6, <1>7, <1>8 DEF Runs
<1>12. /\ y.state = x.state /\ y.retry = x.retry /\ y.resume = x.resume
       /\ y.committed = x.committed /\ y.grant = x.grant /\ y.final = x.final
       /\ y.accepted = x.accepted
  BY <1>6 DEF Runs
<1>13. ToSet(y.graph) = ToSet(g) BY <1>11
<1> QED
  <2>1. \A t \in ToSet(y.graph) : t \in ToSet(x.graph) \/ (t \in Tasks /\ t[2] = 1) BY <1>13, <1>9
  <2>2. ToSet(x.graph) \subseteq ToSet(y.graph) BY <1>13, <1>10
  <2> QED BY <2>1, <2>2, <1>11, <1>12 DEF y

\* What a reassignment makes of a run.
LEMMA ReplacedGraphIs ==
  ASSUME NEW f \in Frames, f.task \in ToSet(f.run.graph), f.task[2] <= MaxReassign,
         f.wf[f.task] \in Active \cup Ended
  PROVE  LET y == ReplacedGraph(f) IN
         /\ y \in Runs
         /\ f.task \in Tasks /\ Replacement(f) \in Tasks
         /\ ToSet(y.graph) = ToSet(f.run.graph) \cup {Replacement(f)}
         /\ y.state = f.run.state /\ y.retry = f.run.retry /\ y.resume = f.run.resume
         /\ y.committed = f.run.committed /\ y.grant = f.run.grant /\ y.final = f.run.final
         /\ y.accepted = f.run.accepted
<1> DEFINE x == f.run
           y == ReplacedGraph(f)
           r == Replacement(f)
           g == Append(x.graph, r)
           z == StatusToRaw(f.wf[f.task])
<1>1. x \in Runs BY DEF Frames
<1>2. x.graph \in Seq(Tasks) /\ x.status \in [Tasks -> RawStatus]
  BY <1>1 DEF Runs
<1>3. f.task \in Tasks BY <1>2, GraphTasks
<1>4. r \in Tasks
  <2>1. f.task[1] \in Origins /\ f.task[2] \in 1 .. MaxReassign + 1 /\ MaxReassign \in Nat
    BY <1>3, TaskShape
  <2>2. f.task[2] \in Nat /\ f.task[2] > 0 BY <2>1
  <2> QED BY <2>1, <2>2, TaskShape DEF Replacement
<1>5. z \in RawStatus
  BY DEF StatusToRaw, RawStatus, Active, Ended, ACTIVE_NODE_STATUSES, Completed
<1>6. y = [x EXCEPT !.graph = g, !.status = [x.status EXCEPT ![f.task] = z]]
  BY DEF ReplacedGraph
<1> HIDE DEF r, z, y
<1>7. g \in Seq(Tasks) BY <1>2, <1>4
<1>8. ToSet(g) = ToSet(x.graph) \cup {r}
  <2>1. <<r>> \in Seq(Tasks) BY <1>4
  <2>2. ToSet(<<r>>) = {r}
    <3>1. DOMAIN <<r>> = 1 .. 1 /\ <<r>>[1] = r OBVIOUS
    <3> QED BY <3>1 DEF ToSet
  <2>3. g = x.graph \o <<r>>
    <3>1. g = Append(x.graph, r) BY DEF g
    <3> QED BY <3>1, <1>2, <1>4, AppendIsConcat
  <2> QED BY <2>1, <2>2, <2>3, <1>2, JoinTasks
<1>9. [x.status EXCEPT ![f.task] = z] \in [Tasks -> RawStatus] BY <1>2, <1>5
<1> HIDE DEF g
<1>10. y \in Runs /\ y.graph = g BY <1>1, <1>6, <1>7, <1>9 DEF Runs
<1>11. /\ y.state = x.state /\ y.retry = x.retry /\ y.resume = x.resume
       /\ y.committed = x.committed /\ y.grant = x.grant /\ y.final = x.final
       /\ y.accepted = x.accepted
  BY <1>1, <1>6 DEF Runs
<1> QED
  BY <1>3, <1>4, <1>8, <1>10, <1>11 DEF y, r

\* The newest attempt of a task is in the graph, and below the bound while a reassignment
\* is left.
LEMMA NewestAttempts ==
  ASSUME NEW x \in Runs
  PROVE  /\ EffectiveTasks(x) \subseteq ToSet(x.graph)
         /\ EffectiveTasks(x) \subseteq Tasks
         /\ \A i \in Effective(x) : x.graph[i] \in EffectiveTasks(x)
         /\ \A t \in EffectiveTasks(x) :
               Reassignments(x, t[1]) < x.max_reassignments => t[2] <= MaxReassign
<1>1. x.graph \in Seq(Tasks) /\ x.max_reassignments \in 0 .. MaxReassign
  BY DEF Runs
<1>2. EffectiveTasks(x) \subseteq ToSet(x.graph)
  BY DEF EffectiveTasks, Effective, ToSet
<1>3. ASSUME NEW t \in EffectiveTasks(x), Reassignments(x, t[1]) < x.max_reassignments
      PROVE  t[2] <= MaxReassign
  <2>1. t[2] = Reassignments(x, t[1]) + 1
    BY DEF EffectiveTasks, Effective
  <2> DEFINE R == {i \in DOMAIN x.graph : x.graph[i][1] = t[1]}
  <2>2. IsFiniteSet(R) /\ Cardinality(R) \in Nat
    <3>1. DOMAIN x.graph = 1 .. Len(x.graph) /\ Len(x.graph) \in Nat BY <1>1
    <3>2. IsFiniteSet(1 .. Len(x.graph)) BY <3>1, FS_Interval
    <3>3. IsFiniteSet(R) BY <3>1, <3>2, FS_Subset
    <3> QED BY <3>3, FS_CardinalityType
  <2>3. Reassignments(x, t[1]) = Cardinality(R) - 1
    BY DEF Reassignments
  <2> HIDE DEF R
  <2> QED BY <2>1, <2>2, <2>3, <1>1, <1>3, TaskShape
<1> QED BY <1>1, <1>2, <1>3, GraphTasks DEF EffectiveTasks

\* The keys of the archive.
LEMMA Keys ==
  /\ Key("project-create") \in ReceiptKeys /\ Key("live-finalization") \in ReceiptKeys
  /\ Key("project-complete") \in ReceiptKeys
  /\ TerminalKeys \subseteq ReceiptKeys
  /\ \A t \in Tasks : <<"artifact", t>> \in ReceiptKeys
BY DEF ReceiptKeys, TerminalKeys

-----------------------------------------------------------------------------
(* What stays true while the world grows *)

\* Facts about the world that stay true when it grows.
LEMMA GrowthReflexive ==
  ASSUME NEW u
  PROVE  Grows(u, u)
BY DEF Grows

\* The receipt of the project is not removed from the archive.
LEMMA CreatedStays ==
  ASSUME NEW u, NEW v, Grows(u, v), Created(u)
  PROVE  Created(v)
BY Keys DEF Grows, Created

\* An attempt that has ended does not start again.
LEMMA EndedStays ==
  ASSUME NEW u, NEW v, Grows(u, v)
  PROVE  \A t \in Tasks : (EndedBelow(t, u) => EndedBelow(t, v))
                          /\ (u.at.nodes[t] \in Ended => v.at.nodes[t] \in Ended)
BY DEF Grows, EndedBelow, Lower

\* What backs an accepted contract stays: the node, its artifact and its event.
LEMMA AcceptedStays ==
  ASSUME NEW u, NEW v, Grows(u, v), NEW t \in Tasks, Accepted(t, u)
  PROVE  Accepted(t, v)
<1>1. u.at.nodes[t] \in {"good", "unfit"} /\ u.receipts[<<"artifact", t>>] # "none"
      /\ <<"ARTIFACT_ACCEPTED", t>> \in u.ledger
  BY DEF Accepted
<1>2. v.at.nodes[t] \in {"good", "unfit"} BY <1>1 DEF Grows, Ended
<1>3. v.receipts[<<"artifact", t>>] # "none" BY <1>1, Keys DEF Grows
<1>4. <<"ARTIFACT_ACCEPTED", t>> \in v.ledger BY <1>1 DEF Grows
<1> QED BY <1>2, <1>3, <1>4 DEF Accepted

\* What backs a finished run stays.
LEMMA FinishedStays ==
  ASSUME NEW u, NEW v, Grows(u, v), NEW x, Finished(x, u)
  PROVE  Finished(x, v)
<1>1. v.ego.stage = "COMPLETED" /\ v.at.status = "completed" BY DEF Grows, Finished
<1>2. \A k \in TerminalKeys : v.receipts[k] # "none" BY Keys DEF Grows, Finished
<1> QED BY <1>1, <1>2 DEF Finished

\* A copy of the row stays sound while the services move on without its owner.
LEMMA RunStays ==
  ASSUME NEW u, NEW v, Grows(u, v), NEW x, RunOK(x, u)
  PROVE  RunOK(x, v)
<1>1. x \in Runs /\ x.graph \in Seq(Tasks) /\ x.accepted \subseteq Tasks BY DEF RunOK, Runs
<1>2. Consumed(u) => Consumed(v) BY DEF Grows
<1>3. \A t \in ToSet(x.graph) : EndedBelow(t, v) /\ (t[1] \in ToSet(Post) => Consumed(v))
  BY <1>1, <1>2, GraphTasks, EndedStays DEF RunOK
<1>4. x.committed => Created(v) BY CreatedStays DEF RunOK
<1>5. x.final => v.receipts[Key("live-finalization")] # "none" BY Keys DEF RunOK, Grows
<1>6. \A t \in x.accepted : Accepted(t, v) BY <1>1, AcceptedStays DEF RunOK
<1>7. (x.state = "COMPLETED"
       \/ (x.state = "COMPENSATION_REQUIRED" /\ x.retry = "terminal-notify"))
        => Finished(x, v)
  BY FinishedStays DEF RunOK
<1> QED BY <1>1, <1>2, <1>3, <1>4, <1>5, <1>6, <1>7 DEF RunOK

\* The same of what is asked of the stored row alone.
LEMMA RowStays ==
  ASSUME NEW u, NEW v, Grows(u, v), NEW x, RowOK(x, u)
  PROVE  RowOK(x, v)
BY DEF Grows, RowOK

\* A workflow that was read stays a possible past of the nodes.
LEMMA SnapshotStays ==
  ASSUME NEW u, NEW v, Grows(u, v), NEW f, Snapshot(f, u)
  PROVE  Snapshot(f, v)
BY DEF Grows, Snapshot, Active, Ended

\* What a program point knows of the world stays true.
LEMMA ControlStays ==
  ASSUME NEW u, NEW v, Grows(u, v), NEW f \in Frames, Control(f, u)
  PROVE  Control(f, v)
<1>1. Created(u) => Created(v) BY CreatedStays
<1>2. Consumed(u) => Consumed(v) BY DEF Grows
<1>3. u.ego.stage = "COMPLETED" => v.ego.stage = "COMPLETED" BY DEF Grows
<1>4. u.at.status = "completed" => v.at.status = "completed" BY DEF Grows
<1>5. "TERMINAL" \in u.matrix => "TERMINAL" \in v.matrix BY DEF Grows
<1>6. u.receipts[Key("live-finalization")] # "none" => v.receipts[Key("live-finalization")] # "none"
  BY Keys DEF Grows
<1>7. ASSUME f.pc \in {"r_replan", "r_replaced"} PROVE v.at.nodes[f.task] \in Ended
  <2>1. f.task \in ToSet(f.run.graph) /\ u.at.nodes[f.task] \in Ended BY <1>7 DEF Control
  <2>2. f.run.graph \in Seq(Tasks) BY DEF Frames, Runs
  <2> QED BY <2>1, <2>2, GraphTasks, EndedStays
<1> QED BY <1>1, <1>2, <1>3, <1>4, <1>5, <1>6, <1>7 DEF Control

\* So a frame stays sound in a world that has grown.
LEMMA FrameStays ==
  ASSUME NEW u, NEW v, Grows(u, v), NEW f, NEW x, FrameOK(f, x, u)
  PROVE  FrameOK(f, x, v)
BY RunStays, SnapshotStays, ControlStays DEF FrameOK

\* A worker whose copy has become old.
LEMMA FrameFenced ==
  ASSUME NEW u, NEW v, Grows(u, v), NEW f, NEW x, NEW y, FrameOK(f, x, u)
  PROVE  FrameOK([f EXCEPT !.current = FALSE], y, v)
<1> DEFINE g == [f EXCEPT !.current = FALSE]
<1>1. f \in Frames BY DEF FrameOK
<1>2. /\ g \in Frames /\ g.run = f.run /\ g.wf = f.wf /\ g.pc = f.pc /\ g.task = f.task
      /\ g.current = FALSE
  BY <1>1 DEF Frames
<1> HIDE DEF g
<1>3. FrameOK(f, x, v) BY FrameStays
<1>4. RunOK(g.run, v) BY <1>2, <1>3 DEF FrameOK
<1>5. Snapshot(g, v) BY <1>2, <1>3 DEF FrameOK, Snapshot
<1>6. Control(g, v) BY <1>2, <1>3 DEF FrameOK, Control
<1>7. Current(g, y) BY <1>2 DEF Current
<1>8. FrameOK(g, y, v) BY <1>2, <1>4, <1>5, <1>6, <1>7 DEF FrameOK
<1> QED BY <1>8 DEF g

-----------------------------------------------------------------------------
(* Going on, raising and releasing *)

WfPoints == {"r_cancel", "r_replan", "r_replaced"}

\* A run that was not reserved claims nothing.
LEMMA AbsentRunOK ==
  /\ AbsentRun \in Runs
  /\ NoFrame \in Frames
  /\ NoNodes \in [Tasks -> NodeStatus]
  /\ \A u : RunOK(AbsentRun, u)
<1>1. AbsentRun \in Runs
  <2>1. MaxReassign \in Nat BY BridgeAssumption
  <2>2. <<>> \in Seq(Tasks) OBVIOUS
  <2>3. [t \in Tasks |-> "planned"] \in [Tasks -> RawStatus] BY DEF RawStatus
  <2>4. [t \in Tasks |-> "none"] \in [Tasks -> NodeStatus] BY DEF NodeStatus
  <2>5. 0 \in 0 .. MaxReassign BY <2>1
  <2> QED BY <2>2, <2>3, <2>4, <2>5 DEF AbsentRun, Runs, RunState, RetryOperations
<1>2. NoNodes \in [Tasks -> NodeStatus] BY DEF NoNodes, NodeStatus
<1>3. NoFrame \in Frames BY <1>1, <1>2 DEF NoFrame, Frames, Points
<1>4. \A u : RunOK(AbsentRun, u)
  <2>1. ToSet(AbsentRun.graph) = {} BY DEF AbsentRun, ToSet
  <2> QED BY <1>1, <2>1 DEF AbsentRun, RunOK
<1> QED BY <1>1, <1>2, <1>3, <1>4

\* What a worker carries to the next program point.
LEMMA GotoFields ==
  ASSUME NEW f \in Frames, NEW pc \in Points, pc # "release"
  PROVE  LET g == Goto(f, pc) IN
         /\ g \in Frames /\ g.pc = pc /\ g.run = f.run /\ g.current = f.current
         /\ g.wf = IF pc \in WfPoints THEN f.wf ELSE NoNodes
         /\ g.task = IF pc \in WfPoints THEN f.task ELSE NoTask
<1> DEFINE g == Goto(f, pc)
           wf == IF pc \in WfPoints THEN f.wf ELSE NoNodes
           task == IF pc \in WfPoints THEN f.task ELSE NoTask
<1>1. g = [f EXCEPT !.pc = pc, !.renewed = FALSE, !.wf = wf, !.task = task]
  BY DEF Goto, WfPoints
<1>2. wf \in [Tasks -> NodeStatus] BY AbsentRunOK DEF Frames
<1>3. task \in Tasks \cup {NoTask} BY DEF Frames
<1> HIDE DEF wf, task, g
<1>4. /\ g \in Frames /\ g.pc = pc /\ g.run = f.run /\ g.current = f.current
      /\ g.wf = wf /\ g.task = task
  BY <1>1, <1>2, <1>3 DEF Frames
<1> QED BY <1>4 DEF wf, task, g

\* It keeps the workflow it read or drops it.
LEMMA GotoSnapshot ==
  ASSUME NEW f \in Frames, NEW pc \in Points, pc # "release", NEW v, Snapshot(f, v)
  PROVE  Snapshot(Goto(f, pc), v)
<1> DEFINE g == Goto(f, pc)
<1>1. g.wf = IF pc \in WfPoints THEN f.wf ELSE NoNodes BY GotoFields
<1> HIDE DEF g
<1>2. CASE pc \in WfPoints BY <1>1, <1>2 DEF Snapshot, g
<1>3. CASE pc \notin WfPoints
  <2>1. \A t \in Tasks : g.wf[t] = "none" BY <1>1, <1>3 DEF NoNodes
  <2> QED BY <2>1 DEF Snapshot, Ended, Active, ACTIVE_NODE_STATUSES, g
<1> QED BY <1>2, <1>3

\* Going on to a program point, with the run as it is.
LEMMA GotoOK ==
  ASSUME NEW f, NEW x, NEW u, NEW v, FrameOK(f, x, u), Grows(u, v),
         NEW pc \in Points, pc # "release", Control(Goto(f, pc), v)
  PROVE  FrameOK(Goto(f, pc), x, v)
<1> DEFINE g == Goto(f, pc)
<1>1. FrameOK(f, x, v) BY FrameStays
<1>2. f \in Frames /\ Snapshot(f, v) BY <1>1 DEF FrameOK
<1>3. g \in Frames /\ g.run = f.run /\ g.current = f.current BY <1>2, GotoFields
<1>4. Snapshot(g, v) BY <1>2, GotoSnapshot
<1> HIDE DEF g
<1>5. Current(g, x) BY <1>1, <1>3 DEF Current, FrameOK
<1>6. RunOK(g.run, v) BY <1>1, <1>3 DEF FrameOK
<1> QED BY <1>3, <1>4, <1>5, <1>6 DEF FrameOK, g

\* An operation that ends has dropped its copy.
LEMMA ReleaseFields ==
  ASSUME NEW f
  PROVE  LET g == Goto(f, "release") IN
         /\ g \in Frames /\ g.pc = "release" /\ g.run = AbsentRun /\ g.wf = NoNodes
         /\ g.current = FALSE
<1>1. Goto(f, "release") = [NoFrame EXCEPT !.pc = "release"] BY DEF Goto
<1> QED BY <1>1, AbsentRunOK DEF NoFrame, Frames, Points

\* A worker that has read no workflow claims nothing of the nodes.
LEMMA NoNodesSnapshot ==
  ASSUME NEW g, NEW v, g.wf = NoNodes
  PROVE  Snapshot(g, v)
<1>1. \A t \in Tasks : g.wf[t] = "none" BY DEF NoNodes
<1> QED BY <1>1 DEF Snapshot, Ended, Active, ACTIVE_NODE_STATUSES

\* A frame without a run to go on with.
LEMMA RestingOK ==
  ASSUME NEW g, NEW x, NEW v, g \in Frames, g.pc \in {"idle", "release"}, g.wf = NoNodes,
         g.current = FALSE, RunOK(g.run, v)
  PROVE  FrameOK(g, x, v)
<1>1. Snapshot(g, v) BY NoNodesSnapshot
<1>2. Current(g, x) BY DEF Current
<1>3. Control(g, v) BY DEF Control
<1> QED BY <1>1, <1>2, <1>3 DEF FrameOK

\* So release needs nothing to hold.
LEMMA ReleaseOK ==
  ASSUME NEW f, NEW x, NEW v
  PROVE  FrameOK(Goto(f, "release"), x, v)
<1> DEFINE g == Goto(f, "release")
<1>1. g \in Frames /\ g.pc = "release" /\ g.run = AbsentRun /\ g.wf = NoNodes /\ g.current = FALSE
  BY ReleaseFields
<1> HIDE DEF g
<1>2. RunOK(g.run, v) BY <1>1, AbsentRunOK
<1>3. FrameOK(g, x, v) BY <1>1, <1>2, RestingOK
<1> QED BY <1>3 DEF g

\* An exception goes to the except clause of its operation or to release_operation.
LEMMA HandlerTargets ==
  ASSUME NEW pc
  PROVE  \/ Handler(pc) = "release"
         \/ /\ pc \notin {"idle", "release", "r_commit"}
            /\ Handler(pc) \in {"s_error", "g_error", "replan_error", "approval_error",
                                "s_compensate", "replan_compensate", "g_compensate"}
            /\ pc \notin {"r_send_terminal", "terminal_error"}
         \/ pc = "r_send_terminal" /\ Handler(pc) = "terminal_error"
BY DEF Handler

\* The except clauses need only a run that is under way, or the finished one of TERMINAL.
LEMMA RaiseOK ==
  ASSUME NEW f, NEW x, NEW u, NEW v, FrameOK(f, x, u), Grows(u, v)
  PROVE  FrameOK(Goto(f, Handler(f.pc)), x, v)
<1> DEFINE h == Handler(f.pc)
           g == Goto(f, h)
<1>1. CASE h = "release" BY <1>1, ReleaseOK
<1>2. CASE h # "release"
  <2>1. /\ h \in {"s_error", "g_error", "replan_error", "approval_error", "s_compensate",
                  "replan_compensate", "g_compensate", "terminal_error"}
        /\ h = "terminal_error" => f.pc = "r_send_terminal"
        /\ h # "terminal_error" =>
              f.pc \notin {"idle", "release", "r_commit", "r_send_terminal", "terminal_error"}
    BY <1>2, HandlerTargets
  <2> HIDE DEF h
  <2>2. h \in Points BY <2>1 DEF Points
  <2>3. f \in Frames /\ Control(f, v) BY FrameStays DEF FrameOK
  <2>4. g.pc = h /\ g.run = f.run BY <1>2, <2>2, <2>3, GotoFields
  <2>5. h # "terminal_error" => f.run.state \notin {"ABSENT", "COMPLETED", "BLOCKED"}
    BY <2>1, <2>3 DEF Control
  <2>6. h = "terminal_error" => f.run.state = "COMPLETED"
    BY <2>1, <2>3 DEF Control
  <2> HIDE DEF g
  <2>7. Control(g, v) BY <2>1, <2>4, <2>5, <2>6 DEF Control
  <2>8. FrameOK(Goto(f, h), x, v) BY <1>2, <2>2, <2>7, GotoOK DEF g
  <2> QED BY <2>8 DEF h
<1> QED BY <1>1, <1>2

-----------------------------------------------------------------------------
(* Kinds of steps *)

Leases == [owner : Workers \cup {"nobody", "dead"}, expired : BOOLEAN]

\* What NoLostUpdate says of a step.
Kept == /\ Extends(row', row)
        /\ row.state \in {"COMPLETED", "BLOCKED"} => row'.state = row.state

\* A copy extends itself ...
LEMMA ExtendsSelf ==
  ASSUME NEW x
  PROVE  Extends(x, x)
BY DEF Extends

\* ... and what it extends.
LEMMA ExtendsTrans ==
  ASSUME NEW x, NEW y, NEW z, Extends(x, y), Extends(y, z)
  PROVE  Extends(x, z)
BY DEF Extends

\* The world moves, no worker does.
LEMMA WorldStep ==
  ASSUME IInv, frame' = frame, row' = row, WorldOK(World'), Grows(World, World'),
         lease' \in Leases, faults' \in 0 .. MaxFaults
  PROVE  IInv' /\ Kept
<1>1. RunOK(row, World') /\ RowOK(row, World') BY RunStays, RowStays DEF IInv
<1>2. ASSUME NEW w \in Workers PROVE FrameOK(frame[w], row, World')
  BY FrameStays DEF IInv
<1>3. IInv' BY <1>1, <1>2 DEF IInv, Leases
<1> QED BY <1>3, ExtendsSelf DEF Kept

\* A worker moves, the row stays.
LEMMA FrameStep ==
  ASSUME IInv, NEW w \in Workers, NEW g, frame' = [frame EXCEPT ![w] = g], row' = row,
         FrameOK(g, row, World'), WorldOK(World'), Grows(World, World'),
         lease' \in Leases, faults' \in 0 .. MaxFaults
  PROVE  IInv' /\ Kept
<1>1. RunOK(row, World') /\ RowOK(row, World') BY RunStays, RowStays DEF IInv
<1>2. frame' \in [Workers -> Frames] BY DEF IInv, FrameOK
<1>3. ASSUME NEW v \in Workers PROVE FrameOK(frame'[v], row, World')
  <2>1. CASE v = w BY <2>1 DEF IInv
  <2>2. CASE v # w
    <3>1. frame'[v] = frame[v] BY <2>2 DEF IInv
    <3>2. FrameOK(frame[v], row, World') BY FrameStays DEF IInv
    <3> QED BY <3>1, <3>2
  <2> QED BY <2>1, <2>2
<1>4. IInv' BY <1>1, <1>2, <1>3 DEF IInv, Leases
<1> QED BY <1>4, ExtendsSelf DEF Kept

\* A worker writes the row.
LEMMA WriteStep ==
  ASSUME IInv, NEW w \in Workers, NEW g, NEW r, MayUpdate(w), frame' = Fence(w, g), row' = r,
         FrameOK(g, r, World'), RunOK(r, World'), RowOK(r, World'), Extends(r, frame[w].run),
         WorldOK(World'), Grows(World, World'), lease' \in Leases, faults' \in 0 .. MaxFaults
  PROVE  IInv' /\ Kept
<1>1. ASSUME NEW v \in Workers
      PROVE  frame'[v] = IF v = w THEN g ELSE [frame[v] EXCEPT !.current = FALSE]
  BY DEF Fence
<1>2. ASSUME NEW v \in Workers PROVE FrameOK(frame'[v], r, World')
  <2>1. CASE v = w BY <2>1, <1>1
  <2>2. CASE v # w
    <3>1. FrameOK(frame[v], row, World) BY DEF IInv
    <3>2. FrameOK([frame[v] EXCEPT !.current = FALSE], r, World') BY <3>1, FrameFenced
    <3> QED BY <2>2, <1>1, <3>2
  <2> QED BY <2>1, <2>2
<1>3. frame' \in [Workers -> Frames]
  <2>1. \A v \in Workers : frame'[v] \in Frames BY <1>2 DEF FrameOK
  <2>2. frame' = [v \in Workers |-> IF v = w THEN g ELSE [frame[v] EXCEPT !.current = FALSE]]
    BY DEF Fence
  <2> QED BY <2>1, <2>2
<1>4. IInv' BY <1>2, <1>3 DEF IInv, Leases
<1>5. Current(frame[w], row) /\ frame[w].current BY DEF IInv, FrameOK, MayUpdate
<1>6. row.state \notin {"COMPLETED", "BLOCKED"} /\ Extends(r, row)
  BY <1>5, ExtendsTrans DEF Current
<1> QED BY <1>4, <1>6 DEF Kept

\* The new frame of a worker that wrote a run and goes on.
LEMMA WrittenFields ==
  ASSUME NEW f \in Frames, NEW r \in Runs, NEW pc \in Points, pc # "release"
  PROVE  LET g == [Goto(f, pc) EXCEPT !.run = r] IN
         /\ g \in Frames /\ g.pc = pc /\ g.run = r /\ g.current = f.current
         /\ g.wf = IF pc \in WfPoints THEN f.wf ELSE NoNodes
         /\ g.task = IF pc \in WfPoints THEN f.task ELSE NoTask
<1> DEFINE h == Goto(f, pc)
<1>1. /\ h \in Frames /\ h.pc = pc /\ h.run = f.run /\ h.current = f.current
      /\ h.wf = IF pc \in WfPoints THEN f.wf ELSE NoNodes
      /\ h.task = IF pc \in WfPoints THEN f.task ELSE NoTask
  BY GotoFields
<1> HIDE DEF h
<1> DEFINE g == [h EXCEPT !.run = r]
<1>2. g \in Frames /\ g.pc = h.pc /\ g.run = r /\ g.current = h.current /\ g.wf = h.wf
      /\ g.task = h.task
  BY <1>1 DEF Frames
<1> HIDE DEF g
<1>3. /\ g \in Frames /\ g.pc = pc /\ g.run = r /\ g.current = f.current
      /\ g.wf = IF pc \in WfPoints THEN f.wf ELSE NoNodes
      /\ g.task = IF pc \in WfPoints THEN f.task ELSE NoTask
  BY <1>1, <1>2
<1> QED BY <1>3 DEF g, h

\* The new frame of a worker that wrote a run and ends its operation.
LEMMA WrittenRelease ==
  ASSUME NEW f, NEW r \in Runs, NEW x, NEW v, RunOK(r, v)
  PROVE  FrameOK([Goto(f, "release") EXCEPT !.run = r], x, v)
<1> DEFINE h == Goto(f, "release")
<1>1. h \in Frames /\ h.pc = "release" /\ h.wf = NoNodes /\ h.current = FALSE BY ReleaseFields
<1> HIDE DEF h
<1> DEFINE g == [h EXCEPT !.run = r]
<1>2. g \in Frames /\ g.pc = "release" /\ g.run = r /\ g.current = FALSE /\ g.wf = NoNodes
  BY <1>1 DEF Frames
<1> HIDE DEF g
<1>3. FrameOK(g, x, v) BY <1>2, RestingOK
<1> QED BY <1>3 DEF g, h

\* A step whose only effect is an exception.
LEMMA RaiseStep ==
  ASSUME IInv, NEW w \in Workers, Raise(w), row' = row, WorldOK(World'), Grows(World, World'),
         lease' \in Leases, faults' \in 0 .. MaxFaults
  PROVE  IInv' /\ Kept
<1>1. FrameOK(frame[w], row, World) BY DEF IInv
<1>2. FrameOK(Goto(frame[w], Handler(frame[w].pc)), row, World') BY <1>1, RaiseOK
<1>3. frame' = [frame EXCEPT ![w] = Goto(frame[w], Handler(frame[w].pc))] BY DEF Raise, Step
<1> QED BY <1>2, <1>3, FrameStep

\* A step to another program point.
LEMMA GotoStep ==
  ASSUME IInv, NEW w \in Workers, NEW pc \in Points, pc # "release", Step(w, pc), row' = row,
         Control(Goto(frame[w], pc), World'),
         WorldOK(World'), Grows(World, World'), lease' \in Leases, faults' \in 0 .. MaxFaults
  PROVE  IInv' /\ Kept
<1>1. FrameOK(frame[w], row, World) BY DEF IInv
<1>2. FrameOK(Goto(frame[w], pc), row, World') BY <1>1, GotoOK
<1>3. frame' = [frame EXCEPT ![w] = Goto(frame[w], pc)] BY DEF Step
<1> QED BY <1>2, <1>3, FrameStep

\* A step that ends an operation.
LEMMA ReleaseStep ==
  ASSUME IInv, NEW w \in Workers, Step(w, "release"), row' = row,
         WorldOK(World'), Grows(World, World'), lease' \in Leases, faults' \in 0 .. MaxFaults
  PROVE  IInv' /\ Kept
<1>2. FrameOK(Goto(frame[w], "release"), row, World') BY ReleaseOK
<1>3. frame' = [frame EXCEPT ![w] = Goto(frame[w], "release")] BY DEF Step
<1> QED BY <1>2, <1>3, FrameStep

\* update_run.
LEMMA UpdateStep ==
  ASSUME IInv, NEW w \in Workers, NEW r, NEW pc \in Points, Update(w, r, pc),
         RunOK(r, World'), RowOK(r, World'), Extends(r, frame[w].run),
         pc # "release" => /\ r.state \notin {"ABSENT", "COMPLETED", "BLOCKED"}
                           /\ Control([Goto(frame[w], pc) EXCEPT !.run = r], World'),
         pc \notin WfPoints,
         WorldOK(World'), Grows(World, World'), lease' \in Leases, faults' \in 0 .. MaxFaults
  PROVE  IInv' /\ Kept
<1>1. CASE ~MayUpdate(w)
  <2>1. Raise(w) /\ row' = row BY <1>1 DEF Update
  <2> QED BY <2>1, RaiseStep
<1>2. CASE MayUpdate(w)
  <2> DEFINE g == [Goto(frame[w], pc) EXCEPT !.run = r]
  <2>1. row' = r /\ frame' = Fence(w, g) BY <1>2 DEF Update
  <2>2. r \in Runs BY DEF RunOK
  <2>3. FrameOK(g, r, World')
    <3>1. CASE pc = "release" BY <3>1, <2>2, WrittenRelease
    <3>2. CASE pc # "release"
      <4>1. frame[w] \in Frames BY DEF IInv
      <4>2. g \in Frames /\ g.run = r /\ g.wf = NoNodes
        BY <4>1, <2>2, <3>2, WrittenFields
      <4> HIDE DEF g
      <4>3. Snapshot(g, World') BY <4>2, NoNodesSnapshot
      <4>4. Current(g, r) BY <4>2, <3>2, ExtendsSelf DEF Current
      <4>5. Control(g, World') BY <3>2 DEF g
      <4> QED BY <4>2, <4>3, <4>4, <4>5 DEF FrameOK
    <3> QED BY <3>1, <3>2
  <2> HIDE DEF g
  <2> QED BY <1>2, <2>1, <2>3, WriteStep
<1> QED BY <1>1, <1>2

-----------------------------------------------------------------------------
(* Calls of the other services *)

\* Nothing moves outside the row and the frames.
LEMMA SameWorld ==
  ASSUME IInv, at' = at, ego' = ego, receipts' = receipts, ledger' = ledger, matrix' = matrix
  PROVE  World' = World /\ WorldOK(World') /\ Grows(World, World')
<1>1. World' = World BY DEF World
<1> QED BY <1>1, GrowthReflexive DEF IInv

\* The lease stays.
LEMMA SameLease ==
  ASSUME IInv, lease' = lease
  PROVE  lease' \in Leases
BY DEF IInv, Leases

\* No fault is spent.
LEMMA SameFaults ==
  ASSUME IInv, faults' = faults
  PROVE  faults' \in 0 .. MaxFaults
BY DEF IInv

\* A fault is spent within the bound.
LEMMA SpendType ==
  ASSUME IInv, NEW outcome, Spend(outcome)
  PROVE  faults' \in 0 .. MaxFaults
BY BridgeAssumption DEF IInv, Spend

\* A world that differs in the Controller's project alone.
After(n) == [at |-> n, ego |-> ego, receipts |-> receipts, ledger |-> ledger, matrix |-> matrix]

\* What After keeps of the world.
LEMMA AfterFields ==
  ASSUME NEW n
  PROVE  /\ After(n).at = n /\ After(n).ego = World.ego /\ After(n).receipts = World.receipts
         /\ After(n).ledger = World.ledger /\ After(n).matrix = World.matrix
BY DEF After, World

\* The nodes stay; the status of the project does not leave "completed", the archive, the
\* events and the room only ever get more.
LEMMA StatusMoves ==
  ASSUME NEW u, NEW v, WorldOK(u), v.at \in Projects, v.at.nodes = u.at.nodes,
         u.at.status = "completed" => v.at.status = "completed", v.ego = u.ego,
         v.receipts \in Archives,
         \A k \in ReceiptKeys : u.receipts[k] # "none" => v.receipts[k] # "none",
         u.ledger \subseteq v.ledger, u.matrix \subseteq v.matrix
  PROVE  WorldOK(v) /\ Grows(u, v)
<1>1. Grows(u, v) BY DEF Grows, Consumed
<1>2. (Created(u) => Created(v)) /\ (Consumed(v) <=> Consumed(u)) BY Keys DEF Created, Consumed
<1>3. \A t \in Tasks : EndedBelow(t, v) <=> EndedBelow(t, u) BY DEF EndedBelow
<1>4. WorldOK(v) BY <1>2, <1>3 DEF WorldOK
<1> QED BY <1>1, <1>4

\* The nodes move, each along its life.
LEMMA NodesMove ==
  ASSUME NEW u, NEW v, WorldOK(u), v.at \in Projects, v.at.status = u.at.status,
         v.ego = u.ego, v.receipts = u.receipts, v.ledger = u.ledger, v.matrix = u.matrix,
         \A t \in Tasks : /\ u.at.nodes[t] \in Ended => v.at.nodes[t] = u.at.nodes[t]
                          /\ u.at.nodes[t] \in Active => v.at.nodes[t] \in Active \cup Ended,
         \A t \in Tasks : (v.at.nodes[t] # "none" /\ u.at.nodes[t] = "none") =>
              EndedBelow(t, u) /\ Created(u) /\ (t[1] \in ToSet(Post) => Consumed(u))
  PROVE  WorldOK(v) /\ Grows(u, v)
<1>1. Grows(u, v) BY DEF Grows, Consumed
<1>2. (Created(v) <=> Created(u)) /\ (Consumed(v) <=> Consumed(u)) BY DEF Created, Consumed
<1>3. ASSUME NEW t \in Tasks, v.at.nodes[t] # "none"
      PROVE  EndedBelow(t, v) /\ Created(v) /\ (t[1] \in ToSet(Post) => Consumed(v))
  <2>1. EndedBelow(t, u) /\ Created(u) /\ (t[1] \in ToSet(Post) => Consumed(u))
    BY <1>3 DEF WorldOK
  <2>2. EndedBelow(t, v) BY <1>1, <2>1, EndedStays
  <2> QED BY <2>1, <2>2, <1>2
<1>4. v.ego \in Egos /\ v.receipts \in Archives BY DEF WorldOK
<1>5. (Consumed(v) => v.ego.stage \in {"EXECUTE", "COMPLETED"})
      /\ (v.ego.stage # "INTAKE" => Created(v))
  BY <1>2 DEF WorldOK
<1>6. WorldOK(v) BY <1>3, <1>4, <1>5 DEF WorldOK
<1> QED BY <1>1, <1>6

\* What a call makes of the status of the project.
LEMMA StatusCalls ==
  ASSUME IInv
  PROVE  \A n \in {at, ProjectCreated, ProjectCompleted, Paused, Resumed} :
            WorldOK(After(n)) /\ Grows(World, After(n))
<1>1. at \in Projects /\ WorldOK(World) /\ World.at = at BY DEF IInv, WorldOK, World
<1>2. \A n \in {at, ProjectCreated, ProjectCompleted, Paused, Resumed} :
         /\ n \in Projects /\ n.nodes = at.nodes
         /\ at.status = "completed" => n.status = "completed"
  BY <1>1 DEF ProjectCreated, ProjectCompleted, Paused, Resumed, Projects
<1>3. World.receipts \in Archives BY <1>1 DEF WorldOK
<1> QED BY <1>1, <1>2, <1>3, AfterFields, StatusMoves

\* A replan may add the tasks of a list that have their turn.
LEMMA PlanCalls ==
  ASSUME IInv, NEW tasks,
         \A t \in tasks \cap Tasks :
              EndedBelow(t, World) /\ Created(World) /\ (t[1] \in ToSet(Post) => Consumed(World))
  PROVE  WorldOK(After(Planned(tasks))) /\ Grows(World, After(Planned(tasks)))
<1> DEFINE n == Planned(tasks)
<1>1. at \in Projects /\ WorldOK(World) /\ World.at = at BY DEF IInv, WorldOK, World
<1>2. /\ n.status = at.status
      /\ \A t \in Tasks : n.nodes[t] = IF t \in tasks /\ at.nodes[t] = "none" THEN "pending"
                                       ELSE at.nodes[t]
      /\ n \in Projects
  BY <1>1 DEF Planned, Projects, NodeStatus
<1> HIDE DEF n
<1>3. \A t \in Tasks : /\ at.nodes[t] \in Ended => n.nodes[t] = at.nodes[t]
                       /\ at.nodes[t] \in Active => n.nodes[t] \in Active \cup Ended
  BY <1>2 DEF Ended, Active, ACTIVE_NODE_STATUSES
<1>4. \A t \in Tasks : (n.nodes[t] # "none" /\ at.nodes[t] = "none") =>
              EndedBelow(t, World) /\ Created(World) /\ (t[1] \in ToSet(Post) => Consumed(World))
  BY <1>2
<1>5. WorldOK(After(n)) /\ Grows(World, After(n))
  BY <1>1, <1>2, <1>3, <1>4, AfterFields, NodesMove
<1> QED BY <1>5 DEF n

\* The cancellation of an active attempt ends it.
LEMMA CancelCalls ==
  ASSUME IInv, NEW t \in Tasks
  PROVE  /\ WorldOK(After(Cancelled(t))) /\ Grows(World, After(Cancelled(t)))
         /\ at.nodes[t] \in Active \cup Ended => Cancelled(t).nodes[t] \in Ended
<1> DEFINE n == Cancelled(t)
<1>1. at \in Projects /\ WorldOK(World) /\ World.at = at BY DEF IInv, WorldOK, World
<1>2. /\ n.status = at.status
      /\ \A s \in Tasks : n.nodes[s] = IF s = t /\ at.nodes[s] \in Active THEN "blocked"
                                       ELSE at.nodes[s]
      /\ n \in Projects
  BY <1>1 DEF Cancelled, Projects, NodeStatus, Active
<1> HIDE DEF n
<1>3. \A s \in Tasks : /\ at.nodes[s] \in Ended => n.nodes[s] = at.nodes[s]
                       /\ at.nodes[s] \in Active => n.nodes[s] \in Active \cup Ended
  BY <1>2 DEF Ended, Active, ACTIVE_NODE_STATUSES
<1>4. \A s \in Tasks : ~(n.nodes[s] # "none" /\ at.nodes[s] = "none")
  BY <1>2 DEF Active, ACTIVE_NODE_STATUSES
<1>5. WorldOK(After(n)) /\ Grows(World, After(n))
  BY <1>1, <1>2, <1>3, <1>4, AfterFields, NodesMove
<1>6. at.nodes[t] \in Active \cup Ended => n.nodes[t] \in Ended BY <1>2 DEF Ended
<1> QED BY <1>5, <1>6 DEF n

\* A call of the Controller.
LEMMA CallStep ==
  ASSUME IInv, NEW w \in Workers, NEW next, NEW pc \in Points, pc # "release",
         CallController(w, next, pc),
         WorldOK(After(next)), Grows(World, After(next)),
         Control(Goto(frame[w], pc), After(next))
  PROVE  IInv' /\ Kept
<1>1. PICK outcome \in Outcomes \ {"malformed"} :
        /\ Spend(outcome)
        /\ at' = IF outcome = "refused" THEN at ELSE next
        /\ IF outcome = "ok" THEN Step(w, pc) ELSE Raise(w)
        /\ UNCHANGED <<Stored, lease, matrix, ego>>
  BY DEF CallController
<1>2. faults' \in 0 .. MaxFaults /\ lease' \in Leases BY <1>1, SpendType, SameLease
<1>3. row' = row /\ ego' = ego /\ receipts' = receipts /\ ledger' = ledger /\ matrix' = matrix
  BY <1>1 DEF Stored
<1>4. CASE outcome = "ok"
  <2>1. World' = After(next) BY <1>1, <1>3, <1>4 DEF World, After
  <2>2. Step(w, pc) BY <1>1, <1>4
  <2> QED BY <1>2, <1>3, <2>1, <2>2, GotoStep
<1>5. CASE outcome = "refused"
  <2>1. at' = at /\ Raise(w) BY <1>1, <1>5
  <2> QED BY <1>2, <1>3, <2>1, SameWorld, RaiseStep
<1>6. CASE outcome \notin {"ok", "refused"}
  <2>1. World' = After(next) BY <1>1, <1>3, <1>6 DEF World, After
  <2>2. Raise(w) BY <1>1, <1>6
  <2> QED BY <1>2, <1>3, <2>1, <2>2, RaiseStep
<1> QED BY <1>4, <1>5, <1>6

\* The archive, the events and the room only ever get more.
LEMMA StoresMove ==
  ASSUME IInv, at' \in {at, ProjectCreated}, ego' = ego, receipts' \in Archives,
         \A k \in ReceiptKeys : receipts[k] # "none" => receipts'[k] # "none",
         ledger \subseteq ledger', matrix \subseteq matrix'
  PROVE  WorldOK(World') /\ Grows(World, World')
<1> DEFINE u == World
           v == World'
<1>1. at \in Projects /\ WorldOK(u) BY DEF IInv, WorldOK, World
<1>2. /\ at' \in Projects /\ at'.nodes = at.nodes
      /\ (at.status = "completed" => at'.status = "completed")
  BY <1>1 DEF ProjectCreated, Projects
<1>3. /\ v.at = at' /\ u.at = at /\ v.ego = u.ego /\ v.receipts = receipts'
      /\ u.receipts = receipts
      /\ u.ledger \subseteq v.ledger /\ u.matrix \subseteq v.matrix
  BY DEF World
<1> HIDE DEF u, v
<1>4. WorldOK(v) /\ Grows(u, v) BY <1>1, <1>2, <1>3, StatusMoves
<1> QED BY <1>4 DEF u, v

\* archive_receipt adds to the archive.
LEMMA ReceiptKept ==
  ASSUME IInv, NEW key \in ReceiptKeys, NEW v \in Variants,
         receipts' = [receipts EXCEPT ![key] = v]
  PROVE  /\ receipts' \in Archives /\ receipts'[key] # "none"
         /\ \A k \in ReceiptKeys : receipts[k] # "none" => receipts'[k] # "none"
<1>1. receipts \in Archives BY DEF IInv, WorldOK, World
<1> QED BY <1>1, BridgeAssumption DEF Archives

\* _send.
LEMMA SendStep ==
  ASSUME IInv, NEW w \in Workers, NEW kind, NEW pc \in Points, pc # "release",
         Send(w, kind, pc),
         \A v : (Grows(World, v) /\ kind \in v.matrix) => Control(Goto(frame[w], pc), v)
  PROVE  IInv' /\ Kept
<1>1. PICK outcome \in Outcomes \ {"malformed"} :
        /\ Spend(outcome)
        /\ matrix' = IF outcome = "refused" THEN matrix ELSE Delivered(kind)
        /\ IF outcome = "ok" /\ OwnsLease(w)
           THEN /\ ledger' = ledger \cup {<<kind, NoTask>>}
                /\ Step(w, pc)
           ELSE /\ Raise(w)
                /\ UNCHANGED ledger
        /\ UNCHANGED <<row, receipts, lease, at, ego>>
  BY DEF Send
<1>2. faults' \in 0 .. MaxFaults /\ lease' \in Leases BY <1>1, SpendType, SameLease
<1>3. row' = row /\ ego' = ego /\ receipts' = receipts /\ at' = at BY <1>1
<1>4. ledger \subseteq ledger' /\ matrix \subseteq matrix' BY <1>1 DEF Delivered
<1>5. WorldOK(World') /\ Grows(World, World')
  <2>1. receipts' \in Archives BY <1>3 DEF IInv, WorldOK, World
  <2> QED BY <1>3, <1>4, <2>1, StoresMove
<1>6. CASE outcome = "ok" /\ OwnsLease(w)
  <2>1. Step(w, pc) BY <1>1, <1>6
  <2>2. kind \in World'.matrix BY <1>1, <1>6 DEF Delivered, World
  <2>3. Control(Goto(frame[w], pc), World') BY <1>5, <2>2
  <2> QED BY <1>2, <1>3, <1>5, <2>1, <2>3, GotoStep
<1>7. CASE ~(outcome = "ok" /\ OwnsLease(w))
  <2>1. Raise(w) BY <1>1, <1>7
  <2> QED BY <1>2, <1>3, <1>5, <2>1, RaiseStep
<1> QED BY <1>6, <1>7

-----------------------------------------------------------------------------
(* Plain program points *)

\* Program points of which Control asks nothing but a run that is under way.
Plain == {"s_workers", "s_project", "s_envelope", "s_send", "s_finish", "s_error",
          "s_compensate", "r_read", "r_send_replan", "replan_error",
          "replan_compensate", "r_decide", "r_pause", "r_send_approval", "r_waiting",
          "approval_error", "g_check", "g_consume", "g_unverified", "g_send", "g_finish",
          "g_error", "g_compensate"}

UnderWay(f) == f.run.state \notin {"ABSENT", "COMPLETED", "BLOCKED"}
Apart == {"idle", "release", "r_commit", "r_send_terminal", "terminal_error"}

\* A plain program point asks for nothing but a run under way.
LEMMA PlainControl ==
  ASSUME NEW g, NEW v, g.pc \in Plain, UnderWay(g)
  PROVE  Control(g, v)
BY DEF Control, Plain, UnderWay

\* At most program points the run is under way.
LEMMA GoingOn ==
  ASSUME NEW f, NEW u, Control(f, u), f.pc \notin Apart
  PROVE  UnderWay(f)
BY DEF Control, UnderWay, Apart

\* The plain points are none of the special ones.
LEMMA PlainPoints ==
  Plain \subseteq Points \ {"release"} /\ Plain \cap WfPoints = {} /\ Plain \cap Apart = {}
BY DEF Plain, Points, WfPoints, Apart

\* What the invariant says of a worker.
LEMMA FrameFacts ==
  ASSUME IInv, NEW w \in Workers
  PROVE  /\ frame[w] \in Frames /\ frame[w].run \in Runs
         /\ RunOK(frame[w].run, World) /\ Snapshot(frame[w], World)
         /\ Current(frame[w], row) /\ Control(frame[w], World)
         /\ frame[w].pc \notin Apart => UnderWay(frame[w])
BY GoingOn DEF IInv, FrameOK, RunOK

\* A worker may always go on to a plain point.
LEMMA PlainGoto ==
  ASSUME IInv, NEW w \in Workers, frame[w].pc \notin Apart, NEW pc \in Plain
  PROVE  \A v : Control(Goto(frame[w], pc), v)
<1> DEFINE g == Goto(frame[w], pc)
<1>1. frame[w] \in Frames /\ UnderWay(frame[w]) BY FrameFacts
<1>2. g.pc = pc /\ g.run = frame[w].run BY <1>1, GotoFields, PlainPoints
<1> HIDE DEF g
<1>3. UnderWay(g) BY <1>1, <1>2 DEF UnderWay
<1>4. \A v : Control(g, v) BY <1>2, <1>3, PlainControl
<1> QED BY <1>4 DEF g

\* The step to a plain point, in a world that has grown.
LEMMA PlainStep ==
  ASSUME IInv, NEW w \in Workers, frame[w].pc \notin Apart, NEW pc \in Plain, Step(w, pc),
         row' = row, WorldOK(World'), Grows(World, World'),
         lease' \in Leases, faults' \in 0 .. MaxFaults
  PROVE  IInv' /\ Kept
BY PlainGoto, PlainPoints, GotoStep

\* A call that changes the status of the project and goes on to a plain point.
LEMMA PlainCall ==
  ASSUME IInv, NEW w \in Workers, frame[w].pc \notin Apart, NEW pc \in Plain,
         NEW next, next \in {at, ProjectCreated, ProjectCompleted, Paused, Resumed},
         CallController(w, next, pc)
  PROVE  IInv' /\ Kept
<1>1. WorldOK(After(next)) /\ Grows(World, After(next)) BY StatusCalls
<1> QED BY <1>1, PlainGoto, PlainPoints, CallStep

\* _send, going on to a plain point.
LEMMA PlainSend ==
  ASSUME IInv, NEW w \in Workers, frame[w].pc \notin Apart, NEW pc \in Plain, NEW kind,
         Send(w, kind, pc)
  PROVE  IInv' /\ Kept
BY PlainGoto, PlainPoints, SendStep

\* An operation is admitted: the frame starts with the stored row.
LEMMA ClaimStep ==
  ASSUME IInv, NEW w \in Workers, NEW pc \in Plain, Claim(w, pc),
         row.state \notin {"ABSENT", "COMPLETED", "BLOCKED"},
         UNCHANGED <<Stored, External, faults>>
  PROVE  IInv' /\ Kept
<1> DEFINE g == [NoFrame EXCEPT !.pc = pc, !.run = row, !.current = TRUE]
<1>1. row \in Runs BY DEF IInv, RunOK
<1>2. pc \in Points BY PlainPoints
<1>3. /\ g \in Frames /\ g.pc = pc /\ g.run = row /\ g.wf = NoNodes
  BY <1>1, <1>2, AbsentRunOK DEF NoFrame, Frames
<1>4. frame' = [frame EXCEPT ![w] = g] BY DEF Claim
<1> HIDE DEF g
<1>5. Snapshot(g, World) BY <1>3, NoNodesSnapshot
<1>6. Current(g, row) BY <1>3, ExtendsSelf DEF Current
<1>7. Control(g, World) BY <1>3, PlainControl DEF UnderWay
<1>8. FrameOK(g, row, World) BY <1>3, <1>5, <1>6, <1>7 DEF FrameOK, IInv
<1>9. World' = World /\ WorldOK(World') /\ Grows(World, World') /\ row' = row
      /\ faults' \in 0 .. MaxFaults
  BY SameWorld, SameFaults DEF Stored, External
<1>10. lease' \in Leases BY DEF Claim, Leases
<1> QED BY <1>4, <1>8, <1>9, <1>10, FrameStep

\* A run whose fields have changed, with the graph and the accepted tasks as they were.
LEMMA RunChanges ==
  ASSUME NEW x, NEW y \in Runs, NEW u, RunOK(x, u),
         y.graph = x.graph, y.accepted = x.accepted,
         y.grant => Consumed(u), y.committed => Created(u),
         y.final => u.receipts[Key("live-finalization")] # "none",
         "POST_APPROVAL" \in {y.state, y.resume} => y.grant,
         (y.state = "COMPLETED"
            \/ (y.state = "COMPENSATION_REQUIRED" /\ y.retry = "terminal-notify"))
           => Finished(y, u)
  PROVE  RunOK(y, u)
BY DEF RunOK

\* PostAccepted depends on the graph and the accepted tasks.
LEMMA PostAcceptedSame ==
  ASSUME NEW x, NEW y, y.graph = x.graph, y.accepted = x.accepted, PostAccepted(x)
  PROVE  PostAccepted(y)
BY DEF PostAccepted, EffectiveTasks, Effective, Reassignments

\* So does Finished, with the grant and the finalization.
LEMMA FinishedSame ==
  ASSUME NEW x, NEW y, NEW u, Finished(x, u), y.graph = x.graph, y.accepted = x.accepted,
         x.final => y.final, x.grant => y.grant
  PROVE  Finished(y, u)
BY PostAcceptedSame DEF Finished

-----------------------------------------------------------------------------
(* start_run *)

\* Steps that leave the other services and the archive alone.
LEMMA QuietStep ==
  ASSUME IInv, UNCHANGED <<receipts, ledger, lease, External, faults>>
  PROVE  /\ World' = World /\ WorldOK(World') /\ Grows(World, World')
         /\ lease' \in Leases /\ faults' \in 0 .. MaxFaults
BY SameWorld, SameLease, SameFaults DEF External

\* Program point and run of a worker that has written.
LEMMA WrittenPoint ==
  ASSUME NEW f \in Frames, NEW r \in Runs, NEW pc \in Points, pc # "release"
  PROVE  [Goto(f, pc) EXCEPT !.run = r].pc = pc /\ [Goto(f, pc) EXCEPT !.run = r].run = r
<1> DEFINE h == Goto(f, pc)
<1>1. h \in Frames /\ h.pc = pc BY GotoFields
<1> HIDE DEF h
<1>2. [h EXCEPT !.run = r].pc = pc /\ [h EXCEPT !.run = r].run = r BY <1>1 DEF Frames
<1> QED BY <1>2 DEF h

\* update_run, and on to another point.
LEMMA UpdateTo ==
  ASSUME IInv, NEW w \in Workers, NEW r, NEW pc \in Points, pc # "release", pc \notin WfPoints,
         Update(w, r, pc), RunOK(r, World), Extends(r, frame[w].run),
         r.state \notin {"ABSENT", "COMPLETED", "BLOCKED"},
         \A g : (g.pc = pc /\ g.run = r) => Control(g, World),
         UNCHANGED <<receipts, ledger, lease, External, faults>>
  PROVE  IInv' /\ Kept
<1> DEFINE g == [Goto(frame[w], pc) EXCEPT !.run = r]
<1>1. /\ World' = World /\ WorldOK(World') /\ Grows(World, World')
      /\ lease' \in Leases /\ faults' \in 0 .. MaxFaults
  BY QuietStep
<1>2. frame[w] \in Frames BY FrameFacts
<1>3. r \in Runs BY DEF RunOK
<1>4. g.pc = pc /\ g.run = r BY <1>2, <1>3, WrittenPoint
<1>5. RowOK(r, World) BY DEF RowOK
<1>6. Control(g, World) BY <1>4
<1> QED BY <1>1, <1>5, <1>6, UpdateStep

\* update_run, and on to a plain point.
LEMMA UpdatePlain ==
  ASSUME IInv, NEW w \in Workers, NEW r, NEW pc \in Plain,
         Update(w, r, pc), RunOK(r, World), Extends(r, frame[w].run),
         r.state \notin {"ABSENT", "COMPLETED", "BLOCKED"},
         UNCHANGED <<receipts, ledger, lease, External, faults>>
  PROVE  IInv' /\ Kept
<1>1. pc \in Points /\ pc # "release" /\ pc \notin WfPoints BY PlainPoints
<1>2. \A g : (g.pc = pc /\ g.run = r) => Control(g, World) BY PlainControl DEF UnderWay
<1> QED BY <1>1, <1>2, UpdateTo

\* The update_run that ends an operation; it may come with an event.
LEMMA UpdateRelease ==
  ASSUME IInv, NEW w \in Workers, NEW r, Update(w, r, "release"),
         RunOK(r, World), RowOK(r, World), Extends(r, frame[w].run),
         ledger \subseteq ledger', UNCHANGED <<receipts, lease, External, faults>>
  PROVE  IInv' /\ Kept
<1>1. "release" \in Points /\ "release" \notin WfPoints BY DEF Points, WfPoints
<1>2. lease' \in Leases /\ faults' \in 0 .. MaxFaults BY SameLease, SameFaults
<1>3. receipts' \in Archives BY DEF IInv, WorldOK, World
<1>4. WorldOK(World') /\ Grows(World, World') BY <1>3, StoresMove DEF External
<1>5. RunOK(r, World') /\ RowOK(r, World') BY <1>4, RunStays, RowStays
<1> QED BY <1>1, <1>2, <1>4, <1>5, UpdateStep

\* The reservation: first attempts of pre-approval tasks, over a row that is absent.
LEMMA StartReserveKeeps ==
  ASSUME IInv, NEW w \in Workers, StartReserve(w)
  PROVE  IInv' /\ Kept
<1>1. PICK budget \in 0 .. MaxReassign :
        row' = [AbsentRun EXCEPT !.state = "PROVISIONING", !.graph = BuildTaskGraph(Pre),
                                 !.max_reassignments = budget]
  BY DEF StartReserve
<1> DEFINE r == [AbsentRun EXCEPT !.state = "PROVISIONING", !.graph = BuildTaskGraph(Pre),
                                  !.max_reassignments = budget]
<1>2. row.state = "ABSENT" /\ frame' = frame BY DEF StartReserve
<1>3. /\ World' = World /\ WorldOK(World') /\ Grows(World, World')
      /\ lease' \in Leases /\ faults' \in 0 .. MaxFaults
  BY QuietStep DEF StartReserve
<1>4. row = AbsentRun BY <1>2 DEF IInv, RowOK
<1>5. /\ BuildTaskGraph(Pre) \in Seq(Tasks)
      /\ \A t \in ToSet(BuildTaskGraph(Pre)) : t \in Tasks /\ t[1] \in ToSet(Pre) /\ t[2] = 1
  BY OriginsAreParts, FirstAttempts
<1>6. /\ r \in Runs /\ r.graph = BuildTaskGraph(Pre) /\ r.state = "PROVISIONING"
      /\ r.resume = "ABSENT" /\ ~r.grant /\ ~r.committed /\ ~r.final /\ r.accepted = {}
  BY <1>5, AbsentRunOK DEF AbsentRun, Runs, RunState
<1> HIDE DEF r
<1>7. RunOK(r, World)
  <2>1. ASSUME NEW t \in ToSet(r.graph)
        PROVE  EndedBelow(t, World) /\ (t[1] \in ToSet(Post) => Consumed(World))
    <3>1. t[1] \in ToSet(Pre) /\ t[2] = 1 BY <1>5, <1>6
    <3>2. Lower(t) = {} BY <3>1, TaskShape DEF Lower
    <3>3. t[1] \notin ToSet(Post) BY <3>1, BridgeAssumption
    <3> QED BY <3>2, <3>3 DEF EndedBelow
  <2> QED BY <1>6, <2>1 DEF RunOK
<1>8. RowOK(r, World) BY <1>6 DEF RowOK
<1>9. ASSUME NEW v \in Workers PROVE FrameOK(frame[v], r, World)
  <2>1. FrameOK(frame[v], row, World) BY DEF IInv
  <2>2. ~frame[v].current BY <1>2, <2>1 DEF FrameOK, Current, IInv
  <2> QED BY <2>1, <2>2 DEF FrameOK, Current
<1>10. row' = r BY <1>1 DEF r
<1>11. IInv' BY <1>2, <1>3, <1>7, <1>8, <1>9, <1>10 DEF IInv, Leases
<1>12. Kept
  <2>1. ToSet(AbsentRun.graph) = {} BY DEF AbsentRun, ToSet
  <2>2. Extends(r, AbsentRun) BY <2>1 DEF Extends, AbsentRun
  <2> QED BY <2>2, <1>2, <1>4, <1>10 DEF Kept
<1> QED BY <1>11, <1>12

\* The claim reads the row in the transaction that takes the lease.
LEMMA StartClaimKeeps ==
  ASSUME IInv, NEW w \in Workers, StartClaim(w)
  PROVE  IInv' /\ Kept
<1>1. "s_workers" \in Plain BY DEF Plain
<1> QED BY <1>1, ClaimStep DEF StartClaim

\* _ensure_workers_ready changes nothing the invariant speaks of.
LEMMA StartWorkersKeeps ==
  ASSUME IInv, NEW w \in Workers, StartWorkers(w)
  PROVE  IInv' /\ Kept
<1>1. "s_project" \in Plain /\ "s_workers" \notin Apart BY DEF Plain, Apart
<1> QED BY <1>1, PlainCall DEF StartWorkers, Ready

\* The run as it is once the project is confirmed.
LEMMA CommittedRun ==
  ASSUME NEW x, NEW u, RunOK(x, u), Created(u)
  PROVE  LET r == [x EXCEPT !.committed = TRUE] IN
         RunOK(r, u) /\ r.state = x.state /\ Extends(r, x)
<1> DEFINE r == [x EXCEPT !.committed = TRUE]
<1>1. x \in Runs BY DEF RunOK
<1>2. /\ r \in Runs /\ r.graph = x.graph /\ r.accepted = x.accepted /\ r.grant = x.grant
      /\ r.committed /\ r.final = x.final /\ r.state = x.state /\ r.resume = x.resume
      /\ r.retry = x.retry
  BY <1>1 DEF Runs
<1> HIDE DEF r
<1>3. (x.state = "COMPLETED"
         \/ (x.state = "COMPENSATION_REQUIRED" /\ x.retry = "terminal-notify"))
        => Finished(r, u)
  BY <1>2, FinishedSame DEF RunOK
<1>4. RunOK(r, u) BY <1>2, <1>3, RunChanges DEF RunOK
<1>5. Extends(r, x) BY <1>2 DEF Extends
<1> QED BY <1>2, <1>4, <1>5 DEF r

\* update_run of a confirmed project.
LEMMA CommitStep ==
  ASSUME IInv, NEW w \in Workers, frame[w].pc \notin Apart, Created(World),
         Update(w, [frame[w].run EXCEPT !.committed = TRUE], "s_replan"),
         UNCHANGED <<receipts, ledger, lease, External, faults>>
  PROVE  IInv' /\ Kept
<1> DEFINE r == [frame[w].run EXCEPT !.committed = TRUE]
<1>1. RunOK(frame[w].run, World) /\ UnderWay(frame[w]) BY FrameFacts
<1>2. RunOK(r, World) /\ r.state = frame[w].run.state /\ Extends(r, frame[w].run)
  BY <1>1, CommittedRun
<1>3. "s_replan" \in Points /\ "s_replan" \notin WfPoints BY DEF Points, WfPoints
<1>4. r.state \notin {"ABSENT", "COMPLETED", "BLOCKED"} BY <1>1, <1>2 DEF UnderWay
<1> HIDE DEF r
<1>5. \A g : (g.pc = "s_replan" /\ g.run = r) => Control(g, World) BY <1>4 DEF Control
<1>6. Update(w, r, "s_replan") BY DEF r
<1> QED BY <1>2, <1>3, <1>4, <1>5, <1>6, UpdateTo

\* After the project is known to be created, the run may be replanned.
LEMMA ReplanControl ==
  ASSUME IInv, NEW w \in Workers, frame[w].pc \notin Apart,
         NEW pc, pc \in {"s_replan", "s_committed"},
         NEW v, Created(v)
  PROVE  Control(Goto(frame[w], pc), v)
<1> DEFINE g == Goto(frame[w], pc)
<1>1. frame[w] \in Frames /\ UnderWay(frame[w]) BY FrameFacts
<1>2. pc \in Points /\ pc # "release" BY DEF Points
<1>3. g.pc = pc /\ g.run = frame[w].run BY <1>1, <1>2, GotoFields
<1> HIDE DEF g
<1>4. Control(g, v) BY <1>1, <1>3 DEF Control, UnderWay
<1> QED BY <1>4 DEF g

\* _confirm_reserved_project: the project is created by this call or was by an earlier one.
LEMMA StartProjectKeeps ==
  ASSUME IInv, NEW w \in Workers, StartProject(w)
  PROVE  IInv' /\ Kept
<1>1. frame[w].pc = "s_project" /\ frame[w].pc \notin Apart BY DEF StartProject, Ready, Apart
<1>2. UNCHANGED <<lease, matrix, ego>> BY DEF StartProject
<1>3. CASE frame[w].run.committed
  <2>1. Step(w, "s_replan") /\ UNCHANGED <<Stored, at, faults>> BY <1>3 DEF StartProject
  <2>2. Created(World) BY <1>3, FrameFacts DEF RunOK
  <2>3. /\ World' = World /\ WorldOK(World') /\ Grows(World, World')
        /\ lease' \in Leases /\ faults' \in 0 .. MaxFaults
    BY <1>2, <2>1, QuietStep DEF Stored, External
  <2>4. Control(Goto(frame[w], "s_replan"), World') BY <1>1, <2>2, <2>3, ReplanControl
  <2>5. "s_replan" \in Points /\ row' = row BY <2>1 DEF Points, Stored
  <2> QED BY <2>1, <2>3, <2>4, <2>5, GotoStep
<1>4. CASE ~frame[w].run.committed /\ receipts[Key("project-create")] # "none"
  <2>1. /\ Update(w, [frame[w].run EXCEPT !.committed = TRUE], "s_replan")
        /\ UNCHANGED <<receipts, ledger, at, faults>>
    BY <1>4 DEF StartProject
  <2>2. Created(World) BY <1>4 DEF Created, World
  <2> QED BY <1>1, <1>2, <2>1, <2>2, CommitStep DEF External
<1>5. CASE ~frame[w].run.committed /\ receipts[Key("project-create")] = "none"
  <2>1. PICK outcome \in Outcomes \ {"malformed"}, v \in Variants :
            /\ Spend(outcome)
            /\ at' = IF outcome = "refused" THEN at ELSE ProjectCreated
            /\ IF outcome = "ok" /\ OwnsLease(w)
               THEN /\ receipts' = [receipts EXCEPT ![Key("project-create")] = v]
                    /\ Step(w, "s_committed")
               ELSE /\ Raise(w)
                    /\ UNCHANGED receipts
            /\ UNCHANGED <<row, ledger>>
    BY <1>5 DEF StartProject
  <2>2. lease' \in Leases /\ faults' \in 0 .. MaxFaults /\ row' = row
    BY <1>2, <2>1, SameLease, SpendType
  <2>3. at' \in {at, ProjectCreated} BY <2>1
  <2>4. CASE outcome = "ok" /\ OwnsLease(w)
    <3>1. /\ receipts' = [receipts EXCEPT ![Key("project-create")] = v]
          /\ Step(w, "s_committed")
      BY <2>1, <2>4
    <3>2. /\ receipts' \in Archives /\ receipts'[Key("project-create")] # "none"
          /\ \A k \in ReceiptKeys : receipts[k] # "none" => receipts'[k] # "none"
      BY <3>1, Keys, ReceiptKept
    <3>3. WorldOK(World') /\ Grows(World, World') BY <1>2, <2>1, <2>3, <3>2, StoresMove
    <3>4. Created(World') BY <3>2 DEF Created, World
    <3>5. Control(Goto(frame[w], "s_committed"), World') BY <1>1, <3>4, ReplanControl
    <3>6. "s_committed" \in Points BY DEF Points
    <3> QED BY <2>2, <3>1, <3>3, <3>5, <3>6, GotoStep
  <2>5. CASE ~(outcome = "ok" /\ OwnsLease(w))
    <3>1. Raise(w) /\ receipts' = receipts BY <2>1, <2>5
    <3>2. receipts' \in Archives BY <3>1 DEF IInv, WorldOK, World
    <3>3. WorldOK(World') /\ Grows(World, World') BY <1>2, <2>1, <2>3, <3>1, <3>2, StoresMove
    <3> QED BY <2>2, <3>1, <3>3, RaiseStep
  <2> QED BY <2>4, <2>5
<1> QED BY <1>3, <1>4, <1>5

\* The checkpoint of the confirmed project is written after its receipt.
LEMMA StartCommittedKeeps ==
  ASSUME IInv, NEW w \in Workers, StartCommitted(w)
  PROVE  IInv' /\ Kept
<1>1. frame[w].pc = "s_committed" /\ frame[w].pc \notin Apart BY DEF StartCommitted, Apart
<1>2. Created(World) BY <1>1, FrameFacts DEF Control
<1> QED BY <1>1, <1>2, CommitStep DEF StartCommitted

\* The first replan plans first attempts of pre-approval tasks.
LEMMA StartReplanKeeps ==
  ASSUME IInv, NEW w \in Workers, StartReplan(w)
  PROVE  IInv' /\ Kept
<1>1. /\ frame[w].pc = "s_replan" /\ frame[w].pc \notin Apart
      /\ CallController(w, Planned(ToSet(frame[w].run.graph)), "s_envelope")
  BY DEF StartReplan, Ready, Apart
<1>2. Created(World) /\ RunOK(frame[w].run, World) BY <1>1, FrameFacts DEF Control
<1>3. \A t \in ToSet(frame[w].run.graph) \cap Tasks :
         EndedBelow(t, World) /\ Created(World) /\ (t[1] \in ToSet(Post) => Consumed(World))
  BY <1>2 DEF RunOK
<1>4. "s_envelope" \in Plain BY DEF Plain
<1> QED BY <1>1, <1>3, <1>4, PlanCalls, PlainGoto, PlainPoints, CallStep

\* A run under way with other bookkeeping than the fields that say what has been achieved.
LEMMA NotedRun ==
  ASSUME NEW x, NEW r \in Runs, NEW u, RunOK(x, u), r.graph = x.graph, r.accepted = x.accepted,
         r.grant = x.grant, r.committed = x.committed, r.final = x.final,
         "POST_APPROVAL" \in {r.state, r.resume} => "POST_APPROVAL" \in {x.state, x.resume},
         r.state # "COMPLETED", r.state = "COMPENSATION_REQUIRED" => r.retry # "terminal-notify"
  PROVE  RunOK(r, u) /\ Extends(r, x)
<1>1. RunOK(r, u) BY RunChanges DEF RunOK
<1> QED BY <1>1 DEF Extends

\* The envelope is bookkeeping of the row.
LEMMA StartEnvelopeKeeps ==
  ASSUME IInv, NEW w \in Workers, StartEnvelope(w)
  PROVE  IInv' /\ Kept
<1>1. /\ frame[w].pc = "s_envelope" /\ frame[w].pc \notin Apart
      /\ UNCHANGED <<receipts, ledger, lease, External, faults>> /\ "s_send" \in Plain
  BY DEF StartEnvelope, Apart, Plain
<1>2. CASE Step(w, "s_send") /\ UNCHANGED row BY <1>1, <1>2, QuietStep, PlainStep
<1>3. CASE Update(w, [frame[w].run EXCEPT !.envelope = TRUE], "s_send")
  <2> DEFINE x == frame[w].run
             r == [x EXCEPT !.envelope = TRUE]
  <2>1. RunOK(x, World) /\ x \in Runs /\ UnderWay(frame[w]) BY <1>1, FrameFacts
  <2>2. /\ r \in Runs /\ r.graph = x.graph /\ r.accepted = x.accepted /\ r.grant = x.grant
        /\ r.committed = x.committed /\ r.final = x.final /\ r.state = x.state
        /\ r.resume = x.resume /\ r.retry = x.retry
    BY <2>1 DEF Runs
  <2>3. Update(w, r, "s_send") BY <1>3
  <2> HIDE DEF r
  <2>4. x.state \notin {"ABSENT", "COMPLETED", "BLOCKED"} BY <2>1 DEF UnderWay
  <2> DEFINE f == frame[w]
  <2>5. RunOK(r, World) /\ Extends(r, x)
    <3>1. (r.state = "COMPENSATION_REQUIRED" /\ r.retry = "terminal-notify") => Finished(r, World)
      BY <2>1, <2>2, FinishedSame DEF RunOK
    <3>2. RunOK(r, World) BY <2>1, <2>2, <2>4, <3>1, RunChanges DEF RunOK
    <3> QED BY <2>2, <3>2 DEF Extends
  <2> QED BY <1>1, <2>2, <2>3, <2>4, <2>5, UpdatePlain
<1> QED BY <1>2, <1>3 DEF StartEnvelope

\* The dispatch goes to the room.
LEMMA StartSendKeeps ==
  ASSUME IInv, NEW w \in Workers, StartSend(w)
  PROVE  IInv' /\ Kept
<1>1. frame[w].pc \notin Apart /\ "s_finish" \in Plain BY DEF StartSend, Ready, Apart, Plain
<1> QED BY <1>1, PlainSend DEF StartSend

\* start_run ends with the state PRE_APPROVAL.
LEMMA StartFinishKeeps ==
  ASSUME IInv, NEW w \in Workers, StartFinish(w)
  PROVE  IInv' /\ Kept
<1> DEFINE x == frame[w].run
           r == [x EXCEPT !.state = "PRE_APPROVAL"]
<1>1. RunOK(x, World) /\ x \in Runs BY FrameFacts
<1>2. /\ r \in Runs /\ r.graph = x.graph /\ r.accepted = x.accepted /\ r.grant = x.grant
      /\ r.committed = x.committed /\ r.final = x.final /\ r.state = "PRE_APPROVAL"
      /\ r.resume = x.resume
  BY <1>1 DEF Runs, RunState
<1>3. /\ Update(w, r, "release") /\ UNCHANGED <<receipts, lease, External, faults>>
      /\ ledger \subseteq ledger'
  BY DEF StartFinish
<1> HIDE DEF r
<1>4. RunOK(r, World) /\ Extends(r, x) BY <1>1, <1>2, NotedRun
<1>5. RowOK(r, World) BY <1>2 DEF RowOK
<1> QED BY <1>3, <1>4, <1>5, UpdateRelease

\* Its except clause pauses the project ...
LEMMA StartErrorKeeps ==
  ASSUME IInv, NEW w \in Workers, StartError(w)
  PROVE  IInv' /\ Kept
<1>1. frame[w].pc \notin Apart /\ "s_compensate" \in Plain BY DEF StartError, Apart, Plain
<1>2. CASE Step(w, "release") /\ UNCHANGED <<Stored, lease, External, faults>>
  BY <1>2, QuietStep, ReleaseStep DEF Stored
<1>3. CASE CallController(w, Paused, "s_compensate") BY <1>1, <1>3, PlainCall
<1> QED BY <1>2, <1>3 DEF StartError

\* ... and asks for compensation.
LEMMA StartCompensateKeeps ==
  ASSUME IInv, NEW w \in Workers, StartCompensate(w)
  PROVE  IInv' /\ Kept
<1> DEFINE x == frame[w].run
           r == [x EXCEPT !.state = "COMPENSATION_REQUIRED", !.retry = "start-dispatch"]
<1>1. RunOK(x, World) /\ x \in Runs BY FrameFacts
<1>2. /\ r \in Runs /\ r.graph = x.graph /\ r.accepted = x.accepted /\ r.grant = x.grant
      /\ r.committed = x.committed /\ r.final = x.final /\ r.state = "COMPENSATION_REQUIRED"
      /\ r.resume = x.resume /\ r.retry = "start-dispatch"
  BY <1>1 DEF Runs, RunState, RetryOperations
<1>3. /\ Update(w, r, "release") /\ UNCHANGED <<receipts, lease, External, faults>>
      /\ ledger \subseteq ledger'
  BY DEF StartCompensate
<1> HIDE DEF r
<1>4. RunOK(r, World) /\ Extends(r, x) BY <1>1, <1>2, NotedRun
<1>5. RowOK(r, World) BY <1>2 DEF RowOK
<1> QED BY <1>3, <1>4, <1>5, UpdateRelease

\* Every step of start_run.
LEMMA StartKeeps ==
  ASSUME IInv, NEW w \in Workers, Start(w)
  PROVE  IInv' /\ Kept
BY StartReserveKeeps, StartClaimKeeps, StartWorkersKeeps, StartProjectKeeps, StartCommittedKeeps,
   StartReplanKeeps, StartEnvelopeKeeps, StartSendKeeps, StartFinishKeeps, StartErrorKeeps,
   StartCompensateKeeps DEF Start

-----------------------------------------------------------------------------
(* reconcile: reading and accepting *)

\* reconcile is admitted to a run that has neither ended nor been blocked.
LEMMA ReconcileClaimKeeps ==
  ASSUME IInv, NEW w \in Workers, ReconcileClaim(w)
  PROVE  IInv' /\ Kept
<1>1. "r_read" \in Plain BY DEF Plain
<1> QED BY <1>1, ClaimStep DEF ReconcileClaim

\* The workflow that is read is the present one.
LEMMA ReconcileReadKeeps ==
  ASSUME IInv, NEW w \in Workers, ReconcileRead(w)
  PROVE  IInv' /\ Kept
<1> DEFINE f == frame[w]
           q == IF f.run.state = "COMPENSATION_REQUIRED" THEN "c_recover" ELSE "r_examine"
           g == [f EXCEPT !.wf = at.nodes, !.pc = q]
<1>1. PICK outcome \in Outcomes \cap {"ok", "refused"} :
        /\ Spend(outcome)
        /\ IF outcome = "ok" /\ at.status # "none" /\ OwnsLease(w)
           THEN frame' = [frame EXCEPT ![w].wf = at.nodes, ![w].pc = q]
           ELSE Raise(w)
  BY DEF ReconcileRead
<1>2. /\ UNCHANGED <<Stored, lease, External>> /\ frame[w].pc = "r_read" /\ frame[w].pc \notin Apart
  BY DEF ReconcileRead, Apart
<1>3. faults' \in 0 .. MaxFaults /\ lease' \in Leases /\ row' = row
      /\ WorldOK(World') /\ Grows(World, World') /\ World' = World
  BY <1>1, <1>2, SpendType, SameLease, SameWorld DEF Stored, External
<1>4. CASE Raise(w) BY <1>3, <1>4, RaiseStep
<1>5. CASE frame' = [frame EXCEPT ![w].wf = at.nodes, ![w].pc = q]
  <2>1. f \in Frames /\ RunOK(f.run, World) /\ Current(f, row) /\ UnderWay(f)
    BY <1>2, FrameFacts
  <2>2. at.nodes \in [Tasks -> NodeStatus] /\ World.at = at
    BY DEF IInv, WorldOK, World, Projects
  <2>3. q \in Points /\ q \in {"c_recover", "r_examine"}
        /\ (q = "c_recover" <=> f.run.state = "COMPENSATION_REQUIRED")
    BY DEF Points
  <2> HIDE DEF q
  <2>4. g \in Frames /\ g.run = f.run /\ g.pc = q /\ g.wf = at.nodes /\ g.current = f.current
    BY <2>1, <2>2, <2>3 DEF Frames
  <2>5. frame' = [frame EXCEPT ![w] = g] BY <1>5 DEF IInv
  <2> HIDE DEF g
  <2>6. Snapshot(g, World) BY <2>2, <2>4 DEF Snapshot
  <2>7. Current(g, row) BY <2>1, <2>4 DEF Current
  <2>8. Control(g, World) BY <2>1, <2>3, <2>4 DEF Control, UnderWay
  <2>9. FrameOK(g, row, World) BY <2>1, <2>4, <2>6, <2>7, <2>8 DEF FrameOK
  <2> QED BY <1>3, <2>5, <2>9, FrameStep
<1> QED BY <1>1, <1>4, <1>5

\* The run after _observe_statuses.
LEMMA ObservedRun ==
  ASSUME NEW f \in Frames, NEW u, RunOK(f.run, u), UnderWay(f)
  PROVE  LET r == Observed(f) IN
         /\ RunOK(r, u) /\ Extends(r, f.run) /\ r \in Runs
         /\ r.graph = f.run.graph /\ r.state = f.run.state
<1> DEFINE x == f.run
           s == [t \in Tasks |-> IF f.wf[t] # "none" THEN f.wf[t] ELSE x.seen[t]]
           r == Observed(f)
<1>1. x \in Runs /\ f.wf \in [Tasks -> NodeStatus] BY DEF Frames
<1>2. s \in [Tasks -> NodeStatus] BY <1>1 DEF Runs
<1>3. r = [x EXCEPT !.seen = s] BY DEF Observed
<1> HIDE DEF s
<1>4. /\ r \in Runs /\ r.graph = x.graph /\ r.accepted = x.accepted /\ r.grant = x.grant
      /\ r.committed = x.committed /\ r.final = x.final /\ r.state = x.state
      /\ r.resume = x.resume /\ r.retry = x.retry
  BY <1>1, <1>2, <1>3 DEF Runs
<1> HIDE DEF r
<1>5. (r.state = "COMPENSATION_REQUIRED" /\ r.retry = "terminal-notify") => Finished(r, u)
  BY <1>4, FinishedSame DEF RunOK
<1>6. RunOK(r, u) BY <1>4, <1>5, RunChanges DEF RunOK, UnderWay
<1>7. Extends(r, x) BY <1>4 DEF Extends
<1> QED BY <1>4, <1>6, <1>7 DEF r

\* The newest attempts depend on the graph alone.
LEMMA EffectiveSame ==
  ASSUME NEW x, NEW y, x.graph = y.graph
  PROVE  EffectiveTasks(x) = EffectiveTasks(y)
BY DEF EffectiveTasks, Effective, Reassignments

\* A worker goes on with a run that extends the one it had.
LEMMA RunFrame ==
  ASSUME IInv, NEW w \in Workers,
         WorldOK(World'), Grows(World, World'), row' = row,
         lease' \in Leases, faults' \in 0 .. MaxFaults,
         NEW g, g \in Frames, frame' = [frame EXCEPT ![w] = g],
         RunOK(g.run, World'), Extends(g.run, frame[w].run), g.wf \in {frame[w].wf, NoNodes},
         g.current = frame[w].current, Control(g, World')
  PROVE  IInv' /\ Kept
<1>1. Snapshot(frame[w], World') /\ Current(frame[w], row) BY FrameFacts, SnapshotStays
<1>2. Snapshot(g, World')
  <2>1. CASE g.wf = frame[w].wf BY <1>1, <2>1 DEF Snapshot
  <2>2. CASE g.wf = NoNodes BY <2>2, NoNodesSnapshot
  <2> QED BY <2>1, <2>2
<1>3. Current(g, row) BY <1>1, ExtendsTrans DEF Current
<1>4. FrameOK(g, row, World') BY <1>2, <1>3 DEF FrameOK
<1> QED BY <1>4, FrameStep

\* A conflict: the task that needs another Worker goes to _reassign.
LEMMA ConflictStep ==
  ASSUME IInv, NEW w \in Workers, frame[w].pc = "r_examine",
         WorldOK(World'), Grows(World, World'), row' = row,
         lease' \in Leases, faults' \in 0 .. MaxFaults,
         NEW i \in Attention(frame[w]), NEW t, t = frame[w].run.graph[i],
         frame' = [frame EXCEPT ![w].pc = "r_reassign", ![w].task = t,
                                ![w].run = Observed(frame[w])]
  PROVE  IInv' /\ Kept
<1> DEFINE f == frame[w]
           r == Observed(f)
           g == [f EXCEPT !.pc = "r_reassign", !.task = t, !.run = r]
<1>1. f \in Frames /\ RunOK(f.run, World) /\ UnderWay(f) /\ f.run \in Runs
  BY FrameFacts DEF Apart
<1>2. RunOK(f.run, World') BY <1>1, RunStays
<1>3. /\ RunOK(r, World') /\ Extends(r, f.run) /\ r \in Runs
      /\ r.graph = f.run.graph /\ r.state = f.run.state
  BY <1>1, <1>2, ObservedRun
<1>4. i \in Effective(f.run) /\ (Failed(f, t) \/ TimedOut(f, t) \/ Unaccepted(f, t))
  BY DEF Attention
<1>5. t \in EffectiveTasks(f.run) /\ t \in Tasks /\ t \in ToSet(f.run.graph)
  BY <1>1, <1>4, NewestAttempts
<1>6. f.wf[t] \in Active \cup Ended
  BY <1>4 DEF Failed, TimedOut, Unaccepted, Completed, Active, Ended
<1>7. t \in EffectiveTasks(r) /\ t \in ToSet(r.graph) BY <1>3, <1>5, EffectiveSame
<1> HIDE DEF r
<1>8. "r_reassign" \in Points BY DEF Points
<1>9. /\ g \in Frames /\ g.pc = "r_reassign" /\ g.task = t /\ g.run = r /\ g.wf = f.wf
      /\ g.current = f.current
  BY <1>1, <1>3, <1>5, <1>8 DEF Frames
<1>10. frame' = [frame EXCEPT ![w] = g] BY DEF IInv, r
<1> HIDE DEF g
<1>11. f.run.state # "COMPENSATION_REQUIRED" BY FrameFacts DEF Control
<1>12. Control(g, World') BY <1>1, <1>3, <1>6, <1>7, <1>9, <1>11 DEF Control, UnderWay
<1> QED BY <1>3, <1>9, <1>10, <1>12, RunFrame

\* A run that accepts one more valid result.
LEMMA AcceptedRun ==
  ASSUME NEW x, NEW u, NEW t \in Tasks, RunOK(x, u), Accepted(t, u)
  PROVE  LET r == [x EXCEPT !.accepted = @ \cup {t}] IN
         RunOK(r, u) /\ Extends(r, x) /\ r \in Runs /\ r.state = x.state
<1> DEFINE r == [x EXCEPT !.accepted = @ \cup {t}]
<1>1. x \in Runs BY DEF RunOK
<1>2. /\ r \in Runs /\ r.graph = x.graph /\ r.accepted = x.accepted \cup {t}
      /\ r.grant = x.grant
      /\ r.committed = x.committed /\ r.final = x.final /\ r.state = x.state
      /\ r.resume = x.resume /\ r.retry = x.retry
  BY <1>1 DEF Runs
<1> HIDE DEF r
<1>3. Finished(x, u) => Finished(r, u)
  BY <1>2, EffectiveSame DEF Finished, PostAccepted
<1>4. RunOK(r, u) BY <1>2, <1>3 DEF RunOK
<1>5. Extends(r, x) BY <1>2 DEF Extends
<1> QED BY <1>2, <1>4, <1>5 DEF r

\* _first_conflict: a result is accepted once it is valid, archived and in the ledger.
LEMMA ReconcileExamineKeeps ==
  ASSUME IInv, NEW w \in Workers, ReconcileExamine(w)
  PROVE  IInv' /\ Kept
<1> DEFINE f == frame[w]
           todo == Attention(f)
           At(i) == f.run.graph[i]
           Hard == {i \in todo : ~TimedOut(f, At(i))}
           Conflict(t) == frame' = [frame EXCEPT ![w].pc = "r_reassign", ![w].task = t,
                                                 ![w].run = Observed(f)]
<1>1. f.pc = "r_examine" /\ UNCHANGED <<row, lease, External>> BY DEF ReconcileExamine
<1>2. f \in Frames /\ RunOK(f.run, World) /\ UnderWay(f) /\ Snapshot(f, World) /\ f.run \in Runs
  BY <1>1, FrameFacts DEF Apart
<1>3. row' = row /\ lease' \in Leases BY <1>1, SameLease
<1>4. \A i \in todo : At(i) \in Tasks
  BY <1>2, NewestAttempts DEF Attention
<1>5. CASE /\ frame' = [frame EXCEPT ![w].pc = "r_decide", ![w].run = Observed(f)]
           /\ UNCHANGED <<receipts, ledger, faults>>
  <2> DEFINE r == Observed(f)
             g == [f EXCEPT !.pc = "r_decide", !.run = r]
  <2>1. /\ World' = World /\ WorldOK(World') /\ Grows(World, World')
        /\ lease' \in Leases /\ faults' \in 0 .. MaxFaults
    BY <1>1, <1>5, QuietStep
  <2>2. /\ RunOK(r, World') /\ Extends(r, f.run) /\ r \in Runs /\ r.state = f.run.state
    BY <1>2, <2>1, ObservedRun
  <2> HIDE DEF r
  <2>3. "r_decide" \in Points /\ "r_decide" \in Plain BY DEF Points, Plain
  <2>4. /\ g \in Frames /\ g.pc = "r_decide" /\ g.run = r /\ g.wf = f.wf /\ g.current = f.current
    BY <1>2, <2>2, <2>3 DEF Frames
  <2>5. frame' = [frame EXCEPT ![w] = g] BY <1>5 DEF IInv, r
  <2> HIDE DEF g
  <2>6. Control(g, World') BY <1>2, <2>2, <2>3, <2>4, PlainControl DEF UnderWay
  <2> QED BY <1>1, <1>3, <2>1, <2>2, <2>4, <2>5, <2>6, RunFrame
<1>6. ASSUME NEW i \in todo, Conflict(At(i)), UNCHANGED <<receipts, ledger, faults>>
      PROVE  IInv' /\ Kept
  <2>1. /\ World' = World /\ WorldOK(World') /\ Grows(World, World')
        /\ lease' \in Leases /\ faults' \in 0 .. MaxFaults
    BY <1>1, <1>6, QuietStep
  <2> QED BY <1>1, <1>3, <1>6, <2>1, ConflictStep
<1>7. ASSUME NEW i \in Hard, NEW outcome \in Outcomes \cap {"ok", "refused"}, NEW v \in Variants,
             Spend(outcome),
             LET t == At(i)
                 key == <<"artifact", t>>
                 fetched == outcome = "ok" /\ OwnsLease(w) /\ Archivable(key, v)
             IN /\ receipts' = IF fetched THEN [receipts EXCEPT ![key] = v] ELSE receipts
                /\ IF fetched /\ ValidTaskContract(f, t)
                   THEN /\ frame' = [frame EXCEPT ![w].run.accepted = @ \cup {t}]
                        /\ ledger' = ledger \cup {<<"ARTIFACT_ACCEPTED", t>>}
                   ELSE /\ Conflict(t)
                        /\ UNCHANGED ledger
      PROVE  IInv' /\ Kept
  <2> DEFINE t == At(i)
             key == <<"artifact", t>>
             fetched == outcome = "ok" /\ OwnsLease(w) /\ Archivable(key, v)
  <2>1. /\ receipts' = IF fetched THEN [receipts EXCEPT ![key] = v] ELSE receipts
        /\ IF fetched /\ ValidTaskContract(f, t)
           THEN /\ frame' = [frame EXCEPT ![w].run.accepted = @ \cup {t}]
                /\ ledger' = ledger \cup {<<"ARTIFACT_ACCEPTED", t>>}
           ELSE /\ Conflict(t)
                /\ UNCHANGED ledger
    BY <1>7
  <2>2. i \in todo /\ t \in Tasks BY <1>4
  <2>3. faults' \in 0 .. MaxFaults BY <1>7, SpendType
  <2>4. key \in ReceiptKeys BY <2>2, Keys
  <2> HIDE DEF fetched
  <2>5. /\ receipts' \in Archives /\ (fetched => receipts'[key] # "none")
        /\ \A k \in ReceiptKeys : receipts[k] # "none" => receipts'[k] # "none"
    <3>1. CASE fetched
      <4>1. receipts' = [receipts EXCEPT ![key] = v] BY <2>1, <3>1
      <4> QED BY <2>4, <4>1, ReceiptKept
    <3>2. CASE ~fetched
      <4>1. receipts' = receipts BY <2>1, <3>2
      <4> QED BY <3>2, <4>1 DEF IInv, WorldOK, World
    <3> QED BY <3>1, <3>2
  <2>6. ledger \subseteq ledger' BY <2>1
  <2>7. WorldOK(World') /\ Grows(World, World') BY <1>1, <2>5, <2>6, StoresMove DEF External
  <2>8. CASE ~(fetched /\ ValidTaskContract(f, t))
    <3>1. Conflict(t) BY <2>1, <2>8
    <3> QED BY <1>1, <1>3, <2>2, <2>3, <2>7, <3>1, ConflictStep
  <2>9. CASE fetched /\ ValidTaskContract(f, t)
    <3> DEFINE r == [f.run EXCEPT !.accepted = @ \cup {t}]
               g == [f EXCEPT !.run = r]
    <3>1. frame' = [frame EXCEPT ![w].run.accepted = @ \cup {t}]
          /\ ledger' = ledger \cup {<<"ARTIFACT_ACCEPTED", t>>}
      BY <2>1, <2>9
    <3>2. Accepted(t, World')
      <4>1. World'.receipts[key] # "none" BY <2>5, <2>9 DEF World
      <4>2. <<"ARTIFACT_ACCEPTED", t>> \in World'.ledger BY <3>1 DEF World
      <4>3. World'.at.nodes[t] \in {"good", "unfit"}
        <5>1. f.wf[t] \in {"good", "unfit"} BY <2>9 DEF ValidTaskContract
        <5>2. Snapshot(f, World') BY <1>2, <2>7, SnapshotStays
        <5> QED BY <2>2, <5>1, <5>2 DEF Snapshot, Ended
      <4> QED BY <4>1, <4>2, <4>3 DEF Accepted
    <3>3. RunOK(f.run, World') BY <1>2, <2>7, RunStays
    <3>4. RunOK(r, World') /\ Extends(r, f.run) /\ r \in Runs /\ r.state = f.run.state
      BY <2>2, <3>2, <3>3, AcceptedRun
    <3>5. frame' = [frame EXCEPT ![w] = g] BY <3>1 DEF IInv
    <3> HIDE DEF r
    <3>6. g \in Frames /\ g.pc = "r_examine" /\ g.run = r /\ g.wf = f.wf /\ g.current = f.current
      BY <1>1, <1>2, <3>4 DEF Frames
    <3> HIDE DEF g
    <3>7. f.run.state # "COMPENSATION_REQUIRED" BY <1>1, FrameFacts DEF Control
    <3>8. Control(g, World') BY <1>2, <3>4, <3>6, <3>7 DEF Control, UnderWay
    <3> QED BY <1>1, <1>3, <2>3, <2>7, <3>4, <3>5, <3>6, <3>8, RunFrame
  <2> QED BY <2>8, <2>9
<1> QED BY <1>5, <1>6, <1>7 DEF ReconcileExamine

-----------------------------------------------------------------------------
(* reconcile: reassigning *)

\* The tasks of a graph with a replacement have their turn once the replaced attempt ended.
LEMMA ReplacementTurn ==
  ASSUME NEW f \in Frames, NEW u, WorldOK(u), RunOK(f.run, u), f.task \in ToSet(f.run.graph),
         f.task[2] <= MaxReassign, u.at.nodes[f.task] \in Ended
  PROVE  /\ Created(u)
         /\ \A t \in ToSet(f.run.graph) \cup {Replacement(f)} :
               EndedBelow(t, u) /\ (t[1] \in ToSet(Post) => Consumed(u))
<1> DEFINE r == Replacement(f)
<1>1. f.task \in Tasks
  <2>1. f.run.graph \in Seq(Tasks) BY DEF Frames, Runs
  <2> QED BY <2>1, GraphTasks
<1>2. Created(u) BY <1>1 DEF WorldOK, Ended
<1>3. \A t \in ToSet(f.run.graph) : EndedBelow(t, u) /\ (t[1] \in ToSet(Post) => Consumed(u))
  BY DEF RunOK
<1>4. r[1] = f.task[1] /\ r[2] = f.task[2] + 1 /\ f.task[2] \in Nat
  BY <1>1, TaskShape DEF Replacement
<1>5. EndedBelow(r, u)
  <2>1. SUFFICES ASSUME NEW s \in Lower(r) PROVE u.at.nodes[s] \in Ended
    BY DEF EndedBelow
  <2>2. s \in Tasks /\ s[1] = f.task[1] /\ s[2] < f.task[2] + 1 BY <1>4 DEF Lower
  <2>3. s[2] \in Nat BY <2>2, TaskShape
  <2>4. CASE s[2] = f.task[2]
    <3>1. s = f.task BY <1>1, <2>2, <2>4, TaskShape
    <3> QED BY <3>1
  <2>5. CASE s[2] # f.task[2]
    <3>1. s[2] < f.task[2] BY <1>4, <2>2, <2>3, <2>5
    <3>2. s \in Lower(f.task) BY <2>2, <3>1 DEF Lower
    <3> QED BY <1>3, <3>2 DEF EndedBelow
  <2> QED BY <2>4, <2>5
<1>6. r[1] \in ToSet(Post) => Consumed(u) BY <1>3, <1>4
<1> QED BY <1>2, <1>3, <1>5, <1>6

\* The update at the end of reconcile asks nothing of a run that is not COMPLETED.
LEMMA CommitPoint ==
  ASSUME NEW g, NEW v, g.pc = "r_commit", g.run.state \notin {"ABSENT", "COMPLETED"}
  PROVE  Control(g, v)
BY DEF Control

\* _reassign goes to a replacement only within the budget, past an active attempt by cancelling it.
LEMMA ReconcileReassignKeeps ==
  ASSUME IInv, NEW w \in Workers, ReconcileReassign(w)
  PROVE  IInv' /\ Kept
<1> DEFINE f == frame[w]
           x == f.run
           t == f.task
           spent == Reassignments(x, t[1]) >= x.max_reassignments
<1>1. f.pc = "r_reassign" /\ UNCHANGED <<Stored, lease, External, faults>>
  BY DEF ReconcileReassign
<1>2. /\ f \in Frames /\ RunOK(x, World) /\ UnderWay(f) /\ x \in Runs /\ Snapshot(f, World)
      /\ t \in ToSet(x.graph) /\ f.wf[t] \in Active \cup Ended /\ t \in EffectiveTasks(x)
      /\ x.state # "COMPENSATION_REQUIRED"
  BY <1>1, FrameFacts DEF Apart, Control
<1>3. /\ World' = World /\ WorldOK(World') /\ Grows(World, World') /\ row' = row
      /\ lease' \in Leases /\ faults' \in 0 .. MaxFaults
  BY <1>1, QuietStep DEF Stored
<1>4. CASE frame' = [frame EXCEPT ![w] =
                        [Goto(frame[w], "r_commit") EXCEPT !.run.state = "BLOCKED"]]
  <2> DEFINE h == Goto(f, "r_commit")
             r == [x EXCEPT !.state = "BLOCKED"]
             g == [h EXCEPT !.run = r]
  <2>1. "r_commit" \in Points /\ "r_commit" \notin WfPoints BY DEF Points, WfPoints
  <2>2. /\ h \in Frames /\ h.pc = "r_commit" /\ h.run = x /\ h.current = f.current
        /\ h.wf = NoNodes
    BY <1>2, <2>1, GotoFields
  <2>3. frame' = [frame EXCEPT ![w] = [h EXCEPT !.run = [h.run EXCEPT !.state = "BLOCKED"]]]
    BY <1>4
  <2> HIDE DEF h
  <2>4. /\ r \in Runs /\ r.graph = x.graph /\ r.accepted = x.accepted /\ r.grant = x.grant
        /\ r.committed = x.committed /\ r.final = x.final /\ r.state = "BLOCKED"
        /\ r.resume = x.resume /\ r.retry = x.retry
    BY <1>2 DEF Runs, RunState
  <2>5. frame' = [frame EXCEPT ![w] = g] BY <2>2, <2>3
  <2> HIDE DEF r
  <2>6. RunOK(r, World) /\ Extends(r, x) BY <1>2, <2>4, NotedRun
  <2>7. g \in Frames /\ g.pc = "r_commit" /\ g.run = r /\ g.wf = NoNodes /\ g.current = f.current
    BY <2>2, <2>4 DEF Frames
  <2> HIDE DEF g
  <2>8. Control(g, World') BY <2>4, <2>7, CommitPoint
  <2> QED BY <1>3, <2>5, <2>6, <2>7, <2>8, RunFrame
<1>5. CASE Step(w, "r_commit")
  <2> DEFINE g == Goto(f, "r_commit")
  <2>1. "r_commit" \in Points BY DEF Points
  <2>2. g.pc = "r_commit" /\ g.run = x BY <1>2, <2>1, GotoFields
  <2> HIDE DEF g
  <2>3. Control(g, World') BY <1>2, <2>2, CommitPoint DEF UnderWay
  <2> QED BY <1>3, <1>5, <2>1, <2>3, GotoStep DEF g
<1>6. CASE ~spent /\ Step(w, IF MustCancel(f) THEN "r_cancel" ELSE "r_replan")
  <2> DEFINE q == IF MustCancel(f) THEN "r_cancel" ELSE "r_replan"
             g == Goto(f, q)
  <2>1. q \in {"r_cancel", "r_replan"} /\ (q = "r_replan" => f.wf[t] \in Ended)
    BY <1>2 DEF MustCancel, Active
  <2>2. Step(w, q) BY <1>6
  <2> HIDE DEF q
  <2>3. q \in Points /\ q # "release" /\ q \in WfPoints BY <2>1 DEF Points, WfPoints
  <2>4. g.pc = q /\ g.run = x /\ g.wf = f.wf /\ g.task = t BY <1>2, <2>3, GotoFields
  <2>5. t \in Tasks /\ t[2] <= MaxReassign
    <3>1. Reassignments(x, t[1]) < x.max_reassignments
      <4>1. x.max_reassignments \in Nat BY <1>2, TaskShape DEF Runs
      <4>2. Reassignments(x, t[1]) \in Int
        <5> DEFINE R == {i \in DOMAIN x.graph : x.graph[i][1] = t[1]}
        <5>1. DOMAIN x.graph = 1 .. Len(x.graph) /\ Len(x.graph) \in Nat BY <1>2 DEF Runs
        <5>2. IsFiniteSet(1 .. Len(x.graph)) BY <5>1, FS_Interval
        <5>3. IsFiniteSet(R) BY <5>1, <5>2, FS_Subset
        <5>4. Cardinality(R) \in Nat BY <5>3, FS_CardinalityType
        <5>5. Reassignments(x, t[1]) = Cardinality(R) - 1 BY DEF Reassignments
        <5> HIDE DEF R
        <5> QED BY <5>4, <5>5
      <4> QED BY <1>6, <4>1, <4>2
    <3> QED BY <1>2, <3>1, NewestAttempts
  <2>6. q = "r_replan" => World'.at.nodes[t] \in Ended
    BY <1>2, <1>3, <2>1, <2>5 DEF Snapshot
  <2> HIDE DEF g
  <2>7. Control(g, World') BY <1>2, <2>1, <2>4, <2>5, <2>6 DEF Control, UnderWay
  <2> QED BY <1>3, <2>2, <2>3, <2>7, GotoStep DEF g
<1> QED BY <1>4, <1>5, <1>6 DEF ReconcileReassign

\* After the cancellation the attempt has ended, whatever became of it in between.
LEMMA ReconcileCancelKeeps ==
  ASSUME IInv, NEW w \in Workers, ReconcileCancel(w)
  PROVE  IInv' /\ Kept
<1> DEFINE f == frame[w]
           t == f.task
           g == Goto(f, "r_replan")
           v == After(Cancelled(t))
<1>1. f.pc = "r_cancel" /\ CallController(w, Cancelled(t), "r_replan")
  BY DEF ReconcileCancel, Ready
<1>2. /\ f \in Frames /\ UnderWay(f) /\ f.run \in Runs /\ Snapshot(f, World)
      /\ t \in ToSet(f.run.graph) /\ f.wf[t] \in Active \cup Ended /\ t[2] <= MaxReassign
      /\ f.run.state # "COMPENSATION_REQUIRED"
  BY <1>1, FrameFacts DEF Apart, Control
<1>3. t \in Tasks BY <1>2, GraphTasks DEF Runs
<1>4. at.nodes[t] \in Active \cup Ended BY <1>2, <1>3 DEF Snapshot, World
<1>5. WorldOK(v) /\ Grows(World, v) /\ v.at.nodes[t] \in Ended
  BY <1>3, <1>4, CancelCalls, AfterFields
<1>6. "r_replan" \in Points /\ "r_replan" \in WfPoints BY DEF Points, WfPoints
<1>7. g.pc = "r_replan" /\ g.run = f.run /\ g.wf = f.wf /\ g.task = t
  BY <1>2, <1>6, GotoFields
<1> HIDE DEF g, v
<1>8. Control(g, v) BY <1>2, <1>5, <1>7 DEF Control, UnderWay
<1> QED BY <1>1, <1>5, <1>6, <1>8, CallStep DEF g, v

\* The replacement is planned when all earlier attempts have ended.
LEMMA ReconcileReplanKeeps ==
  ASSUME IInv, NEW w \in Workers, ReconcileReplan(w)
  PROVE  IInv' /\ Kept
<1> DEFINE f == frame[w]
           t == f.task
           y == ReplacedGraph(f)
           tasks == ToSet(y.graph)
           g == Goto(f, "r_replaced")
           v == After(Planned(tasks))
<1>1. f.pc = "r_replan" /\ CallController(w, Planned(tasks), "r_replaced")
  BY DEF ReconcileReplan, Ready
<1>2. /\ f \in Frames /\ UnderWay(f) /\ f.run \in Runs /\ RunOK(f.run, World)
      /\ t \in ToSet(f.run.graph) /\ f.wf[t] \in Active \cup Ended /\ t[2] <= MaxReassign
      /\ f.run.state # "COMPENSATION_REQUIRED"
      /\ World.at.nodes[t] \in Ended /\ WorldOK(World)
  BY <1>1, FrameFacts DEF Apart, Control, IInv
<1>3. t \in Tasks BY <1>2, GraphTasks DEF Runs
<1>4. tasks = ToSet(f.run.graph) \cup {Replacement(f)} BY <1>2, ReplacedGraphIs
<1> HIDE DEF tasks
<1>5. \A s \in tasks \cap Tasks :
         EndedBelow(s, World) /\ Created(World) /\ (s[1] \in ToSet(Post) => Consumed(World))
  BY <1>2, <1>4, ReplacementTurn
<1>6. WorldOK(v) /\ Grows(World, v) BY <1>5, PlanCalls
<1>7. v.at.nodes[t] \in Ended BY <1>2, <1>3, <1>6, EndedStays
<1>8. "r_replaced" \in Points /\ "r_replaced" \in WfPoints BY DEF Points, WfPoints
<1>9. g.pc = "r_replaced" /\ g.run = f.run /\ g.wf = f.wf /\ g.task = t
  BY <1>2, <1>8, GotoFields
<1> HIDE DEF g, v
<1>10. Control(g, v) BY <1>2, <1>7, <1>9 DEF Control, UnderWay
<1> QED BY <1>1, <1>6, <1>8, <1>10, CallStep DEF g, v, tasks

\* The graph with the replacement.
LEMMA ReconcileReplacedKeeps ==
  ASSUME IInv, NEW w \in Workers, ReconcileReplaced(w)
  PROVE  IInv' /\ Kept
<1> DEFINE f == frame[w]
           x == f.run
           t == f.task
           y == ReplacedGraph(f)
           h == Goto(f, "r_send_replan")
           g == [h EXCEPT !.run = y]
<1>1. f.pc = "r_replaced" /\ UNCHANGED <<row, receipts, lease, External, faults>>
      /\ ledger \subseteq ledger'
  BY DEF ReconcileReplaced
<1>2. /\ f \in Frames /\ UnderWay(f) /\ x \in Runs /\ RunOK(x, World)
      /\ t \in ToSet(x.graph) /\ f.wf[t] \in Active \cup Ended /\ t[2] <= MaxReassign
      /\ f.run.state # "COMPENSATION_REQUIRED"
      /\ World.at.nodes[t] \in Ended /\ WorldOK(World)
  BY <1>1, FrameFacts DEF Apart, Control, IInv
<1>3. lease' \in Leases /\ faults' \in 0 .. MaxFaults /\ row' = row
  BY <1>1, SameLease, SameFaults
<1>4. WorldOK(World') /\ Grows(World, World')
  <2>1. receipts' \in Archives BY <1>1, <1>2 DEF WorldOK, World
  <2> QED BY <1>1, <2>1, StoresMove DEF External
<1>5. CASE Raise(w) BY <1>3, <1>4, <1>5, RaiseStep
<1>6. CASE frame' = [frame EXCEPT ![w] =
                        [Goto(frame[w], "r_send_replan") EXCEPT !.run = ReplacedGraph(frame[w])]]
  <2>1. /\ y \in Runs
        /\ ToSet(y.graph) = ToSet(x.graph) \cup {Replacement(f)}
        /\ y.state = x.state /\ y.retry = x.retry /\ y.resume = x.resume
        /\ y.committed = x.committed /\ y.grant = x.grant /\ y.final = x.final
        /\ y.accepted = x.accepted
    BY <1>2, ReplacedGraphIs
  <2>2. frame' = [frame EXCEPT ![w] = g] BY <1>6
  <2> HIDE DEF y
  <2>3. "r_send_replan" \in Points /\ "r_send_replan" \in Plain /\ "r_send_replan" \notin WfPoints
    BY DEF Points, Plain, WfPoints
  <2>4. h \in Frames /\ h.pc = "r_send_replan" /\ h.current = f.current /\ h.wf = NoNodes
    BY <1>2, <2>3, GotoFields
  <2> HIDE DEF h
  <2>5. /\ g \in Frames /\ g.pc = "r_send_replan" /\ g.run = y
        /\ g.wf = NoNodes /\ g.current = f.current
    BY <2>1, <2>4 DEF Frames
  <2> HIDE DEF g
  <2>6. RunOK(y, World)
    <3>1. \A s \in ToSet(y.graph) :
             EndedBelow(s, World) /\ (s[1] \in ToSet(Post) => Consumed(World))
      BY <1>2, <2>1, ReplacementTurn
    <3> QED BY <1>2, <2>1, <3>1 DEF RunOK, UnderWay
  <2>7. RunOK(g.run, World') BY <1>4, <2>5, <2>6, RunStays
  <2>8. Extends(g.run, x) BY <2>1, <2>5 DEF Extends
  <2>9. Control(g, World') BY <1>2, <2>1, <2>3, <2>5, PlainControl DEF UnderWay
  <2> QED BY <1>3, <1>4, <2>2, <2>5, <2>7, <2>8, <2>9, RunFrame
<1> QED BY <1>5, <1>6 DEF ReconcileReplaced

-----------------------------------------------------------------------------
(* reconcile: the gates *)

\* Any point of a run under way may go on to the update.
LEMMA CommitGoto ==
  ASSUME IInv, NEW w \in Workers, frame[w].pc \notin Apart
  PROVE  /\ "r_commit" \in Points /\ "r_commit" # "release"
         /\ \A v : Control(Goto(frame[w], "r_commit"), v)
<1> DEFINE g == Goto(frame[w], "r_commit")
<1>1. frame[w] \in Frames /\ UnderWay(frame[w]) BY FrameFacts
<1>2. "r_commit" \in Points BY DEF Points
<1>3. g.pc = "r_commit" /\ g.run = frame[w].run BY <1>1, <1>2, GotoFields
<1> HIDE DEF g
<1>4. \A v : Control(g, v) BY <1>1, <1>3, CommitPoint DEF UnderWay
<1> QED BY <1>2, <1>4 DEF g

\* The REPLAN envelope goes to the room.
LEMMA ReconcileSendReplanKeeps ==
  ASSUME IInv, NEW w \in Workers, ReconcileSendReplan(w)
  PROVE  IInv' /\ Kept
<1>1. frame[w].pc \notin Apart /\ Send(w, "REPLAN", "r_commit")
  BY DEF ReconcileSendReplan, Ready, Apart
<1> QED BY <1>1, CommitGoto, SendStep

\* The except clause of _reassign pauses the project ...
LEMMA ReplanErrorKeeps ==
  ASSUME IInv, NEW w \in Workers, ReplanError(w)
  PROVE  IInv' /\ Kept
<1>1. frame[w].pc \notin Apart /\ "replan_compensate" \in Plain
      /\ CallController(w, Paused, "replan_compensate")
  BY DEF ReplanError, Ready, Apart, Plain
<1> QED BY <1>1, PlainCall

\* The run asks for compensation.
LEMMA CompensateStep ==
  ASSUME IInv, NEW w \in Workers, NEW operation \in RetryOperations, Compensate(w, operation),
         operation = "terminal-notify" => frame[w].run.state = "COMPLETED"
  PROVE  IInv' /\ Kept
<1> DEFINE f == frame[w]
           x == f.run
           r == [x EXCEPT !.state = "COMPENSATION_REQUIRED", !.retry = operation,
                          !.resume = x.state]
           g == [f EXCEPT !.pc = "r_commit", !.renewed = FALSE, !.run = r]
<1>1. UNCHANGED <<row, receipts, lease, External, faults>> /\ ledger \subseteq ledger'
  BY DEF Compensate
<1>2. f \in Frames /\ x \in Runs /\ RunOK(x, World) /\ Current(f, row) BY FrameFacts
<1>3. /\ lease' \in Leases /\ faults' \in 0 .. MaxFaults /\ row' = row
  BY <1>1, SameLease, SameFaults
<1>4. WorldOK(World') /\ Grows(World, World')
  <2>1. receipts' \in Archives BY <1>1 DEF IInv, WorldOK, World
  <2> QED BY <1>1, <2>1, StoresMove DEF External
<1>5. CASE Step(w, "release") BY <1>3, <1>4, <1>5, ReleaseStep
<1>6. CASE frame' = [frame EXCEPT ![w].pc = "r_commit", ![w].renewed = FALSE,
                    ![w].run.state = "COMPENSATION_REQUIRED", ![w].run.retry = operation,
                    ![w].run.resume = frame[w].run.state]
  <2>1. frame' = [frame EXCEPT ![w] = g] BY <1>2, <1>6 DEF IInv, Frames
  <2>2. /\ r \in Runs /\ r.graph = x.graph /\ r.accepted = x.accepted /\ r.grant = x.grant
        /\ r.committed = x.committed /\ r.final = x.final /\ r.state = "COMPENSATION_REQUIRED"
        /\ r.resume = x.state /\ r.retry = operation
    BY <1>2 DEF Runs, RunState
  <2> HIDE DEF r
  <2>3. "r_commit" \in Points BY DEF Points
  <2>4. g \in Frames /\ g.pc = "r_commit" /\ g.run = r /\ g.wf = f.wf /\ g.current = f.current
    BY <1>2, <2>2, <2>3 DEF Frames
  <2> HIDE DEF g
  <2>5. operation = "terminal-notify" => Finished(r, World)
    BY <1>2, <2>2, FinishedSame DEF RunOK
  <2>6. RunOK(r, World) BY <1>2, <2>2, <2>5, RunChanges DEF RunOK
  <2>7. RunOK(r, World') BY <1>4, <2>6, RunStays
  <2>8. Extends(r, x) BY <2>2 DEF Extends
  <2>9. Control(g, World') BY <2>2, <2>4, CommitPoint
  <2> QED BY <1>3, <1>4, <2>1, <2>4, <2>7, <2>8, <2>9, RunFrame
<1> QED BY <1>5, <1>6 DEF Compensate

\* ... and asks for compensation.
LEMMA ReplanCompensateKeeps ==
  ASSUME IInv, NEW w \in Workers, ReplanCompensate(w)
  PROVE  IInv' /\ Kept
<1>1. "replan-notify" \in RetryOperations BY DEF RetryOperations
<1> QED BY <1>1, CompensateStep DEF ReplanCompensate

\* An announcement of WAITING_R2 that failed asks for compensation.
LEMMA ApprovalErrorKeeps ==
  ASSUME IInv, NEW w \in Workers, ApprovalError(w)
  PROVE  IInv' /\ Kept
<1>1. "approval-required-notify" \in RetryOperations BY DEF RetryOperations
<1> QED BY <1>1, CompensateStep DEF ApprovalError

\* So does a TERMINAL envelope that failed, of a run with nothing else left to do.
LEMMA TerminalErrorKeeps ==
  ASSUME IInv, NEW w \in Workers, TerminalError(w)
  PROVE  IInv' /\ Kept
<1>1. "terminal-notify" \in RetryOperations BY DEF RetryOperations
<1>2. frame[w].run.state = "COMPLETED" BY FrameFacts DEF TerminalError, Ready, Control
<1> QED BY <1>1, <1>2, CompensateStep DEF TerminalError

\* Every step of reconcile up to a conflict and its reassignment.
LEMMA ExamineKeeps ==
  ASSUME IInv, NEW w \in Workers, Examine(w)
  PROVE  IInv' /\ Kept
BY ReconcileClaimKeeps, ReconcileReadKeeps, ReconcileExamineKeeps, ReconcileReassignKeeps,
   ReconcileCancelKeeps, ReconcileReplanKeeps, ReconcileReplacedKeeps, ReconcileSendReplanKeeps,
   ReplanErrorKeeps, ReplanCompensateKeeps DEF Examine

\* With a part of the plan accepted, reconcile goes to the approval or to the end.
LEMMA ReconcileDecideKeeps ==
  ASSUME IInv, NEW w \in Workers, ReconcileDecide(w)
  PROVE  IInv' /\ Kept
<1> DEFINE f == frame[w]
           x == f.run
<1>1. f.pc = "r_decide" /\ f.pc \notin Apart /\ UNCHANGED <<Stored, lease, External, faults>>
  BY DEF ReconcileDecide, Apart
<1>2. /\ f \in Frames /\ UnderWay(f) /\ x \in Runs /\ Snapshot(f, World) /\ RunOK(x, World)
      /\ WorldOK(World)
  BY <1>1, FrameFacts DEF IInv
<1>3. /\ World' = World /\ WorldOK(World') /\ Grows(World, World') /\ row' = row
      /\ lease' \in Leases /\ faults' \in 0 .. MaxFaults
  BY <1>1, QuietStep DEF Stored
<1>4. CASE Step(w, "r_commit") BY <1>1, <1>3, <1>4, CommitGoto, GotoStep
<1>5. CASE AllStageTasksCompleted(f, Pre) /\ Step(w, "r_advance")
  <2> DEFINE g == Goto(f, "r_advance")
  <2>1. PICK t \in EffectiveTasks(x) : Completed(f.wf[t])
    BY <1>5 DEF AllStageTasksCompleted
  <2>2. t \in Tasks BY <1>2, NewestAttempts
  <2>3. World.at.nodes[t] # "none" BY <1>2, <2>1, <2>2 DEF Snapshot, Completed, Ended
  <2>4. Created(World) BY <1>2, <2>2, <2>3 DEF WorldOK
  <2>5. "r_advance" \in Points BY DEF Points
  <2>6. g.pc = "r_advance" /\ g.run = x BY <1>2, <2>5, GotoFields
  <2> HIDE DEF g
  <2>7. Control(g, World') BY <1>2, <1>3, <2>4, <2>6 DEF Control, UnderWay
  <2> QED BY <1>3, <1>5, <2>5, <2>7, GotoStep DEF g
<1>6. CASE /\ x.state = "POST_APPROVAL" /\ AllStageTasksCompleted(f, Post)
           /\ Step(w, IF x.final THEN "r_confirm" ELSE "r_finalize")
  <2> DEFINE q == IF x.final THEN "r_confirm" ELSE "r_finalize"
             g == Goto(f, q)
  <2>1. q \in {"r_confirm", "r_finalize"} /\ (q = "r_confirm" => x.final) OBVIOUS
  <2>2. Step(w, q) BY <1>6
  <2> HIDE DEF q
  <2>3. q \in Points /\ q # "release" BY <2>1 DEF Points
  <2>4. PostAccepted(x) BY <1>6 DEF AllStageTasksCompleted, PostAccepted
  <2>5. g.pc = q /\ g.run = x BY <1>2, <2>3, GotoFields
  <2> HIDE DEF g
  <2>6. Control(g, World') BY <1>6, <2>1, <2>4, <2>5 DEF Control
  <2> QED BY <1>3, <2>2, <2>3, <2>6, GotoStep DEF g
<1> QED BY <1>4, <1>5, <1>6 DEF ReconcileDecide

\* The task of EgoAgentOS moves.
LEMMA EgoMoves ==
  ASSUME NEW u, NEW v, WorldOK(u), v.ego \in Egos, Consumed(u) => Consumed(v),
         u.ego.stage = "COMPLETED" => v.ego.stage = "COMPLETED",
         Consumed(v) => v.ego.stage \in {"EXECUTE", "COMPLETED"},
         v.ego.stage # "INTAKE" => Created(u),
         v.at = u.at, v.receipts = u.receipts, v.ledger = u.ledger, v.matrix = u.matrix
  PROVE  WorldOK(v) /\ Grows(u, v)
<1>1. Grows(u, v) BY DEF Grows
<1>2. Created(u) <=> Created(v) BY DEF Created
<1>3. \A t \in Tasks : EndedBelow(t, v) <=> EndedBelow(t, u) BY DEF EndedBelow
<1>4. WorldOK(v) BY <1>2, <1>3 DEF WorldOK
<1> QED BY <1>1, <1>4

\* advance_stage does not pass APPROVAL.
LEMMA EgoAdvancedIs ==
  ASSUME ego.stage \in ToSet(EgoStages), ego.stage # "APPROVAL"
  PROVE  EgoAdvanced \in Egos /\ EgoAdvanced.approval # "consumed"
         /\ EgoAdvanced.stage \notin {"EXECUTE", "COMPLETED"}
<1> DEFINE i == CHOOSE k \in DOMAIN EgoStages : EgoStages[k] = ego.stage
           next == EgoStages[i + 1]
<1>1. DOMAIN EgoStages = 1 .. 5 BY DEF EgoStages
<1>2. \E k \in DOMAIN EgoStages : EgoStages[k] = ego.stage BY DEF ToSet
<1>3. i \in 1 .. 5 /\ EgoStages[i] = ego.stage BY <1>1, <1>2
<1> HIDE DEF i
<1>4. i # 5 BY <1>3 DEF EgoStages
<1>5. i + 1 \in {2, 3, 4, 5} BY <1>3, <1>4
<1>6. next \in {"CONTEXT", "PLAN", "PLAN_REVIEW", "APPROVAL"} BY <1>5 DEF EgoStages
<1>7. EgoAdvanced = [stage |-> next, approval |-> IF next = "APPROVAL" THEN "pending" ELSE "none"]
  BY DEF EgoAdvanced, i
<1> HIDE DEF next
<1> QED BY <1>6, <1>7 DEF Egos, EgoStage

\* _advance_ego_to_approval, of a task whose project exists.
LEMMA ReconcileAdvanceKeeps ==
  ASSUME IInv, NEW w \in Workers, ReconcileAdvance(w)
  PROVE  IInv' /\ Kept
<1>1. frame[w].pc = "r_advance" /\ frame[w].pc \notin Apart
      /\ UNCHANGED <<Stored, lease, at, matrix>>
  BY DEF ReconcileAdvance, Ready, Apart
<1>2. Created(World) /\ WorldOK(World) /\ frame[w] \in Frames /\ UnderWay(frame[w])
  BY <1>1, FrameFacts DEF Control, IInv
<1>3. row' = row /\ lease' \in Leases BY <1>1, SameLease DEF Stored
<1>4. CASE UNCHANGED <<ego, faults>> /\ (Raise(w) \/ Step(w, "r_pause"))
  <2>1. WorldOK(World') /\ Grows(World, World') /\ faults' \in 0 .. MaxFaults
    BY <1>1, <1>4, SameWorld, SameFaults DEF Stored
  <2>2. "r_pause" \in Plain BY DEF Plain
  <2> QED BY <1>1, <1>3, <1>4, <2>1, <2>2, RaiseStep, PlainStep
<1>5. ASSUME ego.stage \in ToSet(EgoStages), ego.stage # "APPROVAL",
             NEW outcome \in Outcomes \ {"malformed"}, Spend(outcome),
             ego' = IF outcome = "refused" THEN ego ELSE EgoAdvanced,
             IF outcome = "ok" /\ OwnsLease(w) THEN Step(w, "r_advance") ELSE Raise(w)
      PROVE  IInv' /\ Kept
  <2>1. faults' \in 0 .. MaxFaults BY <1>5, SpendType
  <2>2. WorldOK(World') /\ Grows(World, World') /\ Created(World')
    <3>1. CASE ego' = ego
      <4>1. World' = World BY <1>1, <3>1 DEF World, Stored
      <4> QED BY <1>2, <4>1, GrowthReflexive
    <3>2. CASE ego' = EgoAdvanced
      <4>1. /\ EgoAdvanced \in Egos /\ EgoAdvanced.approval # "consumed"
            /\ EgoAdvanced.stage \notin {"EXECUTE", "COMPLETED"}
        BY <1>5, EgoAdvancedIs
      <4>2. ego.stage \notin {"EXECUTE", "COMPLETED"}
        <5>1. DOMAIN EgoStages = 1 .. 5 BY DEF EgoStages
        <5>2. PICK k \in 1 .. 5 : EgoStages[k] = ego.stage BY <1>5, <5>1 DEF ToSet
        <5>3. k \in {1, 2, 3, 4, 5} OBVIOUS
        <5> QED BY <5>2, <5>3 DEF EgoStages
      <4>3. /\ World'.at = World.at /\ World'.receipts = World.receipts
            /\ World'.ledger = World.ledger /\ World'.matrix = World.matrix
            /\ World'.ego = EgoAdvanced /\ World.ego = ego
        BY <1>1, <3>2 DEF World, Stored
      <4>4. ~Consumed(World) /\ ~Consumed(World')
        BY <1>2, <4>1, <4>2, <4>3 DEF Consumed, WorldOK
      <4>5. WorldOK(World') /\ Grows(World, World')
        BY <1>2, <4>1, <4>2, <4>3, <4>4, EgoMoves
      <4> QED BY <1>2, <4>5, CreatedStays
    <3> QED BY <1>5, <3>1, <3>2
  <2>3. CASE Raise(w) BY <1>3, <2>1, <2>2, <2>3, RaiseStep
  <2>4. CASE Step(w, "r_advance")
    <3> DEFINE g == Goto(frame[w], "r_advance")
    <3>1. "r_advance" \in Points BY DEF Points
    <3>2. g.pc = "r_advance" /\ g.run = frame[w].run BY <1>2, <3>1, GotoFields
    <3> HIDE DEF g
    <3>3. Control(g, World') BY <1>2, <2>2, <3>2 DEF Control, UnderWay
    <3> QED BY <1>3, <2>1, <2>2, <2>4, <3>1, <3>3, GotoStep DEF g
  <2> QED BY <1>5, <2>3, <2>4
<1> QED BY <1>4, <1>5 DEF ReconcileAdvance

\* The project is paused before the approval is asked for.
LEMMA ReconcilePauseKeeps ==
  ASSUME IInv, NEW w \in Workers, ReconcilePause(w)
  PROVE  IInv' /\ Kept
<1>1. frame[w].pc \notin Apart /\ "r_send_approval" \in Plain
      /\ CallController(w, Paused, "r_send_approval")
  BY DEF ReconcilePause, Ready, Apart, Plain
<1> QED BY <1>1, PlainCall

\* The request for approval goes to the room.
LEMMA ReconcileSendApprovalKeeps ==
  ASSUME IInv, NEW w \in Workers, ReconcileSendApproval(w)
  PROVE  IInv' /\ Kept
<1>1. frame[w].pc \notin Apart /\ "r_waiting" \in Plain
      /\ Send(w, "APPROVAL_REQUIRED", "r_waiting")
  BY DEF ReconcileSendApproval, Ready, Apart, Plain
<1> QED BY <1>1, PlainSend

\* WAITING_R2 is bookkeeping of the row.
LEMMA ReconcileWaitingKeeps ==
  ASSUME IInv, NEW w \in Workers, ReconcileWaiting(w)
  PROVE  IInv' /\ Kept
<1> DEFINE f == frame[w]
           x == f.run
           r == [x EXCEPT !.state = "WAITING_R2"]
           g == [f EXCEPT !.pc = "r_commit", !.run = r]
<1>1. UNCHANGED <<Stored, lease, External, faults>>
      /\ frame' = [frame EXCEPT ![w].run.state = "WAITING_R2", ![w].pc = "r_commit"]
  BY DEF ReconcileWaiting
<1>2. f \in Frames /\ x \in Runs /\ RunOK(x, World) BY FrameFacts
<1>3. /\ World' = World /\ WorldOK(World') /\ Grows(World, World') /\ row' = row
      /\ lease' \in Leases /\ faults' \in 0 .. MaxFaults
  BY <1>1, QuietStep DEF Stored
<1>4. frame' = [frame EXCEPT ![w] = g] BY <1>1, <1>2 DEF IInv, Frames
<1>5. /\ r \in Runs /\ r.graph = x.graph /\ r.accepted = x.accepted /\ r.grant = x.grant
      /\ r.committed = x.committed /\ r.final = x.final /\ r.state = "WAITING_R2"
      /\ r.resume = x.resume /\ r.retry = x.retry
  BY <1>2 DEF Runs, RunState
<1> HIDE DEF r
<1>6. "r_commit" \in Points BY DEF Points
<1>7. g \in Frames /\ g.pc = "r_commit" /\ g.run = r /\ g.wf = f.wf /\ g.current = f.current
  BY <1>2, <1>5, <1>6 DEF Frames
<1> HIDE DEF g
<1>8. RunOK(r, World) /\ Extends(r, x) BY <1>2, <1>5, NotedRun
<1>9. Control(g, World') BY <1>5, <1>7, CommitPoint
<1> QED BY <1>3, <1>4, <1>7, <1>8, <1>9, RunFrame

\* The program points between the last acceptance and the end of the run.
Ending == {"r_finalize", "r_finalized", "r_final", "r_confirm", "r_complete", "r_completed"}

\* What is known between the last acceptance and the end of the run.
LEMMA EndingGoto ==
  ASSUME IInv, NEW w \in Workers, frame[w].pc \in Ending,
         NEW pc \in Ending \ {"r_finalize", "r_confirm"}, NEW v, v.ego.stage = "COMPLETED",
         pc = "r_final" => v.receipts[Key("live-finalization")] # "none",
         pc \in {"r_complete", "r_completed"} => frame[w].run.final,
         pc = "r_completed" => v.at.status = "completed"
  PROVE  /\ pc \in Points /\ pc # "release" /\ pc \notin WfPoints
         /\ Control(Goto(frame[w], pc), v)
<1> DEFINE g == Goto(frame[w], pc)
<1>1. /\ frame[w] \in Frames /\ frame[w].run.state = "POST_APPROVAL" /\ PostAccepted(frame[w].run)
  BY FrameFacts DEF Control, Ending
<1>2. pc \in Points /\ pc # "release" /\ pc \notin WfPoints BY DEF Points, Ending, WfPoints
<1>3. g.pc = pc /\ g.run = frame[w].run BY <1>1, <1>2, GotoFields
<1> HIDE DEF g
<1>4. Control(g, v) BY <1>1, <1>3 DEF Control, Ending
<1> QED BY <1>2, <1>4 DEF g

\* _finalize_ego moves the task from EXECUTE to COMPLETED.
LEMMA ReconcileFinalizeKeeps ==
  ASSUME IInv, NEW w \in Workers, ReconcileFinalize(w)
  PROVE  IInv' /\ Kept
<1>1. frame[w].pc = "r_finalize" /\ frame[w].pc \in Ending
      /\ UNCHANGED <<Stored, lease, at, matrix>>
  BY DEF ReconcileFinalize, Ready, Ending
<1>2. WorldOK(World) BY DEF IInv
<1>3. row' = row /\ lease' \in Leases BY <1>1, SameLease DEF Stored
<1>4. CASE Raise(w) /\ UNCHANGED <<ego, faults>>
  <2>1. WorldOK(World') /\ Grows(World, World') /\ faults' \in 0 .. MaxFaults
    BY <1>1, <1>4, SameWorld, SameFaults DEF Stored
  <2> QED BY <1>3, <1>4, <2>1, RaiseStep
<1>5. ASSUME ego.stage = "EXECUTE",
             NEW outcome \in Outcomes \ {"malformed"}, Spend(outcome),
             ego' = IF outcome = "refused" THEN ego ELSE EgoFinalized,
             IF outcome = "ok" THEN Step(w, "r_finalized") ELSE Raise(w)
      PROVE  IInv' /\ Kept
  <2>1. faults' \in 0 .. MaxFaults BY <1>5, SpendType
  <2>2. WorldOK(World') /\ Grows(World, World')
    <3>1. CASE ego' = ego
      <4>1. World' = World BY <1>1, <3>1 DEF World, Stored
      <4> QED BY <1>2, <4>1, GrowthReflexive
    <3>2. CASE ego' = EgoFinalized
      <4>1. /\ World'.at = World.at /\ World'.receipts = World.receipts
            /\ World'.ledger = World.ledger /\ World'.matrix = World.matrix
            /\ World'.ego = EgoFinalized /\ World.ego = ego
        BY <1>1, <3>2 DEF World, Stored
      <4>2. ego \in Egos BY <1>2, <4>1 DEF WorldOK
      <4>3. EgoFinalized \in Egos /\ EgoFinalized.stage = "COMPLETED"
            /\ EgoFinalized.approval = ego.approval
        BY <4>2 DEF EgoFinalized, Egos, EgoStage
      <4>4. Created(World) BY <1>2, <1>5, <4>1 DEF WorldOK
      <4>5. (Consumed(World) <=> Consumed(World')) BY <4>1, <4>3 DEF Consumed
      <4> QED BY <1>2, <4>1, <4>3, <4>4, <4>5, EgoMoves
    <3> QED BY <1>5, <3>1, <3>2
  <2>3. CASE outcome # "ok"
    <3>1. Raise(w) BY <1>5, <2>3
    <3> QED BY <1>3, <2>1, <2>2, <3>1, RaiseStep
  <2>4. CASE outcome = "ok"
    <3>1. Step(w, "r_finalized") /\ ego' = EgoFinalized BY <1>5, <2>4
    <3>2. World'.ego.stage = "COMPLETED"
      <4>1. ego \in Egos BY <1>2 DEF WorldOK, World
      <4> QED BY <3>1, <4>1 DEF World, EgoFinalized, Egos
    <3>3. "r_finalized" \in Ending \ {"r_finalize", "r_confirm"} BY DEF Ending
    <3>4. Control(Goto(frame[w], "r_finalized"), World') /\ "r_finalized" \in Points
      BY <1>1, <3>2, <3>3, EndingGoto
    <3> QED BY <1>3, <2>1, <2>2, <3>1, <3>4, GotoStep
  <2> QED BY <2>3, <2>4
<1> QED BY <1>4, <1>5 DEF ReconcileFinalize

\* A receipt is archived, nothing else moves in the world.
LEMMA ReceiptMoves ==
  ASSUME IInv, NEW key \in ReceiptKeys, NEW v \in Variants,
         receipts' = [receipts EXCEPT ![key] = v], UNCHANGED <<ledger, External>>
  PROVE  WorldOK(World') /\ Grows(World, World') /\ World'.receipts[key] # "none"
<1>1. /\ receipts' \in Archives /\ receipts'[key] # "none"
      /\ \A k \in ReceiptKeys : receipts[k] # "none" => receipts'[k] # "none"
  BY ReceiptKept
<1>2. WorldOK(World') /\ Grows(World, World') BY <1>1, StoresMove DEF External
<1> QED BY <1>1, <1>2 DEF World

\* Its receipt is archived before the checkpoint records it ...
LEMMA ReconcileFinalizedKeeps ==
  ASSUME IInv, NEW w \in Workers, ReconcileFinalized(w)
  PROVE  IInv' /\ Kept
<1>1. frame[w].pc = "r_finalized" /\ frame[w].pc \in Ending
      /\ UNCHANGED <<row, ledger, lease, External, faults>>
  BY DEF ReconcileFinalized, Ending
<1>2. row' = row /\ lease' \in Leases /\ faults' \in 0 .. MaxFaults
  BY <1>1, SameLease, SameFaults
<1>3. CASE Raise(w) /\ UNCHANGED receipts
  <2>1. WorldOK(World') /\ Grows(World, World') BY <1>1, <1>3, SameWorld DEF External
  <2> QED BY <1>2, <1>3, <2>1, RaiseStep
<1>4. ASSUME NEW v \in Variants, Step(w, "r_final"),
             receipts' = [receipts EXCEPT ![Key("live-finalization")] = v]
      PROVE  IInv' /\ Kept
  <2>1. /\ WorldOK(World') /\ Grows(World, World')
        /\ World'.receipts[Key("live-finalization")] # "none"
    BY <1>1, <1>4, Keys, ReceiptMoves
  <2>2. World'.ego.stage = "COMPLETED"
    <3>1. World.ego.stage = "COMPLETED" BY <1>1, FrameFacts DEF Control
    <3> QED BY <2>1, <3>1 DEF Grows
  <2>3. "r_final" \in Ending \ {"r_finalize", "r_confirm"} BY DEF Ending
  <2>4. Control(Goto(frame[w], "r_final"), World') /\ "r_final" \in Points
    BY <1>1, <2>1, <2>2, <2>3, EndingGoto
  <2> QED BY <1>2, <1>4, <2>1, <2>4, GotoStep
<1> QED BY <1>3, <1>4 DEF ReconcileFinalized

\* ... which comes here.
LEMMA ReconcileFinalKeeps ==
  ASSUME IInv, NEW w \in Workers, ReconcileFinal(w)
  PROVE  IInv' /\ Kept
<1> DEFINE f == frame[w]
           x == f.run
           r == [x EXCEPT !.final = TRUE]
<1>1. f.pc = "r_final" /\ f.pc \in Ending /\ UNCHANGED <<receipts, ledger, lease, External, faults>>
  BY DEF ReconcileFinal, Ending
<1>2. /\ f \in Frames /\ x \in Runs /\ RunOK(x, World) /\ x.state = "POST_APPROVAL"
      /\ PostAccepted(x) /\ World.ego.stage = "COMPLETED"
      /\ World.receipts[Key("live-finalization")] # "none"
  BY <1>1, FrameFacts DEF Control
<1>3. Update(w, r, "r_complete") BY DEF ReconcileFinal
<1>4. /\ r \in Runs /\ r.graph = x.graph /\ r.accepted = x.accepted /\ r.grant = x.grant
      /\ r.committed = x.committed /\ r.final /\ r.state = "POST_APPROVAL"
      /\ r.resume = x.resume /\ r.retry = x.retry
  BY <1>2 DEF Runs
<1> HIDE DEF r
<1>5. RunOK(r, World) BY <1>2, <1>4, RunChanges DEF RunOK
<1>6. Extends(r, x) BY <1>4 DEF Extends
<1>7. PostAccepted(r) BY <1>2, <1>4, PostAcceptedSame
<1>8. \A g : (g.pc = "r_complete" /\ g.run = r) => Control(g, World)
  BY <1>2, <1>4, <1>7 DEF Control
<1>9. "r_complete" \in Points /\ "r_complete" \notin WfPoints BY DEF Points, WfPoints
<1> QED BY <1>1, <1>3, <1>4, <1>5, <1>6, <1>8, <1>9, UpdateTo

\* A finalization that is recorded is confirmed at the API.
LEMMA ReconcileConfirmKeeps ==
  ASSUME IInv, NEW w \in Workers, ReconcileConfirm(w)
  PROVE  IInv' /\ Kept
<1>1. frame[w].pc = "r_confirm" /\ frame[w].pc \in Ending
      /\ UNCHANGED <<Stored, lease, External, faults>>
  BY DEF ReconcileConfirm, Ending
<1>2. /\ World' = World /\ WorldOK(World') /\ Grows(World, World') /\ row' = row
      /\ lease' \in Leases /\ faults' \in 0 .. MaxFaults
  BY <1>1, QuietStep DEF Stored
<1>3. CASE Raise(w) BY <1>2, <1>3, RaiseStep
<1>4. CASE ego.stage = "COMPLETED" /\ Step(w, "r_complete")
  <2>1. World'.ego.stage = "COMPLETED" BY <1>2, <1>4 DEF World
  <2>2. frame[w].run.final BY <1>1, FrameFacts DEF Control
  <2>3. "r_complete" \in Ending \ {"r_finalize", "r_confirm"} BY DEF Ending
  <2>4. Control(Goto(frame[w], "r_complete"), World') /\ "r_complete" \in Points
    BY <1>1, <2>1, <2>2, <2>3, EndingGoto
  <2> QED BY <1>2, <1>4, <2>4, GotoStep
<1> QED BY <1>3, <1>4 DEF ReconcileConfirm

\* The project is completed.
LEMMA ReconcileCompleteKeeps ==
  ASSUME IInv, NEW w \in Workers, ReconcileComplete(w)
  PROVE  IInv' /\ Kept
<1> DEFINE v == After(ProjectCompleted)
<1>1. frame[w].pc = "r_complete" /\ frame[w].pc \in Ending
      /\ CallController(w, ProjectCompleted, "r_completed")
  BY DEF ReconcileComplete, Ready, Ending
<1>2. WorldOK(v) /\ Grows(World, v) BY StatusCalls
<1>3. World.ego.stage = "COMPLETED" /\ frame[w].run.final BY <1>1, FrameFacts DEF Control
<1>4. v.at.status = "completed" /\ v.ego.stage = "COMPLETED"
  <2>1. at \in Projects BY DEF IInv, WorldOK, World
  <2>2. ProjectCompleted.status = "completed" BY <2>1 DEF ProjectCompleted, Projects
  <2> QED BY <1>3, <2>2, AfterFields
<1>5. "r_completed" \in Ending \ {"r_finalize", "r_confirm"} BY DEF Ending
<1> HIDE DEF v
<1>6. Control(Goto(frame[w], "r_completed"), v) /\ "r_completed" \in Points
  BY <1>1, <1>3, <1>4, <1>5, EndingGoto
<1> QED BY <1>1, <1>2, <1>6, CallStep DEF v

\* With the last receipt archived the run has all that COMPLETED claims but the envelope.
LEMMA ReconcileCompletedKeeps ==
  ASSUME IInv, NEW w \in Workers, ReconcileCompleted(w)
  PROVE  IInv' /\ Kept
<1> DEFINE f == frame[w]
           x == f.run
           r == [x EXCEPT !.state = "COMPLETED"]
           g == [f EXCEPT !.pc = "r_send_terminal", !.run = r]
<1>1. f.pc = "r_completed" /\ UNCHANGED <<row, ledger, lease, External, faults>>
  BY DEF ReconcileCompleted
<1>2. row' = row /\ lease' \in Leases /\ faults' \in 0 .. MaxFaults
  BY <1>1, SameLease, SameFaults
<1>3. CASE Raise(w) /\ UNCHANGED receipts
  <2>1. WorldOK(World') /\ Grows(World, World') BY <1>1, <1>3, SameWorld DEF External
  <2> QED BY <1>2, <1>3, <2>1, RaiseStep
<1>4. ASSUME NEW v \in Variants,
             receipts' = [receipts EXCEPT ![Key("project-complete")] = v],
             frame' = [frame EXCEPT ![w].run.state = "COMPLETED", ![w].pc = "r_send_terminal"]
      PROVE  IInv' /\ Kept
  <2>1. /\ WorldOK(World') /\ Grows(World, World')
        /\ World'.receipts[Key("project-complete")] # "none"
    BY <1>1, <1>4, Keys, ReceiptMoves
  <2>2. /\ f \in Frames /\ x \in Runs /\ RunOK(x, World) /\ x.state = "POST_APPROVAL"
        /\ PostAccepted(x) /\ World.ego.stage = "COMPLETED" /\ x.final
        /\ World.at.status = "completed" /\ WorldOK(World)
    BY <1>1, FrameFacts DEF Control, IInv
  <2>3. x.grant /\ World.receipts[Key("live-finalization")] # "none" BY <2>2 DEF RunOK
  <2>4. Created(World) BY <2>2 DEF WorldOK
  <2>5. /\ World'.ego.stage = "COMPLETED" /\ World'.at.status = "completed"
        /\ Created(World') /\ World'.receipts[Key("live-finalization")] # "none"
    BY <2>1, <2>2, <2>3, <2>4, Keys, CreatedStays DEF Grows
  <2>6. \A k \in TerminalKeys : World'.receipts[k] # "none"
    BY <2>1, <2>5 DEF TerminalKeys, Created
  <2>7. frame' = [frame EXCEPT ![w] = g] BY <1>4, <2>2 DEF IInv, Frames
  <2>8. /\ r \in Runs /\ r.graph = x.graph /\ r.accepted = x.accepted /\ r.grant = x.grant
        /\ r.committed = x.committed /\ r.final = x.final /\ r.state = "COMPLETED"
        /\ r.resume = x.resume /\ r.retry = x.retry
    BY <2>2 DEF Runs, RunState
  <2> HIDE DEF r
  <2>9. "r_send_terminal" \in Points BY DEF Points
  <2>10. g \in Frames /\ g.pc = "r_send_terminal" /\ g.run = r /\ g.wf = f.wf
         /\ g.current = f.current
    BY <2>2, <2>8, <2>9 DEF Frames
  <2> HIDE DEF g
  <2>11. Finished(r, World')
    BY <2>2, <2>3, <2>5, <2>6, <2>8, PostAcceptedSame DEF Finished
  <2>12. RunOK(x, World') BY <2>1, <2>2, RunStays
  <2>13. RunOK(r, World') BY <2>8, <2>11, <2>12, RunChanges DEF RunOK
  <2>14. Extends(r, x) BY <2>8 DEF Extends
  <2>15. Control(g, World') BY <2>8, <2>10 DEF Control
  <2> QED BY <1>2, <2>1, <2>7, <2>10, <2>13, <2>14, <2>15, RunFrame
<1> QED BY <1>3, <1>4 DEF ReconcileCompleted

\* The TERMINAL envelope goes to the room before the row says COMPLETED.
LEMMA ReconcileSendTerminalKeeps ==
  ASSUME IInv, NEW w \in Workers, ReconcileSendTerminal(w)
  PROVE  IInv' /\ Kept
<1> DEFINE g == Goto(frame[w], "r_commit")
<1>1. frame[w].pc = "r_send_terminal" /\ Send(w, "TERMINAL", "r_commit")
  BY DEF ReconcileSendTerminal, Ready
<1>2. frame[w] \in Frames /\ frame[w].run.state = "COMPLETED" BY <1>1, FrameFacts DEF Control
<1>3. "r_commit" \in Points BY DEF Points
<1>4. g.pc = "r_commit" /\ g.run = frame[w].run BY <1>2, <1>3, GotoFields
<1> HIDE DEF g
<1>5. \A v : "TERMINAL" \in v.matrix => Control(g, v) BY <1>2, <1>4 DEF Control
<1> QED BY <1>1, <1>3, <1>5, SendStep DEF g

\* The update_run at the end of _reconcile_claimed.
LEMMA ReconcileCommitKeeps ==
  ASSUME IInv, NEW w \in Workers, ReconcileCommit(w)
  PROVE  IInv' /\ Kept
<1>1. frame[w].pc = "r_commit" /\ Update(w, frame[w].run, "release")
      /\ UNCHANGED <<receipts, lease, External, faults>> /\ ledger \subseteq ledger'
  BY DEF ReconcileCommit
<1>2. RunOK(frame[w].run, World) /\ Control(frame[w], World) BY FrameFacts
<1>3. RowOK(frame[w].run, World) BY <1>1, <1>2 DEF Control, RowOK
<1> QED BY <1>1, <1>2, <1>3, ExtendsSelf, UpdateRelease

\* Every step of reconcile after the last conflict.
LEMMA GatesKeeps ==
  ASSUME IInv, NEW w \in Workers, Gates(w)
  PROVE  IInv' /\ Kept
BY ReconcileDecideKeeps, ReconcileAdvanceKeeps, ReconcilePauseKeeps, ReconcileSendApprovalKeeps,
   ReconcileWaitingKeeps, ApprovalErrorKeeps, ReconcileFinalizeKeeps, ReconcileFinalizedKeeps,
   ReconcileFinalKeeps, ReconcileConfirmKeeps, ReconcileCompleteKeeps, ReconcileCompletedKeeps,
   ReconcileSendTerminalKeeps, TerminalErrorKeeps, ReconcileCommitKeeps DEF Gates

-----------------------------------------------------------------------------
(* _recover_compensation *)

\* _recover_compensation repeats only what it can send.
LEMMA RecoverBeginKeeps ==
  ASSUME IInv, NEW w \in Workers, RecoverBegin(w)
  PROVE  IInv' /\ Kept
<1> DEFINE g == Goto(frame[w], "c_send")
<1>1. /\ frame[w].pc = "c_recover" /\ frame[w].pc \notin Apart
      /\ UNCHANGED <<Stored, lease, External, faults>>
      /\ Step(w, IF frame[w].run.retry \in Sendable THEN "c_send" ELSE "r_commit")
  BY DEF RecoverBegin, Apart, Sendable
<1>2. /\ World' = World /\ WorldOK(World') /\ Grows(World, World') /\ row' = row
      /\ lease' \in Leases /\ faults' \in 0 .. MaxFaults
  BY <1>1, QuietStep DEF Stored
<1>3. frame[w] \in Frames /\ frame[w].run.state = "COMPENSATION_REQUIRED"
  BY <1>1, FrameFacts DEF Control
<1>4. "c_send" \in Points BY DEF Points
<1>5. g.pc = "c_send" /\ g.run = frame[w].run BY <1>3, <1>4, GotoFields
<1> HIDE DEF g
<1>6. CASE frame[w].run.retry \in Sendable /\ Step(w, "c_send")
  <2>1. Control(g, World') BY <1>3, <1>5, <1>6 DEF Control
  <2> QED BY <1>2, <1>4, <1>6, <2>1, GotoStep DEF g
<1>7. CASE Step(w, "r_commit") BY <1>1, <1>2, <1>7, CommitGoto, GotoStep
<1> QED BY <1>1, <1>6, <1>7

\* The envelope that failed is sent again.
LEMMA RecoverSendKeeps ==
  ASSUME IInv, NEW w \in Workers, RecoverSend(w)
  PROVE  IInv' /\ Kept
<1> DEFINE retry == frame[w].run.retry
           q == IF retry \in {"start-dispatch", "replan-notify"} THEN "c_resume" ELSE "c_done"
           kind == RecoveryKind(retry)
           g == Goto(frame[w], q)
<1>1. frame[w].pc = "c_send" /\ Send(w, kind, q) BY DEF RecoverSend, Ready
<1>2. /\ frame[w] \in Frames /\ frame[w].run.state = "COMPENSATION_REQUIRED"
      /\ retry \in Sendable
  BY <1>1, FrameFacts DEF Control
<1>3. /\ q \in {"c_resume", "c_done"}
      /\ q = "c_resume" => retry \in {"start-dispatch", "replan-notify"}
  OBVIOUS
<1>4. retry = "terminal-notify" => kind = "TERMINAL" BY DEF RecoveryKind
<1> HIDE DEF q, kind
<1>5. q \in Points /\ q # "release" BY <1>3 DEF Points
<1>6. g.pc = q /\ g.run = frame[w].run BY <1>2, <1>5, GotoFields
<1> HIDE DEF g
<1>7. \A v : kind \in v.matrix => Control(g, v) BY <1>2, <1>3, <1>4, <1>6 DEF Control
<1> QED BY <1>1, <1>5, <1>7, SendStep DEF g

\* The project goes on.
LEMMA RecoverResumeKeeps ==
  ASSUME IInv, NEW w \in Workers, RecoverResume(w)
  PROVE  IInv' /\ Kept
<1> DEFINE g == Goto(frame[w], "c_done")
<1>1. frame[w].pc = "c_resume" /\ CallController(w, Resumed, "c_done")
  BY DEF RecoverResume, Ready
<1>2. /\ frame[w] \in Frames /\ frame[w].run.state = "COMPENSATION_REQUIRED"
      /\ frame[w].run.retry \in {"start-dispatch", "replan-notify"}
  BY <1>1, FrameFacts DEF Control
<1>3. "c_done" \in Points BY DEF Points
<1>4. g.pc = "c_done" /\ g.run = frame[w].run BY <1>2, <1>3, GotoFields
<1> HIDE DEF g
<1>5. \A v : Control(g, v) BY <1>2, <1>4 DEF Control, Sendable
<1>6. WorldOK(After(Resumed)) /\ Grows(World, After(Resumed)) BY StatusCalls
<1> QED BY <1>1, <1>3, <1>5, <1>6, CallStep DEF g

\* The run returns to the state it had; one whose TERMINAL envelope failed is COMPLETED now.
LEMMA RecoverDoneKeeps ==
  ASSUME IInv, NEW w \in Workers, RecoverDone(w)
  PROVE  IInv' /\ Kept
<1> DEFINE f == frame[w]
           x == f.run
           next == CASE x.retry = "start-dispatch" -> "PRE_APPROVAL"
                     [] x.retry = "replan-notify" ->
                            IF x.resume \in {"PRE_APPROVAL", "POST_APPROVAL"} THEN x.resume
                            ELSE "PRE_APPROVAL"
                     [] x.retry = "approval-required-notify" -> "WAITING_R2"
                     [] OTHER -> "COMPLETED"
           r == [x EXCEPT !.state = next, !.retry = "none", !.resume = "ABSENT"]
           g == [f EXCEPT !.pc = "r_commit", !.run = r]
<1>1. f.pc = "c_done" /\ UNCHANGED <<Stored, lease, External, faults>>
      /\ frame' = [frame EXCEPT ![w].pc = "r_commit", ![w].run = r]
  BY DEF RecoverDone
<1>2. /\ f \in Frames /\ x \in Runs /\ RunOK(x, World) /\ x.state = "COMPENSATION_REQUIRED"
      /\ x.retry \in Sendable /\ (x.retry = "terminal-notify" => "TERMINAL" \in World.matrix)
  BY <1>1, FrameFacts DEF Control
<1>3. /\ World' = World /\ WorldOK(World') /\ Grows(World, World') /\ row' = row
      /\ lease' \in Leases /\ faults' \in 0 .. MaxFaults
  BY <1>1, QuietStep DEF Stored
<1>4. /\ next \in {"PRE_APPROVAL", "POST_APPROVAL", "WAITING_R2", "COMPLETED"}
      /\ next = "POST_APPROVAL" => x.resume = "POST_APPROVAL"
      /\ next = "COMPLETED" => x.retry = "terminal-notify"
  BY <1>2 DEF Sendable
<1> HIDE DEF next
<1>5. /\ r \in Runs /\ r.graph = x.graph /\ r.accepted = x.accepted /\ r.grant = x.grant
      /\ r.committed = x.committed /\ r.final = x.final /\ r.state = next
      /\ r.resume = "ABSENT" /\ r.retry = "none"
  BY <1>2, <1>4 DEF Runs, RunState, RetryOperations
<1>6. frame' = [frame EXCEPT ![w] = g] BY <1>1 DEF IInv
<1> HIDE DEF r
<1>7. "r_commit" \in Points BY DEF Points
<1>8. g \in Frames /\ g.pc = "r_commit" /\ g.run = r /\ g.wf = f.wf /\ g.current = f.current
  BY <1>2, <1>5, <1>7 DEF Frames
<1> HIDE DEF g
<1>9. next = "COMPLETED" => Finished(r, World)
  BY <1>2, <1>4, <1>5, FinishedSame DEF RunOK
<1>10. next = "POST_APPROVAL" => r.grant BY <1>2, <1>4, <1>5 DEF RunOK
<1>11. RunOK(r, World) BY <1>2, <1>4, <1>5, <1>9, <1>10, RunChanges DEF RunOK
<1>12. Extends(r, x) BY <1>5 DEF Extends
<1>13. Control(g, World') BY <1>2, <1>3, <1>4, <1>5, <1>8 DEF Control
<1> QED BY <1>3, <1>6, <1>8, <1>11, <1>12, <1>13, RunFrame

\* Every step of _recover_compensation.
LEMMA RecoverKeeps ==
  ASSUME IInv, NEW w \in Workers, Recover(w)
  PROVE  IInv' /\ Kept
BY RecoverBeginKeeps, RecoverSendKeeps, RecoverResumeKeeps, RecoverDoneKeeps DEF Recover

-----------------------------------------------------------------------------
(* grant_r2 *)

\* grant_r2 is admitted while the run waits or asks for compensation.
LEMMA GrantClaimKeeps ==
  ASSUME IInv, NEW w \in Workers, GrantClaim(w)
  PROVE  IInv' /\ Kept
<1>1. "g_check" \in Plain BY DEF Plain
<1> QED BY <1>1, ClaimStep DEF GrantClaim

\* Program points that need the grant to be recorded in the worker's copy.
GrantedPoints == {"g_resume", "g_replan", "g_graph"}

\* A recorded grant is all those points ask for.
LEMMA GrantedGoto ==
  ASSUME IInv, NEW w \in Workers, frame[w].pc \notin Apart, frame[w].run.grant,
         NEW pc \in GrantedPoints
  PROVE  /\ pc \in Points /\ pc # "release" /\ pc \notin WfPoints
         /\ \A v : Control(Goto(frame[w], pc), v)
<1> DEFINE g == Goto(frame[w], pc)
<1>1. frame[w] \in Frames /\ UnderWay(frame[w]) BY FrameFacts
<1>2. pc \in Points /\ pc # "release" /\ pc \notin WfPoints
  BY DEF Points, GrantedPoints, WfPoints
<1>3. g.pc = pc /\ g.run = frame[w].run BY <1>1, <1>2, GotoFields
<1> HIDE DEF g
<1>4. \A v : Control(g, v) BY <1>1, <1>3 DEF Control, UnderWay, GrantedPoints
<1> QED BY <1>2, <1>4 DEF g

\* A committed grant is not consumed again.
LEMMA GrantCheckKeeps ==
  ASSUME IInv, NEW w \in Workers, GrantCheck(w)
  PROVE  IInv' /\ Kept
<1>1. frame[w].pc = "g_check" /\ frame[w].pc \notin Apart
      /\ UNCHANGED <<Stored, lease, External, faults>>
  BY DEF GrantCheck, Apart
<1>2. /\ World' = World /\ WorldOK(World') /\ Grows(World, World') /\ row' = row
      /\ lease' \in Leases /\ faults' \in 0 .. MaxFaults
  BY <1>1, QuietStep DEF Stored
<1>3. CASE Raise(w) BY <1>2, <1>3, RaiseStep
<1>4. CASE frame[w].run.grant /\ Step(w, "g_resume")
  <2>1. "g_resume" \in GrantedPoints BY DEF GrantedPoints
  <2> QED BY <1>1, <1>2, <1>4, <2>1, GrantedGoto, GotoStep
<1>5. CASE Step(w, "g_consume")
  <2>1. "g_consume" \in Plain BY DEF Plain
  <2> QED BY <1>1, <1>2, <1>5, <2>1, PlainStep
<1> QED BY <1>3, <1>4, <1>5 DEF GrantCheck

\* The API consumes the approval of a task at APPROVAL; the answer may be lost or malformed.
LEMMA GrantConsumeKeeps ==
  ASSUME IInv, NEW w \in Workers, GrantConsume(w)
  PROVE  IInv' /\ Kept
<1>1. /\ frame[w].pc = "g_consume" /\ frame[w].pc \notin Apart
      /\ UNCHANGED <<Stored, lease, at, matrix>>
  BY DEF GrantConsume, Ready, Apart
<1>2. WorldOK(World) BY DEF IInv
<1>3. row' = row /\ lease' \in Leases BY <1>1, SameLease DEF Stored
<1>4. CASE Raise(w) /\ UNCHANGED <<ego, faults>>
  <2>1. WorldOK(World') /\ Grows(World, World') /\ faults' \in 0 .. MaxFaults
    BY <1>1, <1>4, SameWorld, SameFaults DEF Stored
  <2> QED BY <1>3, <1>4, <2>1, RaiseStep
<1>5. ASSUME ego.stage = "APPROVAL", NEW outcome \in Outcomes, Spend(outcome),
             ego' = IF outcome = "refused" THEN ego ELSE EgoGranted,
             CASE outcome = "ok"        -> Step(w, "g_committed")
               [] outcome = "malformed" -> Step(w, "g_uncertain")
               [] OTHER                 -> Raise(w)
      PROVE  IInv' /\ Kept
  <2>1. faults' \in 0 .. MaxFaults BY <1>5, SpendType
  <2>2. ego' = EgoGranted => Consumed(World') BY DEF World, EgoGranted, Consumed
  <2>3. WorldOK(World') /\ Grows(World, World')
    <3>1. CASE ego' = ego
      <4>1. World' = World BY <1>1, <3>1 DEF World, Stored
      <4> QED BY <1>2, <4>1, GrowthReflexive
    <3>2. CASE ego' = EgoGranted
      <4>1. /\ World'.at = World.at /\ World'.receipts = World.receipts
            /\ World'.ledger = World.ledger /\ World'.matrix = World.matrix
            /\ World'.ego = EgoGranted /\ World.ego = ego
        BY <1>1, <3>2 DEF World, Stored
      <4>2. EgoGranted \in Egos /\ EgoGranted.stage = "EXECUTE"
        BY DEF EgoGranted, Egos, EgoStage
      <4>3. Created(World) /\ World.ego.stage # "COMPLETED" BY <1>2, <1>5, <4>1 DEF WorldOK
      <4> QED BY <1>2, <2>2, <3>2, <4>1, <4>2, <4>3, EgoMoves
    <3> QED BY <1>5, <3>1, <3>2
  <2>4. CASE outcome \notin {"ok", "malformed"}
    <3>1. Raise(w) BY <1>5, <2>4
    <3> QED BY <1>3, <2>1, <2>3, <3>1, RaiseStep
  <2>5. CASE outcome \in {"ok", "malformed"}
    <3> DEFINE q == IF outcome = "ok" THEN "g_committed" ELSE "g_uncertain"
               g == Goto(frame[w], q)
    <3>1. Step(w, q) /\ ego' = EgoGranted BY <1>5, <2>5
    <3>2. q \in {"g_committed", "g_uncertain"} OBVIOUS
    <3> HIDE DEF q
    <3>3. q \in Points /\ q # "release" BY <3>2 DEF Points
    <3>4. frame[w] \in Frames /\ UnderWay(frame[w]) BY <1>1, FrameFacts
    <3>5. g.pc = q /\ g.run = frame[w].run BY <3>3, <3>4, GotoFields
    <3> HIDE DEF g
    <3>6. Control(g, World') BY <2>2, <3>1, <3>2, <3>4, <3>5 DEF Control, UnderWay
    <3> QED BY <1>3, <2>1, <2>3, <3>1, <3>3, <3>6, GotoStep DEF g
  <2> QED BY <2>4, <2>5
<1> QED BY <1>4, <1>5 DEF GrantConsume

\* The grant is recorded after the API has consumed the approval.
LEMMA GrantCommittedKeeps ==
  ASSUME IInv, NEW w \in Workers, GrantCommitted(w)
  PROVE  IInv' /\ Kept
<1> DEFINE x == frame[w].run
           r == [x EXCEPT !.grant = TRUE]
<1>1. /\ frame[w].pc \in {"g_committed", "g_uncertain"} /\ frame[w].pc \notin Apart
      /\ UNCHANGED <<receipts, ledger, lease, External, faults>>
      /\ Update(w, r, IF frame[w].pc = "g_committed" THEN "g_resume" ELSE "g_unverified")
  BY DEF GrantCommitted, Apart
<1>2. RunOK(x, World) /\ x \in Runs /\ UnderWay(frame[w]) /\ Consumed(World)
  BY <1>1, FrameFacts DEF Control
<1>3. /\ r \in Runs /\ r.graph = x.graph /\ r.accepted = x.accepted /\ r.grant
      /\ r.committed = x.committed /\ r.final = x.final /\ r.state = x.state
      /\ r.resume = x.resume /\ r.retry = x.retry
  BY <1>2 DEF Runs
<1> HIDE DEF r
<1>4. (r.state = "COMPLETED"
         \/ (r.state = "COMPENSATION_REQUIRED" /\ r.retry = "terminal-notify"))
        => Finished(r, World)
  BY <1>2, <1>3, FinishedSame DEF RunOK
<1>5. RunOK(r, World) BY <1>2, <1>3, <1>4, RunChanges DEF RunOK
<1>6. Extends(r, x) BY <1>3 DEF Extends
<1>7. r.state \notin {"ABSENT", "COMPLETED", "BLOCKED"} BY <1>2, <1>3 DEF UnderWay
<1>8. CASE Update(w, r, "g_resume")
  <2>1. "g_resume" \in Points /\ "g_resume" \notin WfPoints BY DEF Points, WfPoints
  <2>2. \A g : (g.pc = "g_resume" /\ g.run = r) => Control(g, World)
    BY <1>3, <1>7 DEF Control
  <2> QED BY <1>1, <1>5, <1>6, <1>7, <1>8, <2>1, <2>2, UpdateTo
<1>9. CASE Update(w, r, "g_unverified")
  <2>1. "g_unverified" \in Plain BY DEF Plain
  <2> QED BY <1>1, <1>5, <1>6, <1>7, <1>9, <2>1, UpdatePlain
<1> QED BY <1>1, <1>8, <1>9

\* The run after an update_run that ends the grant.
LEMMA FencedRun ==
  ASSUME NEW x, NEW u, RunOK(x, u),
         NEW operation \in {"grant-response-uncertain", "resume-replan-notify"}
  PROVE  LET r == [x EXCEPT !.state = "COMPENSATION_REQUIRED", !.retry = operation] IN
         RunOK(r, u) /\ RowOK(r, u) /\ Extends(r, x)
<1> DEFINE r == [x EXCEPT !.state = "COMPENSATION_REQUIRED", !.retry = operation]
<1>1. x \in Runs BY DEF RunOK
<1>2. /\ r \in Runs /\ r.graph = x.graph /\ r.accepted = x.accepted /\ r.grant = x.grant
      /\ r.committed = x.committed /\ r.final = x.final /\ r.state = "COMPENSATION_REQUIRED"
      /\ r.resume = x.resume /\ r.retry = operation
  BY <1>1 DEF Runs, RunState, RetryOperations
<1> HIDE DEF r
<1>3. RunOK(r, u) /\ Extends(r, x) BY <1>2, NotedRun
<1>4. RowOK(r, u) BY <1>2 DEF RowOK
<1> QED BY <1>3, <1>4 DEF r

\* An answer that does not show EXECUTE is fenced.
LEMMA GrantUnverifiedKeeps ==
  ASSUME IInv, NEW w \in Workers, GrantUnverified(w)
  PROVE  IInv' /\ Kept
<1>1. RunOK(frame[w].run, World) BY FrameFacts
<1>2. UNCHANGED <<receipts, lease, External, faults>> /\ ledger \subseteq ledger'
  BY DEF GrantUnverified
<1> QED BY <1>1, <1>2, FencedRun, UpdateRelease DEF GrantUnverified

\* A step after the grant that failed asks for compensation.
LEMMA GrantCompensateKeeps ==
  ASSUME IInv, NEW w \in Workers, GrantCompensate(w)
  PROVE  IInv' /\ Kept
<1>1. RunOK(frame[w].run, World) BY FrameFacts
<1>2. UNCHANGED <<receipts, lease, External, faults>> /\ ledger \subseteq ledger'
  BY DEF GrantCompensate
<1> QED BY <1>1, <1>2, FencedRun, UpdateRelease DEF GrantCompensate

\* The project goes on after the grant.
LEMMA GrantResumeKeeps ==
  ASSUME IInv, NEW w \in Workers, GrantResume(w)
  PROVE  IInv' /\ Kept
<1>1. /\ frame[w].pc = "g_resume" /\ frame[w].pc \notin Apart
      /\ CallController(w, Resumed, "g_replan") /\ "g_replan" \in GrantedPoints
  BY DEF GrantResume, Ready, Apart, GrantedPoints
<1>2. frame[w].run.grant BY <1>1, FrameFacts DEF Control
<1>3. WorldOK(After(Resumed)) /\ Grows(World, After(Resumed)) BY StatusCalls
<1> QED BY <1>1, <1>2, <1>3, GrantedGoto, CallStep

\* Post-approval tasks are planned with the grant recorded, so the approval is consumed.
LEMMA GrantReplanKeeps ==
  ASSUME IInv, NEW w \in Workers, GrantReplan(w)
  PROVE  IInv' /\ Kept
<1> DEFINE x == frame[w].run
           y == PostApprovalGraph(x)
           tasks == ToSet(y.graph)
<1>1. /\ frame[w].pc = "g_replan" /\ frame[w].pc \notin Apart
      /\ CallController(w, Planned(tasks), "g_graph") /\ "g_graph" \in GrantedPoints
  BY DEF GrantReplan, Ready, Apart, GrantedPoints
<1>2. x.grant /\ RunOK(x, World) /\ x \in Runs /\ WorldOK(World)
  BY <1>1, FrameFacts DEF Control, IInv
<1>3. Consumed(World) BY <1>2 DEF RunOK
<1>4. Created(World) BY <1>2, <1>3 DEF WorldOK
<1>5. \A t \in tasks : t \in ToSet(x.graph) \/ (t \in Tasks /\ t[2] = 1)
  BY <1>2, PostApprovalGraphIs
<1> HIDE DEF tasks
<1>6. ASSUME NEW t \in tasks \cap Tasks PROVE EndedBelow(t, World)
  <2>1. CASE t \in ToSet(x.graph) BY <1>2, <2>1 DEF RunOK
  <2>2. CASE t[2] = 1
    <3>1. Lower(t) = {} BY <2>2, TaskShape DEF Lower
    <3> QED BY <3>1 DEF EndedBelow
  <2> QED BY <1>5, <2>1, <2>2
<1>7. WorldOK(After(Planned(tasks))) /\ Grows(World, After(Planned(tasks)))
  BY <1>3, <1>4, <1>6, PlanCalls
<1> QED BY <1>1, <1>2, <1>7, GrantedGoto, CallStep

\* The post-approval part of the graph and the state that belongs to it.
LEMMA GrantGraphKeeps ==
  ASSUME IInv, NEW w \in Workers, GrantGraph(w)
  PROVE  IInv' /\ Kept
<1> DEFINE f == frame[w]
           x == f.run
           y == PostApprovalGraph(x)
           r == [y EXCEPT !.state = "POST_APPROVAL"]
           g == [f EXCEPT !.pc = "g_send", !.run = r]
<1>1. /\ f.pc = "g_graph" /\ UNCHANGED <<Stored, lease, External, faults>>
      /\ frame' = [frame EXCEPT ![w].pc = "g_send",
           ![w].run = [PostApprovalGraph(@) EXCEPT !.state = "POST_APPROVAL"]]
  BY DEF GrantGraph
<1>2. f \in Frames /\ x \in Runs /\ RunOK(x, World) /\ x.grant
  BY <1>1, FrameFacts DEF Control
<1>3. /\ World' = World /\ WorldOK(World') /\ Grows(World, World') /\ row' = row
      /\ lease' \in Leases /\ faults' \in 0 .. MaxFaults
  BY <1>1, QuietStep DEF Stored
<1>4. frame' = [frame EXCEPT ![w] = g] BY <1>1, <1>2 DEF IInv, Frames
<1>5. /\ y \in Runs
      /\ \A t \in ToSet(y.graph) : t \in ToSet(x.graph) \/ (t \in Tasks /\ t[2] = 1)
      /\ ToSet(x.graph) \subseteq ToSet(y.graph)
      /\ y.state = x.state /\ y.retry = x.retry /\ y.resume = x.resume
      /\ y.committed = x.committed /\ y.grant = x.grant /\ y.final = x.final
      /\ y.accepted = x.accepted
  BY <1>2, PostApprovalGraphIs
<1> HIDE DEF y
<1>6. /\ r \in Runs /\ r.graph = y.graph /\ r.accepted = x.accepted /\ r.grant = x.grant
      /\ r.committed = x.committed /\ r.final = x.final /\ r.state = "POST_APPROVAL"
      /\ r.resume = x.resume /\ r.retry = x.retry
  BY <1>5 DEF Runs, RunState
<1> HIDE DEF r
<1>7. "g_send" \in Points /\ "g_send" \in Plain BY DEF Points, Plain
<1>8. g \in Frames /\ g.pc = "g_send" /\ g.run = r /\ g.wf = f.wf /\ g.current = f.current
  BY <1>2, <1>6, <1>7 DEF Frames
<1> HIDE DEF g
<1>9. Consumed(World) BY <1>2 DEF RunOK
<1>10. ASSUME NEW t \in ToSet(r.graph) PROVE EndedBelow(t, World)
  <2>1. t \in ToSet(x.graph) \/ (t \in Tasks /\ t[2] = 1) BY <1>5, <1>6
  <2>2. CASE t \in ToSet(x.graph) BY <1>2, <2>2 DEF RunOK
  <2>3. CASE t \in Tasks /\ t[2] = 1
    <3>1. Lower(t) = {} BY <2>3, TaskShape DEF Lower
    <3> QED BY <3>1 DEF EndedBelow
  <2> QED BY <2>1, <2>2, <2>3
<1>11. RunOK(r, World) BY <1>2, <1>6, <1>9, <1>10 DEF RunOK
<1>12. Extends(r, x)
  <2>1. ToSet(x.graph) \subseteq ToSet(r.graph) BY <1>5, <1>6
  <2> QED BY <1>6, <2>1 DEF Extends
<1>13. Control(g, World') BY <1>6, <1>7, <1>8, PlainControl DEF UnderWay
<1> QED BY <1>3, <1>4, <1>8, <1>11, <1>12, <1>13, RunFrame

\* The APPROVAL_GRANTED envelope goes to the room.
LEMMA GrantSendKeeps ==
  ASSUME IInv, NEW w \in Workers, GrantSend(w)
  PROVE  IInv' /\ Kept
<1>1. frame[w].pc \notin Apart /\ "g_finish" \in Plain /\ Send(w, "APPROVAL_GRANTED", "g_finish")
  BY DEF GrantSend, Ready, Apart, Plain
<1> QED BY <1>1, PlainSend

\* grant_r2 ends with nothing to retry.
LEMMA GrantFinishKeeps ==
  ASSUME IInv, NEW w \in Workers, GrantFinish(w)
  PROVE  IInv' /\ Kept
<1> DEFINE x == frame[w].run
           r == [x EXCEPT !.retry = "none", !.resume = "ABSENT"]
<1>1. frame[w].pc = "g_finish" /\ frame[w].pc \notin Apart BY DEF GrantFinish, Apart
<1>2. RunOK(x, World) /\ x \in Runs /\ UnderWay(frame[w]) BY <1>1, FrameFacts
<1>3. /\ r \in Runs /\ r.graph = x.graph /\ r.accepted = x.accepted /\ r.grant = x.grant
      /\ r.committed = x.committed /\ r.final = x.final /\ r.state = x.state
      /\ r.resume = "ABSENT" /\ r.retry = "none"
  BY <1>2 DEF Runs, RunState, RetryOperations
<1>4. /\ Update(w, r, "release") /\ UNCHANGED <<receipts, lease, External, faults>>
      /\ ledger \subseteq ledger'
  BY DEF GrantFinish
<1> HIDE DEF r
<1>5. RunOK(r, World) /\ Extends(r, x) BY <1>2, <1>3, NotedRun DEF UnderWay
<1>6. RowOK(r, World) BY <1>2, <1>3 DEF RowOK, UnderWay
<1> QED BY <1>4, <1>5, <1>6, UpdateRelease

\* The except clause of grant_r2 pauses the project.
LEMMA GrantErrorKeeps ==
  ASSUME IInv, NEW w \in Workers, GrantError(w)
  PROVE  IInv' /\ Kept
<1>1. frame[w].pc \notin Apart /\ "g_compensate" \in Plain
      /\ CallController(w, Paused, "g_compensate")
  BY DEF GrantError, Ready, Apart, Plain
<1> QED BY <1>1, PlainCall

\* Every step of grant_r2.
LEMMA GrantKeeps ==
  ASSUME IInv, NEW w \in Workers, Grant(w)
  PROVE  IInv' /\ Kept
BY GrantClaimKeeps, GrantCheckKeeps, GrantConsumeKeeps, GrantCommittedKeeps, GrantUnverifiedKeeps,
   GrantResumeKeeps, GrantReplanKeeps, GrantGraphKeeps, GrantSendKeeps, GrantFinishKeeps,
   GrantErrorKeeps, GrantCompensateKeeps DEF Grant

-----------------------------------------------------------------------------
(* Surroundings, and the invariant *)

\* A worker without an operation claims nothing.
LEMMA NoFrameOK ==
  ASSUME NEW x, NEW v
  PROVE  FrameOK(NoFrame, x, v)
<1>1. /\ NoFrame \in Frames /\ NoFrame.pc = "idle" /\ NoFrame.wf = NoNodes
      /\ NoFrame.current = FALSE /\ NoFrame.run = AbsentRun
  BY AbsentRunOK DEF NoFrame
<1> QED BY <1>1, AbsentRunOK, RestingOK

\* _renew_operation looks at the lease only.
LEMMA RenewKeeps ==
  ASSUME IInv, NEW w \in Workers, RenewOperation(w)
  PROVE  IInv' /\ Kept
<1> DEFINE f == frame[w]
           g == [f EXCEPT !.renewed = TRUE]
<1>1. UNCHANGED <<Stored, lease, External, faults>> BY DEF RenewOperation
<1>2. /\ World' = World /\ WorldOK(World') /\ Grows(World, World') /\ row' = row
      /\ lease' \in Leases /\ faults' \in 0 .. MaxFaults
  BY <1>1, QuietStep DEF Stored
<1>3. CASE Raise(w) BY <1>2, <1>3, RaiseStep
<1>4. CASE frame' = [frame EXCEPT ![w].renewed = TRUE]
  <2>1. f \in Frames /\ RunOK(f.run, World) /\ Control(f, World) BY FrameFacts
  <2>2. frame' = [frame EXCEPT ![w] = g] BY <1>4 DEF IInv
  <2>3. /\ g \in Frames /\ g.pc = f.pc /\ g.run = f.run /\ g.wf = f.wf /\ g.current = f.current
        /\ g.task = f.task
    BY <2>1 DEF Frames
  <2> HIDE DEF g
  <2>4. Control(g, World') BY <1>2, <2>1, <2>3 DEF Control
  <2>5. Extends(g.run, f.run) BY <2>3, ExtendsSelf
  <2> QED BY <1>2, <2>1, <2>2, <2>3, <2>4, <2>5, RunFrame
<1> QED BY <1>3, <1>4 DEF RenewOperation

\* release_operation drops the worker's copy.
LEMMA ReleaseKeeps ==
  ASSUME IInv, NEW w \in Workers, ReleaseOperation(w)
  PROVE  IInv' /\ Kept
<1>1. /\ UNCHANGED <<Stored, External, faults>> /\ frame' = [frame EXCEPT ![w] = NoFrame]
      /\ lease' = IF lease.owner = w THEN NoLease ELSE lease
  BY DEF ReleaseOperation
<1>2. lease' \in Leases BY <1>1 DEF IInv, Leases, NoLease
<1>3. WorldOK(World') /\ Grows(World, World') /\ row' = row /\ faults' \in 0 .. MaxFaults
  BY <1>1, SameWorld, SameFaults DEF Stored, External
<1> QED BY <1>1, <1>2, <1>3, NoFrameOK, FrameStep

\* So does the death of the process; its lease stays.
LEMMA CrashKeeps ==
  ASSUME IInv, NEW w \in Workers, Crash(w)
  PROVE  IInv' /\ Kept
<1>1. /\ UNCHANGED <<Stored, External>> /\ frame' = [frame EXCEPT ![w] = NoFrame]
      /\ lease' = IF lease.owner = w THEN [lease EXCEPT !.owner = "dead"] ELSE lease
      /\ faults < MaxFaults /\ faults' = faults + 1
  BY DEF Crash
<1>2. lease' \in Leases BY <1>1 DEF IInv, Leases
<1>3. faults' \in 0 .. MaxFaults BY <1>1, BridgeAssumption DEF IInv
<1>4. WorldOK(World') /\ Grows(World, World') /\ row' = row
  BY <1>1, SameWorld DEF Stored, External
<1> QED BY <1>1, <1>2, <1>3, <1>4, NoFrameOK, FrameStep

\* A lease runs out, with its owner in the middle of an operation or dead.
LEMMA ExpireKeeps ==
  ASSUME IInv, ExpireDead \/ ExpireLive
  PROVE  IInv' /\ Kept
<1>1. UNCHANGED <<Stored, frame, External>> /\ lease' = [lease EXCEPT !.expired = TRUE]
  BY DEF ExpireDead, ExpireLive
<1>2. lease' \in Leases BY <1>1 DEF IInv, Leases
<1>3. faults' \in 0 .. MaxFaults BY BridgeAssumption DEF IInv, ExpireDead, ExpireLive
<1>4. WorldOK(World') /\ Grows(World, World') /\ row' = row
  BY <1>1, SameWorld DEF Stored, External
<1> QED BY <1>1, <1>2, <1>3, <1>4, WorldStep

\* The team moves an attempt along its life.
LEMMA TeamKeeps ==
  ASSUME IInv, NEW t \in Tasks, TeamProgress(t)
  PROVE  IInv' /\ Kept
<1>1. UNCHANGED <<Stored, lease, frame, matrix, ego, faults>> BY DEF TeamProgress
<1>2. PICK s \in NodeSteps(at.nodes[t]) : at' = [at EXCEPT !.nodes[t] = s] BY DEF TeamProgress
<1>3. at \in Projects /\ WorldOK(World) BY DEF IInv, WorldOK, World
<1>4. /\ at.nodes[t] \in {"pending", "delegated", "in-progress"}
      /\ s \in Active \cup Ended
  BY <1>2 DEF NodeSteps, Active, Ended, ACTIVE_NODE_STATUSES
<1>5. /\ at' \in Projects /\ at'.status = at.status
      /\ \A u \in Tasks : at'.nodes[u] = IF u = t THEN s ELSE at.nodes[u]
  BY <1>2, <1>3, <1>4 DEF Projects, NodeStatus, Active, Ended, ACTIVE_NODE_STATUSES
<1>6. \A u \in Tasks : /\ at.nodes[u] \in Ended => at'.nodes[u] = at.nodes[u]
                       /\ at.nodes[u] \in Active => at'.nodes[u] \in Active \cup Ended
  BY <1>4, <1>5 DEF Ended
<1>7. \A u \in Tasks : ~(at'.nodes[u] # "none" /\ at.nodes[u] = "none") BY <1>4, <1>5
<1> DEFINE u == World
           v == World'
<1>8. /\ u.at = at /\ v.at = at' /\ v.ego = u.ego /\ v.receipts = u.receipts
      /\ v.ledger = u.ledger /\ v.matrix = u.matrix
  BY <1>1 DEF World, Stored
<1>9. WorldOK(u) BY <1>3
<1> HIDE DEF u, v
<1>10. WorldOK(v) /\ Grows(u, v) BY <1>5, <1>6, <1>7, <1>8, <1>9, NodesMove
<1>11. lease' \in Leases /\ faults' \in 0 .. MaxFaults /\ row' = row
  BY <1>1, SameLease, SameFaults DEF Stored
<1> QED BY <1>1, <1>10, <1>11, WorldStep DEF u, v

\* An approver approves.
LEMMA ApproveKeeps ==
  ASSUME IInv, Approve
  PROVE  IInv' /\ Kept
<1>1. /\ UNCHANGED <<Stored, lease, frame, at, matrix, faults>> /\ ego.approval = "pending"
      /\ ego' = [ego EXCEPT !.approval = "approved"]
  BY DEF Approve
<1>2. WorldOK(World) /\ ego \in Egos BY DEF IInv, WorldOK, World
<1>3. ego' \in Egos /\ ego'.approval = "approved" /\ ego'.stage = ego.stage
  BY <1>1, <1>2 DEF Egos
<1>4. /\ World'.at = World.at /\ World'.receipts = World.receipts
      /\ World'.ledger = World.ledger /\ World'.matrix = World.matrix
      /\ World'.ego = ego' /\ World.ego = ego
  BY <1>1 DEF World, Stored
<1>5. ~Consumed(World) /\ ~Consumed(World') BY <1>1, <1>3, <1>4 DEF Consumed
<1>6. ego.stage # "INTAKE" => Created(World) BY <1>2, <1>4 DEF WorldOK
<1>7. WorldOK(World') /\ Grows(World, World')
  BY <1>2, <1>3, <1>4, <1>5, <1>6, EgoMoves
<1>8. lease' \in Leases /\ faults' \in 0 .. MaxFaults /\ row' = row
  BY <1>1, SameLease, SameFaults DEF Stored
<1> QED BY <1>1, <1>7, <1>8, WorldStep

\* Every step keeps the invariant and what the row has achieved.
LEMMA NextKeeps ==
  ASSUME IInv, [Next]_vars
  PROVE  IInv' /\ Kept
<1>1. CASE UNCHANGED vars
  <2>1. UNCHANGED <<row, lease, frame, receipts, ledger, at, matrix, ego, faults>>
    BY <1>1 DEF vars
  <2> QED BY <2>1, SameWorld, SameLease, SameFaults, WorldStep
<1>2. ASSUME NEW w \in Workers, Operation(w) PROVE IInv' /\ Kept
  BY <1>2, StartKeeps, ExamineKeeps, GatesKeeps, RecoverKeeps, GrantKeeps, RenewKeeps,
     ReleaseKeeps DEF Operation
<1>3. ASSUME NEW w \in Workers, Crash(w) PROVE IInv' /\ Kept BY <1>3, CrashKeeps
<1>4. CASE ExpireDead \/ ExpireLive BY <1>4, ExpireKeeps
<1>5. ASSUME NEW t \in Tasks, TeamProgress(t) PROVE IInv' /\ Kept BY <1>5, TeamKeeps
<1>6. CASE Approve BY <1>6, ApproveKeeps
<1> QED BY <1>1, <1>2, <1>3, <1>4, <1>5, <1>6 DEF Next

\* The invariant holds before the first request.
LEMMA InitHolds == Init => IInv
<1>1. SUFFICES ASSUME Init PROVE IInv OBVIOUS
<1>2. /\ row = AbsentRun /\ lease = NoLease /\ frame = [w \in Workers |-> NoFrame]
      /\ receipts = [k \in ReceiptKeys |-> "none"] /\ faults = 0
      /\ at = [status |-> "none", nodes |-> NoNodes]
      /\ ego = [stage |-> "INTAKE", approval |-> "none"]
  BY <1>1 DEF Init
<1>3. WorldOK(World)
  <2>1. at \in Projects /\ \A t \in Tasks : at.nodes[t] = "none"
    BY <1>2, AbsentRunOK DEF Projects, NoNodes
  <2>2. ego \in Egos /\ receipts \in Archives BY <1>2 DEF Egos, EgoStage, Archives
  <2> QED BY <1>2, <2>1, <2>2 DEF World, WorldOK, Consumed
<1>4. RunOK(row, World) BY <1>2, AbsentRunOK
<1>5. RowOK(row, World) BY <1>2 DEF RowOK, AbsentRun
<1>6. lease \in Leases BY <1>2 DEF NoLease, Leases
<1>7. faults \in 0 .. MaxFaults BY <1>2, BridgeAssumption
<1>8. frame \in [Workers -> Frames] BY <1>2, AbsentRunOK
<1>9. \A w \in Workers : FrameOK(frame[w], row, World) BY <1>2, NoFrameOK
<1> QED BY <1>3, <1>4, <1>5, <1>6, <1>7, <1>8, <1>9 DEF IInv, Leases

\* In every state of every behaviour the row, the workers' copies of it and the program points they
\* are at agree with the Controller, the API, the room and the archive as IInv says.
THEOREM BridgeInvariant == Spec => []IInv
<1>1. IInv /\ [Next]_vars => IInv' BY NextKeeps
<1> QED BY <1>1, InitHolds, PTL DEF Spec

\* A node of a post-approval task exists only with the approval consumed (WorldOK).
LEMMA GrantedFromInvariant == IInv => ExecutionGranted
<1>1. IInv => WorldOK(World) BY DEF IInv
<1> QED BY <1>1 DEF WorldOK, World, Consumed, ExecutionGranted

\* Of the row: what RunOK and RowOK ask of a COMPLETED run and of an accepted task.
LEMMA BackedFromInvariant == IInv => ResultsBacked
<1> SUFFICES ASSUME IInv PROVE ResultsBacked OBVIOUS
<1>2. RunOK(row, World) /\ RowOK(row, World) /\ WorldOK(World) BY DEF IInv
<1>3. TypeOK
  <2>1. at \in Projects /\ receipts \in Archives BY <1>2 DEF WorldOK, World
  <2>2. \A w \in Workers : frame[w].run \in Runs /\ frame[w].wf \in [Tasks -> NodeStatus]
    BY FrameFacts DEF Frames
  <2>3. row \in Runs BY <1>2 DEF RunOK
  <2> QED BY <2>1, <2>2, <2>3 DEF IInv, TypeOK, Projects, Archives
<1>4. CompletionBacked
  <2>1. SUFFICES ASSUME row.state = "COMPLETED" PROVE CompletionBacked
    BY DEF CompletionBacked
  <2>2. Finished(row, World) /\ "TERMINAL" \in World.matrix BY <1>2, <2>1 DEF RunOK, RowOK
  <2> QED BY <2>2 DEF Finished, World, CompletionBacked, PostAccepted
<1>5. AcceptanceRecorded BY <1>2 DEF RunOK, Accepted, World, AcceptanceRecorded
<1> QED BY <1>3, <1>4, <1>5 DEF ResultsBacked

\* An attempt in the Controller has all earlier ones of its task ended (WorldOK).
LEMMA OneActiveFromInvariant == IInv => OneActiveAttempt
<1>1. SUFFICES ASSUME IInv, NEW t \in Tasks, NEW u \in Tasks, t # u, t[1] = u[1],
                      at.nodes[t] \in Active, at.nodes[u] \in Active
               PROVE  FALSE
  BY DEF OneActiveAttempt, Active
<1>2. \A s \in Tasks : at.nodes[s] \in Active => EndedBelow(s, World)
  BY <1>1 DEF IInv, WorldOK, World, Active, ACTIVE_NODE_STATUSES
<1>3. \A s \in Tasks : at.nodes[s] \in Active => at.nodes[s] \notin Ended
  BY DEF Active, Ended, ACTIVE_NODE_STATUSES
<1>4. \A s \in Lower(t) : at.nodes[s] \in Ended BY <1>1, <1>2 DEF EndedBelow, World
<1>5. \A s \in Lower(u) : at.nodes[s] \in Ended BY <1>1, <1>2 DEF EndedBelow, World
<1>6. t[2] # u[2] /\ t[2] \in Nat /\ u[2] \in Nat BY <1>1, TaskShape
<1>7. t \in Lower(u) \/ u \in Lower(t) BY <1>1, <1>6 DEF Lower
<1> QED BY <1>1, <1>3, <1>4, <1>5, <1>7

\* The Controller gets to know post-approval tasks only after the API has consumed the approval:
\* grant_r2 replans when the checkpoint has the grant, whatever fails or is repeated around it.
THEOREM ExecutionIsGranted == Spec => []ExecutionGranted
BY BridgeInvariant, GrantedFromInvariant, PTL

\* A run is COMPLETED only with the task finalized, the project completed, the receipts archived,
\* the TERMINAL envelope delivered and every newest post-approval task accepted (_reconcile_claimed),
\* an accepted contract (_first_conflict) was a valid result whose artifact and event are stored.
THEOREM ResultsAreBacked == Spec => []ResultsBacked
BY BridgeInvariant, BackedFromInvariant, PTL

\* Two attempts of one logical task are never active together: _reassign cancels before it replans,
\* and no earlier attempt comes back by a repeated or late call.
THEOREM AttemptsAreSingle == Spec => []OneActiveAttempt
BY BridgeInvariant, OneActiveFromInvariant, PTL

\* update_run never undoes what it committed before: a copy of the row that may be written extends
\* the stored row, and a run that is COMPLETED or BLOCKED is written by nobody.
THEOREM UpdatesAreNotLost == Spec => NoLostUpdate
<1>1. IInv /\ [Next]_vars =>
        [/\ row.committed => row'.committed
         /\ row.grant => row'.grant
         /\ row.final => row'.final
         /\ row.accepted \subseteq row'.accepted
         /\ row.state \in {"COMPLETED", "BLOCKED"} => row'.state = row.state
         /\ ToSet(row.graph) \subseteq ToSet(row'.graph)]_row
  BY NextKeeps DEF Kept, Extends
<1> QED BY <1>1, BridgeInvariant, PTL DEF Spec, NoLostUpdate
=============================================================================
