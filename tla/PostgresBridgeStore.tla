------------------------- MODULE PostgresBridgeStore -------------------------
(***************************************************************************)
(* The bridge's PostgreSQL store (apps/agentteams_bridge/postgres_store.py)*)
(* for one run: READ COMMITTED transactions of several bridge processes,   *)
(* statement by statement, with the row lock (SELECT ... FOR UPDATE, the   *)
(* UPDATE of bind_campaign, the key-share lock of a foreign key) and the   *)
(* three advisory locks.  A connection may be lost at any point: the       *)
(* server rolls its transaction back.  The committed tables, read through  *)
(* the mapping below, implement BridgeLedger.                              *)
(***************************************************************************)
EXTENDS BridgeLedger, Integers

\* The store's own instance of the ledger's parameters; owners, receipt keys, contents
\* and the bounds are the ledger's.
CONSTANTS Sessions, StoreTasks, StoreBindingIds, StoreKeys, StoreBindings,
          StorePayloads, StoreMarks

VARIABLES
    runRow,        \* the committed bridge_runs row
    extension,     \* bridge_extension_events: [sequence, previous, key, payload, mark]
    taskLeases,    \* bridge_task_leases: task -> event sequence
    bindings,      \* bridge_evaluator_bindings
    collaboration, \* bridge_events: [sequence, previous, owner]
    archive,       \* bridge_receipts: [sequence, previous, key, content]
    lock,          \* who holds each lock
    session,       \* the call a session runs and how far it is
    replay         \* a reader in replay_extension_authority

tables == <<runRow, extension, taskLeases, bindings, collaboration, archive>>
storeVars == <<tables, lock, session, replay>>

Free == "free"
Resources == {"row", "event", "receipt", "extension"}
Zero == 0    \* ZERO_HASH; a row's hash is identified with its sequence

-----------------------------------------------------------------------------
(* The abstract state: a chain's rows in order of sequence.                *)

RowAt(rows, n) == CHOOSE r \in rows : r.sequence = n
Numbers(rows) == 1..Cardinality(rows)
Chain == [n \in Numbers(extension) |->
            LET r == RowAt(extension, n)
            IN  [key |-> r.key, payload |-> r.payload, mark |-> r.mark]]
Events == [n \in Numbers(collaboration) |-> RowAt(collaboration, n).owner]
ReceiptOf(k) == {r \in archive : r.key = k}
Receipts == [k \in ReceiptKeys |->
                IF ReceiptOf(k) = {} THEN "absent"
                ELSE (CHOOSE r \in ReceiptOf(k) : TRUE).content]

Ledger == INSTANCE BridgeLedger
    WITH run <- runRow, chain <- Chain, leases <- taskLeases, evaluators <- bindings,
         events <- Events, receipts <- Receipts, Tasks <- StoreTasks, Keys <- StoreKeys,
         BindingIds <- StoreBindingIds, Bindings <- StoreBindings,
         Payloads <- StorePayloads, Marks <- StoreMarks

StoreAssumption ==
    /\ IsFiniteSet(Sessions) /\ Free \notin Sessions
    /\ MaxEvents \in Nat
    /\ \A p \in StorePayloads : p.task \in StoreTasks

-----------------------------------------------------------------------------
(* The calls.                                                              *)

PayloadsOf(types) == {p \in StorePayloads : p.type \in types}
LeaseOwners == Owners \cup {Ledger!NoOwner}
RowCalls ==
    [op : {"create"}]
    \cup [op : {"claim", "release", "renew"}, owner : Owners]
    \cup [op : {"update"}, owner : LeaseOwners, version : 1..(MaxVersion - 1)]
    \cup [op : {"event"}, owner : LeaseOwners]
    \cup [op : {"receipt"}, owner : LeaseOwners, key : ReceiptKeys, content : Contents]
ExtensionCalls ==
    [op : {"bind"}, binding : StoreBindings]
    \cup [op : {"append"}, key : StoreKeys, payload : PayloadsOf(Ledger!EventModels),
          mark : StoreMarks]
    \cup [op : {"lease"}, key : StoreKeys, payload : PayloadsOf({Ledger!LeaseAdmission})]
    \cup [op : {"evaluate"}, key : StoreKeys, id : StoreBindingIds,
          payload : PayloadsOf({Ledger!EvaluatorAdmission})]
NoCall == [op |-> "none"]

Idle == [pc |-> "idle", call |-> NoCall, previous |-> Zero]
NoReplay == [pc |-> "idle", events |-> {}, leases |-> {}]

StoreInit == /\ runRow = Ledger!AbsentRun
             /\ extension = {} /\ collaboration = {} /\ archive = {}
             /\ taskLeases = [t \in StoreTasks |-> Ledger!NoRow]
             /\ bindings = [i \in StoreBindingIds |-> Ledger!NoEvaluation]
             /\ lock = [r \in Resources |-> Free]
             /\ session = [s \in Sessions |-> Idle]
             /\ replay = NoReplay

-----------------------------------------------------------------------------
(* Statements.                                                             *)

Call(s) == session[s].call
At(s, pc) == session[s].pc = pc
Goto(s, pc) == session' = [session EXCEPT ![s].pc = pc]
Take(s, r) == lock[r] \in {Free, s} /\ lock' = [lock EXCEPT ![r] = s]
FreeLocks(s) == lock' = [r \in Resources |-> IF lock[r] = s THEN Free ELSE lock[r]]

\* COMMIT and ROLLBACK end the transaction and give up every lock; so does the
\* server when it loses the connection.
End(s) == session' = [session EXCEPT ![s] = Idle] /\ FreeLocks(s)
Rollback(s) == End(s) /\ UNCHANGED <<tables, replay>>

\* The hash a new row links to: the last committed row's.
LastHash(rows) == Cardinality(rows)
TableOf(op) == CASE op = "event" -> collaboration [] op = "receipt" -> archive
                 [] OTHER -> extension

Begin(s, c) ==
    /\ At(s, "idle")
    /\ session' = [session EXCEPT ![s] = [Idle EXCEPT !.pc = IF c \in RowCalls THEN "row"
                                                              ELSE "extension",
                                                       !.call = c]]
    /\ UNCHANGED <<tables, lock, replay>>

\* The checks between a row call's SELECT ... FOR UPDATE and its first write.
\* A claim or a renewal may find the lease expired or not: see BridgeLedger.
CreateAllowed(c) == runRow.version = 0
ClaimAllowed(c) == runRow.version > 0
ReleaseAllowed(c) == runRow.version > 0 /\ runRow.owner = c.owner
RenewAllowed(c) == runRow.version > 0 /\ Ledger!AssertUpdateLease(runRow, c.owner)
UpdateAllowed(c) == /\ runRow.version > 0 /\ runRow.version = c.version
                    /\ Ledger!AssertUpdateLease(runRow, c.owner)
\* Mutant: appending an event does not look at the lease.
AppendUnleased(c) == runRow.version > 0
AppendAllowed(c) == runRow.version > 0 /\ Ledger!AssertUpdateLease(runRow, c.owner)
ArchiveAllowed(c) == runRow.version > 0 /\ Ledger!AssertUpdateLease(runRow, c.owner)

RowAllows(c) == \/ c.op = "create" /\ CreateAllowed(c)
                \/ c.op = "claim" /\ ClaimAllowed(c)
                \/ c.op = "release" /\ ReleaseAllowed(c)
                \/ c.op = "renew" /\ RenewAllowed(c)
                \/ c.op = "update" /\ UpdateAllowed(c)
                \/ c.op = "event" /\ AppendAllowed(c)
                \/ c.op = "receipt" /\ ArchiveAllowed(c)

LockRow(s) ==
    /\ At(s, "row")
    /\ Take(s, "row")
    /\ RowAllows(Call(s))
    /\ Goto(s, IF Call(s).op \in {"event", "receipt"} THEN "stream" ELSE "commit")
    /\ UNCHANGED <<tables, replay>>

RefuseRow(s) ==
    /\ At(s, "row")
    /\ lock["row"] = Free
    /\ (~ RowAllows(Call(s)) \/ Call(s).op \notin {"create", "release"})
    /\ Rollback(s)

\* Mutant: the receipt and event streams share the extension's lock.
StreamLockShared(s) == "extension"

\* The advisory lock of the call's own stream.
StreamLock(s) == Call(s).op

\* The stream is locked, then the last row's hash is read.
LockStream(s) ==
    /\ At(s, "stream")
    /\ Take(s, StreamLock(s))
    /\ Goto(s, "previous")
    /\ UNCHANGED <<tables, replay>>

ReadPrevious(s) ==
    /\ At(s, "previous")
    /\ Call(s).op = "receipt" => ReceiptOf(Call(s).key) = {}
    /\ session' = [session EXCEPT ![s].pc = "commit",
                                  ![s].previous = LastHash(TableOf(Call(s).op))]
    /\ UNCHANGED <<tables, lock, replay>>

\* The receipt key is taken: the stored receipt is replayed, or its content differs.
ReplayReceipt(s) ==
    /\ At(s, "previous")
    /\ Call(s).op = "receipt" /\ ReceiptOf(Call(s).key) # {}
    /\ Rollback(s)

LockExtension(s) ==
    /\ At(s, "extension")
    /\ Take(s, "extension")
    /\ Goto(s, "admit")
    /\ UNCHANGED <<tables, replay>>

MarkOf(c) == CASE c.op = "append" -> c.mark
               [] c.op = "lease" -> c.payload.watermark
               [] OTHER -> runRow.binding.watermark

\* Everything an extension call reads and checks before its first write.
ValidateAdmission(c) ==
    Ledger!Admissible(runRow.binding, Chain, taskLeases, c.payload, MarkOf(c))
AppendAdmits(c) ==
    /\ runRow.binding # Ledger!NoBinding
    /\ MarkOf(c) <= runRow.binding.watermark
    /\ c.key \notin {r.key : r \in extension}
    /\ ValidateAdmission(c)
BindAdmits(c) == runRow.version > 0 /\ runRow.binding = Ledger!NoBinding
LeaseAdmits(c) ==
    /\ runRow.binding # Ledger!NoBinding
    /\ Ledger!AssertLeaseBinding(runRow.binding, c.payload)
    /\ AppendAdmits(c)
    /\ taskLeases[c.payload.task] = Ledger!NoRow
EvaluateAdmits(c) ==
    /\ Ledger!RequireTaskLease(taskLeases, c.payload.task)
    /\ AppendAdmits(c)
    /\ bindings[c.id] = Ledger!NoEvaluation

Admits(c) == \/ c.op = "bind" /\ BindAdmits(c)
             \/ c.op = "append" /\ AppendAdmits(c)
             \/ c.op = "lease" /\ LeaseAdmits(c)
             \/ c.op = "evaluate" /\ EvaluateAdmits(c)

Admit(s) ==
    /\ At(s, "admit")
    /\ Admits(Call(s))
    /\ session' = [session EXCEPT ![s].pc = "write", ![s].previous = LastHash(extension)]
    /\ UNCHANGED <<tables, lock, replay>>

RefuseExtension(s) ==
    /\ At(s, "admit")
    /\ ~ Admits(Call(s))
    /\ Rollback(s)

\* bind_campaign's UPDATE locks the row; an INSERT's foreign key locks it too.
Write(s) ==
    /\ At(s, "write")
    /\ Take(s, "row")
    /\ Goto(s, "commit")
    /\ UNCHANGED <<tables, replay>>

\* The insert triggers refuse a row that does not link to the last one.
GuardInsert(s) ==
    Call(s).op \in {"event", "receipt", "append", "lease", "evaluate"} =>
        session[s].previous = LastHash(TableOf(Call(s).op))

\* What each call has written by the time it commits.
RunAfter(c) == CASE c.op = "create" -> [runRow EXCEPT !.version = 1]
                 [] c.op = "claim" -> [runRow EXCEPT !.owner = c.owner]
                 [] c.op = "release" -> [runRow EXCEPT !.owner = Ledger!NoOwner]
                 [] c.op = "update" -> [runRow EXCEPT !.version = c.version + 1]
                 [] c.op = "bind" -> [runRow EXCEPT !.binding = c.binding]
                 [] OTHER -> runRow
NewSequence(rows) == Cardinality(rows) + 1
InsertedEvent(s) == [sequence |-> NewSequence(collaboration), previous |-> session[s].previous,
                     owner |-> Call(s).owner]
InsertedReceipt(s) == [sequence |-> NewSequence(archive), previous |-> session[s].previous,
                       key |-> Call(s).key, content |-> Call(s).content]
InsertedExtension(s) == [sequence |-> NewSequence(extension), previous |-> session[s].previous,
                         key |-> Call(s).key, payload |-> Call(s).payload,
                         mark |-> MarkOf(Call(s))]
InsertedLease(c) == [taskLeases EXCEPT ![c.payload.task] = NewSequence(extension)]
InsertedEvaluation(c) ==
    [bindings EXCEPT ![c.id] = [task |-> c.payload.task,
                                  sequence |-> NewSequence(extension)]]

Commit(s) ==
    /\ At(s, "commit")
    /\ GuardInsert(s)
    /\ runRow' = RunAfter(Call(s))
    /\ collaboration' = collaboration \cup (IF Call(s).op = "event" THEN {InsertedEvent(s)} ELSE {})
    /\ archive' = archive \cup (IF Call(s).op = "receipt" THEN {InsertedReceipt(s)} ELSE {})
    /\ extension' = extension \cup (IF Call(s).op \in {"append", "lease", "evaluate"}
                                   THEN {InsertedExtension(s)} ELSE {})
    /\ taskLeases' = IF Call(s).op = "lease" THEN InsertedLease(Call(s)) ELSE taskLeases
    /\ bindings' = IF Call(s).op = "evaluate" THEN InsertedEvaluation(Call(s)) ELSE bindings
    /\ End(s)
    /\ UNCHANGED replay

Lose(s) == ~ At(s, "idle") /\ Rollback(s)

-----------------------------------------------------------------------------
(* replay_extension_authority: the chain in one transaction, the two       *)
(* admission tables in another, each SELECT with a snapshot of its own.    *)

ReplayEvents ==
    /\ replay.pc = "idle" /\ runRow.binding # Ledger!NoBinding
    /\ replay' = [NoReplay EXCEPT !.pc = "leases", !.events = extension]
    /\ UNCHANGED <<tables, lock, session>>

ReplayLeases ==
    /\ replay.pc = "leases"
    /\ replay' = [replay EXCEPT !.pc = "evaluators",
                                !.leases = {taskLeases[t] : t \in StoreTasks} \ {Ledger!NoRow}]
    /\ UNCHANGED <<tables, lock, session>>

ReplayEvaluators ==
    /\ replay.pc = "evaluators"
    /\ replay' = [replay EXCEPT !.pc = "done",
                    !.leases = @ \cup ({bindings[i].sequence : i \in StoreBindingIds} \ {0})]
    /\ UNCHANGED <<tables, lock, session>>

ReplayAnswered == replay.pc = "done" /\ replay' = NoReplay /\ UNCHANGED <<tables, lock, session>>

-----------------------------------------------------------------------------
SessionStep(s) == \/ LockRow(s) \/ RefuseRow(s) \/ LockStream(s) \/ ReadPrevious(s)
                  \/ ReplayReceipt(s) \/ LockExtension(s) \/ Admit(s)
                  \/ RefuseExtension(s) \/ Write(s) \/ Commit(s)

\* The bound on collaboration events, counting the calls under way.
MayBegin(c) ==
    c.op = "event" => Cardinality(collaboration)
                        + Cardinality({s \in Sessions : Call(s).op = "event"}) < MaxEvents

StoreNext ==
    \/ \E s \in Sessions : \/ \E c \in RowCalls \cup ExtensionCalls : MayBegin(c) /\ Begin(s, c)
                           \/ SessionStep(s)
                           \/ Lose(s)
    \/ ReplayEvents \/ ReplayLeases \/ ReplayEvaluators \/ ReplayAnswered

StoreSpec == StoreInit /\ [][StoreNext]_storeVars
-----------------------------------------------------------------------------
Phases == {"idle", "row", "stream", "previous", "extension", "admit", "write", "commit"}
StoreTypeOK ==
    /\ runRow \in Ledger!RunRows
    /\ \A rows \in {extension, collaboration, archive} :
        \A r \in rows : r.sequence \in Nat /\ r.previous \in Nat
    /\ lock \in [Resources -> Sessions \cup {Free}]
    /\ \A s \in Sessions : /\ session[s].pc \in Phases
                           /\ Call(s) \in RowCalls \cup ExtensionCalls \cup {NoCall}
                           /\ session[s].previous \in Nat
    /\ replay.pc \in {"idle", "leases", "evaluators", "done"}

\* The PostgreSQL store does what the SQLite store does: whatever the processes
\* interleave and wherever a connection is lost, the committed tables only move
\* as one atomic operation of BridgeLedger moves them.
ImplementsLedger == Ledger!Spec

\* replay_extension_authority reads the chain first and the admission tables
\* later, so every admission event it returns comes with its lease or
\* evaluator row, although the three reads are not one snapshot.
ReplayComplete ==
    replay.pc = "done" =>
        \A r \in replay.events :
            r.payload.type \in {Ledger!LeaseAdmission, Ledger!EvaluatorAdmission} =>
                r.sequence \in replay.leases

\* The lock whose holder a session has to wait for.
Wanted(s) == CASE session[s].pc \in {"row", "write"} -> "row"
               [] At(s, "stream") -> StreamLock(s)
               [] At(s, "extension") -> "extension"
               [] OTHER -> "none"
WaitsFor(s, t) == Wanted(s) \in Resources /\ t # s /\ lock[Wanted(s)] = t

\* No transactions wait for each other in a circle: the row lock (SELECT ... FOR UPDATE,
\* bind_campaign's UPDATE, the foreign keys) and the advisory locks are taken in an order
\* without a cycle, the row before "event" and "receipt", "extension" before the row.
NoWaitCycle ==
    \A S \in (SUBSET Sessions) \ {{}} : \E s \in S : \A t \in S : ~ WaitsFor(s, t)
=============================================================================
