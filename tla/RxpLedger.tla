------------------------------ MODULE RxpLedger ------------------------------
(***************************************************************************)
(* RXP/1 (protocols/rxp): the append-only ledger of an experiment matrix.  *)
(* Every cell of a frozen matrix goes from an Intent over a signed Grant,  *)
(* an execution Receipt and Evidence to a Decision.                        *)
(*                                                                         *)
(* A ledger lives in the memory of one process and is guarded by its lock; *)
(* after a crash its entries stand for the snapshots it gave out, and the  *)
(* process that takes over starts another ledger.  All ledgers share the   *)
(* durable registry that makes a Grant single-use.                         *)
(*                                                                         *)
(* A document stands for its own digest, so a document that names another  *)
(* by digest holds it.                                                     *)
(***************************************************************************)
EXTENDS Naturals, Sequences, FiniteSets

CONSTANTS
    Ledgers,         \* processes, each with a MatrixLedger in memory
    Matrices,        \* matrix ids
    MatrixOf,        \* the matrix of each ledger
    Cells,           \* cell ids
    Plan,            \* the coordinates of each declared cell
    ArtifactTypes,   \* evidence types that need only be present: code, config, ...
    Intents, Grants, Receipts, Evidence,   \* documents that clients submit
    CLOCK_SKEW,      \* tolerated difference of clocks
    MAX_GRANT_TTL,   \* longest life of a Grant
    MaxTime,         \* bound: the times clients name
    NoDoc            \* the absence of a document

VARIABLES
    entries,         \* entries[l]: the entries of ledger l, in order
    cells,           \* cells[l][c]: what ledger l holds of cell c
    writing,         \* writing[l]: the Receipt that l consumed a Grant for, not yet appended
    up,              \* up[l]: the process of ledger l is alive
    issued,          \* Grants that the signer signed
    consumed,        \* registry: ids of Grants that a Receipt used
    migrated         \* registry: ids of approval-token-v1 tokens turned into Grants

vars == <<entries, cells, writing, up, issued, consumed, migrated>>

Times == 0..MaxTime

Levels == 0..3  \* D0_UNVERIFIED .. D3_BYTE_REPLAY_VERIFIED

\* Documents that a ledger records; a Decision is built from what it holds.
Decisions ==
    [matrix: Matrices, cell: Cells, intent: Intents, receipt: Receipts,
     evidence: SUBSET Evidence,
     gate: [status: {"PASS", "FAIL"}, evidence: SUBSET Evidence],
     determinism: Levels, at: Times]

ASSUME ConstantsAssumption ==
    /\ MatrixOf \in [Ledgers -> Matrices]
    /\ DOMAIN Plan \subseteq Cells
    /\ CLOCK_SKEW \in Nat /\ MAX_GRANT_TTL \in Nat /\ MaxTime \in Nat
    /\ \A i \in Intents : i.cell \in Cells /\ i.at \in Nat
    /\ \A g \in Grants : g.intent \in Intents /\ g.issued \in Nat /\ g.expires \in Nat
    /\ \A r \in Receipts :
           /\ r.intent \in Intents /\ r.grant \in Grants
           /\ r.cell \in Cells /\ r.completed \in Nat
    /\ \A e \in Evidence : e.cell \in Cells /\ e.receipt \in Receipts /\ e.at \in Nat
    /\ NoDoc \notin Intents \cup Grants \cup Receipts \cup Evidence

\* A document's digest covers its schema, so it is a document of one kind.
ASSUME KindsAssumption ==
    /\ Intents \cap (Grants \cup Receipts \cup Evidence) = {}
    /\ Grants \cap (Receipts \cup Evidence) = {}
    /\ Receipts \cap Evidence = {}
    /\ \A d \in Intents \cup Grants \cup Receipts \cup Evidence : d \notin Decisions

Documents == Intents \cup Grants \cup Receipts \cup Evidence \cup Decisions \cup {NoDoc}

Entries ==
    [kind: {"MatrixPlan", "Intent", "Grant", "Receipt", "Evidence", "Decision"},
     cell: Cells \cup {"matrix"}, doc: Documents, parents: SUBSET Documents, at: Nat]

States == {"ABSENT", "INTENT_RECORDED", "GRANTED", "RECEIPT_RECORDED",
           "EVIDENCE_READY", "DECIDED"}

CellRecords ==
    [state: States, intent: Intents \cup {NoDoc}, grant: Grants \cup {NoDoc},
     receipt: Receipts \cup {NoDoc}, evidence: SUBSET Evidence,
     decision: Decisions \cup {NoDoc}]

-----------------------------------------------------------------------------
(* Grants (grants.py).                                                     *)

\* _validate_window
ValidWindow(g) == /\ g.issued + 1 <= g.expires
                  /\ g.expires <= g.issued + MAX_GRANT_TTL

\* The part of issue and verify that compares the claims with the intent.
Covers(g, i) == /\ g.bounds >= i.needs
                /\ g.determinism >= i.determinism
                /\ g.legacy = i.legacy
                /\ ValidWindow(g)

\* GrantSigner.verify.  The claims name the intent by its digest and repeat its
\* id, matrix, cell, action, scope and payload.
VerifyGrant(g, i, at) ==
    /\ g \in issued
    /\ g.intent = i
    /\ Covers(g, i)
    /\ g.issued <= at + CLOCK_SKEW
    /\ at < g.expires

-----------------------------------------------------------------------------
(* The evidence gate (evidence.py).                                        *)

REQUIRED_EVIDENCE_TYPES == ArtifactTypes \cup {"metric", "review"}

Producers(E) == {e.producer : e \in {f \in E : f.type # "review"}}

PassingReview(r, E) ==
    /\ r.type = "review"
    /\ r.reviewer = r.producer
    /\ r.independent
    /\ r.verdict = "PASS"
    /\ r.producer \notin Producers(E)
    /\ r.reviewed # {}
    /\ Producers(E) \subseteq r.reviewed

GatePasses(E) ==
    /\ REQUIRED_EVIDENCE_TYPES \subseteq {e.type : e \in E}
    /\ \A e, f \in E : e.receipt = f.receipt /\ (e.id = f.id => e = f)
    /\ \E e \in E : e.type = "metric" /\ e.raw
    /\ \E e \in E : PassingReview(e, E)

EvidenceGate(E) == [status |-> IF GatePasses(E) THEN "PASS" ELSE "FAIL", evidence |-> E]

-----------------------------------------------------------------------------
(* The ledger (ledger.py).                                                 *)

AbsentCell == [state |-> "ABSENT", intent |-> NoDoc, grant |-> NoDoc,
               receipt |-> NoDoc, evidence |-> {}, decision |-> NoDoc]

\* Entry kinds stand for the pair of document kind and event type.
Frozen == [kind |-> "MatrixPlan", cell |-> "matrix", doc |-> NoDoc,
           parents |-> {}, at |-> 0]

\* Mutant: the order of times is not checked.
AppendTimeAny(l, at) == at >= 0

\* _assert_append_time
AppendTimeOk(l, at) == at >= entries[l][Len(entries[l])].at

\* _append
Append1(l, kind, cell, doc, parents, at) ==
    entries' = [entries EXCEPT
                  ![l] = Append(@, [kind |-> kind, cell |-> cell, doc |-> doc,
                                    parents |-> parents, at |-> at])]

\* The lock of l is free, and its process alive.
Free(l) == up[l] /\ writing[l] = NoDoc

KnownIntentIds(l) == {cells[l][c].intent.id :
                        c \in {d \in Cells : cells[l][d].intent # NoDoc}}

KnownGrantIds(l) == {cells[l][c].grant.id :
                        c \in {d \in Cells : cells[l][d].grant # NoDoc}}

Init ==
    /\ entries = [l \in Ledgers |-> <<Frozen>>]
    /\ cells = [l \in Ledgers |-> [c \in Cells |-> AbsentCell]]
    /\ writing = [l \in Ledgers |-> NoDoc]
    /\ up = [l \in Ledgers |-> TRUE]
    /\ issued = {}
    /\ consumed = {}
    /\ migrated = {}

\* GrantSigner.issue
IssueGrant(g) ==
    /\ Covers(g, g.intent)
    /\ issued' = issued \cup {g}
    /\ UNCHANGED <<entries, cells, writing, up, consumed, migrated>>

\* migrate_consumed_approval_v1: a Grant for a token that its validator consumed.
MigrateApproval(g) ==
    /\ g.intent.legacy # NoDoc
    /\ Covers(g, g.intent)
    /\ g.legacy \notin migrated
    /\ migrated' = migrated \cup {g.legacy}
    /\ issued' = issued \cup {g}
    /\ UNCHANGED <<entries, cells, writing, up, consumed>>

RecordIntent(l, i) ==
    /\ Free(l)
    /\ i.matrix = MatrixOf[l]
    /\ i.cell \in DOMAIN Plan
    /\ i.coordinates = Plan[i.cell]
    /\ cells[l][i.cell].state = "ABSENT"
    /\ i.id \notin KnownIntentIds(l)
    /\ AppendTimeOk(l, i.at)
    /\ Append1(l, "Intent", i.cell, i, {}, i.at)
    /\ cells' = [cells EXCEPT ![l][i.cell].intent = i,
                              ![l][i.cell].state = "INTENT_RECORDED"]
    /\ UNCHANGED <<writing, up, issued, consumed, migrated>>

RecordGrant(l, g, acceptedAt) ==
    LET c == g.intent.cell IN
    /\ Free(l)
    /\ g.intent.matrix = MatrixOf[l]
    /\ cells[l][c].state = "INTENT_RECORDED"
    /\ g.id \notin KnownGrantIds(l)
    /\ VerifyGrant(g, cells[l][c].intent, acceptedAt)
    /\ AppendTimeOk(l, acceptedAt)
    /\ Append1(l, "Grant", c, g, {cells[l][c].intent}, acceptedAt)
    /\ cells' = [cells EXCEPT ![l][c].grant = g, ![l][c].state = "GRANTED"]
    /\ UNCHANGED <<writing, up, issued, consumed, migrated>>

\* _validate_receipt.  One number stands for the four resources a Grant bounds.
ValidReceipt(r, g, i) ==
    /\ r.started <= r.completed
    /\ g.issued <= r.started + CLOCK_SKEW
    /\ r.started < g.expires
    /\ r.usage <= g.bounds /\ r.output = r.usage
    /\ r.determinism >= g.determinism
    /\ r.determinism >= i.determinism

\* Mutant: the answer of the registry is not looked at.
ConsumeGrantAgain(l, r) ==
    LET cell == cells[l][r.cell] IN
    /\ Free(l)
    /\ r.matrix = MatrixOf[l]
    /\ cell.state = "GRANTED"
    /\ r.intent = cell.intent /\ r.grant = cell.grant
    /\ ValidReceipt(r, cell.grant, cell.intent)
    /\ AppendTimeOk(l, r.completed)
    /\ consumed' = consumed \cup {cell.grant.id}
    /\ writing' = [writing EXCEPT ![l] = r]
    /\ UNCHANGED <<entries, cells, up, issued, migrated>>

\* record_receipt up to the irreversible write to the registry.
ConsumeGrant(l, r) ==
    LET cell == cells[l][r.cell] IN
    /\ Free(l)
    /\ r.matrix = MatrixOf[l]
    /\ cell.state = "GRANTED"
    /\ r.intent = cell.intent /\ r.grant = cell.grant
    /\ ValidReceipt(r, cell.grant, cell.intent)
    /\ AppendTimeOk(l, r.completed)
    /\ cell.grant.id \notin consumed
    /\ consumed' = consumed \cup {cell.grant.id}
    /\ writing' = [writing EXCEPT ![l] = r]
    /\ UNCHANGED <<entries, cells, up, issued, migrated>>

\* The rest of record_receipt.
AppendReceipt(l) ==
    LET r == writing[l] IN
    /\ r # NoDoc
    /\ Append1(l, "Receipt", r.cell, r, {r.intent, r.grant}, r.completed)
    /\ cells' = [cells EXCEPT ![l][r.cell].receipt = r,
                              ![l][r.cell].state = "RECEIPT_RECORDED"]
    /\ writing' = [writing EXCEPT ![l] = NoDoc]
    /\ UNCHANGED <<up, issued, consumed, migrated>>

RecordEvidence(l, e) ==
    LET cell == cells[l][e.cell] IN
    /\ Free(l)
    /\ e.matrix = MatrixOf[l]
    /\ cell.state \in {"RECEIPT_RECORDED", "EVIDENCE_READY"}
    /\ e.receipt = cell.receipt
    /\ \A f \in cell.evidence : e.id # f.id
    /\ AppendTimeOk(l, e.at)
    /\ Append1(l, "Evidence", e.cell, e, {cell.receipt}, e.at)
    /\ cells' = [cells EXCEPT
                   ![l][e.cell].evidence = @ \cup {e},
                   ![l][e.cell].state =
                       IF GatePasses(cell.evidence \cup {e}) THEN "EVIDENCE_READY" ELSE @]
    /\ UNCHANGED <<writing, up, issued, consumed, migrated>>

\* A Decision as its author builds it from the gate it saw: the model only lets a
\* passing gate into a Decision, over the evidence that the Decision names.
DecisionDoc(l, c, E, level, at) ==
    [matrix |-> MatrixOf[l], cell |-> c, intent |-> cells[l][c].intent,
     receipt |-> cells[l][c].receipt, evidence |-> E,
     gate |-> [status |-> "PASS", evidence |-> E], determinism |-> level, at |-> at]

\* Mutant: the gate of the Decision is recomputed over the evidence it names.
RecordDecisionStale(l, d) ==
    LET cell == cells[l][d.cell] IN
    /\ Free(l)
    /\ d.matrix = MatrixOf[l]
    /\ cell.state = "EVIDENCE_READY"
    /\ cell.receipt.outcome = "SUCCEEDED"
    /\ d.gate = EvidenceGate(d.evidence)
    /\ d.intent = cell.intent /\ d.receipt = cell.receipt
    /\ d.determinism = cell.receipt.determinism
    /\ d.determinism >= cell.intent.determinism
    /\ AppendTimeOk(l, d.at)
    /\ Append1(l, "Decision", d.cell, d, {d.intent, d.receipt} \cup d.evidence, d.at)
    /\ cells' = [cells EXCEPT ![l][d.cell].decision = d, ![l][d.cell].state = "DECIDED"]
    /\ UNCHANGED <<writing, up, issued, consumed, migrated>>

RecordDecision(l, d) ==
    LET cell == cells[l][d.cell] IN
    /\ Free(l)
    /\ d.matrix = MatrixOf[l]
    /\ cell.state = "EVIDENCE_READY"
    /\ cell.receipt.outcome = "SUCCEEDED"
    /\ d.gate = EvidenceGate(cell.evidence)
    /\ d.intent = cell.intent /\ d.receipt = cell.receipt
    /\ d.evidence = cell.evidence
    /\ d.determinism = cell.receipt.determinism
    /\ d.determinism >= cell.intent.determinism
    /\ AppendTimeOk(l, d.at)
    /\ Append1(l, "Decision", d.cell, d, {d.intent, d.receipt} \cup d.evidence, d.at)
    /\ cells' = [cells EXCEPT ![l][d.cell].decision = d, ![l][d.cell].state = "DECIDED"]
    /\ UNCHANGED <<writing, up, issued, consumed, migrated>>

\* The process of l dies, between two operations or inside record_receipt.
Crash(l) ==
    /\ up[l]
    /\ up' = [up EXCEPT ![l] = FALSE]
    /\ writing' = [writing EXCEPT ![l] = NoDoc]
    /\ UNCHANGED <<entries, cells, issued, consumed, migrated>>

ReadyCells(l) == {c \in Cells : cells[l][c].state = "EVIDENCE_READY"}

Next ==
    \/ \E g \in Grants : IssueGrant(g) \/ MigrateApproval(g)
    \/ \E l \in Ledgers :
         \/ \E i \in Intents : RecordIntent(l, i)
         \/ \E g \in Grants, at \in Times : RecordGrant(l, g, at)
         \/ \E r \in Receipts : ConsumeGrant(l, r)
         \/ AppendReceipt(l)
         \/ \E e \in Evidence : RecordEvidence(l, e)
         \/ \E c \in ReadyCells(l), level \in Levels, at \in Times :
              \E E \in SUBSET cells[l][c].evidence :
                RecordDecision(l, DecisionDoc(l, c, E, level, at))
         \/ Crash(l)

Spec == Init /\ [][Next]_vars

-----------------------------------------------------------------------------
(* Properties.                                                             *)

\* Everything recorded has its type, and the lock of a ledger is free or held by
\* the append of a Receipt.
TypeOK ==
    /\ entries \in [Ledgers -> Seq(Entries)]
    /\ cells \in [Ledgers -> [Cells -> CellRecords]]
    /\ writing \in [Ledgers -> Receipts \cup {NoDoc}]
    /\ up \in [Ledgers -> BOOLEAN]
    /\ issued \subseteq Grants

\* Ledger l holds, or is about to append, a Receipt for cell c.
Executed(l, c) ==
    \/ cells[l][c].receipt # NoDoc
    \/ writing[l] # NoDoc /\ writing[l].cell = c

\* A Grant id backs one execution: whatever ledgers recorded it, in whichever
\* processes, before or after crashes, and also where an issuer gave the same id to
\* two Grants, at most one cell of one ledger has a Receipt under it
\* (record_receipt, ReplayRegistry.consume).
GrantSpentOnce ==
    \A k, l \in Ledgers, c, d \in Cells :
        (/\ Executed(k, c) /\ Executed(l, d)
         /\ cells[k][c].grant.id = cells[l][d].grant.id)
        => k = l /\ c = d

EntriesOf(l, c, kind) ==
    {entries[l][n].doc : n \in {m \in 1..Len(entries[l]) :
                                  entries[l][m].kind = kind /\ entries[l][m].cell = c}}

\* A Decision is about all the Evidence of its cell that the ledger ever appends, also
\* after the Decision, and that Evidence passes the gate; the execution succeeded, began
\* inside the window of a Grant the signer issued, and stayed within its bounds
\* (record_evidence, record_decision).
DecisionJustified ==
    \A l \in Ledgers, c \in Cells : \A d \in EntriesOf(l, c, "Decision") :
        /\ EntriesOf(l, c, "Decision") = {d}
        /\ d.evidence = EntriesOf(l, c, "Evidence")
        /\ GatePasses(d.evidence)
        /\ EntriesOf(l, c, "Receipt") = {d.receipt}
        /\ d.receipt.outcome = "SUCCEEDED"
        /\ \E g \in EntriesOf(l, c, "Grant") \cap issued :
              /\ g = d.receipt.grant /\ g.intent = d.intent
              /\ d.receipt.started < g.expires
              /\ d.receipt.usage <= g.bounds
              /\ d.receipt.determinism >= d.intent.determinism

\* docs/protocols/RXP.md:153 says "The `grant_id` MUST be atomically consumed when its
\* Receipt is committed": with no record_receipt under way, a consumed id has its Receipt.
ConsumedWithReceipt ==
    (\A l \in Ledgers : writing[l] = NoDoc) =>
        \A id \in consumed :
            \E l \in Ledgers, c \in Cells :
                cells[l][c].receipt # NoDoc /\ cells[l][c].receipt.grant.id = id
=============================================================================
