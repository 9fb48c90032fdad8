----------------------------- MODULE BridgeLedger -----------------------------
(***************************************************************************)
(* What the bridge's store promises about one run: the operations of       *)
(* BridgeStore (apps/agentteams_bridge/store.py), each one atomic because  *)
(* SQLite's store runs it under one process lock and one transaction.      *)
(* PostgresBridgeStore is shown to implement this module.                  *)
(*                                                                         *)
(* A run has its row (version, operation lease, immutable campaign         *)
(* binding), the collaboration events, the archived receipts, and the      *)
(* extension chain with its task leases and evaluator bindings.  Hashes    *)
(* are left out here: a chain is a sequence, and PostgresBridgeStore keeps *)
(* the links.  The clock is left out too: a claim may find the present     *)
(* lease expired and an owner may find its own expired, so Claim takes the *)
(* lease from anyone and a refusal is a step that changes nothing.         *)
(***************************************************************************)
EXTENDS Naturals, Sequences, FiniteSets

CONSTANTS
    Owners,        \* operation owners: one claim of one bridge process
    Tasks,         \* task ids
    BindingIds,    \* evaluator binding ids
    Keys,          \* idempotency keys
    Bindings,      \* campaign bindings: [policy, turn, campaign, watermark]
    Payloads,      \* extension payloads, see Payload
    Marks,         \* memory watermarks a caller may cite
    ReceiptKeys, Contents,   \* receipt keys, upstream contents
    MaxVersion, MaxEvents    \* bounds: run versions, collaboration events

VARIABLES run, chain, leases, evaluators, events, receipts

vars == <<run, chain, leases, evaluators, events, receipts>>

NoBinding == [policy |-> "none", turn |-> "none", campaign |-> "none",
              watermark |-> 0]
NoOwner == "nobody"
NoRow == 0
NoEvaluation == [task |-> "none", sequence |-> 0]
NoReceipt == "absent"

\* The contracts an outside caller may append; the two admission types are
\* written only by the store's own operations.
EventModels == {"CANONICAL_EFFECT", "SYSTEM_RISK_ASSESSMENT", "GUARDIAN_DECISION",
                "SAFETY_DECISION", "ATTENTION_PACKET", "USER_STATUS_PROJECTION"}
LeaseAdmission == "VERIFIED_TASK_LEASE_ADMISSION"
EvaluatorAdmission == "VERIFIED_EVALUATOR_ADMISSION"
EventTypes == EventModels \cup {LeaseAdmission, EvaluatorAdmission}

(***************************************************************************)
(* A payload: its type; whether it names the run's project (ours); the     *)
(* policy and checkpoint it was made under (policy), the turn, generation  *)
(* and requirement ledger (turn), the rest of a lease's campaign fields    *)
(* (campaign) and the watermark; its task; whether an assessment is HIGH;  *)
(* the payloads it embeds (evidence); and the events it cites by id.       *)
(***************************************************************************)
EmbeddedIn(type) ==
    CASE type = "GUARDIAN_DECISION" -> {"SYSTEM_RISK_ASSESSMENT"}
      [] type = "SAFETY_DECISION" -> {"CANONICAL_EFFECT", "GUARDIAN_DECISION"}
      [] type = "USER_STATUS_PROJECTION" -> {"GUARDIAN_DECISION", "SAFETY_DECISION"}
      [] OTHER -> {}
Embeds(p, type) == {q \in p.evidence : q.type = type}

ASSUME PayloadAssumption ==
    /\ NoBinding \notin Bindings
    /\ NoOwner \notin Owners
    /\ Marks \subseteq Nat
    /\ NoReceipt \notin Contents
    /\ \A b \in Bindings : b.watermark \in Nat
    /\ \A p \in Payloads : /\ p.type \in EventTypes
                           /\ p.task \in Tasks
                           /\ p.watermark \in Nat
                           /\ p.sources \subseteq Nat
                           /\ p.evidence \subseteq Payloads
                           /\ {q.type : q \in p.evidence} \subseteq EmbeddedIn(p.type)

RunRows == [version : Nat, owner : Owners \cup {NoOwner},
         binding : Bindings \cup {NoBinding}]
Entries == [key : Keys, payload : Payloads, mark : Nat]

AbsentRun == [version |-> 0, owner |-> NoOwner, binding |-> NoBinding]

Init == /\ run = AbsentRun
        /\ chain = <<>>
        /\ leases = [t \in Tasks |-> NoRow]
        /\ evaluators = [i \in BindingIds |-> NoEvaluation]
        /\ events = <<>>
        /\ receipts = [k \in ReceiptKeys |-> NoReceipt]

-----------------------------------------------------------------------------
(* The run row and what needs its operation lease.                         *)

CreateRun == /\ run.version = 0
             /\ run' = [run EXCEPT !.version = 1]
             /\ UNCHANGED <<chain, leases, evaluators, events, receipts>>

ClaimOperation(o) ==
    /\ run.version > 0
    /\ run' = [run EXCEPT !.owner = o]
    /\ UNCHANGED <<chain, leases, evaluators, events, receipts>>

ReleaseOperation(o) ==
    /\ run.version > 0
    /\ run.owner = o
    /\ run' = [run EXCEPT !.owner = NoOwner]
    /\ UNCHANGED <<chain, leases, evaluators, events, receipts>>

\* lease_owner is the owner's own id, or nobody where no lease is held.
AssertUpdateLease(row, o) == row.owner = o

UpdateRun(o, expected) ==
    /\ run.version = expected /\ run.version > 0
    /\ AssertUpdateLease(run, o)
    /\ run' = [run EXCEPT !.version = expected + 1]
    /\ UNCHANGED <<chain, leases, evaluators, events, receipts>>

AppendEvent(o) ==
    /\ run.version > 0
    /\ AssertUpdateLease(run, o)
    /\ events' = Append(events, o)
    /\ UNCHANGED <<run, chain, leases, evaluators, receipts>>

ArchiveReceipt(o, k, c) ==
    /\ run.version > 0
    /\ AssertUpdateLease(run, o)
    /\ receipts[k] = NoReceipt
    /\ receipts' = [receipts EXCEPT ![k] = c]
    /\ UNCHANGED <<run, chain, leases, evaluators, events>>

-----------------------------------------------------------------------------
(* The extension chain.                                                    *)

BindCampaign(b) ==
    /\ run.version > 0
    /\ run.binding = NoBinding
    /\ run' = [run EXCEPT !.binding = b]
    /\ UNCHANGED <<chain, leases, evaluators, events, receipts>>

KeysOf(log) == {log[n].key : n \in DOMAIN log}
HasExactEvent(log, p) == \E n \in DOMAIN log : log[n].payload = p
RequireTaskLease(rows, t) == rows[t] # NoRow

EffectAdmissible(b, rows, p) ==
    /\ p.ours /\ p.policy = b.policy
    /\ RequireTaskLease(rows, p.task)

\* Mutant: the assessment need not have been admitted.
GuardianUnordered(log, p) == \A q \in Embeds(p, "SYSTEM_RISK_ASSESSMENT") : q.high

GuardianAdmissible(log, p) ==
    \A q \in Embeds(p, "SYSTEM_RISK_ASSESSMENT") : q.high /\ HasExactEvent(log, q)

SafetyAdmissible(log, p) ==
    \A q \in Embeds(p, "CANONICAL_EFFECT") \cup Embeds(p, "GUARDIAN_DECISION") :
        HasExactEvent(log, q)

AttentionAdmissible(b, rows, p, mark) ==
    /\ p.ours /\ p.policy = b.policy /\ p.turn = b.turn
    /\ p.watermark = mark
    /\ RequireTaskLease(rows, p.task)

ProjectionAdmissible(log, rows, p) ==
    /\ p.ours
    /\ RequireTaskLease(rows, p.task)
    /\ p.sources \subseteq DOMAIN log
    /\ \A q \in Embeds(p, "GUARDIAN_DECISION") \cup Embeds(p, "SAFETY_DECISION") :
           HasExactEvent(log, q)

\* _validate_extension_admission: an assessment and the two admission types
\* have no condition of their own here.
Admissible(b, log, rows, p, mark) ==
    /\ p.type = "CANONICAL_EFFECT" => EffectAdmissible(b, rows, p)
    /\ p.type = "GUARDIAN_DECISION" => GuardianAdmissible(log, p)
    /\ p.type = "SAFETY_DECISION" => SafetyAdmissible(log, p)
    /\ p.type = "ATTENTION_PACKET" => AttentionAdmissible(b, rows, p, mark)
    /\ p.type = "USER_STATUS_PROJECTION" => ProjectionAdmissible(log, rows, p)

\* Mutant: the cited watermark is not compared with the run's.
AppendableAnyMark(row, log, rows, k, p, mark) ==
    /\ row.binding # NoBinding
    /\ k \notin KeysOf(log)
    /\ Admissible(row.binding, log, rows, p, mark)

\* The part of _append_extension_bytes that ends in a new event: a key already
\* used replays its event or is refused, and neither changes anything.
Appendable(row, log, rows, k, p, mark) ==
    /\ row.binding # NoBinding
    /\ mark <= row.binding.watermark
    /\ k \notin KeysOf(log)
    /\ Admissible(row.binding, log, rows, p, mark)

AppendExtensionBytes(k, p, mark) ==
    /\ Appendable(run, chain, leases, k, p, mark)
    /\ chain' = Append(chain, [key |-> k, payload |-> p, mark |-> mark])

AppendExtensionEvent(k, p, mark) ==
    /\ p.type \in EventModels
    /\ AppendExtensionBytes(k, p, mark)
    /\ UNCHANGED <<run, leases, evaluators, events, receipts>>

AssertLeaseBinding(b, p) ==
    /\ p.ours
    /\ p.policy = b.policy /\ p.turn = b.turn /\ p.campaign = b.campaign
    /\ p.watermark = b.watermark

\* Mutant: a second lease replaces the first.
StoreLeaseAgain(k, p) ==
    /\ p.type = LeaseAdmission
    /\ run.binding # NoBinding /\ AssertLeaseBinding(run.binding, p)
    /\ AppendExtensionBytes(k, p, p.watermark)
    /\ leases' = [leases EXCEPT ![p.task] = Len(chain')]
    /\ UNCHANGED <<run, evaluators, events, receipts>>

\* A second lease for a task raises after the event was inserted: the
\* transaction rolls the event back with it.
StoreSignedTaskLease(k, p) ==
    /\ p.type = LeaseAdmission
    /\ run.binding # NoBinding /\ AssertLeaseBinding(run.binding, p)
    /\ leases[p.task] = NoRow
    /\ AppendExtensionBytes(k, p, p.watermark)
    /\ leases' = [leases EXCEPT ![p.task] = Len(chain')]
    /\ UNCHANGED <<run, evaluators, events, receipts>>

BindSealedEvaluation(k, i, p) ==
    /\ p.type = EvaluatorAdmission
    /\ RequireTaskLease(leases, p.task)
    /\ evaluators[i] = NoEvaluation
    /\ AppendExtensionBytes(k, p, run.binding.watermark)
    /\ evaluators' = [evaluators EXCEPT ![i] = [task |-> p.task, sequence |-> Len(chain')]]
    /\ UNCHANGED <<run, leases, events, receipts>>

-----------------------------------------------------------------------------
Next ==
    \/ CreateRun
    \/ \E o \in Owners : ClaimOperation(o) \/ ReleaseOperation(o)
    \/ \E o \in Owners \cup {NoOwner} :
        \/ \E v \in 1..(MaxVersion - 1) : UpdateRun(o, v)
        \/ Len(events) < MaxEvents /\ AppendEvent(o)
        \/ \E k \in ReceiptKeys, c \in Contents : ArchiveReceipt(o, k, c)
    \/ \E b \in Bindings : BindCampaign(b)
    \/ \E k \in Keys, p \in Payloads :
        \/ \E mark \in Marks : AppendExtensionEvent(k, p, mark)
        \/ StoreSignedTaskLease(k, p)
        \/ \E i \in BindingIds : BindSealedEvaluation(k, i, p)

Spec == Init /\ [][Next]_vars

-----------------------------------------------------------------------------
TypeOK ==
    /\ run \in RunRows
    /\ chain \in Seq(Entries)
    /\ leases \in [Tasks -> Nat]
    /\ evaluators \in [BindingIds -> [task : Tasks \cup {"none"}, sequence : Nat]]
    /\ events \in Seq(Owners \cup {NoOwner})
    /\ receipts \in [ReceiptKeys -> Contents \cup {NoReceipt}]

\* Evidence comes before what rests on it: at every event of the extension
\* chain, each payload it embeds was admitted by an earlier event, each event it
\* cites is an earlier one, and the task of an effect, a packet or a projection
\* had its lease admitted before it (_validate_extension_admission, read
\* together with the order of the chain).
LeasedBefore(n) == \E j \in 1..(n - 1) : /\ chain[j].payload.type = LeaseAdmission
                                         /\ chain[j].payload.task = chain[n].payload.task

EvidenceBefore(n) ==
    LET p == chain[n].payload IN
    /\ p.type \in {"CANONICAL_EFFECT", "ATTENTION_PACKET", "USER_STATUS_PROJECTION",
                   EvaluatorAdmission} => LeasedBefore(n)
    /\ p.type \in {"GUARDIAN_DECISION", "SAFETY_DECISION", "USER_STATUS_PROJECTION"} =>
        \A q \in p.evidence : \E j \in 1..(n - 1) : chain[j].payload = q
    /\ p.type = "USER_STATUS_PROJECTION" => p.sources \subseteq 1..(n - 1)

EvidencePrecedes == \A n \in DOMAIN chain : EvidenceBefore(n)

\* The two admission tables and the chain tell the same story: each lease and
\* each evaluator row points at its own admission event, and every admission
\* event has exactly one row (what replay_extension_authority returns side by
\* side).
RowsMatchChain ==
    /\ \A t \in Tasks : leases[t] # NoRow =>
        /\ leases[t] \in DOMAIN chain
        /\ chain[leases[t]].payload.type = LeaseAdmission
        /\ chain[leases[t]].payload.task = t
    /\ \A i \in BindingIds : evaluators[i] # NoEvaluation =>
        /\ evaluators[i].sequence \in DOMAIN chain
        /\ chain[evaluators[i].sequence].payload.type = EvaluatorAdmission
        /\ chain[evaluators[i].sequence].payload.task = evaluators[i].task
        /\ leases[evaluators[i].task] # NoRow
        /\ leases[evaluators[i].task] < evaluators[i].sequence
    /\ \A n \in DOMAIN chain :
        /\ chain[n].payload.type = LeaseAdmission => leases[chain[n].payload.task] = n
        /\ chain[n].payload.type = EvaluatorAdmission =>
            \E i \in BindingIds : /\ evaluators[i].sequence = n
                                  /\ \A j \in BindingIds \ {i} : evaluators[j].sequence # n

\* Everything in a run's extension chain was made under the campaign the run is
\* bound to: no event cites a watermark past the binding's, every effect and
\* packet carries its policy and every lease all of it, and no key names two
\* events.
UnderBinding ==
    /\ chain # <<>> => run.binding # NoBinding
    /\ \A n \in DOMAIN chain :
        LET p == chain[n].payload IN
        /\ chain[n].mark <= run.binding.watermark
        /\ p.type \in {"CANONICAL_EFFECT", "ATTENTION_PACKET"} => p.policy = run.binding.policy
        /\ p.type = LeaseAdmission => AssertLeaseBinding(run.binding, p)
        /\ \A j \in DOMAIN chain : chain[j].key = chain[n].key => j = n
=============================================================================
