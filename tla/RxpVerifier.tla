----------------------------- MODULE RxpVerifier -----------------------------
(***************************************************************************)
(* verify_ledger_document: an auditor replays the entries of a snapshot,   *)
(* knowing nothing of the ledger's memory, and compares the cells that it  *)
(* rebuilds with the cells that the snapshot shows.  The hash chain over   *)
(* the entries is left out: a sequence is its own root.                    *)
(***************************************************************************)
EXTENDS RxpLedger

\* What the auditor knows after a prefix of the entries.
NothingRead == [ok |-> TRUE, cells |-> [c \in Cells |-> AbsentCell], read |-> {}, at |-> 0]

\* _verify_transition, the cell of the entry and the document in it.
IntentOk(cell, e) ==
    /\ cell.state = "ABSENT"
    /\ e.parents = {}
    /\ e.cell \in DOMAIN Plan /\ e.doc.coordinates = Plan[e.cell]

GrantOk(cell, e) ==
    /\ cell.state = "INTENT_RECORDED"
    /\ e.parents = {cell.intent}
    /\ e.doc.intent = cell.intent
    /\ e.doc.bounds >= cell.intent.needs

ReceiptOk(cell, e) ==
    /\ cell.state = "GRANTED"
    /\ e.parents = {cell.intent, cell.grant}
    /\ e.doc.intent = cell.intent /\ e.doc.grant = cell.grant
    /\ ValidReceipt(e.doc, cell.grant, cell.intent)

EvidenceOk(cell, e) ==
    /\ cell.state \in {"RECEIPT_RECORDED", "EVIDENCE_READY"}
    /\ e.doc.receipt = cell.receipt
    /\ e.parents = {cell.receipt}
    /\ \A f \in cell.evidence : e.doc.id # f.id

DecisionOk(cell, e) ==
    /\ cell.state = "EVIDENCE_READY"
    /\ e.parents = {cell.intent, cell.receipt} \cup cell.evidence
    /\ e.doc.gate.status = "PASS" /\ e.doc.evidence = e.doc.gate.evidence
    /\ e.doc.gate = EvidenceGate(cell.evidence)
    /\ e.doc.intent = cell.intent /\ e.doc.receipt = cell.receipt
    /\ e.doc.evidence = cell.evidence
    /\ e.doc.determinism = cell.receipt.determinism
    /\ cell.receipt.outcome = "SUCCEEDED"

TransitionOk(cell, e) ==
    \/ e.kind = "Intent"   /\ IntentOk(cell, e)
    \/ e.kind = "Grant"    /\ GrantOk(cell, e)
    \/ e.kind = "Receipt"  /\ ReceiptOk(cell, e)
    \/ e.kind = "Evidence" /\ EvidenceOk(cell, e)
    \/ e.kind = "Decision" /\ DecisionOk(cell, e)

\* The cell after the entry.
CellAfter(cell, e) ==
    CASE e.kind = "Intent"   -> [cell EXCEPT !.intent = e.doc, !.state = "INTENT_RECORDED"]
      [] e.kind = "Grant"    -> [cell EXCEPT !.grant = e.doc, !.state = "GRANTED"]
      [] e.kind = "Receipt"  -> [cell EXCEPT !.receipt = e.doc, !.state = "RECEIPT_RECORDED"]
      [] e.kind = "Evidence" ->
            [cell EXCEPT !.evidence = @ \cup {e.doc},
                         !.state = IF GatePasses(cell.evidence \cup {e.doc})
                                   THEN "EVIDENCE_READY" ELSE @]
      [] e.kind = "Decision" -> [cell EXCEPT !.decision = e.doc, !.state = "DECIDED"]

\* _verify_recorded_at
RecordedAtOk(e) ==
    CASE e.kind = "Grant"    -> e.doc.issued <= e.at + CLOCK_SKEW /\ e.at < e.doc.expires
      [] e.kind = "Receipt"  -> e.at = e.doc.completed
      [] OTHER               -> e.at = e.doc.at

\* No document and no id of an Intent or Grant is read twice.
FreshOk(v, e) ==
    /\ e.doc \notin {f.doc : f \in v.read}
    /\ e.kind \in {"Intent", "Grant"} =>
           \A f \in v.read : f.kind = e.kind => f.doc.id # e.doc.id

\* One turn of verify_ledger_document's loop, after the frozen plan.
Read(v, e) ==
    [ok    |-> /\ v.ok
               /\ e.at >= v.at
               /\ FreshOk(v, e)
               /\ e.parents \subseteq {f.doc : f \in v.read}
               /\ TransitionOk(v.cells[e.cell], e)
               /\ RecordedAtOk(e),
     cells |-> [v.cells EXCEPT ![e.cell] = CellAfter(@, e)],
     read  |-> v.read \cup {e},
     at    |-> e.at]

VerifyLedger(es) ==
    LET reading[n \in 1..Len(es)] ==
            IF n = 1 THEN [NothingRead EXCEPT !.ok = (es[1] = Frozen)]
            ELSE Read(reading[n - 1], es[n])
    IN reading[Len(es)]

\* verify_grant_signatures
SignaturesOk(es) ==
    \A n \in 1..Len(es) : es[n].kind = "Grant" =>
        \E m \in 1..(n - 1) :
            /\ es[m].kind = "Intent" /\ es[m].cell = es[n].cell
            /\ VerifyGrant(es[n].doc, es[m].doc, es[n].doc.issued)

\* Every snapshot that a ledger can give out, in the middle of the matrix, after
\* a crash and with cells interleaved in any order, passes the auditor's replay, which
\* rebuilds exactly the cells of the snapshot (record_* against verify_ledger_document and
\* verify_grant_signatures).
SnapshotVerifies ==
    \A l \in Ledgers :
        /\ LET v == VerifyLedger(entries[l]) IN v.ok /\ v.cells = cells[l]
        /\ SignaturesOk(entries[l])
=============================================================================
