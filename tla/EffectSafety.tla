----------------------------- MODULE EffectSafety -----------------------------
(***************************************************************************)
(* From a worker's effect to its authorisation: the safety decision is     *)
(* built, its evidence is admitted to the Control ledger in whatever order *)
(* it arrives, an approver answers before or after the approval expires,   *)
(* and the workspace gateway projects the decision onto its wire contract, *)
(* checks it against the ledger and validates the receipt (safety.py,      *)
(* workspace_adapter.py, workspace_authority.py).  Everything is ordered   *)
(* by the campaign's sequence numbers, the clock of the model.             *)
(***************************************************************************)
EXTENDS SafetyRules

CONSTANTS
    Slots,         \* effects under way in the campaign
    Effects,       \* what they may be
    Enforcements,  \* enforcement modes of the campaign
    Retired,       \* a constraint of an older rule version, or none
    MaxSequence    \* bound on the sequence

\* What an assessment may cite, and the fields of an assessment and of a disclosure: a
\* missing one is neither.
Codes == Retired \cup
    {"UNKNOWN_OPERATION", "CROSS_PROJECT_TARGET", "EVIDENCE_TAMPERING", "IRREVERSIBLE_DESTRUCTION",
     "PATH_ESCAPE", "SECRET_EXFILTRATION", "WORKSPACE_GATEWAY_BYPASS", "GUARDIAN_CONSISTENCY",
     "SYSTEM_HIGH_IMPACT_EFFECT", "READ_ONLY_WORKSPACE_EFFECT", "REVERSIBLE_WORKSPACE_MUTATION",
     "GUARDIAN_HIGH_IMPACT_EFFECT", "SYSTEM_CONSTRAINT_MISMATCH", "SYSTEM_GUARDIAN_RISK_MISMATCH"}
Assessments ==
    [stage : {"SYSTEM", "GUARDIAN"}, effect : Effects, level : Levels, disposition : Dispositions,
     reasons : SUBSET Codes, constraints : SUBSET Codes, sequence : Nat]
Disclosures == [effect : Effects, plan : Plans, reasons : SUBSET Codes, expires : 0..MaxSequence]

EffectSafetyAssumption ==
    /\ None \notin Assessments \cup Disclosures
    /\ Effects \subseteq CanonicalEffects
    /\ Enforcements \subseteq {"ENFORCING", "COMPATIBILITY"}
    /\ MaxSequence \in Nat

VARIABLES
    clock,        \* the next sequence number
    effect,       \* slot |-> the canonical effect
    decision,     \* slot |-> its safety decision, None or Raised
    ledger,       \* admitted extension events, <<slot, event type>>
    receipts,     \* approval receipts the Control ledger holds
    authorized    \* <<slot, sequence>> of the effects handed to the executor

vars == <<clock, effect, decision, ledger, receipts, authorized>>

EventTypes == {"CANONICAL_EFFECT", "SYSTEM_RISK_ASSESSMENT", "GUARDIAN_DECISION", "SAFETY_DECISION"}
Decided(s) == decision[s] \notin {None, Raised}

Init ==
    /\ clock = 0
    /\ effect \in [Slots -> Effects]
    /\ decision = [s \in Slots |-> None]
    /\ ledger = {}
    /\ receipts = {}
    /\ authorized = {}

Tick == clock < MaxSequence /\ clock' = clock + 1
        /\ UNCHANGED <<effect, decision, ledger, receipts, authorized>>

(* The system assessment: this build's, or one of an older rule version    *)
(* that demands more (build_guardian_decision takes either).               *)
SystemAssessments(e) ==
    {SystemAssess(e, clock)}
        \cup {Assessment("SYSTEM", e, "HIGH", "DENY", {c}, {c}, clock) : c \in Retired}
        \cup {Assessment("SYSTEM", e, "HIGH", "APPROVAL_REQUIRED", {c}, {}, clock) : c \in Retired}

EvaluateEffectSafety(s, expires) ==
    /\ decision[s] = None
    /\ \E system \in SystemAssessments(effect[s]), enforcement \in Enforcements :
          LET d == BuildGuardianDecision(effect[s], system, enforcement, clock + 1)
          IN  decision' = [decision EXCEPT ![s] =
                  IF Evaluable(effect[s], d, clock, expires)
                  THEN DecideFrom(effect[s], d, expires) ELSE Raised]
    /\ UNCHANGED <<clock, effect, ledger, receipts, authorized>>

(* What the ledger demands before it admits an event of a slot.            *)
Admissible(s, type) ==
    CASE type \in {"CANONICAL_EFFECT", "SYSTEM_RISK_ASSESSMENT"} -> TRUE
      [] type = "GUARDIAN_DECISION" ->
            /\ decision[s].guardian.system.level = "HIGH"
            /\ <<s, "SYSTEM_RISK_ASSESSMENT">> \in ledger
      [] type = "SAFETY_DECISION" ->
            <<s, "CANONICAL_EFFECT">> \in ledger /\ <<s, "GUARDIAN_DECISION">> \in ledger

Admit(s, type) ==
    /\ Decided(s) /\ <<s, type>> \notin ledger
    /\ Admissible(s, type)
    /\ ledger' = ledger \cup {<<s, type>>}
    /\ UNCHANGED <<clock, effect, decision, receipts, authorized>>

--------------------------------------------------------------------------------
(* Approval receipts.                                                      *)

(* build_approval_receipt: refused when it would be issued after expiry.   *)
BuildApprovalReceipt(s) ==
    /\ Decided(s) /\ decision[s].pending
    /\ clock <= decision[s].disclosure.expires
    /\ ~\E r \in receipts : r.effect = effect[s]
    /\ receipts' = receipts \cup {[effect |-> effect[s], approved |-> clock,
                                   expires |-> decision[s].disclosure.expires]}
    /\ UNCHANGED <<clock, effect, decision, ledger, authorized>>

(* validate_approval_receipt at the current sequence.                      *)
ValidateApprovalReceipt(r, s) ==
    /\ decision[s].verdict = "APPROVAL_REQUIRED" /\ decision[s].pending
    /\ r.effect = effect[s]
    /\ r.expires = decision[s].disclosure.expires
    /\ r.approved <= clock /\ clock <= r.expires

--------------------------------------------------------------------------------
(* The workspace gateway.                                                  *)

(* build_workspace_effect: only three operations have a typed mapping, and *)
(* each has its own recovery plan and arguments.                           *)
Mappable(e) ==
    /\ e.scope = "exact" /\ e.reversible
    /\ e.target # "outside" /\ e.paths = "target"
    /\ e.arguments = "exact" /\ e.route = "unset"
    /\ e.operation \in {"workspace.write", "workspace.mkdir", "workspace.delete"}
    /\ e.plan \in {"REMOVE_CREATED_PATH", "BACKUP:recovery"}
    /\ e.operation = "workspace.mkdir" => e.plan = "REMOVE_CREATED_PATH"
    /\ e.operation = "workspace.delete" => e.plan = "BACKUP:recovery"

BuildsWorkspaceEffect(s) == decision[s].verdict # "DENY" /\ Mappable(effect[s])

(* mutant: the ledger is not consulted *)
AnyWireAccepted(s) == decision[s] = decision[s]

(* ControlLedgerWorkspaceEffectVerifier: one admitted decision, and the    *)
(* wire payload is what it projects to.                                    *)
VerifierAccepts(s) == <<s, "SAFETY_DECISION">> \in ledger

(* The executor's own check of the decision, with the receipt it is given. *)
Authorize(s) ==
    /\ Decided(s)
    /\ BuildsWorkspaceEffect(s)
    /\ VerifierAccepts(s)
    /\ \/ decision[s].verdict = "ALLOW"
       \/ \E r \in receipts : ValidateApprovalReceipt(r, s)
    /\ authorized' = authorized \cup {<<s, clock>>}
    /\ UNCHANGED <<clock, effect, decision, ledger, receipts>>

Next ==
    \/ Tick
    \/ \E s \in Slots :
          \/ \E expires \in 0..MaxSequence : EvaluateEffectSafety(s, expires)
          \/ \E type \in EventTypes : Admit(s, type)
          \/ BuildApprovalReceipt(s)
          \/ Authorize(s)

Spec == Init /\ [][Next]_vars

(* Whoever drives a decision admits what the ledger will take and presents *)
(* the effect; nobody has to approve it.                                   *)
FairSpec ==
    /\ Spec
    /\ \A s \in Slots :
          /\ WF_vars(\E expires \in 0..MaxSequence : EvaluateEffectSafety(s, expires))
          /\ \A type \in EventTypes : WF_vars(Admit(s, type))
          /\ WF_vars(Authorize(s))

--------------------------------------------------------------------------------
(* Properties.                                                             *)

(* Type invariant of the pipeline.                                         *)
TypeOK ==
    /\ clock \in 0..MaxSequence
    /\ effect \in [Slots -> Effects]
    /\ \A s \in Slots : Decided(s) => decision[s].verdict \in Dispositions
    /\ ledger \subseteq Slots \X EventTypes
    /\ \A r \in receipts : r.approved <= r.expires

(* What the builders produce passes the contracts every reader validates,  *)
(* also when the Guardian reviews an assessment of an older rule version:  *)
(* no constraint is dropped and nothing is downgraded.                     *)
DecisionsValid ==
    \A s \in Slots : Decided(s) =>
        GuardianContract(decision[s].guardian) /\ SafetyContract(decision[s])

(* Whatever was decided, admitted and approved, an authorised effect stays *)
(* in its project and workspace, goes through the gateway, leaves evidence *)
(* alone, and names a recovery the executor can carry out.                 *)
AuthorizedIsRecoverable ==
    \A a \in authorized : LET e == effect[a[1]] IN
        /\ e.scope = "exact" /\ e.target = "plain" /\ e.paths = "target"
        /\ e.route # "direct" /\ e.reversible
        /\ e.operation \in Destructive => e.plan \in {"CHECKPOINT", "BACKUP:recovery"}

(* An authorised high-impact effect was approved, as itself and not as     *)
(* another effect of the campaign, no later than it ran, before it expired. *)
ApprovedInTime ==
    \A a \in authorized :
        OperationRiskLevel(effect[a[1]].operation) = "HIGH" =>
            \E r \in receipts : /\ r.effect = effect[a[1]]
                                /\ r.approved <= a[2] /\ a[2] <= r.expires

(* An authorised effect rests on admitted evidence: its effect, both       *)
(* assessments and its decision are in the Control ledger.                 *)
AuthorizedIsEvidenced ==
    \A a \in authorized : \A type \in EventTypes : <<a[1], type>> \in ledger

(* The verifier's test authorises an ALLOW decision for workspace.write:   *)
(* an effect that is allowed and has a mapping is eventually authorised.   *)
AllowedIsAuthorized ==
    \A s \in Slots :
        (Decided(s) /\ decision[s].verdict = "ALLOW" /\ Mappable(effect[s]))
            ~> (\E a \in authorized : a[1] = s)

\* One write that is allowed without approval, for a run of AllowedIsAuthorized.
PlainWrites ==
    {[operation |-> "workspace.write", target |-> "plain", paths |-> "target",
      arguments |-> "exact", route |-> "unset", secret |-> FALSE, scope |-> "exact",
      reversible |-> TRUE, plan |-> "REMOVE_CREATED_PATH"]}
================================================================================
