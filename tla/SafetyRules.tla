----------------------------- MODULE SafetyRules -----------------------------
(***************************************************************************)
(* The pure safety rules of the AgentTeams bridge: how one canonical       *)
(* effect is classified by the system and reviewed by the Guardian, what   *)
(* is disclosed to the approver, and the contracts the results have to     *)
(* meet (apps/agentteams_bridge/extensions/guardian.py, safety.py,         *)
(* contracts.py).  An effect is the facts about it the rules tell apart;   *)
(* an operation stands for the operations the rules treat alike.           *)
(***************************************************************************)
EXTENDS Naturals, FiniteSets

CONSTANTS None, Raised   \* no value; an evaluation that raised

LowOperations == {"workspace.read"}
MediumOperations == {"workspace.write", "workspace.mkdir"}
HighOperations == {"workspace.delete", "workspace.execute", "workspace.upload"}
KnownOperations == LowOperations \cup MediumOperations \cup HighOperations
Operations == KnownOperations \cup {"workspace.reset", "mail.send"}

(* Operations whose name holds a destructive or an egress marker.          *)
Destructive == {"workspace.delete", "workspace.reset"}
Egress == {"workspace.upload", "mail.send"}

(* Recovery plans: none given, the bound checkpoint, removal of what was   *)
(* created, a backup below workspace/.recovery, one elsewhere in the       *)
(* workspace, one outside it.                                              *)
Plans == {"", "CHECKPOINT", "REMOVE_CREATED_PATH", "BACKUP:recovery", "BACKUP:workspace",
          "BACKUP:outside"}

CanonicalEffects ==
    [operation : Operations,
     target : {"plain", "evidence", "outside"},     \* the effect's target path
     paths : {"target", "other", "outside"},        \* the path arguments
     arguments : {"exact", "extra"},                \* exactly those of the operation?
     route : {"unset", "gateway", "direct"},        \* route and tool arguments
     secret : BOOLEAN,                              \* credential material in the arguments
     scope : {"exact", "other"},                    \* affected_scope against project and task
     reversible : BOOLEAN,
     plan : Plans]

Levels == {"LOW", "MEDIUM", "HIGH"}
Dispositions == {"ALLOW", "APPROVAL_REQUIRED", "DENY"}
RiskRank == [l \in Levels |-> CASE l = "LOW" -> 0 [] l = "MEDIUM" -> 1 [] l = "HIGH" -> 2]
DispositionRank ==
    [d \in Dispositions |-> CASE d = "ALLOW" -> 0 [] d = "APPROVAL_REQUIRED" -> 1 [] d = "DENY" -> 2]

--------------------------------------------------------------------------------
(* The mandatory rules.                                                    *)

HasPathEscape(e) == e.target = "outside" \/ e.paths = "outside"
HasCrossProjectTarget(e) == e.scope # "exact"
IsSecretExfiltration(e) == e.operation \in Egress /\ e.secret
IsIrreversibleDestruction(e) ==
    /\ e.operation \in Destructive
    /\ \/ ~e.reversible
       \/ e.plan \notin {"CHECKPOINT", "BACKUP:recovery", "BACKUP:workspace"}
IsEvidenceTampering(e) == e.operation \notin LowOperations /\ e.target = "evidence"
BypassesWorkspaceGateway(e) == e.operation = "mail.send" \/ e.route = "direct"

(* Constraints carry the names of the rules that demand them.              *)
MandatoryRuleMatches(e) ==
    {rule \in {"CROSS_PROJECT_TARGET", "EVIDENCE_TAMPERING", "IRREVERSIBLE_DESTRUCTION",
               "PATH_ESCAPE", "SECRET_EXFILTRATION", "WORKSPACE_GATEWAY_BYPASS"} :
        CASE rule = "CROSS_PROJECT_TARGET" -> HasCrossProjectTarget(e)
          [] rule = "EVIDENCE_TAMPERING" -> IsEvidenceTampering(e)
          [] rule = "IRREVERSIBLE_DESTRUCTION" -> IsIrreversibleDestruction(e)
          [] rule = "PATH_ESCAPE" -> HasPathEscape(e)
          [] rule = "SECRET_EXFILTRATION" -> IsSecretExfiltration(e)
          [] rule = "WORKSPACE_GATEWAY_BYPASS" -> BypassesWorkspaceGateway(e)}

Unknown(e) == IF e.operation \in KnownOperations THEN {} ELSE {"UNKNOWN_OPERATION"}

OperationRiskLevel(operation) ==
    IF operation \in LowOperations THEN "LOW"
    ELSE IF operation \in MediumOperations THEN "MEDIUM" ELSE "HIGH"

--------------------------------------------------------------------------------
(* The two assessments.                                                    *)

Assessment(stage, e, level, disposition, reasons, constraints, sequence) ==
    [stage |-> stage, effect |-> e, level |-> level, disposition |-> disposition,
     reasons |-> reasons, constraints |-> constraints, sequence |-> sequence]

SystemAssess(e, sequence) ==
    LET constraints == MandatoryRuleMatches(e) \cup Unknown(e)
        level == OperationRiskLevel(e.operation)
    IN  IF constraints # {}
        THEN Assessment("SYSTEM", e, "HIGH", "DENY", constraints, constraints, sequence)
        ELSE IF level = "HIGH"
        THEN Assessment("SYSTEM", e, "HIGH", "APPROVAL_REQUIRED", {"SYSTEM_HIGH_IMPACT_EFFECT"},
                        {}, sequence)
        ELSE Assessment("SYSTEM", e, level, "ALLOW",
                        {IF level = "LOW" THEN "READ_ONLY_WORKSPACE_EFFECT"
                                          ELSE "REVERSIBLE_WORKSPACE_MUTATION"},
                        {}, sequence)

(* EgoGuardian.assess: only ever called for a system-HIGH assessment.      *)
GuardianAssess(e, system, sequence) ==
    LET own == MandatoryRuleMatches(e) \cup Unknown(e)
        missing == system.constraints \ own
        constraints == own \cup missing
        reasons == own \cup (IF missing # {} THEN {"SYSTEM_CONSTRAINT_MISMATCH"} ELSE {})
    IN  IF constraints # {}
        THEN Assessment("GUARDIAN", e, "HIGH", "DENY", reasons, constraints, sequence)
        ELSE IF OperationRiskLevel(e.operation) = "HIGH"
        THEN Assessment("GUARDIAN", e, "HIGH", "APPROVAL_REQUIRED",
                        reasons \cup {"GUARDIAN_HIGH_IMPACT_EFFECT"}, {}, sequence)
        ELSE Assessment("GUARDIAN", e, "HIGH", "DENY",
                        reasons \cup {"SYSTEM_GUARDIAN_RISK_MISMATCH"},
                        {"GUARDIAN_CONSISTENCY"}, sequence)

BuildGuardianDecision(e, system, enforcement, sequence) ==
    LET guardian == IF system.level = "HIGH" THEN GuardianAssess(e, system, sequence) ELSE None
    IN  [effect |-> e, system |-> system, guardian |-> guardian, enforcement |-> enforcement,
         disposition |-> IF guardian = None THEN system.disposition ELSE guardian.disposition]

(* GuardianDecision.validate_guardian_decision.                            *)
GuardianContract(d) ==
    /\ d.system.stage = "SYSTEM" /\ d.system.effect = d.effect
    /\ (d.system.level = "HIGH") <=> (d.guardian # None)
    /\ IF d.guardian = None THEN d.disposition = d.system.disposition
       ELSE /\ d.guardian.stage = "GUARDIAN" /\ d.guardian.effect = d.effect
            /\ d.system.constraints \subseteq d.guardian.constraints
            /\ RiskRank[d.guardian.level] >= RiskRank[d.system.level]
            /\ DispositionRank[d.guardian.disposition] >= DispositionRank[d.system.disposition]
            /\ d.disposition = d.guardian.disposition

--------------------------------------------------------------------------------
(* The decision and what the approver is shown.                            *)

ReasonCodes(d) == d.system.reasons \cup (IF d.guardian = None THEN {} ELSE d.guardian.reasons)

(* The disclosure repeats the effect's arguments, target, scope and plan.  *)
Disclosure(e, d, expires) ==
    [effect |-> e, plan |-> e.plan, reasons |-> ReasonCodes(d), expires |-> expires]

DecideFrom(e, d, expires) ==
    LET pending == d.disposition = "APPROVAL_REQUIRED"
    IN  [effect |-> e, guardian |-> d, verdict |-> d.disposition, pending |-> pending,
         disclosure |-> IF pending THEN Disclosure(e, d, expires) ELSE None]

(* evaluate_effect_safety raises when the approval could not be answered   *)
(* in time, or when the disclosure would have an empty recovery plan.      *)
Evaluable(e, d, sequence, expires) ==
    d.disposition = "APPROVAL_REQUIRED" => expires > sequence /\ e.plan # ""

(* SafetyDecision.validate_safety_decision and _validate_disclosure.       *)
SafetyContract(s) ==
    /\ s.guardian.effect = s.effect
    /\ s.verdict = s.guardian.disposition
    /\ s.pending <=> (s.verdict = "APPROVAL_REQUIRED")
    /\ s.pending <=> (s.disclosure # None)
    /\ s.pending => /\ s.disclosure.effect = s.effect
                    /\ s.disclosure.plan = s.effect.plan
                    /\ s.disclosure.reasons = ReasonCodes(s.guardian)
================================================================================
