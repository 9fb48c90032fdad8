------------------------------ MODULE UserStatus ------------------------------
(***************************************************************************)
(* The status a user is shown, projected from the admitted status events   *)
(* of a work hierarchy (apps/agentteams_bridge/extensions/user_status.py): *)
(* the selected node and its children, and beyond that depth every node    *)
(* with something to worry about.  The text is left out; the mode, the     *)
(* visible nodes and the safety material bound to them are kept.           *)
(***************************************************************************)
EXTENDS SafetyRules, Sequences

CONSTANTS
    Nodes, Current, Children,   \* the hierarchy: all nodes, the selected one, its children
    Decisions,                  \* safety decisions that events may be bound to
    MaxEvents                   \* bound on admitted events

UserStatusAssumption ==
    /\ Current \in Nodes /\ Children \subseteq Nodes \ {Current}
    /\ MaxEvents \in Nat
    /\ \A s \in Decisions : GuardianContract(s.guardian) /\ SafetyContract(s)

VARIABLES
    events,   \* admitted status events in order
    shown     \* the last projection: None, Raised or what was projected

vars == <<events, shown>>

Modes == {"PROGRESS", "DETAIL", "RISK", "APPROVAL", "SECURITY"}
EventTypes == {"PROGRESS", "RISK", "APPROVAL", "SECURITY"}
SafetyTypes == {"RISK", "APPROVAL", "SECURITY"}
ModePriority ==
    [m \in Modes |-> CASE m \in {"PROGRESS", "DETAIL"} -> 0 [] m = "RISK" -> 1
                       [] m = "APPROVAL" -> 2 [] m = "SECURITY" -> 3]

(* Reason codes with an explanation in both glossaries.                    *)
Glossary ==
    {"UNKNOWN_OPERATION", "SYSTEM_HIGH_IMPACT_EFFECT", "READ_ONLY_WORKSPACE_EFFECT",
     "REVERSIBLE_WORKSPACE_MUTATION", "GUARDIAN_HIGH_IMPACT_EFFECT", "SYSTEM_CONSTRAINT_MISMATCH",
     "SYSTEM_GUARDIAN_RISK_MISMATCH", "CROSS_PROJECT_TARGET", "EVIDENCE_TAMPERING",
     "IRREVERSIBLE_DESTRUCTION", "PATH_ESCAPE", "SECRET_EXFILTRATION", "WORKSPACE_GATEWAY_BYPASS"}

Range(s) == {s[i] : i \in 1..Len(s)}
Base == {Current} \cup Children

(* _effective_mode: the most severe of what was asked for and what happened. *)
EffectiveMode(requested, seen) ==
    LET candidates == {requested} \cup {e.type : e \in {x \in Range(seen) : x.type # "PROGRESS"}}
        top == {m \in candidates : \A n \in candidates : ModePriority[n] <= ModePriority[m]}
    IN  IF requested \in top THEN requested ELSE CHOOSE m \in top : TRUE

(* _validate_safety_binding.                                               *)
ValidSafetyBinding(mode, seen, safety, disclosure) ==
    IF mode \notin {"APPROVAL", "SECURITY"} THEN safety = None /\ disclosure = None
    ELSE LET relevant == {e \in Range(seen) : e.type = mode} IN
         /\ safety # None
         /\ relevant # {}
         /\ \A e \in relevant : e.safety = safety
         /\ ~safety.effect.secret
         /\ IF mode = "APPROVAL"
            THEN /\ safety.guardian.enforcement = "ENFORCING"
                 /\ safety.guardian.system.level = "HIGH" /\ safety.guardian.guardian # None
                 /\ safety.verdict = "APPROVAL_REQUIRED" /\ safety.pending
                 /\ disclosure # None /\ safety.disclosure = disclosure
            ELSE disclosure = None

AttentionOfMode(mode, seen) ==   \* mutant: only the events of the mode itself
    IF mode \in SafetyTypes THEN {e.node : e \in {x \in Range(seen) : x.type = mode}} ELSE {}

(* The nodes that need attention once the mode is a safety mode.           *)
Attention(mode, seen) ==
    IF mode \in SafetyTypes THEN {e.node : e \in {x \in Range(seen) : x.type \in SafetyTypes}} ELSE {}

Overrides(mode, seen) == Attention(mode, seen) \ Base

Explainable(safety) == safety # None => ReasonCodes(safety.guardian) \subseteq Glossary

(* UserStatusProjection.validate_projection.                               *)
ProjectionContract(p) ==
    /\ p.visible = Base \cup p.overrides /\ p.overrides \subseteq Nodes
    /\ p.overrides \cap Base = {}
    /\ p.mode \in {"PROGRESS", "DETAIL"} => p.overrides = {} /\ p.safety = None
    /\ p.mode \in {"APPROVAL", "SECURITY"} => p.safety # None
    /\ IF p.mode = "APPROVAL" THEN p.disclosure # None /\ p.disclosure = p.safety.disclosure
                              ELSE p.disclosure = None

Projectable(requested, seen, safety, disclosure) ==
    /\ ValidSafetyBinding(EffectiveMode(requested, seen), seen, safety, disclosure)
    /\ Explainable(safety)

Projection(requested, seen, safety, disclosure) ==
    LET mode == EffectiveMode(requested, seen) IN
    [mode |-> mode, overrides |-> Overrides(mode, seen),
     visible |-> Base \cup Overrides(mode, seen),
     safety |-> safety, disclosure |-> disclosure, upto |-> Len(seen)]

--------------------------------------------------------------------------------
Init == events = <<>> /\ shown = None

(* An event is admitted elsewhere; approval and security events carry the  *)
(* digests of the decision they are about.                                 *)
AdmitEvent(type, node, safety) ==
    /\ Len(events) < MaxEvents
    /\ (safety # None) <=> (type \in {"APPROVAL", "SECURITY"})
    /\ type = "APPROVAL" => safety.pending
    /\ type = "SECURITY" => safety.verdict # "ALLOW"
    /\ events' = Append(events, [type |-> type, node |-> node, safety |-> safety])
    /\ UNCHANGED shown

ProjectUserStatus(requested, safety, disclosure) ==
    /\ shown' = IF Projectable(requested, events, safety, disclosure)
                THEN Projection(requested, events, safety, disclosure) ELSE Raised
    /\ UNCHANGED events

Disclosures == {s.disclosure : s \in Decisions} \cup {None}

Next ==
    \/ \E type \in EventTypes, node \in Nodes, safety \in Decisions \cup {None} :
          AdmitEvent(type, node, safety)
    \/ \E requested \in Modes, safety \in Decisions \cup {None}, disclosure \in Disclosures :
          ProjectUserStatus(requested, safety, disclosure)

Spec == Init /\ [][Next]_vars

--------------------------------------------------------------------------------
(* Properties.                                                             *)

Shown == shown \notin {None, Raised}

(* A projection shows every node with a risk, approval or security event,  *)
(* at any depth, and is never less severe than what happened: a security   *)
(* incident hides no pending approval and an approval no risk.             *)
NothingHidden ==
    Shown => \A i \in 1..shown.upto :
        events[i].type \in SafetyTypes =>
            /\ events[i].node \in shown.visible
            /\ ModePriority[shown.mode] >= ModePriority[events[i].type]

(* What the projector builds passes the contract its readers validate.     *)
ProjectionsValid == Shown => ProjectionContract(shown)

(* A user asked to approve is shown the disclosure of the very effect every *)
(* pending approval event is about, and no security incident is open.      *)
ApprovalIsExact ==
    Shown /\ shown.mode = "APPROVAL" =>
        \A i \in 1..shown.upto :
            /\ events[i].type # "SECURITY"
            /\ events[i].type = "APPROVAL" =>
                  /\ events[i].safety = shown.safety
                  /\ shown.disclosure = events[i].safety.disclosure

(* Safety events remain visible: whatever was admitted, there are arguments *)
(* for which the projector answers (user_status.py: "All safety            *)
(* descendants remain visible").                                           *)
AlwaysProjectable ==
    \E requested \in Modes, safety \in Decisions \cup {None}, disclosure \in Disclosures :
        Projectable(requested, events, safety, disclosure)
================================================================================
