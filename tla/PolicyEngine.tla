----------------------------- MODULE PolicyEngine -----------------------------
(***************************************************************************)
(* The deterministic safety boundary as pure operators: PolicyEngine       *)
(* .evaluate, determine_escalation and the role permissions.               *)
(*                                                                         *)
(* Amounts are in thousands of rupees, scores and ceilings in percent.     *)
(* Ratios stay fractions, [part, of], so that nothing is rounded.          *)
(***************************************************************************)
EXTENDS Integers

CONSTANT Rules  \* the configured PolicyRules

SafeWorkflows == {"no_action", "human_escalation"}
ExecutingActions == {"enhanced_monitoring", "manual_review",
                     "step_up_verification", "temporary_defensive_rule"}
ResponseActions == SafeWorkflows \cup ExecutingActions

AnalystActions == ResponseActions \ {"temporary_defensive_rule"}
RoleActions ==
    [analyst      |-> AnalystActions,
     lead_analyst |-> ResponseActions,
     admin        |-> ResponseActions \cup {"promote_policy", "rollback_policy"}]

IsActionAllowed(role, action) == role \in DOMAIN RoleActions /\ action \in RoleActions[role]

Percent == 0..100
Ratio == [part: Nat, of: Nat \ {0}]
Exceeds(r, percent) == r.part * 100 > percent * r.of
AtLeast(r, percent) == r.part * 100 >= percent * r.of

\* An action rule without a ceiling of its own has 0 there
ActionRule == [outcome: {"allow", "require_approval"}, value: Nat, breadth: Percent]
Limits == [value: Nat \ {0}, breadth: 1..100, grounding: Percent, confidence: Percent,
           highImpact: Nat \ {0}, lowGrounding: Percent, broad: 1..100, novelty: Percent]

\* infrastructure/policies.yaml
SafetyV2 ==
    LET approval == [outcome |-> "require_approval", value |-> 0, breadth |-> 0]
    IN  [limits |->
            [value |-> 100, breadth |-> 25, grounding |-> 70, confidence |-> 60,
             highImpact |-> 500, lowGrounding |-> 50, broad |-> 15, novelty |-> 80],
         actions |->
            [a \in RoleActions.admin |->
                CASE a = "no_action" -> [approval EXCEPT !.outcome = "allow"]
                  [] a = "temporary_defensive_rule" ->
                        [approval EXCEPT !.value = 50, !.breadth = 10]
                  [] OTHER -> approval]]

ASSUME RulesAssumption ==
    /\ Rules.limits \in Limits
    /\ \A a \in DOMAIN Rules.actions : Rules.actions[a] \in ActionRule

NoRole == "none"
PolicyContext ==
    [value: Nat, exposure: Nat, breadth: Ratio, grounding: Percent,
     confidence: Percent, novelty: Ratio, role: DOMAIN RoleActions \cup {NoRole}]

-----------------------------------------------------------------------------

DetermineEscalation(c, limits) ==
    IF \/ c.exposure >= limits.highImpact
       \/ c.grounding < limits.lowGrounding
       \/ AtLeast(c.novelty, limits.novelty)
    THEN "escalate"
    ELSE IF c.confidence < 100 \/ AtLeast(c.breadth, limits.broad)
         THEN "require_approval" ELSE "auto_handle"

Escalation(c) == DetermineEscalation(c, Rules.limits)

MaxEscalation(e, f) ==
    IF "escalate" \in {e, f} THEN "escalate"
    ELSE IF "require_approval" \in {e, f} THEN "require_approval" ELSE "auto_handle"

\* A rule's own ceiling can only lower the global one
Ceiling(global, own) == IF own # 0 /\ own < global THEN own ELSE global

Deny(rule, escalation) ==
    [decision |-> "deny", rule |-> rule, escalation |-> escalation]

Evaluate(action, c) ==
    LET rule == Rules.actions[action]
        escalation == Escalation(c)
    IN  IF action \notin DOMAIN Rules.actions
        THEN Deny("unknown_action", escalation)
        ELSE IF c.role # NoRole /\ ~ IsActionAllowed(c.role, action)
        THEN Deny("role_action_mismatch", "escalate")
        ELSE IF action \in SafeWorkflows
        THEN [decision |-> rule.outcome, rule |-> "safe_workflow",
              escalation |-> IF action = "human_escalation" THEN "escalate" ELSE escalation]
        ELSE IF c.grounding < Rules.limits.grounding
        THEN Deny("grounding_score_floor", "escalate")
        ELSE IF c.value > Ceiling(Rules.limits.value, rule.value)
        THEN Deny("legitimate_value_ceiling", "escalate")
        ELSE IF Exceeds(c.breadth, Ceiling(Rules.limits.breadth, rule.breadth))
        THEN Deny("segment_breadth_ceiling", "escalate")
        ELSE IF c.confidence < Rules.limits.confidence
        THEN [decision |-> "require_approval", rule |-> "confidence_score_floor",
              escalation |-> MaxEscalation(escalation, "require_approval")]
        ELSE [decision |-> rule.outcome, rule |-> "allowlist",
              escalation |-> IF rule.outcome = "require_approval"
                             THEN "require_approval" ELSE escalation]
=============================================================================
