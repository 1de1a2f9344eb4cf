-------------------------- MODULE InvestigationProofs --------------------------
(***************************************************************************)
(* What Investigation guarantees for every setting, any number of claims   *)
(* and of calls of other investigations, and any threshold of the breakers;*)
(* the ceilings of the gate are those of the shipped rules.                *)
(***************************************************************************)
EXTENDS Investigation, FiniteSetTheorems, TLAPS

-----------------------------------------------------------------------------
(* The gate: what the pure operators of PolicyEngine and DeterministicEvidence promise    *)
(* for every rule file, every context and every set of facts.                            *)

Escalations == {"auto_handle", "require_approval", "escalate"}
PolicyDecision ==
    [decision: {"allow", "require_approval", "deny"},
     rule: {"unknown_action", "role_action_mismatch", "safe_workflow", "grounding_score_floor",
            "legitimate_value_ceiling", "segment_breadth_ceiling", "confidence_score_floor",
            "allowlist"},
     escalation: Escalations]

(* Whatever it is asked, the engine answers with a decision. *)
LEMMA DecisionType ==
    ASSUME NEW action, NEW c
    PROVE  Evaluate(action, c) \in PolicyDecision
<1>1. Escalation(c) \in Escalations
  BY DEF Escalation, DetermineEscalation, Escalations
<1>2. MaxEscalation(Escalation(c), "require_approval") \in Escalations
  BY DEF MaxEscalation, Escalations
<1>3. CASE action \notin DOMAIN Rules.actions
  BY <1>1, <1>3 DEF Evaluate, Deny, PolicyDecision, Escalations
<1>4. CASE action \in DOMAIN Rules.actions
  <2>1. Rules.actions[action].outcome \in {"allow", "require_approval"}
    BY <1>4, RulesAssumption DEF ActionRule
  <2> QED
    BY <1>1, <1>2, <1>4, <2>1 DEF Evaluate, Deny, PolicyDecision, Escalations
<1> QED
  BY <1>3, <1>4

(* A rule's own ceiling never widens the global one. *)
LEMMA CeilingIsLower ==
    ASSUME NEW global \in Nat, NEW own \in Nat
    PROVE  /\ Ceiling(global, own) \in Nat /\ Ceiling(global, own) <= global
           /\ own # 0 => Ceiling(global, own) <= own
BY DEF Ceiling

(* What does not exceed a ceiling exceeds no higher one. *)
LEMMA HigherIsWeaker ==
    ASSUME NEW r, r.part \in Nat, r.of \in Nat,
           NEW p \in Nat, NEW q \in Nat, p <= q, ~ Exceeds(r, p)
    PROVE  ~ Exceeds(r, q)
<1>1. PICK n \in Nat, m \in Nat : n = r.part /\ m = r.of
  OBVIOUS
<1>2. PICK d \in Nat : q = p + d
  <2>1. q - p \in Nat /\ q = p + (q - p)
    OBVIOUS
  <2> QED
    BY <2>1
<1>3. q * m = p * m + d * m /\ d * m \in Nat /\ p * m \in Nat
  BY <1>1, <1>2
<1>4. n * 100 <= p * m
  BY <1>1, <1>3 DEF Exceeds
<1> QED
  BY <1>1, <1>3, <1>4 DEF Exceeds

(* An action with an effect that is not denied is allow-listed, permitted to the role,    *)
(* grounded above the floor and inside both ceilings, global and own; below the           *)
(* confidence floor it needs approval (policy_engine.py:82-153).                          *)
THEOREM ExecutionIsBounded ==
    ASSUME NEW action \in ExecutingActions, NEW c \in PolicyContext,
           Evaluate(action, c).decision # "deny"
    PROVE  /\ action \in DOMAIN Rules.actions
           /\ c.role # NoRole => IsActionAllowed(c.role, action)
           /\ c.grounding >= Rules.limits.grounding
           /\ c.value <= Rules.limits.value
           /\ ~ Exceeds(c.breadth, Rules.limits.breadth)
           /\ Rules.actions[action].value # 0 => c.value <= Rules.actions[action].value
           /\ Rules.actions[action].breadth # 0 =>
                 ~ Exceeds(c.breadth, Rules.actions[action].breadth)
           /\ c.confidence < Rules.limits.confidence =>
                 Evaluate(action, c).decision = "require_approval"
<1> DEFINE rule == Rules.actions[action]
<1>1. action \in DOMAIN Rules.actions
  BY DEF Evaluate, Deny
<1>2. /\ rule.value \in Nat /\ rule.breadth \in Nat
      /\ Rules.limits.value \in Nat /\ Rules.limits.breadth \in Nat
      /\ Rules.limits.grounding \in Nat
  BY <1>1, RulesAssumption DEF ActionRule, Limits, Percent
<1>3. /\ c.value \in Nat /\ c.grounding \in Nat
      /\ c.breadth.part \in Nat /\ c.breadth.of \in Nat
  BY DEF PolicyContext, Ratio, Percent
<1>4. action \notin SafeWorkflows
  BY DEF ExecutingActions, SafeWorkflows
<1>5. /\ c.role # NoRole => IsActionAllowed(c.role, action)
      /\ ~ c.grounding < Rules.limits.grounding
      /\ ~ c.value > Ceiling(Rules.limits.value, rule.value)
      /\ ~ Exceeds(c.breadth, Ceiling(Rules.limits.breadth, rule.breadth))
      /\ c.confidence < Rules.limits.confidence =>
            Evaluate(action, c).decision = "require_approval"
  BY <1>1, <1>4, Zenon DEF Evaluate, Deny
<1>6. c.value <= Rules.limits.value /\ (rule.value # 0 => c.value <= rule.value)
  BY <1>2, <1>3, <1>5 DEF Ceiling
<1>7. /\ ~ Exceeds(c.breadth, Rules.limits.breadth)
      /\ rule.breadth # 0 => ~ Exceeds(c.breadth, rule.breadth)
  <2> DEFINE both == Ceiling(Rules.limits.breadth, rule.breadth)
  <2>1. /\ both \in Nat /\ both <= Rules.limits.breadth
        /\ rule.breadth # 0 => both <= rule.breadth
    BY <1>2, CeilingIsLower
  <2> HIDE DEF both
  <2> QED
    BY <1>2, <1>3, <1>5, <2>1, HigherIsWeaker DEF both
<1>8. c.grounding >= Rules.limits.grounding
  BY <1>2, <1>3, <1>5
<1> QED
  BY <1>1, <1>5, <1>6, <1>7, <1>8, Zenon

-----------------------------------------------------------------------------
(* The evidence names one leading segment. *)
LEMMA OneLeading ==
    ASSUME NEW f
    PROVE  \E s : /\ Leading(EvidenceOf(f)) = {s}
                  /\ s.support = f.support
                  /\ s.name = IF f.segmented THEN "leading segment" ELSE "whole window"
<1> DEFINE name == IF f.segmented THEN "leading segment" ELSE "whole window"
           s == [rank |-> 1, support |-> f.support, name |-> name]
<1>1. EvidenceOf(f).segments = {s}
  BY Zenon DEF EvidenceOf
<1>2. s.rank = 1 /\ s.support = f.support /\ s.name = name
  OBVIOUS
<1> HIDE DEF s
<1>3. Leading(EvidenceOf(f)) = {s}
  BY <1>1, <1>2 DEF Leading
<1> QED
  BY <1>2, <1>3

LEMMA BreadthOfFacts ==
    ASSUME NEW f \in Fact
    PROVE  /\ Breadth(EvidenceOf(f)) \in Ratio
           /\ f.window # 0 => Breadth(EvidenceOf(f)) = [part |-> f.support, of |-> f.window]
<1>1. EvidenceOf(f).window = f.window /\ f.window \in Nat /\ f.support \in Nat
  BY DEF EvidenceOf, Fact
<1>2. PICK s : Leading(EvidenceOf(f)) = {s} /\ s.support = f.support
  BY OneLeading
<1>3. (CHOOSE t \in Leading(EvidenceOf(f)) : TRUE).support = f.support
  BY <1>2
<1> QED
  BY <1>1, <1>2, <1>3 DEF Breadth, Ratio

LEMMA ContextType ==
    ASSUME NEW f \in Fact, NEW action \in ExecutingActions
    PROVE  AuthorizationContext(action, EvidenceOf(f), CostEstimate(f), NoRole) \in PolicyContext
<1>1. action \notin SafeWorkflows
  BY DEF ExecutingActions, SafeWorkflows
<1>2. CostEstimate(f).value \in Nat /\ CostEstimate(f).exposure \in Nat
  BY DEF CostEstimate, Fact
<1>3. [part |-> 1, of |-> EvidenceOf(f).similar + 1] \in Ratio
  BY DEF EvidenceOf, Fact, Ratio
<1> DEFINE score == IF BasisValid(action, EvidenceOf(f), CostEstimate(f)) THEN 100 ELSE 0
<1>4. score \in Percent
  BY DEF Percent
<1>5. AuthorizationContext(action, EvidenceOf(f), CostEstimate(f), NoRole) =
        [value |-> CostEstimate(f).value, exposure |-> CostEstimate(f).exposure,
         breadth |-> Breadth(EvidenceOf(f)), grounding |-> score, confidence |-> score,
         novelty |-> [part |-> 1, of |-> EvidenceOf(f).similar + 1], role |-> NoRole]
  BY <1>1 DEF AuthorizationContext
<1> QED
  BY <1>2, <1>3, <1>4, <1>5, BreadthOfFacts DEF PolicyContext, NoRole

(* Any rule file with a grounding floor: an action with an effect that is not denied      *)
(* rests on an estimate of the very segment the detector reported, transaction for        *)
(* transaction, and affects no more value and no larger share of the window than the      *)
(* rules allow (evidence_grounding.py:100-262, policy_engine.py:108-136).                 *)
THEOREM PassedIsGrounded ==
    ASSUME NEW f \in Fact, NEW action \in ExecutingActions, Rules.limits.grounding > 0,
           Evaluate(action, AuthorizationContext(action, EvidenceOf(f), CostEstimate(f),
                                                 NoRole)).decision # "deny"
    PROVE  /\ f.window > 0
           /\ f.segmented => CostEstimate(f).name = "leading segment"
           /\ CostEstimate(f).count = f.support
           /\ f.value <= Rules.limits.value
           /\ f.support * 100 <= Rules.limits.breadth * f.window
<1> DEFINE c == AuthorizationContext(action, EvidenceOf(f), CostEstimate(f), NoRole)
<1>1. c \in PolicyContext
  BY ContextType
<1>2. /\ c.grounding >= Rules.limits.grounding
      /\ c.value <= Rules.limits.value
      /\ ~ Exceeds(c.breadth, Rules.limits.breadth)
  <2> HIDE DEF c
  <2> QED
    BY <1>1, ExecutionIsBounded DEF c
<1>3. action \notin SafeWorkflows
  BY DEF ExecutingActions, SafeWorkflows
<1>4. /\ c.grounding = IF BasisValid(action, EvidenceOf(f), CostEstimate(f)) THEN 100 ELSE 0
      /\ c.value = f.value /\ c.breadth = Breadth(EvidenceOf(f))
  BY <1>3 DEF AuthorizationContext, CostEstimate
<1>5. BasisValid(action, EvidenceOf(f), CostEstimate(f))
  <2>1. Rules.limits.grounding \in Nat
    BY RulesAssumption DEF Limits, Percent
  <2> QED
    BY <1>2, <1>4, <2>1
<1>6. f.window > 0
  BY <1>5 DEF BasisValid, EvidenceOf
<1>7. PICK s : /\ Leading(EvidenceOf(f)) = {s}
               /\ s.support = f.support
               /\ s.name = IF f.segmented THEN "leading segment" ELSE "whole window"
  BY OneLeading
<1>8. CostEstimate(f).count = f.support /\ (f.segmented => CostEstimate(f).name = "leading segment")
  BY <1>5, <1>7 DEF BasisValid
<1>9. f.support * 100 <= Rules.limits.breadth * f.window
  <2>1. c.breadth = [part |-> f.support, of |-> f.window]
    BY <1>4, <1>6, BreadthOfFacts DEF Fact
  <2>2. Rules.limits.breadth \in Nat
    BY RulesAssumption DEF Limits
  <2>3. f.window \in Nat /\ f.support \in Nat
    BY DEF Fact
  <2>4. PICK b \in Nat, w \in Nat, n \in Nat :
          b = Rules.limits.breadth /\ w = f.window /\ n = f.support
    BY <2>2, <2>3, Zenon
  <2> QED
    BY <1>2, <2>1, <2>4 DEF Exceeds
<1> QED
  BY <1>2, <1>4, <1>6, <1>8, <1>9

-----------------------------------------------------------------------------
(* Types *)

Stages == {"analysis", "synthesis", "alert"}
Draft == [confident: BOOLEAN, degraded: BOOLEAN, admits: BOOLEAN, provenance: SUBSET Stages]
GraphStatuses ==
    {"prepared", "observed", "evidence_retrieved", "impact_estimated", "awaiting_human_review",
     "human_review_recorded", "investigation_complete", "awaiting_outcome"}
GraphState ==
    [status: GraphStatuses, degraded: BOOLEAN, provenance: SUBSET Stages, resolving: SUBSET Claims,
     supported: SUBSET Claims, grounded: SUBSET Claims, ranked: ResponseActions \cup {None},
     misranked: BOOLEAN, recommended: ResponseActions \cup {None},
     gate: PolicyDecision \cup {None}, synthesis: Synthesis \cup {None}]

Reviewed == {"finalize", "capture_outcome", "end"}
Late == {"human_review", "finalize", "capture_outcome", "end"}

GraphType ==
    /\ next \in Nodes \cup {"none", "lost", "end"}
    /\ IF next \in {"none", "lost"} THEN state = None ELSE state \in GraphState
    /\ call # None =>
          /\ call \in [for: Purposes, tier: Tiers, flying: BOOLEAN]
          /\ call.for = "alert" => draft \in Draft

TaskType ==
    /\ setting \in Settings
    /\ started \in BOOLEAN
    /\ auto \in {"none", "prepare", "run", "persist", "failing"}
    /\ review \in {"none", "run", "persist"}

RowType ==
    /\ outputs # None => outputs \in SUBSET Stages
    /\ completed \in BOOLEAN /\ dropped \in BOOLEAN
    /\ unrecorded \in BOOLEAN /\ overtaken \in BOOLEAN

GatewayType ==
    /\ breakers \in [Tiers -> Breaker]
    /\ others \in [Tiers -> 0..MaxOthers]

-----------------------------------------------------------------------------
(* The inductive invariant *)

\* A closed breaker is below its threshold, and the calls that are still to fail would not
\* carry any breaker over the bound.
BreakersHold ==
    \A t \in Tiers :
        /\ breakers[t].state = "closed" => breakers[t].failures < Threshold
        /\ breakers[t].failures + others[t] + OwnCalls(t) <= Threshold + MaxOthers

\* Who drives the graph, and where it then stands; a request belongs to the node.
Flow ==
    /\ auto = "run" => next \in Nodes \ {"finalize", "capture_outcome"}
    /\ auto = "persist" => next \in Late
    /\ auto = "prepare" => next = "none"
    /\ review # "none" => next \in Reviewed
    /\ review = "persist" => next = "end"
    /\ call # None =>
          /\ Driving
          /\ next = IF call.for \in Repeatable THEN "finalize" ELSE call.for
          /\ call.flying => setting.keyed

\* The gate's decision on an action
GateOf(action) ==
    Evaluate(action, AuthorizationContext(action, EvidenceOf(setting.facts),
                                          CostEstimate(setting.facts), NoRole))

\* What a state before node n says of the nodes that have run.
Sound(s, n) ==
    /\ IF n \in Late THEN s.gate = GateOf(s.recommended) ELSE s.gate = None
    /\ IF n \in Late \cup {"policy_gate"}
       THEN s.recommended = s.ranked /\ s.recommended \in ResponseActions
       ELSE ~ s.misranked
    /\ s.grounded = IF n \in Late THEN Grounded(s) ELSE {}
    /\ n \in {"observe", "retrieve_evidence", "analyze_spike"} \/ setting.keyed \/ s.degraded
    /\ ~ setting.keyed => s.supported = {}
    /\ s.synthesis # None => n \in {"capture_outcome", "end"}
    /\ n \notin {"capture_outcome", "end"} => s.provenance \subseteq {"analysis"}
    /\ s.degraded <=> (\/ ~ setting.durable \/ s.provenance # {} \/ s.misranked
                       \/ s.synthesis # None /\ s.synthesis.admits)
    /\ s.synthesis # None =>
          /\ s.synthesis.degraded = s.degraded
          /\ s.synthesis.confident => ~ s.degraded
    /\ n = "end" => s.status = "awaiting_outcome"

\* The synthesis that waits for the alert text is marked like the state it will be put in.
DraftAgrees ==
    call # None /\ call.for = "alert" =>
        /\ draft.confident => ~ draft.degraded
        /\ draft.degraded <=> (\/ ~ setting.durable \/ draft.provenance # {}
                               \/ state.misranked \/ draft.admits)
        /\ draft.provenance \subseteq {"analysis", "synthesis"}
        /\ ~ setting.keyed => draft.degraded

StateAgrees == next \notin {"none", "lost"} => Sound(state, next) /\ DraftAgrees

\* What the rows say of the graph and of the tasks.
RowsAgree ==
    /\ next \notin {"none", "lost"} \/ auto # "none" => started
    /\ completed => started
    /\ next = "lost" /\ ~ started => dropped
    /\ started /\ ~ overtaken /\ (completed \/ next \in Reviewed) =>
          auto = "none"
    /\ completed /\ ~ overtaken => status = "awaiting_outcome"
    /\ started /\ auto = "none" /\ ~ dropped /\ ~ unrecorded =>
          status \in {"awaiting_human_review", "investigation_failed", "awaiting_outcome"}
    /\ status = "awaiting_human_review" => audit # {}
    /\ audit # {} /\ next # "lost" => next \in Late /\ audit = {state.gate}
    /\ status = "awaiting_outcome" => next \in {"end", "lost"}
    /\ status = "awaiting_outcome" /\ next = "end" => outputs = state.provenance

GraphInv == GraphType /\ TaskType /\ RowType /\ Flow /\ StateAgrees /\ RowsAgree
GatewayInv == GatewayType /\ BreakersHold
IInv == GraphInv /\ GatewayInv

-----------------------------------------------------------------------------
(* Initial states *)

LEMMA Initially == Init => IInv
<1> SUFFICES ASSUME Init PROVE IInv
  OBVIOUS
<1>1. GraphType /\ TaskType /\ RowType /\ Flow /\ StateAgrees /\ RowsAgree
  BY DEF Init, GraphType, TaskType, GraphStatuses, RowType, Flow, StateAgrees, RowsAgree
<1>2. GatewayType /\ BreakersHold
  BY GatewayAssumption
     DEF Init, GatewayInit, GatewayType, BreakersHold, Breaker, Fresh, Tiers, OwnCalls
<1> QED
  BY <1>1, <1>2 DEF IInv, GraphInv, GatewayInv

-----------------------------------------------------------------------------
(* The end of a node *)

\* What no step of the graph touches
Kept == UNCHANGED <<setting, started, status, outputs, audit, completed, dropped, unrecorded,
                    overtaken>>

\* A node that is run has a state before it, and its incident is not done.
LEMMA Running ==
    ASSUME GraphInv, Driving, next \in Nodes
    PROVE  /\ state \in GraphState /\ Sound(state, next) /\ DraftAgrees
           /\ started /\ status # "awaiting_outcome" /\ next \notin {"none", "lost", "end"}
           /\ \/ auto = "run" /\ review = "none" /\ next \notin Reviewed
              \/ auto # "run" /\ review = "run" /\ next \in {"finalize", "capture_outcome"}
<1>1. next \notin {"none", "lost", "end"}
  BY DEF Nodes, Purposes, Requested, Repeatable
<1> QED
  BY <1>1 DEF GraphInv, GraphType, TaskType, Flow, StateAgrees, RowsAgree, Driving, Reviewed

\* The node's update is not checkpointed: the graph stays where it was.
LEMMA NodeFails ==
    ASSUME GraphInv, Driving, next \in Nodes, Kept, Raise, call' = None, draft' = None,
           UNCHANGED <<state, next>>
    PROVE  GraphInv'
<1>1. GraphType' /\ TaskType' /\ RowType'
  BY DEF GraphInv, GraphType, TaskType, RowType, Kept, Raise
<1>2. Flow'
  BY Running DEF GraphInv, TaskType, Flow, Raise, Late, Reviewed
<1>3. StateAgrees'
  BY DEF GraphInv, StateAgrees, Sound, DraftAgrees, Grounded, GateOf, Kept
<1>4. RowsAgree'
  BY Running DEF GraphInv, TaskType, RowsAgree, Kept, Raise, Reviewed
<1> QED
  BY <1>1, <1>2, <1>3, <1>4 DEF GraphInv

\* The node's update is sound and the next node follows it.
LEMMA NodeEnds ==
    ASSUME GraphInv, Driving, next \in Nodes, Kept,
           NEW update \in GraphState, NEW following \in Nodes \cup {"end"},
           EndNode(update, following), Sound(update, following),
           auto = "run" => following \notin Reviewed,
           review = "run" => following \in Reviewed,
           next \in Late => following \in Late /\ update.gate = state.gate
    PROVE  GraphInv'
<1>1. CASE Raise /\ UNCHANGED <<state, next>>
  BY <1>1, NodeFails DEF EndNode
<1>2. CASE state' = update /\ next' = following /\ UNCHANGED <<auto, review>>
  <2>1. call' = None /\ draft' = None
    BY DEF EndNode
  <2>2. following \notin {"none", "lost"}
    BY DEF Nodes, Purposes, Requested, Repeatable
  <2>3. GraphType' /\ TaskType' /\ RowType'
    BY <1>2, <2>1, <2>2 DEF GraphInv, GraphType, TaskType, RowType, Kept
  <2>4. Flow'
    BY <1>2, <2>1, <2>2, Running DEF GraphInv, TaskType, Flow, Reviewed
  <2>5. StateAgrees'
    BY <1>2, <2>1 DEF StateAgrees, Sound, DraftAgrees, Grounded, GateOf, Kept
  <2>6. RowsAgree'
    BY <1>2, <2>2, Running DEF GraphInv, RowsAgree, Kept, Reviewed
  <2> QED
    BY <2>3, <2>4, <2>5, <2>6 DEF GraphInv
<1> QED
  BY <1>1, <1>2 DEF EndNode

\* Told only adds to the provenance and degrades.
LEMMA ToldAgrees ==
    ASSUME state \in GraphState, call \in [for: Purposes, tier: Tiers, flying: BOOLEAN],
           NEW answer
    PROVE  /\ Told(answer) \in GraphState
           /\ \/ answer = Requested[call.for] /\ Told(answer) = state
              \/ /\ answer # Requested[call.for] /\ Told(answer).degraded
                 /\ Told(answer).provenance = state.provenance \cup {Stage(call.for)}
           /\ Told(answer) = [state EXCEPT !.degraded = Told(answer).degraded,
                                           !.provenance = Told(answer).provenance]
<1>1. Stage(call.for) \in Stages
  BY DEF Stage, Stages, Repeatable
<1> QED
  BY <1>1 DEF Told, GraphState

-----------------------------------------------------------------------------
(* The nodes *)

LEMMA Asked ==
    ASSUME GraphInv, call # None
    PROVE  /\ Driving /\ next \in Nodes
           /\ call \in [for: Purposes, tier: Tiers, flying: BOOLEAN]
           /\ next = IF call.for \in Repeatable THEN "finalize" ELSE call.for
           /\ call.for = "alert" => draft \in Draft
           /\ Requested[call.for] \in Tiers /\ Requested[call.for] # Template
<1>1. /\ call \in [for: Purposes, tier: Tiers, flying: BOOLEAN]
      /\ call.for = "alert" => draft \in Draft
  BY DEF GraphInv, GraphType
<1>2. Driving /\ next = IF call.for \in Repeatable THEN "finalize" ELSE call.for
  BY DEF GraphInv, Flow
<1>3. Requested[call.for] \in Tiers /\ Template \notin Tiers
  BY <1>1 DEF Purposes, Requested, Tiers, Template
<1>4. next \in Nodes
  BY <1>1, <1>2 DEF Nodes
<1> QED
  BY <1>1, <1>2, <1>3, <1>4

\* What a request of a node before the gate leaves behind: all but two fields are as
\* they were.
LEMMA Analysed ==
    ASSUME GraphInv, call # None, next \notin Late, NEW answer,
           setting.keyed \/ answer = Template
    PROVE  /\ Told(answer) \in GraphState
           /\ \A field \in {"status", "resolving", "supported", "grounded", "ranked",
                            "misranked", "recommended", "gate", "synthesis"} :
                 Told(answer)[field] = state[field]
           /\ Told(answer).provenance \subseteq {"analysis"}
           /\ Told(answer).degraded <=>
                 (~ setting.durable \/ Told(answer).provenance # {} \/ state.misranked)
           /\ setting.keyed \/ Told(answer).degraded
           /\ next # "policy_gate" => ~ state.misranked
           /\ state.gate = None /\ state.grounded = {} /\ state.synthesis = None
           /\ ~ setting.keyed => state.supported = {}
<1>1. state \in GraphState /\ Sound(state, next)
  BY Asked, Running
<1>2. /\ call \in [for: Purposes, tier: Tiers, flying: BOOLEAN]
      /\ Requested[call.for] # Template /\ call.for \notin Repeatable
  BY Asked DEF Late
<1>3. state.gate = None /\ state.grounded = {} /\ state.synthesis = None
  BY <1>1 DEF Sound, Late
<1>4. /\ next # "policy_gate" => ~ state.misranked
      /\ state.provenance \subseteq {"analysis"}
      /\ state.degraded <=> (~ setting.durable \/ state.provenance # {} \/ state.misranked)
      /\ ~ setting.keyed => state.supported = {}
  BY <1>1, <1>3 DEF Sound, Late
<1>5. CASE Told(answer) = state /\ answer = Requested[call.for]
  BY <1>1, <1>2, <1>3, <1>4, <1>5
<1>6. CASE answer # Requested[call.for]
  <2>1. Told(answer) = [state EXCEPT !.degraded = TRUE,
                                     !.provenance = state.provenance \cup {"analysis"}]
    BY <1>2, <1>6 DEF Told, Stage
  <2>2. /\ Told(answer).degraded
        /\ Told(answer).provenance = state.provenance \cup {"analysis"}
    BY <1>1, <2>1 DEF GraphState
  <2>3. \A field \in {"status", "resolving", "supported", "grounded", "ranked",
                      "misranked", "recommended", "gate", "synthesis"} :
           Told(answer)[field] = state[field]
    BY <1>1, <2>1 DEF GraphState
  <2>4. Told(answer) \in GraphState
    BY <1>1, <1>2, ToldAgrees
  <2>5. Told(answer).provenance # {} /\ Told(answer).provenance \subseteq {"analysis"}
    BY <1>4, <2>2
  <2> QED
    BY <1>3, <1>4, <2>2, <2>3, <2>4, <2>5
<1> QED
  BY <1>1, <1>2, <1>5, <1>6, ToldAgrees

LEMMA SpikeAnalysed ==
    ASSUME GraphInv, Driving, call # None, Kept, NEW answer,
           setting.keyed \/ answer = Template,
           AnalyzeSpike(answer) \/ DiscoverSegment(answer)
    PROVE  GraphInv'
<1>1. PICK following \in {"discover_segment", "investigate_root_cause"} :
        EndNode(Told(answer), following)
  BY DEF AnalyzeSpike, DiscoverSegment
<1>2. next \in {"analyze_spike", "discover_segment"}
  BY Asked DEF AnalyzeSpike, DiscoverSegment, Repeatable
<1>3. next \notin Late /\ next \in Nodes
  BY <1>2, Asked DEF Late
<1>4. Sound(Told(answer), following)
  BY <1>1, <1>2, <1>3, Analysed DEF Sound, Late
<1>5. Told(answer) \in GraphState /\ following \in Nodes
  BY <1>1, <1>3, Analysed DEF Nodes, Purposes, Requested, Repeatable
<1>6. auto = "run" /\ review # "run" /\ following \notin Reviewed
  BY <1>1, <1>2, <1>3, Running DEF Reviewed
<1> QED
  BY <1>1, <1>3, <1>4, <1>5, <1>6, NodeEnds

LEMMA RootCauseInvestigated ==
    ASSUME GraphInv, Driving, call # None, Kept, NEW answer,
           setting.keyed \/ answer = Template, InvestigateRootCause(answer)
    PROVE  GraphInv'
<1>1. PICK resolving \in SUBSET Claims :
        EndNode([Told(answer) EXCEPT !.resolving = resolving], "verify_evidence")
  BY DEF InvestigateRootCause
<1> DEFINE update == [Told(answer) EXCEPT !.resolving = resolving]
<1>2. next = "investigate_root_cause" /\ next \in Nodes /\ next \notin Late
  BY Asked DEF InvestigateRootCause, Repeatable, Late
<1>3. update \in GraphState
  BY <1>2, Analysed DEF GraphState
<1>4. \A field \in {"degraded", "provenance", "supported", "grounded", "misranked", "gate",
                    "synthesis"} : update[field] = Told(answer)[field]
  BY <1>2, Analysed DEF GraphState
<1> HIDE DEF update
<1>5. Sound(update, "verify_evidence")
  BY <1>2, <1>4, Analysed DEF Sound, Late
<1>6. auto = "run" /\ review # "run" /\ "verify_evidence" \notin Reviewed
  BY <1>2, Running DEF Reviewed
<1>7. "verify_evidence" \in Nodes
  BY DEF Nodes, Purposes, Requested, Repeatable
<1>8. EndNode(update, "verify_evidence")
  BY <1>1 DEF update
<1> QED
  BY <1>2, <1>3, <1>5, <1>6, <1>7, <1>8, NodeEnds

\* Without a model nothing is approved.
LEMMA EvidenceVerified ==
    ASSUME GraphInv, Driving, call # None, Kept, NEW answer,
           setting.keyed \/ answer = Template, VerifyEvidence(answer)
    PROVE  GraphInv'
<1>1. PICK approved \in Approvals(answer) :
        EndNode([Told(answer) EXCEPT !.supported = approved \cap state.resolving],
                "estimate_impact")
  BY DEF VerifyEvidence
<1> DEFINE update == [Told(answer) EXCEPT !.supported = approved \cap state.resolving]
<1>2. next = "verify_evidence" /\ next \in Nodes /\ next \notin Late
  BY Asked DEF VerifyEvidence, Repeatable, Late
<1>3. approved \subseteq Claims /\ (~ setting.keyed => approved = {})
  BY DEF Approvals
<1>4. update \in GraphState
  BY <1>2, <1>3, Analysed DEF GraphState
<1>5. /\ \A field \in {"degraded", "provenance", "grounded", "misranked", "gate",
                       "synthesis"} : update[field] = Told(answer)[field]
      /\ update.supported = approved \cap state.resolving
  BY <1>2, Analysed DEF GraphState
<1> HIDE DEF update
<1>6. Sound(update, "estimate_impact")
  BY <1>2, <1>3, <1>5, Analysed DEF Sound, Late
<1>7. auto = "run" /\ review # "run" /\ "estimate_impact" \notin Reviewed
  BY <1>2, Running DEF Reviewed
<1>8. "estimate_impact" \in Nodes
  BY DEF Nodes
<1>9. EndNode(update, "estimate_impact")
  BY <1>1 DEF update
<1> QED
  BY <1>2, <1>4, <1>6, <1>7, <1>8, <1>9, NodeEnds

LEMMA ResponsesEvaluated ==
    ASSUME GraphInv, Driving, call # None, Kept, NEW answer,
           setting.keyed \/ answer = Template, EvaluateResponses(answer)
    PROVE  GraphInv'
<1> DEFINE misranked == setting.production = None
           Update(proposed) ==
              [Told(answer) EXCEPT
                  !.ranked = ProductionFirst, !.misranked = misranked,
                  !.recommended = Recommend(ProductionFirst, proposed),
                  !.degraded = Told(answer).degraded \/ misranked]
<1>1. PICK proposed \in ResponseActions : EndNode(Update(proposed), "policy_gate")
  BY DEF EvaluateResponses
<1> DEFINE update == Update(proposed)
<1>2. next = "evaluate_responses" /\ next \in Nodes /\ next \notin Late
  BY Asked DEF EvaluateResponses, Repeatable, Late
<1>3. ProductionFirst \in ResponseActions
  <2>1. setting.production \in ResponseActions \cup {None}
    BY SettingsAssumption DEF GraphInv, TaskType
  <2> QED
    BY <2>1 DEF ProductionFirst, ResponseActions, SafeWorkflows
<1>4. /\ state \in GraphState /\ Told(answer) \in GraphState
      /\ state.misranked \in BOOLEAN /\ Told(answer).degraded \in BOOLEAN
  BY <1>2, Asked, Running, Analysed DEF GraphState
<1>5. update \in GraphState
  <2>1. ASSUME NEW ranked \in ResponseActions, NEW broken \in BOOLEAN, NEW marked \in BOOLEAN
        PROVE  [Told(answer) EXCEPT !.ranked = ranked, !.misranked = broken,
                                    !.recommended = ranked, !.degraded = marked]
               \in GraphState
    BY <1>4 DEF GraphState
  <2>2. misranked \in BOOLEAN /\ (Told(answer).degraded \/ misranked) \in BOOLEAN
    BY <1>4
  <2> HIDE DEF misranked
  <2> QED
    BY <1>3, <2>1, <2>2 DEF Recommend
<1>6. /\ \A field \in {"provenance", "supported", "grounded", "gate", "synthesis"} :
            update[field] = Told(answer)[field]
      /\ update.recommended = ProductionFirst /\ update.ranked = ProductionFirst
      /\ update.misranked = misranked
      /\ update.degraded = (Told(answer).degraded \/ misranked)
  BY <1>4 DEF GraphState, Recommend
<1>7. EndNode(update, "policy_gate")
  BY <1>1
<1>8. ~ state.misranked
  BY <1>2, Analysed
<1> HIDE DEF update
<1>9. Sound(update, "policy_gate")
  BY <1>2, <1>3, <1>6, <1>8, Analysed DEF Sound, Late
<1>10. auto = "run" /\ review # "run" /\ "policy_gate" \notin Reviewed /\ "policy_gate" \in Nodes
  BY <1>2, Running DEF Reviewed, Nodes
<1> QED
  BY <1>2, <1>5, <1>7, <1>9, <1>10, NodeEnds

\* The gate keeps what it decided and what it found grounded.
LEMMA Gated ==
    ASSUME GraphInv, Driving, Kept, PolicyGate
    PROVE  GraphInv'
<1> DEFINE update == [state EXCEPT !.grounded = Grounded(state),
                                   !.gate = GateOf(state.recommended),
                                   !.status = "awaiting_human_review"]
<1>1. EndNode(update, "human_review")
  BY DEF PolicyGate, GateOf
<1>2. next = "policy_gate" /\ next \in Nodes /\ next \notin Late
  BY DEF PolicyGate, Nodes, Late
<1>3. state \in GraphState /\ Sound(state, next)
  BY <1>2, Running
<1>4. GateOf(state.recommended) \in PolicyDecision
  BY DecisionType DEF GateOf
<1>5. Grounded(state) \subseteq Claims
  BY <1>3 DEF Grounded, GraphState
<1>6. update \in GraphState
  <2>1. ASSUME NEW grounded \in SUBSET Claims, NEW gate \in PolicyDecision
        PROVE  [state EXCEPT !.grounded = grounded, !.gate = gate,
                             !.status = "awaiting_human_review"] \in GraphState
    BY <1>3 DEF GraphState, GraphStatuses
  <2> QED
    BY <1>4, <1>5, <2>1
<1>7. /\ \A field \in {"degraded", "provenance", "resolving", "supported", "ranked",
                       "misranked", "recommended", "synthesis"} : update[field] = state[field]
      /\ update.grounded = Grounded(state) /\ update.gate = GateOf(state.recommended)
  BY <1>3 DEF GraphState
<1> HIDE DEF update
<1>8. Grounded(update) = Grounded(state)
  BY <1>7 DEF Grounded
<1>9. Sound(update, "human_review")
  BY <1>2, <1>3, <1>7, <1>8 DEF Sound, Late
<1>10. auto = "run" /\ review # "run" /\ "human_review" \notin Reviewed /\ "human_review" \in Nodes
  BY <1>2, Running DEF Reviewed, Nodes
<1> QED
  BY <1>1, <1>2, <1>6, <1>9, <1>10, NodeEnds

LEMMA PlainEnds ==
    ASSUME GraphInv, Driving, Kept, PlainNode
    PROVE  GraphInv'
<1> DEFINE update == [state EXCEPT !.status = Plain[next].status]
<1>1. /\ next \in {"observe", "retrieve_evidence", "estimate_impact", "capture_outcome"}
      /\ EndNode(update, Plain[next].to)
  BY DEF PlainNode, Plain
<1>2. next \in Nodes
  BY <1>1 DEF Nodes
<1>3. state \in GraphState /\ Sound(state, next)
  BY <1>2, Running
<1>4. /\ update \in GraphState
      /\ \A field \in {"degraded", "provenance", "resolving", "supported", "grounded", "ranked",
                       "misranked", "recommended", "gate", "synthesis"} :
            update[field] = state[field]
  <2>1. Plain[next].status \in {"observed", "evidence_retrieved", "impact_estimated",
                                 "awaiting_outcome"}
    BY <1>1 DEF Plain
  <2> QED
    BY <1>3, <2>1 DEF GraphState, GraphStatuses
<1>5. Grounded(update) = Grounded(state)
  BY <1>4 DEF Grounded
<1>6. next = "capture_outcome" => update.status = "awaiting_outcome" /\ Plain[next].to = "end"
  BY <1>3 DEF GraphState, Plain
<1>7. next # "capture_outcome" =>
        /\ Plain[next].to \in {"retrieve_evidence", "analyze_spike", "evaluate_responses"}
        /\ next = "estimate_impact" <=> Plain[next].to = "evaluate_responses"
  BY <1>1 DEF Plain
<1>8. Sound(update, Plain[next].to)
  <2> HIDE DEF update
  <2> QED
    BY <1>1, <1>3, <1>4, <1>5, <1>6, <1>7 DEF Sound, Late
<1>9. Plain[next].to \in Nodes \cup {"end"}
  BY <1>1 DEF Plain, Nodes, Purposes, Requested, Repeatable
<1>10. /\ auto = "run" => Plain[next].to \notin Reviewed
       /\ review = "run" => Plain[next].to \in Reviewed
       /\ next \in Late => Plain[next].to \in Late /\ update.gate = state.gate
  BY <1>1, <1>2, <1>4, <1>6, <1>7, Running DEF Reviewed, Late
<1> QED
  BY <1>1, <1>2, <1>4, <1>8, <1>9, <1>10, NodeEnds

\* The first request of finalize leaves a draft that is marked like the state.
LEMMA Synthesized ==
    ASSUME GraphInv, Driving, call # None, Kept, NEW answer, Synthesize(answer)
    PROVE  GraphInv'
<1>1. PICK confident \in BOOLEAN, admits \in BOOLEAN :
        draft' = [confident |-> confident /\ ~ (Told(answer).degraded \/ admits),
                  degraded |-> Told(answer).degraded \/ admits, admits |-> admits,
                  provenance |-> Told(answer).provenance]
  BY DEF Synthesize
<1>2. /\ next = "finalize" /\ next \in Nodes /\ call.for = "synthesis"
      /\ call' = [for |-> "alert", tier |-> "economy", flying |-> FALSE]
      /\ UNCHANGED <<next, state, auto, review>>
  BY Asked DEF Synthesize, Requested, Repeatable
<1>3. /\ state \in GraphState /\ Sound(state, "finalize")
      /\ state.degraded \in BOOLEAN /\ state.synthesis = None
  BY <1>2, Running DEF GraphState, Sound
<1>4. /\ Told(answer).degraded \in BOOLEAN /\ Told(answer).provenance \in SUBSET Stages
      /\ \/ Told(answer) = state
         \/ Told(answer).degraded
            /\ Told(answer).provenance = state.provenance \cup {"synthesis"}
  BY <1>2, <1>3, Asked, ToldAgrees DEF GraphState, Stage, Repeatable
<1>5. draft' \in Draft
  BY <1>1, <1>4 DEF Draft
<1>6. /\ draft'.confident => ~ draft'.degraded
      /\ draft'.degraded <=> (\/ ~ setting.durable \/ draft'.provenance # {}
                              \/ state.misranked \/ draft'.admits)
      /\ draft'.provenance \subseteq {"analysis", "synthesis"}
      /\ ~ setting.keyed => draft'.degraded
  <2>1. /\ draft'.degraded = (Told(answer).degraded \/ draft'.admits)
        /\ draft'.confident => ~ draft'.degraded
        /\ draft'.provenance = Told(answer).provenance
        /\ draft'.admits \in BOOLEAN
    BY <1>1
  <2>2. /\ state.degraded <=> (~ setting.durable \/ state.provenance # {} \/ state.misranked)
        /\ state.provenance \subseteq {"analysis"}
        /\ setting.keyed \/ state.degraded
    BY <1>3 DEF Sound
  <2>3. draft'.provenance \subseteq {"analysis", "synthesis"}
    BY <1>4, <2>1, <2>2
  <2>4. CASE Told(answer) = state
    <3>1. /\ draft'.degraded = (state.degraded \/ draft'.admits)
          /\ draft'.provenance = state.provenance
      BY <2>1, <2>4
    <3>2. ~ setting.keyed => draft'.degraded
      BY <2>2, <3>1
    <3>3. draft'.degraded <=> (\/ ~ setting.durable \/ draft'.provenance # {}
                               \/ state.misranked \/ draft'.admits)
      BY <2>2, <3>1, Zenon
    <3> QED
      BY <2>1, <2>3, <3>2, <3>3
  <2>5. CASE /\ Told(answer).degraded
             /\ Told(answer).provenance = state.provenance \cup {"synthesis"}
    <3>1. draft'.degraded /\ ~ draft'.confident /\ draft'.provenance # {}
      BY <2>1, <2>5
    <3> QED
      BY <2>3, <3>1
  <2> QED
    BY <1>4, <2>4, <2>5
<1>7. GraphType'
  BY <1>2, <1>3, <1>5 DEF GraphInv, GraphType, Purposes, Requested, Tiers
<1>8. TaskType' /\ RowType'
  BY <1>2 DEF GraphInv, TaskType, RowType, Kept
<1>9. Flow'
  BY <1>2 DEF GraphInv, Flow, Driving, Repeatable
<1>10. StateAgrees'
  BY <1>2, <1>3, <1>6 DEF StateAgrees, Sound, DraftAgrees, Grounded, GateOf, Kept
<1>11. RowsAgree'
  BY <1>2 DEF GraphInv, RowsAgree, Kept
<1> QED
  BY <1>7, <1>8, <1>9, <1>10, <1>11 DEF GraphInv

\* The second request completes the synthesis with the draft's marks and its own.
LEMMA Explained ==
    ASSUME GraphInv, Driving, call # None, Kept, NEW answer, Explain(answer)
    PROVE  GraphInv'
<1> DEFINE degraded == draft.degraded \/ answer # "economy"
           provenance == draft.provenance \cup (Told(answer).provenance \cap {"alert"})
           synthesis == [confident |-> draft.confident /\ ~ degraded, degraded |-> degraded,
                         admits |-> draft.admits]
           update == [state EXCEPT !.synthesis = synthesis, !.provenance = provenance,
                                   !.degraded = degraded, !.status = "investigation_complete"]
<1>1. EndNode(update, "capture_outcome") /\ call.for = "alert"
  BY DEF Explain, Requested
<1>2. next = "finalize" /\ next \in Nodes /\ draft \in Draft
  BY <1>1, Asked DEF Repeatable
<1>3. state \in GraphState /\ Sound(state, "finalize") /\ DraftAgrees
  BY <1>2, Running
<1>4. /\ Told(answer).provenance \in SUBSET Stages
      /\ \/ Told(answer) = state /\ answer = "economy"
         \/ /\ answer # "economy"
            /\ Told(answer).provenance = state.provenance \cup {"alert"}
  <2>1. Requested[call.for] = "economy" /\ Stage(call.for) = "alert"
    BY <1>1 DEF Requested, Stage, Repeatable
  <2>2. Told(answer).provenance \in SUBSET Stages
    BY <1>3, Asked, ToldAgrees DEF GraphState
  <2> QED
    BY <1>3, <2>1, <2>2, Asked, ToldAgrees
<1>5. state.provenance \subseteq {"analysis"}
  BY <1>3 DEF Sound
<1>6. /\ provenance \in SUBSET Stages
      /\ answer = "economy" => provenance = draft.provenance
      /\ answer # "economy" => provenance # {}
  BY <1>2, <1>4, <1>5 DEF Draft
<1>7. synthesis \in Synthesis /\ degraded \in BOOLEAN
  BY <1>2 DEF Synthesis, Draft
<1>8. /\ degraded <=> (\/ ~ setting.durable \/ provenance # {} \/ state.misranked
                       \/ synthesis.admits)
      /\ synthesis.degraded = degraded
      /\ synthesis.confident => ~ degraded
      /\ ~ setting.keyed => degraded
  <2>1. /\ draft.degraded <=> (\/ ~ setting.durable \/ draft.provenance # {}
                               \/ state.misranked \/ draft.admits)
        /\ ~ setting.keyed => draft.degraded
    BY <1>1, <1>3, Asked DEF DraftAgrees
  <2> HIDE DEF provenance
  <2> QED
    BY <1>6, <2>1
<1> HIDE DEF synthesis, degraded, provenance
<1>9. /\ update \in GraphState
      /\ \A field \in {"resolving", "supported", "grounded", "ranked", "misranked",
                       "recommended", "gate"} : update[field] = state[field]
      /\ update.synthesis = synthesis /\ update.degraded = degraded
      /\ update.provenance = provenance
  BY <1>3, <1>6, <1>7 DEF GraphState, GraphStatuses
<1> HIDE DEF update
<1>10. Grounded(update) = Grounded(state)
  BY <1>9 DEF Grounded
<1>11. synthesis # None
  BY <1>7, SettingsAssumption
<1>12. Sound(update, "capture_outcome")
  BY <1>3, <1>8, <1>9, <1>10, <1>11 DEF Sound, Late
<1>13. auto # "run" /\ "capture_outcome" \in Reviewed /\ "capture_outcome" \in Late
       /\ "capture_outcome" \in Nodes /\ update.gate = state.gate
  BY <1>2, <1>9, Running DEF Reviewed, Late, Nodes
<1> QED
  BY <1>1, <1>2, <1>9, <1>12, <1>13, NodeEnds

LEMMA Answered ==
    ASSUME GraphInv, call # None, Kept, NEW answer,
           setting.keyed \/ answer = Template, Answer(answer)
    PROVE  GraphInv' /\ (call' # None => ~ call'.flying)
<1>1. GraphInv'
  BY Asked, SpikeAnalysed, RootCauseInvestigated, EvidenceVerified, ResponsesEvaluated,
     Synthesized, Explained DEF Answer
<1>2. call' = None \/ call' = [for |-> "alert", tier |-> Requested["alert"], flying |-> FALSE]
  BY DEF Answer, AnalyzeSpike, DiscoverSegment, InvestigateRootCause, VerifyEvidence,
         EvaluateResponses, Synthesize, Explain, EndNode
<1> QED
  BY <1>1, <1>2

-----------------------------------------------------------------------------
(* The breakers *)

LEMMA OwnIsOne ==
    ASSUME NEW t
    PROVE  /\ OwnCalls(t) \in {0, 1} /\ OwnCalls(t)' \in {0, 1}
           /\ ~ (call # None /\ call.flying) => OwnCalls(t) = 0
           /\ ~ (call' # None /\ call'.flying) => OwnCalls(t)' = 0
           /\ call # None /\ call.flying /\ call.tier = t => OwnCalls(t) = 1
BY DEF OwnCalls

\* The followed call is over, or not yet made, and the breakers are as they were.
LEMMA CallRests ==
    ASSUME GatewayInv, UNCHANGED <<breakers, others>>, call' # None => ~ call'.flying
    PROVE  GatewayInv'
<1>1. GatewayType'
  BY DEF GatewayInv, GatewayType
<1>2. ASSUME NEW t \in Tiers
      PROVE  /\ breakers'[t].state = "closed" => breakers'[t].failures < Threshold
             /\ breakers'[t].failures + others'[t] + OwnCalls(t)' <= Threshold + MaxOthers
  <2>1. breakers[t] \in Breaker /\ others[t] \in 0..MaxOthers
    BY DEF GatewayInv, GatewayType
  <2> QED
    BY <2>1, OwnIsOne, GatewayAssumption DEF GatewayInv, BreakersHold, Breaker
<1> QED
  BY <1>1, <1>2 DEF GatewayInv, BreakersHold

\* A tier's breaker counts a call that has ended badly, or forgets after one that has not.
LEMMA BreakerMarks ==
    ASSUME GatewayInv, NEW t \in Tiers,
           breakers' = MarkSuccess(t) \/ breakers' = MarkFailure(t),
           \/ /\ others[t] > 0 /\ others' = [others EXCEPT ![t] = @ - 1]
              /\ call' = call
           \/ /\ call # None /\ call.flying /\ call.tier = t
              /\ call' # None => ~ call'.flying
              /\ others' = others
    PROVE  GatewayInv'
<1>1. /\ breakers[t] \in Breaker /\ others \in [Tiers -> 0..MaxOthers]
      /\ breakers \in [Tiers -> Breaker]
  BY DEF GatewayInv, GatewayType
<1>2. \A s \in Tiers : s # t => breakers'[s] = breakers[s]
  BY <1>1 DEF MarkSuccess, MarkFailure
<1>3. \/ breakers'[t] = Fresh
      \/ /\ breakers'[t].failures = breakers[t].failures + 1
         /\ breakers'[t].state = IF breakers[t].failures + 1 >= Threshold THEN "open"
                                 ELSE breakers[t].state
  BY <1>1 DEF MarkSuccess, MarkFailure
<1>4. others' \in [Tiers -> 0..MaxOthers]
  <2>1. others[t] > 0 => others[t] - 1 \in 0..MaxOthers
    BY <1>1, GatewayAssumption
  <2> QED
    BY <1>1, <2>1
<1>5. breakers' \in [Tiers -> Breaker]
  <2>1. CASE breakers' = MarkSuccess(t)
    BY <1>1, <2>1 DEF MarkSuccess, Fresh, Breaker
  <2>2. CASE breakers' = MarkFailure(t)
    <3>1. [failures |-> breakers[t].failures + 1,
           state |-> IF breakers[t].failures + 1 >= Threshold THEN "open"
                     ELSE breakers[t].state] \in Breaker
      BY <1>1 DEF Breaker
    <3> QED
      BY <1>1, <2>2, <3>1 DEF MarkFailure
  <2> QED
    BY <2>1, <2>2
<1>6. others'[t] + OwnCalls(t)' + 1 <= others[t] + OwnCalls(t)
  BY <1>1, <1>4, OwnIsOne, GatewayAssumption DEF OwnCalls
<1>7. ASSUME NEW s \in Tiers, s # t
      PROVE  others'[s] = others[s] /\ OwnCalls(s)' <= OwnCalls(s)
  <2>1. others'[s] = others[s]
    BY <1>1, <1>7
  <2> QED
    BY <1>7, <2>1, OwnIsOne DEF OwnCalls
<1>8. ASSUME NEW s \in Tiers
      PROVE  /\ breakers'[s].state = "closed" => breakers'[s].failures < Threshold
             /\ breakers'[s].failures + others'[s] + OwnCalls(s)' <= Threshold + MaxOthers
  <2>1. /\ breakers[s].state = "closed" => breakers[s].failures < Threshold
        /\ breakers[s].failures + others[s] + OwnCalls(s) <= Threshold + MaxOthers
        /\ breakers[s].failures \in Nat /\ others[s] \in 0..MaxOthers
        /\ others'[s] \in 0..MaxOthers
        /\ OwnCalls(s) \in {0, 1} /\ OwnCalls(s)' \in {0, 1}
    BY <1>1, <1>4, OwnIsOne DEF GatewayInv, BreakersHold, Breaker
  <2>2. CASE s # t
    BY <1>2, <1>7, <2>1, <2>2, GatewayAssumption
  <2>3. CASE s = t /\ breakers'[t] = Fresh
    BY <2>1, <2>3, GatewayAssumption DEF Fresh
  <2>4. CASE s = t /\ breakers'[t] # Fresh
    BY <1>3, <1>6, <2>1, <2>4, GatewayAssumption
  <2> QED
    BY <2>2, <2>3, <2>4
<1> QED
  BY <1>4, <1>5, <1>8 DEF GatewayInv, GatewayType, BreakersHold

\* A call is admitted: the followed one or one of another investigation.
LEMMA CallAdmitted ==
    ASSUME GatewayInv, NEW t \in Tiers, Allows(t), breakers' = Polled(t),
           \/ /\ others[t] < MaxOthers /\ others' = [others EXCEPT ![t] = @ + 1]
              /\ call' = call
           \/ /\ call # None => ~ call.flying
              /\ call'.tier = t /\ others' = others
    PROVE  GatewayInv'
<1>1. /\ breakers \in [Tiers -> Breaker] /\ others \in [Tiers -> 0..MaxOthers]
      /\ breakers[t] \in Breaker /\ others[t] \in 0..MaxOthers
  BY DEF GatewayInv, GatewayType
<1>2. /\ \A s \in Tiers : s # t => breakers'[s] = breakers[s]
      /\ breakers'[t] = IF breakers[t].state = "expired" THEN Fresh ELSE breakers[t]
  BY <1>1 DEF Polled
<1>3. breakers'[t].failures < Threshold /\ breakers'[t] \in Breaker
  BY <1>1, <1>2, GatewayAssumption DEF Allows, GatewayInv, BreakersHold, Breaker, Fresh
<1>4. breakers' \in [Tiers -> Breaker]
  BY <1>1, <1>2, <1>3 DEF Polled
<1>5. others' \in [Tiers -> 0..MaxOthers]
  <2>1. others[t] < MaxOthers => others[t] + 1 \in 0..MaxOthers
    BY <1>1, GatewayAssumption
  <2> QED
    BY <1>1, <2>1
<1>6. ASSUME NEW s \in Tiers, s # t
      PROVE  others'[s] = others[s] /\ OwnCalls(s)' <= OwnCalls(s)
  <2>1. others'[s] = others[s]
    BY <1>1, <1>6
  <2> QED
    BY <1>6, <2>1, OwnIsOne DEF OwnCalls
<1>7. ASSUME NEW s \in Tiers
      PROVE  /\ breakers'[s].state = "closed" => breakers'[s].failures < Threshold
             /\ breakers'[s].failures + others'[s] + OwnCalls(s)' <= Threshold + MaxOthers
  <2>1. /\ breakers[s].state = "closed" => breakers[s].failures < Threshold
        /\ breakers[s].failures + others[s] + OwnCalls(s) <= Threshold + MaxOthers
        /\ breakers[s].failures \in Nat /\ others[s] \in 0..MaxOthers
        /\ others'[s] \in 0..MaxOthers
        /\ OwnCalls(s) \in {0, 1} /\ OwnCalls(s)' \in {0, 1}
    BY <1>1, <1>5, OwnIsOne DEF GatewayInv, BreakersHold, Breaker
  <2>2. CASE s # t
    BY <1>2, <1>6, <2>1, <2>2, GatewayAssumption
  <2>3. CASE s = t
    <3>1. breakers'[s].failures \in Nat
      BY <1>3, <2>3 DEF Breaker
    <3> QED
      BY <1>3, <2>1, <2>3, <3>1, GatewayAssumption
  <2> QED
    BY <2>2, <2>3
<1> QED
  BY <1>4, <1>5, <1>7 DEF GatewayInv, GatewayType, BreakersHold

LEMMA BreakerElapses ==
    ASSUME GatewayInv, NEW t \in Tiers, Elapse(t), call' = call
    PROVE  GatewayInv'
<1>1. breakers \in [Tiers -> Breaker] /\ others' = others
  BY DEF GatewayInv, GatewayType, Elapse
<1>2. breakers' = [breakers EXCEPT ![t] = [breakers[t] EXCEPT !.state = "expired"]]
  BY DEF Elapse
<1>3. [breakers[t] EXCEPT !.state = "expired"] \in Breaker
  BY <1>1 DEF Breaker
<1>4. breakers' \in [Tiers -> Breaker]
  BY <1>1, <1>2, <1>3
<1>5. \A s \in Tiers : /\ breakers'[s].failures = breakers[s].failures
                       /\ breakers'[s].state = "closed" => breakers[s].state = "closed"
                       /\ OwnCalls(s)' = OwnCalls(s)
  BY <1>1, <1>2 DEF OwnCalls, Breaker
<1> QED
  BY <1>1, <1>4, <1>5 DEF GatewayInv, GatewayType, BreakersHold

LEMMA RestartedHolds ==
    ASSUME GatewayRestarts, call' = None
    PROVE  GatewayInv'
BY GatewayAssumption
   DEF GatewayRestarts, GatewayInv, GatewayType, BreakersHold, Breaker, Fresh, OwnCalls

-----------------------------------------------------------------------------
(* The steps of generate *)

LEMMA AskHolds == ASSUME IInv, Ask PROVE IInv'
<1>1. PICK purpose \in Purposes \ {"alert"} :
        /\ call' = [for |-> purpose, tier |-> Requested[purpose], flying |-> FALSE]
        /\ next = IF purpose \in Repeatable THEN "finalize" ELSE purpose
  BY DEF Ask, Purposes, Requested, Repeatable
<1>2. /\ UNCHANGED <<setting, tasks, next, state, draft, rows, history>>
      /\ UNCHANGED <<breakers, others>> /\ Driving
  BY DEF Ask, gateway
<1>3. call' # None => /\ call' \in [for: Purposes, tier: Tiers, flying: BOOLEAN]
                      /\ call'.for # "alert" /\ ~ call'.flying
                      /\ next = IF call'.for \in Repeatable THEN "finalize" ELSE call'.for
  <2>1. Requested[purpose] \in Tiers
    BY DEF Purposes, Requested, Tiers
  <2> QED
    BY <1>1, <2>1
<1>4. GraphType' /\ TaskType' /\ RowType'
  BY <1>2, <1>3 DEF IInv, GraphInv, GraphType, TaskType, RowType, tasks, rows, history
<1>5. Flow'
  BY <1>2, <1>3 DEF IInv, GraphInv, Flow, Driving, tasks
<1>6. StateAgrees' /\ RowsAgree'
  BY <1>2, <1>3 DEF IInv, GraphInv, StateAgrees, Sound, DraftAgrees, Grounded, GateOf, RowsAgree,
     tasks, rows, history
<1> QED
  BY <1>2, <1>3, <1>4, <1>5, <1>6, CallRests DEF IInv, GraphInv

\* The request goes on to the next tier, or the template answers it.
LEMMA Turned ==
    ASSUME GraphInv, call # None, Kept, Turn
    PROVE  GraphInv' /\ (call' # None => ~ call'.flying)
<1>1. CASE Answer(Template)
  BY <1>1, Answered
<1>2. CASE /\ After[call.tier] # Template
           /\ call' = [call EXCEPT !.tier = After[call.tier], !.flying = FALSE]
           /\ UNCHANGED <<next, state, draft, auto, review>>
  <2>1. call \in [for: Purposes, tier: Tiers, flying: BOOLEAN]
    BY Asked
  <2>2. After[call.tier] \in Tiers
    BY <1>2, <2>1 DEF After, Tiers
  <2>3. /\ call' \in [for: Purposes, tier: Tiers, flying: BOOLEAN]
        /\ call'.for = call.for /\ ~ call'.flying
    BY <1>2, <2>1, <2>2
  <2>4. GraphType' /\ TaskType' /\ RowType'
    BY <1>2, <2>3 DEF GraphInv, GraphType, TaskType, RowType, Kept
  <2>5. Flow'
    BY <1>2, <2>3 DEF GraphInv, Flow, Driving
  <2>6. StateAgrees' /\ RowsAgree'
    BY <1>2, <2>3 DEF GraphInv, StateAgrees, Sound, DraftAgrees, Grounded, GateOf, RowsAgree, Kept
  <2> QED
    BY <2>3, <2>4, <2>5, <2>6 DEF GraphInv
<1> QED
  BY <1>1, <1>2 DEF Turn

LEMMA CallHolds ==
    ASSUME IInv, NoKey \/ CacheHit \/ Admit \/ Refuse \/ Succeed \/ FailCall
    PROVE  IInv'
<1>1. call # None /\ Driving /\ call \in [for: Purposes, tier: Tiers, flying: BOOLEAN]
  BY Asked DEF IInv, NoKey, CacheHit, Admit, Refuse, Succeed, FailCall, Asking, Awaiting
<1>2. CASE NoKey
  <2>1. Kept /\ Answer(Template) /\ UNCHANGED <<breakers, others>>
    BY <1>2 DEF NoKey, Kept, rows, history
  <2> QED
    BY <1>1, <2>1, Answered, CallRests DEF IInv
<1>3. CASE CacheHit
  <2>1. Kept /\ Answer(call.tier) /\ setting.keyed /\ UNCHANGED <<breakers, others>>
    BY <1>3 DEF CacheHit, Kept, rows, history
  <2> QED
    BY <1>1, <2>1, Answered, CallRests DEF IInv
<1>4. CASE Admit
  <2>1. /\ UNCHANGED <<setting, tasks, next, state, draft, rows, history, others>>
        /\ call' = [call EXCEPT !.flying = TRUE]
        /\ Allows(call.tier) /\ breakers' = Polled(call.tier)
        /\ setting.keyed /\ ~ call.flying
    BY <1>4 DEF Admit, Asking
  <2>2. /\ call' \in [for: Purposes, tier: Tiers, flying: BOOLEAN]
        /\ call'.for = call.for /\ call'.tier = call.tier
    BY <1>1, <2>1
  <2>3. GraphType' /\ TaskType' /\ RowType'
    BY <2>1, <2>2, <1>1 DEF IInv, GraphInv, GraphType, TaskType, RowType, tasks, rows, history
  <2>4. Flow'
    BY <1>1, <2>1, <2>2 DEF IInv, GraphInv, Flow, Driving, tasks
  <2>5. StateAgrees' /\ RowsAgree'
    BY <1>1, <2>1, <2>2 DEF IInv, GraphInv, StateAgrees, Sound, DraftAgrees, Grounded, GateOf,
       RowsAgree, tasks, rows, history
  <2>6. GatewayInv'
    BY <1>1, <2>1, <2>2, CallAdmitted DEF IInv
  <2> QED
    BY <2>3, <2>4, <2>5, <2>6 DEF IInv, GraphInv
<1>5. CASE Refuse
  <2>1. Kept /\ Turn /\ UNCHANGED <<breakers, others>>
    BY <1>5 DEF Refuse, Kept, rows, history
  <2> QED
    BY <1>1, <2>1, Turned, CallRests DEF IInv
<1>6. CASE Succeed
  <2>1. /\ Kept /\ Answer(call.tier) /\ breakers' = MarkSuccess(call.tier) /\ others' = others
        /\ call.flying
    BY <1>6 DEF Succeed, Awaiting, Kept, rows, history
  <2>2. setting.keyed
    BY <1>1, <2>1 DEF IInv, GraphInv, Flow
  <2>3. GraphInv' /\ (call' # None => ~ call'.flying)
    BY <1>1, <2>1, <2>2, Answered DEF IInv
  <2> QED
    BY <1>1, <2>1, <2>3, BreakerMarks DEF IInv
<1>7. CASE FailCall
  <2>1. /\ Kept /\ Turn /\ breakers' = MarkFailure(call.tier) /\ others' = others
        /\ call.flying
    BY <1>7 DEF FailCall, Awaiting, Kept, rows, history
  <2>2. GraphInv' /\ (call' # None => ~ call'.flying)
    BY <1>1, <2>1, Turned DEF IInv
  <2> QED
    BY <1>1, <2>1, <2>2, BreakerMarks DEF IInv
<1> QED
  BY <1>2, <1>3, <1>4, <1>5, <1>6, <1>7

LEMMA PlainHolds == ASSUME IInv, PlainStep PROVE IInv'
<1>1. /\ Driving /\ Kept /\ UNCHANGED <<breakers, others>>
      /\ PlainNode \/ PolicyGate
  BY DEF PlainStep, Kept, rows, history, gateway
<1>2. call' = None
  BY <1>1 DEF PlainNode, PolicyGate, EndNode
<1> QED
  BY <1>1, <1>2, PlainEnds, Gated, CallRests DEF IInv

-----------------------------------------------------------------------------
(* The steps of the service *)

LEMMA GatewayRests ==
    ASSUME GatewayInv, UNCHANGED <<breakers, others, call>>
    PROVE  GatewayInv'
BY DEF GatewayInv, GatewayType, BreakersHold, OwnCalls

LEMMA ScheduleHolds == ASSUME IInv, Schedule PROVE IInv'
<1>1. /\ ~ started /\ ~ dropped /\ started' = TRUE /\ auto' = "prepare"
      /\ UNCHANGED <<setting, review, next, state, call, draft, status, outputs, audit,
                     completed, dropped, unrecorded, overtaken, breakers, others>>
  BY DEF Schedule, graph, rows, history, gateway
<1>2. next = "none" /\ auto = "none" /\ ~ completed
  BY <1>1 DEF IInv, GraphInv, RowsAgree
<1>3. review = "none" /\ call = None
  BY <1>2 DEF IInv, GraphInv, TaskType, Flow, Driving, Reviewed
<1>4. GraphType' /\ TaskType' /\ RowType' /\ Flow' /\ StateAgrees'
  BY <1>1, <1>2, <1>3 DEF IInv, GraphInv, GraphType, TaskType, RowType, Flow, StateAgrees
<1>5. RowsAgree'
  BY <1>1, <1>2 DEF IInv, GraphInv, RowsAgree, Reviewed
<1> QED
  BY <1>1, <1>4, <1>5, GatewayRests DEF IInv, GraphInv

LEMMA PrepareHolds == ASSUME IInv, Prepare PROVE IInv'
<1>1. /\ auto = "prepare" /\ next = "none" /\ started
      /\ UNCHANGED <<setting, started, review, call, draft, outputs, audit, completed, dropped,
                     unrecorded, overtaken, breakers, others>>
  BY DEF Prepare, IInv, GraphInv, Flow, RowsAgree, history, gateway
<1>2. review = "none" /\ call = None
  BY <1>1 DEF IInv, GraphInv, TaskType, Flow, Driving, Reviewed
<1>3. audit = {} /\ status # "awaiting_outcome" /\ (completed => overtaken)
  BY <1>1 DEF IInv, GraphInv, RowsAgree, Late
<1>4. CASE /\ status' = "investigating" /\ auto' = "run"
           /\ state' = Prepared /\ next' = "observe"
  <2>1. Prepared \in GraphState /\ Sound(Prepared, "observe")
    <3>1. Prepared \in GraphState
      BY DEF Prepared, GraphState, GraphStatuses, Stages
    <3> QED
      BY <3>1 DEF Prepared, Sound, Late
  <2>2. GraphType' /\ TaskType' /\ RowType'
    BY <1>1, <1>2, <1>4, <2>1 DEF IInv, GraphInv, GraphType, TaskType, RowType, Nodes
  <2>3. Flow'
    BY <1>1, <1>2, <1>4 DEF Flow, Nodes
  <2>4. StateAgrees'
    BY <1>1, <1>2, <1>4, <2>1 DEF StateAgrees, Sound, DraftAgrees, Grounded, GateOf
  <2>5. RowsAgree'
    BY <1>1, <1>3, <1>4 DEF IInv, GraphInv, RowsAgree, Reviewed
  <2> QED
    BY <1>1, <2>2, <2>3, <2>4, <2>5, GatewayRests DEF IInv, GraphInv
<1>5. CASE auto' = "failing" /\ UNCHANGED <<status, state, next>>
  <2>1. GraphType' /\ TaskType' /\ RowType' /\ Flow' /\ StateAgrees'
    BY <1>1, <1>2, <1>5 DEF IInv, GraphInv, GraphType, TaskType, RowType, Flow, StateAgrees
  <2>2. RowsAgree'
    BY <1>1, <1>3, <1>5 DEF IInv, GraphInv, RowsAgree, Reviewed
  <2> QED
    BY <1>1, <2>1, <2>2, GatewayRests DEF IInv, GraphInv
<1> QED
  BY <1>4, <1>5 DEF Prepare

LEMMA ReturnHolds == ASSUME IInv, Return PROVE IInv'
<1>1. /\ call = None
      /\ UNCHANGED <<setting, started, next, state, call, draft, status, outputs, audit,
                     completed, dropped, unrecorded, overtaken, breakers, others>>
      /\ \/ next = "human_review" /\ auto = "run" /\ auto' = "persist" /\ review' = review
         \/ next = "end" /\ review = "run" /\ review' = "persist" /\ auto' = auto
  BY DEF Return, graph, rows, history, gateway
<1>2. GraphType' /\ TaskType' /\ RowType' /\ Flow'
  BY <1>1 DEF IInv, GraphInv, GraphType, TaskType, RowType, Flow, Late, Reviewed
<1>3. StateAgrees'
  BY <1>1 DEF IInv, GraphInv, StateAgrees, Sound, DraftAgrees, Grounded, GateOf
<1>4. RowsAgree'
  BY <1>1 DEF IInv, GraphInv, RowsAgree, Reviewed
<1> QED
  BY <1>1, <1>2, <1>3, <1>4, GatewayRests DEF IInv, GraphInv

\* Who persists is not in the graph, so no node is running beside an automatic persist
\* unless a review drives it.
LEMMA PersistHolds == ASSUME IInv, PersistAuto \/ PersistReview PROVE IInv'
<1>1. /\ UNCHANGED <<setting, started, next, state, call, draft, dropped, unrecorded,
                     overtaken, breakers, others>>
  BY DEF PersistAuto, PersistReview, graph, history, gateway
<1>2. next \in Late /\ started /\ next \notin {"none", "lost"}
  BY DEF PersistAuto, PersistReview, IInv, GraphInv, Flow, RowsAgree, Late
<1>3. state \in GraphState /\ Sound(state, next)
  BY <1>2 DEF IInv, GraphInv, GraphType, StateAgrees
<1>4. StateAgrees'
  BY <1>1 DEF IInv, GraphInv, StateAgrees, Sound, DraftAgrees, Grounded, GateOf
<1>5. audit \subseteq {state.gate}
  BY <1>2 DEF IInv, GraphInv, RowsAgree
<1>6. CASE PersistAuto
  <2>1. /\ auto = "persist" /\ review' = review /\ completed' = completed
        /\ \/ /\ status' = "awaiting_human_review" /\ auto' = "none"
              /\ outputs' \in SUBSET Stages /\ audit' = {state.gate}
           \/ auto' = "failing" /\ UNCHANGED <<status, outputs, audit>>
    <3>1. outputs # None => outputs \in SUBSET Stages
      BY DEF IInv, GraphInv, RowType
    <3>2. state.provenance \in SUBSET Stages
      BY <1>3 DEF GraphState
    <3> QED
      BY <1>5, <1>6, <3>1, <3>2 DEF PersistAuto, Upsert, rows, history
  <2>2. call # None => review = "run"
    BY <2>1 DEF IInv, GraphInv, Flow, Driving
  <2>3. GraphType' /\ TaskType' /\ RowType'
    BY <1>1, <2>1 DEF IInv, GraphInv, GraphType, TaskType, RowType
  <2>4. Flow'
    BY <1>1, <2>1, <2>2 DEF IInv, GraphInv, Flow, Driving, Late
  <2>5. RowsAgree'
    BY <1>1, <1>2, <2>1 DEF IInv, GraphInv, RowsAgree, Reviewed
  <2> QED
    BY <1>1, <1>4, <2>3, <2>4, <2>5, GatewayRests DEF IInv, GraphInv
<1>7. CASE PersistReview
  <2>1. /\ review = "persist" /\ review' = "none" /\ auto' = auto
        /\ \/ /\ status' = state.status /\ audit' = {state.gate}
              /\ outputs' = state.provenance /\ completed' = TRUE
           \/ UNCHANGED <<status, outputs, audit, completed>>
    <3>1. outputs # None => outputs \ ({"analysis"} \cup Repeatable) = {}
      BY DEF IInv, GraphInv, RowType, Stages, Repeatable
    <3> QED
      BY <1>5, <1>7, <3>1 DEF PersistReview, Upsert, rows
  <2>2. next = "end" /\ state.status = "awaiting_outcome" /\ state.provenance \in SUBSET Stages
    BY <1>3, <2>1 DEF IInv, GraphInv, Flow, Sound, GraphState
  <2>3. call # None => auto = "run"
    BY <2>1 DEF IInv, GraphInv, Flow, Driving
  <2>4. GraphType' /\ TaskType' /\ RowType'
    BY <1>1, <2>1, <2>2 DEF IInv, GraphInv, GraphType, TaskType, RowType
  <2>5. Flow'
    BY <1>1, <2>1, <2>3 DEF IInv, GraphInv, Flow, Driving, Late
  <2>6. RowsAgree'
    BY <1>1, <1>2, <2>1, <2>2 DEF IInv, GraphInv, RowsAgree, Reviewed
  <2> QED
    BY <1>1, <1>4, <2>4, <2>5, <2>6, GatewayRests DEF IInv, GraphInv
<1> QED
  BY <1>6, <1>7

LEMMA RecordFailureHolds == ASSUME IInv, RecordFailure PROVE IInv'
<1>1. /\ auto = "failing" /\ auto' = "none" /\ started
      /\ UNCHANGED <<setting, started, review, next, state, call, draft, outputs, audit,
                     completed, dropped, overtaken, breakers, others>>
      /\ \/ status' = "investigation_failed" /\ unrecorded' = unrecorded
         \/ unrecorded' = TRUE /\ status' = status
  BY DEF RecordFailure, IInv, GraphInv, RowsAgree, graph, gateway
<1>2. completed => overtaken
  BY <1>1 DEF IInv, GraphInv, RowsAgree
<1>3. GraphType' /\ TaskType' /\ RowType' /\ Flow'
  BY <1>1 DEF IInv, GraphInv, GraphType, TaskType, RowType, Flow, Driving
<1>4. StateAgrees'
  BY <1>1 DEF IInv, GraphInv, StateAgrees, Sound, DraftAgrees, Grounded, GateOf
<1>5. RowsAgree'
  BY <1>1, <1>2 DEF IInv, GraphInv, RowsAgree
<1> QED
  BY <1>1, <1>3, <1>4, <1>5, GatewayRests DEF IInv, GraphInv

LEMMA ResumeHolds == ASSUME IInv, Resume PROVE IInv'
<1>1. /\ review = "none" /\ auto # "run" /\ review' = "run"
      /\ next = "human_review" /\ next' = "finalize"
      /\ state' = [state EXCEPT !.status = "human_review_recorded"]
      /\ overtaken' = (overtaken \/ auto # "none")
      /\ UNCHANGED <<setting, started, auto, call, draft, status, outputs, audit, completed,
                     dropped, unrecorded, breakers, others>>
  BY DEF Resume, rows, gateway
<1>2. call = None /\ auto # "prepare"
  BY <1>1 DEF IInv, GraphInv, Flow, Driving
<1>3. state \in GraphState /\ Sound(state, "human_review")
  BY <1>1 DEF IInv, GraphInv, GraphType, StateAgrees
<1>4. /\ state' \in GraphState
      /\ \A field \in {"degraded", "provenance", "resolving", "supported", "grounded", "ranked",
                       "misranked", "recommended", "gate", "synthesis"} :
            state'[field] = state[field]
  BY <1>1, <1>3 DEF GraphState, GraphStatuses
<1>5. Sound(state', "finalize")
  <2>1. Grounded(state') = Grounded(state)
    BY <1>4 DEF Grounded
  <2> QED
    BY <1>3, <1>4, <2>1 DEF Sound, Late
<1>6. GraphType' /\ TaskType' /\ RowType'
  <2>1. overtaken' \in BOOLEAN
    BY <1>1 DEF IInv, GraphInv, RowType
  <2> QED
    BY <1>1, <1>2, <1>4, <2>1 DEF IInv, GraphInv, GraphType, TaskType, RowType, Nodes
<1>7. Flow'
  BY <1>1, <1>2 DEF Flow, Late, Reviewed
<1>8. StateAgrees'
  BY <1>1, <1>2, <1>5 DEF StateAgrees, Sound, DraftAgrees, Grounded, GateOf
<1>9. RowsAgree'
  <2>1. state'.gate = state.gate
    BY <1>4
  <2> QED
    BY <1>1, <2>1 DEF IInv, GraphInv, RowsAgree, RowType, Late, Reviewed
<1> QED
  BY <1>1, <1>6, <1>7, <1>8, <1>9, GatewayRests DEF IInv, GraphInv

LEMMA ContinueHolds == ASSUME IInv, Continue PROVE IInv'
<1>1. /\ review = "none" /\ next \in Reviewed
      /\ \/ review' = "run"
         \/ review' = "persist" /\ next = "end"
      /\ UNCHANGED <<setting, started, auto, next, state, call, draft, status, outputs, audit,
                     completed, dropped, unrecorded, overtaken, breakers, others>>
  BY DEF Continue, Reviewed, graph, rows, history, gateway
<1>2. call = None
  BY <1>1 DEF IInv, GraphInv, Flow, Driving, Reviewed, Nodes, Purposes, Requested, Repeatable
<1>3. GraphType' /\ TaskType' /\ RowType' /\ Flow'
  BY <1>1, <1>2 DEF IInv, GraphInv, GraphType, TaskType, RowType, Flow
<1>4. StateAgrees' /\ RowsAgree'
  BY <1>1 DEF IInv, GraphInv, StateAgrees, Sound, DraftAgrees, Grounded, GateOf, RowsAgree
<1> QED
  BY <1>1, <1>3, <1>4, GatewayRests DEF IInv, GraphInv

LEMMA LoseHolds == ASSUME IInv, Lose PROVE IInv'
<1>1. /\ dropped' = (dropped \/ ~ started \/ auto # "none")
      /\ auto' = "none" /\ review' = "none" /\ call' = None
      /\ UNCHANGED <<setting, started, status, outputs, audit, completed, unrecorded, overtaken>>
      /\ \/ UNCHANGED <<next, state>>
         \/ next' = "lost" /\ state' = None
  BY DEF Lose, rows
<1>2. GatewayInv'
  BY <1>1, RestartedHolds DEF Lose
<1>3. GraphType' /\ TaskType' /\ RowType'
  <2>1. dropped' \in BOOLEAN
    BY <1>1 DEF IInv, GraphInv, RowType, TaskType
  <2> QED
    BY <1>1, <2>1 DEF IInv, GraphInv, GraphType, TaskType, RowType
<1>4. Flow'
  BY <1>1 DEF Flow
<1>5. StateAgrees'
  BY <1>1 DEF IInv, GraphInv, StateAgrees, Sound, DraftAgrees, Grounded, GateOf
<1>6. RowsAgree'
  BY <1>1 DEF IInv, GraphInv, RowsAgree, RowType, TaskType
<1> QED
  BY <1>2, <1>3, <1>4, <1>5, <1>6 DEF IInv, GraphInv

-----------------------------------------------------------------------------
(* Other investigations, and steps that change nothing *)

LEMMA GraphRests ==
    ASSUME GraphInv, UNCHANGED <<setting, tasks, graph, rows, history>>
    PROVE  GraphInv'
<1>1. UNCHANGED <<setting, started, auto, review, next, state, call, draft, status, outputs,
                  audit, completed, dropped, unrecorded, overtaken>>
  BY DEF tasks, graph, rows, history
<1>2. GraphType' /\ TaskType' /\ RowType' /\ Flow' /\ RowsAgree'
  BY <1>1 DEF GraphInv, GraphType, TaskType, RowType, Flow, Driving, RowsAgree
<1>3. StateAgrees'
  BY <1>1 DEF GraphInv, StateAgrees, Sound, DraftAgrees, Grounded, GateOf
<1> QED
  BY <1>2, <1>3 DEF GraphInv

LEMMA OthersHold == ASSUME IInv, Others PROVE IInv'
<1>1. PICK t \in Tiers : Elapse(t) \/ OtherCalls(t) \/ OtherSucceeds(t) \/ OtherFails(t)
  BY DEF Others
<1>2. UNCHANGED <<setting, tasks, graph, rows, history>> /\ call' = call
  BY DEF Others, graph
<1>3. GatewayInv'
  <2>1. CASE Elapse(t)
    BY <1>2, <2>1, BreakerElapses DEF IInv
  <2>2. CASE OtherCalls(t)
    BY <1>2, <2>2, CallAdmitted DEF IInv, OtherCalls
  <2>3. CASE OtherSucceeds(t)
    BY <1>2, <2>3, BreakerMarks DEF IInv, OtherSucceeds
  <2>4. CASE OtherFails(t)
    BY <1>2, <2>4, BreakerMarks DEF IInv, OtherFails
  <2> QED
    BY <1>1, <2>1, <2>2, <2>3, <2>4
<1> QED
  BY <1>2, <1>3, GraphRests DEF IInv

(* The invariant holds initially and every step keeps it. *)
THEOREM InvestigationInvariant == Spec => []IInv
<1>1. IInv /\ [Next]_vars => IInv'
  <2> SUFFICES ASSUME IInv, [Next]_vars PROVE IInv'
    OBVIOUS
  <2>1. CASE UNCHANGED vars
    <3>1. UNCHANGED <<setting, tasks, graph, rows, history>> /\ UNCHANGED <<breakers, others, call>>
      BY <2>1 DEF vars, gateway, graph
    <3> QED
      BY <3>1, GraphRests, GatewayRests DEF IInv
  <2>2. CASE Schedule \/ Prepare \/ Return \/ PersistAuto \/ PersistReview
    BY <2>2, ScheduleHolds, PrepareHolds, ReturnHolds, PersistHolds
  <2>3. CASE RecordFailure \/ Resume \/ Continue \/ Crash \/ Shutdown
    BY <2>3, RecordFailureHolds, ResumeHolds, ContinueHolds, LoseHolds DEF Crash, Shutdown
  <2>4. CASE Ask \/ NoKey \/ CacheHit \/ Admit \/ Refuse \/ Succeed \/ FailCall
    BY <2>4, AskHolds, CallHolds
  <2>5. CASE PlainStep \/ Others
    BY <2>5, PlainHolds, OthersHold
  <2> QED
    BY <2>1, <2>2, <2>3, <2>4, <2>5 DEF Next
<1> QED
  BY <1>1, Initially, PTL DEF Spec

-----------------------------------------------------------------------------
(* The properties *)

(* However the calls of any number of investigations interleave with the breakers, a tier *)
(* in trouble costs no more failures than its threshold and the calls in flight           *)
(* (gateway.py _breaker_allows, _mark_failure, _mark_success).                            *)
THEOREM BreakersBoundTrouble == Spec => []TroubleIsBounded
<1>1. IInv => TroubleIsBounded
  <2> SUFFICES ASSUME IInv, NEW t \in Tiers
               PROVE  breakers[t].failures <= Threshold + MaxOthers
    BY DEF TroubleIsBounded
  <2>1. /\ breakers[t].failures + others[t] + OwnCalls(t) <= Threshold + MaxOthers
        /\ breakers[t].failures \in Nat /\ others[t] \in 0..MaxOthers
    BY DEF IInv, GatewayInv, GatewayType, BreakersHold, Breaker
  <2> QED
    BY <2>1, OwnIsOne, GatewayAssumption
<1> QED
  BY <1>1, InvestigationInvariant, PTL

(* No wording of a model earns a claim its place among the grounded ones without evidence *)
(* that exists and a model's verdict, and with no model at all nothing is grounded and    *)
(* the analyst is told (verification_agent.py, policy_gate.py).                           *)
THEOREM GroundedIsVerified == Spec => []ClaimsAreEarned
<1>1. IInv => ClaimsAreEarned
  <2> SUFFICES ASSUME IInv, state # None PROVE ClaimsAreEarned
    BY DEF ClaimsAreEarned
  <2>1. state \in GraphState /\ Sound(state, next)
    BY DEF IInv, GraphInv, GraphType, StateAgrees
  <2>2. state.grounded \subseteq state.supported \cap state.resolving
    BY <2>1 DEF Sound, Grounded
  <2>3. ~ setting.keyed => state.grounded = {}
    BY <2>1, <2>2 DEF Sound
  <2>4. ~ setting.keyed /\ state.gate # None => state.degraded
    BY <2>1 DEF Sound, Late
  <2> QED
    BY <2>2, <2>3, <2>4 DEF ClaimsAreEarned
<1> QED
  BY <1>1, InvestigationInvariant, PTL

(* Whichever requests fall back, in whatever order tiers fail and recover, the final      *)
(* state, the synthesis and the stored outputs report it (agents/nodes, _persist).        *)
THEOREM FallbacksAreTold == Spec => []DegradationIsTold
<1>1. IInv => DegradationIsTold
  <2> SUFFICES ASSUME IInv, state # None PROVE DegradationIsTold
    BY DEF DegradationIsTold
  <2>1. Sound(state, next) /\ next \notin {"none", "lost"}
    BY DEF IInv, GraphInv, GraphType, StateAgrees
  <2>2. status = "awaiting_outcome" => outputs = state.provenance
    BY <2>1 DEF IInv, GraphInv, RowsAgree
  <2> QED
    BY <2>1, <2>2 DEF Sound, DegradationIsTold
<1> QED
  BY <1>1, InvestigationInvariant, PTL

(* Crashes, failed sessions and failed checkpoint writes at any point leave the incident  *)
(* of a started investigation with an analyst, failed or done, except where the process   *)
(* died under it or the failure could not be stored (investigation_service.py             *)
(* _run_safely, _persist).                                                                *)
THEOREM IncidentsAreSettled == Spec => []NobodyIsForgotten
<1>1. IInv => NobodyIsForgotten
  <2> SUFFICES ASSUME IInv PROVE NobodyIsForgotten
    OBVIOUS
  <2>1. status = "awaiting_human_review" /\ next # "lost" => audit = {state.gate}
    BY DEF IInv, GraphInv, RowsAgree
  <2> QED
    BY <2>1 DEF IInv, GraphInv, RowsAgree, NobodyIsForgotten
<1> QED
  BY <1>1, InvestigationInvariant, PTL

(* A recommended action with an effect that the gate lets pass is production's first      *)
(* choice and rests on an estimate of exactly the transactions the detector reported,     *)
(* inside the configured value and breadth, whatever the models wrote and whichever calls *)
(* failed (graph.py policy_gate, evidence_grounding.py, policy_engine.py).                *)
RecommendationIsGrounded ==
    /\ state # None
    /\ state.gate # None
    /\ state.recommended \in ExecutingActions
    /\ state.gate.decision # "deny"
    => LET f == setting.facts
       IN  /\ state.recommended = state.ranked
           /\ f.window > 0 /\ CostEstimate(f).count = f.support
           /\ f.value <= Rules.limits.value
           /\ f.support * 100 <= Rules.limits.breadth * f.window

THEOREM NothingPassesUngrounded ==
    ASSUME Rules.limits.grounding > 0
    PROVE  Spec => []RecommendationIsGrounded
<1>1. IInv => RecommendationIsGrounded
  <2> SUFFICES ASSUME IInv, state # None, state.gate # None,
                      state.recommended \in ExecutingActions, state.gate.decision # "deny"
               PROVE  RecommendationIsGrounded
    BY DEF RecommendationIsGrounded
  <2>1. Sound(state, next)
    BY DEF IInv, GraphInv, GraphType, StateAgrees
  <2>2. state.gate = GateOf(state.recommended) /\ state.recommended = state.ranked
    BY <2>1 DEF Sound, Late
  <2>3. setting.facts \in Fact
    BY SettingsAssumption DEF IInv, GraphInv, TaskType
  <2>4. PICK action \in ExecutingActions, f \in Fact :
          action = state.recommended /\ f = setting.facts
    BY <2>3
  <2>5. Evaluate(action, AuthorizationContext(action, EvidenceOf(f), CostEstimate(f),
                                              NoRole)).decision # "deny"
    BY <2>2, <2>4 DEF GateOf
  <2>6. /\ f.window > 0 /\ CostEstimate(f).count = f.support
        /\ f.value <= Rules.limits.value
        /\ f.support * 100 <= Rules.limits.breadth * f.window
    BY <2>5, PassedIsGrounded
  <2> QED
    BY <2>2, <2>4, <2>6 DEF RecommendationIsGrounded
<1> QED
  BY <1>1, InvestigationInvariant, PTL

-----------------------------------------------------------------------------
(* The counts of the records *)

(* A label printed for a band is read back as that band: no amount falls between two      *)
(* labels or into both, the edges included (segmentation.py, agents/tools _in_interval).  *)
LEMMA LabelIsItsBand ==
    ASSUME NEW v \in Nat, NEW b \in Bands
    PROVE  (Band(v) = b) <=> InInterval(v, Label(b))
<1> DEFINE In(i) == /\ v > Edges[i] \/ (v = Edges[1] /\ i = 1)
                    /\ i < 5 => v <= Edges[i + 1]
<1>1. /\ Edges[1] = 0 /\ Edges[2] = 500 /\ Edges[3] = 2000 /\ Edges[4] = 5000
      /\ Edges[5] = 10000
  BY DEF Edges
<1>2. /\ In(1) <=> v <= 500
      /\ In(2) <=> v > 500 /\ v <= 2000
      /\ In(3) <=> v > 2000 /\ v <= 5000
      /\ In(4) <=> v > 5000 /\ v <= 10000
      /\ In(5) <=> v > 10000
  BY <1>1
<1>3. PICK i \in Bands : In(i)
  BY <1>2 DEF Bands
<1>4. \A j \in Bands : In(j) => j = i
  BY <1>2, <1>3 DEF Bands
<1>5. Band(v) = i
  <2>1. Band(v) = CHOOSE j \in Bands : In(j)
    BY DEF Band
  <2> HIDE DEF In
  <2> QED
    BY <1>3, <1>4, <2>1
<1>6. InInterval(v, Label(b)) <=> In(b)
  <2>1. /\ Label(b).lower = IF b = 1 THEN Edges[1] - 1 ELSE Edges[b]
        /\ Label(b).upper = IF b = 5 THEN 0 ELSE Edges[b + 1]
    BY DEF Label
  <2>2. Label(b).infinite <=> b = 5
    BY DEF Label
  <2>3. b \in {1, 2, 3, 4, 5}
    BY DEF Bands
  <2> HIDE DEF In
  <2> QED
    BY <1>1, <1>2, <2>1, <2>2, <2>3 DEF InInterval
<1> QED
  BY <1>3, <1>4, <1>5, <1>6

(* What the detector counts by band and the investigation by label is the same segment:   *)
(* the records of any window differ only by what was stored after the detector looked.    *)
LEMMA CountsHangTogether ==
    ASSUME NEW seen, NEW late, DOMAIN seen \subseteq Nat, DOMAIN late \subseteq Nat,
           NEW segmented \in BOOLEAN, NEW band \in Bands, NEW value, NEW exposure, NEW similar,
           NEW f, f = FactOf(seen, late, segmented, band, value, exposure, similar)
    PROVE  IF segmented THEN f.matched = f.support + f.joined
           ELSE f.window = f.support + f.joined
<1> DEFINE amounts == DOMAIN seen \cup DOMAIN late
           cut == {v \in amounts : segmented => Band(v) = band}
           fitting == {v \in amounts : segmented => InInterval(v, Label(band))}
<1>1. \A v \in amounts : (Band(v) = band) <=> InInterval(v, Label(band))
  BY LabelIsItsBand
<1>2. cut = fitting /\ (~ segmented => cut = amounts)
  BY <1>1
<1>3. /\ f.window = Number(seen, amounts) + Number(late, amounts)
      /\ f.support = Number(seen, cut) /\ f.joined = Number(late, cut)
      /\ f.matched = Number(seen, fitting) + Number(late, fitting)
  BY DEF FactOf
<1> QED
  BY <1>2, <1>3

-----------------------------------------------------------------------------
(* The gate of the shipped rules *)

(* An action with an effect under infrastructure/policies.yaml: no rule lets it pass by   *)
(* itself, and each has the ceilings of its own entry and the global ones.                *)
LEMMA ShippedRule ==
    ASSUME Rules = SafetyV2, NEW action \in ExecutingActions
    PROVE  /\ action \in DOMAIN Rules.actions
           /\ Rules.actions[action].outcome = "require_approval"
           /\ Ceiling(Rules.limits.value, Rules.actions[action].value)
                 = IF action = "temporary_defensive_rule" THEN 50 ELSE 100
           /\ Ceiling(Rules.limits.breadth, Rules.actions[action].breadth)
                 = IF action = "temporary_defensive_rule" THEN 10 ELSE 25
           /\ Rules.limits.grounding = 70 /\ Rules.limits.confidence = 60
<1>1. /\ DOMAIN Rules.actions = RoleActions.admin
      /\ Rules.limits.value = 100 /\ Rules.limits.breadth = 25
      /\ Rules.limits.grounding = 70 /\ Rules.limits.confidence = 60
  BY DEF SafetyV2
<1>2. action \in RoleActions.admin /\ action # "no_action"
  BY DEF RoleActions, ResponseActions, ExecutingActions
<1>3. Rules.actions[action] =
        IF action = "temporary_defensive_rule"
        THEN [outcome |-> "require_approval", value |-> 50, breadth |-> 10]
        ELSE [outcome |-> "require_approval", value |-> 0, breadth |-> 0]
  <2> DEFINE approval == [outcome |-> "require_approval", value |-> 0, breadth |-> 0]
  <2>1. Rules.actions =
          [a \in RoleActions.admin |->
              CASE a = "no_action" -> [approval EXCEPT !.outcome = "allow"]
                [] a = "temporary_defensive_rule" ->
                      [approval EXCEPT !.value = 50, !.breadth = 10]
                [] OTHER -> approval]
    BY DEF SafetyV2
  <2>2. CASE action = "temporary_defensive_rule"
    <3>1. Rules.actions[action] = [approval EXCEPT !.value = 50, !.breadth = 10]
      BY <1>2, <2>1, <2>2
    <3> QED
      BY <2>2, <3>1
  <2>3. CASE action # "temporary_defensive_rule"
    <3>1. Rules.actions[action] = approval
      BY <1>2, <2>1, <2>3
    <3> QED
      BY <2>3, <3>1
  <2> QED
    BY <2>2, <2>3
<1> QED
  BY <1>1, <1>2, <1>3 DEF Ceiling

(* The basis of an action with an effect is valid exactly if nothing joined its segment.  *)
LEMMA ValidBasis ==
    ASSUME NEW f \in Fact, Consistent(f), NEW action \in ExecutingActions
    PROVE  BasisValid(action, EvidenceOf(f), CostEstimate(f)) <=> f.window > 0 /\ f.joined = 0
<1>1. PICK s : /\ Leading(EvidenceOf(f)) = {s}
               /\ s.support = f.support
               /\ s.name = IF f.segmented THEN "leading segment" ELSE "whole window"
  BY OneLeading
<1>2. Cardinality(Leading(EvidenceOf(f))) = 1
  BY <1>1, FS_Singleton
<1>3. EvidenceOf(f).window = f.window /\ EvidenceOf(f).impact = CostEstimate(f)
  BY DEF EvidenceOf
<1>4. BasisValid(action, EvidenceOf(f), CostEstimate(f)) <=>
        /\ f.window > 0 /\ f.support <= f.window
        /\ CostEstimate(f).name = s.name /\ CostEstimate(f).count = f.support
  BY <1>1, <1>2, <1>3 DEF BasisValid
<1>5. /\ f.window \in Nat /\ f.support \in Nat /\ f.matched \in Nat /\ f.joined \in Nat
      /\ f.segmented \in BOOLEAN
  BY DEF Fact
<1>6. CASE f.segmented
  <2>1. f.support >= 5 /\ f.matched = f.support + f.joined /\ f.support <= f.window
    BY <1>6 DEF Consistent
  <2>2. CostEstimate(f).name = "leading segment" /\ CostEstimate(f).count = f.matched
    BY <1>5, <1>6, <2>1 DEF CostEstimate, Uncovered
  <2>3. f.matched = f.support <=> f.joined = 0
    BY <1>5, <2>1
  <2> QED
    BY <1>1, <1>4, <1>6, <2>1, <2>2, <2>3
<1>7. CASE ~ f.segmented
  <2>1. f.window = f.support + f.joined /\ f.support <= f.window
    BY <1>7 DEF Consistent
  <2>2. CostEstimate(f).name = "whole window" /\ CostEstimate(f).count = f.window
    BY <1>7 DEF CostEstimate, Uncovered
  <2>3. f.window = f.support <=> f.joined = 0
    BY <1>5, <2>1
  <2> QED
    BY <1>1, <1>4, <1>7, <2>1, <2>2, <2>3
<1> QED
  BY <1>6, <1>7

(* What the gate decides on an action with an effect, for any facts of an incident.       *)
LEMMA ShippedGate ==
    ASSUME Rules = SafetyV2, NEW f \in Fact, Consistent(f), NEW action \in ExecutingActions,
           NEW value, value = IF action = "temporary_defensive_rule" THEN 50 ELSE 100,
           NEW breadth, breadth = IF action = "temporary_defensive_rule" THEN 10 ELSE 25,
           NEW g, g = Evaluate(action, AuthorizationContext(action, EvidenceOf(f),
                                                            CostEstimate(f), NoRole))
    PROVE  /\ g.decision # "allow"
           /\ g.decision = "require_approval" <=>
                 /\ f.window > 0 /\ f.joined = 0
                 /\ f.value <= value /\ f.support * 100 <= breadth * f.window
<1> DEFINE c == AuthorizationContext(action, EvidenceOf(f), CostEstimate(f), NoRole)
           valid == BasisValid(action, EvidenceOf(f), CostEstimate(f))
           rule == Rules.actions[action]
<1>1. action \notin SafeWorkflows
  BY DEF ExecutingActions, SafeWorkflows
<1>2. /\ c.grounding = (IF valid THEN 100 ELSE 0)
      /\ c.confidence = (IF valid THEN 100 ELSE 0)
      /\ c.value = f.value /\ c.breadth = Breadth(EvidenceOf(f)) /\ c.role = NoRole
  BY <1>1 DEF AuthorizationContext, CostEstimate
<1>3. /\ action \in DOMAIN Rules.actions /\ rule.outcome = "require_approval"
      /\ Ceiling(Rules.limits.value, rule.value) = value
      /\ Ceiling(Rules.limits.breadth, rule.breadth) = breadth
      /\ Rules.limits.grounding = 70 /\ Rules.limits.confidence = 60
  BY ShippedRule
<1>4. valid <=> f.window > 0 /\ f.joined = 0
  BY ValidBasis
<1> HIDE DEF c, valid, rule
<1>5. CASE ~ valid
  <2>1. g.decision = "deny"
    BY <1>1, <1>2, <1>3, <1>5 DEF Evaluate, Deny, c
  <2> QED
    BY <1>4, <1>5, <2>1
<1>6. CASE valid
  <2>1. c.breadth = [part |-> f.support, of |-> f.window]
    BY <1>2, <1>4, <1>6, BreadthOfFacts DEF Fact
  <2>2. Exceeds(c.breadth, breadth) <=> f.support * 100 > breadth * f.window
    BY <2>1 DEF Exceeds
  <2>3. f.value \in Nat /\ f.window \in Nat /\ f.support \in Nat /\ value \in Nat
        /\ breadth \in Nat
    BY DEF Fact
  <2>4. ~ Exceeds(c.breadth, breadth) <=> f.support * 100 <= breadth * f.window
    <3>1. f.support * 100 \in Nat /\ breadth * f.window \in Nat
      BY <2>3
    <3> QED
      BY <2>2, <3>1
  <2>5. ~ (c.value > value) <=> f.value <= value
    BY <1>2, <2>3
  <2>6. g.decision = IF c.value > value \/ Exceeds(c.breadth, breadth)
                     THEN "deny" ELSE "require_approval"
    BY <1>1, <1>2, <1>3, <1>6 DEF Evaluate, Deny, c, rule
  <2> QED
    BY <1>4, <1>6, <2>4, <2>5, <2>6
<1> QED
  BY <1>5, <1>6

(* With the shipped rules, whatever any model wrote and whichever calls failed: the gate  *)
(* never lets an action with an effect pass by itself, and offers it to an analyst        *)
(* exactly if the estimate is about the segment the detector saw and both ceilings hold   *)
(* (agents/graph.py policy_gate, build_authorization_context, evaluate).                  *)
THEOREM GateDecidesOnFacts ==
    ASSUME Rules = SafetyV2
    PROVE  Spec => []GateIsSound
<1>1. IInv => GateIsSound
  <2> SUFFICES ASSUME IInv, state # None, state.gate # None
               PROVE  GateIsSound
    BY DEF GateIsSound
  <2>1. Sound(state, next)
    BY DEF IInv, GraphInv, GraphType, StateAgrees
  <2>2. state.gate = GateOf(state.recommended) /\ state.recommended = state.ranked
    BY <2>1 DEF Sound, Late
  <2>3. setting.facts \in Fact /\ Consistent(setting.facts)
    BY SettingsAssumption DEF IInv, GraphInv, TaskType
  <2>4. CASE state.recommended \notin ExecutingActions
    BY <2>2, <2>4 DEF GateIsSound
  <2>5. CASE state.recommended \in ExecutingActions
    <3>1. PICK action \in ExecutingActions, f \in Fact :
            action = state.recommended /\ f = setting.facts
      BY <2>3, <2>5
    <3>2. PICK value, breadth :
            /\ value = IF action = "temporary_defensive_rule" THEN 50 ELSE 100
            /\ breadth = IF action = "temporary_defensive_rule" THEN 10 ELSE 25
      OBVIOUS
    <3>3. state.gate = Evaluate(action, AuthorizationContext(action, EvidenceOf(f),
                                                             CostEstimate(f), NoRole))
      BY <2>2, <3>1 DEF GateOf
    <3>4. /\ state.gate.decision # "allow"
          /\ state.gate.decision = "require_approval" <=>
                /\ f.window > 0 /\ f.joined = 0
                /\ f.value <= value /\ f.support * 100 <= breadth * f.window
      BY <2>3, <3>1, <3>2, <3>3, ShippedGate
    <3> QED
      BY <2>2, <3>1, <3>2, <3>4 DEF GateIsSound
  <2> QED
    BY <2>4, <2>5
<1> QED
  BY <1>1, InvestigationInvariant, PTL
===============================================================================
