----------------------------- MODULE Investigation -----------------------------
(***************************************************************************)
(* One incident from its detection to the end of its investigation graph:  *)
(* InvestigationService with its background task, the graph's nodes with   *)
(* their model calls, and the deterministic safety gate.                   *)
(*                                                                         *)
(* The background task runs the graph up to the human-review interrupt.    *)
(* What an analyst does then is modelled by ReviewDecision; here a review  *)
(* only resumes the graph, and continues or reconciles it after a failure. *)
(*                                                                         *)
(* What a language model writes is free: the citations of its claims, its  *)
(* verdicts, the ranking it prefers, the confidence it states.             *)
(***************************************************************************)
EXTENDS DeterministicEvidence, LLMGateway

CONSTANTS
    Claims,     \* claims of a hypothesis set
    Settings,   \* what a run of the process may find, chosen once
    None        \* absence of a value

\* The assessment an analyst reads, as far as it is about its own reliability
Synthesis == [confident: BOOLEAN, degraded: BOOLEAN, admits: BOOLEAN]

ASSUME SettingsAssumption ==
    /\ Settings \subseteq [facts: Fact, traffic: SUBSET Tiers, keyed: BOOLEAN,
                           durable: BOOLEAN, autostart: BOOLEAN,
                           production: ResponseActions \cup {None},
                           trouble: Nat]
    /\ \A s \in Settings : Consistent(s.facts)
    /\ None \notin Synthesis

VARIABLES
    setting,    \* facts of the incident, tiers other investigations use, whether an
                \* API key, a durable checkpointer and automatic start are configured,
                \* and what the active policy ranks first (None: it cannot be served);
                \* trouble bounds the crashes, failed sessions and failed checkpoint writes
    status,     \* Incident.status
    started,    \* schedule has run for the incident
    auto,       \* the background task: where investigate stands
    review,     \* a request of the review service that drives the graph
    next,       \* node the checkpoint runs next
    state,      \* the checkpointed InvestigationState
    call,       \* the gateway request of the running node
    draft,      \* the synthesis finalize holds while it asks for the alert text
    cached,     \* cached answers that may be asked for again
    outputs,    \* stages stored as provider_degraded, None before the first _persist
    audit,      \* gate decisions in the audit trail
    trouble,    \* how much of that is still to come
    completed, dropped, unrecorded, overtaken  \* history: see PersistReview, Crash,
                                               \* RecordFailure and Resume

tasks == <<started, auto, review>>
graph == <<next, state, call, draft>>
rows == <<status, outputs, audit>>
history == <<completed, dropped, unrecorded, overtaken>>
vars == <<setting, tasks, graph, rows, cached, trouble, history, gateway>>

-----------------------------------------------------------------------------
(* The graph's state and its nodes *)

\* The tier each request of a node asks for; finalize makes two requests
Requested ==
    [analyze_spike |-> "primary", discover_segment |-> "secondary",
     investigate_root_cause |-> "primary", verify_evidence |-> "secondary",
     evaluate_responses |-> "secondary", synthesis |-> "primary", alert |-> "economy"]
Purposes == DOMAIN Requested

\* A cache key holds the evidence, evidence holds the incident, and an investigation
\* is started once: only finalize, which a review may run again, can ask twice
Repeatable == {"synthesis", "alert"}

Nodes == {"observe", "retrieve_evidence", "estimate_impact", "policy_gate",
          "human_review", "finalize", "capture_outcome"} \cup (Purposes \ Repeatable)

\* Provenance tells the requests before the review apart only as a group
Stage(purpose) == IF purpose \in Repeatable THEN purpose ELSE "analysis"

\* The part of the graph's state that later steps depend on; provenance holds the
\* stages with a request that a fallback answered
Prepared ==
    [status |-> "prepared", degraded |-> ~ setting.durable, provenance |-> {},
     resolving |-> {}, supported |-> {}, grounded |-> {}, ranked |-> None,
     misranked |-> FALSE, recommended |-> None, gate |-> None, synthesis |-> None]

Trouble == trouble > 0 /\ trouble' = trouble - 1

\* Mutated form: the exception of the background task is not handled
RaiseUnhandled ==
    /\ auto' = IF auto = "run" THEN "none" ELSE auto
    /\ review' = "none"

\* ainvoke raises: the caller of the graph sees it
Raise ==
    /\ auto' = IF auto = "run" THEN "failing" ELSE auto
    /\ review' = "none"

Driving == "run" \in {auto, review}

\* The end of a node: its update is checkpointed, or that fails and ainvoke raises
EndNode(update, following) ==
    /\ call' = None /\ draft' = None
    /\ \/ /\ state' = update /\ next' = following
          /\ UNCHANGED <<auto, review, trouble>>
       \/ /\ Trouble /\ Raise
          /\ UNCHANGED <<state, next>>

\* Mutated form: a node reports its own request only
ToldOfItself(answer) ==
    IF answer = Requested[call.for] THEN [state EXCEPT !.degraded = FALSE]
    ELSE [state EXCEPT !.degraded = TRUE, !.provenance = @ \cup {Stage(call.for)}]

\* provenance and the sticky degraded flag
Told(answer) ==
    IF answer = Requested[call.for] THEN state
    ELSE [state EXCEPT !.degraded = TRUE, !.provenance = @ \cup {Stage(call.for)}]

\* LeadInvestigator.analyze and SegmentAgent: citations and the segment's name and
\* conditions are replaced by deterministic ones
AnalyzeSpike(answer) ==
    /\ call.for = "analyze_spike"
    /\ EndNode(Told(answer), "discover_segment")

DiscoverSegment(answer) ==
    /\ call.for = "discover_segment"
    /\ EndNode(Told(answer), "investigate_root_cause")

\* EvidenceAgent: a model may cite evidence that does not exist
InvestigateRootCause(answer) ==
    /\ call.for = "investigate_root_cause"
    /\ \E resolving \in SUBSET Claims :
          /\ answer = Template => resolving = Claims
          /\ EndNode([Told(answer) EXCEPT !.resolving = resolving], "verify_evidence")

\* Mutated form: without a verifier the claims that cite evidence are taken as supported
ApprovalsOpen(answer) == IF answer = Template THEN {Claims} ELSE SUBSET Claims
\* VerificationAgent: the claims that have exactly one verdict and this is "supported"
Approvals(answer) == IF answer = Template THEN {{}} ELSE SUBSET Claims

VerifyEvidence(answer) ==
    /\ call.for = "verify_evidence"
    /\ \E approved \in Approvals(answer) :
          EndNode([Told(answer) EXCEPT !.supported = approved \cap state.resolving],
                  "estimate_impact")

\* Mutated form: the model's ranking is taken over
RecommendProposed(ranked, proposed) == proposed
\* ResponseAgent: the explanations are joined to the production ranking
Recommend(ranked, proposed) == ranked

\* ShadowPolicy.score serves greedily; a production policy that is missing or broken is
\* replaced by the conservative ranking
ProductionFirst ==
    IF setting.production = None THEN "human_escalation" ELSE setting.production

\* ResponseAgent
EvaluateResponses(answer) ==
    LET misranked == setting.production = None
    IN  /\ call.for = "evaluate_responses"
        /\ \E proposed \in ResponseActions :
              /\ answer = Template => proposed = ProductionFirst
              /\ EndNode([Told(answer) EXCEPT
                             !.ranked = ProductionFirst, !.misranked = misranked,
                             !.recommended = Recommend(ProductionFirst, proposed),
                             !.degraded = @ \/ misranked],
                         "policy_gate")

\* ground_claims
Grounded(s) == s.supported \cap s.resolving

PolicyGate ==
    LET evidence == EvidenceOf(setting.facts)
        context == AuthorizationContext(state.recommended, evidence,
                                        CostEstimate(setting.facts), NoRole)
    IN  /\ next = "policy_gate"
        /\ EndNode([state EXCEPT !.grounded = Grounded(state),
                                 !.gate = Evaluate(state.recommended, context),
                                 !.status = "awaiting_human_review"],
                   "human_review")

\* The nodes without a model call
Plain ==
    [observe           |-> [to |-> "retrieve_evidence", status |-> "observed"],
     retrieve_evidence |-> [to |-> "analyze_spike", status |-> "evidence_retrieved"],
     estimate_impact   |-> [to |-> "evaluate_responses", status |-> "impact_estimated"],
     capture_outcome   |-> [to |-> "end", status |-> "awaiting_outcome"]]

PlainNode ==
    /\ next \in DOMAIN Plain
    /\ EndNode([state EXCEPT !.status = Plain[next].status], Plain[next].to)

\* LeadInvestigator.finalize, first request: a degraded synthesis is never confident
Synthesize(answer) ==
    /\ call.for = "synthesis"
    /\ \E confident, admits \in BOOLEAN :
          LET degraded == Told(answer).degraded \/ admits
          IN  /\ answer = Template => admits /\ confident = ~ state.degraded
              /\ draft' = [confident |-> confident /\ ~ degraded, degraded |-> degraded,
                           admits |-> admits, provenance |-> Told(answer).provenance]
    /\ call' = [for |-> "alert", tier |-> Requested["alert"], flying |-> FALSE]
    /\ UNCHANGED <<next, state, auto, review, trouble>>

\* Second request; a fallback here lowers the confidence once more
Explain(answer) ==
    LET degraded == draft.degraded \/ answer # Requested["alert"]
        provenance == draft.provenance \cup (Told(answer).provenance \cap {"alert"})
    IN  /\ call.for = "alert"
        /\ EndNode([state EXCEPT !.synthesis = [confident |-> draft.confident /\ ~ degraded,
                                                degraded |-> degraded,
                                                admits |-> draft.admits],
                                 !.provenance = provenance, !.degraded = degraded,
                                 !.status = "investigation_complete"],
                   "capture_outcome")

\* The node that asked goes on with the answer
Answer(a) ==
    \/ AnalyzeSpike(a) \/ DiscoverSegment(a) \/ InvestigateRootCause(a)
    \/ VerifyEvidence(a) \/ EvaluateResponses(a) \/ Synthesize(a) \/ Explain(a)

-----------------------------------------------------------------------------
(* generate, step by step *)

Ask ==
    /\ Driving /\ call = None
    /\ next \in (Purposes \ Repeatable) \cup {"finalize"}
    /\ LET purpose == IF next = "finalize" THEN "synthesis" ELSE next
       IN  call' = [for |-> purpose, tier |-> Requested[purpose], flying |-> FALSE]
    /\ UNCHANGED <<setting, tasks, next, state, draft, rows, cached, trouble, history, gateway>>

Asking == Driving /\ call # None /\ ~ call.flying
Awaiting == Driving /\ call # None /\ call.flying

\* The request moves on to the tier after this one; after the last, the template answers
Turn ==
    IF After[call.tier] = Template
    THEN Answer(Template) /\ llm' = "degraded"
    ELSE /\ call' = [call EXCEPT !.tier = After[@], !.flying = FALSE]
         /\ UNCHANGED <<next, state, draft, auto, review, trouble, llm>>

NoKey ==
    /\ Asking /\ ~ setting.keyed
    /\ Answer(Template) /\ llm' = "degraded"
    /\ UNCHANGED <<setting, started, rows, cached, history, breakers, others>>

\* _get_json under get_agent_result: Redis, or this process's cache while Redis fails
Cached(purpose, tier) == <<purpose, tier>> \in cached

\* set_agent_result, in Redis and locally
Remember(purpose, tier) == cached' = cached \cup {e \in {<<purpose, tier>>} : purpose \in Repeatable}

\* A valid cached answer; a miss covers an entry that expired or no longer validates
CacheHit ==
    /\ Asking /\ setting.keyed
    /\ Cached(call.for, call.tier)
    /\ Answer(call.tier)
    /\ llm' = IF call.tier = Requested[call.for] THEN llm ELSE "degraded"
    /\ UNCHANGED <<setting, started, rows, cached, history, breakers, others>>

Admit ==
    /\ Asking /\ setting.keyed
    /\ Allows(call.tier)
    /\ breakers' = Polled(call.tier)
    /\ call' = [call EXCEPT !.flying = TRUE]
    /\ UNCHANGED <<setting, tasks, next, state, draft, rows, cached, trouble, history, others, llm>>

Refuse ==
    /\ Asking /\ setting.keyed
    /\ ~ Allows(call.tier)
    /\ Turn
    /\ UNCHANGED <<setting, started, rows, cached, history, breakers, others>>

\* The provider's answer validates; it is cached under the tier that gave it
Succeed ==
    /\ Awaiting
    /\ Answer(call.tier)
    /\ breakers' = MarkSuccess(call.tier)
    /\ llm' = Health(Requested[call.for], call.tier)
    /\ Remember(call.for, call.tier)
    /\ UNCHANGED <<setting, started, rows, history, others>>

\* Every attempt failed, timed out or did not validate
FailCall ==
    /\ Awaiting
    /\ breakers' = MarkFailure(call.tier)
    /\ Turn
    /\ UNCHANGED <<setting, started, rows, cached, history, others>>

PlainStep ==
    /\ Driving /\ call = None
    /\ PlainNode \/ PolicyGate
    /\ UNCHANGED <<setting, started, rows, cached, history, gateway>>

-----------------------------------------------------------------------------
(* InvestigationService *)

\* IncidentService triggers schedule after it committed the incident
Schedule ==
    /\ setting.autostart /\ ~ started /\ ~ dropped
    /\ started' = TRUE /\ auto' = "prepare"
    /\ UNCHANGED <<setting, review, graph, rows, cached, trouble, history, gateway>>

\* prepare_state is one session; it fails as a whole
Prepare ==
    /\ auto = "prepare"
    /\ \/ /\ status' = "investigating" /\ auto' = "run"
          /\ state' = Prepared /\ next' = "observe" /\ trouble' = trouble
       \/ /\ Trouble /\ auto' = "failing"
          /\ UNCHANGED <<status, state, next>>
    /\ UNCHANGED <<setting, started, review, call, draft, outputs, audit, cached, history, gateway>>

\* ainvoke returns at the interrupt and at the end
Return ==
    /\ Driving /\ call = None
    /\ \/ next = "human_review" /\ auto = "run" /\ auto' = "persist" /\ review' = review
       \/ next = "end" /\ review = "run" /\ review' = "persist" /\ auto' = auto
    /\ UNCHANGED <<setting, started, graph, rows, cached, trouble, history, gateway>>

\* save_agent_output: one row per stage, written again by a later result
Upsert(stages, degraded) ==
    outputs' = degraded \cup (IF outputs = None THEN {} ELSE outputs \ stages)

\* _persist, one session, from the result its caller holds.  The background task holds
\* the state at the interrupt, whatever a review has done to the graph since.
PersistAuto ==
    /\ auto = "persist"
    /\ \/ /\ status' = "awaiting_human_review" /\ auto' = "none"
          /\ Upsert({"analysis"}, state.provenance \ Repeatable)
          /\ audit' = audit \cup {state.gate} /\ trouble' = trouble
       \/ /\ Trouble /\ auto' = "failing"
          /\ UNCHANGED rows
    /\ UNCHANGED <<setting, started, review, graph, cached, history, gateway>>

PersistReview ==
    /\ review = "persist"
    /\ review' = "none"
    /\ \/ /\ status' = state.status
          /\ Upsert({"analysis"} \cup Repeatable, state.provenance)
          /\ audit' = audit \cup {state.gate} /\ trouble' = trouble
          /\ completed' = TRUE
       \/ Trouble /\ UNCHANGED <<rows, completed>>
    /\ UNCHANGED <<setting, started, auto, graph, cached, dropped, unrecorded, overtaken,
                   gateway>>

\* The handler of _run_safely; if its own session fails too, nothing is recorded
RecordFailure ==
    /\ auto = "failing"
    /\ auto' = "none"
    /\ \/ status' = "investigation_failed" /\ UNCHANGED <<unrecorded, trouble>>
       \/ Trouble /\ unrecorded' = TRUE /\ status' = status
    /\ UNCHANGED <<setting, started, review, graph, outputs, audit, cached, completed,
                   dropped, overtaken, gateway>>

\* An analyst's decision resumes the graph; it needs the checkpoint at the interrupt, not
\* the end of the background task
Resume ==
    /\ review = "none" /\ auto # "run"
    /\ next = "human_review"
    /\ review' = "run"
    /\ state' = [state EXCEPT !.status = "human_review_recorded"]
    /\ next' = "finalize"
    /\ overtaken' = (overtaken \/ auto # "none")
    /\ UNCHANGED <<setting, started, auto, call, draft, rows, cached, trouble, completed,
                   dropped, unrecorded, gateway>>

\* After a failure the repeated decision continues the graph, or reconciles the rows
Continue ==
    /\ review = "none"
    /\ \/ next \in {"finalize", "capture_outcome"} /\ review' = "run"
       \/ next = "end" /\ status # "awaiting_outcome" /\ review' = "persist"
    /\ UNCHANGED <<setting, started, auto, graph, rows, cached, trouble, history, gateway>>

\* The process ends; an in-memory checkpointer takes the graph with it
Lose ==
    /\ dropped' = (dropped \/ ~ started \/ auto # "none")
    /\ auto' = "none" /\ review' = "none" /\ call' = None /\ draft' = None
    /\ IF setting.durable THEN UNCHANGED <<next, state>>
       ELSE next' = "lost" /\ state' = None
    /\ GatewayRestarts
    /\ UNCHANGED <<setting, started, rows, cached, completed, unrecorded, overtaken>>

Crash == Trouble /\ Lose

\* A graceful stop: close waits for the background tasks there are.  One that the consumer,
\* which is stopped after it, still schedules is not waited for: it ends like in a crash.
Shutdown ==
    /\ auto = "none" /\ review = "none"
    /\ Lose
    /\ UNCHANGED trouble

-----------------------------------------------------------------------------

Init ==
    /\ setting \in Settings
    /\ status = "detected" /\ started = FALSE
    /\ auto = "none" /\ review = "none"
    /\ next = "none" /\ state = None /\ call = None /\ draft = None
    /\ cached = {} /\ outputs = None /\ audit = {}
    /\ trouble = setting.trouble
    /\ completed = FALSE /\ dropped = FALSE /\ unrecorded = FALSE /\ overtaken = FALSE
    /\ GatewayInit

Others ==
    /\ \E t \in Tiers :
          \/ Elapse(t)
          \/ t \in setting.traffic /\ (OtherCalls(t) \/ OtherSucceeds(t) \/ OtherFails(t))
    /\ UNCHANGED <<setting, tasks, graph, rows, cached, trouble, history>>

Next ==
    \/ Schedule \/ Prepare \/ Ask \/ PlainStep
    \/ NoKey \/ CacheHit \/ Admit \/ Refuse \/ Succeed \/ FailCall
    \/ Return \/ PersistAuto \/ PersistReview \/ RecordFailure
    \/ Resume \/ Continue \/ Crash \/ Shutdown \/ Others

Spec == Init /\ [][Next]_vars

-----------------------------------------------------------------------------

OwnCalls(t) == IF call # None THEN IF call.flying /\ call.tier = t THEN 1 ELSE 0 ELSE 0

\* The shared breakers, with calls that were admitted before they opened failing or
\* succeeding later (gateway: _breaker_allows, _mark_failure).  A tier in trouble costs
\* the process a bounded number of failures: those that open its breaker and those of the
\* calls already in flight then.
TroubleIsBounded ==
    \A t \in Tiers : breakers[t].failures <= Threshold + MaxOthers

\* The degraded flag of seven requests, the ranking and the checkpointer (every node of
\* agents/nodes).  The final state is degraded exactly if some answer was a fallback, the
\* production ranking was broken, checkpoints are volatile or the model said so, and then
\* the synthesis an analyst reads is marked and never confident; the stored outputs tell
\* the same requests.
DegradationIsTold ==
    state # None =>
        /\ (\/ ~ setting.durable \/ state.provenance # {} \/ state.misranked
            \/ state.synthesis # None /\ state.synthesis.admits)
           <=> state.degraded
        /\ state.synthesis # None =>
              /\ state.synthesis.degraded = state.degraded
              /\ state.synthesis.confident => ~ state.degraded
        /\ status = "awaiting_outcome" => outputs = state.provenance

\* The gate against what any model wrote (agents/graph.py policy_gate, response_agent,
\* build_authorization_context, evaluate).  The action recommended is the one production
\* ranks first; one with an effect passes exactly if no transaction joined the segment it
\* is about after the detector looked and the ceilings hold, and then it needs approval.
GateIsSound ==
    state # None /\ state.gate # None =>
        LET f == setting.facts
            action == state.recommended
            valueCeiling == IF action = "temporary_defensive_rule" THEN 50 ELSE 100
            breadthCeiling == IF action = "temporary_defensive_rule" THEN 10 ELSE 25
        IN  /\ action = state.ranked
            /\ action \in ExecutingActions =>
                  /\ state.gate.decision # "allow"
                  /\ state.gate.decision = "require_approval" <=>
                        /\ f.window > 0 /\ f.joined = 0
                        /\ f.value <= valueCeiling
                        /\ f.support * 100 <= breadthCeiling * f.window

\* What an analyst is shown as grounded (verification_agent, ground_claims): each claim
\* cites evidence that exists and was verified by a model of some tier.  Without any
\* model nothing is grounded, and the incident still reaches the analyst, marked degraded.
ClaimsAreEarned ==
    state # None =>
        /\ state.grounded \subseteq state.supported \cap state.resolving
        /\ ~ setting.keyed => state.grounded = {}
        /\ ~ setting.keyed /\ state.gate # None => state.degraded

\* The background task against failures (_run_safely, _persist).  Once nothing runs, the
\* incident of a started investigation waits for an analyst with the gate's decision in
\* the audit trail, has failed visibly or is done; it hangs only if the process died
\* under it or the failure itself could not be stored.  A completed investigation stays
\* so unless the review overtook the background task, whose late write then reopens it.
NobodyIsForgotten ==
    /\ completed /\ ~ overtaken => status = "awaiting_outcome"
    /\ started /\ auto = "none" /\ review = "none" /\ ~ dropped /\ ~ unrecorded =>
          /\ status \in {"awaiting_human_review", "investigation_failed", "awaiting_outcome"}
          /\ status = "awaiting_human_review" /\ next # "lost" => audit = {state.gate}
=============================================================================
