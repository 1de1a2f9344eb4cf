------------------------------ MODULE LLMGateway ------------------------------
(***************************************************************************)
(* StructuredLLMGateway: the tiers, their shared circuit breakers and the  *)
(* calls in flight.  One caller is followed through generate step by step; *)
(* of the other investigations of the process only the calls matter,       *)
(* because the breakers are all they share.                                *)
(*                                                                         *)
(* The calls of one asyncio loop interleave at awaits: reading the cache   *)
(* and the provider call itself.  A provider call stands for all its       *)
(* attempts: each has a timeout, so a call ends, well or badly.            *)
(***************************************************************************)
EXTENDS Integers

CONSTANTS
    Threshold,     \* llm_circuit_failure_threshold
    MaxOthers      \* bound: calls of other investigations in flight on one tier

ASSUME GatewayAssumption == Threshold \in Nat \ {0} /\ MaxOthers \in Nat

Tiers == {"primary", "secondary", "economy"}
Template == "template"  \* the deterministic factory, no tier at all
Answers == Tiers \cup {Template}

\* fallback_tiers: what generate turns to after a tier, the template last
After == [primary |-> "secondary", secondary |-> "economy", economy |-> Template]

VARIABLES
    breakers,   \* per tier [failures, state]; open_until is in the future
                \* ("open"), in the past ("expired") or zero ("closed")
    others,     \* per tier, calls of other investigations in flight
    llm         \* health of the dependency "llm" in the degradation registry

gateway == <<breakers, others, llm>>

Fresh == [failures |-> 0, state |-> "closed"]
Breaker == [failures: Nat, state: {"closed", "open", "expired"}]

\* Mutated form: an open breaker lets the call through
AllowsAlways(t) == t \in Tiers

\* _breaker_allows ...
Allows(t) == breakers[t].state # "open"

\* ... and what asking leaves behind
Polled(t) == [breakers EXCEPT ![t] = IF @.state = "expired" THEN Fresh ELSE @]

MarkSuccess(t) == [breakers EXCEPT ![t] = Fresh]

MarkFailure(t) ==
    [breakers EXCEPT ![t] =
        [failures |-> @.failures + 1,
         state    |-> IF @.failures + 1 >= Threshold THEN "open" ELSE @.state]]

\* The health mark of an answer by tier t to a request for tier r: an answer by a
\* fallback degrades, only a fresh answer to a request for the primary tier heals
Health(r, t) ==
    IF t # r THEN "degraded" ELSE IF t = "primary" THEN "healthy" ELSE llm

GatewayInit ==
    /\ breakers = [t \in Tiers |-> Fresh]
    /\ others = [t \in Tiers |-> 0]
    /\ llm = "healthy"

\* llm_circuit_reset_seconds have passed since the breaker was last opened
Elapse(t) ==
    /\ breakers[t].state = "open"
    /\ breakers' = [breakers EXCEPT ![t].state = "expired"]
    /\ UNCHANGED <<others, llm>>

\* Another investigation calls tier t
OtherCalls(t) ==
    /\ others[t] < MaxOthers
    /\ Allows(t)
    /\ breakers' = Polled(t)
    /\ others' = [others EXCEPT ![t] = @ + 1]
    /\ UNCHANGED llm

\* Its call is answered: it may have asked for this tier or have fallen back to it
OtherSucceeds(t) ==
    /\ others[t] > 0
    /\ breakers' = MarkSuccess(t)
    /\ others' = [others EXCEPT ![t] = @ - 1]
    /\ \E r \in Tiers : (t = "primary" => r = t) /\ llm' = Health(r, t)

\* Its call fails: after the last tier it takes the template
OtherFails(t) ==
    /\ others[t] > 0
    /\ breakers' = MarkFailure(t)
    /\ others' = [others EXCEPT ![t] = @ - 1]
    /\ llm' \in {llm, "degraded"}

\* The process restarts: the breakers and the registry live in memory
GatewayRestarts == breakers' = [t \in Tiers |-> Fresh] /\ others' = [t \in Tiers |-> 0] /\ llm' = "healthy"
=============================================================================
