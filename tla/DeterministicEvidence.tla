------------------------- MODULE DeterministicEvidence -------------------------
(***************************************************************************)
(* The evidence an investigation stands on: the read-only tools that       *)
(* compute it from the database and build_authorization_context, which     *)
(* turns it into the input of the policy engine.                           *)
(*                                                                         *)
(* A set of facts is what prepare_state finds about one incident:          *)
(*   window     transactions stored in the window of the incident by now   *)
(*   segmented  the detector found a segment; rank 1 is the leading one    *)
(*   support    size the detector reported for it (for the whole window    *)
(*              when there is none)                                        *)
(*   matched    stored transactions of the window that fit its conditions  *)
(*   joined     those of the segment that the detector has not seen        *)
(*   value      legitimate value of the transactions the estimate covers   *)
(*   exposure   their expected fraud                                       *)
(*   similar    earlier incidents                                          *)
(* The window is read long after the alert: a transaction that arrived     *)
(* late was stored, but refused by the detector (TransactionIngest).       *)
(***************************************************************************)
EXTENDS PolicyEngine, FiniteSets
LOCAL INSTANCE Functions

-----------------------------------------------------------------------------
(* The leading condition on amount_inr, in rupees: the detector cuts the amounts into    *)
(* bands, the investigation reads the band back from its printed label.                  *)

Edges == <<0, 500, 2000, 5000, 10000>>
Bands == 1..5   \* the last one is open

\* pd.cut: right-closed, the first band with its lowest edge
Band(v) ==
    CHOOSE i \in Bands :
        /\ v > Edges[i] \/ (v = Edges[1] /\ i = 1)
        /\ i < 5 => v <= Edges[i + 1]

\* The label of a band: include_lowest prints a lower first edge, the top one is "inf"
Label(i) ==
    [lower |-> IF i = 1 THEN Edges[1] - 1 ELSE Edges[i],
     upper |-> IF i = 5 THEN 0 ELSE Edges[i + 1], infinite |-> i = 5]

InInterval(v, label) == v > label.lower /\ (label.infinite \/ v <= label.upper)

\* How many of the transactions counted by amount have one in S
Number(counts, S) ==
    FoldFunctionOnSet(LAMBDA m, n : m + n, 0, counts, S \cap DOMAIN counts)

\* seen and late count the stored transactions of the window by amount
FactOf(seen, late, segmented, band, value, exposure, similar) ==
    LET amounts == DOMAIN seen \cup DOMAIN late
        cut == {v \in amounts : segmented => Band(v) = band}
        fitting == {v \in amounts : segmented => InInterval(v, Label(band))}
    IN  [window |-> Number(seen, amounts) + Number(late, amounts), segmented |-> segmented,
         support |-> Number(seen, cut),
         matched |-> Number(seen, fitting) + Number(late, fitting),
         joined |-> Number(late, cut),
         value |-> value, exposure |-> exposure, similar |-> similar]

Fact == [window: Nat, segmented: BOOLEAN, support: Nat, matched: Nat, joined: Nat,
         value: Nat, exposure: Nat, similar: Nat]

\* The counts hang together: what fits the leading segment was in it for the detector, at
\* least five transactions, or joined it later
Consistent(f) ==
    /\ f.support <= f.window
    /\ IF f.segmented THEN f.support >= 5 /\ f.matched = f.support + f.joined
       ELSE f.window = f.support + f.joined

\* The conditions are met by no row, so the estimate covers the whole window
Uncovered(f) == ~ f.segmented \/ f.matched = 0

\* get_cost_estimate
CostEstimate(f) ==
    [name     |-> IF Uncovered(f) THEN "whole window" ELSE "leading segment",
     count    |-> IF Uncovered(f) THEN f.window ELSE f.matched,
     value    |-> f.value,
     exposure |-> f.exposure]

\* get_segment_stats, get_window_stats and get_similar_incidents
EvidenceOf(f) ==
    [window   |-> f.window,
     segments |-> {[rank |-> 1, support |-> f.support,
                    name |-> IF f.segmented THEN "leading segment" ELSE "whole window"]},
     impact   |-> CostEstimate(f),
     similar  |-> f.similar]

-----------------------------------------------------------------------------

Leading(evidence) == {s \in evidence.segments : s.rank = 1}

\* Mutated form: the estimate is not compared with the segment it should describe
BasisValidUnchecked(action, evidence, impact) ==
    /\ action \in ExecutingActions
    /\ Cardinality(Leading(evidence)) = 1
    /\ evidence.window > 0
    /\ impact = evidence.impact

\* No reason speaks against the records
BasisValid(action, evidence, impact) ==
    /\ action \in ExecutingActions
    /\ Cardinality(Leading(evidence)) = 1
    /\ evidence.window > 0
    /\ impact = evidence.impact
    /\ \A s \in Leading(evidence) :
          /\ s.support <= evidence.window
          /\ impact.name = s.name
          /\ impact.count = s.support

\* The share of the window the leading segment makes up
Breadth(evidence) ==
    IF evidence.window = 0 \/ Leading(evidence) = {} THEN [part |-> 1, of |-> 1]
    ELSE [part |-> (CHOOSE s \in Leading(evidence) : TRUE).support, of |-> evidence.window]

\* build_authorization_context: nothing a language model wrote enters it
AuthorizationContext(action, evidence, impact, role) ==
    IF action \in SafeWorkflows
    THEN [value |-> 0, exposure |-> 0, breadth |-> [part |-> 0, of |-> 1], grounding |-> 100,
          confidence |-> 100, novelty |-> [part |-> 1, of |-> 1], role |-> role]
    ELSE LET score == IF BasisValid(action, evidence, impact) THEN 100 ELSE 0
         IN  [value |-> impact.value, exposure |-> impact.exposure,
              breadth |-> Breadth(evidence), grounding |-> score, confidence |-> score,
              novelty |-> [part |-> 1, of |-> evidence.similar + 1], role |-> role]
=============================================================================
