----------------------------- MODULE FraudScorer -----------------------------
(***************************************************************************)
(* ResilientFraudScorer: the primary model until it fails to load or to    *)
(* score, from then on a fallback: the anomaly model, or fixed rules when  *)
(* that does not load either.  Each scores in a space of its own, and only *)
(* a new process goes back to the primary one.  A score is abstracted to   *)
(* its score space.                                                        *)
(***************************************************************************)
CONSTANT Fallbacks      \* the spaces of the anomaly model and of the rules

ASSUME PrimaryIsNoFallback == "primary" \notin Fallbacks

VARIABLE scorer         \* the space of the model in use

Spaces == {"primary"} \cup Fallbacks

(* The constructor: whichever artifacts load.                              *)
Load == scorer' \in Spaces

(* _activate_fallback: the artifact of the anomaly model loads or not.     *)
ActivateFallback == scorer' \in Fallbacks

(* score: all batches of a call in one space, that of scorer'.             *)
Score ==
    \/ UNCHANGED scorer
    \/ scorer = "primary" /\ ActivateFallback
===============================================================================
