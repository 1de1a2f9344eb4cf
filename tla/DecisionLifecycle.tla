-------------------------- MODULE DecisionLifecycle --------------------------
(***************************************************************************)
(* What the review boundary promises about one incident's decision, with   *)
(* workers, leases, checkpoints and crashes left out: one review is        *)
(* accepted and never changes, it is completed at most once and announced  *)
(* in the same step, and one outcome closes it, announced in that step.    *)
(***************************************************************************)
CONSTANTS Reviews, Outcomes, None

VARIABLES
    phase,      \* "open", "accepted", "completed" or "closed"
    review,     \* the accepted review
    outcome,    \* the recorded outcome
    announced   \* the set of facts published about the decision

vars == <<phase, review, outcome, announced>>

Init ==
    /\ phase = "open" /\ review = None /\ outcome = None
    /\ announced = {}

Accept(r) ==
    /\ phase = "open"
    /\ phase' = "accepted" /\ review' = r
    /\ UNCHANGED <<outcome, announced>>

Finish ==
    /\ phase = "accepted"
    /\ phase' = "completed"
    /\ announced' = announced \cup {<<"decision", review>>}
    /\ UNCHANGED <<review, outcome>>

Close(o) ==
    /\ phase = "completed"
    /\ phase' = "closed" /\ outcome' = o
    /\ announced' = announced \cup {<<"outcome", review, o>>}
    /\ UNCHANGED review

Next ==
    \/ \E r \in Reviews : Accept(r)
    \/ Finish
    \/ \E o \in Outcomes : Close(o)

Spec == Init /\ [][Next]_vars
===============================================================================
