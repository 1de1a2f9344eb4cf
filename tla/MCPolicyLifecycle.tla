-------------------------- MODULE MCPolicyLifecycle --------------------------
(***************************************************************************)
(* PolicyLifecycle on a small instance: 1 and 3 are the built-in policy, 2 *)
(* was measured against either, 3 against 1, and 4 fails against 2.        *)
(***************************************************************************)
EXTENDS PolicyLifecycle, TLC

MCIdentity == [v \in Versions |-> CASE v \in Builtin -> 0 [] OTHER -> v]
Against(b, version, passes) ==
    [base |-> MCIdentity[b], version |-> version, sound |-> TRUE, passes |-> passes]
MCEvidence ==
    [v \in Versions |-> CASE v = 1 -> None
                          [] v = 2 -> Against(1, None, TRUE)
                          [] v = 3 -> Against(1, 1, TRUE)
                          [] v = 4 -> Against(2, 2, FALSE)]
Symmetry == Permutations(Admins)
===============================================================================
