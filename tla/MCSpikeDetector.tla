--------------------------- MODULE MCSpikeDetector ---------------------------
(***************************************************************************)
(* SpikeDetector on a small instance.  Transactions are interchangeable    *)
(* until they arrive, so they are numbered and arrive in that order.  A    *)
(* stream starts early: a later start shifts it and leaves less of it.  A  *)
(* batch scored in a fallback is left out: the scorer will not change      *)
(* before the batch is fed, so it arrives like any transaction.  There is  *)
(* one reset or restart; a third life follows the refusal of a batch.      *)
(***************************************************************************)
EXTENDS SpikeDetector

NextUp == {x \in Transactions : time[x] = None /\ \A y \in Transactions : y < x => time[y] # None}
When == {t \in Times : IF last = None THEN t < 2 * Slide ELSE t >= last}

(* A batch that will be refused lets one transaction at most, which was    *)
(* queued for the lock before it, go first.                                *)
MayOvertake == waiting \in {None, space} \/ last = None

MCNext ==
    \/ /\ Idle /\ MayOvertake
       /\ \E x \in NextUp, t \in When : Arrive(x, t) \/ ArriveBatch(x, t)
    \/ ScoreBatch /\ scorer' = "primary"
    \/ FlushStream
    \/ Handle
    \/ HandlingFails
    \/ life = 1 /\ (Reset \/ Restart)
    \/ ReprimeForBatch

MCSpec == Init /\ [][MCNext]_vars
===============================================================================
