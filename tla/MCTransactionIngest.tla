------------------------- MODULE MCTransactionIngest -------------------------
(***************************************************************************)
(* TransactionIngest on a small instance: an API call, a batch and the     *)
(* consumer of the topic; two of them share a process.                     *)
(***************************************************************************)
EXTENDS TransactionIngest, TLC

CONSTANTS a, g, s, p1, p2
Placed == {[c \in {a, g, s} |-> IF c = g THEN p2 ELSE p1],
           [c \in {a, g, s} |-> IF c = a THEN p1 ELSE p2]}
Pairs == {<<x, y>> : x, y \in Keys} \ {<<x, x>> : x \in Keys}
===============================================================================
