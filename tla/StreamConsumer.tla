----------------------------- MODULE StreamConsumer -----------------------------
(***************************************************************************)
(* EventConsumer: every API process runs one manual-commit loop in the     *)
(* same consumer group over the partitions of the transactions and         *)
(* outcomes topics.  A process takes one message at a time, hands it to    *)
(* its handler, commits after success and seeks back after failure.        *)
(*                                                                         *)
(* aiokafka is external: a rebalance may come at any time, also while a    *)
(* handler runs; it gives every partition to one member and restarts it    *)
(* from the committed offset; commit() commits the position of every       *)
(* partition the member is assigned then.                                  *)
(***************************************************************************)
EXTENDS Integers

CONSTANTS Consumers, Partitions, None

ASSUME Nobody == None \notin Consumers /\ None \notin Partitions \X Nat

VARIABLES
    end,        \* messages in each partition
    committed,  \* committed offset of the group: the next one to handle
    assigned,   \* the member each partition belongs to
    position,   \* next offset each member would fetch from each partition
    pc,         \* "polling", "handling", "committing", "stopped" or "down"
    taken,      \* the message <<partition, offset>> a member works on
    handled     \* history: the offsets some handler has finished

vars == <<end, committed, assigned, position, pc, taken, handled>>

TypeOK ==
    /\ end \in [Partitions -> Nat]
    /\ committed \in [Partitions -> Nat]
    /\ assigned \in [Partitions -> Consumers \cup {None}]
    /\ position \in [Consumers -> [Partitions -> Nat]]
    /\ pc \in [Consumers -> {"polling", "handling", "committing", "stopped", "down"}]
    /\ taken \in [Consumers -> (Partitions \X Nat) \cup {None}]
    /\ handled \in [Partitions -> SUBSET Nat]

Init ==
    /\ end = [p \in Partitions |-> 0]
    /\ committed = [p \in Partitions |-> 0]
    /\ assigned = [p \in Partitions |-> None]
    /\ position = [c \in Consumers |-> [p \in Partitions |-> 0]]
    /\ pc = [c \in Consumers |-> "down"]
    /\ taken = [c \in Consumers |-> None]
    /\ handled = [p \in Partitions |-> {}]

Arrive(p) ==
    /\ end' = [end EXCEPT ![p] = @ + 1]
    /\ UNCHANGED <<committed, assigned, position, pc, taken, handled>>

Member(c) == pc[c] \in {"polling", "handling", "committing"}

-----------------------------------------------------------------------------
(* One message: run, _handle_with_retry and handle_message *)

Poll(c, p) ==
    /\ pc[c] = "polling"
    /\ assigned[p] = c /\ position[c][p] < end[p]
    /\ taken' = [taken EXCEPT ![c] = <<p, position[c][p]>>]
    /\ position' = [position EXCEPT ![c][p] = @ + 1]
    /\ pc' = [pc EXCEPT ![c] = "handling"]
    /\ UNCHANGED <<end, committed, assigned, handled>>

HandlerReturns(c) ==
    /\ pc[c] = "handling"
    /\ handled' = [handled EXCEPT ![taken[c][1]] = @ \cup {taken[c][2]}]
    /\ pc' = [pc EXCEPT ![c] = "committing"]
    /\ UNCHANGED <<end, committed, assigned, position, taken>>

\* Mutated form: the failed message is left behind
SkipBack(c) == UNCHANGED position

\* seek rewinds the partition of the failed message
SeekBack(c) == position' = [position EXCEPT ![c][taken[c][1]] = taken[c][2]]

\* After a failure the loop goes on at the same offset; seek raises, and ends
\* the loop, when the partition has gone to another member
Retry(c) ==
    /\ IF assigned[taken[c][1]] = c
       THEN SeekBack(c) /\ pc' = [pc EXCEPT ![c] = "polling"]
       ELSE UNCHANGED position /\ pc' = [pc EXCEPT ![c] = "stopped"]
    /\ taken' = [taken EXCEPT ![c] = None]

HandlerRaises(c) ==
    /\ pc[c] = "handling"
    /\ Retry(c)
    /\ UNCHANGED <<end, committed, assigned, handled>>

Positions(c) ==
    [p \in Partitions |-> IF assigned[p] = c THEN position[c][p] ELSE committed[p]]

\* commit() and the reads of the lag behind it: they refuse a partition that is
\* no longer assigned, and then seek does too
Commit(c) ==
    /\ pc[c] = "committing"
    /\ committed' = Positions(c)
    /\ pc' = [pc EXCEPT ![c] =
                 IF assigned[taken[c][1]] = c THEN "polling" ELSE "stopped"]
    /\ taken' = [taken EXCEPT ![c] = None]
    /\ UNCHANGED <<end, assigned, position, handled>>

CommitRaises(c) ==
    /\ pc[c] = "committing"
    /\ Retry(c)
    /\ UNCHANGED <<end, committed, assigned, handled>>

-----------------------------------------------------------------------------
(* The group, the broker and the process *)

\* Mutated form: a partition without work in flight starts at its end
RestartAtEnd(p) == end[p]

\* auto_offset_reset is earliest: without a commit the offset is 0
RestartAt(p) == committed[p]

Rebalance ==
    /\ assigned' \in [Partitions -> {c \in Consumers : Member(c)} \cup {None}]
    /\ \A p \in Partitions : assigned'[p] = None => ~\E c \in Consumers : Member(c)
    /\ position' = [c \in Consumers |-> [p \in Partitions |-> RestartAt(p)]]
    /\ UNCHANGED <<end, committed, pc, taken, handled>>

\* The iterator raises: run marks the stream down and its task ends for good
FetchFails(c) ==
    /\ pc[c] = "polling"
    /\ pc' = [pc EXCEPT ![c] = "stopped"]
    /\ UNCHANGED <<end, committed, assigned, position, taken, handled>>

\* The process stops or dies, in a handler, before a commit or anywhere else
Crash(c) ==
    /\ pc[c] # "down"
    /\ pc' = [pc EXCEPT ![c] = "down"]
    /\ taken' = [taken EXCEPT ![c] = None]
    /\ assigned' = [p \in Partitions |-> IF assigned[p] = c THEN None ELSE assigned[p]]
    /\ UNCHANGED <<end, committed, position, handled>>

\* A new process joins the group without a partition
Start(c) ==
    /\ pc[c] = "down"
    /\ pc' = [pc EXCEPT ![c] = "polling"]
    /\ UNCHANGED <<end, committed, assigned, position, taken, handled>>

Next ==
    \/ \E p \in Partitions : Arrive(p)
    \/ \E c \in Consumers :
        \/ \E p \in Partitions : Poll(c, p)
        \/ HandlerReturns(c) \/ HandlerRaises(c) \/ Commit(c) \/ CommitRaises(c)
        \/ FetchFails(c) \/ Crash(c) \/ Start(c)
    \/ Rebalance

Spec == Init /\ [][Next]_vars

-----------------------------------------------------------------------------
(* Properties *)

\* The committed offset never passes a message no handler has finished, though
\* one commit covers the positions of all partitions, handlers fail, and a
\* partition changes hands while its message is being handled.
CommittedIsHandled ==
    \A p \in Partitions : 0..committed[p] - 1 \subseteq handled[p]

\* A message is first handled only when all before it in its partition are:
\* neither retries, crashes nor rebalances let a later one overtake.
HandledInOrder ==
    \A p \in Partitions : \A o \in handled[p] : 0..o \subseteq handled[p]
===============================================================================
