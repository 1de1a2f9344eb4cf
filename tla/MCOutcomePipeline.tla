--------------------------- MODULE MCOutcomePipeline ---------------------------
(* Small instances of OutcomePipeline, and the environment of its liveness. *)
EXTENDS OutcomePipeline, TLC

CONSTANTS
    MaxEnd,     \* messages in the outcomes partition
    MaxOther,   \* messages in every other one
    MaxTrouble  \* failures, crashes and rebalances nobody needs

VARIABLE trouble

Symmetry == Permutations(Consumers) \cup Permutations(Decisions)

\* Other weights under the same version, and another version
MCSettings ==
    {[version |-> "v1", economics |-> "e1"], [version |-> "v1", economics |-> "e2"],
     [version |-> "v2", economics |-> "e1"]}
OneSetting == {[version |-> "v1", economics |-> "e1"]}

MCInit == trouble = 0 /\ PipelineInit /\ \A c, e \in Consumers : config[c] = config[e]

\* Some partition has no live member
Needed == \E p \in Partitions : ~\E c \in Consumers : assigned[p] = c /\ Member(c)

Free(c) ==
    \/ Transport(c) \/ Rewarded(c)
    \/ OtherHandled(c) /\ pc'[c] = "committing"
    \/ Handling(c) /\ Refuses(c) /\ NotRewarded(c)

MCNext ==
    \/ /\ trouble < MaxTrouble /\ trouble' = trouble + 1
       /\ \/ \E c \in Consumers : NotRewarded(c) \/ OtherHandled(c) \/ Disturb(c)
          \/ ~Needed /\ Regroup
    \/ /\ UNCHANGED trouble
       /\ \/ \E d \in Decisions : RecordOutcome(d)
          \/ \E d \in Decisions : end[Outcomes] < MaxEnd /\ Deliver(d)
          \/ \E p \in Partitions : end[p] < MaxOther /\ Other(p)
          \/ \E c \in Consumers : Free(c) \/ Deploy(c)
          \/ pc # [c \in Consumers |-> "down"] /\ Needed /\ Regroup

MCSpec == MCInit /\ [][MCNext]_<<pipelineVars, trouble>>

pVars == <<pipelineVars, trouble>>

Undelivered(d) == d \notin {outcomes[i] : i \in 1..Len(outcomes)}

\* The outbox delivers (Outbox!EventuallyPublished), the loops run, processes that are
\* down are started, and the group gives a partition without a live member to another.
\* Nobody restarts a process whose loop has ended: main.py:284 starts it once.
Progress ==
    /\ \A d \in Decisions :
        WF_pVars(Undelivered(d) /\ Deliver(d) /\ UNCHANGED trouble)
    /\ \A c \in Consumers : WF_pVars((Free(c) \/ Deploy(c)) /\ UNCHANGED trouble)
    /\ WF_pVars(Needed /\ Regroup /\ UNCHANGED trouble)

FairSpec == MCSpec /\ Progress

\* From some time on no loop runs: each has ended, in a process that lives on.
Forsaken == <>[](\A c \in Consumers : pc[c] = "stopped")

\* Every message of both topics is handled in the end, although handlers and commits
\* fail, rebalances end loops for good and processes die, unless every loop has ended.
EventuallyHandled ==
    Forsaken \/ \A p \in Partitions : \A o \in 0..MaxEnd - 1 : end[p] > o ~> o \in handled[p]

\* A recorded outcome is learned from in the end, through the outbox, the topic it shares
\* the consumers with another, and whichever of them fails or dies on the way, if the
\* settings stay and not every loop has ended.
OutcomesAreLearned == Forsaken \/ \A d \in Decisions : d \in recorded ~> Learned(d)
===============================================================================
