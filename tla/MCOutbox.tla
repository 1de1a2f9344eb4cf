------------------------------- MODULE MCOutbox -------------------------------
(***************************************************************************)
(* A small instance of Outbox, and the environment of its liveness.        *)
(*                                                                         *)
(* Events and contents are numbers.  They are interchangeable, which       *)
(* SYMMETRY may not use beside liveness: InOrder picks one of the orders   *)
(* in which they can be used instead.                                      *)
(***************************************************************************)
EXTENDS Outbox

CONSTANT MaxTrouble  \* failed sends, timeouts, session errors, crashes, overruns

VARIABLE trouble

\* Events are first enqueued in their order, each with the content 1
InOrder(e, c) ==
    /\ \A f \in 1..e - 1 : content[f] # None
    /\ content[e] = None => c = 1

\* The next try of the same send fails too: the first trouble may be an outage of
\* several tries, and counts once
Again(d) == tries[d] > 0 /\ trouble = 1 /\ SendError(d)

MCInit == Init /\ trouble = 0

MCNext ==
    \/ /\ trouble < MaxTrouble /\ trouble' = trouble + 1
       /\ \/ \E d \in Dispatchers : Trouble(d) /\ ~Again(d)
          \/ \E e \in Events : Overruns(e) /\ LeaseExpires(e)
    \/ /\ UNCHANGED trouble
       /\ \/ \E e \in Events :
              \/ \E c \in Contents : InOrder(e, c) /\ EnqueueOnce(e, c)
              \/ ~Overruns(e) /\ LeaseExpires(e)
              \/ BackoffElapses(e)
          \/ \E d \in Dispatchers : Drain(d) \/ Again(d)
          \/ \E m \in Message : StrayLands(m) \/ StrayLost(m)

MCSpec == MCInit /\ [][MCNext]_<<vars, trouble>>

\* Every dispatcher polls and finishes what it began, an abandoned lease runs
\* out and a backoff elapses.  Nothing is assumed of stray copies or writers.
Progress ==
    /\ \A d \in Dispatchers : WF_<<vars, trouble>>(Drain(d) /\ UNCHANGED trouble)
    /\ \A e \in Events :
        /\ WF_<<vars, trouble>>(~Overruns(e) /\ LeaseExpires(e) /\ UNCHANGED trouble)
        /\ WF_<<vars, trouble>>(BackoffElapses(e) /\ UNCHANGED trouble)

FairSpec == MCSpec /\ Progress
===============================================================================
