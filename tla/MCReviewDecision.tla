--------------------------- MODULE MCReviewDecision ---------------------------
(***************************************************************************)
(* Small instances of ReviewDecision, and the environment of its liveness. *)
(*                                                                         *)
(* Tokens are numbers.  They are interchangeable, which SYMMETRY may not   *)
(* use beside liveness: InOrder takes one order of them instead.           *)
(***************************************************************************)
EXTENDS ReviewDecision, Integers

CONSTANTS MaxFailures  \* failed nodes or sessions, crashes and overrun leases in a run

VARIABLE failures

\* Two analysts who disagree, and one of them in two minds
MCRequests ==
    {[actor |-> "ana", decision |-> "approve", modified |-> "no_action"],
     [actor |-> "ana", decision |-> "reject", modified |-> "no_action"],
     [actor |-> "bo", decision |-> "modify", modified |-> "step_up"]}
OneExecutingOneSafe == {r \in MCRequests : r.actor = "ana"}
MCActors == {"ana", "bo"}
MCActions == {"block", "step_up", "no_action", "human_escalation"}

MCInit == Init /\ failures = 0

\* Of the tokens nobody knows the smallest is taken
InOrder == \A w \in Workers : token'[w] \in Fresh => \A t \in Fresh : token'[w] <= t

Overruns == \E w \in Workers : Holds(w)

Trouble == (\E w \in Workers : Fail(w) \/ Crash(w)) \/ (Overruns /\ LeaseExpires)

MCNext ==
    \/ Trouble /\ failures < MaxFailures /\ failures' = failures + 1
    \/ /\ \/ \E w \in Workers : (\E r \in Requests : Submit(w, r)) \/ (Serve(w) /\ InOrder)
          \/ ~Overruns /\ LeaseExpires
          \/ \E o \in Outcomes : RecordOutcome(o)
       /\ UNCHANGED failures

MCSpec == MCInit /\ [][MCNext]_<<vars, failures>>

\* The event loop keeps every call running and time passes
Progress ==
    /\ \A w \in Workers : WF_<<vars, failures>>(Serve(w) /\ UNCHANGED failures)
    /\ WF_<<vars, failures>>(~Overruns /\ LeaseExpires /\ UNCHANGED failures)

FairSpec == MCSpec /\ Progress

\* The analyst whose decision was accepted repeats it until it is completed:
\* the code has no recovery of its own for a decision left in flight
Repeat(w) ==
    /\ InFlight(status)
    /\ \E r \in Requests : SameRequest(content, r) /\ Submit(w, r)
    /\ UNCHANGED failures

RepeatingSpec ==
    FairSpec /\ \A w \in Workers : SF_<<vars, failures>>(Repeat(w))

\* An accepted decision is completed in the end: a crash or a failed session
\* between its steps never strands it, if the analyst repeats the request and no
\* restart loses the checkpoint.
AcceptedIsCompleted == content # None /\ durable ~> status \in Terminal
===============================================================================
