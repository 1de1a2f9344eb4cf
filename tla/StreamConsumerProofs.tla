-------------------------- MODULE StreamConsumerProofs --------------------------
(* What StreamConsumer guarantees for any group, partitions and schedule. *)
EXTENDS StreamConsumer, TLAPS

Busy(c) == pc[c] \in {"handling", "committing"}

\* A member at work holds a message that exists and whose predecessors are
\* handled, and so is the message itself once its member commits
InHand ==
    \A c \in Consumers :
        /\ Busy(c) <=> taken[c] # None
        /\ Busy(c) =>
            /\ taken[c][2] < end[taken[c][1]]
            /\ 0..taken[c][2] - 1 \subseteq handled[taken[c][1]]
        /\ pc[c] = "committing" => taken[c][2] \in handled[taken[c][1]]

\* Of what a member has fetched from a partition it owns, all is handled but the
\* message in its hands
FetchedIsHandled ==
    \A c \in Consumers, p \in Partitions : assigned[p] = c =>
        \A o \in 0..position[c][p] - 1 :
            o \in handled[p] \/ (pc[c] = "handling" /\ taken[c] = <<p, o>>)

HandledExists == \A p \in Partitions : handled[p] \subseteq 0..end[p] - 1

IInv ==
    TypeOK /\ InHand /\ FetchedIsHandled /\ HandledExists
    /\ CommittedIsHandled /\ HandledInOrder
-----------------------------------------------------------------------------
(* Typing *)

LEMMA TypeInit == Init => TypeOK
  BY DEF Init, TypeOK

\* After a failure the member polls again, or has stopped, with nothing in hand.
LEMMA TypeRetry ==
    ASSUME IInv, NEW c \in Consumers, Busy(c), Retry(c)
    PROVE  /\ position' \in [Consumers -> [Partitions -> Nat]]
           /\ pc' \in [Consumers -> {"polling", "handling", "committing", "stopped", "down"}]
           /\ taken' \in [Consumers -> (Partitions \X Nat) \cup {None}]
  <1>1. taken[c] \in Partitions \X Nat
    BY DEF IInv, TypeOK, InHand
  <1>2. PICK p \in Partitions, n \in Nat : taken[c] = <<p, n>>
    BY <1>1
  <1>3. position' = [position EXCEPT ![c][p] = n] \/ position' = position
    BY <1>2 DEF Retry, SeekBack
  <1>4. position' \in [Consumers -> [Partitions -> Nat]]
    <2>1. position \in [Consumers -> [Partitions -> Nat]]
      BY DEF IInv, TypeOK
    <2>2. [position[c] EXCEPT ![p] = n] \in [Partitions -> Nat]
      BY <2>1
    <2> QED
      BY <1>3, <2>1, <2>2
  <1>5. pc' = [pc EXCEPT ![c] = "polling"] \/ pc' = [pc EXCEPT ![c] = "stopped"]
    BY DEF Retry
  <1>6. taken' = [taken EXCEPT ![c] = None]
    BY DEF Retry
  <1> QED
    BY <1>4, <1>5, <1>6 DEF IInv, TypeOK

\* Every step keeps every variable in its type.
LEMMA TypeStep == IInv /\ [Next]_vars => TypeOK'
  <1> SUFFICES ASSUME IInv, [Next]_vars
               PROVE  TypeOK'
    OBVIOUS
  <1> USE DEF IInv, TypeOK
  <1>1. CASE UNCHANGED vars
    BY <1>1 DEF vars
  <1>2. ASSUME NEW p \in Partitions, Arrive(p)
        PROVE  TypeOK'
    BY <1>2 DEF Arrive
  <1>3. ASSUME NEW c \in Consumers, NEW p \in Partitions, Poll(c, p)
        PROVE  TypeOK'
    BY <1>3 DEF Poll
  <1>4. ASSUME NEW c \in Consumers, HandlerReturns(c)
        PROVE  TypeOK'
    <2>1. taken[c] \in Partitions \X Nat
      BY <1>4 DEF HandlerReturns, InHand, Busy
    <2> QED
      BY <1>4, <2>1 DEF HandlerReturns
  <1>5. ASSUME NEW c \in Consumers, HandlerRaises(c) \/ CommitRaises(c)
        PROVE  TypeOK'
    BY <1>5, TypeRetry DEF HandlerRaises, CommitRaises, Busy
  <1>6. ASSUME NEW c \in Consumers, Commit(c)
        PROVE  TypeOK'
    BY <1>6 DEF Commit, Positions
  <1>7. ASSUME NEW c \in Consumers, FetchFails(c) \/ Crash(c) \/ Start(c)
        PROVE  TypeOK'
    BY <1>7 DEF FetchFails, Crash, Start
  <1>8. CASE Rebalance
    BY <1>8 DEF Rebalance, RestartAt
  <1> QED
    BY <1>1, <1>2, <1>3, <1>4, <1>5, <1>6, <1>7, <1>8 DEF Next

-----------------------------------------------------------------------------
(* The steps *)

\* Loops that end, and processes that start, take nothing in hand.
LEMMA StepLoop ==
    ASSUME IInv, TypeOK', NEW c \in Consumers,
           FetchFails(c) \/ Crash(c) \/ Start(c)
    PROVE  IInv'
  <1> USE DEF IInv, TypeOK, FetchFails, Crash, Start
  <1>1. InHand'
    BY DEF InHand, Busy
  <1>2. FetchedIsHandled'
    <2> SUFFICES ASSUME NEW e \in Consumers, NEW p \in Partitions, assigned'[p] = e,
                        NEW o \in 0..position[e][p] - 1
                 PROVE  o \in handled[p] \/ (pc'[e] = "handling" /\ taken'[e] = <<p, o>>)
      BY DEF FetchedIsHandled
    <2>1. assigned[p] = e
      BY Nobody
    <2>2. o \in handled[p] \/ (pc[e] = "handling" /\ taken[e] = <<p, o>>)
      BY <2>1 DEF FetchedIsHandled
    <2> QED
      BY <2>1, <2>2, Nobody
  <1>3. HandledExists' /\ CommittedIsHandled' /\ HandledInOrder'
    BY DEF HandledExists, CommittedIsHandled, HandledInOrder
  <1> QED
    BY <1>1, <1>2, <1>3

LEMMA StepArrive ==
    ASSUME IInv, TypeOK', NEW p \in Partitions, Arrive(p)
    PROVE  IInv'
  <1> USE DEF IInv, TypeOK, Arrive
  <1>1. InHand'
    BY DEF InHand, Busy
  <1>2. FetchedIsHandled' /\ CommittedIsHandled' /\ HandledInOrder'
    BY DEF FetchedIsHandled, CommittedIsHandled, HandledInOrder
  <1>3. HandledExists'
    BY DEF HandledExists
  <1> QED
    BY <1>1, <1>2, <1>3

\* A polling member has handled all it fetched, so what it takes comes next.
LEMMA StepPoll ==
    ASSUME IInv, TypeOK', NEW c \in Consumers, NEW p \in Partitions, Poll(c, p)
    PROVE  IInv'
  <1> USE DEF IInv, TypeOK, Poll
  <1>1. 0..position[c][p] - 1 \subseteq handled[p]
    BY DEF FetchedIsHandled
  <1>2. InHand'
    <2> SUFFICES ASSUME NEW e \in Consumers
                 PROVE  InHand!(e)'
      BY DEF InHand
    <2>1. CASE e = c
      BY <1>1, <2>1, Nobody DEF InHand, Busy
    <2>2. CASE e # c
      BY <2>2 DEF InHand, Busy
    <2> QED
      BY <2>1, <2>2
  <1>3. FetchedIsHandled'
    <2> SUFFICES ASSUME NEW e \in Consumers, NEW q \in Partitions, assigned[q] = e,
                        NEW o \in 0..position'[e][q] - 1
                 PROVE  o \in handled[q] \/ (pc'[e] = "handling" /\ taken'[e] = <<q, o>>)
      BY DEF FetchedIsHandled
    <2>1. CASE e = c /\ q = p
      BY <1>1, <2>1
    <2>2. CASE e = c /\ q # p
      BY <2>2 DEF FetchedIsHandled
    <2>3. CASE e # c
      BY <2>3 DEF FetchedIsHandled
    <2> QED
      BY <2>1, <2>2, <2>3
  <1>4. HandledExists' /\ CommittedIsHandled' /\ HandledInOrder'
    BY DEF HandledExists, CommittedIsHandled, HandledInOrder
  <1> QED
    BY <1>2, <1>3, <1>4

\* The message of the member is handled after all before it.
LEMMA StepReturns ==
    ASSUME IInv, TypeOK', NEW c \in Consumers, HandlerReturns(c)
    PROVE  IInv'
  <1> USE DEF IInv, TypeOK, HandlerReturns
  <1>1. PICK p \in Partitions, n \in Nat : taken[c] = <<p, n>>
    BY DEF InHand, Busy
  <1>2. n < end[p] /\ 0..n - 1 \subseteq handled[p]
    BY <1>1 DEF InHand, Busy
  <1>3. handled' = [handled EXCEPT ![p] = @ \cup {n}]
    BY <1>1
  <1>4. \A q \in Partitions : handled[q] \subseteq handled'[q]
    BY <1>3
  <1>5. InHand'
    <2> SUFFICES ASSUME NEW e \in Consumers
                 PROVE  InHand!(e)'
      BY DEF InHand
    <2>1. CASE e = c
      BY <1>1, <1>2, <1>3, <2>1, Nobody DEF InHand, Busy
    <2>2. CASE e # c
      <3>1. Busy(e) => taken[e][1] \in Partitions
        BY DEF InHand
      <3> QED
        BY <1>4, <2>2, <3>1 DEF InHand, Busy
    <2> QED
      BY <2>1, <2>2
  <1>6. FetchedIsHandled'
    <2> SUFFICES ASSUME NEW e \in Consumers, NEW q \in Partitions, assigned[q] = e,
                        NEW o \in 0..position[e][q] - 1
                 PROVE  o \in handled'[q] \/ (pc'[e] = "handling" /\ taken[e] = <<q, o>>)
      BY DEF FetchedIsHandled
    <2>1. o \in handled[q] \/ (pc[e] = "handling" /\ taken[e] = <<q, o>>)
      BY DEF FetchedIsHandled
    <2> QED
      BY <1>1, <1>3, <1>4, <2>1
  <1>7. HandledExists'
    BY <1>2, <1>3 DEF HandledExists
  <1>8. CommittedIsHandled'
    BY <1>4 DEF CommittedIsHandled
  <1>9. HandledInOrder'
    <2> SUFFICES ASSUME NEW q \in Partitions, NEW o \in handled'[q]
                 PROVE  0..o \subseteq handled'[q]
      BY DEF HandledInOrder
    <2>1. CASE o \in handled[q]
      BY <1>4, <2>1 DEF HandledInOrder
    <2>2. CASE q = p /\ o = n
      <3>1. handled'[p] = handled[p] \cup {n}
        BY <1>3
      <3>2. \A i \in 0..n : i \in 0..n - 1 \/ i = n
        OBVIOUS
      <3>3. \A i \in 0..n : i \in handled'[p]
        BY <1>2, <3>1, <3>2
      <3> QED
        BY <2>2, <3>3
    <2> QED
      BY <1>3, <2>1, <2>2
  <1> QED
    BY <1>5, <1>6, <1>7, <1>8, <1>9

\* A failure goes back to the message in hand: all before it is handled.
LEMMA StepRaises ==
    ASSUME IInv, TypeOK', NEW c \in Consumers, HandlerRaises(c) \/ CommitRaises(c)
    PROVE  IInv'
  <1> USE DEF IInv, TypeOK
  <1>1. Busy(c) /\ Retry(c) /\ UNCHANGED <<end, committed, assigned, handled>>
    BY DEF HandlerRaises, CommitRaises, Busy
  <1>2. PICK p \in Partitions, n \in Nat : taken[c] = <<p, n>>
    <2>1. taken[c] \in Partitions \X Nat
      BY <1>1 DEF InHand
    <2> QED
      BY <2>1
  <1>3. 0..n - 1 \subseteq handled[p]
    <2>1. 0..taken[c][2] - 1 \subseteq handled[taken[c][1]]
      BY <1>1 DEF InHand
    <2> QED
      BY <1>2, <2>1
  <1>4. taken' = [taken EXCEPT ![c] = None]
    BY <1>1 DEF Retry
  <1>5. InHand'
    <2> SUFFICES ASSUME NEW e \in Consumers
                 PROVE  InHand!(e)'
      BY DEF InHand
    <2>1. CASE e = c
      BY <1>1, <1>4, <2>1 DEF Busy, Retry
    <2>2. CASE e # c
      BY <1>1, <1>4, <2>2 DEF InHand, Busy, Retry
    <2> QED
      BY <2>1, <2>2
  <1>6. FetchedIsHandled'
    <2> SUFFICES ASSUME NEW e \in Consumers, NEW q \in Partitions, assigned[q] = e,
                        NEW o \in 0..position'[e][q] - 1
                 PROVE  o \in handled[q] \/ (pc'[e] = "handling" /\ taken'[e] = <<q, o>>)
      BY <1>1 DEF FetchedIsHandled
    <2>1. CASE e = c /\ q = p
      BY <1>1, <1>2, <1>3, <2>1 DEF Retry, SeekBack
    <2>2. CASE e = c /\ q # p
      BY <1>1, <1>2, <2>2 DEF Retry, SeekBack, FetchedIsHandled
    <2>3. CASE e # c
      BY <1>1, <2>3 DEF Retry, SeekBack, FetchedIsHandled
    <2> QED
      BY <2>1, <2>2, <2>3
  <1>7. HandledExists' /\ CommittedIsHandled' /\ HandledInOrder'
    BY <1>1 DEF HandledExists, CommittedIsHandled, HandledInOrder
  <1> QED
    BY <1>5, <1>6, <1>7

\* A commit covers every partition of the member: it has handled all it fetched.
LEMMA StepCommit ==
    ASSUME IInv, TypeOK', NEW c \in Consumers, Commit(c)
    PROVE  IInv'
  <1> USE DEF IInv, TypeOK, Commit
  <1>1. InHand'
    BY DEF InHand, Busy
  <1>2. FetchedIsHandled'
    BY DEF FetchedIsHandled
  <1>3. CommittedIsHandled'
    BY DEF CommittedIsHandled, Positions, FetchedIsHandled
  <1>4. HandledExists' /\ HandledInOrder'
    BY DEF HandledExists, HandledInOrder
  <1> QED
    BY <1>1, <1>2, <1>3, <1>4

\* Whoever gets a partition starts where it is committed.
LEMMA StepRebalance ==
    ASSUME IInv, TypeOK', Rebalance
    PROVE  IInv'
  <1> USE DEF IInv, TypeOK, Rebalance, RestartAt
  <1>1. InHand'
    BY DEF InHand, Busy
  <1>2. FetchedIsHandled'
    BY DEF FetchedIsHandled, CommittedIsHandled
  <1>3. HandledExists' /\ CommittedIsHandled' /\ HandledInOrder'
    BY DEF HandledExists, CommittedIsHandled, HandledInOrder
  <1> QED
    BY <1>1, <1>2, <1>3

-----------------------------------------------------------------------------
(* The theorems *)

LEMMA Initially == Init => IInv
  BY TypeInit
  DEF Init, IInv, InHand, Busy, FetchedIsHandled, HandledExists, CommittedIsHandled,
      HandledInOrder

LEMMA Step == IInv /\ [Next]_vars => IInv'
  <1> SUFFICES ASSUME IInv, [Next]_vars
               PROVE  IInv'
    OBVIOUS
  <1>1. TypeOK'
    BY TypeStep
  <1>2. CASE UNCHANGED vars
    BY <1>2
    DEF vars, IInv, TypeOK, InHand, Busy, FetchedIsHandled, HandledExists,
        CommittedIsHandled, HandledInOrder
  <1>3. CASE Next
    BY <1>1, <1>3, StepArrive, StepPoll, StepReturns, StepRaises, StepCommit, StepLoop,
       StepRebalance
    DEF Next
  <1> QED
    BY <1>2, <1>3

\* The strengthening of the three invariants below is inductive.
THEOREM Inductive == Spec => []IInv
  BY Initially, Step, PTL DEF Spec

\* Every variable of the consumer group keeps its type.
THEOREM Typing == Spec => []TypeOK
  BY Inductive, PTL DEF IInv

\* The group never commits past a message that no handler has finished.
THEOREM CommitsFollowHandling == Spec => []CommittedIsHandled
  BY Inductive, PTL DEF IInv

\* Messages of a partition are first handled in the order of their offsets.
THEOREM HandlingIsOrdered == Spec => []HandledInOrder
  BY Inductive, PTL DEF IInv
===============================================================================
