-------------------------- MODULE OutcomePipelineProofs --------------------------
(* What OutcomePipeline guarantees for any consumers, settings and schedule. *)
EXTENDS OutcomePipeline, StreamConsumerProofs, SequenceTheorems

\* What a handler has finished is learned from
HandledIsLearned == \A o \in handled[Outcomes] : Learned(outcomes[o + 1])

\* A reward comes with the memory of its decision
RewardIsLearned ==
    \A d \in Decisions, v \in Versions : rewards[<<d, v>>] # None => Learned(d)

PInv == IInv /\ PipelineTypeOK /\ HandledIsLearned /\ RewardIsLearned

-----------------------------------------------------------------------------
(* Steps of the consumers *)

\* Every step of the pipeline is a step of the consumer group, or none of it.
LEMMA ConsumersStep == [PipelineNext]_pipelineVars => [Next]_vars
  <1> SUFFICES ASSUME [PipelineNext]_pipelineVars
               PROVE  [Next]_vars
    OBVIOUS
  <1>1. ASSUME NEW d \in Decisions, RecordOutcome(d)
        PROVE  UNCHANGED vars
    BY <1>1 DEF RecordOutcome
  <1>2. ASSUME NEW d \in Decisions, Deliver(d)
        PROVE  Next
    BY <1>2, Topics DEF Deliver, Next
  <1>3. ASSUME NEW p \in Partitions, Other(p)
        PROVE  Next
    BY <1>3 DEF Other, Next
  <1>4. ASSUME NEW c \in Consumers, Rewarded(c) \/ NotRewarded(c) \/ OtherHandled(c)
        PROVE  Next
    <2>1. HandlerReturns(c) \/ HandlerRaises(c)
      BY <1>4 DEF Rewarded, NotRewarded, OtherHandled
    <2> QED
      BY <2>1 DEF Next
  <1>5. ASSUME NEW c \in Consumers, Deploy(c) \/ Transport(c) \/ Disturb(c)
        PROVE  Next
    BY <1>5 DEF Deploy, Transport, Disturb, Next
  <1>6. CASE Regroup
    BY <1>6 DEF Regroup, Next
  <1>7. CASE UNCHANGED pipelineVars
    BY <1>7 DEF pipelineVars
  <1> QED
    BY <1>1, <1>2, <1>3, <1>4, <1>5, <1>6, <1>7 DEF PipelineNext

\* The message in hand names a decision.
LEMMA HandledDecision ==
    ASSUME PInv, NEW c \in Consumers, Handling(c)
    PROVE  /\ taken[c] = <<Outcomes, taken[c][2]>> /\ taken[c][2] \in Nat
           /\ DecisionOf(c) \in Decisions /\ Key(c) \in Decisions \X Versions
           /\ Key(c) = <<DecisionOf(c), config[c].version>>
           /\ config[c].version \in Versions /\ config[c].economics \in Economics
  <1>1. taken[c] \in Partitions \X Nat
    BY DEF PInv, IInv, TypeOK, InHand, Handling, Busy
  <1>2. taken[c] = <<Outcomes, taken[c][2]>> /\ taken[c][2] \in Nat
    BY <1>1 DEF Handling
  <1>3. taken[c][2] < end[Outcomes]
    BY <1>1 DEF PInv, IInv, InHand, Handling, Busy
  <1>4. end[Outcomes] = Len(outcomes) /\ outcomes \in Seq(Decisions)
    BY DEF PInv, PipelineTypeOK
  <1>5. DecisionOf(c) \in Decisions
    BY <1>2, <1>3, <1>4, ElementOfSeq DEF DecisionOf
  <1>6. config[c] \in Config
    BY Topics DEF PInv, PipelineTypeOK
  <1> QED
    BY <1>2, <1>5, <1>6 DEF Key, Config

-----------------------------------------------------------------------------
(* The transaction of a reward *)

\* It is written whole: afterwards the decision is learned from, and every
\* decision that was learned from still is.
LEMMA EffectLearns ==
    ASSUME PInv, NEW c \in Consumers, Handling(c), ~Refuses(c), Effect(c),
           NEW d \in Decisions, d = DecisionOf(c)
    PROVE  /\ rewards' \in [Decisions \X Versions -> Economics \cup {None}]
           /\ memory' \in [Decisions -> Versions \cup {None}]
           /\ rewardEvents' \in [Decisions \X Versions -> Economics \cup {None}]
           /\ Learned(d)'
           /\ \A e \in Decisions : Learned(e) => Learned(e)'
           /\ RewardIsLearned'
           /\ \A k \in Decisions \X Versions : rewards[k] # None => rewards'[k] = rewards[k]
  <1> DEFINE v == config[c].version
             r == config[c].economics
  <1>1. d \in Decisions /\ v \in Versions /\ r \in Economics /\ Key(c) = <<d, v>>
    BY HandledDecision
  <1>2. v # None /\ r # None
    BY <1>1, Topics
  <1>3. /\ rewards \in [Decisions \X Versions -> Economics \cup {None}]
        /\ memory \in [Decisions -> Versions \cup {None}]
        /\ rewardEvents \in [Decisions \X Versions -> Economics \cup {None}]
        /\ RewardIsLearned
    BY DEF PInv, PipelineTypeOK
  <1>4. CASE Creates(c)
    <2>1. /\ rewards' = [rewards EXCEPT ![<<d, v>>] = r]
          /\ memory' = [memory EXCEPT ![d] = v]
          /\ rewardEvents' = [rewardEvents EXCEPT ![<<d, v>>] = r]
          /\ rewards[<<d, v>>] = None
      BY <1>1, <1>4 DEF Effect, Learn, Computed, Creates
    <2> HIDE DEF v, r
    <2>2. /\ rewards' \in [Decisions \X Versions -> Economics \cup {None}]
          /\ memory' \in [Decisions -> Versions \cup {None}]
          /\ rewardEvents' \in [Decisions \X Versions -> Economics \cup {None}]
      BY <1>1, <1>3, <2>1
    <2>3. Learned(d)'
      BY <1>1, <1>2, <1>3, <2>1 DEF Learned
    <2>4. ASSUME NEW e \in Decisions, e # d, Learned(e)
          PROVE  Learned(e)'
      BY <1>1, <1>2, <1>3, <2>1, <2>4 DEF Learned
    <2>5. ASSUME NEW e \in Decisions, NEW w \in Versions, rewards'[<<e, w>>] # None
          PROVE  Learned(e)'
      BY <1>1, <1>3, <2>1, <2>3, <2>4, <2>5 DEF RewardIsLearned
    <2>6. \A k \in Decisions \X Versions : rewards[k] # None => rewards'[k] = rewards[k]
      BY <1>1, <1>3, <2>1
    <2> QED
      BY <2>2, <2>3, <2>4, <2>5, <2>6 DEF RewardIsLearned
  <1>5. CASE ~Creates(c)
    <2>1. UNCHANGED <<rewards, memory, rewardEvents>>
      BY <1>5 DEF Effect, learned
    <2>2. Learned(d)
      BY <1>1, <1>3, <1>5 DEF Creates, RewardIsLearned
    <2> QED
      BY <1>3, <2>1, <2>2 DEF Learned, RewardIsLearned
  <1> QED
    BY <1>4, <1>5

\* What every step does to rewards, memories and reward events.
LEMMA LearningStep ==
    ASSUME PInv, [PipelineNext]_pipelineVars
    PROVE  /\ rewards' \in [Decisions \X Versions -> Economics \cup {None}]
           /\ memory' \in [Decisions -> Versions \cup {None}]
           /\ rewardEvents' \in [Decisions \X Versions -> Economics \cup {None}]
           /\ \A e \in Decisions : Learned(e) => Learned(e)'
           /\ RewardIsLearned'
           /\ \A k \in Decisions \X Versions : rewards[k] # None => rewards'[k] = rewards[k]
  <1>1. CASE UNCHANGED learned
    BY <1>1 DEF PInv, PipelineTypeOK, learned, Learned, RewardIsLearned
  <1>2. CASE \E c \in Consumers : Handling(c) /\ ~Refuses(c) /\ Effect(c)
    <2>1. PICK c \in Consumers : Handling(c) /\ ~Refuses(c) /\ Effect(c)
      BY <1>2
    <2>2. DecisionOf(c) \in Decisions
      BY <2>1, HandledDecision
    <2> QED
      BY <2>1, <2>2, EffectLearns
  <1>3. ASSUME NEW c \in Consumers, Rewarded(c) \/ NotRewarded(c)
        PROVE  UNCHANGED learned \/ (Handling(c) /\ ~Refuses(c) /\ Effect(c))
    BY <1>3 DEF Rewarded, NotRewarded
  <1>4. UNCHANGED learned \/ \E c \in Consumers : Rewarded(c) \/ NotRewarded(c)
    BY DEF PipelineNext, RecordOutcome, Deliver, Other, OtherHandled, Deploy, Transport,
           Disturb, Regroup, pipelineVars
  <1> QED
    BY <1>1, <1>2, <1>3, <1>4

-----------------------------------------------------------------------------
(* The rest of a step *)

LEMMA TypeRest ==
    ASSUME PInv, [PipelineNext]_pipelineVars
    PROVE  /\ recorded' \subseteq Decisions
           /\ config' \in [Consumers -> Settings]
  BY DEF PInv, PipelineTypeOK, PipelineNext, RecordOutcome, Deliver, Other, Rewarded,
         NotRewarded, OtherHandled, Deploy, Transport, Disturb, Regroup, pipelineVars

\* Messages are only appended, one for each offset
OnlyAppended ==
    /\ outcomes' \in Seq(Decisions) /\ Len(outcomes') = end'[Outcomes]
    /\ \A o \in 0..end[Outcomes] - 1 : outcomes'[o + 1] = outcomes[o + 1]

LEMMA TopicStep ==
    ASSUME PInv, [PipelineNext]_pipelineVars
    PROVE  OnlyAppended
  <1>1. /\ outcomes \in Seq(Decisions) /\ Len(outcomes) = end[Outcomes]
        /\ end \in [Partitions -> Nat]
    BY DEF PInv, PipelineTypeOK, TypeOK
  <1>2. ASSUME NEW d \in Decisions, Deliver(d)
        PROVE  OnlyAppended
    BY <1>1, <1>2, Topics, AppendProperties DEF Deliver, Arrive, OnlyAppended
  <1>3. ASSUME NEW p \in Partitions, Other(p)
        PROVE  OnlyAppended
    BY <1>1, <1>3 DEF Other, Arrive, OnlyAppended
  <1>4. CASE UNCHANGED <<outcomes, end>>
    BY <1>1, <1>4 DEF OnlyAppended
  <1>5. ASSUME NEW c \in Consumers,
               \/ Rewarded(c) \/ NotRewarded(c) \/ OtherHandled(c)
               \/ Deploy(c) \/ Transport(c) \/ Disturb(c)
        PROVE  UNCHANGED <<outcomes, end>>
    BY <1>5
    DEF Rewarded, NotRewarded, OtherHandled, Deploy, Transport, Disturb, Poll, Commit,
        CommitRaises, FetchFails, Crash, Start, HandlerReturns, HandlerRaises
  <1>6. ASSUME (\E d \in Decisions : RecordOutcome(d)) \/ Regroup \/ UNCHANGED pipelineVars
        PROVE  UNCHANGED <<outcomes, end>>
    BY <1>6 DEF RecordOutcome, Regroup, Rebalance, pipelineVars, vars
  <1> QED
    BY <1>2, <1>3, <1>4, <1>5, <1>6 DEF PipelineNext

\* What a step adds to the handled offsets of the topic was rewarded in it.
LEMMA HandledStep ==
    ASSUME PInv, [PipelineNext]_pipelineVars, NEW o \in handled'[Outcomes],
           o \notin handled[Outcomes]
    PROVE  \E c \in Consumers : Rewarded(c) /\ o = taken[c][2]
  <1>1. handled \in [Partitions -> SUBSET Nat]
    BY DEF PInv, PipelineTypeOK, TypeOK
  <1>2. ASSUME NEW c \in Consumers, Rewarded(c)
        PROVE  o = taken[c][2]
    BY <1>1, <1>2, HandledDecision, Topics DEF Rewarded, HandlerReturns
  <1>3. ASSUME NEW c \in Consumers, OtherHandled(c)
        PROVE  FALSE
    <2>1. pc[c] = "handling" /\ taken[c][1] # Outcomes
      BY <1>3 DEF OtherHandled, Handling
    <2>2. CASE HandlerReturns(c)
      BY <1>1, <2>1, <2>2, Topics DEF HandlerReturns
    <2>3. CASE HandlerRaises(c)
      BY <2>3 DEF HandlerRaises
    <2> QED
      BY <1>3, <2>2, <2>3 DEF OtherHandled
  <1>4. ASSUME NEW c \in Consumers, NotRewarded(c) \/ Deploy(c) \/ Transport(c) \/ Disturb(c)
        PROVE  FALSE
    BY <1>4
    DEF NotRewarded, Deploy, Transport, Disturb, Poll, Commit, CommitRaises, FetchFails,
        Crash, Start, HandlerRaises
  <1>5. ASSUME \/ \E d \in Decisions : RecordOutcome(d) \/ Deliver(d)
               \/ \E p \in Partitions : Other(p)
               \/ Regroup \/ UNCHANGED pipelineVars
        PROVE  FALSE
    BY <1>5 DEF RecordOutcome, Deliver, Other, Arrive, Regroup, Rebalance, pipelineVars, vars
  <1> QED
    BY <1>2, <1>3, <1>4, <1>5 DEF PipelineNext

LEMMA HandledIsLearnedStep ==
    ASSUME PInv, [PipelineNext]_pipelineVars
    PROVE  HandledIsLearned'
  <1> SUFFICES ASSUME NEW o \in handled'[Outcomes]
               PROVE  Learned(outcomes[o + 1])'
    BY DEF HandledIsLearned
  <1>1. CASE o \in handled[Outcomes]
    <2>1. o \in 0..end[Outcomes] - 1
      BY <1>1, Topics DEF PInv, IInv, HandledExists
    <2>2. outcomes'[o + 1] = outcomes[o + 1] /\ outcomes[o + 1] \in Decisions
      BY <2>1, TopicStep, ElementOfSeq, Topics
      DEF PInv, PipelineTypeOK, TypeOK, OnlyAppended
    <2>3. Learned(outcomes[o + 1])
      BY <1>1 DEF PInv, HandledIsLearned
    <2> DEFINE d == outcomes[o + 1]
    <2> QED
      BY <2>2, <2>3, LearningStep DEF Learned
  <1>2. CASE o \notin handled[Outcomes]
    <2>1. PICK c \in Consumers : Rewarded(c) /\ o = taken[c][2]
      BY <1>2, HandledStep
    <2>2. PICK d \in Decisions : d = DecisionOf(c)
      BY <2>1, HandledDecision DEF Rewarded
    <2>3. Learned(d)'
      BY <2>1, <2>2, EffectLearns DEF Rewarded
    <2>4. outcomes'[o + 1] = d
      BY <2>1, <2>2 DEF Rewarded, DecisionOf
    <2> QED
      BY <2>3, <2>4 DEF Learned
  <1> QED
    BY <1>1, <1>2

-----------------------------------------------------------------------------
(* The theorems *)

LEMMA PipelineInitially == PipelineInit => PInv
  <1> SUFFICES ASSUME PipelineInit
               PROVE  PInv
    OBVIOUS
  <1>1. IInv
    BY Initially DEF PipelineInit
  <1>2. PipelineTypeOK
    BY <1>1, Topics DEF PipelineInit, Init, PipelineTypeOK, IInv
  <1>3. HandledIsLearned /\ RewardIsLearned
    BY Topics DEF PipelineInit, Init, HandledIsLearned, RewardIsLearned
  <1> QED
    BY <1>1, <1>2, <1>3 DEF PInv

LEMMA PipelineStep == PInv /\ [PipelineNext]_pipelineVars => PInv'
  <1> SUFFICES ASSUME PInv, [PipelineNext]_pipelineVars
               PROVE  PInv'
    OBVIOUS
  <1>1. IInv'
    BY ConsumersStep, Step DEF PInv
  <1>2. PipelineTypeOK'
    BY <1>1, LearningStep, TypeRest, TopicStep
    DEF PipelineTypeOK, IInv, OnlyAppended
  <1> QED
    BY <1>1, <1>2, LearningStep, HandledIsLearnedStep DEF PInv

\* The strengthening of the properties below is inductive.
THEOREM PipelineInductive == PipelineSpec => []PInv
  BY PipelineInitially, PipelineStep, PTL DEF PipelineSpec

\* Every variable of the pipeline keeps its type, the topic its length.
THEOREM PipelineTyping == PipelineSpec => []PipelineTypeOK
  BY PipelineInductive, PTL DEF PInv

\* No outcome below the committed offset is without its memory and reward event.
THEOREM NoOutcomeIsLost == PipelineSpec => []CommittedIsLearned
  <1>1. ASSUME PInv
        PROVE  CommittedIsLearned
    BY <1>1, Topics
    DEF PInv, IInv, CommittedIsHandled, HandledIsLearned, CommittedIsLearned
  <1> QED
    BY <1>1, PipelineInductive, PTL

\* No step changes a reward that is written.
THEOREM RewardsStay == PipelineSpec => RewardsAreFinal
  <1>1. ASSUME PInv, [PipelineNext]_pipelineVars
        PROVE  \A k \in DOMAIN rewards : rewards[k] # None => rewards'[k] = rewards[k]
    BY <1>1, LearningStep DEF PInv, PipelineTypeOK
  <1> QED
    BY <1>1, PipelineInductive, PTL DEF PipelineSpec, RewardsAreFinal
===============================================================================
