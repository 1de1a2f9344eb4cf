----------------------------- MODULE OutcomePipeline -----------------------------
(***************************************************************************)
(* From a recorded outcome to its reward: FeedbackService commits the      *)
(* outcome with its outbox event, the outbox delivers the event at least   *)
(* once (DurableDelivery), the consumers of StreamConsumer hand it to      *)
(* EvaluationService.handle_outcome, which writes reward, incident memory  *)
(* and reward event in one transaction.                                    *)
(*                                                                         *)
(* A process reads its reward settings when it starts: the version of the  *)
(* action effects, which is part of the idempotency key, and the weights   *)
(* and costs, which are part of the reward only.                           *)
(***************************************************************************)
EXTENDS StreamConsumer, Sequences

CONSTANTS
    Decisions,
    Outcomes,   \* the partition of the outcomes topic
    Versions,   \* ActionEffects.version
    Economics,  \* reward components a version, the weights and the costs give
    Settings    \* the settings processes are deployed with

Config == [version: Versions, economics: Economics]

ASSUME Topics ==
    /\ Outcomes \in Partitions
    /\ None \notin Economics \cup Versions
    /\ Settings \subseteq Config

VARIABLES
    recorded,     \* decisions with an outcome, and with its outbox event
    outcomes,     \* the decision of each message of the outcomes partition
    config,       \* reward settings of each process
    rewards,      \* Reward rows by idempotency key <<decision, version>>
    memory,       \* the version of the reward an incident memory describes
    rewardEvents  \* outbox rows reward:outcome:<decision>:<version>

learned == <<rewards, memory, rewardEvents>>
pipelineVars == <<vars, recorded, outcomes, config, learned>>

PipelineTypeOK ==
    /\ TypeOK
    /\ recorded \subseteq Decisions
    /\ outcomes \in Seq(Decisions) /\ Len(outcomes) = end[Outcomes]
    /\ config \in [Consumers -> Settings]
    /\ rewards \in [Decisions \X Versions -> Economics \cup {None}]
    /\ memory \in [Decisions -> Versions \cup {None}]
    /\ rewardEvents \in [Decisions \X Versions -> Economics \cup {None}]

PipelineInit ==
    /\ Init
    /\ recorded = {} /\ outcomes = <<>>
    /\ config \in [Consumers -> Settings]
    /\ rewards = [k \in Decisions \X Versions |-> None]
    /\ memory = [d \in Decisions |-> None]
    /\ rewardEvents = [k \in Decisions \X Versions |-> None]

-----------------------------------------------------------------------------
(* Producing *)

\* FeedbackService.record_outcome and its outbox row, one transaction
RecordOutcome(d) ==
    /\ d \notin recorded
    /\ recorded' = recorded \cup {d}
    /\ UNCHANGED <<vars, outcomes, config, learned>>

\* The outbox delivers, and may deliver again
Deliver(d) ==
    /\ d \in recorded
    /\ Arrive(Outcomes)
    /\ outcomes' = Append(outcomes, d)
    /\ UNCHANGED <<recorded, config, learned>>

Other(p) ==
    /\ p # Outcomes
    /\ Arrive(p)
    /\ UNCHANGED <<recorded, outcomes, config, learned>>

-----------------------------------------------------------------------------
(* handle_outcome *)

Handling(c) == pc[c] = "handling" /\ taken[c][1] = Outcomes
DecisionOf(c) == outcomes[taken[c][2] + 1]
Key(c) == <<DecisionOf(c), config[c].version>>

\* Mutated form: a replay takes the reward the settings give now
Overwrites(c) == TRUE

\* RewardCalculator.calculate: everything but the settings of the process is in the
\* decision and its transactions
Computed(c) == config[c].economics

\* record_reward creates the row: there is none under the key
Creates(c) == rewards[Key(c)] = None

\* The row is there and says what the handler computed
Replays(c) == rewards[Key(c)] = Computed(c)

\* It says something else: _validate_reward_replay raises
Refuses(c) == ~Creates(c) /\ ~Replays(c)

\* The transaction of a reward that is new
Learn(c) ==
    /\ rewards' = [rewards EXCEPT ![Key(c)] = Computed(c)]
    /\ memory' = [memory EXCEPT ![DecisionOf(c)] = config[c].version]
    /\ rewardEvents' = [rewardEvents EXCEPT ![Key(c)] = Computed(c)]

Effect(c) == IF Creates(c) THEN Learn(c) ELSE UNCHANGED learned

Rewarded(c) ==
    /\ Handling(c) /\ ~Refuses(c)
    /\ Effect(c)
    /\ HandlerReturns(c)
    /\ UNCHANGED <<recorded, outcomes, config>>

\* It refuses, or its session fails, before the commit or, unknown to it, after
NotRewarded(c) ==
    /\ Handling(c)
    /\ UNCHANGED learned \/ (~Refuses(c) /\ Effect(c))
    /\ HandlerRaises(c)
    /\ UNCHANGED <<recorded, outcomes, config>>

\* The transactions handler may succeed or fail
OtherHandled(c) ==
    /\ pc[c] = "handling" /\ ~Handling(c)
    /\ HandlerReturns(c) \/ HandlerRaises(c)
    /\ UNCHANGED <<recorded, outcomes, config, learned>>

\* A process starts with the settings it is deployed with
Deploy(c) ==
    /\ Start(c)
    /\ \E s \in Settings : config' = [config EXCEPT ![c] = s]
    /\ UNCHANGED <<recorded, outcomes, learned>>

\* Steps of the loop, of its failures and of the group that touch no reward
Transport(c) ==
    /\ (\E p \in Partitions : Poll(c, p)) \/ Commit(c)
    /\ UNCHANGED <<recorded, outcomes, config, learned>>

Disturb(c) ==
    /\ CommitRaises(c) \/ FetchFails(c) \/ Crash(c)
    /\ UNCHANGED <<recorded, outcomes, config, learned>>

Regroup == Rebalance /\ UNCHANGED <<recorded, outcomes, config, learned>>

PipelineNext ==
    \/ \E d \in Decisions : RecordOutcome(d) \/ Deliver(d)
    \/ \E p \in Partitions : Other(p)
    \/ \E c \in Consumers :
        Rewarded(c) \/ NotRewarded(c) \/ OtherHandled(c) \/ Deploy(c)
        \/ Transport(c) \/ Disturb(c)
    \/ Regroup

PipelineSpec == PipelineInit /\ [][PipelineNext]_pipelineVars

-----------------------------------------------------------------------------
(* Properties *)

Learned(d) == memory[d] # None /\ rewardEvents[<<d, memory[d]>>] # None

\* No outcome is lost on its way: below the committed offset every outcome has
\* its incident memory, and the memory a reward whose event is in the outbox.
CommittedIsLearned ==
    \A o \in 0..committed[Outcomes] - 1 : Learned(outcomes[o + 1])

\* A reward, once written, never changes, whatever settings a later process
\* handles the same event with.
RewardsAreFinal ==
    [][\A k \in DOMAIN rewards : rewards[k] # None => rewards'[k] = rewards[k]]_pipelineVars

\* An event of a decision that has its reward is a replay of it, whichever process
\* the duplicate reaches: it neither rewards the decision again nor is refused.
DuplicatesAreReplays ==
    \A c \in Consumers :
        Handling(c) /\ (\E v \in Versions : rewards[<<DecisionOf(c), v>>] # None) => Replays(c)
===============================================================================
