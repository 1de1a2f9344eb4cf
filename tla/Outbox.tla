-------------------------------- MODULE Outbox --------------------------------
(***************************************************************************)
(* The transactional outbox: services enqueue events beside their rows,    *)
(* and the OutboxDispatcher of every API process claims batches under a    *)
(* lease, publishes them through its EventProducer and marks them.         *)
(*                                                                         *)
(* A database session is one step, except claim_batch, whose read of ids   *)
(* and conditional updates are two: the updates hold row locks until the   *)
(* commit, the read holds none.  A message whose send was given up may     *)
(* still be in the producer's buffer or on the wire: it is a stray copy,   *)
(* which lands in the topic later or is lost.                              *)
(***************************************************************************)
EXTENDS FiniteSets, Naturals

CONSTANTS
    Dispatchers,        \* API processes, each with one OutboxDispatcher
    Events,             \* outbox event ids
    Contents,           \* what a row says apart from its id
    Limit,              \* outbox_batch_size
    Gone,               \* a worker_id whose process died
    None                \* absence of a value

ASSUME Parameters ==
    /\ Limit \in Nat \ {0} /\ IsFiniteSet(Events)
    /\ None \notin Contents \cup Dispatchers \cup {Gone}
    /\ Gone \notin Dispatchers
    /\ None \notin [event: Events, content: Contents]

VARIABLES
    content,    \* per event: topic, type, payload, trace and key of its row
    created,    \* its place in created_at order
    status,     \* OutboxEvent.status
    owner,      \* claimed_by
    expired,    \* claim_until has passed
    waiting,    \* available_at is in the future
    attempts,   \* OutboxEvent.attempts
    topic,      \* how often each message is in the Redpanda topic
    stray,      \* how often it is on its way without anyone waiting for it
    pc,         \* where each dispatcher stands in drain_once
    ids,        \* the event ids claim_batch has read
    batch,      \* the claimed rows it has yet to publish and mark
    current,    \* the row it is working on
    tries,      \* failed tries of its send_envelope
    overran     \* history: a batch has taken longer than outbox_lease_seconds

row == <<content, created, status, owner, expired, waiting, attempts>>
network == <<topic, stray>>
private == <<pc, ids, batch, current, tries>>
vars == <<row, network, private, overran>>

Message == [event: Events, content: Contents]
Statuses == {"absent", "pending", "publishing", "published"}
SendTries == 3  \* attempts of send_envelope

TypeOK ==
    /\ content \in [Events -> Contents \cup {None}]
    /\ created \in [Events -> Nat]
    /\ status \in [Events -> Statuses]
    /\ owner \in [Events -> Dispatchers \cup {Gone, None}]
    /\ expired \in [Events -> BOOLEAN]
    /\ waiting \in [Events -> BOOLEAN]
    /\ attempts \in [Events -> Nat]
    /\ topic \in [Message -> Nat]
    /\ stray \in [Message -> Nat]
    /\ pc \in [Dispatchers -> {"idle", "claim", "batch", "send", "sent", "failed"}]
    /\ ids \in [Dispatchers -> SUBSET Events]
    /\ batch \in [Dispatchers -> SUBSET Message]
    /\ current \in [Dispatchers -> Message \cup {None}]
    /\ tries \in [Dispatchers -> 0..SendTries - 1]
    /\ overran \in BOOLEAN

Init ==
    /\ content = [e \in Events |-> None]
    /\ created = [e \in Events |-> 0]
    /\ status = [e \in Events |-> "absent"]
    /\ owner = [e \in Events |-> None]
    /\ expired = [e \in Events |-> FALSE]
    /\ waiting = [e \in Events |-> FALSE]
    /\ attempts = [e \in Events |-> 0]
    /\ topic = [m \in Message |-> 0]
    /\ stray = [m \in Message |-> 0]
    /\ pc = [d \in Dispatchers |-> "idle"]
    /\ ids = [d \in Dispatchers |-> {}]
    /\ batch = [d \in Dispatchers |-> {}]
    /\ current = [d \in Dispatchers |-> None]
    /\ tries = [d \in Dispatchers |-> 0]
    /\ overran = FALSE

RowOf(e) == [event |-> e, content |-> content[e]]

-----------------------------------------------------------------------------
(* Writers *)

\* Mutated form: a pending row takes the content of a repeated enqueue
UnwrittenOrPending(e) == status[e] \in {"absent", "pending"}

Unwritten(e) == status[e] = "absent"

\* enqueue_once commits with the caller's rows.  On a row that is there it
\* returns it or, when the content differs, raises: no step either way.
EnqueueOnce(e, c) ==
    /\ Unwritten(e)
    /\ content' = [content EXCEPT ![e] = c]
    /\ created' = [created EXCEPT ![e] = Cardinality({f \in Events : content[f] # None})]
    /\ status' = [status EXCEPT ![e] = "pending"]
    /\ UNCHANGED <<owner, expired, waiting, attempts, network, private, overran>>

-----------------------------------------------------------------------------
(* claim_batch *)

\* Mutated form: a row whose lease ran out stays with its dead owner
ClaimablePending(e) == status[e] = "pending" /\ ~waiting[e]

Claimable(e) ==
    /\ ~waiting[e]
    /\ status[e] = "pending" \/ (status[e] = "publishing" /\ expired[e])

\* The first Limit claimable rows in created_at order, maybe none
Oldest(S) ==
    LET all == {e \in Events : Claimable(e)}
    IN  /\ S \subseteq all
        /\ Cardinality(S) <= Limit
        /\ S = all \/ Cardinality(S) = Limit
        /\ \A e \in S, f \in all \ S : created[e] <= created[f]

ReadIds(d) ==
    /\ pc[d] = "idle"
    /\ \E S \in SUBSET Events :
        /\ Oldest(S)
        /\ ids' = [ids EXCEPT ![d] = S]
    /\ pc' = [pc EXCEPT ![d] = "claim"]
    /\ UNCHANGED <<row, network, batch, current, tries, overran>>

\* Mutated form: the update trusts the ids read before it
StillReadClaimable(d) == ids[d]

\* The rows whose conditional update still matches
StillClaimable(d) == {e \in ids[d] : Claimable(e)}

ClaimRows(d) ==
    /\ pc[d] = "claim"
    /\ LET S == StillClaimable(d)
       IN  /\ status' = [e \in Events |-> IF e \in S THEN "publishing" ELSE status[e]]
           /\ owner' = [e \in Events |-> IF e \in S THEN d ELSE owner[e]]
           /\ expired' = [e \in Events |-> expired[e] /\ e \notin S]
           /\ attempts' = [e \in Events |-> attempts[e] + IF e \in S THEN 1 ELSE 0]
           /\ batch' = [batch EXCEPT ![d] = {RowOf(e) : e \in S}]
    /\ ids' = [ids EXCEPT ![d] = {}]
    /\ pc' = [pc EXCEPT ![d] = "batch"]
    /\ UNCHANGED <<content, created, waiting, network, current, tries, overran>>

-----------------------------------------------------------------------------
(* The batch: the last select has no ORDER BY, so its rows come in any order *)

Take(d) ==
    /\ pc[d] = "batch"
    /\ \E m \in batch[d] : current' = [current EXCEPT ![d] = m]
    /\ tries' = [tries EXCEPT ![d] = 0]
    /\ pc' = [pc EXCEPT ![d] = "send"]
    /\ UNCHANGED <<row, network, ids, batch, overran>>

EndOfBatch(d) ==
    /\ pc[d] = "batch" /\ batch[d] = {}
    /\ pc' = [pc EXCEPT ![d] = "idle"]
    /\ UNCHANGED <<row, network, ids, batch, current, tries, overran>>

\* send_and_wait returns: the message is in the topic
Acknowledged(d) ==
    /\ pc[d] = "send"
    /\ topic' = [topic EXCEPT ![current[d]] = @ + 1]
    /\ pc' = [pc EXCEPT ![d] = "sent"]
    /\ UNCHANGED <<row, stray, ids, batch, current, tries, overran>>

\* A try gives up on a copy that may still land, or that never left
Strand(d) ==
    \E n \in {0, 1} : stray' = [stray EXCEPT ![current[d]] = @ + n]

\* Mutated form: one try more than the loop has
TriesLeftOffByOne(d) == tries[d] < SendTries

\* Mutated form: a send that fails for good is taken for a published one
FailedAsSent(d) == pc' = [pc EXCEPT ![d] = "sent"]

Failed(d) == pc' = [pc EXCEPT ![d] = "failed"]

TriesLeft(d) == tries[d] < SendTries - 1

SendError(d) ==
    /\ pc[d] = "send"
    /\ Strand(d)
    /\ IF TriesLeft(d)
       THEN tries' = [tries EXCEPT ![d] = @ + 1] /\ UNCHANGED pc
       ELSE Failed(d) /\ UNCHANGED tries
    /\ UNCHANGED <<row, topic, ids, batch, current, overran>>

\* EventProducer.start, which the first send needs, or the creation of the topics raises:
\* no copy has left.  Whether another user of the producer started it before is left open.
StartFails(d) ==
    /\ pc[d] = "send" /\ tries[d] = 0
    /\ Failed(d)
    /\ UNCHANGED <<row, network, ids, batch, current, tries, overran>>

\* wait_for runs out over all tries
SendGivenUp(d) ==
    /\ pc[d] = "send"
    /\ Strand(d)
    /\ Failed(d)
    /\ UNCHANGED <<row, topic, ids, batch, current, tries, overran>>

\* The condition of both marks: the lease itself is not asked for
Mine(d) ==
    /\ status[current[d].event] = "publishing"
    /\ owner[current[d].event] = d

\* The row leaves the batch whether or not its update matched
NextRow(d) ==
    /\ batch' = [batch EXCEPT ![d] = @ \ {current[d]}]
    /\ current' = [current EXCEPT ![d] = None]
    /\ pc' = [pc EXCEPT ![d] = "batch"]
    /\ UNCHANGED <<ids, tries>>

Mark(d, s, wait) ==
    LET e == current[d].event
    IN  /\ status' = [status EXCEPT ![e] = s]
        /\ owner' = [owner EXCEPT ![e] = None]
        /\ expired' = [expired EXCEPT ![e] = FALSE]
        /\ waiting' = [waiting EXCEPT ![e] = wait]

MarkPublished(d) ==
    /\ pc[d] = "sent"
    /\ IF Mine(d) THEN Mark(d, "published", FALSE)
       ELSE UNCHANGED <<status, owner, expired, waiting>>
    /\ NextRow(d)
    /\ UNCHANGED <<content, created, attempts, network, overran>>

MarkFailed(d) ==
    /\ pc[d] = "failed"
    /\ IF Mine(d) THEN Mark(d, "pending", TRUE)
       ELSE UNCHANGED <<status, owner, expired, waiting>>
    /\ NextRow(d)
    /\ UNCHANGED <<content, created, attempts, network, overran>>

-----------------------------------------------------------------------------
(* Failures, time and the network *)

Forget(d) ==
    /\ pc' = [pc EXCEPT ![d] = "idle"]
    /\ ids' = [ids EXCEPT ![d] = {}]
    /\ batch' = [batch EXCEPT ![d] = {}]
    /\ current' = [current EXCEPT ![d] = None]
    /\ tries' = [tries EXCEPT ![d] = 0]

\* A session raises: drain_once ends and leaves the rest of its batch claimed
SessionError(d) ==
    /\ pc[d] \in {"claim", "sent", "failed"}
    /\ Forget(d)
    /\ UNCHANGED <<row, network, overran>>

\* The process dies; the one that replaces it has another worker_id
Crash(d) ==
    /\ Forget(d)
    /\ owner' = [e \in Events |-> IF owner[e] = d THEN Gone ELSE owner[e]]
    /\ UNCHANGED <<content, created, status, expired, waiting, attempts, network, overran>>

Overruns(e) == \E d \in Dispatchers : owner[e] = d /\ \E m \in batch[d] : m.event = e

LeaseExpires(e) ==
    /\ status[e] = "publishing" /\ ~expired[e]
    /\ overran' = (overran \/ Overruns(e))
    /\ expired' = [expired EXCEPT ![e] = TRUE]
    /\ UNCHANGED <<content, created, status, owner, waiting, attempts, network, private>>

BackoffElapses(e) ==
    /\ waiting[e]
    /\ waiting' = [waiting EXCEPT ![e] = FALSE]
    /\ UNCHANGED <<content, created, status, owner, expired, attempts, network, private,
                   overran>>

StrayLands(m) ==
    /\ stray[m] > 0
    /\ stray' = [stray EXCEPT ![m] = @ - 1]
    /\ topic' = [topic EXCEPT ![m] = @ + 1]
    /\ UNCHANGED <<row, private, overran>>

StrayLost(m) ==
    /\ stray[m] > 0
    /\ stray' = [stray EXCEPT ![m] = @ - 1]
    /\ UNCHANGED <<row, topic, private, overran>>

Drain(d) ==
    \/ ReadIds(d) \/ ClaimRows(d) \/ Take(d) \/ EndOfBatch(d)
    \/ Acknowledged(d) \/ MarkPublished(d) \/ MarkFailed(d)

Trouble(d) ==
    StartFails(d) \/ SendError(d) \/ SendGivenUp(d) \/ SessionError(d) \/ Crash(d)

Next ==
    \/ \E e \in Events :
        \/ \E c \in Contents : EnqueueOnce(e, c)
        \/ LeaseExpires(e) \/ BackoffElapses(e)
    \/ \E d \in Dispatchers : Drain(d) \/ Trouble(d)
    \/ \E m \in Message : StrayLands(m) \/ StrayLost(m)

Spec == Init /\ [][Next]_vars

-----------------------------------------------------------------------------
(* Properties *)

\* No event is given up before it reached the topic: a published row, and a row
\* a dispatcher is about to mark so, has a copy there, whichever dispatcher,
\* crash, timeout or lost lease came in between.
PublishedIsDelivered ==
    /\ \A e \in Events : status[e] = "published" => topic[RowOf(e)] > 0
    /\ \A d \in Dispatchers : pc[d] = "sent" => topic[current[d]] > 0

\* Every copy of an event, in the topic, on its way or in the hands of a
\* dispatcher that lost its lease, says what the committed row says.
CopiesAreCommitted ==
    \A m \in Message :
        topic[m] > 0 \/ stray[m] > 0 \/ (\E d \in Dispatchers : m \in batch[d])
            => content[m.event] = m.content

\* Every duplicate is paid for by a claim: one claim puts at most SendTries
\* copies on the way, also when it outlives its lease.
CopiesAreClaimed ==
    \A m \in Message : topic[m] + stray[m] <= SendTries * attempts[m.event]

\* As long as no batch outran its lease, the row a dispatcher publishes is claimed
\* by it and by no other, between its claim and its mark.
HeldExclusively ==
    ~overran =>
        \A d \in Dispatchers : \A m \in batch[d] :
            /\ status[m.event] = "publishing"
            /\ owner[m.event] = d
            /\ ~expired[m.event]

\* The outbox implements durable at-least-once delivery.
Delivery == INSTANCE DurableDelivery WITH
    entrusted <- content,
    delivered <- topic,
    settled <- {f \in Events : status[f] = "published"}
ImplementsDelivery == Delivery!Spec

\* An enqueued event is published in the end.
EventuallyPublished ==
    \A e \in Events : status[e] # "absent" ~> status[e] = "published"
===============================================================================
