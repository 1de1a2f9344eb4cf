--------------------------- MODULE DurableDelivery ---------------------------
(***************************************************************************)
(* What the transactional outbox promises its writers, with dispatchers,   *)
(* leases, batches and crashes left out: an event is entrusted once, with  *)
(* one content; it reaches the topic any number of times, always with that *)
(* content; and it is settled only when it has reached the topic.          *)
(***************************************************************************)
EXTENDS Naturals

CONSTANTS Events, Contents, None

VARIABLES
    entrusted,  \* the content each event was entrusted with
    delivered,  \* how often each message [event, content] is in the topic
    settled     \* events the sender will not send again

vars == <<entrusted, delivered, settled>>

Init ==
    /\ entrusted = [e \in Events |-> None]
    /\ delivered = [m \in [event: Events, content: Contents] |-> 0]
    /\ settled = {}

Entrust(e, c) ==
    /\ entrusted[e] = None
    /\ entrusted' = [entrusted EXCEPT ![e] = c]
    /\ UNCHANGED <<delivered, settled>>

Message(e) == [event |-> e, content |-> entrusted[e]]

Deliver(e) ==
    /\ entrusted[e] # None
    /\ delivered' = [delivered EXCEPT ![Message(e)] = @ + 1]
    /\ UNCHANGED <<entrusted, settled>>

Settle(e) ==
    /\ entrusted[e] # None /\ delivered[Message(e)] > 0
    /\ settled' = settled \cup {e}
    /\ UNCHANGED <<entrusted, delivered>>

Next == \E e \in Events :
    (\E c \in Contents : Entrust(e, c)) \/ Deliver(e) \/ Settle(e)

Spec == Init /\ [][Next]_vars
===============================================================================
