----------------------------- MODULE OutboxProofs -----------------------------
(***************************************************************************)
(* Theorems about Outbox for any number of dispatchers, events and         *)
(* contents and any batch size: typing, delivery before a row is settled,  *)
(* one content per event, exclusive claims, the refinement of              *)
(* DurableDelivery, and a bound on the copies of an event by its claims.   *)
(***************************************************************************)
EXTENDS Outbox, FiniteSetTheorems, TLAPS

\* Where a row and a dispatcher can stand
Placed ==
    /\ \A e \in Events : (content[e] = None) = (status[e] = "absent")
    /\ \A d \in Dispatchers :
        /\ \A e \in ids[d] : status[e] # "absent"
        /\ pc[d] \in {"send", "sent", "failed"} => current[d] \in batch[d]

IInv == TypeOK /\ Placed /\ PublishedIsDelivered /\ CopiesAreCommitted /\ HeldExclusively

LEMMA TypeInit == Init => TypeOK
  <1> SUFFICES ASSUME Init
               PROVE  TypeOK
    OBVIOUS
  <1>1. /\ expired \in [Events -> BOOLEAN] /\ waiting \in [Events -> BOOLEAN]
        /\ overran \in BOOLEAN
    BY DEF Init
  <1> QED
    BY <1>1 DEF Init, TypeOK, Statuses, SendTries

\* A dispatcher whose cycle ends or whose process dies is left well typed.
LEMMA TypeForget ==
    ASSUME TypeOK, NEW d \in Dispatchers, Forget(d)
    PROVE  /\ pc' \in [Dispatchers -> {"idle", "claim", "batch", "send", "sent", "failed"}]
           /\ ids' \in [Dispatchers -> SUBSET Events]
           /\ batch' \in [Dispatchers -> SUBSET Message]
           /\ current' \in [Dispatchers -> Message \cup {None}]
           /\ tries' \in [Dispatchers -> 0..SendTries - 1]
  BY DEF TypeOK, Forget, SendTries

\* What either mark writes to the row and to the dispatcher is well typed.
LEMMA TypeMark ==
    ASSUME TypeOK, NEW d \in Dispatchers, NextRow(d),
           NEW s \in Statuses, NEW wait \in BOOLEAN,
           Mark(d, s, wait) \/ UNCHANGED <<status, owner, expired, waiting>>
    PROVE  /\ status' \in [Events -> Statuses]
           /\ owner' \in [Events -> Dispatchers \cup {Gone, None}]
           /\ expired' \in [Events -> BOOLEAN]
           /\ waiting' \in [Events -> BOOLEAN]
           /\ pc' \in [Dispatchers -> {"idle", "claim", "batch", "send", "sent", "failed"}]
           /\ batch' \in [Dispatchers -> SUBSET Message]
           /\ current' \in [Dispatchers -> Message \cup {None}]
           /\ UNCHANGED <<ids, tries>>
  <1>1. CASE Mark(d, s, wait)
    <2> DEFINE e == current[d].event
    <2>1. status' \in [Events -> Statuses]
      BY <1>1 DEF TypeOK, Mark
    <2>2. owner' \in [Events -> Dispatchers \cup {Gone, None}]
      BY <1>1 DEF TypeOK, Mark
    <2>3. expired' \in [Events -> BOOLEAN] /\ waiting' \in [Events -> BOOLEAN]
      <3>1. /\ expired' = [expired EXCEPT ![e] = FALSE]
            /\ waiting' = [waiting EXCEPT ![e] = wait]
        BY <1>1 DEF Mark
      <3>2. expired \in [Events -> BOOLEAN] /\ waiting \in [Events -> BOOLEAN]
        BY DEF TypeOK
      <3> HIDE DEF e
      <3> QED
        BY <3>1, <3>2
    <2> QED
      BY <2>1, <2>2, <2>3 DEF TypeOK, NextRow
  <1>2. CASE UNCHANGED <<status, owner, expired, waiting>>
    BY <1>2 DEF TypeOK, NextRow
  <1> QED
    BY <1>1, <1>2

\* The row of an event that was written is a message.
LEMMA RowTyped ==
    ASSUME TypeOK, Placed, NEW e \in Events, status[e] # "absent"
    PROVE  RowOf(e) \in Message
  BY DEF TypeOK, Placed, RowOf, Message

\* A dispatcher at work on a row holds a message of its batch.
LEMMA CurrentHeld ==
    ASSUME TypeOK, Placed, NEW d \in Dispatchers, pc[d] \in {"send", "sent", "failed"}
    PROVE  current[d] \in batch[d] /\ current[d] \in Message
  BY DEF TypeOK, Placed

\* Every step keeps every variable in its type.
LEMMA TypeStep == IInv /\ [Next]_vars => TypeOK'
  <1> SUFFICES ASSUME IInv, [Next]_vars PROVE TypeOK'
    OBVIOUS
  <1> USE DEF row, network, private
  <1>0. TypeOK /\ Placed
    BY DEF IInv
  <1>1. ASSUME NEW e \in Events, NEW c \in Contents, EnqueueOnce(e, c) PROVE TypeOK'
    <2>1. Cardinality({f \in Events : content[f] # None}) \in Nat
      BY Parameters, FS_Subset, FS_CardinalityType
    <2> QED
      BY <1>0, <1>1, <2>1 DEF EnqueueOnce, TypeOK, Statuses
  <1>2. ASSUME NEW e \in Events, LeaseExpires(e) PROVE TypeOK'
    BY <1>0, <1>2 DEF LeaseExpires, TypeOK
  <1>3. ASSUME NEW e \in Events, BackoffElapses(e) PROVE TypeOK'
    BY <1>0, <1>3 DEF BackoffElapses, TypeOK
  <1>4. ASSUME NEW d \in Dispatchers, ReadIds(d) PROVE TypeOK'
    BY <1>0, <1>4 DEF ReadIds, TypeOK
  <1>5. ASSUME NEW d \in Dispatchers, ClaimRows(d) PROVE TypeOK'
    <2>1. {RowOf(e) : e \in StillClaimable(d)} \subseteq Message
      BY <1>0, RowTyped DEF StillClaimable, TypeOK, Placed
    <2>2. batch' \in [Dispatchers -> SUBSET Message]
      BY <1>0, <1>5, <2>1 DEF ClaimRows, TypeOK
    <2>3. /\ status' \in [Events -> Statuses]
          /\ owner' \in [Events -> Dispatchers \cup {Gone, None}]
          /\ expired' \in [Events -> BOOLEAN]
          /\ attempts' \in [Events -> Nat]
      BY <1>0, <1>5 DEF ClaimRows, TypeOK, Statuses
    <2> QED
      BY <1>0, <1>5, <2>2, <2>3 DEF ClaimRows, TypeOK
  <1>6. ASSUME NEW d \in Dispatchers, Take(d) PROVE TypeOK'
    BY <1>0, <1>6 DEF Take, TypeOK, SendTries
  <1>7. ASSUME NEW d \in Dispatchers, EndOfBatch(d) PROVE TypeOK'
    BY <1>0, <1>7 DEF EndOfBatch, TypeOK
  <1>8. ASSUME NEW d \in Dispatchers, Acknowledged(d) PROVE TypeOK'
    <2>1. topic' \in [Message -> Nat]
      BY <1>0, <1>8, CurrentHeld DEF Acknowledged, TypeOK
    <2> QED
      BY <1>0, <1>8, <2>1 DEF Acknowledged, TypeOK
  <1>9. ASSUME NEW d \in Dispatchers, pc[d] = "send", Strand(d)
        PROVE  stray' \in [Message -> Nat]
    BY <1>0, <1>9, CurrentHeld DEF Strand, TypeOK
  <1>10. ASSUME NEW d \in Dispatchers, SendError(d) PROVE TypeOK'
    <2>1. CASE TriesLeft(d)
      BY <1>0, <1>9, <1>10, <2>1 DEF SendError, TriesLeft, TypeOK, SendTries
    <2>2. CASE ~TriesLeft(d)
      BY <1>0, <1>9, <1>10, <2>2 DEF SendError, Failed, TypeOK
    <2> QED
      BY <2>1, <2>2
  <1>11. ASSUME NEW d \in Dispatchers, SendGivenUp(d) \/ StartFails(d) PROVE TypeOK'
    BY <1>0, <1>9, <1>11 DEF SendGivenUp, StartFails, Failed, TypeOK
  <1>12. ASSUME NEW d \in Dispatchers, MarkPublished(d) PROVE TypeOK'
    <2>1. /\ NextRow(d)
          /\ Mark(d, "published", FALSE) \/ UNCHANGED <<status, owner, expired, waiting>>
          /\ UNCHANGED <<content, created, attempts, network, overran>>
      BY <1>12 DEF MarkPublished
    <2> QED
      BY <1>0, <2>1, TypeMark DEF TypeOK, Statuses
  <1>13. ASSUME NEW d \in Dispatchers, MarkFailed(d) PROVE TypeOK'
    <2>1. /\ NextRow(d)
          /\ Mark(d, "pending", TRUE) \/ UNCHANGED <<status, owner, expired, waiting>>
          /\ UNCHANGED <<content, created, attempts, network, overran>>
      BY <1>13 DEF MarkFailed
    <2> QED
      BY <1>0, <2>1, TypeMark DEF TypeOK, Statuses
  <1>14. ASSUME NEW d \in Dispatchers, SessionError(d) PROVE TypeOK'
    BY <1>0, <1>14, TypeForget DEF SessionError, TypeOK
  <1>15. ASSUME NEW d \in Dispatchers, Crash(d) PROVE TypeOK'
    BY <1>0, <1>15, TypeForget DEF Crash, TypeOK
  <1>16. ASSUME NEW m \in Message, StrayLands(m) PROVE TypeOK'
    BY <1>0, <1>16 DEF StrayLands, TypeOK
  <1>17. ASSUME NEW m \in Message, StrayLost(m) PROVE TypeOK'
    BY <1>0, <1>17 DEF StrayLost, TypeOK
  <1>18. CASE UNCHANGED vars
    BY <1>0, <1>18 DEF vars, TypeOK
  <1> QED
    BY <1>1, <1>2, <1>3, <1>4, <1>5, <1>6, <1>7, <1>8, <1>10, <1>11, <1>12,
       <1>13, <1>14, <1>15, <1>16, <1>17, <1>18 DEF Next, Drain, Trouble

\* Init satisfies the rest of the invariant: nothing is written or sent.
LEMMA InvInit == Init => IInv
  BY TypeInit DEF Init, IInv, Placed, PublishedIsDelivered, CopiesAreCommitted, HeldExclusively

\* A row is written once and its content stays.
LEMMA ContentKept ==
    ASSUME IInv, [Next]_vars, NEW e \in Events, content[e] # None
    PROVE  content'[e] = content[e]
  BY DEF IInv, TypeOK, Placed, Next, vars, row, network, private, Drain, Trouble,
     EnqueueOnce, Unwritten, LeaseExpires, BackoffElapses, ReadIds, ClaimRows, Take, EndOfBatch,
     Acknowledged, MarkPublished, MarkFailed, SendError, SendGivenUp, StartFails, SessionError,
     Crash, StrayLands, StrayLost

\* Copies in the topic stay there.
LEMMA TopicGrows ==
    ASSUME IInv, [Next]_vars, NEW m \in Message, topic[m] > 0
    PROVE  topic'[m] > 0
  <1> USE DEF row, network, private
  <1>0. topic \in [Message -> Nat]
    BY DEF IInv, TypeOK
  <1>1. ASSUME NEW d \in Dispatchers, Acknowledged(d) PROVE topic'[m] > 0
    BY <1>0, <1>1 DEF Acknowledged
  <1>2. ASSUME NEW n \in Message, StrayLands(n) PROVE topic'[m] > 0
    BY <1>0, <1>2 DEF StrayLands
  <1>3. CASE topic' = topic
    BY <1>3
  <1> QED
    BY <1>1, <1>2, <1>3 DEF Next, vars, Drain, Trouble, EnqueueOnce, LeaseExpires,
       BackoffElapses, ReadIds, ClaimRows, Take, EndOfBatch, MarkPublished, MarkFailed,
       SendError, SendGivenUp, StartFails, SessionError, Crash, StrayLost

\* Once written, a row never becomes absent again.
LEMMA WrittenKept ==
    ASSUME IInv, [Next]_vars, NEW e \in Events, status[e] # "absent"
    PROVE  status'[e] # "absent"
  <1> USE DEF row, network, private
  <1>0. status \in [Events -> Statuses]
    BY DEF IInv, TypeOK
  <1>1. ASSUME NEW f \in Events, NEW c \in Contents, EnqueueOnce(f, c)
        PROVE  status'[e] # "absent"
    BY <1>0, <1>1 DEF EnqueueOnce
  <1>2. ASSUME NEW d \in Dispatchers, ClaimRows(d) PROVE status'[e] # "absent"
    BY <1>0, <1>2 DEF ClaimRows
  <1>3. ASSUME NEW d \in Dispatchers, MarkPublished(d) PROVE status'[e] # "absent"
    BY <1>0, <1>3 DEF MarkPublished, Mark
  <1>4. ASSUME NEW d \in Dispatchers, MarkFailed(d) PROVE status'[e] # "absent"
    BY <1>0, <1>4 DEF MarkFailed, Mark
  <1>5. CASE status' = status
    BY <1>5
  <1> QED
    BY <1>1, <1>2, <1>3, <1>4, <1>5 DEF Next, vars, Drain, Trouble, LeaseExpires,
       BackoffElapses, ReadIds, Take, EndOfBatch, Acknowledged,
       SendError, SendGivenUp, StartFails, SessionError, Crash, StrayLands, StrayLost

\* A dispatcher holds its current row until it lets go of it.
LEMMA CurrentStaysHeld ==
    ASSUME IInv, [Next]_vars, NEW d \in Dispatchers, pc'[d] \in {"send", "sent", "failed"}
    PROVE  current'[d] \in batch'[d]
  <1> USE DEF row, network, private
  <1>0. TypeOK /\ Placed
    BY DEF IInv
  <1>1. ASSUME NEW c \in Dispatchers, ReadIds(c) \/ ClaimRows(c) \/ EndOfBatch(c)
        PROVE  current'[d] \in batch'[d]
    BY <1>0, <1>1 DEF TypeOK, Placed, ReadIds, ClaimRows, EndOfBatch
  <1>2. ASSUME NEW c \in Dispatchers, Take(c) PROVE current'[d] \in batch'[d]
    BY <1>0, <1>2 DEF TypeOK, Placed, Take
  <1>3. ASSUME NEW c \in Dispatchers,
               Acknowledged(c) \/ SendError(c) \/ SendGivenUp(c) \/ StartFails(c)
        PROVE  current'[d] \in batch'[d]
    BY <1>0, <1>3 DEF TypeOK, Placed, Acknowledged, SendError, SendGivenUp, StartFails, Failed
  <1>4. ASSUME NEW c \in Dispatchers, NextRow(c) PROVE current'[d] \in batch'[d]
    BY <1>0, <1>4 DEF TypeOK, Placed, NextRow
  <1>5. ASSUME NEW c \in Dispatchers, Forget(c) PROVE current'[d] \in batch'[d]
    BY <1>0, <1>5 DEF TypeOK, Placed, Forget
  <1>6. CASE UNCHANGED private
    BY <1>0, <1>6 DEF Placed
  <1> QED
    BY <1>1, <1>2, <1>3, <1>4, <1>5, <1>6 DEF Next, vars, Drain, Trouble, EnqueueOnce,
       LeaseExpires, BackoffElapses, MarkPublished, MarkFailed, SessionError, Crash,
       StrayLands, StrayLost

\* The ids a dispatcher read belong to written rows.
LEMMA IdsWritten ==
    ASSUME IInv, [Next]_vars, NEW d \in Dispatchers, NEW e \in ids'[d]
    PROVE  e \in Events /\ status[e] # "absent"
  <1> USE DEF row, network, private
  <1>0. TypeOK /\ Placed
    BY DEF IInv
  <1>1. ASSUME NEW c \in Dispatchers, ReadIds(c) PROVE e \in Events /\ status[e] # "absent"
    <2>1. CASE d = c
      BY <1>0, <1>1, <2>1 DEF TypeOK, ReadIds, Oldest, Claimable
    <2>2. CASE d # c
      BY <1>0, <1>1, <2>2 DEF TypeOK, Placed, ReadIds
    <2> QED
      BY <2>1, <2>2
  <1>2. ASSUME NEW c \in Dispatchers, ClaimRows(c) \/ Forget(c)
        PROVE  e \in Events /\ status[e] # "absent"
    BY <1>0, <1>2 DEF TypeOK, Placed, ClaimRows, Forget
  <1>3. CASE UNCHANGED ids
    BY <1>0, <1>3 DEF TypeOK, Placed
  <1> QED
    BY <1>1, <1>2, <1>3 DEF Next, vars, Drain, Trouble, EnqueueOnce, LeaseExpires,
       BackoffElapses, Take, EndOfBatch, Acknowledged, MarkPublished, MarkFailed, NextRow,
       SendError, SendGivenUp, StartFails, SessionError, Crash, StrayLands, StrayLost

LEMMA PlacedStep == IInv /\ [Next]_vars => Placed'
  <1> SUFFICES ASSUME IInv, [Next]_vars PROVE Placed'
    OBVIOUS
  <1> USE DEF row, network, private
  <1>0. TypeOK /\ Placed
    BY DEF IInv
  <1>1. ASSUME NEW e \in Events PROVE (content'[e] = None) = (status'[e] = "absent")
    <2>1. CASE status[e] # "absent"
      BY <1>0, <2>1, WrittenKept, ContentKept DEF Placed
    <2>2. ASSUME NEW f \in Events, NEW c \in Contents, EnqueueOnce(f, c)
          PROVE (content'[e] = None) = (status'[e] = "absent")
      BY <1>0, <2>2, Parameters DEF EnqueueOnce, TypeOK, Placed
    <2>3. CASE status[e] = "absent" /\ content' = content
      <3>1. content[e] = None
        BY <1>0, <2>3 DEF Placed
      <3>2. ASSUME NEW d \in Dispatchers, ClaimRows(d) PROVE status'[e] = "absent"
        BY <1>0, <2>3, <3>2 DEF ClaimRows, StillClaimable, Claimable, TypeOK
      <3>3. ASSUME NEW d \in Dispatchers, MarkPublished(d) \/ MarkFailed(d)
            PROVE  status'[e] = "absent"
        <4>1. CASE ~Mine(d)
          BY <2>3, <3>3, <4>1 DEF MarkPublished, MarkFailed
        <4>2. CASE Mine(d)
          <5>1. \/ status' = [status EXCEPT ![current[d].event] = "published"]
                \/ status' = [status EXCEPT ![current[d].event] = "pending"]
            BY <3>3, <4>2 DEF MarkPublished, MarkFailed, Mark
          <5>2. e # current[d].event
            BY <2>3, <4>2 DEF Mine
          <5> QED
            BY <1>0, <2>3, <5>1, <5>2 DEF TypeOK
        <4> QED
          BY <4>1, <4>2
      <3>4. CASE status' = status
        BY <2>3, <3>1, <3>4
      <3> QED
        BY <2>2, <2>3, <3>1, <3>2, <3>3, <3>4 DEF Next, vars, Drain, Trouble, LeaseExpires,
           BackoffElapses, ReadIds, Take, EndOfBatch, Acknowledged,
           SendError, SendGivenUp, StartFails, SessionError, Crash, StrayLands, StrayLost
    <2> QED
      BY <2>1, <2>2, <2>3 DEF Next, vars, Drain, Trouble, LeaseExpires,
         BackoffElapses, ReadIds, ClaimRows, Take, EndOfBatch, Acknowledged, MarkPublished,
         MarkFailed, SendError, SendGivenUp, StartFails, SessionError, Crash, StrayLands, StrayLost
  <1>2. ASSUME NEW d \in Dispatchers, NEW e \in ids'[d] PROVE status'[e] # "absent"
    BY <1>2, IdsWritten, WrittenKept
  <1> QED
    BY <1>1, <1>2, CurrentStaysHeld DEF Placed

\* Every copy of a later state is one of this state, or the row a claim read.
LEMMA CopiesFrom ==
    ASSUME IInv, [Next]_vars, NEW m \in Message,
           topic'[m] > 0 \/ stray'[m] > 0 \/ \E d \in Dispatchers : m \in batch'[d]
    PROVE  content[m.event] = m.content
  <1> USE DEF row, network, private
  <1>0. TypeOK /\ Placed /\ CopiesAreCommitted
    BY DEF IInv
  <1>1. CASE topic[m] > 0 \/ stray[m] > 0 \/ \E d \in Dispatchers : m \in batch[d]
    BY <1>0, <1>1 DEF CopiesAreCommitted
  <1>2. CASE /\ ~(topic[m] > 0 \/ stray[m] > 0)
             /\ ~\E d \in Dispatchers : m \in batch[d]
    <2>1. \A d \in Dispatchers : pc[d] = "send" => current[d] # m
      BY <1>0, <1>2, CurrentHeld
    <2>2. ASSUME NEW d \in Dispatchers, ClaimRows(d) PROVE content[m.event] = m.content
      <3>1. m \in {RowOf(e) : e \in StillClaimable(d)}
        BY <1>0, <1>2, <2>2 DEF ClaimRows, TypeOK
      <3> QED
        BY <3>1 DEF RowOf
    <2>3. ASSUME NEW d \in Dispatchers, Acknowledged(d) PROVE FALSE
      BY <1>0, <1>2, <2>1, <2>3 DEF Acknowledged, TypeOK
    <2>4. ASSUME NEW d \in Dispatchers, SendError(d) \/ SendGivenUp(d) \/ StartFails(d) PROVE FALSE
      BY <1>0, <1>2, <2>1, <2>4 DEF SendError, SendGivenUp, StartFails, Strand, TypeOK
    <2>5. ASSUME NEW n \in Message, StrayLands(n) \/ StrayLost(n) PROVE FALSE
      BY <1>0, <1>2, <2>5 DEF StrayLands, StrayLost, TypeOK
    <2>6. ASSUME NEW d \in Dispatchers, NextRow(d) \/ Forget(d), UNCHANGED network
          PROVE  FALSE
      BY <1>0, <1>2, <2>6 DEF NextRow, Forget, TypeOK
    <2>7. CASE UNCHANGED <<topic, stray, batch>>
      BY <1>2, <2>7
    <2> QED
      BY <2>2, <2>3, <2>4, <2>5, <2>6, <2>7 DEF Next, vars, Drain, Trouble, EnqueueOnce,
         LeaseExpires, BackoffElapses, ReadIds, Take, EndOfBatch, MarkPublished, MarkFailed,
         SessionError, Crash
  <1> QED
    BY <1>1, <1>2

LEMMA CommittedStep == IInv /\ [Next]_vars => CopiesAreCommitted'
  <1> SUFFICES ASSUME IInv, [Next]_vars, NEW m \in Message,
                      topic'[m] > 0 \/ stray'[m] > 0 \/ \E d \in Dispatchers : m \in batch'[d]
               PROVE  content'[m.event] = m.content
    BY DEF CopiesAreCommitted
  <1>1. content[m.event] = m.content
    BY CopiesFrom
  <1>2. m.event \in Events /\ m.content # None
    BY Parameters DEF Message
  <1> QED
    BY <1>1, <1>2, ContentKept

LEMMA DeliveredStep == IInv /\ [Next]_vars => PublishedIsDelivered'
  <1> SUFFICES ASSUME IInv, [Next]_vars PROVE PublishedIsDelivered'
    OBVIOUS
  <1> USE DEF row, network, private
  <1>0. TypeOK /\ Placed /\ PublishedIsDelivered /\ CopiesAreCommitted
    BY DEF IInv
  <1>1. ASSUME NEW e \in Events, status'[e] = "published" PROVE topic'[RowOf(e)'] > 0
    <2>1. CASE status[e] = "published"
      <3>1. RowOf(e) \in Message /\ topic[RowOf(e)] > 0 /\ content[e] # None
        BY <1>0, <2>1, RowTyped DEF PublishedIsDelivered, Placed
      <3>2. RowOf(e)' = RowOf(e)
        BY <3>1, ContentKept DEF RowOf
      <3> QED
        BY <3>1, <3>2, TopicGrows
    <2>2. ASSUME NEW d \in Dispatchers, MarkPublished(d), status[e] # "published"
          PROVE  topic'[RowOf(e)'] > 0
      <3>1. current[d] \in batch[d] /\ current[d] \in Message
        BY <1>0, <2>2, CurrentHeld DEF MarkPublished
      <3>2. e = current[d].event
        BY <1>0, <1>1, <2>2 DEF MarkPublished, Mark, TypeOK
      <3>3. RowOf(e)' = current[d]
        BY <1>0, <2>2, <3>1, <3>2 DEF CopiesAreCommitted, MarkPublished, RowOf, Message
      <3>4. topic[current[d]] > 0
        BY <1>0, <2>2 DEF PublishedIsDelivered, MarkPublished
      <3> QED
        BY <2>2, <3>3, <3>4 DEF MarkPublished
    <2>3. ASSUME NEW d \in Dispatchers, MarkFailed(d) PROVE status[e] = "published"
      BY <1>0, <1>1, <2>3 DEF MarkFailed, Mark, TypeOK
    <2>4. ASSUME NEW d \in Dispatchers, ClaimRows(d) PROVE status[e] = "published"
      BY <1>0, <1>1, <2>4 DEF ClaimRows, TypeOK
    <2>5. ASSUME NEW f \in Events, NEW c \in Contents, EnqueueOnce(f, c)
          PROVE  status[e] = "published"
      BY <1>0, <1>1, <2>5 DEF EnqueueOnce, TypeOK
    <2>6. CASE status' = status
      BY <1>1, <2>1, <2>6
    <2> QED
      BY <2>1, <2>2, <2>3, <2>4, <2>5, <2>6 DEF Next, vars, Drain, Trouble, LeaseExpires,
         BackoffElapses, ReadIds, Take, EndOfBatch, Acknowledged,
         SendError, SendGivenUp, StartFails, SessionError, Crash, StrayLands, StrayLost
  <1>2. ASSUME NEW d \in Dispatchers, pc'[d] = "sent" PROVE topic'[current'[d]] > 0
    <2>1. CASE pc[d] = "sent" /\ current'[d] = current[d]
      BY <1>0, <2>1, CurrentHeld, TopicGrows DEF PublishedIsDelivered
    <2>2. ASSUME NEW c \in Dispatchers, Acknowledged(c) PROVE topic'[current'[d]] > 0
      <3>1. CASE c = d
        BY <1>0, <2>2, <3>1, CurrentHeld DEF Acknowledged, TypeOK
      <3>2. CASE c # d
        BY <1>0, <1>2, <2>1, <2>2, <3>2 DEF Acknowledged, TypeOK
      <3> QED
        BY <3>1, <3>2
    <2>3. ASSUME NEW c \in Dispatchers, ReadIds(c) \/ ClaimRows(c) \/ Take(c) \/ EndOfBatch(c)
          PROVE  pc[d] = "sent" /\ current'[d] = current[d]
      BY <1>0, <1>2, <2>3 DEF ReadIds, ClaimRows, Take, EndOfBatch, TypeOK
    <2>4. ASSUME NEW c \in Dispatchers, SendError(c) \/ SendGivenUp(c) \/ StartFails(c)
          PROVE  pc[d] = "sent" /\ current'[d] = current[d]
      BY <1>0, <1>2, <2>4 DEF SendError, SendGivenUp, StartFails, Failed, TypeOK
    <2>5. ASSUME NEW c \in Dispatchers, NextRow(c) \/ Forget(c)
          PROVE  pc[d] = "sent" /\ current'[d] = current[d]
      BY <1>0, <1>2, <2>5 DEF NextRow, Forget, TypeOK
    <2>6. CASE UNCHANGED <<pc, current>>
      BY <1>2, <2>1, <2>6
    <2> QED
      BY <2>1, <2>2, <2>3, <2>4, <2>5, <2>6 DEF Next, vars, Drain, Trouble, EnqueueOnce,
         LeaseExpires, BackoffElapses, MarkPublished, MarkFailed, SessionError, Crash,
         StrayLands, StrayLost
  <1> QED
    BY <1>1, <1>2 DEF PublishedIsDelivered

\* A claimed row of a later state was claimed before, or is claimed by this step.
LEMMA ExclusiveStep == IInv /\ [Next]_vars => HeldExclusively'
  <1> SUFFICES ASSUME IInv, [Next]_vars, ~overran',
                      NEW d \in Dispatchers, NEW m \in batch'[d]
               PROVE  /\ status'[m.event] = "publishing"
                      /\ owner'[m.event] = d
                      /\ ~expired'[m.event]
    BY DEF HeldExclusively
  <1> USE DEF row, network, private
  <1> DEFINE Held == /\ status'[m.event] = "publishing"
                     /\ owner'[m.event] = d
                     /\ ~expired'[m.event]
  <1>0. TypeOK /\ Placed /\ CopiesAreCommitted
    BY DEF IInv
  <1>a. m \in Message /\ m.event \in Events
    BY TypeStep DEF TypeOK, Message
  <1>c. ~overran
    <2>1. ASSUME NEW e \in Events, LeaseExpires(e)
          PROVE  ~overran
      BY <2>1 DEF LeaseExpires
    <2>2. CASE UNCHANGED overran
      BY <2>2
    <2> QED
      BY <2>1, <2>2
      DEF Next, vars, Drain, Trouble, EnqueueOnce, BackoffElapses, ReadIds, ClaimRows, Take,
          EndOfBatch, Acknowledged, MarkPublished, MarkFailed, SendError, SendGivenUp, StartFails,
          SessionError, Crash, StrayLands, StrayLost
  <1>b. m \in batch[d] => /\ status[m.event] = "publishing"
                         /\ owner[m.event] = d
                         /\ ~expired[m.event]
    BY <1>c DEF IInv, HeldExclusively
  <1>1. ASSUME NEW c \in Dispatchers, ClaimRows(c) PROVE Held
    <2>1. CASE m.event \in StillClaimable(c)
      <3>1. m \notin batch[d]
        BY <1>b, <2>1 DEF StillClaimable, Claimable
      <3>2. c = d
        BY <1>0, <1>1, <3>1 DEF ClaimRows, TypeOK
      <3> QED
        BY <1>0, <1>1, <1>a, <2>1, <3>2 DEF ClaimRows, TypeOK
    <2>2. CASE m.event \notin StillClaimable(c)
      <3>1. m \notin {RowOf(e) : e \in StillClaimable(c)}
        BY <2>2 DEF RowOf
      <3>2. m \in batch[d]
        BY <1>0, <1>1, <3>1 DEF ClaimRows, TypeOK
      <3> QED
        BY <1>0, <1>1, <1>a, <1>b, <2>2, <3>2 DEF ClaimRows, TypeOK
    <2> QED
      BY <2>1, <2>2
  <1>2. ASSUME NEW c \in Dispatchers, MarkPublished(c) \/ MarkFailed(c) PROVE Held
    <2>1. current[c] \in batch[c] /\ current[c] \in Message
      BY <1>0, <1>2, CurrentHeld DEF MarkPublished, MarkFailed
    <2>2. m \in batch[d] /\ (c = d => m # current[c])
      <3>1. batch' = [batch EXCEPT ![c] = @ \ {current[c]}]
        BY <1>2 DEF MarkPublished, MarkFailed, NextRow
      <3> QED
        BY <1>0, <3>1 DEF TypeOK
    <2>3. CASE ~Mine(c)
      BY <1>2, <1>b, <2>2, <2>3 DEF MarkPublished, MarkFailed
    <2>4. CASE Mine(c)
      <3>1. m.event # current[c].event
        <4>1. CASE c = d
          BY <1>0, <1>a, <2>1, <2>2, <4>1 DEF CopiesAreCommitted, Message
        <4>2. CASE c # d
          BY <1>b, <2>2, <2>4, <4>2 DEF Mine
        <4> QED
          BY <4>1, <4>2
      <3>2. /\ status'[m.event] = status[m.event]
            /\ owner'[m.event] = owner[m.event]
            /\ expired'[m.event] = expired[m.event]
        BY <1>0, <1>2, <1>a, <2>4, <3>1 DEF MarkPublished, MarkFailed, Mark, TypeOK
      <3> QED
        BY <1>b, <2>2, <3>2
    <2> QED
      BY <2>3, <2>4
  <1>3. ASSUME NEW e \in Events, LeaseExpires(e) PROVE Held
    BY <1>0, <1>3, <1>a, <1>b DEF LeaseExpires, Overruns, TypeOK
  <1>4. ASSUME NEW e \in Events, NEW c \in Contents, EnqueueOnce(e, c) PROVE Held
    BY <1>0, <1>4, <1>a, <1>b DEF EnqueueOnce, Unwritten, TypeOK
  <1>5. ASSUME NEW c \in Dispatchers, Crash(c) PROVE Held
    <2>1. c # d /\ m \in batch[d]
      BY <1>0, <1>5 DEF Crash, Forget, TypeOK
    <2> QED
      BY <1>0, <1>5, <1>a, <1>b, <2>1 DEF Crash, TypeOK
  <1>6. ASSUME NEW c \in Dispatchers, SessionError(c) PROVE Held
    <2>1. m \in batch[d]
      BY <1>0, <1>6 DEF SessionError, Forget, TypeOK
    <2> QED
      BY <1>6, <1>b, <2>1 DEF SessionError
  <1>7. CASE UNCHANGED <<status, owner, expired, batch>>
    BY <1>7, <1>b
  <1> QED
    BY <1>1, <1>2, <1>3, <1>4, <1>5, <1>6, <1>7 DEF Next, vars, Drain, Trouble,
       BackoffElapses, ReadIds, Take, EndOfBatch, Acknowledged,
       SendError, SendGivenUp, StartFails, StrayLands, StrayLost

\* The invariant is inductive, whatever fails, times out or dies.
THEOREM Inductive == Spec => []IInv
  <1>1. IInv /\ [Next]_vars => IInv'
    BY TypeStep, PlacedStep, DeliveredStep, CommittedStep, ExclusiveStep DEF IInv
  <1> QED
    BY InvInit, <1>1, PTL DEF Spec

\* Every variable of the outbox and its dispatchers keeps its type.
THEOREM Typing == Spec => []TypeOK
  BY Inductive, PTL DEF IInv

\* An event is marked published only when it is in the topic, for any number of
\* dispatchers, lost leases, timeouts and crashes.
THEOREM DeliveredBeforePublished == Spec => []PublishedIsDelivered
  BY Inductive, PTL DEF IInv

\* Whatever copies of an event are about say what its committed row says.
THEOREM CopiesSayTheRow == Spec => []CopiesAreCommitted
  BY Inductive, PTL DEF IInv

\* If batches end within their lease, no two dispatchers publish one row.
THEOREM ClaimsAreExclusive == Spec => []HeldExclusively
  BY Inductive, PTL DEF IInv

\* The outbox refines durable at-least-once delivery.
THEOREM DeliveryImplemented == Spec => ImplementsDelivery
  <1> USE DEF row, network, private
  <1>1. Init => Delivery!Init
    BY DEF Init, Delivery!Init, Message
  <1>2. IInv /\ [Next]_vars => [Delivery!Next]_Delivery!vars
    <2> SUFFICES ASSUME IInv, [Next]_vars
                 PROVE  Delivery!Next \/ UNCHANGED Delivery!vars
      OBVIOUS
    <2> DEFINE Settled == {e \in Events : status[e] = "published"}
    <2>0. TypeOK /\ Placed /\ PublishedIsDelivered /\ CopiesAreCommitted
      BY DEF IInv
    <2>a. \A m \in Message : content[m.event] = m.content =>
              /\ m.event \in Events /\ content[m.event] # None
              /\ Delivery!Message(m.event) = m
      BY Parameters DEF Delivery!Message, Message
    <2>1. ASSUME NEW e \in Events, NEW c \in Contents, EnqueueOnce(e, c)
          PROVE  Delivery!Next
      <3>1. content[e] = None /\ Settled' = Settled
        BY <2>0, <2>1 DEF EnqueueOnce, Unwritten, Placed, TypeOK
      <3>2. Delivery!Entrust(e, c)
        BY <2>1, <3>1 DEF EnqueueOnce, Delivery!Entrust
      <3> QED
        BY <3>2 DEF Delivery!Next
    <2>2. ASSUME NEW d \in Dispatchers, Acknowledged(d) PROVE Delivery!Next
      <3>1. current[d] \in Message /\ content[current[d].event] = current[d].content
        BY <2>0, <2>2, CurrentHeld DEF Acknowledged, CopiesAreCommitted
      <3>2. Delivery!Deliver(current[d].event)
        BY <2>2, <2>a, <3>1 DEF Acknowledged, Delivery!Deliver
      <3> QED
        BY <2>a, <3>1, <3>2 DEF Delivery!Next
    <2>3. ASSUME NEW m \in Message, StrayLands(m) PROVE Delivery!Next
      <3>1. content[m.event] = m.content
        BY <2>0, <2>3 DEF StrayLands, CopiesAreCommitted
      <3>2. Delivery!Deliver(m.event)
        BY <2>3, <2>a, <3>1 DEF StrayLands, Delivery!Deliver
      <3> QED
        BY <2>a, <3>1, <3>2 DEF Delivery!Next
    <2>4. ASSUME NEW d \in Dispatchers, MarkPublished(d)
          PROVE  Delivery!Next \/ UNCHANGED Delivery!vars
      <3>1. /\ current[d] \in Message /\ content[current[d].event] = current[d].content
            /\ topic[current[d]] > 0
        BY <2>0, <2>4, CurrentHeld DEF MarkPublished, CopiesAreCommitted, PublishedIsDelivered
      <3>2. CASE Mine(d)
        <4>1. Settled' = Settled \cup {current[d].event}
          BY <2>0, <2>4, <2>a, <3>1, <3>2 DEF MarkPublished, Mark, TypeOK
        <4>2. current[d].event \in Events /\ Delivery!Settle(current[d].event)
          BY <2>4, <2>a, <3>1, <4>1 DEF MarkPublished, Delivery!Settle
        <4> QED
          BY <4>2, Zenon DEF Delivery!Next, Delivery!Settle
      <3>3. CASE ~Mine(d)
        BY <2>4, <3>3 DEF MarkPublished, Delivery!vars
      <3> QED
        BY <3>2, <3>3
    <2>5. ASSUME NEW d \in Dispatchers, MarkFailed(d) PROVE UNCHANGED Delivery!vars
      <3>1. Settled' = Settled
        BY <2>0, <2>5 DEF MarkFailed, Mine, Mark, TypeOK
      <3> QED
        BY <2>5, <3>1 DEF MarkFailed, Delivery!vars
    <2>6. ASSUME NEW d \in Dispatchers, ClaimRows(d) PROVE UNCHANGED Delivery!vars
      <3>1. Settled' = Settled
        BY <2>0, <2>6 DEF ClaimRows, StillClaimable, Claimable, TypeOK
      <3> QED
        BY <2>6, <3>1 DEF ClaimRows, Delivery!vars
    <2>7. CASE UNCHANGED <<content, topic, status>>
      BY <2>7 DEF Delivery!vars
    <2>8. ASSUME NEW d \in Dispatchers, Trouble(d) \/ ReadIds(d) \/ Take(d) \/ EndOfBatch(d)
          PROVE  UNCHANGED <<content, topic, status>>
      BY <2>8 DEF Trouble, ReadIds, Take, EndOfBatch, StartFails, SendError, SendGivenUp,
         SessionError, Crash
    <2>9. /\ \A e \in Events : LeaseExpires(e) \/ BackoffElapses(e)
                => UNCHANGED <<content, topic, status>>
          /\ \A m \in Message : StrayLost(m) => UNCHANGED <<content, topic, status>>
      BY DEF LeaseExpires, BackoffElapses, StrayLost
    <2> QED
      BY <2>1, <2>2, <2>3, <2>4, <2>5, <2>6, <2>7, <2>8, <2>9 DEF Next, vars, Drain
  <1> QED
    BY <1>1, <1>2, Inductive, PTL DEF Spec, ImplementsDelivery, Delivery!Spec

-------------------------------------------------------------------------------
\* The tries a dispatcher has left for a row of its batch: all of them before it
\* works on the row, and none once its sends have come to an end.
AtWork(d) == pc[d] \in {"send", "sent", "failed"}
Left(m) == {t \in Dispatchers \X (1..SendTries) :
              /\ m \in batch[t[1]]
              /\ AtWork(t[1]) /\ current[t[1]] = m =>
                   pc[t[1]] = "send" /\ t[2] + tries[t[1]] <= SendTries}

\* The copies of a message and the tries still left for it are paid for by its claims.
BudgetIsKept ==
    \A m \in Message :
        /\ IsFiniteSet(Left(m))
        /\ topic[m] + stray[m] + Cardinality(Left(m)) <= SendTries * attempts[m.event]

\* A step that puts no copy on the way and opens no tries.
LEMMA NothingSpent ==
    ASSUME IInv, BudgetIsKept, NEW m \in Message, TypeOK',
           topic'[m] + stray'[m] <= topic[m] + stray[m],
           attempts'[m.event] = attempts[m.event], Left(m)' \subseteq Left(m)
    PROVE  /\ IsFiniteSet(Left(m)')
           /\ topic'[m] + stray'[m] + Cardinality(Left(m)') <= SendTries * attempts'[m.event]
  <1>1. /\ topic[m] \in Nat /\ stray[m] \in Nat /\ topic'[m] \in Nat /\ stray'[m] \in Nat
        /\ attempts[m.event] \in Nat
    BY DEF IInv, TypeOK, Message
  <1>2. /\ IsFiniteSet(Left(m))
        /\ topic[m] + stray[m] + Cardinality(Left(m)) <= SendTries * attempts[m.event]
    BY DEF BudgetIsKept
  <1>3. /\ IsFiniteSet(Left(m)') /\ Cardinality(Left(m)') <= Cardinality(Left(m))
        /\ Cardinality(Left(m)) \in Nat /\ Cardinality(Left(m)') \in Nat
    <2> DEFINE T == Left(m)'
    <2> HIDE DEF T
    <2>1. IsFiniteSet(T) /\ Cardinality(T) <= Cardinality(Left(m))
      BY <1>2, FS_Subset DEF T
    <2>2. Cardinality(Left(m)) \in Nat /\ Cardinality(T) \in Nat
      BY <1>2, <2>1, FS_CardinalityType
    <2> QED
      BY <2>1, <2>2 DEF T
  <1>4. SendTries * attempts[m.event] \in Nat
    BY <1>1 DEF SendTries
  <1> HIDE DEF Left
  <1> QED
    BY <1>1, <1>2, <1>3, <1>4

\* A step that puts one copy on the way and uses up a try.
LEMMA OneTrySpent ==
    ASSUME IInv, BudgetIsKept, NEW m \in Message, TypeOK',
           topic'[m] + stray'[m] <= topic[m] + stray[m] + 1,
           attempts'[m.event] = attempts[m.event],
           NEW t \in Left(m), Left(m)' \subseteq Left(m) \ {t}
    PROVE  /\ IsFiniteSet(Left(m)')
           /\ topic'[m] + stray'[m] + Cardinality(Left(m)') <= SendTries * attempts'[m.event]
  <1>1. /\ topic[m] \in Nat /\ stray[m] \in Nat /\ topic'[m] \in Nat /\ stray'[m] \in Nat
        /\ attempts[m.event] \in Nat
    BY DEF IInv, TypeOK, Message
  <1>2. /\ IsFiniteSet(Left(m))
        /\ topic[m] + stray[m] + Cardinality(Left(m)) <= SendTries * attempts[m.event]
    BY DEF BudgetIsKept
  <1>3. /\ IsFiniteSet(Left(m)') /\ Cardinality(Left(m)') + 1 <= Cardinality(Left(m))
        /\ Cardinality(Left(m)) \in Nat /\ Cardinality(Left(m)') \in Nat
    <2> DEFINE T == Left(m)'
               S == Left(m)
    <2>0. t \in S /\ T \subseteq S \ {t} /\ IsFiniteSet(S)
      BY <1>2
    <2> HIDE DEF S, T
    <2>1. IsFiniteSet(S \ {t}) /\ Cardinality(S \ {t}) = Cardinality(S) - 1
      BY <2>0, FS_RemoveElement
    <2>2. IsFiniteSet(T) /\ Cardinality(T) <= Cardinality(S \ {t})
      BY <2>0, <2>1, FS_Subset
    <2>3. Cardinality(S) \in Nat /\ Cardinality(T) \in Nat
      BY <2>0, <2>2, FS_CardinalityType
    <2> QED
      BY <2>1, <2>2, <2>3 DEF S, T
  <1>4. SendTries * attempts[m.event] \in Nat
    BY <1>1 DEF SendTries
  <1> HIDE DEF Left
  <1> QED
    BY <1>1, <1>2, <1>3, <1>4

\* One element more makes a finite set larger by one at most.
LEMMA OneMore ==
    ASSUME NEW S, IsFiniteSet(S), NEW x
    PROVE  /\ IsFiniteSet(S \cup {x})
           /\ Cardinality(S \cup {x}) <= Cardinality(S) + 1
           /\ Cardinality(S) \in Nat
  <1>1. /\ IsFiniteSet(S \cup {x})
        /\ Cardinality(S \cup {x}) = IF x \in S THEN Cardinality(S) ELSE Cardinality(S) + 1
    BY FS_AddElement
  <1>2. Cardinality(S) \in Nat
    BY FS_CardinalityType
  <1> QED
    BY <1>1, <1>2

\* A claim pays for the tries it opens.
LEMMA TriesPaidFor ==
    ASSUME IInv, BudgetIsKept, NEW m \in Message, NEW d \in Dispatchers,
           topic'[m] + stray'[m] = topic[m] + stray[m],
           attempts'[m.event] = attempts[m.event] + 1,
           Left(m)' \subseteq Left(m) \cup {<<d, 1>>, <<d, 2>>, <<d, 3>>}
    PROVE  /\ IsFiniteSet(Left(m)')
           /\ topic'[m] + stray'[m] + Cardinality(Left(m)') <= SendTries * attempts'[m.event]
  <1>1. /\ topic[m] \in Nat /\ stray[m] \in Nat /\ attempts[m.event] \in Nat
    BY DEF IInv, TypeOK, Message
  <1>2. /\ IsFiniteSet(Left(m))
        /\ topic[m] + stray[m] + Cardinality(Left(m)) <= SendTries * attempts[m.event]
    BY DEF BudgetIsKept
  <1>3. /\ IsFiniteSet(Left(m)') /\ Cardinality(Left(m)') <= Cardinality(Left(m)) + 3
        /\ Cardinality(Left(m)) \in Nat /\ Cardinality(Left(m)') \in Nat
    <2> DEFINE T == Left(m)'
               S0 == Left(m)
               S1 == S0 \cup {<<d, 1>>}
               S2 == S1 \cup {<<d, 2>>}
               S3 == S2 \cup {<<d, 3>>}
    <2>0. T \subseteq S3 /\ IsFiniteSet(S0)
      BY <1>2
    <2> HIDE DEF S0, T
    <2>1. IsFiniteSet(S1) /\ Cardinality(S1) <= Cardinality(S0) + 1
      BY <2>0, OneMore
    <2> HIDE DEF S1
    <2>2. IsFiniteSet(S2) /\ Cardinality(S2) <= Cardinality(S1) + 1
      BY <2>1, OneMore DEF S2
    <2> HIDE DEF S2
    <2>3. IsFiniteSet(S3) /\ Cardinality(S3) <= Cardinality(S2) + 1
      BY <2>2, OneMore DEF S3
    <2> HIDE DEF S3
    <2>4. IsFiniteSet(T) /\ Cardinality(T) <= Cardinality(S3)
      BY <2>0, <2>3, FS_Subset
    <2>5. /\ Cardinality(S0) \in Nat /\ Cardinality(S1) \in Nat /\ Cardinality(S2) \in Nat
          /\ Cardinality(S3) \in Nat /\ Cardinality(T) \in Nat
      BY <2>0, <2>1, <2>2, <2>3, <2>4, FS_CardinalityType
    <2> QED
      BY <2>1, <2>2, <2>3, <2>4, <2>5 DEF S0, T
  <1>4. SendTries * attempts'[m.event] = SendTries * attempts[m.event] + 3
    BY <1>1 DEF SendTries
  <1>5. SendTries * attempts[m.event] \in Nat
    BY <1>1 DEF SendTries
  <1> HIDE DEF Left
  <1> QED
    BY <1>1, <1>2, <1>3, <1>4, <1>5

\* What happens to the tries of a dispatcher that lets go of rows.
LEMMA TriesDropped ==
    ASSUME IInv, NEW d \in Dispatchers, NextRow(d) \/ Forget(d), NEW m \in Message
    PROVE  Left(m)' \subseteq Left(m)
  <1>1. /\ \A c \in Dispatchers : c # d =>
              pc'[c] = pc[c] /\ batch'[c] = batch[c] /\ current'[c] = current[c]
              /\ tries'[c] = tries[c]
        /\ m \in batch'[d] => m \in batch[d] /\ current[d] # m
    BY DEF IInv, TypeOK, NextRow, Forget
  <1>2. ASSUME NEW t \in Left(m)' PROVE t \in Left(m)
    <2>1. t \in Dispatchers \X (1..SendTries) /\ t[1] \in Dispatchers
      BY DEF Left
    <2>2. CASE t[1] = d
      BY <1>1, <2>1, <2>2 DEF Left
    <2>3. CASE t[1] # d
      BY <1>1, <2>1, <2>3 DEF Left, AtWork
    <2> QED
      BY <2>2, <2>3
  <1> QED
    BY <1>2

\* A dispatcher that stays at work on its row, or stops working on it, opens no tries.
LEMMA TriesGoOn ==
    ASSUME IInv, NEW d \in Dispatchers, UNCHANGED <<batch, current>>, AtWork(d),
           tries'[d] >= tries[d], pc'[d] = "send" => pc[d] = "send", AtWork(d)',
           \A c \in Dispatchers : c # d => pc'[c] = pc[c] /\ tries'[c] = tries[c],
           tries'[d] \in Nat, NEW m \in Message
    PROVE  Left(m)' \subseteq Left(m)
  <1>1. ASSUME NEW t \in Left(m)' PROVE t \in Left(m)
    <2>1. t \in Dispatchers \X (1..SendTries) /\ t[1] \in Dispatchers /\ t[2] \in Nat
      BY DEF Left, SendTries
    <2>2. CASE t[1] = d
      <3>1. tries[d] \in Nat
        BY DEF IInv, TypeOK, SendTries
      <3> QED
        BY <2>1, <2>2, <3>1 DEF Left, SendTries
    <2>3. CASE t[1] # d
      BY <2>1, <2>3 DEF Left, AtWork
    <2> QED
      BY <2>2, <2>3
  <1> QED
    BY <1>1

\* The try a dispatcher makes is one of those its row has left.
LEMMA TryAtHand ==
    ASSUME IInv, NEW d \in Dispatchers, pc[d] = "send"
    PROVE  /\ current[d] \in Message
           /\ <<d, SendTries - tries[d]>> \in Left(current[d])
  <1>1. current[d] \in batch[d] /\ current[d] \in Message /\ tries[d] \in 0..2
    BY CurrentHeld DEF IInv, TypeOK, SendTries
  <1>2. SendTries - tries[d] \in 1..SendTries /\ SendTries - tries[d] + tries[d] <= SendTries
    BY <1>1 DEF SendTries
  <1> QED
    BY <1>1, <1>2 DEF Left, AtWork

\* A send that ended, or went on to its next try, has used that try up.
LEMMA TryUsed ==
    ASSUME IInv, NEW d \in Dispatchers, pc[d] = "send", UNCHANGED <<batch, current>>,
           NEW n \in Message, n = current[d],
           \A c \in Dispatchers : c # d => pc'[c] = pc[c] /\ tries'[c] = tries[c],
           \/ pc'[d] \in {"sent", "failed"}
           \/ pc'[d] = "send" /\ tries'[d] = tries[d] + 1
    PROVE  <<d, SendTries - tries[d]>> \notin Left(n)'
  <1>1. tries[d] \in Nat /\ current'[d] = current[d]
    BY DEF IInv, TypeOK, SendTries
  <1>2. ~(pc'[d] = "send" /\ SendTries - tries[d] + tries'[d] <= SendTries)
    BY <1>1 DEF SendTries
  <1> QED
    BY <1>1, <1>2 DEF Left, AtWork

\* A try puts at most one copy of the row at hand on the way, and none of another.
LEMMA TryKeepsBudget ==
    ASSUME IInv, BudgetIsKept, TypeOK', NEW d \in Dispatchers, pc[d] = "send",
           \/ Acknowledged(d) \/ SendError(d) \/ SendGivenUp(d)
    PROVE  BudgetIsKept'
  <1> PICK n \in Message : n = current[d]
    BY TryAtHand
  <1> DEFINE t == <<d, SendTries - tries[d]>>
  <1>0. TypeOK /\ t \in Left(n)
    BY TryAtHand DEF IInv
  <1>1. /\ UNCHANGED <<batch, current, attempts>>
        /\ \A c \in Dispatchers : c # d => pc'[c] = pc[c] /\ tries'[c] = tries[c]
        /\ \/ pc'[d] \in {"sent", "failed"} /\ tries'[d] = tries[d]
           \/ pc'[d] = "send" /\ tries'[d] = tries[d] + 1
    BY <1>0 DEF Acknowledged, SendError, SendGivenUp, Failed, TypeOK, row
  <1>2. AtWork(d) /\ AtWork(d)' /\ tries[d] \in Nat /\ tries'[d] \in Nat
    BY <1>0, <1>1 DEF AtWork, TypeOK, SendTries
  <1>3. /\ topic'[n] + stray'[n] <= topic[n] + stray[n] + 1
        /\ \A m \in Message : m # n => topic'[m] = topic[m] /\ stray'[m] = stray[m]
    BY <1>0 DEF Acknowledged, SendError, SendGivenUp, Strand, TypeOK
  <1>4. ASSUME NEW m \in Message
        PROVE  Left(m)' \subseteq Left(m)
    BY <1>1, <1>2, TriesGoOn
  <1>5. t \notin Left(n)'
    BY <1>1, TryUsed
  <1>6. Left(n)' \subseteq Left(n) \ {t}
    BY <1>0, <1>4, <1>5
  <1>7. ASSUME NEW m \in Message
        PROVE  /\ IsFiniteSet(Left(m)')
               /\ topic'[m] + stray'[m] + Cardinality(Left(m)') <= SendTries * attempts'[m.event]
    <2>1. attempts'[m.event] = attempts[m.event]
      BY <1>1
    <2>2. CASE m = n
      <3> HIDE DEF t
      <3> QED
        BY <1>0, <1>3, <1>6, <2>1, <2>2, OneTrySpent
    <2>3. CASE m # n
      <3>1. topic'[m] + stray'[m] <= topic[m] + stray[m]
        BY <1>0, <1>3, <2>3 DEF TypeOK
      <3> QED
        BY <1>4, <2>1, <3>1, NothingSpent
    <2> QED
      BY <2>2, <2>3
  <1> QED
    BY <1>7 DEF BudgetIsKept

\* Every claim opens its tries on its own account.
LEMMA ClaimKeepsBudget ==
    ASSUME IInv, BudgetIsKept, TypeOK', NEW d \in Dispatchers, ClaimRows(d)
    PROVE  BudgetIsKept'
  <1>0. TypeOK
    BY DEF IInv
  <1>1. /\ UNCHANGED <<topic, stray, current, tries>>
        /\ \A c \in Dispatchers : c # d => pc'[c] = pc[c] /\ batch'[c] = batch[c]
        /\ pc[d] = "claim" /\ pc'[d] = "batch"
        /\ batch'[d] = {RowOf(e) : e \in StillClaimable(d)}
    BY <1>0 DEF ClaimRows, TypeOK, network
  <1>2. ASSUME NEW m \in Message
        PROVE  /\ IsFiniteSet(Left(m)')
               /\ topic'[m] + stray'[m] + Cardinality(Left(m)') <= SendTries * attempts'[m.event]
    <2>1. m.event \in Events /\ topic'[m] + stray'[m] = topic[m] + stray[m]
      BY <1>1 DEF Message
    <2>2. Left(m)' \subseteq Left(m) \cup {<<d, 1>>, <<d, 2>>, <<d, 3>>}
      <3>1. ASSUME NEW t \in Left(m)' PROVE t \in Left(m) \cup {<<d, 1>>, <<d, 2>>, <<d, 3>>}
        <4>1. t \in Dispatchers \X (1..SendTries) /\ t = <<t[1], t[2]>>
              /\ t[1] \in Dispatchers /\ t[2] \in 1..3
          BY DEF Left, SendTries
        <4>2. CASE t[1] = d
          BY <4>1, <4>2
        <4>3. CASE t[1] # d
          BY <1>1, <4>1, <4>3 DEF Left, AtWork
        <4> QED
          BY <4>2, <4>3
      <3> QED
        BY <3>1
    <2>3. CASE m.event \in StillClaimable(d)
      <3>1. attempts'[m.event] = attempts[m.event] + 1
        BY <1>0, <2>1, <2>3 DEF ClaimRows, TypeOK
      <3> QED
        BY <2>1, <2>2, <3>1, TriesPaidFor
    <2>4. CASE m.event \notin StillClaimable(d)
      <3>1. attempts'[m.event] = attempts[m.event]
        BY <1>0, <2>1, <2>4 DEF ClaimRows, TypeOK
      <3>2. m \notin batch'[d]
        BY <1>1, <2>4 DEF RowOf
      <3>3. Left(m)' \subseteq Left(m)
        BY <1>1, <2>2, <3>2 DEF Left
      <3>4. topic'[m] + stray'[m] <= topic[m] + stray[m]
        BY <1>0, <2>1 DEF TypeOK
      <3> QED
        BY <3>1, <3>3, <3>4, NothingSpent
    <2> QED
      BY <2>3, <2>4
  <1> QED
    BY <1>2 DEF BudgetIsKept

\* Steps that put no copy on the way, claim nothing and open no tries
LEMMA QuietKeepsBudget ==
    ASSUME IInv, BudgetIsKept, TypeOK', UNCHANGED attempts,
           \A m \in Message : topic'[m] + stray'[m] <= topic[m] + stray[m],
           \A m \in Message : Left(m)' \subseteq Left(m)
    PROVE  BudgetIsKept'
  <1>1. ASSUME NEW m \in Message
        PROVE  /\ IsFiniteSet(Left(m)')
               /\ topic'[m] + stray'[m] + Cardinality(Left(m)') <= SendTries * attempts'[m.event]
    <2>1. attempts'[m.event] = attempts[m.event]
      OBVIOUS
    <2> QED
      BY <2>1, NothingSpent
  <1> QED
    BY <1>1 DEF BudgetIsKept

LEMMA BudgetStep == IInv /\ BudgetIsKept /\ [Next]_vars => BudgetIsKept'
  <1> SUFFICES ASSUME IInv, BudgetIsKept, [Next]_vars PROVE BudgetIsKept'
    OBVIOUS
  <1>0. TypeOK /\ TypeOK'
    BY TypeStep DEF IInv
  <1>n. \A m \in Message : topic[m] \in Nat /\ stray[m] \in Nat
    BY <1>0 DEF TypeOK
  <1>s. ASSUME UNCHANGED <<topic, stray>>
        PROVE  \A m \in Message : topic'[m] + stray'[m] <= topic[m] + stray[m]
    BY <1>n, <1>s
  <1>l. ASSUME UNCHANGED <<pc, batch, current, tries>>
        PROVE  \A m \in Message : Left(m)' \subseteq Left(m)
    BY <1>l DEF Left, AtWork
  <1>1. ASSUME NEW e \in Events,
               (\E c \in Contents : EnqueueOnce(e, c)) \/ LeaseExpires(e) \/ BackoffElapses(e)
        PROVE  BudgetIsKept'
    <2>1. UNCHANGED <<topic, stray, attempts, pc, batch, current, tries>>
      BY <1>1 DEF EnqueueOnce, LeaseExpires, BackoffElapses, network, private
    <2> QED
      BY <1>0, <1>s, <1>l, <2>1, QuietKeepsBudget
  <1>2. ASSUME NEW m \in Message, StrayLands(m) \/ StrayLost(m) PROVE BudgetIsKept'
    <2>1. UNCHANGED <<attempts, pc, batch, current, tries>>
      BY <1>2 DEF StrayLands, StrayLost, row, private
    <2>2. \A n \in Message : topic'[n] + stray'[n] <= topic[n] + stray[n]
      <3> SUFFICES ASSUME NEW n \in Message
                   PROVE  topic'[n] + stray'[n] <= topic[n] + stray[n]
        OBVIOUS
      <3>1. /\ topic[n] \in Nat /\ stray[n] \in Nat /\ topic'[n] \in Nat
            /\ n # m => topic'[n] = topic[n] /\ stray'[n] = stray[n]
            /\ n = m => stray[n] > 0 /\ stray'[n] = stray[n] - 1
                       /\ topic'[n] \in {topic[n], topic[n] + 1}
        BY <1>0, <1>2 DEF StrayLands, StrayLost, TypeOK
      <3> QED
        BY <3>1
    <2> QED
      BY <1>0, <1>l, <2>1, <2>2, QuietKeepsBudget
  <1>3. ASSUME NEW d \in Dispatchers, ReadIds(d) \/ EndOfBatch(d) \/ Take(d)
        PROVE  BudgetIsKept'
    <2>1. /\ UNCHANGED <<topic, stray, attempts, batch>>
          /\ ~AtWork(d)
          /\ \A c \in Dispatchers : c # d =>
                pc'[c] = pc[c] /\ current'[c] = current[c] /\ tries'[c] = tries[c]
      BY <1>0, <1>3 DEF ReadIds, EndOfBatch, Take, AtWork, TypeOK, row, network
    <2>2. ASSUME NEW m \in Message, NEW t \in Left(m)' PROVE t \in Left(m)
      <3>1. t \in Dispatchers \X (1..SendTries) /\ t[1] \in Dispatchers
        BY DEF Left
      <3>2. CASE t[1] = d
        BY <2>1, <3>1, <3>2 DEF Left
      <3>3. CASE t[1] # d
        BY <2>1, <3>1, <3>3 DEF Left, AtWork
      <3> QED
        BY <3>2, <3>3
    <2>3. \A m \in Message : Left(m)' \subseteq Left(m)
      BY <2>2
    <2> QED
      BY <1>0, <1>s, <2>1, <2>3, QuietKeepsBudget
  <1>4. ASSUME NEW d \in Dispatchers, ClaimRows(d) PROVE BudgetIsKept'
    BY <1>0, <1>4, ClaimKeepsBudget
  <1>5. ASSUME NEW d \in Dispatchers, Acknowledged(d) \/ SendError(d) \/ SendGivenUp(d)
        PROVE  BudgetIsKept'
    <2>1. pc[d] = "send"
      BY <1>5 DEF Acknowledged, SendError, SendGivenUp
    <2> QED
      BY <1>0, <1>5, <2>1, TryKeepsBudget
  <1>6. ASSUME NEW d \in Dispatchers, StartFails(d) PROVE BudgetIsKept'
    <2>1. /\ UNCHANGED <<topic, stray, attempts, batch, current>>
          /\ AtWork(d) /\ AtWork(d)' /\ pc'[d] # "send"
          /\ tries'[d] = tries[d] /\ tries[d] \in Nat
          /\ \A c \in Dispatchers : c # d => pc'[c] = pc[c] /\ tries'[c] = tries[c]
      BY <1>0, <1>6 DEF StartFails, Failed, AtWork, TypeOK, SendTries, row, network
    <2>2. tries'[d] >= tries[d] /\ tries'[d] \in Nat
      BY <2>1
    <2>3. \A m \in Message : Left(m)' \subseteq Left(m)
      BY <2>1, <2>2, TriesGoOn
    <2> QED
      BY <1>0, <1>s, <2>1, <2>3, QuietKeepsBudget
  <1>7. ASSUME NEW d \in Dispatchers,
               MarkPublished(d) \/ MarkFailed(d) \/ SessionError(d) \/ Crash(d)
        PROVE  BudgetIsKept'
    <2>1. UNCHANGED <<topic, stray, attempts>> /\ (NextRow(d) \/ Forget(d))
      BY <1>7 DEF MarkPublished, MarkFailed, SessionError, Crash, row, network
    <2>2. \A m \in Message : Left(m)' \subseteq Left(m)
      BY <2>1, TriesDropped
    <2> QED
      BY <1>0, <1>s, <2>1, <2>2, QuietKeepsBudget
  <1>8. CASE UNCHANGED vars
    <2>1. UNCHANGED <<topic, stray, attempts, pc, batch, current, tries>>
      BY <1>8 DEF vars, row, network, private
    <2> QED
      BY <1>0, <1>s, <1>l, <2>1, QuietKeepsBudget
  <1> QED
    BY <1>1, <1>2, <1>3, <1>4, <1>5, <1>6, <1>7, <1>8 DEF Next, Drain, Trouble

\* No message of the initial state has a copy, a claim or a try.
LEMMA BudgetInit == Init => BudgetIsKept
  <1> SUFFICES ASSUME Init, NEW m \in Message
               PROVE  /\ IsFiniteSet(Left(m))
                      /\ topic[m] + stray[m] + Cardinality(Left(m))
                            <= SendTries * attempts[m.event]
    BY DEF BudgetIsKept
  <1>1. Left(m) = {}
    BY DEF Init, Left
  <1>2. IsFiniteSet(Left(m)) /\ Cardinality(Left(m)) = 0
    BY <1>1, FS_EmptySet
  <1>3. topic[m] = 0 /\ stray[m] = 0 /\ attempts[m.event] = 0
    BY DEF Init, Message
  <1> QED
    BY <1>2, <1>3 DEF SendTries

\* One claim of a row pays for at most SendTries copies of its message, for any number
\* of dispatchers, lost leases, timeouts and crashes: a duplicate in the topic always
\* has a claim of its own behind it.
THEOREM CopiesArePaidFor == Spec => []CopiesAreClaimed
  <1>1. Init => BudgetIsKept
    BY BudgetInit
  <1>2. IInv /\ BudgetIsKept /\ [Next]_vars => BudgetIsKept'
    BY BudgetStep
  <1>3. IInv /\ BudgetIsKept => CopiesAreClaimed
    <2> SUFFICES ASSUME IInv, BudgetIsKept, NEW m \in Message
                 PROVE  topic[m] + stray[m] <= SendTries * attempts[m.event]
      BY DEF CopiesAreClaimed
    <2>1. /\ topic[m] \in Nat /\ stray[m] \in Nat /\ attempts[m.event] \in Nat
      BY DEF IInv, TypeOK, Message
    <2>2. /\ IsFiniteSet(Left(m))
          /\ topic[m] + stray[m] + Cardinality(Left(m)) <= SendTries * attempts[m.event]
      BY DEF BudgetIsKept
    <2>3. Cardinality(Left(m)) \in Nat
      BY <2>2, FS_CardinalityType
    <2>4. SendTries * attempts[m.event] \in Nat
      BY <2>1 DEF SendTries
    <2> HIDE DEF Left
    <2> QED
      BY <2>1, <2>2, <2>3, <2>4
  <1> QED
    BY <1>1, <1>2, <1>3, Inductive, PTL DEF Spec
===============================================================================
