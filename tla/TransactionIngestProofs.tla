----------------------- MODULE TransactionIngestProofs -----------------------
(***************************************************************************)
(* What TransactionIngest guarantees for any number of processes, calls    *)
(* and transactions, batches of any length, and any lost claims, failures  *)
(* and crashes.                                                            *)
(***************************************************************************)
EXTENDS TransactionIngest, TLAPS

-----------------------------------------------------------------------------
(* The inductive invariant *)

Committed == {"publish", "count", "windows", "mark", "remark"}
OneSteps == {"idle", "claim", "redis", "lock", "lookup", "reclaim", "reredis", "insert",
             "publish", "count", "windows", "forget", "unset", "done"}
BatchSteps == {"idle", "lock", "read", "commit", "mark", "remark", "count", "windows", "done"}

(* A call is at one of its transactions; a batch reaches the first one with its commit,   *)
(* and passes over those it found stored.                                                 *)
Shape(c) ==
    /\ pc[c] \in IF c \in Batches THEN BatchSteps ELSE OneSteps
    /\ c \notin Batches => existing[c] = {} /\ (pc[c] # "idle" => Len(items[c]) = 1 /\ at[c] = 1)
    /\ c \in Batches => \A i, j \in DOMAIN items[c] : i # j => items[c][i] # items[c][j]
    /\ c \in Batches /\ pc[c] \in {"lock", "read", "commit"} => at[c] = 0
    /\ pc[c] \in Committed => at[c] \in DOMAIN items[c] /\ Item(c) \notin existing[c]
    /\ pc[c] \in {"forget", "unset"} => answer[c] \in {"unavailable", "failed"}
CallShape == \A c \in Calls : Shape(c)

(* Whatever a call found stored stays stored; past its commit the rows that were missing  *)
(* are its own, those behind it are counted, those ahead of it are not.                   *)
Rows(c) ==
    /\ existing[c] \subseteq Stored
    /\ pc[c] \in Committed => \A i \in DOMAIN items[c] :
          items[c][i] \notin existing[c] =>
             /\ creator[items[c][i]] = c
             /\ counted[items[c][i]] =
                   IF i < at[c] \/ (i = at[c] /\ pc[c] = "windows") THEN 1 ELSE 0
RowsAgree == \A c \in Calls : Rows(c)

(* A row is counted, or ahead of its creator, or its creator failed.                      *)
RowsAreAccounted ==
    /\ CountedOnce
    /\ StoredIsCounted

(* A call that has not reached its commit has no row, except a redelivered one.           *)
Early == {"idle", "claim", "redis", "lock", "lookup", "reclaim", "reredis", "insert", "read",
          "commit"}
NoRowYet ==
    \A c \in Calls \ Streams : pc[c] \in Early => \A x \in Transactions : creator[x] # c

(* Who has an entry in the local cache or in Redis, or had one it lost.                   *)
HoldsLocal(c) ==
    /\ c \notin Batches
    /\ \/ pc[c] \in {"redis", "reredis"}
       \/ claimed[c] /\ pc[c] \in {"lock", "insert", "publish", "count", "windows", "forget"}
HoldsRedis(c) ==
    /\ c \notin Batches /\ claimed[c]
    /\ pc[c] \in {"lock", "insert", "publish", "count", "windows", "forget", "unset"}
Entry(c) == <<home[c], Item(c)>>

Keeps(c) ==
    /\ c \notin Batches /\ pc[c] \in {"insert", "publish", "count", "windows", "forget", "unset"}
          => claimed[c]
    /\ c \notin Batches
       /\ pc[c] \in {"idle", "claim", "redis", "lookup", "reclaim", "reredis", "done"}
          => ~ claimed[c]
    /\ HoldsLocal(c) => Entry(c) \in local \cup forgotten
    /\ HoldsRedis(c) => Item(c) \in redis \cup unsure
ClaimsAreKept == \A c \in Calls : Keeps(c)

(* Two calls hold an entry only after the first of them has lost its own.                 *)
ClaimsAreSingle ==
    \A c, d \in Calls : c # d =>
        /\ HoldsLocal(c) /\ HoldsLocal(d) /\ Entry(c) = Entry(d) => Entry(c) \in forgotten
        /\ HoldsRedis(c) /\ HoldsRedis(d) /\ Item(c) = Item(d) => Item(c) \in unsure

IInv ==
    /\ TypeOK /\ CallShape /\ RowsAgree /\ RowsAreAccounted /\ NoRowYet /\ AnswersAreTrue
    /\ ClaimsAreKept /\ ClaimsAreSingle

-----------------------------------------------------------------------------
(* Types *)

(* The transaction a call works on is one. *)
LEMMA ItemTyped ==
    ASSUME TypeOK, CallShape, NEW c \in Calls,
           (c \notin Batches /\ pc[c] # "idle") \/ pc[c] \in Committed
    PROVE  /\ at[c] \in DOMAIN items[c] /\ Item(c) \in Transactions
           /\ Item(c) \in ItemSet(c) /\ home[c] \in Processes
<1>1. items[c] \in Seq(Transactions) /\ home[c] \in Processes
  BY IngestParameters DEF TypeOK
<1>2. at[c] \in DOMAIN items[c]
  BY <1>1 DEF CallShape, Shape
<1> QED
  BY <1>1, <1>2 DEF Item, ItemSet

(* What a step adds to the rows are transactions. *)
LEMMA NewTyped ==
    ASSUME TypeOK, NEW c \in Calls
    PROVE  /\ ItemSet(c) \subseteq Transactions /\ New(c) \subseteq Transactions
           /\ Ahead(c) \subseteq New(c)
<1>1. items[c] \in Seq(Transactions)
  BY DEF TypeOK
<1> QED
  BY <1>1 DEF ItemSet, New, Ahead

LEMMA InvInit == Init => IInv
<1> SUFFICES ASSUME Init PROVE IInv
  OBVIOUS
<1> USE DEF Init, ClaimInit
<1>1. TypeOK
  <2>1. items \in [Calls -> Seq(Transactions)] /\ existing \in [Calls -> SUBSET Transactions]
    OBVIOUS
  <2>2. home \in Placements /\ trouble \in 0..MaxTrouble /\ dropped \subseteq Stored
    BY IngestParameters
  <2> QED
    BY <2>1, <2>2, IngestParameters DEF TypeOK, ClaimTypeOK, LockTypeOK, Transactions, InLock
<1>2. CallShape
  BY DEF CallShape, Shape, BatchSteps, OneSteps, Committed
<1>3. RowsAgree /\ RowsAreAccounted /\ NoRowYet /\ AnswersAreTrue
  BY IngestParameters DEF RowsAgree, Rows, Committed, RowsAreAccounted, CountedOnce,
     StoredIsCounted, Stored,
     NoRowYet, AnswersAreTrue
<1>4. ClaimsAreKept /\ ClaimsAreSingle
  BY DEF ClaimsAreKept, Keeps, ClaimsAreSingle, HoldsLocal, HoldsRedis
<1> QED
  BY <1>1, <1>2, <1>3, <1>4 DEF IInv

(* Which actions change what. *)
LEMMA Frame ==
    ASSUME [Next]_vars
    PROVE  /\ home' = home
           /\ \/ creator' = creator
              \/ \E c \in Calls : Insert(c) \/ InsertFails(c) \/ Commit(c) \/ CommitFails(c)
           /\ counted' = counted \/ \E c \in Calls : Count(c)
           /\ topic' = topic \/ \E c \in Calls : InsertFails(c) \/ CommitFails(c)
           /\ \/ latest' = latest
              \/ \E c \in Calls : Count(c) \/ RefuseBatch(c)
              \/ \E p \in Processes : Reset(p) \/ Crash(p)
           /\ \/ dropped' = dropped
              \/ \E c \in Calls : \/ InsertFails(c) \/ CommitFails(c) \/ Publish(c)
                                    \/ OutOfOrder(c) \/ WindowsFail(c)
              \/ \E p \in Processes : Crash(p)
           /\ \/ local' = local
              \/ \E c \in Calls : ClaimLocally(c) \/ Forget(c)
              \/ \E p \in Processes : Crash(p)
              \/ \E p \in Processes, k \in Keys : LocalExpires(p, k)
           /\ \/ redis' = redis
              \/ \E c \in Calls : ClaimInRedis(c) \/ Unset(c)
              \/ \E k \in Keys : ClaimExpires(k)
           /\ \/ unsure' = unsure
              \/ \E c \in Calls : ClaimInRedis(c)
              \/ \E k \in Keys : ClaimExpires(k)
           /\ forgotten' = forgotten \/ \E p \in Processes, k \in Keys : LocalExpires(p, k)
           /\ items' = items \/ \E c \in Calls : Submit(c)
           /\ at' = at \/ \E c \in Calls : Submit(c) \/ Windows(c) \/ Commit(c)
           /\ existing' = existing \/ \E c \in Calls : Read(c)
<1> USE DEF vars, store, claimVars, calls, Go, Say, Trouble, Continue, Answer,
   AnswerStored, Return,
        Fail
<1>1. home' = home
  BY DEF Next
<1>2. \/ creator' = creator
      \/ \E c \in Calls : Insert(c) \/ InsertFails(c) \/ Commit(c) \/ CommitFails(c)
  BY DEF Next, Step, Submit, ClaimLocally, ClaimInRedis, ClaimRefused, Acquire, Lookup,
      Publish, Count, OutOfOrder, Windows, WindowsFail, Forget, Unset, Read, RefuseBatch,
      Redeliver, Reset, Crash, LocalExpires, LocalLoses, ClaimExpires, RedisExpires
<1>3. counted' = counted \/ \E c \in Calls : Count(c)
  BY DEF Next, Step, Submit, ClaimLocally, ClaimInRedis, ClaimRefused, Acquire, Lookup,
      Insert, InsertFails, Publish, OutOfOrder, Windows, WindowsFail, Forget, Unset, Read,
      RefuseBatch, Commit, CommitFails, Redeliver, Reset, Crash, LocalExpires, LocalLoses,
      ClaimExpires, RedisExpires
<1>4. topic' = topic \/ \E c \in Calls : InsertFails(c) \/ CommitFails(c)
  BY DEF Next, Step, Submit, ClaimLocally, ClaimInRedis, ClaimRefused, Acquire, Lookup,
      Insert, Publish, Count, OutOfOrder, Windows, WindowsFail, Forget, Unset, Read,
      RefuseBatch, Commit, Redeliver, Reset, Crash, LocalExpires, LocalLoses,
      ClaimExpires, RedisExpires
<1>5. \/ latest' = latest
      \/ \E c \in Calls : Count(c) \/ RefuseBatch(c)
      \/ \E p \in Processes : Reset(p) \/ Crash(p)
  BY DEF Next, Step, Submit, ClaimLocally, ClaimInRedis, ClaimRefused, Acquire, Lookup,
      Insert, InsertFails, Publish, OutOfOrder, Windows, WindowsFail, Forget, Unset, Read,
      Commit, CommitFails, Redeliver, LocalExpires, LocalLoses, ClaimExpires, RedisExpires
<1>6. \/ dropped' = dropped
      \/ \E c \in Calls : \/ InsertFails(c) \/ CommitFails(c) \/ Publish(c)
                            \/ OutOfOrder(c) \/ WindowsFail(c)
      \/ \E p \in Processes : Crash(p)
  BY DEF Next, Step, Submit, ClaimLocally, ClaimInRedis, ClaimRefused, Acquire, Lookup,
      Insert, Count, Windows, Forget, Unset, Read, RefuseBatch, Commit, Redeliver, Reset,
      LocalExpires, LocalLoses, ClaimExpires, RedisExpires
<1>7. \/ local' = local
      \/ \E c \in Calls : ClaimLocally(c) \/ Forget(c)
      \/ \E p \in Processes : Crash(p)
      \/ \E p \in Processes, k \in Keys : LocalExpires(p, k)
  BY DEF Next, Step, Submit, ClaimInRedis, RedisClaim, RedisFails, ClaimRefused,
      RedisRefuses, Acquire, Lookup, Insert, InsertFails, Publish, Count, OutOfOrder,
      Windows, WindowsFail, Unset, RedisRelease, RedisReleaseFails, Read, RefuseBatch,
      Commit, CommitFails, Redeliver, Reset, ClaimExpires, RedisExpires
<1>8. \/ redis' = redis
      \/ \E c \in Calls : ClaimInRedis(c) \/ Unset(c)
      \/ \E k \in Keys : ClaimExpires(k)
  BY DEF Next, Step, Submit, ClaimLocally, LocalClaim, ClaimRefused, RedisRefuses,
      Acquire, Lookup, Insert, InsertFails, Publish, Count, OutOfOrder, Windows,
      WindowsFail, Forget, LocalRelease, Read, RefuseBatch, Commit, CommitFails,
      Redeliver, Reset, Crash, LocalCleared, LocalExpires, LocalLoses, LocalLoses
<1>9. \/ unsure' = unsure
      \/ \E c \in Calls : ClaimInRedis(c)
      \/ \E k \in Keys : ClaimExpires(k)
  BY DEF Next, Step, Submit, ClaimLocally, LocalClaim, ClaimRefused, RedisRefuses,
      Acquire, Lookup, Insert, InsertFails, Publish, Count, OutOfOrder, Windows,
      WindowsFail, Forget, LocalRelease, Unset, RedisRelease, RedisReleaseFails, Read,
      RefuseBatch, Commit, CommitFails, Redeliver, Reset, Crash, LocalCleared,
      LocalExpires, LocalLoses
<1>10. forgotten' = forgotten \/ \E p \in Processes, k \in Keys : LocalExpires(p, k)
  BY DEF Next, Step, Submit, ClaimLocally, LocalClaim, ClaimInRedis, RedisClaim,
      RedisFails, ClaimRefused, RedisRefuses, Acquire, Lookup, Insert, InsertFails,
      Publish, Count, OutOfOrder, Windows, WindowsFail, Forget, LocalRelease, Unset,
      RedisRelease, RedisReleaseFails, Read, RefuseBatch, Commit, CommitFails, Redeliver,
      Reset, Crash, LocalCleared, ClaimExpires, RedisExpires
<1>11. items' = items \/ \E c \in Calls : Submit(c)
  BY DEF Next, Step, ClaimLocally, ClaimInRedis, ClaimRefused, Acquire, Lookup, Insert,
      InsertFails, Publish, Count, OutOfOrder, Windows, WindowsFail, Forget, Unset, Read,
      RefuseBatch, Commit, CommitFails, Redeliver, Reset, Crash, LocalExpires, LocalLoses,
      ClaimExpires, RedisExpires
<1>12. at' = at \/ \E c \in Calls : Submit(c) \/ Windows(c) \/ Commit(c)
  BY DEF Next, Step, ClaimLocally, ClaimInRedis, ClaimRefused, Acquire, Lookup, Insert,
      InsertFails, Publish, Count, OutOfOrder, WindowsFail, Forget, Unset, Read,
      RefuseBatch, CommitFails, Redeliver, Reset, Crash, LocalExpires, LocalLoses,
      ClaimExpires, RedisExpires
<1>13. existing' = existing \/ \E c \in Calls : Read(c)
  BY DEF Next, Step, Submit, ClaimLocally, ClaimInRedis, ClaimRefused, Acquire, Lookup,
      Insert, InsertFails, Publish, Count, OutOfOrder, Windows, WindowsFail, Forget,
      Unset, RefuseBatch, Commit, CommitFails, Redeliver, Reset, Crash, LocalExpires,
      LocalLoses, ClaimExpires, RedisExpires
<1> QED
  BY <1>1, <1>2, <1>3, <1>4, <1>5, <1>6, <1>7, <1>8, <1>9, <1>10, <1>11, <1>12, <1>13

(* How a step moves a call and its lock: on one side of the lock, into it, out of it, or  *)
(* out of the process.                                                                    *)
Along == lock' = lock /\ \A c \in Calls : pc'[c] \in InLock <=> pc[c] \in InLock
Out(c) == pc[c] \in InLock /\ Return(c)

LEMMA Moves ==
    ASSUME TypeOK, [Next]_vars
    PROVE  \/ Along
           \/ \E c \in Calls : Acquire(c) \/ Out(c)
           \/ \E p \in Processes : Crash(p)
<1> USE DEF At, Go, Continue, Answer, AnswerStored, Fail, InLock, Along, Out
<1>0. \E S : pc \in [Calls -> S]
  BY DEF TypeOK
<1>1. ASSUME NEW c \in Calls, Submit(c) \/ Redeliver(c) \/ ClaimLocally(c) \/ ClaimInRedis(c)
      PROVE  Along
  BY <1>0, <1>1 DEF Submit, Redeliver, ClaimLocally, ClaimInRedis, Claiming, Granted
<1>2. ASSUME NEW c \in Calls, ClaimRefused(c)
      PROVE  Along \/ Out(c)
  BY <1>0, <1>2 DEF ClaimRefused, Claiming, Granted, Refused
<1>3. ASSUME NEW c \in Calls,
             InsertFails(c) \/ Count(c) \/ Forget(c) \/ Read(c)
      PROVE  Along
  BY <1>0, <1>3 DEF InsertFails, Count, Forget, Read
<1>4. ASSUME NEW c \in Calls, Lookup(c) \/ Insert(c) \/ Publish(c) \/ OutOfOrder(c)
      PROVE  Along \/ Out(c)
  BY <1>0, <1>4 DEF Lookup, Insert, Publish, OutOfOrder
<1>5. ASSUME NEW c \in Calls, Windows(c) \/ WindowsFail(c) \/ Commit(c)
      PROVE  Along \/ Out(c)
  BY <1>0, <1>5 DEF Windows, WindowsFail, Commit
<1>6. ASSUME NEW c \in Calls, Unset(c) \/ RefuseBatch(c) \/ CommitFails(c)
      PROVE  Out(c)
  BY <1>0, <1>6 DEF Unset, RefuseBatch, CommitFails
<1>7. ASSUME NEW p \in Processes, Reset(p)
      PROVE  Along
  BY <1>7 DEF Reset
<1>8. ASSUME NEW k \in Keys, ClaimExpires(k) \/ \E p \in Processes : LocalExpires(p, k)
      PROVE  Along
  BY <1>8 DEF ClaimExpires, LocalExpires, calls
<1>9. CASE UNCHANGED vars
  BY <1>9 DEF vars
<1> QED
  BY <1>1, <1>2, <1>3, <1>4, <1>5, <1>6, <1>7, <1>8, <1>9 DEF Next, Step

LEMMA LockStep == IInv /\ [Next]_vars => LockTypeOK'
<1> SUFFICES ASSUME IInv, [Next]_vars PROVE LockTypeOK'
  OBVIOUS
<1>0. /\ TypeOK /\ LockTypeOK /\ home' = home /\ \E S : pc \in [Calls -> S]
      /\ home \in [Calls -> Processes] /\ None \notin Calls
  <2>1. TypeOK /\ home' = home
    BY Frame DEF IInv
  <2> QED
    BY <2>1, IngestParameters DEF TypeOK
<1>1. CASE Along
  BY <1>0, <1>1 DEF Along, LockTypeOK
<1>3. ASSUME NEW c \in Calls, Acquire(c) PROVE LockTypeOK'
  BY <1>0, <1>3 DEF Acquire, Go, LockTypeOK, InLock, At
<1>4. ASSUME NEW c \in Calls, Out(c) PROVE LockTypeOK'
  BY <1>0, <1>4 DEF Out, Return, Go, LockTypeOK, InLock
<1>5. ASSUME NEW p \in Processes, Crash(p) PROVE LockTypeOK'
  BY <1>0, <1>5 DEF Crash, Cut, LockTypeOK, InLock
<1> QED
  BY <1>0, <1>1, <1>3, <1>4, <1>5, Moves

(* What a call knows changes by its own steps or ends with its process. *)
LEMMA Private ==
    ASSUME IInv, [Next]_vars, NEW d \in Calls
    PROVE  \/ Submit(d) \/ Step(d)
           \/ \E p \in Processes : Crash(p) /\ d \in Cut(p)
           \/ /\ pc'[d] = pc[d] /\ items'[d] = items[d] /\ at'[d] = at[d]
              /\ claimed'[d] = claimed[d] /\ existing'[d] = existing[d] /\ answer'[d] = answer[d]
<1> USE DEF Go, Continue, Answer, AnswerStored, Fail, Return, Say
<1> DEFINE Same == /\ pc'[d] = pc[d] /\ items'[d] = items[d] /\ at'[d] = at[d]
                   /\ claimed'[d] = claimed[d] /\ existing'[d] = existing[d]
                   /\ answer'[d] = answer[d]
<1>0. TypeOK
  BY DEF IInv
<1>1. ASSUME NEW c \in Calls, c # d, Submit(c) \/ Redeliver(c) \/ ClaimLocally(c) \/ ClaimInRedis(c)
      PROVE  Same
  BY <1>0, <1>1 DEF Submit, Redeliver, ClaimLocally, ClaimInRedis, TypeOK
<1>2. ASSUME NEW c \in Calls, c # d, ClaimRefused(c) \/ Acquire(c) \/ Lookup(c)
      PROVE  Same
  BY <1>0, <1>2 DEF ClaimRefused, Acquire, Lookup, TypeOK
<1>3. ASSUME NEW c \in Calls, c # d,
             Insert(c) \/ InsertFails(c) \/ Publish(c) \/ Count(c) \/ OutOfOrder(c)
      PROVE  Same
  BY <1>0, <1>3 DEF Insert, InsertFails, Unavailable, Publish, Count, OutOfOrder, TypeOK
<1>4. ASSUME NEW c \in Calls, c # d, Windows(c) \/ WindowsFail(c) \/ Commit(c) \/ CommitFails(c)
      PROVE  Same
  BY <1>0, <1>4 DEF Windows, WindowsFail, Commit, CommitFails, Unavailable, Advance, TypeOK
<1>5. ASSUME NEW c \in Calls, c # d, Forget(c) \/ Unset(c) \/ Read(c) \/ RefuseBatch(c)
      PROVE  Same
  BY <1>0, <1>5 DEF Forget, Unset, Read, RefuseBatch, TypeOK
<1>6. ASSUME NEW p \in Processes, Crash(p), d \notin Cut(p)
      PROVE  Same
  BY <1>0, <1>6 DEF Crash, TypeOK
<1>7. ASSUME NEW p \in Processes, Reset(p)
      PROVE  Same
  BY <1>7 DEF Reset
<1>8. ASSUME NEW k \in Keys, ClaimExpires(k) \/ \E p \in Processes : LocalExpires(p, k)
      PROVE  Same
  BY <1>8 DEF ClaimExpires, LocalExpires, calls, store
<1>9. CASE UNCHANGED vars
  BY <1>9 DEF vars
<1> QED
  BY <1>1, <1>2, <1>3, <1>4, <1>5, <1>6, <1>7, <1>8, <1>9 DEF Next, Step

Answers == {"none", "created", "stored", "conflict", "unavailable", "failed", "crashed"}
Steps == InLock \cup {"idle", "claim", "redis", "lock", "done"}
ControlType ==
    /\ pc \in [Calls -> Steps] /\ claimed \in [Calls -> BOOLEAN]
    /\ answer \in [Calls -> Answers] /\ trouble \in 0..MaxTrouble

LEMMA ControlStep == TypeOK /\ [Next]_vars => ControlType'
<1> SUFFICES ASSUME TypeOK, [Next]_vars PROVE ControlType'
  OBVIOUS
<1> USE DEF At, Go, Say, Steps, InLock, Answers, ControlType
<1>0. ControlType /\ MaxTrouble \in Nat
  BY IngestParameters DEF TypeOK
<1>a. ASSUME NEW c \in Calls, NEW step \in Steps, Continue(c, step)
      PROVE  /\ pc' \in [Calls -> Steps] /\ claimed' \in [Calls -> BOOLEAN]
             /\ answer' \in [Calls -> Answers]
  BY <1>0, <1>a DEF Continue
<1>b. ASSUME NEW c \in Calls, Return(c)
      PROVE  pc' \in [Calls -> Steps] /\ claimed' \in [Calls -> BOOLEAN]
  BY <1>0, <1>b DEF Return
<1>c. ASSUME NEW c \in Calls, NEW a \in Answers, Say(c, a)
      PROVE  answer' \in [Calls -> Answers]
  BY <1>0, <1>c
<1>d. ASSUME Trouble
      PROVE  trouble' \in 0..MaxTrouble
  BY <1>0, <1>d DEF Trouble
<1>e. ASSUME NEW c \in Calls, Fail(c)
      PROVE  /\ pc' \in [Calls -> Steps] /\ claimed' \in [Calls -> BOOLEAN]
             /\ answer' \in [Calls -> Answers]
  BY <1>0, <1>e DEF Fail
<1>f. ASSUME NEW c \in Calls, NEW a \in Answers, Answer(c, a)
      PROVE  /\ pc' \in [Calls -> Steps] /\ claimed' \in [Calls -> BOOLEAN]
             /\ answer' \in [Calls -> Answers]
  BY <1>b, <1>c, <1>f DEF Answer
<1>1. ASSUME NEW c \in Calls, Submit(c) \/ Redeliver(c) \/ ClaimLocally(c) \/ ClaimInRedis(c)
      PROVE  ControlType'
  <2>1. CASE Submit(c) \/ Redeliver(c)
    BY <1>0, <2>1 DEF Submit, Redeliver
  <2>2. CASE ClaimLocally(c)
    BY <1>0, <2>2 DEF ClaimLocally, Claiming
  <2>3. CASE ClaimInRedis(c)
    <3>1. claimed' \in [Calls -> BOOLEAN] /\ trouble' \in 0..MaxTrouble /\ answer' = answer
      BY <1>0, <1>d, <2>3 DEF ClaimInRedis
    <3>2. pc' \in [Calls -> Steps]
      BY <1>0, <2>3 DEF ClaimInRedis, Granted
    <3> QED
      BY <1>0, <3>1, <3>2
  <2> QED
    BY <1>1, <2>1, <2>2, <2>3
<1>2. ASSUME NEW c \in Calls, ClaimRefused(c) \/ Acquire(c) \/ Lookup(c)
      PROVE  ControlType'
  <2>1. pc[c] \in DOMAIN Refused => Refused[pc[c]] \in Steps
    BY DEF Refused
  <2> QED
    BY <1>0, <1>2, <2>1, <1>a, <1>d, <1>f DEF ClaimRefused, Acquire, Lookup, AnswerStored
<1>3. ASSUME NEW c \in Calls, Insert(c) \/ InsertFails(c) \/ Publish(c) \/ Count(c)
      PROVE  ControlType'
  BY <1>0, <1>3, <1>a, <1>c, <1>d, <1>e, <1>f
     DEF Insert, InsertFails, Unavailable, Publish, Count, AnswerStored
<1>4. ASSUME NEW c \in Calls, OutOfOrder(c) \/ Windows(c) \/ WindowsFail(c)
      PROVE  ControlType'
  BY <1>0, <1>4, <1>a, <1>d, <1>e, <1>f DEF OutOfOrder, Windows, WindowsFail
<1>5. ASSUME NEW c \in Calls, Commit(c) \/ CommitFails(c) \/ RefuseBatch(c)
      PROVE  ControlType'
  BY <1>0, <1>5, <1>a, <1>b, <1>c, <1>d, <1>f
     DEF Commit, CommitFails, Unavailable, RefuseBatch, AnswerStored
<1>6. ASSUME NEW c \in Calls, Forget(c) \/ Unset(c) \/ Read(c)
      PROVE  ControlType'
  BY <1>0, <1>6, <1>b, <1>d DEF Forget, Unset, Read
<1>7. ASSUME NEW p \in Processes, Crash(p) \/ Reset(p)
      PROVE  ControlType'
  <2>1. CASE Crash(p)
    <3>1. pc' \in [Calls -> Steps] /\ answer' \in [Calls -> Answers] /\ trouble' \in 0..MaxTrouble
      BY <1>0, <1>d, <2>1 DEF Crash
    <3>2. claimed' = [c \in Calls |-> c \notin Cut(p) /\ claimed[c]]
      BY <2>1 DEF Crash
    <3>3. claimed' \in [Calls -> BOOLEAN]
      BY <3>2, Zenon
    <3> QED
      BY <3>1, <3>3
  <2>2. CASE Reset(p)
    BY <1>0, <2>2 DEF Reset
  <2> QED
    BY <1>7, <2>1, <2>2
<1>8. ASSUME NEW k \in Keys, ClaimExpires(k) \/ \E p \in Processes : LocalExpires(p, k)
      PROVE  ControlType'
  BY <1>0, <1>8 DEF ClaimExpires, LocalExpires, calls
<1>9. CASE UNCHANGED vars
  BY <1>0, <1>9 DEF vars
<1> QED
  BY <1>1, <1>2, <1>3, <1>4, <1>5, <1>6, <1>7, <1>8, <1>9 DEF Next, Step

(* Rows are never overwritten. *)
LEMMA RowsStay ==
    ASSUME IInv, [Next]_vars
    PROVE  /\ creator' \in [Transactions -> Calls \cup {None}]
           /\ \A x \in Stored : creator'[x] = creator[x]
           /\ Stored \subseteq Stored'
<1>0. TypeOK /\ CallShape /\ creator \in [Transactions -> Calls \cup {None}]
  BY DEF IInv, TypeOK
<1>1. ASSUME NEW c \in Calls, Insert(c)
      PROVE  /\ creator' \in [Transactions -> Calls \cup {None}]
             /\ \A x \in Stored : creator'[x] = creator[x]
  BY <1>0, <1>1 DEF Insert, Stored, AnswerStored
<1>2. ASSUME NEW c \in Calls, NEW new, Unavailable(c, new)
      PROVE  /\ creator' \in [Transactions -> Calls \cup {None}]
             /\ \A x \in Stored : creator'[x] = creator[x]
  BY <1>0, <1>2 DEF Unavailable, Stored
<1>3. ASSUME NEW c \in Calls, Commit(c)
      PROVE  /\ creator' \in [Transactions -> Calls \cup {None}]
             /\ \A x \in Stored : creator'[x] = creator[x]
  BY <1>0, <1>3 DEF Commit, Stored
<1>4. /\ creator' \in [Transactions -> Calls \cup {None}]
      /\ \A x \in Stored : creator'[x] = creator[x]
  BY <1>0, <1>1, <1>2, <1>3, Frame DEF InsertFails, CommitFails
<1> QED
  BY <1>4 DEF Stored

(* A failed commit that stored its rows lists them as dropped. *)
LEMMA DroppedAreStored ==
    ASSUME IInv, [Next]_vars
    PROVE  dropped' \subseteq Stored'
<1>0. TypeOK /\ CallShape /\ RowsAgree /\ dropped \subseteq Stored /\ Stored \subseteq Stored'
  BY RowsStay DEF IInv, TypeOK
<1>1. ASSUME NEW c \in Calls, NEW new \in SUBSET Transactions, Unavailable(c, new)
      PROVE  dropped' \subseteq Stored'
  BY <1>0, <1>1, IngestParameters DEF Unavailable, Stored
<1>2. ASSUME NEW c \in Calls, pc[c] \in Committed
      PROVE  Ahead(c) \subseteq Stored /\ Item(c) \in Stored
  BY <1>0, <1>2, ItemTyped, NewTyped, IngestParameters
     DEF RowsAgree, Rows, Ahead, Stored, Item, CallShape, Shape
<1>3. ASSUME NEW c \in Calls, Publish(c) \/ OutOfOrder(c) \/ WindowsFail(c)
      PROVE  dropped' \subseteq Stored'
  BY <1>0, <1>2, <1>3 DEF Publish, OutOfOrder, WindowsFail, At, Committed
<1>4. ASSUME NEW c \in Calls, InsertFails(c) \/ CommitFails(c)
      PROVE  dropped' \subseteq Stored'
  <2>1. InsertFails(c) => {Item(c)} \in SUBSET Transactions
    BY <1>0, ItemTyped DEF InsertFails, At, CallShape, Shape, BatchSteps
  <2>2. New(c) \in SUBSET Transactions
    BY <1>0, NewTyped
  <2> QED
    BY <1>1, <1>4, <2>1, <2>2 DEF InsertFails, CommitFails
<1>5. ASSUME NEW p \in Processes, Crash(p)
      PROVE  dropped' \subseteq Stored'
  BY <1>0, <1>5 DEF Crash
<1> QED
  BY <1>0, <1>3, <1>4, <1>5, Frame

LEMMA ClaimTypeStep == IInv /\ [Next]_vars => ClaimTypeOK'
<1> SUFFICES ASSUME IInv, [Next]_vars PROVE ClaimTypeOK'
  OBVIOUS
<1>0. TypeOK /\ CallShape /\ ClaimTypeOK
  BY DEF IInv, TypeOK
<1>1. ASSUME NEW c \in Calls, ClaimLocally(c) \/ ClaimInRedis(c) \/ Forget(c) \/ Unset(c)
      PROVE  Item(c) \in Keys /\ home[c] \in Processes
  <2>1. (c \notin Batches /\ pc[c] # "idle") \/ pc[c] \in Committed
    BY <1>0, <1>1 DEF ClaimLocally, ClaimInRedis, Claiming, Granted, Forget, Unset, At,
       CallShape, Shape,
       BatchSteps, Committed
  <2> QED
    BY <1>0, <2>1, ItemTyped DEF Transactions
<1>2. local' \subseteq Processes \X Keys
  <2>1. ASSUME NEW c \in Calls, ClaimLocally(c) \/ Forget(c)
        PROVE  local' \subseteq Processes \X Keys
    BY <1>0, <1>1, <2>1 DEF ClaimTypeOK, ClaimLocally, LocalClaim, Forget, LocalRelease
  <2>2. ASSUME NEW p \in Processes, Crash(p) \/ \E k \in Keys : LocalExpires(p, k)
        PROVE  local' \subseteq Processes \X Keys
    BY <1>0, <2>2 DEF ClaimTypeOK, Crash, LocalCleared, LocalExpires, LocalLoses
  <2> QED
    BY <1>0, <2>1, <2>2, Frame DEF ClaimTypeOK
<1>3. redis' \subseteq Keys /\ unsure' \subseteq Keys
  BY <1>0, <1>1, Frame DEF ClaimTypeOK, ClaimInRedis, RedisClaim, RedisFails, Unset,
     RedisRelease,
     RedisReleaseFails, ClaimExpires, RedisExpires
<1>4. forgotten' \subseteq Processes \X Keys
  BY <1>0, Frame DEF ClaimTypeOK, LocalExpires, LocalLoses
<1> QED
  BY <1>2, <1>3, <1>4 DEF ClaimTypeOK

LEMMA TypeStep == IInv /\ [Next]_vars => TypeOK'
<1> SUFFICES ASSUME IInv, [Next]_vars PROVE TypeOK'
  OBVIOUS
<1>0. TypeOK /\ CallShape
  BY DEF IInv
<1>1. ClaimTypeOK' /\ LockTypeOK' /\ ControlType'
  BY <1>0, ClaimTypeStep, LockStep, ControlStep
<1>2. creator' \in [Transactions -> Calls \cup {None}] /\ dropped' \subseteq Stored'
  BY RowsStay, DroppedAreStored
<1>3. counted' \in [Transactions -> Nat] /\ home' \in Placements
  <2>1. home' = home /\ (counted' = counted \/ \E c \in Calls : Count(c))
    BY Frame
  <2> QED
    <3>1. counted \in [Transactions -> Nat] /\ home \in Placements
      BY <1>0 DEF TypeOK
    <3>2. counted' = counted \/ \E x : counted' = [counted EXCEPT ![x] = @ + 1]
      BY <2>1 DEF Count
    <3> QED
      BY <2>1, <3>1, <3>2
<1>4. topic' \subseteq Transactions
  <2>1. ASSUME NEW c \in Calls PROVE items[c] \in Seq(Transactions)
    BY <1>0 DEF TypeOK
  <2>2. ASSUME NEW c \in Calls, Buffer(c) PROVE topic' \subseteq Transactions
    <3>1. items[c] \in Seq(Transactions) /\ topic \subseteq Transactions
      BY <1>0, <2>1 DEF TypeOK
    <3> QED
      BY <2>2, <3>1 DEF Buffer
  <2> QED
    BY <1>0, <2>2, Frame DEF TypeOK, InsertFails, CommitFails, Unavailable
<1>5. latest' \in [Processes -> Nat]
  <2>1. ASSUME NEW c \in Calls, Count(c) PROVE Item(c) \in Nat
    BY <1>0, <2>1, ItemTyped, IngestParameters DEF Count, At, Committed, Transactions
  <2> QED
    BY <1>0, <2>1, Frame DEF TypeOK, Count, RefuseBatch, Reset, Crash
<1>6. items' \in [Calls -> Seq(Transactions)]
  <2>1. ASSUME NEW c \in Calls, NEW request \in Requests(c) PROVE request \in Seq(Transactions)
    <3>1. Lots \subseteq Seq(Transactions) /\ topic \subseteq Transactions
      BY <1>0, IngestParameters DEF TypeOK, Transactions
    <3> QED
      BY <2>1, <3>1 DEF Requests
  <2>2. items' = items \/ \E c \in Calls : Submit(c)
    BY Frame
  <2> QED
    BY <1>0, <2>1, <2>2 DEF TypeOK, Submit
<1>7. at' \in [Calls -> Nat]
  <2>1. ASSUME NEW c \in Calls, Advance(c) PROVE at' \in [Calls -> Nat]
    <3>1. items[c] \in Seq(Transactions) /\ at \in [Calls -> Nat]
      BY <1>0 DEF TypeOK
    <3> QED
      BY <2>1, <3>1 DEF Advance, Left
  <2>2. at' = at \/ \E c \in Calls : Submit(c) \/ Windows(c) \/ Commit(c)
    BY Frame
  <2> QED
    BY <1>0, <2>1, <2>2 DEF TypeOK, Submit, Windows, Commit
<1>8. existing' \in [Calls -> SUBSET Transactions]
  <2>1. ASSUME NEW c \in Calls PROVE ItemSet(c) \cap Stored \in SUBSET Transactions
    BY DEF Stored
  <2>2. existing' = existing \/ \E c \in Calls : Read(c)
    BY Frame
  <2> QED
    BY <1>0, <2>1, <2>2 DEF TypeOK, Read
<1> QED
  BY <1>1, <1>2, <1>3, <1>4, <1>5, <1>6, <1>7, <1>8 DEF TypeOK, ControlType, Steps, Answers

-----------------------------------------------------------------------------
(* Where a call stands, what the rows say of it *)

LEMMA ShapeStep == IInv /\ [Next]_vars => CallShape'
<1> SUFFICES ASSUME IInv, [Next]_vars, NEW d \in Calls PROVE Shape(d)'
  BY DEF CallShape
<1> USE DEF At, Go, Say, Shape, Item, OneSteps, BatchSteps, Committed
<1>0. /\ TypeOK /\ Shape(d) /\ items[d] \in Seq(Transactions) /\ at[d] \in Nat
      /\ existing[d] \in SUBSET Transactions
  BY DEF IInv, TypeOK, CallShape
<1>1. CASE Submit(d)
  <2>1. PICK request \in Requests(d) : items' = [items EXCEPT ![d] = request]
    BY <1>1 DEF Submit
  <2>2. d \in Batches => \A i, j \in DOMAIN request : i # j => request[i] # request[j]
    BY <2>1, IngestParameters DEF Requests
  <2>3. d \notin Batches => Len(request) = 1
    BY <2>1 DEF Requests
  <2> QED
    BY <1>0, <1>1, <2>1, <2>2, <2>3 DEF Submit, TypeOK
<1>2. CASE Redeliver(d) \/ ClaimLocally(d) \/ ClaimInRedis(d)
  BY <1>0, <1>2, IngestParameters DEF Redeliver, ClaimLocally, ClaimInRedis, Claiming,
     Granted, TypeOK
<1>3. CASE ClaimRefused(d)
  BY <1>0, <1>3 DEF ClaimRefused, Claiming, Granted, Refused, Continue, Answer, Return, TypeOK
<1>4. CASE Acquire(d) \/ Lookup(d)
  BY <1>0, <1>4 DEF Acquire, Lookup, Continue, Answer, AnswerStored, Return, TypeOK
<1>5. CASE Insert(d)
  <2>1. \/ pc' = [pc EXCEPT ![d] = "done"]
        \/ pc' = [pc EXCEPT ![d] = "publish"]
    BY <1>5 DEF Insert, AnswerStored, Answer, Return, Continue
  <2>2. UNCHANGED <<items, at, existing>> /\ pc[d] = "insert"
    BY <1>5 DEF Insert
  <2>3. d \notin Batches
    BY <1>0, <2>2
  <2> QED
    BY <1>0, <2>1, <2>2, <2>3 DEF TypeOK
<1>6. CASE InsertFails(d)
  BY <1>0, <1>6 DEF InsertFails, Unavailable, TypeOK
<1>7. CASE Publish(d)
  <2>1. \/ pc' = [pc EXCEPT ![d] = "count"]
        \/ pc' = [pc EXCEPT ![d] = "forget"] /\ answer' = [answer EXCEPT ![d] = "failed"]
    BY <1>7 DEF Publish, Fail, Continue
  <2>2. UNCHANGED <<items, at, existing>> /\ pc[d] = "publish"
    BY <1>7 DEF Publish, store
  <2>3. d \notin Batches
    BY <1>0, <2>2
  <2> QED
    BY <1>0, <2>1, <2>2, <2>3 DEF TypeOK
<1>8. CASE Count(d)
  BY <1>0, <1>8 DEF Count, TypeOK
<1>9. CASE OutOfOrder(d) \/ WindowsFail(d)
  BY <1>0, <1>9 DEF OutOfOrder, WindowsFail, Fail, Answer, Return, TypeOK
<1>10. CASE Windows(d)
  BY <1>0, <1>10 DEF Windows, Behind, Advance, Left, Continue, Answer, Return, TypeOK
<1>11. CASE Forget(d) \/ Unset(d)
  BY <1>0, <1>11 DEF Forget, Unset, Return, TypeOK
<1>12. CASE Read(d) \/ RefuseBatch(d)
  BY <1>0, <1>12 DEF Read, RefuseBatch, Answer, Return, TypeOK
<1>13. CASE Commit(d)
  BY <1>0, <1>13 DEF Commit, Behind, Advance, Left, Continue, AnswerStored, Answer, Return,
     TypeOK
<1>14. CASE CommitFails(d)
  BY <1>0, <1>14 DEF CommitFails, Unavailable, Return, TypeOK
<1>15. ASSUME NEW p \in Processes, Crash(p), d \in Cut(p) PROVE Shape(d)'
  BY <1>0, <1>15 DEF Crash, Cut
<1>16. CASE /\ pc'[d] = pc[d] /\ items'[d] = items[d] /\ at'[d] = at[d]
            /\ existing'[d] = existing[d] /\ answer'[d] = answer[d]
  BY <1>0, <1>16
<1> QED
  BY <1>1, <1>2, <1>3, <1>4, <1>5, <1>6, <1>7, <1>8, <1>9, <1>10, <1>11, <1>12, <1>13, <1>14,
     <1>15, <1>16, Private DEF Step

(* Only its creator feeds a transaction to the detector, and only once. *)
LEMMA CountsStay ==
    ASSUME IInv, [Next]_vars, NEW x \in Transactions
    PROVE  \/ counted'[x] = counted[x]
           \/ \E c \in Calls : /\ Count(c) /\ x = Item(c) /\ creator[x] = c
                               /\ counted[x] = 0 /\ counted'[x] = 1
<1>0. TypeOK /\ CallShape /\ RowsAgree /\ (counted' = counted \/ \E c \in Calls : Count(c))
  BY Frame DEF IInv
<1>1. ASSUME NEW c \in Calls, Count(c), counted'[x] # counted[x]
      PROVE  /\ x = Item(c) /\ creator[x] = c /\ counted[x] = 0 /\ counted'[x] = 1
  <2>1. pc[c] = "count" /\ pc[c] \in Committed /\ counted' = [counted EXCEPT ![Item(c)] = @ + 1]
    BY <1>1 DEF Count, At, Committed
  <2>2. x = Item(c) /\ counted'[x] = counted[x] + 1
    BY <1>0, <1>1, <2>1 DEF TypeOK
  <2>3. at[c] \in DOMAIN items[c] /\ Item(c) \notin existing[c] /\ at[c] \in Nat
    BY <1>0, <2>1, ItemTyped DEF CallShape, Shape, TypeOK
  <2>4. creator[x] = c /\ counted[x] = 0
    BY <1>0, <2>1, <2>2, <2>3 DEF RowsAgree, Rows, Item
  <2> QED
    BY <2>2, <2>4
<1> QED
  BY <1>0, <1>1

LEMMA RowsStep == IInv /\ [Next]_vars => RowsAgree'
<1> SUFFICES ASSUME IInv, [Next]_vars, NEW d \in Calls PROVE Rows(d)'
  BY DEF RowsAgree
<1> USE DEF At, Go, Committed
<1>0. /\ TypeOK /\ CallShape /\ RowsAgree /\ RowsAreAccounted /\ Shape(d) /\ Rows(d)
      /\ items[d] \in Seq(Transactions) /\ at[d] \in Nat /\ existing[d] \in SUBSET Transactions
      /\ None \notin Calls
  BY IngestParameters DEF IInv, TypeOK, CallShape, RowsAgree
<1>1. Stored \subseteq Stored' /\ \A x \in Stored : creator'[x] = creator[x]
  BY RowsStay
<1>2. ASSUME pc'[d] \notin Committed, existing'[d] = existing[d]
      PROVE  Rows(d)'
  BY <1>0, <1>1, <1>2 DEF Rows
<1>3. ASSUME ~ Count(d), items'[d] = items[d], at'[d] = at[d], existing'[d] = existing[d],
             pc[d] \in Committed, pc'[d] \in Committed, pc[d] = "windows" <=> pc'[d] = "windows"
      PROVE  Rows(d)'
  <2>1. ASSUME NEW i \in DOMAIN items[d], items[d][i] \notin existing[d]
        PROVE  /\ creator'[items[d][i]] = creator[items[d][i]]
               /\ counted'[items[d][i]] = counted[items[d][i]]
    <3>1. items[d][i] \in Transactions /\ creator[items[d][i]] = d
      BY <1>0, <1>3, <2>1 DEF Rows
    <3> QED
      BY <1>0, <1>1, <1>3, <3>1, CountsStay DEF Stored
  <2> QED
    BY <1>0, <1>1, <1>3, <2>1 DEF Rows
<1>4. CASE Submit(d) \/ Redeliver(d) \/ Acquire(d) \/ Lookup(d) \/ InsertFails(d) \/ OutOfOrder(d)
  BY <1>0, <1>2, <1>4 DEF Submit, Redeliver, Acquire, Lookup, InsertFails, OutOfOrder,
     Continue, Answer, AnswerStored, Return, Fail, TypeOK
<1>5. CASE WindowsFail(d) \/ Forget(d) \/ Unset(d) \/ RefuseBatch(d) \/ CommitFails(d)
  BY <1>0, <1>2, <1>5 DEF WindowsFail, Forget, Unset, RefuseBatch, CommitFails,
     Answer, Return, Fail, TypeOK
<1>6. CASE ClaimLocally(d) \/ ClaimInRedis(d) \/ ClaimRefused(d) \/ Publish(d)
  <2>1. /\ UNCHANGED <<items, at, existing>> /\ ~ Count(d)
        /\ \/ pc'[d] \notin Committed
           \/ pc[d] \in Committed /\ pc'[d] \in Committed /\ pc[d] # "windows" /\ pc'[d] # "windows"
    <3>1. CASE ClaimLocally(d) \/ ClaimInRedis(d)
      BY <1>0, <3>1 DEF ClaimLocally, ClaimInRedis, Claiming, Granted, TypeOK, Count
    <3>2. CASE ClaimRefused(d)
      BY <1>0, <3>2 DEF ClaimRefused, Claiming, Granted, Refused, Continue, Answer, Return,
         TypeOK, Count
    <3>3. CASE Publish(d)
      BY <1>0, <3>3 DEF Publish, Continue, Fail, TypeOK, Count
    <3> QED
      BY <1>6, <3>1, <3>2, <3>3
  <2> QED
    BY <1>2, <1>3, <2>1
<1>7. CASE Insert(d)
  <2>1. pc[d] = "insert" /\ d \notin Batches /\ UNCHANGED <<items, at, existing, counted>>
    BY <1>0, <1>7 DEF Insert, Shape, BatchSteps
  <2>2. Len(items[d]) = 1 /\ at[d] = 1 /\ Item(d) \in Transactions
    BY <1>0, <2>1, ItemTyped DEF Shape
  <2>3. CASE Item(d) \in Stored
    BY <1>0, <1>2, <1>7, <2>1, <2>3 DEF Insert, AnswerStored, Answer, Return, TypeOK
  <2>4. CASE Item(d) \notin Stored
    <3>1. creator'[Item(d)] = d /\ pc'[d] = "publish"
      BY <1>0, <1>7, <2>2, <2>4 DEF Insert, Continue, TypeOK
    <3>2. counted[Item(d)] = 0
      BY <1>0, <2>2, <2>4 DEF RowsAreAccounted, StoredIsCounted, TypeOK
    <3> QED
      BY <1>0, <1>1, <2>1, <2>2, <3>1, <3>2 DEF Rows, Item
  <2> QED
    BY <2>3, <2>4
<1>8. CASE Count(d)
  <2>1. /\ pc[d] = "count" /\ pc'[d] = "windows" /\ UNCHANGED <<items, at, existing, creator>>
        /\ at[d] \in DOMAIN items[d] /\ Item(d) \notin existing[d] /\ Item(d) \in Transactions
    BY <1>0, <1>8, ItemTyped DEF Count, TypeOK, Shape
  <2>2. counted'[Item(d)] = counted[Item(d)] + 1
    BY <1>0, <1>8, <2>1 DEF Count, TypeOK
  <2>3. ASSUME NEW i \in DOMAIN items[d], i # at[d]
        PROVE  counted'[items[d][i]] = counted[items[d][i]]
    <3>1. items[d][i] # Item(d) /\ items[d][i] \in Transactions
      BY <1>0, <2>1, <2>3 DEF Item, Shape
    <3> QED
      BY <1>0, <1>8, <3>1 DEF Count, TypeOK
  <2> QED
    BY <1>0, <1>1, <2>1, <2>2, <2>3 DEF Rows, Item
<1>9. CASE Windows(d)
  <2>1. pc[d] = "windows" /\ UNCHANGED <<items, existing, counted, creator>>
    BY <1>9 DEF Windows, store
  <2>2. CASE Behind(d) /\ Answer(d, "created")
    BY <1>0, <1>2, <2>1, <2>2 DEF Answer, Return, TypeOK
  <2>3. ASSUME Advance(d), Continue(d, "mark") PROVE Rows(d)'
    <3>1. PICK i \in Left(d) : (\A j \in Left(d) : i <= j) /\ at' = [at EXCEPT ![d] = i]
      BY <2>3 DEF Advance
    <3>2. at'[d] = i /\ pc'[d] = "mark" /\ i \in DOMAIN items[d] /\ at[d] < i
      BY <1>0, <2>3, <3>1 DEF Continue, Left, TypeOK
    <3>3. \A j \in DOMAIN items[d] : items[d][j] \notin existing[d] /\ at[d] < j => i <= j
      BY <3>1 DEF Left
    <3> QED
      BY <1>0, <1>1, <2>1, <3>2, <3>3 DEF Rows
  <2> QED
    BY <1>9, <2>2, <2>3 DEF Windows
<1>10. CASE Read(d)
  BY <1>0, <1>1, <1>10 DEF Read, Rows, TypeOK
<1>11. CASE Commit(d)
  <2>1. /\ pc[d] = "commit" /\ UNCHANGED <<items, existing, counted>> /\ at[d] = 0
    BY <1>0, <1>11 DEF Commit, Shape, OneSteps
  <2>2. CASE Behind(d) /\ AnswerStored(d)
    BY <1>0, <1>2, <2>1, <2>2 DEF AnswerStored, Answer, Return, TypeOK
  <2>3. ASSUME Advance(d), Continue(d, "mark") PROVE Rows(d)'
    <3>1. PICK i \in Left(d) : (\A j \in Left(d) : i <= j) /\ at' = [at EXCEPT ![d] = i]
      BY <2>3 DEF Advance
    <3>2. at'[d] = i /\ pc'[d] = "mark" /\ i \in DOMAIN items[d]
      BY <1>0, <2>3, <3>1 DEF Continue, Left, TypeOK
    <3>3. ASSUME NEW j \in DOMAIN items[d], items[d][j] \notin existing[d]
          PROVE  i <= j /\ creator'[items[d][j]] = d /\ counted[items[d][j]] = 0
      <4>1. j \in Left(d) /\ items[d][j] \in New(d) /\ items[d][j] \in Transactions
        BY <1>0, <2>1, <3>3 DEF Left, New, ItemSet
      <4>2. items[d][j] \notin Stored
        BY <1>11, <4>1 DEF Commit
      <4> QED
        BY <1>0, <1>11, <3>1, <4>1, <4>2 DEF Commit, RowsAreAccounted, StoredIsCounted, TypeOK
    <3> QED
      BY <1>0, <1>1, <2>1, <3>2, <3>3 DEF Rows
  <2> QED
    BY <1>11, <2>2, <2>3 DEF Commit
<1>12. ASSUME NEW p \in Processes, Crash(p), d \in Cut(p) PROVE Rows(d)'
  BY <1>0, <1>2, <1>12 DEF Crash
<1>13. CASE /\ pc'[d] = pc[d] /\ items'[d] = items[d] /\ at'[d] = at[d]
            /\ existing'[d] = existing[d] /\ ~ Count(d)
  BY <1>2, <1>3, <1>13
<1> QED
  BY <1>4, <1>5, <1>6, <1>7, <1>8, <1>9, <1>10, <1>11, <1>12, <1>13, Private DEF Step

(* What is dropped stays dropped. *)
LEMMA DroppedStay == [Next]_vars => dropped \subseteq dropped'
<1> SUFFICES ASSUME [Next]_vars PROVE dropped \subseteq dropped'
  OBVIOUS
<1>1. ASSUME NEW c \in Calls, InsertFails(c) \/ CommitFails(c) PROVE dropped \subseteq dropped'
  BY <1>1 DEF InsertFails, CommitFails, Unavailable
<1>2. ASSUME NEW c \in Calls, Publish(c) \/ OutOfOrder(c) \/ WindowsFail(c)
      PROVE  dropped \subseteq dropped'
  BY <1>2 DEF Publish, OutOfOrder, WindowsFail
<1>3. ASSUME NEW p \in Processes, Crash(p) PROVE dropped \subseteq dropped'
  BY <1>3 DEF Crash
<1> QED
  BY <1>1, <1>2, <1>3, Frame

(* A row whose creator is on its way to count it is counted, still on its way, or dropped *)
(* by the step in which its creator fails.                                                *)
LEMMA WayIsKept ==
    ASSUME IInv, [Next]_vars, NEW x \in Stored, OnItsWay(x), x \notin dropped'
    PROVE  counted'[x] = 1 \/ OnItsWay(x)'
<1> DEFINE d == creator[x]
<1> USE DEF At, Go, Committed
<1>0. /\ TypeOK /\ CallShape /\ RowsAgree /\ x \in Transactions /\ d \in Calls
      /\ Shape(d) /\ Rows(d)
  BY DEF IInv, TypeOK, CallShape, RowsAgree, Stored
<1>1. /\ creator'[x] = d /\ items[d] \in Seq(Transactions) /\ at[d] \in Nat
      /\ existing[d] \in SUBSET Transactions
      /\ pc[d] \in Committed /\ x \in Ahead(d)
  BY <1>0, RowsStay DEF TypeOK, OnItsWay
<1>2. PICK i \in DOMAIN items[d] : x = items[d][i] /\ i >= at[d] /\ x \notin existing[d]
  BY <1>1 DEF Ahead
<1>3. pc[d] = "windows" /\ i = at[d] => counted[x] = 1
  BY <1>0, <1>1, <1>2 DEF Rows
<1>4. counted[x] = 1 => counted'[x] = 1
  BY <1>0, CountsStay
<1>5. ASSUME pc'[d] \in Committed, items'[d] = items[d], at'[d] \in Nat, i >= at'[d],
             existing'[d] = existing[d]
      PROVE  OnItsWay(x)'
  BY <1>1, <1>2, <1>5 DEF OnItsWay, Ahead
<1>6. CASE ClaimLocally(d) \/ ClaimInRedis(d) \/ ClaimRefused(d) \/ Count(d)
  <2>1. pc'[d] \in Committed /\ UNCHANGED <<items, at, existing>>
    <3>1. CASE ClaimLocally(d) \/ ClaimInRedis(d)
      BY <1>0, <1>1, <3>1 DEF ClaimLocally, ClaimInRedis, Claiming, Granted, TypeOK
    <3>2. CASE ClaimRefused(d)
      BY <1>0, <1>1, <3>2 DEF ClaimRefused, Claiming, Granted, Refused, Continue, TypeOK
    <3>3. CASE Count(d)
      BY <1>0, <3>3 DEF Count, TypeOK
    <3> QED
      BY <1>6, <3>1, <3>2, <3>3
  <2> QED
    BY <1>1, <1>2, <1>5, <2>1
<1>7. CASE Publish(d)
  <2>1. pc[d] = "publish" /\ UNCHANGED <<items, at, existing>>
    BY <1>7 DEF Publish, store
  <2>2. CASE Continue(d, "count")
    BY <1>0, <1>1, <1>2, <1>5, <2>1, <2>2 DEF Continue, TypeOK
  <2>3. CASE dropped' = dropped \cup {Item(d)}
    <3>1. Len(items[d]) = 1 /\ at[d] = 1
      BY <1>0, <2>1 DEF Shape, BatchSteps
    <3> QED
      BY <1>1, <1>2, <2>3, <3>1 DEF Item
  <2> QED
    BY <1>7, <2>2, <2>3 DEF Publish
<1>8. CASE OutOfOrder(d)
  BY <1>1, <1>8 DEF OutOfOrder
<1>9. CASE WindowsFail(d)
  BY <1>0, <1>1, <1>2, <1>3, <1>4, <1>9, ItemTyped DEF WindowsFail, Item, Shape
<1>10. CASE Windows(d)
  <2>1. pc[d] = "windows" /\ UNCHANGED <<items, existing>>
    BY <1>10 DEF Windows
  <2>2. i = at[d] \/ i \in Left(d)
    BY <1>1, <1>2 DEF Left
  <2>3. ASSUME Advance(d), Continue(d, "mark"), i \in Left(d) PROVE OnItsWay(x)'
    <3>1. PICK k \in Left(d) : (\A j \in Left(d) : k <= j) /\ at' = [at EXCEPT ![d] = k]
      BY <2>3 DEF Advance
    <3>2. at'[d] = k /\ k <= i /\ k \in Nat /\ pc'[d] = "mark"
      BY <1>0, <1>1, <2>3, <3>1 DEF Left, TypeOK, Continue
    <3> QED
      BY <1>2, <1>5, <2>1, <3>2
  <2> QED
    BY <1>3, <1>4, <1>10, <2>1, <2>2, <2>3 DEF Windows, Behind
<1>11. ASSUME NEW p \in Processes, Crash(p), d \in Cut(p)
       PROVE  counted'[x] = 1
  <2>1. counted[x] # 0
    BY <1>0, <1>11 DEF Crash
  <2> QED
    BY <1>0, <1>4, <2>1 DEF IInv, RowsAreAccounted, CountedOnce, TypeOK
<1>12. CASE /\ pc'[d] = pc[d] /\ items'[d] = items[d] /\ at'[d] = at[d]
            /\ existing'[d] = existing[d]
  BY <1>1, <1>2, <1>5, <1>12
<1>13. ASSUME Submit(d) \/ Step(d)
       PROVE  \/ ClaimLocally(d) \/ ClaimInRedis(d) \/ ClaimRefused(d) \/ Count(d) \/ Publish(d)
              \/ OutOfOrder(d) \/ WindowsFail(d) \/ Windows(d)
  BY <1>1, <1>13 DEF Step, Submit, Acquire, Lookup, Insert, InsertFails, Forget, Unset,
     Read, RefuseBatch,
     Commit, CommitFails, Redeliver
<1> QED
  BY <1>0, <1>6, <1>7, <1>8, <1>9, <1>10, <1>11, <1>12, <1>13, Private

(* A new row is on its way, unless the commit failed that stored it. *)
LEMMA NewRowIsOnItsWay ==
    ASSUME IInv, [Next]_vars, NEW x \in Transactions,
           x \notin Stored, x \in Stored', x \notin dropped'
    PROVE  OnItsWay(x)'
<1> USE DEF At, Go, Committed
<1>0. TypeOK /\ CallShape /\ creator[x] = None /\ creator'[x] # None
  BY DEF IInv, Stored
<1>1. PICK c \in Calls : Insert(c) \/ InsertFails(c) \/ Commit(c) \/ CommitFails(c)
  BY <1>0, Frame
<1>2. /\ Shape(c) /\ items[c] \in Seq(Transactions) /\ at[c] \in Nat
      /\ existing[c] \in SUBSET Transactions
  BY <1>0 DEF CallShape, TypeOK
<1>3. ASSUME creator'[x] = c, pc'[c] \in Committed, items'[c] = items[c],
             existing'[c] = existing[c],
             NEW i \in DOMAIN items[c], x = items[c][i], i >= at'[c], x \notin existing[c]
      PROVE  OnItsWay(x)'
  BY <1>2, <1>3 DEF OnItsWay, Ahead
<1>4. CASE Insert(c)
  <2>1. pc[c] = "insert" /\ c \notin Batches /\ UNCHANGED <<items, at, existing>>
    BY <1>2, <1>4 DEF Insert, Shape, BatchSteps
  <2>2. Len(items[c]) = 1 /\ at[c] = 1 /\ existing[c] = {} /\ Item(c) = items[c][1]
    BY <1>2, <2>1 DEF Shape, Item
  <2>3. x = Item(c) /\ creator'[x] = c /\ pc'[c] = "publish"
    BY <1>0, <1>4 DEF Insert, Continue, TypeOK, AnswerStored
  <2> QED
    BY <1>2, <1>3, <2>1, <2>2, <2>3
<1>5. CASE InsertFails(c) \/ CommitFails(c)
  BY <1>0, <1>5 DEF InsertFails, CommitFails, Unavailable, TypeOK
<1>6. CASE Commit(c)
  <2>1. pc[c] = "commit" /\ at[c] = 0 /\ UNCHANGED <<items, existing>>
    BY <1>2, <1>6 DEF Commit, Shape, OneSteps
  <2>2. x \in New(c) /\ creator'[x] = c
    BY <1>0, <1>6 DEF Commit
  <2>3. PICK i \in DOMAIN items[c] : x = items[c][i] /\ x \notin existing[c]
    BY <2>2 DEF New, ItemSet
  <2>4. i \in Left(c)
    BY <1>2, <2>1, <2>3 DEF Left
  <2>5. Advance(c) /\ Continue(c, "mark")
    BY <1>6, <2>4 DEF Commit, Behind
  <2>6. PICK k \in Left(c) : (\A j \in Left(c) : k <= j) /\ at' = [at EXCEPT ![c] = k]
    BY <2>5 DEF Advance
  <2>7. at'[c] = k /\ i >= k /\ pc'[c] = "mark"
    BY <1>0, <1>2, <2>4, <2>5, <2>6 DEF Left, Continue, TypeOK
  <2> QED
    BY <1>3, <2>1, <2>2, <2>3, <2>7
<1> QED
  BY <1>1, <1>4, <1>5, <1>6

LEMMA AccountedStep == IInv /\ [Next]_vars => RowsAreAccounted'
<1> SUFFICES ASSUME IInv, [Next]_vars PROVE RowsAreAccounted'
  OBVIOUS
<1>0. TypeOK /\ TypeOK' /\ CountedOnce /\ StoredIsCounted /\ None \notin Calls
  BY TypeStep, IngestParameters DEF IInv, RowsAreAccounted
<1>1. CountedOnce'
  BY <1>0, CountsStay DEF CountedOnce
<1>2. ASSUME NEW x \in Stored' \ dropped' PROVE counted'[x] = 1 \/ OnItsWay(x)'
  <2>1. x \in Transactions /\ x \notin dropped
    BY <1>2, DroppedStay DEF Stored
  <2>2. CASE x \in Stored /\ counted[x] = 1
    BY <2>1, <2>2, CountsStay
  <2>3. CASE x \in Stored /\ OnItsWay(x)
    BY <1>2, <2>3, WayIsKept
  <2>4. CASE x \notin Stored
    BY <1>2, <2>1, <2>4, NewRowIsOnItsWay
  <2> QED
    BY <1>0, <2>1, <2>2, <2>3, <2>4 DEF StoredIsCounted
<1>3. ASSUME NEW x \in Transactions, counted'[x] > 0 PROVE x \in Stored'
  BY <1>0, <1>3, CountsStay, RowsStay DEF StoredIsCounted, Stored
<1> QED
  BY <1>1, <1>2, <1>3 DEF RowsAreAccounted, StoredIsCounted

(* A row that appears or is replaced is the row of the call that takes the step. *)
LEMMA CreatorsAct ==
    ASSUME IInv, [Next]_vars, NEW x \in Transactions, creator'[x] # creator[x]
    PROVE  \E c \in Calls : /\ creator'[x] = c
                            /\ Insert(c) \/ InsertFails(c) \/ Commit(c) \/ CommitFails(c)
<1>0. TypeOK
  BY DEF IInv
<1>1. PICK c \in Calls : Insert(c) \/ InsertFails(c) \/ Commit(c) \/ CommitFails(c)
  BY Frame
<1>2. creator'[x] = c
  BY <1>0, <1>1 DEF Insert, InsertFails, Commit, CommitFails, Unavailable, TypeOK
<1> QED
  BY <1>1, <1>2

LEMMA NoRowStep == IInv /\ [Next]_vars => NoRowYet'
<1> SUFFICES ASSUME IInv, [Next]_vars, NEW d \in Calls \ Streams, pc'[d] \in Early,
                    NEW x \in Transactions
             PROVE  creator'[x] # d
  BY DEF NoRowYet
<1> USE DEF At, Go, Early
<1>0. TypeOK /\ NoRowYet /\ Shape(d)
  BY DEF IInv, CallShape
<1>1. ~ (Insert(d) \/ InsertFails(d) \/ Commit(d) \/ CommitFails(d))
  BY <1>0 DEF Insert, InsertFails, Commit, CommitFails, AnswerStored, Answer, Return,
     Continue, TypeOK
<1>2. creator'[x] = d => creator[x] = d
  BY <1>1, CreatorsAct
<1>3. pc[d] \in Early
  <2>1. CASE Submit(d) \/ Acquire(d) \/ Lookup(d) \/ Read(d) \/ RefuseBatch(d)
    BY <2>1 DEF Submit, Acquire, Lookup, Read, RefuseBatch
  <2>2. CASE ClaimLocally(d) \/ ClaimInRedis(d)
    BY <1>0, <2>2 DEF ClaimLocally, ClaimInRedis, Claiming, Granted, TypeOK
  <2>3. CASE ClaimRefused(d)
    BY <1>0, <2>3 DEF ClaimRefused, Claiming, Granted, Refused, Continue, TypeOK
  <2>4. CASE Publish(d) \/ Count(d) \/ OutOfOrder(d) \/ Windows(d) \/ WindowsFail(d)
    BY <1>0, <2>4 DEF Publish, Count, OutOfOrder, Windows, WindowsFail, Continue, Fail,
       Answer, Return, TypeOK
  <2>5. CASE Forget(d) \/ Unset(d)
    BY <1>0, <2>5 DEF Forget, Unset, Return, TypeOK
  <2>6. CASE Redeliver(d)
    BY <2>6 DEF Redeliver
  <2>7. ASSUME NEW p \in Processes, Crash(p), d \in Cut(p) PROVE pc[d] \in Early
    BY <2>7 DEF Crash
  <2> QED
    BY <1>1, <2>1, <2>2, <2>3, <2>4, <2>5, <2>6, <2>7, Private DEF Step
<1> QED
  BY <1>0, <1>2, <1>3 DEF NoRowYet

LEMMA AnswersStep == IInv /\ [Next]_vars => AnswersAreTrue'
<1> DEFINE True(d) ==
       /\ answer[d] = "created" => \A x \in New(d) : creator[x] = d /\ counted[x] = 1
       /\ answer[d] \in {"created", "stored"} => ItemSet(d) \subseteq Stored
       /\ answer[d] = "conflict" => d \in Streams \/ \A x \in Stored : creator[x] # d
<1> SUFFICES ASSUME IInv, [Next]_vars, NEW d \in Calls, pc'[d] = "done" PROVE True(d)'
  BY DEF AnswersAreTrue
<1> USE DEF At, Go, Say, Committed
<1>0. /\ TypeOK /\ CallShape /\ Shape(d) /\ Rows(d) /\ NoRowYet
      /\ items[d] \in Seq(Transactions) /\ at[d] \in Nat /\ None \notin Calls
  BY IngestParameters DEF IInv, TypeOK, CallShape, RowsAgree
<1>1. /\ Stored \subseteq Stored' /\ \A x \in Stored : creator'[x] = creator[x]
      /\ \A x \in Transactions : counted[x] = 1 => counted'[x] = 1
  BY RowsStay, CountsStay
<1>2. CASE answer'[d] \notin {"created", "stored", "conflict"}
  BY <1>2
<1>3. ASSUME answer'[d] = "stored", items'[d] = items[d], ItemSet(d) \subseteq Stored
      PROVE  True(d)'
  BY <1>1, <1>3 DEF ItemSet
<1>4. CASE Lookup(d) \/ Insert(d)
  <2>1. d \notin Batches /\ pc[d] # "idle"
    BY <1>0, <1>4 DEF Lookup, Insert, Shape, BatchSteps
  <2>2. ItemSet(d) = {Item(d)}
    BY <1>0, <2>1 DEF Shape, ItemSet, Item
  <2> QED
    BY <1>0, <1>2, <1>3, <1>4, <2>2
       DEF Lookup, Insert, AnswerStored, Answer, Continue, TypeOK
<1>5. CASE Commit(d)
  <2>1. pc[d] = "commit" /\ at[d] = 0 /\ UNCHANGED <<items, existing>>
    BY <1>0, <1>5 DEF Commit, Shape, OneSteps
  <2>2. Behind(d) /\ AnswerStored(d)
    BY <1>0, <1>5 DEF Commit, Continue, TypeOK
  <2>3. ItemSet(d) \subseteq Stored
    BY <1>0, <2>1, <2>2 DEF Behind, Left, ItemSet, Rows
  <2>4. answer'[d] = "stored"
    BY <1>0, <2>2 DEF AnswerStored, Answer, TypeOK
  <2> QED
    BY <1>3, <2>1, <2>3, <2>4
<1>6. CASE Windows(d)
  <2>1. pc[d] = "windows" /\ UNCHANGED <<items, existing, creator, counted>>
    BY <1>6 DEF Windows, store
  <2>2. Behind(d) /\ answer'[d] = "created"
    BY <1>0, <1>6 DEF Windows, Continue, Answer, TypeOK
  <2>3. ASSUME NEW i \in DOMAIN items[d], items[d][i] \notin existing[d]
        PROVE  creator[items[d][i]] = d /\ counted[items[d][i]] = 1
    BY <1>0, <2>1, <2>2, <2>3 DEF Behind, Left, Rows
  <2>4. \A x \in New(d) : creator[x] = d /\ counted[x] = 1
    BY <2>3 DEF New, ItemSet
  <2>5. ItemSet(d) \subseteq Stored
    <3>1. ItemSet(d) \subseteq Transactions /\ ItemSet(d) \subseteq New(d) \cup existing[d]
      BY <1>0, NewTyped DEF New
    <3> QED
      BY <1>0, <2>4, <3>1 DEF Rows, Stored
  <2> QED
    BY <1>1, <2>1, <2>2, <2>4, <2>5 DEF New, ItemSet
<1>7. CASE ClaimRefused(d)
  <2>1. answer'[d] = "conflict" /\ pc[d] \in {"reclaim", "reredis"} /\ creator' = creator
    BY <1>0, <1>7 DEF ClaimRefused, Claiming, Granted, Refused, Continue, Answer, store,
       TypeOK
  <2> QED
    BY <1>0, <2>1 DEF NoRowYet, Early, Stored
<1>8. CASE OutOfOrder(d) \/ WindowsFail(d) \/ RefuseBatch(d) \/ CommitFails(d)
  BY <1>0, <1>2, <1>8 DEF OutOfOrder, WindowsFail, RefuseBatch, CommitFails, Unavailable,
     Fail,
     Answer, TypeOK
<1>9. CASE Unset(d)
  BY <1>0, <1>2, <1>9 DEF Unset, Shape
<1>10. ASSUME NEW p \in Processes, Crash(p), d \in Cut(p) PROVE True(d)'
  BY <1>2, <1>10 DEF Crash
<1>11. CASE /\ pc'[d] = pc[d] /\ items'[d] = items[d] /\ existing'[d] = existing[d]
            /\ answer'[d] = answer[d]
  <2>1. True(d)
    BY <1>11 DEF IInv, AnswersAreTrue
  <2>2. New(d)' = New(d) /\ ItemSet(d)' = ItemSet(d) /\ New(d) \subseteq Transactions
    BY <1>0, <1>11, NewTyped DEF New, ItemSet
  <2>3. ASSUME NEW x \in Stored', \A y \in Stored : creator[y] # d PROVE creator'[x] # d
    <3>1. ~ (Insert(d) \/ InsertFails(d) \/ Commit(d) \/ CommitFails(d))
      BY <1>11 DEF Insert, InsertFails, Commit, CommitFails
    <3> QED
      BY <1>0, <2>3, <3>1, CreatorsAct DEF Stored
  <2>4. answer[d] = "created" => \A x \in New(d) : creator'[x] = d /\ counted'[x] = 1
    BY <1>0, <1>1, <2>1, <2>2 DEF Stored
  <2> QED
    BY <1>1, <1>11, <2>1, <2>2, <2>3, <2>4
<1>12. ASSUME Submit(d) \/ Step(d)
       PROVE  \/ Lookup(d) \/ Insert(d) \/ Commit(d) \/ Windows(d) \/ ClaimRefused(d)
              \/ OutOfOrder(d) \/ WindowsFail(d) \/ RefuseBatch(d) \/ CommitFails(d) \/ Unset(d)
  <2>1. ~ (Submit(d) \/ Redeliver(d) \/ ClaimLocally(d) \/ ClaimInRedis(d) \/ Acquire(d))
    BY <1>0 DEF Submit, Redeliver, ClaimLocally, ClaimInRedis, Claiming, Granted, Acquire,
       TypeOK
  <2>2. ~ (InsertFails(d) \/ Publish(d) \/ Count(d) \/ Forget(d) \/ Read(d))
    BY <1>0 DEF InsertFails, Publish, Count, Forget, Read, Continue, Fail, TypeOK
  <2> QED
    BY <1>12, <2>1, <2>2 DEF Step
<1> QED
  BY <1>4, <1>5, <1>6, <1>7, <1>8, <1>9, <1>10, <1>11, <1>12, Private

-----------------------------------------------------------------------------
(* Claims *)

(* Whoever holds an entry after a step held it before, or has just claimed it. *)
LEMMA HoldersKept ==
    ASSUME IInv, [Next]_vars, NEW d \in Calls
    PROVE  /\ HoldsLocal(d)' => \/ HoldsLocal(d) /\ Entry(d)' = Entry(d)
                                \/ ClaimLocally(d) /\ Entry(d)' = Entry(d)
           /\ HoldsRedis(d)' => \/ HoldsRedis(d) /\ Item(d)' = Item(d)
                                \/ ClaimInRedis(d) /\ Item(d)' = Item(d)
           /\ d \notin Batches
              /\ pc'[d] \in {"insert", "publish", "count", "windows", "forget", "unset"}
                 => claimed'[d]
           /\ d \notin Batches
              /\ pc'[d] \in {"idle", "claim", "redis", "lookup", "reclaim", "reredis", "done"}
                 => ~ claimed'[d]
<1> SUFFICES ASSUME d \notin Batches
             PROVE  /\ HoldsLocal(d)' => \/ HoldsLocal(d) /\ Entry(d)' = Entry(d)
                                         \/ ClaimLocally(d) /\ Entry(d)' = Entry(d)
                    /\ HoldsRedis(d)' => \/ HoldsRedis(d) /\ Item(d)' = Item(d)
                                         \/ ClaimInRedis(d) /\ Item(d)' = Item(d)
                    /\ pc'[d] \in {"insert", "publish", "count", "windows", "forget", "unset"}
                          => claimed'[d]
                    /\ pc'[d] \in {"idle", "claim", "redis", "lookup", "reclaim", "reredis", "done"}
                          => ~ claimed'[d]
  BY DEF HoldsLocal, HoldsRedis
<1> USE DEF At, Go, HoldsLocal, HoldsRedis
<1>0. /\ TypeOK /\ CallShape /\ Shape(d) /\ Keeps(d) /\ home' = home
      /\ items[d] \in Seq(Transactions) /\ at[d] \in Nat
  BY Frame DEF IInv, TypeOK, CallShape, ClaimsAreKept
<1>1. items'[d] = items[d] /\ at'[d] = at[d] => Entry(d)' = Entry(d) /\ Item(d)' = Item(d)
  BY <1>0 DEF Entry, Item
<1>2. CASE Submit(d) \/ Redeliver(d)
  BY <1>0, <1>2 DEF Submit, Redeliver, Keeps, TypeOK
<1>3. CASE ClaimLocally(d)
  BY <1>0, <1>1, <1>3 DEF ClaimLocally, Claiming, Keeps, TypeOK
<1>4. CASE ClaimInRedis(d)
  <2>1. /\ UNCHANGED <<items, at>> /\ claimed'[d] = TRUE
        /\ \/ pc[d] = "redis" /\ pc'[d] = "lock"
           \/ pc[d] = "reredis" /\ pc'[d] = "insert"
           \/ pc[d] = "remark"
    BY <1>0, <1>4 DEF ClaimInRedis, Granted, TypeOK
  <2> QED
    BY <1>0, <1>1, <1>4, <2>1 DEF Shape, OneSteps
<1>5. CASE ClaimRefused(d)
  <2>1. /\ UNCHANGED <<items, at>>
        /\ \/ pc[d] \in {"claim", "redis"} /\ pc'[d] = "lock" /\ claimed'[d] = claimed[d]
           \/ pc[d] \in {"mark", "remark"}
           \/ pc'[d] = "done" /\ claimed'[d] = FALSE
    BY <1>0, <1>5 DEF ClaimRefused, Claiming, Granted, Refused, Continue, Answer, Return,
       TypeOK
  <2> QED
    BY <1>0, <2>1 DEF Keeps, Shape, OneSteps
<1>6. CASE Acquire(d) \/ Lookup(d)
  BY <1>0, <1>1, <1>6 DEF Acquire, Lookup, Continue, Answer, AnswerStored, Return, Keeps,
     TypeOK
<1>7. CASE Insert(d) \/ InsertFails(d)
  BY <1>0, <1>1, <1>7 DEF Insert, InsertFails, Continue, Answer, AnswerStored, Return,
     Keeps, TypeOK
<1>8. CASE Publish(d) \/ Count(d) \/ OutOfOrder(d) \/ WindowsFail(d)
  BY <1>0, <1>1, <1>8 DEF Publish, Count, OutOfOrder, WindowsFail, Continue, Fail, Answer,
     Return,
     Keeps, TypeOK
<1>9. CASE Windows(d)
  <2>1. pc[d] = "windows"
    BY <1>9 DEF Windows
  <2>2. ~ Advance(d)
    BY <1>0, <2>1 DEF Advance, Left, Shape
  <2>3. pc'[d] = "done" /\ claimed'[d] = FALSE
    BY <1>0, <1>9, <2>2 DEF Windows, Answer, Return, TypeOK
  <2> QED
    BY <2>3
<1>10. CASE Forget(d) \/ Unset(d)
  BY <1>0, <1>1, <1>10 DEF Forget, Unset, Return, Keeps, TypeOK
<1>11. CASE Read(d) \/ RefuseBatch(d) \/ Commit(d) \/ CommitFails(d)
  BY <1>0, <1>11 DEF Read, RefuseBatch, Commit, CommitFails, Shape, OneSteps
<1>12. ASSUME NEW p \in Processes, Crash(p), d \in Cut(p)
       PROVE  pc'[d] = "done" /\ claimed'[d] = FALSE
  BY <1>12 DEF Crash
<1>13. CASE /\ pc'[d] = pc[d] /\ items'[d] = items[d] /\ at'[d] = at[d] /\ claimed'[d] = claimed[d]
  BY <1>0, <1>1, <1>13 DEF Keeps
<1> QED
  BY <1>2, <1>3, <1>4, <1>5, <1>6, <1>7, <1>8, <1>9, <1>10, <1>11, <1>12, <1>13, Private
     DEF Step

(* An entry goes without a trace only when a holder gives it back or its process ends. *)
LEMMA EntriesStay ==
    ASSUME IInv, [Next]_vars
    PROVE  /\ forgotten \subseteq forgotten' /\ unsure \subseteq unsure'
           /\ \A e \in local : \/ e \in local' \cup forgotten'
                               \/ \E c \in Calls : Forget(c) /\ e = Entry(c)
                               \/ \E p \in Processes : Crash(p) /\ e[1] = p
           /\ \A k \in redis : \/ k \in redis' \cup unsure'
                               \/ \E c \in Calls : Unset(c) /\ k = Item(c)
<1>1. forgotten \subseteq forgotten'
  <2>1. forgotten' = forgotten \/ \E p \in Processes, k \in Keys : LocalExpires(p, k)
    BY Frame
  <2> QED
    BY <2>1 DEF LocalExpires, LocalLoses
<1>2. unsure \subseteq unsure'
  <2>1. \/ unsure' = unsure \/ \E c \in Calls : ClaimInRedis(c)
        \/ \E k \in Keys : ClaimExpires(k)
    BY Frame
  <2> QED
    BY <2>1 DEF ClaimInRedis, RedisClaim, RedisFails, ClaimExpires, RedisExpires
<1>3. ASSUME NEW e \in local, e \notin local'
      PROVE  \/ e \in forgotten'
             \/ \E c \in Calls : Forget(c) /\ e = Entry(c)
             \/ \E p \in Processes : Crash(p) /\ e[1] = p
  <2>1. \/ \E c \in Calls : ClaimLocally(c) \/ Forget(c)
        \/ \E p \in Processes : Crash(p)
        \/ \E p \in Processes, k \in Keys : LocalExpires(p, k)
    BY <1>3, Frame
  <2>2. ASSUME NEW c \in Calls, ClaimLocally(c) PROVE FALSE
    BY <1>3, <2>2 DEF ClaimLocally, LocalClaim
  <2>3. ASSUME NEW c \in Calls, Forget(c) PROVE e = Entry(c)
    BY <1>3, <2>3 DEF Forget, LocalRelease, Entry
  <2>4. ASSUME NEW p \in Processes, Crash(p) PROVE e[1] = p
    BY <1>3, <2>4 DEF Crash, LocalCleared
  <2>5. ASSUME NEW p \in Processes, NEW k \in Keys, LocalExpires(p, k) PROVE e \in forgotten'
    BY <1>3, <2>5 DEF LocalExpires, LocalLoses
  <2> QED
    BY <2>1, <2>2, <2>3, <2>4, <2>5
<1>4. ASSUME NEW k \in redis, k \notin redis'
      PROVE  k \in unsure' \/ \E c \in Calls : Unset(c) /\ k = Item(c)
  <2>1. \/ \E c \in Calls : ClaimInRedis(c) \/ Unset(c)
        \/ \E j \in Keys : ClaimExpires(j)
    BY <1>4, Frame
  <2>2. ASSUME NEW c \in Calls, ClaimInRedis(c) PROVE FALSE
    BY <1>4, <2>2 DEF ClaimInRedis, RedisClaim, RedisFails
  <2>3. ASSUME NEW c \in Calls, Unset(c) PROVE k = Item(c)
    BY <1>4, <2>3 DEF Unset, RedisRelease, RedisReleaseFails
  <2>4. ASSUME NEW j \in Keys, ClaimExpires(j) PROVE k \in unsure'
    BY <1>4, <2>4 DEF ClaimExpires, RedisExpires
  <2> QED
    BY <2>1, <2>2, <2>3, <2>4
<1> QED
  BY <1>1, <1>2, <1>3, <1>4

LEMMA KeepsStep == IInv /\ [Next]_vars => ClaimsAreKept'
<1> SUFFICES ASSUME IInv, [Next]_vars, NEW d \in Calls PROVE Keeps(d)'
  BY DEF ClaimsAreKept
<1>0. TypeOK /\ CallShape /\ Keeps(d) /\ ClaimsAreKept /\ ClaimsAreSingle /\ home' = home
  BY Frame DEF IInv, ClaimsAreKept
<1>1. ASSUME HoldsLocal(d)', HoldsLocal(d), Entry(d)' = Entry(d),
             Entry(d) \notin local' \cup forgotten'
      PROVE  FALSE
  <2>1. Entry(d) \in local /\ Entry(d) \notin forgotten
    BY <1>0, <1>1, EntriesStay DEF Keeps
  <2>2. ASSUME NEW c \in Calls, Forget(c), Entry(d) = Entry(c) PROVE FALSE
    <3>1. HoldsLocal(c)
      BY <1>0, <2>2 DEF Forget, At, HoldsLocal, ClaimsAreKept, Keeps, CallShape, Shape,
         BatchSteps
    <3>2. c # d
      BY <1>0, <1>1, <2>2 DEF Forget, Go, HoldsLocal, TypeOK
    <3> QED
      BY <1>0, <1>1, <2>1, <2>2, <3>1, <3>2 DEF ClaimsAreSingle
  <2>3. ASSUME NEW p \in Processes, Crash(p), Entry(d)[1] = p PROVE FALSE
    <3>1. d \in Cut(p)
      BY <1>1, <2>3 DEF Cut, HoldsLocal, Entry
    <3> QED
      BY <1>1, <2>3, <3>1 DEF Crash, HoldsLocal
  <2> QED
    BY <1>1, <2>1, <2>2, <2>3, EntriesStay
<1>2. ASSUME HoldsRedis(d)', HoldsRedis(d), Item(d)' = Item(d), Item(d) \notin redis' \cup unsure'
      PROVE  FALSE
  <2>1. Item(d) \in redis /\ Item(d) \notin unsure
    BY <1>0, <1>2, EntriesStay DEF Keeps
  <2>2. PICK c \in Calls : Unset(c) /\ Item(d) = Item(c)
    BY <1>2, <2>1, EntriesStay
  <2>3. HoldsRedis(c)
    BY <1>0, <2>2 DEF Unset, At, HoldsRedis, ClaimsAreKept, Keeps, CallShape, Shape,
       BatchSteps
  <2>4. c # d
    BY <1>0, <1>2, <2>2 DEF Unset, Return, Go, HoldsRedis, TypeOK
  <2> QED
    BY <1>0, <1>2, <2>1, <2>2, <2>3, <2>4 DEF ClaimsAreSingle
<1>3. ASSUME ClaimLocally(d) PROVE Entry(d) \in local'
  BY <1>3 DEF ClaimLocally, LocalClaim, Entry
<1>4. ASSUME ClaimInRedis(d) PROVE Item(d) \in redis' \cup unsure'
  BY <1>4 DEF ClaimInRedis, RedisClaim, RedisFails
<1> QED
  BY <1>1, <1>2, <1>3, <1>4, HoldersKept DEF Keeps

LEMMA SingleStep == IInv /\ [Next]_vars => ClaimsAreSingle'
<1> SUFFICES ASSUME IInv, [Next]_vars, NEW c \in Calls, NEW d \in Calls, c # d
             PROVE  /\ HoldsLocal(c)' /\ HoldsLocal(d)' /\ Entry(c)' = Entry(d)'
                          => Entry(c)' \in forgotten'
                    /\ HoldsRedis(c)' /\ HoldsRedis(d)' /\ Item(c)' = Item(d)'
                          => Item(c)' \in unsure'
  BY DEF ClaimsAreSingle
<1>0. TypeOK /\ Keeps(c) /\ Keeps(d) /\ ClaimsAreSingle
  BY DEF IInv, ClaimsAreKept
<1>1. ~ (ClaimLocally(c) /\ ClaimLocally(d)) /\ ~ (ClaimInRedis(c) /\ ClaimInRedis(d))
  BY <1>0 DEF ClaimLocally, ClaimInRedis, Claiming, Granted, Go, TypeOK
<1>2. ASSUME NEW a \in Calls, NEW b \in Calls,
             ClaimLocally(a), HoldsLocal(b), Keeps(b), Entry(a) = Entry(b)
      PROVE  Entry(a) \in forgotten
  BY <1>2 DEF ClaimLocally, LocalClaim, LocalFree, Entry, Keeps
<1>3. ASSUME NEW a \in Calls, NEW b \in Calls,
             ClaimInRedis(a), HoldsRedis(b), Keeps(b), Item(a) = Item(b)
      PROVE  Item(a) \in unsure'
  BY <1>3, EntriesStay DEF ClaimInRedis, RedisClaim, RedisFree, RedisFails, Keeps
<1>4. ASSUME HoldsLocal(c)', HoldsLocal(d)', Entry(c)' = Entry(d)' PROVE Entry(c)' \in forgotten'
  BY <1>0, <1>1, <1>2, <1>4, HoldersKept, EntriesStay DEF ClaimsAreSingle
<1>5. ASSUME HoldsRedis(c)', HoldsRedis(d)', Item(c)' = Item(d)' PROVE Item(c)' \in unsure'
  BY <1>0, <1>1, <1>3, <1>5, HoldersKept, EntriesStay DEF ClaimsAreSingle
<1> QED
  BY <1>4, <1>5

-----------------------------------------------------------------------------
(* The theorems *)

(* IInv holds in every reachable state: it is inductive. *)
THEOREM IngestInvariant == Spec => []IInv
<1>1. Init => IInv
  BY InvInit
<1>2. IInv /\ [Next]_vars => IInv'
  BY TypeStep, ShapeStep, RowsStep, AccountedStep, NoRowStep, AnswersStep, KeepsStep,
     SingleStep
     DEF IInv
<1> QED
  BY <1>1, <1>2, PTL DEF Spec

(* Type correctness, with the lock: only its holder is between acquire and release *)
(* (transaction_service.py:179, 305).                                              *)
THEOREM Typing == Spec => []TypeOK
<1>1. IInv => TypeOK
  BY DEF IInv
<1> QED
  BY <1>1, IngestInvariant, PTL

(* A transaction reaches a detector at most once, whatever claims are lost: the row       *)
(* decides, which one call creates and only that call counts (repositories.py:89-125).    *)
THEOREM NothingIsCountedTwice == Spec => []CountedOnce
<1>1. IInv => CountedOnce
  BY DEF IInv, RowsAreAccounted
<1> QED
  BY <1>1, IngestInvariant, PTL

(* A stored transaction is counted, on its way, or its call failed, for batches of any    *)
(* length and any crash (transaction_service.py:208-255, 332-378).                        *)
THEOREM NothingStoredIsLost == Spec => []StoredIsCounted
<1>1. IInv => StoredIsCounted
  BY DEF IInv, RowsAreAccounted
<1> QED
  BY <1>1, IngestInvariant, PTL

(* What ingest and ingest_batch answer is true of the rows and of the detector            *)
(* (transaction_service.py:309, 343, 364-375, 256-273).                                   *)
THEOREM AnswersHold == Spec => []AnswersAreTrue
<1>1. IInv => AnswersAreTrue
  BY DEF IInv
<1> QED
  BY <1>1, IngestInvariant, PTL

(* Two calls work on one transaction only after a claim of theirs failed or was lost,     *)
(* although a release asks nobody whether the entry is still its own                      *)
(* (cache_service.py:297-316).                                                            *)
THEOREM ClaimsExcludeCalls == Spec => []ClaimsExclude
<1>1. IInv => ClaimsExclude
  <2> SUFFICES ASSUME IInv, NEW c \in Calls, NEW d \in Calls, c # d, Working(c), Working(d),
                      Item(c) = Item(d)
               PROVE  /\ Item(c) \in unsure
                      /\ home[c] = home[d] => <<home[c], Item(c)>> \in forgotten
    BY DEF ClaimsExclude
  <2>1. HoldsLocal(c) /\ HoldsLocal(d) /\ HoldsRedis(c) /\ HoldsRedis(d)
    BY DEF Working, HoldsLocal, HoldsRedis
  <2> QED
    BY <2>1 DEF IInv, ClaimsAreSingle, Entry
<1> QED
  BY <1>1, IngestInvariant, PTL

==============================================================================
