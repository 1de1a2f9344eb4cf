-------------------------- MODULE TransactionIngest --------------------------
(***************************************************************************)
(* TransactionService.ingest and ingest_batch, called through the API and  *)
(* by the consumer of the transactions topic in several processes: a claim *)
(* before the process's lock, one database transaction for row and score,  *)
(* the published score, and the detector, which must see every transaction *)
(* once and in event-time order.                                           *)
(*                                                                         *)
(* Each await is a step; a database session is one step, except that the   *)
(* batch reads what exists before it commits.  Transactions are numbered   *)
(* in event-time order.  What happens in _process_windows is the subject   *)
(* of SpikeDetector; here it succeeds or raises.                           *)
(***************************************************************************)
EXTENDS CacheClaims, Integers, Sequences

CONSTANTS
    None,           \* no creator, no holder of a lock
    Singles,        \* calls of ingest through the API
    Batches,        \* calls of ingest_batch
    Streams,        \* consumers of the transactions topic
    Sent,           \* what producers have sent to the transactions topic
    Lots,           \* the batches that clients send
    Placements,     \* which process may serve each call
    MaxTrouble      \* bound: failures and crashes; expiries are unbounded

Transactions == Keys
Calls == Singles \cup Batches \cup Streams
ASSUME IngestParameters ==
    /\ Keys \subseteq Nat \ {0}
    /\ Sent \subseteq Keys /\ Lots \subseteq Seq(Keys)
    /\ \A lot \in Lots : \A i, j \in DOMAIN lot : i # j => lot[i] # lot[j]
    /\ Singles \cap Batches = {} /\ Singles \cap Streams = {} /\ Batches \cap Streams = {}
    /\ Placements \subseteq [Calls -> Processes]
    /\ None \notin Calls \cup Processes
    /\ MaxTrouble \in Nat

VARIABLES
    creator,        \* the call whose transaction committed each row and score
    counted,        \* how often each transaction was fed to a detector
    topic,          \* transactions in the topic, also those sent in an outage
    latest,         \* the last event time each process's aggregator has seen
    lock,           \* the holder of each process's _lock
    pc,             \* where each call stands
    home,           \* the process it runs in
    items,          \* its transactions
    at,             \* which of them it is at
    claimed,        \* whether its claim was granted
    existing,       \* what a batch found stored
    answer,         \* what it returned or raised
    dropped,        \* history: rows whose creator failed before counting them
    trouble         \* history: how many things went wrong

store == <<creator, counted, topic, latest>>
vars == <<claimVars, store, lock, pc, home, items, at, claimed, existing, answer, dropped, trouble>>

Stored == {x \in Transactions : creator[x] # None}
InLock == {"lookup", "reclaim", "reredis", "insert", "publish", "count", "windows",
           "forget", "unset", "read", "commit", "mark", "remark"}

LockTypeOK ==
    /\ lock \in [Processes -> Calls \cup {None}]
    /\ \A p \in Processes : lock[p] # None => pc[lock[p]] \in InLock /\ home[lock[p]] = p
    /\ \A c \in Calls : pc[c] \in InLock => lock[home[c]] = c

TypeOK ==
    /\ ClaimTypeOK
    /\ creator \in [Transactions -> Calls \cup {None}]
    /\ counted \in [Transactions -> Nat]
    /\ topic \subseteq Transactions /\ dropped \subseteq Stored
    /\ latest \in [Processes -> Nat]
    /\ LockTypeOK
    /\ pc \in [Calls -> InLock \cup {"idle", "claim", "redis", "lock", "done"}]
    /\ home \in Placements
    /\ items \in [Calls -> Seq(Transactions)]
    /\ at \in [Calls -> Nat]
    /\ claimed \in [Calls -> BOOLEAN]
    /\ existing \in [Calls -> SUBSET Transactions]
    /\ answer \in [Calls -> {"none", "created", "stored", "conflict",
                             "unavailable", "failed", "crashed"}]
    /\ trouble \in 0..MaxTrouble

Init ==
    /\ ClaimInit
    /\ creator = [x \in Transactions |-> None]
    /\ counted = [x \in Transactions |-> 0]
    /\ topic = Sent
    /\ latest = [p \in Processes |-> 0]
    /\ lock = [p \in Processes |-> None]
    /\ pc = [c \in Calls |-> "idle"]
    /\ home \in Placements
    /\ items = [c \in Calls |-> <<>>]
    /\ at = [c \in Calls |-> 0]
    /\ claimed = [c \in Calls |-> FALSE]
    /\ existing = [c \in Calls |-> {}]
    /\ answer = [c \in Calls |-> "none"]
    /\ dropped = {}
    /\ trouble = 0

-------------------------------------------------------------------------------
Item(c) == items[c][at[c]]
ItemSet(c) == {items[c][i] : i \in DOMAIN items[c]}
(* What is new to a call, and what of it is not yet behind it.             *)
New(c) == ItemSet(c) \ existing[c]
Ahead(c) == {items[c][i] : i \in {j \in DOMAIN items[c] : j >= at[c]}} \ existing[c]
At(c, step) == pc[c] = step
Go(c, step) == pc' = [pc EXCEPT ![c] = step]
Say(c, a) == answer' = [answer EXCEPT ![c] = a]
Trouble == trouble < MaxTrouble /\ trouble' = trouble + 1

(* The call ends; what it knew ends with it.                               *)
Return(c) ==
    /\ Go(c, "done")
    /\ claimed' = [claimed EXCEPT ![c] = FALSE]
    /\ lock' = [lock EXCEPT ![home[c]] = None]
Answer(c, a) == Say(c, a) /\ Return(c)
(* The stored score is answered, nothing else happens.                     *)
AnswerStored(c) == Answer(c, "stored")
Continue(c, step) == Go(c, step) /\ UNCHANGED <<answer, lock, claimed>>

(* What a client of the API may send, one transaction or a batch of unique *)
(* ids, and what the stream delivers.                                      *)
Requests(c) ==
    IF c \in Batches THEN Lots
    ELSE {<<x>> : x \in IF c \in Streams THEN topic ELSE Transactions}

Submit(c) ==
    /\ At(c, "idle")
    /\ \E request \in Requests(c) : items' = [items EXCEPT ![c] = request]
    /\ at' = [at EXCEPT ![c] = IF c \in Batches THEN 0 ELSE 1]
    /\ Go(c, IF c \in Batches THEN "lock" ELSE "claim")
    /\ UNCHANGED <<claimVars, store, lock, claimed, existing, answer, dropped, trouble>>

(* The consumer calls again until the handler returns: an exception keeps  *)
(* the message uncommitted.                                                *)
Redeliver(c) ==
    /\ c \in Streams /\ At(c, "done") /\ answer[c] \notin {"created", "stored"}
    /\ Say(c, "none")
    /\ Go(c, "claim")
    /\ UNCHANGED <<claimVars, store, lock, items, at, claimed, existing, dropped, trouble>>

-------------------------------------------------------------------------------
(* claim_transaction: the local entry, then Redis.  It runs before the     *)
(* lock is taken, again under it, and for every new row of a batch, which  *)
(* ignores the result.                                                     *)
Claiming == [claim |-> "redis", reclaim |-> "reredis", mark |-> "remark"]
Granted == [redis |-> "lock", reredis |-> "insert", remark |-> "count"]
Refused == [claim |-> "lock", redis |-> "lock", mark |-> "count", remark |-> "count"]

ClaimLocally(c) ==
    /\ pc[c] \in DOMAIN Claiming
    /\ LocalClaim(home[c], Item(c))
    /\ Go(c, Claiming[pc[c]])
    /\ UNCHANGED <<store, lock, items, at, claimed, existing, answer, dropped, trouble>>

ClaimInRedis(c) ==
    /\ pc[c] \in DOMAIN Granted
    /\ \/ RedisClaim(Item(c)) /\ UNCHANGED trouble
       \/ RedisFails(Item(c)) /\ Trouble
    /\ claimed' = [claimed EXCEPT ![c] = TRUE]
    /\ Go(c, Granted[pc[c]])
    /\ UNCHANGED <<store, lock, items, at, existing, answer, dropped>>

ClaimRefused(c) ==
    /\ \/ pc[c] \in DOMAIN Claiming /\ ~LocalFree(home[c], Item(c)) /\ UNCHANGED claimVars
       \/ pc[c] \in DOMAIN Granted /\ RedisRefuses(Item(c))
    /\ IF pc[c] \in DOMAIN Refused
       THEN Continue(c, Refused[pc[c]])
       ELSE Answer(c, "conflict")
    /\ UNCHANGED <<store, items, at, existing, dropped, trouble>>

Acquire(c) ==
    /\ At(c, "lock") /\ lock[home[c]] = None
    /\ lock' = [lock EXCEPT ![home[c]] = c]
    /\ Go(c, IF c \in Batches THEN "read" ELSE IF claimed[c] THEN "insert" ELSE "lookup")
    /\ UNCHANGED <<claimVars, store, items, at, claimed, existing, answer, dropped, trouble>>

(* _stored_result for a call without a claim; an error here is outside the *)
(* try block and releases nothing.                                         *)
Lookup(c) ==
    /\ At(c, "lookup")
    /\ \/ Item(c) \in Stored /\ AnswerStored(c) /\ UNCHANGED trouble
       \/ Item(c) \notin Stored /\ Continue(c, "reclaim") /\ UNCHANGED trouble
       \/ Answer(c, "failed") /\ Trouble
    /\ UNCHANGED <<claimVars, store, items, at, existing, dropped>>

-------------------------------------------------------------------------------
(* Mutated form: the claim alone decides, a stored row is overwritten.     *)
InsertOver(c) ==
    /\ At(c, "insert")
    /\ creator' = [creator EXCEPT ![Item(c)] = c]
    /\ Go(c, "publish")
    /\ UNCHANGED <<claimVars, counted, topic, latest, lock, items, at, claimed, existing, answer,
                   dropped, trouble>>

(* insert_with_score: the first transaction with this id stores the row,   *)
(* any other returns the stored pair; a returning call keeps its claim.    *)
Insert(c) ==
    /\ At(c, "insert")
    /\ IF Item(c) \in Stored
       THEN AnswerStored(c) /\ UNCHANGED creator
       ELSE /\ creator' = [creator EXCEPT ![Item(c)] = c]
            /\ Continue(c, "publish")
    /\ UNCHANGED <<claimVars, counted, topic, latest, items, at, existing, dropped, trouble>>

(* _database_unavailable: the API's transactions go to the topic in order  *)
(* until a send fails.                                                     *)
Buffer(c) ==
    IF c \in Streams THEN UNCHANGED topic
    ELSE \E n \in 0..Len(items[c]) : topic' = topic \cup {items[c][i] : i \in 1..n}

(* The error of a commit leaves open whether the rows are stored.          *)
Unavailable(c, new) ==
    /\ \/ UNCHANGED <<creator, dropped>>
       \/ /\ new # {} /\ new \cap Stored = {}
          /\ creator' = [x \in Transactions |-> IF x \in new THEN c ELSE creator[x]]
          /\ dropped' = dropped \cup new
    /\ Buffer(c)
    /\ Say(c, "unavailable")

InsertFails(c) ==
    /\ At(c, "insert") /\ Trouble
    /\ Unavailable(c, {Item(c)})
    /\ Go(c, "forget")
    /\ UNCHANGED <<claimVars, counted, latest, lock, items, at, claimed, existing>>

Fail(c) == Say(c, "failed") /\ Go(c, "forget") /\ UNCHANGED <<lock, claimed>>

(* Mutated form: a failed send ends the call, best effort.                 *)
PublishOrLeave(c) ==
    /\ At(c, "publish")
    /\ \/ Continue(c, "count") /\ UNCHANGED trouble
       \/ Answer(c, "stored") /\ Trouble
    /\ UNCHANGED <<claimVars, store, items, at, existing, dropped>>

Publish(c) ==
    /\ At(c, "publish")
    /\ \/ Continue(c, "count") /\ UNCHANGED <<dropped, trouble>>
       \/ Fail(c) /\ Trouble /\ dropped' = dropped \cup {Item(c)}
    /\ UNCHANGED <<claimVars, store, items, at, existing>>

(* aggregator.add; its ValueError leaves the row, and the rest of a batch, *)
(* stored but never counted.                                               *)
Count(c) ==
    /\ At(c, "count") /\ Item(c) >= latest[home[c]]
    /\ counted' = [counted EXCEPT ![Item(c)] = @ + 1]
    /\ latest' = [latest EXCEPT ![home[c]] = Item(c)]
    /\ Go(c, "windows")
    /\ UNCHANGED <<claimVars, creator, topic, lock, items, at, claimed, existing, answer, dropped,
                   trouble>>

(* Mutated form: a late transaction is skipped and the call goes on.       *)
SkipLate(c) ==
    /\ At(c, "count") /\ Item(c) < latest[home[c]]
    /\ dropped' = dropped \cup {Item(c)}
    /\ Go(c, "windows")
    /\ UNCHANGED <<claimVars, store, lock, items, at, claimed, existing, answer, trouble>>

OutOfOrder(c) ==
    /\ At(c, "count") /\ Item(c) < latest[home[c]]
    /\ dropped' = dropped \cup Ahead(c)
    /\ IF c \in Batches THEN Answer(c, "failed") ELSE Fail(c)
    /\ UNCHANGED <<claimVars, store, items, at, existing, trouble>>

(* The loop of a batch passes over what it found stored.                   *)
Left(c) == {i \in DOMAIN items[c] : at[c] < i /\ items[c][i] \notin existing[c]}
Behind(c) == Left(c) = {}
Advance(c) ==
    \E i \in Left(c) : (\A j \in Left(c) : i <= j) /\ at' = [at EXCEPT ![c] = i]

Windows(c) ==
    /\ At(c, "windows")
    /\ \/ Behind(c) /\ Answer(c, "created") /\ UNCHANGED at
       \/ Advance(c) /\ Continue(c, "mark")
    /\ UNCHANGED <<claimVars, store, items, existing, dropped, trouble>>

WindowsFail(c) ==
    /\ At(c, "windows") /\ Trouble
    /\ dropped' = dropped \cup (Ahead(c) \ {Item(c)})
    /\ IF c \in Batches THEN Answer(c, "failed") ELSE Fail(c)
    /\ UNCHANGED <<claimVars, store, items, at, existing>>

(* release_transaction on any exception, then the exception goes on.       *)
Forget(c) ==
    /\ At(c, "forget")
    /\ LocalRelease(home[c], Item(c))
    /\ Go(c, "unset")
    /\ UNCHANGED <<store, lock, items, at, claimed, existing, answer, dropped, trouble>>

Unset(c) ==
    /\ At(c, "unset")
    /\ \/ RedisRelease(Item(c)) /\ UNCHANGED trouble
       \/ RedisReleaseFails(Item(c)) /\ Trouble
    /\ Return(c)
    /\ UNCHANGED <<store, items, at, existing, answer, dropped>>

-------------------------------------------------------------------------------
(* ingest_batch: what exists is read, all the others are committed at      *)
(* once.  A row another process added in between makes the commit fail     *)
(* like an outage.                                                         *)
Read(c) ==
    /\ At(c, "read")
    /\ existing' = [existing EXCEPT ![c] = ItemSet(c) \cap Stored]
    /\ Go(c, "commit")
    /\ UNCHANGED <<claimVars, store, lock, items, at, claimed, answer, dropped, trouble>>

(* The scorer fell back between the scoring of the batch and its turn: a   *)
(* new detector in the fallback's space, and an error (see SpikeDetector). *)
RefuseBatch(c) ==
    /\ At(c, "read") /\ Trouble
    /\ latest' = [latest EXCEPT ![home[c]] = 0]
    /\ Answer(c, "failed")
    /\ UNCHANGED <<claimVars, creator, counted, topic, items, at, existing, dropped>>

Commit(c) ==
    /\ At(c, "commit") /\ New(c) \cap Stored = {}
    /\ creator' = [x \in Transactions |-> IF x \in New(c) THEN c ELSE creator[x]]
    /\ \/ Behind(c) /\ AnswerStored(c) /\ UNCHANGED at
       \/ Advance(c) /\ Continue(c, "mark")
    /\ UNCHANGED <<claimVars, counted, topic, latest, items, existing, dropped, trouble>>

CommitFails(c) ==
    /\ At(c, "commit")
    /\ IF New(c) \cap Stored = {} THEN Trouble ELSE UNCHANGED trouble
    /\ Unavailable(c, New(c))
    /\ Return(c)
    /\ UNCHANGED <<claimVars, counted, latest, items, at, existing>>

-------------------------------------------------------------------------------
(* A new detector and aggregator under the lock, or the end of a process.  *)
Reset(p) ==
    /\ lock[p] = None /\ latest[p] # 0
    /\ latest' = [latest EXCEPT ![p] = 0]
    /\ UNCHANGED <<claimVars, creator, counted, topic, lock, pc, items, at, claimed,
                   existing, answer, dropped, trouble>>

Cut(p) == {c \in Calls : home[c] = p /\ pc[c] \notin {"idle", "done"}}
Crash(p) ==
    /\ Cut(p) # {} /\ Trouble
    /\ LocalCleared(p)
    /\ latest' = [latest EXCEPT ![p] = 0]
    /\ lock' = [lock EXCEPT ![p] = None]
    /\ pc' = [c \in Calls |-> IF c \in Cut(p) THEN "done" ELSE pc[c]]
    /\ answer' = [c \in Calls |-> IF c \in Cut(p) THEN "crashed" ELSE answer[c]]
    /\ claimed' = [c \in Calls |-> c \notin Cut(p) /\ claimed[c]]
    /\ dropped' = dropped \cup {x \in Stored : creator[x] \in Cut(p) /\ counted[x] = 0}
    /\ UNCHANGED <<creator, counted, topic, items, at, existing>>

calls == <<store, lock, pc, items, at, claimed, existing, answer, dropped, trouble>>
LocalExpires(p, k) == LocalLoses(p, k) /\ UNCHANGED calls
ClaimExpires(k) == RedisExpires(k) /\ UNCHANGED calls

Step(c) ==
    \/ ClaimLocally(c) \/ ClaimInRedis(c) \/ ClaimRefused(c) \/ Acquire(c) \/ Lookup(c)
    \/ Insert(c) \/ InsertFails(c) \/ Publish(c) \/ Count(c) \/ OutOfOrder(c)
    \/ Windows(c) \/ WindowsFail(c) \/ Forget(c) \/ Unset(c)
    \/ Read(c) \/ RefuseBatch(c) \/ Commit(c) \/ CommitFails(c) \/ Redeliver(c)

Next ==
    /\ UNCHANGED home
    /\ \/ \E c \in Calls : Submit(c) \/ Step(c)
       \/ \E p \in Processes : Reset(p) \/ Crash(p)
       \/ \E p \in Processes, k \in Keys : LocalExpires(p, k)
       \/ \E k \in Keys : ClaimExpires(k)

Spec == Init /\ [][Next]_vars

-------------------------------------------------------------------------------
(* A transaction reaches a detector at most once, over all processes,      *)
(* retries, redeliveries, restarts and lost claims: the row decides, not   *)
(* the claim (cache_service.py:299-300, repositories.py:89-125).           *)
CountedOnce == \A x \in Transactions : counted[x] <= 1

(* No stored transaction is silently missing from the detector: it was     *)
(* counted, or its creator is still on its way to it, or that call failed  *)
(* in between (transaction_service.py:332-378).                            *)
OnItsWay(x) ==
    LET c == creator[x] IN
    pc[c] \in {"publish", "count", "windows", "mark", "remark"} /\ x \in Ahead(c)
StoredIsCounted ==
    /\ \A x \in Stored \ dropped : counted[x] = 1 \/ OnItsWay(x)
    /\ \A x \in Transactions : counted[x] > 0 => x \in Stored

(* What a call answers is true: created, whatever it found missing is its  *)
(* own row by now and counted; stored, all rows are; conflict, it stored   *)
(* nothing.                                                                *)
AnswersAreTrue ==
    \A c \in Calls : pc[c] = "done" =>
        /\ answer[c] = "created" => \A x \in New(c) : creator[x] = c /\ counted[x] = 1
        /\ answer[c] \in {"created", "stored"} => ItemSet(c) \subseteq Stored
        /\ answer[c] = "conflict" => c \in Streams \/ \A x \in Stored : creator[x] # c

(* Two calls of ingest work on one transaction only if the Redis claim     *)
(* failed or expired, and in one process only if the local entry was lost  *)
(* as well (cache_service.py:297-301).                                     *)
Working(c) ==
    /\ claimed[c] /\ c \notin Batches
    /\ pc[c] \in {"lock", "insert", "publish", "count", "windows", "forget"}
ClaimsExclude ==
    \A c, d \in Calls : c # d /\ Working(c) /\ Working(d) /\ Item(c) = Item(d) =>
        /\ Item(c) \in unsure
        /\ home[c] = home[d] => <<home[c], Item(c)>> \in forgotten
===============================================================================
