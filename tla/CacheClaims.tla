----------------------------- MODULE CacheClaims -----------------------------
(***************************************************************************)
(* CacheService as a claim registry: a key is claimed in the process-local *)
(* cache first and in Redis second, both with set-if-absent, and released  *)
(* in the same order.  An entry says that its key is claimed, not by whom. *)
(*                                                                         *)
(* A local entry may vanish at any time, by its TTL or because the LRU is  *)
(* over cache_max_entries, a Redis entry by its TTL, and any Redis         *)
(* operation may fail.                                                     *)
(***************************************************************************)
CONSTANTS
    Processes,      \* API processes, each with its local cache
    Keys            \* what can be claimed

VARIABLES
    local,          \* _local of every process: <<p, k>> with an entry
    redis,          \* the keys with an entry in Redis
    forgotten,      \* history: <<p, k>> that lost a local entry on its own
    unsure          \* history: keys whose claim in Redis failed or expired

claimVars == <<local, redis, forgotten, unsure>>

ClaimTypeOK ==
    /\ local \subseteq Processes \X Keys /\ forgotten \subseteq Processes \X Keys
    /\ redis \subseteq Keys /\ unsure \subseteq Keys

ClaimInit == local = {} /\ redis = {} /\ forgotten = {} /\ unsure = {}

(* _local_set with nx: atomic within the process                           *)
LocalFree(p, k) == <<p, k>> \notin local
LocalClaim(p, k) ==
    /\ LocalFree(p, k)
    /\ local' = local \cup {<<p, k>>}
    /\ UNCHANGED <<redis, forgotten, unsure>>

(* redis.set with nx: stored, refused (the local entry stays), or failed,  *)
(* set or not; a failure leaves the decision to the local claim: granted.  *)
(* Mutated form: set without nx.                                           *)
RedisOverwrites(k) == TRUE

RedisFree(k) == k \notin redis
RedisClaim(k) ==
    /\ RedisFree(k)
    /\ redis' = redis \cup {k}
    /\ UNCHANGED <<local, forgotten, unsure>>

RedisRefuses(k) == ~RedisFree(k) /\ UNCHANGED claimVars

RedisFails(k) ==
    /\ redis' \in {redis, redis \cup {k}}
    /\ unsure' = unsure \cup {k}
    /\ UNCHANGED <<local, forgotten>>

(* delete: whoever holds the entry by now loses it; the error of a failed  *)
(* one is swallowed.                                                       *)
LocalRelease(p, k) ==
    /\ local' = local \ {<<p, k>>}
    /\ UNCHANGED <<redis, forgotten, unsure>>

RedisRelease(k) ==
    /\ redis' = redis \ {k}
    /\ UNCHANGED <<local, forgotten, unsure>>

RedisReleaseFails(k) ==
    /\ redis' \in {redis, redis \ {k}}
    /\ UNCHANGED <<local, forgotten, unsure>>

LocalLoses(p, k) ==
    /\ <<p, k>> \in local
    /\ local' = local \ {<<p, k>>}
    /\ forgotten' = forgotten \cup {<<p, k>>}
    /\ UNCHANGED <<redis, unsure>>

RedisExpires(k) ==
    /\ k \in redis
    /\ redis' = redis \ {k}
    /\ unsure' = unsure \cup {k}
    /\ UNCHANGED <<local, forgotten>>

(* The process ends: its local cache with it, its claims in Redis stay.    *)
LocalCleared(p) ==
    /\ local' = {e \in local : e[1] # p}
    /\ UNCHANGED <<redis, forgotten, unsure>>
===============================================================================
