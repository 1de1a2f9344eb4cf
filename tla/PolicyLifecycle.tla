--------------------------- MODULE PolicyLifecycle ---------------------------
(***************************************************************************)
(* PolicyService and RuntimePolicyResolver: administrators promote         *)
(* measured candidates to production and roll back to retired versions,    *)
(* several at once, while investigations ask for the ranking of the        *)
(* version in production.                                                  *)
(*                                                                         *)
(* A call reads the version it is about, the active pointer and the row it *)
(* points to, loads both artifacts to verify them, and only then locks the *)
(* policy row and commits the change with its audit entry.  Its session    *)
(* keeps the rows of the versions as it first read them.  Versions are     *)
(* numbered; what a version is (artifact identity, evaluation evidence)    *)
(* never changes, but the artifact file may become unreadable and          *)
(* readable again.                                                         *)
(***************************************************************************)
EXTENDS Integers, Sequences, FiniteSets

CONSTANTS
    Versions,       \* policy_versions.version, numbers
    First,          \* the version in production before any promotion
    Builtin,        \* versions that are the built-in human escalation
    Identity,       \* _artifact_identity of each version
    Evidence,       \* the promotion evidence of each version, or None
    Admins,         \* concurrent calls of promote and rollback
    Investigations, \* concurrent calls of score
    Fragile,        \* versions whose artifact file may become unreadable
    None,           \* no version
    MaxChanges      \* bound: activations

EvidenceRecord == [base: {Identity[v] : v \in Versions},    \* production_identity
                   version: Versions \cup {None},           \* production_version
                   sound: BOOLEAN,                          \* every other check of _evidence
                   passes: BOOLEAN]                         \* PromotionGate.evaluate
Ranking == [label: Versions \cup {None},                \* production_policy_version_id
            operative: Versions \cup {None},            \* None: the conservative ranking
            shadow: Versions \cup {None}, degraded: BOOLEAN]
ScoreCall == [step: {"rows", "load"}, seen: Versions, shadow: Versions \cup {None}]
ASSUME PolicyParameters ==
    /\ Versions \subseteq Nat /\ First \in Versions
    /\ \A S \in SUBSET Versions : S # {} => \E v \in S : \A w \in S : w <= v  \* finitely many
    /\ Builtin \subseteq Versions
    /\ DOMAIN Identity = Versions
    /\ Evidence \in [Versions -> EvidenceRecord \cup {None}]
    /\ None \notin Versions \cup EvidenceRecord \cup Ranking \cup ScoreCall
    /\ Fragile \subseteq Versions \ Builtin
    /\ MaxChanges \in Nat

VARIABLES
    status,         \* status of each version, "absent" before it is registered
    active,         \* policies.active_version
    gateResult,     \* gate_result of each version
    audit,          \* the audit entries, by idempotency key
    intact,         \* versions whose artifact file loads and verifies
    cache,          \* _cache: versions whose model is in memory
    call,           \* each admin's call: its step, and the versions it has read
    score,          \* each score call, likewise, and its answer at the end
    log             \* history: the activations

registry == <<status, active, gateResult, audit>>
scoring == <<score, cache>>
vars == <<registry, intact, call, scoring, log>>

Kinds == {"promote", "rollback"}
Change == [kind: Kinds, target: Versions, previous: Versions]
Statuses == {"absent", "candidate", "production", "retired"}
AdminCall == [step: {"pointer", "row", "verify", "gate", "activate"},
              kind: Kinds, target: Versions, base: Versions \cup {None},
              held: Statuses \cup {None}]    \* status of the base as the session has it

TypeOK ==
    /\ status \in [Versions -> Statuses]
    /\ active \in Versions
    /\ gateResult \in [Versions -> {"none", "passed", "failed"}]
    /\ audit \subseteq Change
    /\ intact \subseteq Versions /\ cache \subseteq Versions
    /\ call \in [Admins -> AdminCall \cup {None}]
    /\ score \in [Investigations -> ScoreCall \cup Ranking \cup {None}]
    /\ log \in Seq(Change)

Init ==
    /\ status = [v \in Versions |-> IF v = First THEN "production" ELSE "absent"]
    /\ active = First
    /\ gateResult = [v \in Versions |-> "none"]
    /\ audit = {} /\ log = <<>>
    /\ intact = Versions /\ cache = {}
    /\ call = [a \in Admins |-> None]
    /\ score = [i \in Investigations |-> None]

-------------------------------------------------------------------------------
(* create_policy_version: idempotent by version                            *)
Register(v) ==
    /\ status[v] = "absent"
    /\ status' = [status EXCEPT ![v] = "candidate"]
    /\ UNCHANGED <<active, gateResult, audit, intact, call, scoring, log>>

ArtifactChanges(v) ==
    /\ v \in Fragile
    /\ intact' = IF v \in intact THEN intact \ {v} ELSE intact \cup {v}
    /\ UNCHANGED <<registry, call, scoring, log>>

-------------------------------------------------------------------------------
At(a, step) == call[a] # None /\ call[a].step = step
Go(a, step) == call' = [call EXCEPT ![a].step = step]
Done(a) == call' = [call EXCEPT ![a] = None]
Refuse(a) == Done(a) /\ UNCHANGED <<registry, intact, scoring, log>>
Promotes(a) == call[a].kind = "promote"

(* promote or rollback of a version that exists, by an administrator: its  *)
(* row is read first.                                                      *)
StatusFor(k) == IF k = "promote" THEN "candidate" ELSE "retired"
Eligible(k, v) == status[v] = StatusFor(k)
Call(a, k, v) ==
    /\ call[a] = None /\ Eligible(k, v)
    /\ call' = [call EXCEPT ![a] = [step |-> "pointer", kind |-> k, target |-> v,
                                   base |-> None, held |-> None]]
    /\ UNCHANGED <<registry, intact, scoring, log>>

(* active_policy_version: the policy row, then the version it points to,   *)
(* in two statements without a lock.                                       *)
ReadPointer(a) ==
    /\ At(a, "pointer")
    /\ call' = [call EXCEPT ![a].base = active, ![a].step = "row"]
    /\ UNCHANGED <<registry, intact, scoring, log>>

(* _evidence: what a candidate was measured against is what is active      *)
Measured(v, b) ==
    /\ Evidence[v] # None /\ Evidence[v].sound
    /\ Evidence[v].base = Identity[b]
    /\ Evidence[v].version \in {None, b}

(* A row the session has read before is not refreshed.                     *)
Held(a) == IF call[a].base = call[a].target THEN StatusFor(call[a].kind)
           ELSE status[call[a].base]
ReadRow(a) ==
    /\ At(a, "row")
    /\ Promotes(a) => Measured(call[a].target, call[a].base)
    /\ call' = [call EXCEPT ![a].held = Held(a), ![a].step = "verify"]
    /\ UNCHANGED <<registry, intact, scoring, log>>

EvidenceStale(a) ==
    /\ At(a, "row") /\ Promotes(a) /\ ~Measured(call[a].target, call[a].base)
    /\ Refuse(a)

(* _verify_artifact, of the active version too for a promotion             *)
Valid(a) ==
    {call[a].target} \cup (IF Promotes(a) THEN {call[a].base} ELSE {}) \subseteq intact \cup Builtin
Verify(a) ==
    /\ At(a, "verify") /\ Valid(a)
    /\ Go(a, IF Promotes(a) THEN "gate" ELSE "activate")
    /\ UNCHANGED <<registry, intact, scoring, log>>

ArtifactInvalid(a) == At(a, "verify") /\ ~Valid(a) /\ Refuse(a)

(* The gate's result is kept when it fails, too.                           *)
GatePasses(a) ==
    /\ At(a, "gate") /\ Evidence[call[a].target].passes
    /\ Go(a, "activate")
    /\ UNCHANGED <<registry, intact, scoring, log>>

GateFails(a) ==
    /\ At(a, "gate") /\ ~Evidence[call[a].target].passes
    /\ gateResult' = [gateResult EXCEPT ![call[a].target] = "failed"]
    /\ Done(a)
    /\ UNCHANGED <<status, active, audit, intact, scoring, log>>

\* Mutated form: the kind of change is left out of the key
SamePair(c, d) == c.target = d.target /\ c.previous = d.previous

(* append_once: a promotion is keyed by its version, a rollback by the     *)
(* pair; the entry of an earlier change with this key is left as it is.    *)
SameKey(c, d) ==
    c.kind = d.kind /\ c.target = d.target /\ (c.kind = "rollback" => c.previous = d.previous)
Recorded(c) == IF \E d \in audit : SameKey(c, d) THEN audit ELSE audit \cup {c}

(* The row of the replaced version is written when "retired" differs from  *)
(* the status the session has of it: otherwise nothing was assigned to it. *)
Retired(a, previous) == IF call[a].held = "retired" THEN status[previous] ELSE "retired"

(* activate_version under the lock on the policy row, which is read again; *)
(* the versions' rows are those the session has.                           *)
Swap(a, previous) ==
    LET change == [kind |-> call[a].kind, target |-> call[a].target, previous |-> previous] IN
    /\ status' = [status EXCEPT ![previous] = Retired(a, previous),
                               ![change.target] = "production"]
    /\ active' = change.target
    /\ gateResult' = IF Promotes(a) THEN [gateResult EXCEPT ![change.target] = "passed"]
                     ELSE gateResult
    /\ audit' = Recorded(change)
    /\ log' = Append(log, change)
    /\ UNCHANGED <<intact, scoring>>
Ready(a) == At(a, "activate") /\ Len(log) < MaxChanges /\ Done(a)

\* Mutated form: the active version is not read again under the lock
ActivateAsRead(a) == Ready(a) /\ Swap(a, call[a].base)

\* Mutated form: without the expected version
ActivateAnyway(a) == Ready(a) /\ Swap(a, active)

Activate(a) == Ready(a) /\ active = call[a].base /\ Swap(a, active)

ActiveChanged(a) == At(a, "activate") /\ active # call[a].base /\ Refuse(a)

(* A failed session, also a deadlock that the database broke.              *)
SessionFails(a) == call[a] # None /\ Refuse(a)

-------------------------------------------------------------------------------
(* RuntimePolicyResolver.score: the active version and the newest          *)
(* candidate are read one after the other, then their models are loaded.   *)
(* Pointer and row of the active version are one step here: what is used   *)
(* of the row never changes, and a version that was active is no candidate *)
(* whenever its status is read.                                            *)
StartScore(i) ==
    /\ score[i] = None
    /\ score' = [score EXCEPT ![i] = [step |-> "rows", seen |-> active, shadow |-> None]]
    /\ UNCHANGED <<registry, intact, call, cache, log>>

Candidates == {v \in Versions : status[v] = "candidate"}
Newest(S) == IF S = {} THEN None ELSE CHOOSE v \in S : \A w \in S : w <= v
Scoring(i, step) == score[i] \in ScoreCall /\ score[i].step = step
ReadRows(i) ==
    /\ Scoring(i, "rows")
    /\ score' = [score EXCEPT ![i].shadow = Newest(Candidates), ![i].step = "load"]
    /\ UNCHANGED <<registry, intact, call, cache, log>>

(* _load: from memory, or from a file that verifies; never for a built-in  *)
Loadable(v) == v \notin Builtin \cup {None} /\ v \in cache \cup intact
Loaded(v) == IF Loadable(v) THEN v ELSE None

\* Mutated form: the candidate stands in for an unreadable production model
OrCandidate(i) == IF Loadable(score[i].seen) THEN score[i].seen ELSE Loaded(score[i].shadow)

Operative(i) == Loaded(score[i].seen)
Reply(i, ranking) ==
    /\ score' = [score EXCEPT ![i] = ranking]
    /\ UNCHANGED <<registry, intact, call, log>>

(* Both models are loaded, then each ranks; a candidate that cannot is     *)
(* left out.                                                               *)
LoadBoth(i) == cache' = cache \cup ({Loaded(score[i].seen), Loaded(score[i].shadow)} \ {None})
Observed(i) == {Loaded(score[i].shadow), None}

Rank(i) ==
    /\ Scoring(i, "load")
    /\ LET v == score[i].seen IN \E c \in Observed(i) :
        Reply(i, [label |-> v, operative |-> Operative(i), shadow |-> c,
                  degraded |-> ~Loadable(v) /\ v \notin Builtin])
    /\ LoadBoth(i)

(* A production model that cannot rank this context leaves the             *)
(* conservative ranking, and so does a registry that cannot be read,       *)
(* without any version.                                                    *)
RankFails(i) ==
    /\ Scoring(i, "load") /\ Loadable(score[i].seen)
    /\ \E c \in Observed(i) :
        Reply(i, [label |-> score[i].seen, operative |-> None, shadow |-> c, degraded |-> TRUE])
    /\ LoadBoth(i)

RegistryFails(i) ==
    /\ Scoring(i, "rows")
    /\ Reply(i, [label |-> None, operative |-> None, shadow |-> None, degraded |-> TRUE])
    /\ UNCHANGED cache

Answered(i) ==
    /\ score[i] \in Ranking
    /\ Reply(i, None)
    /\ UNCHANGED cache

Step(a) ==
    \/ \E k \in Kinds, v \in Versions : Call(a, k, v)
    \/ ReadPointer(a) \/ ReadRow(a) \/ EvidenceStale(a) \/ Verify(a) \/ ArtifactInvalid(a)
    \/ GatePasses(a) \/ GateFails(a) \/ Activate(a) \/ ActiveChanged(a) \/ SessionFails(a)

Score(i) == StartScore(i) \/ ReadRows(i) \/ Rank(i) \/ RankFails(i) \/ RegistryFails(i)
            \/ Answered(i)

Next ==
    \/ \E v \in Versions : Register(v) \/ ArtifactChanges(v)
    \/ \E a \in Admins : Step(a)
    \/ \E i \in Investigations : Score(i)

Spec == Init /\ [][Next]_vars

-------------------------------------------------------------------------------
(* The changes form one chain, each replacing what the one before it put   *)
(* there, however many administrators act at once: the pointer is at its   *)
(* end, and the version there says that it is in production                *)
(* (repositories.py:876-917).                                              *)
Predecessor(i) == IF i = 1 THEN First ELSE log[i - 1].target
ChangesFormOneChain ==
    /\ \A i \in DOMAIN log : log[i].previous = Predecessor(i)
    /\ active = Predecessor(Len(log) + 1)
    /\ status[active] = "production"

(* No other version says so: activation retires the version it replaces    *)
(* (repositories.py:908).                                                  *)
OneProduction == \A v \in Versions : status[v] = "production" => v = active

(* A promoted version replaced the very baseline its evidence was measured *)
(* against and passed the gate, and a rollback restores a version that was *)
(* in production before (policy_service.py:222-290).                       *)
ChangesAreJustified ==
    \A i \in DOMAIN log : LET c == log[i] IN
        IF c.kind = "promote"
        THEN Measured(c.target, c.previous) /\ Evidence[c.target].passes
        ELSE \E j \in 1..i : c.target = Predecessor(j)

(* The audit trail is true and loses no pair: an entry names a change that *)
(* was made and the version it replaced, every version that was promoted   *)
(* has an entry, and so has every pair of a restored version and the one   *)
(* it replaced (repositories.py:597-625).                                  *)
AuditIsTrue ==
    /\ \A c \in audit : \E i \in DOMAIN log : c = log[i]
    /\ \A i \in DOMAIN log : \E c \in audit :
        /\ c.kind = log[i].kind /\ c.target = log[i].target
        /\ c.kind = "rollback" => c = log[i]

(* Every change has an entry of its own (policy_service.py:257-317).       *)
EveryChangeIsAudited == Cardinality(audit) = Len(log)

(* No ranking that decides a response comes from a version that never was  *)
(* in production, or from another one than the answer names, and the       *)
(* candidate shown beside it is not that version (shadow_policy.py:99-128). *)
CandidatesOnlyObserve ==
    \A i \in Investigations : score[i] \in Ranking =>
        LET r == score[i] IN
        /\ r.operative # None => r.operative = r.label /\ r.operative # r.shadow
        /\ r.label # None => \E j \in 1..(Len(log) + 1) : r.label = Predecessor(j)
===============================================================================
