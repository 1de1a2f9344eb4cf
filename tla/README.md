# Verification of the fraud-spike detector

TLA+ models of the backend under `src/backend/app`, the TLC configurations that
check them on small instances, and TLAPS proofs of their central properties.
Every definition is translated from the Python source; `PROJECT.json` maps it to
the lines it stands for.

## 1. The system

The backend is one FastAPI process (or several, behind one Postgres, one Redis
and one Redpanda cluster) that scores card transactions, detects spikes of risk,
opens incidents, investigates them with an LLM graph, asks an analyst for a
decision and learns from its outcome.

| Component | State it keeps | Operations | Hard behaviour |
| --- | --- | --- | --- |
| Transaction ingestion (`services/transaction_service.py`) | transactions and scores in Postgres, claims in the cache, the aggregator and detector in memory | `ingest`, `ingest_batch`, `flush`, `reset`, `handle_stream_event` | claim, commit and detector update are separate steps; failures between them; duplicates |
| Cache (`cache/cache_service.py`) | Redis keys and a process-local TTL/LRU map | claims, get/set, delete, rate limit | two levels that disagree when Redis is down; expiry; eviction |
| Windows and detector (`ml/spike_detection`) | record deque, next slide, alert state and counters | `add`, `flush`, `process`, `prime` | boundaries, online against batch, cooldown, restart of the alert sequence |
| Incident creation (`services/incident_service.py`) | incident row | `create_from_alert` | publish and trigger follow the commit |
| Investigation (`services/investigation_service.py`, `agents/graph.py`) | LangGraph checkpoint, incident status and agent outputs | `schedule`, `investigate`, `resume`, `continue_from_checkpoint`, `reconcile` | checkpoint per node, concurrent runs of one thread, unconditional status writes |
| Review boundary (`hitl/review_service.py`) | decision row with an ownership token and lease in its status, audit, outbox | `decide` | six database sessions with stale reads between them, lease takeover, crash recovery, replay |
| Outcome feedback (`hitl/feedback_service.py`) | the same row, incident status, audit, outbox | `record_outcome` | only after completion, only once |
| Outbox (`streaming/outbox.py`, `db/repositories.py`) | outbox rows with lease, owner, attempts | `enqueue_once`, `claim_batch`, `mark_published`, `mark_failed`, `drain_once` | several dispatchers, timeouts whose send went through, crash between send and mark |
| Consumer (`streaming/consumer.py`) | position, committed offset, retry counters | `run`, `handle_message`, seek | commits cover all partitions, failed messages retried, redelivery |
| Reward (`services/evaluation_service.py`) | reward row, incident memory, outbox | `handle_outcome` | exactly one reward from at-least-once events |
| Response policy (`services/policy_service.py`) | versions, active pointer, audit | `promote`, `rollback`, `score` | concurrent administrators, stale evaluation |
| Safety (`safety/*`) | none | `evaluate`, `ground_claims`, escalation, permissions | rule precedence, missing evidence |
| LLM gateway (`llm/gateway.py`) | circuit breakers, cache | `generate` | fallback order, breaker reset |
| Demo stream (`services/demo_stream_service.py`) | snapshot, Redis marker, task | `start`, `status`, `close` | marker kept after failure |

Components meet through: direct calls (ingestion -> detector -> incident ->
`schedule`), the shared database (review, feedback and reward work on one
decision row), the outbox (feedback -> dispatcher -> consumer -> reward) and the
checkpoint store (investigation and review resume the same graph thread).

What makes each correct, in one line: ingestion counts every stored transaction
once; a claim has one holder; windows equal their definition; one alert gives one
incident and one investigation; the graph only runs the accepted review; a
decision, its audit entries and its events agree and it is completed once; a
committed event is delivered at least once with the committed content; an offset
is committed only past handled messages; one decision has at most one reward;
production changes along one chain of justified policy versions that ends at the active one;
nothing a language
model writes reaches the gate or passes as grounded, a fallback is always told, and an
incident under investigation ends with an analyst or visibly failed.

## 2. Modules

| Module | Models |
| --- | --- |
| `ReviewDecision` | `ReviewService.decide`, the graph behind it from the interrupt on, and `FeedbackService.record_outcome` |
| `DecisionLifecycle` | abstract: what the review boundary promises about a decision |
| `Outbox` | `enqueue_once`, `claim_batch`, `drain_once`, `send_envelope`, both marks, the dispatchers of several processes |
| `DurableDelivery` | abstract: at-least-once delivery of committed events |
| `StreamConsumer` | `EventConsumer.run`, `_handle_with_retry`, `handle_message`; the group, the positions and the commits |
| `OutcomePipeline` | extends `StreamConsumer`: outcome events, `EvaluationService.handle_outcome`, reward, memory and reward event |
| `CacheClaims` | claims of `CacheService`: the local entry, the Redis entry, their release and loss |
| `TransactionIngest` | extends `CacheClaims`: `ingest`, `ingest_batch` and the stream handler in several processes |
| `SlidingWindow` | `SlidingWindowAggregator.add` and `flush` |
| `FraudScorer` | `ResilientFraudScorer`: which model scores, in which score space |
| `SpikeDetector` | extends both: `detector.process`, `_process_windows`, `create_from_alert`, `_prime_reference` |
| `PolicyLifecycle` | `PolicyService.promote` and `rollback`, `activate_version`, `RuntimePolicyResolver.score` |
| `PolicyEngine` | `evaluate`, `determine_escalation`, the permissions, as operators |
| `DeterministicEvidence` | extends `PolicyEngine`: the tools' records and `build_authorization_context` |
| `LLMGateway` | the tiers, the circuit breakers, the calls of other investigations |
| `Investigation` | extends both: `InvestigationService`, the graph's nodes, `generate` step by step |
| `MC*` | instances, bounds on failures and fairness for TLC |
| `*Proofs` | the theorems about the module they are named after |

`OutcomePipeline` is the composition: its `RecordOutcome` is the step of that name
in `ReviewDecision` with the outbox row it commits, its `Deliver` is
`DurableDelivery!Deliver`, and the consumers are those of `StreamConsumer`. What
it takes from the first two is what their own runs and proofs establish: one
outcome per decision, and an event that is delivered at least once with one
content.

### ReviewDecision

One incident has one decision (`_decision_id` hashes the incident id), so one
incident is modelled. A worker is an API process: the per-decision asyncio lock
makes `decide` calls sequential inside a process, so each worker runs at most one
call. The program counter `pc` stands at the boundaries of `_decide_locked`: every
database session is one atomic action, every graph node with its checkpoint is
one action.

| State | Code |
| --- | --- |
| `status`, `owner`, `expired` | `AnalystDecision.status`; `resuming:<token>:<expiry>` is split into the status, the token and whether the expiry has passed |
| `content`, `outcome` | the immutable columns of the row (actor, decision, final action with its authorization) and the outcome |
| `audit` | number of `AuditEvent` rows per idempotency key |
| `decisionEvent`, `outcomeEvent` | the outbox rows `decision:<id>` and `outcome:<id>` with their payload |
| `checkpoint`, `local` | the saved channel values of the graph thread, and those of a running invocation |
| `durable` | whether the checkpointer is Postgres or in memory; chosen once, by configuration |
| `incident` | `Incident.status` |
| `seen`, `token`, `tries` | what a call remembers: the row it read, its owner status, its claim attempts |
| `overran` | history: a lease has expired under a live owner |

`Load`, `ReplayTerminal`, `Check`, `Record`, `ReadClaim`, `CasClaim`, `Reload`,
`Invoke`, `RunNode`, `Persist`, `Complete`, `Release` follow the code in order;
`Fail` raises inside any of them, `Crash` kills the process (and with a volatile
checkpointer the checkpoint), `LeaseExpires` lets the 900 seconds pass. The policy
verdict in `Record` is any verdict: the rules file and the role of the actor may
differ from process to process, and the properties must hold for all of them.
Reason texts are left out: they take part only in the same-request comparison,
where the actor and the choice already give requests that differ.

LangGraph itself is external: a run loads the latest checkpoint, runs one node
after the other and saves a checkpoint after each; `Command(resume=...)` answers
a pending interrupt and otherwise the run goes on from the checkpoint.

### Outbox

| State | Code |
| --- | --- |
| `content`, `created`, `status`, `owner`, `attempts` | columns of `OutboxEvent`: what is published, `created_at` order, `status`, `claimed_by`, `attempts` |
| `expired`, `waiting` | `claim_until` has passed; `available_at` is in the future |
| `topic`, `stray` | copies in the Redpanda topic, and copies whose sender gave up on them |
| `pc`, `ids`, `batch`, `current`, `tries` | where a dispatcher stands in `drain_once`, the ids `claim_batch` read, the claimed rows, the row it works on, its failed tries |
| `overran` | history: a batch has outlived its lease |

`claim_batch` is two steps, `ReadIds` and `ClaimRows`, because its first select
takes no locks; `Take`, `Acknowledged`, `SendError`, `SendGivenUp`, `MarkPublished`
and `MarkFailed` are one row of the batch. `send_and_wait` either returns, or
raises or times out, and then its copy may still land (`StrayLands`) or not
(`StrayLost`): the client and the broker are external. `StartFails` is a producer
or a topic that cannot be made ready for the send, `SessionError` a session
that raises in the middle of a batch, `Crash` a process that is replaced by one
with another `worker_id`.

### StreamConsumer and OutcomePipeline

| State | Code |
| --- | --- |
| `end`, `committed`, `assigned` | external: length of each partition, the group's offset, the member that owns it |
| `position` | aiokafka's position of each member |
| `pc`, `taken` | where a consumer stands, the message in its hands |
| `handled` | history: messages some handler has finished |
| `recorded`, `outcomes` | decisions with an outcome event, and the decision of each message |
| `config` | the reward settings a process has read: effects version, and what it computes from weights and costs |
| `rewards`, `memory`, `rewardEvents` | `Reward` rows by idempotency key, `IncidentMemory`, the outbox rows `reward:...` |

aiokafka is external: `seek` and `commit` refuse a partition that is no longer
assigned, a rebalance puts positions back to the committed offsets, and the
iterator advances the position before the handler sees the message. `handle_outcome`
commits once, so `Rewarded` is one step; `NotRewarded` is a handler that raises
before that commit, or after it without knowing. One abstract value stands for all
components of a reward: `_validate_reward_replay` tells only equal and unequal.

### CacheClaims and TransactionIngest

| State | Code |
| --- | --- |
| `local`, `redis` | the entries `transaction:<id>` of each process's `_local` and of Redis; an entry does not say whose it is |
| `forgotten`, `unsure` | history: local entries lost by TTL or LRU, keys whose claim failed in Redis or expired there |
| `creator` | which call committed the transaction's row and score |
| `counted`, `latest` | how often `aggregator.add` took it, and each aggregator's last event time |
| `lock`, `pc`, `home`, `items`, `at`, `claimed`, `existing`, `answer` | the service's lock, and where each call stands, in which process, with which transactions and at which of them, with which claim, what it found stored, and what it answered |
| `topic` | the transactions topic, to which the API sends what the database refuses |
| `dropped` | history: rows whose creating call failed between its commit and the detector |

Every await is a step: both halves of `claim_json`, the lock, the lookup without a
claim, the commit, the publication, the detector, the windows, both halves of the
release. The docstring asks for one instance per partition; two processes are modelled
because nothing in the code keeps a second one off. `Lots` are the batches clients send;
one with an id twice is refused (`transaction_service.py:169`). Transactions are numbered in
event-time order, so `Count` refuses a late one with the `ValueError` of the
aggregator.

Conflict answers under a claim that nobody works on (the local entry that stays when
Redis refuses, `cache_service.py:411`) are part of the model and end with the entry;
that a retry waits for the TTL is what the code accepts, so no property speaks of it.

### SlidingWindow and SpikeDetector

| State | Code |
| --- | --- |
| `records`, `streamStart`, `nextEmit`, `last` | the aggregator's fields; `time` holds the event times |
| `emitted`, `log` | history: the windows returned, and the verdict on each |
| `consecutive`, `inactive`, `active`, `lastClose`, `sequence`, `history` | the detector's fields |
| `pending`, `step`, `alert` | the loop of `_process_windows` and where `create_from_alert` stands in it |
| `incidents`, `triggered`, `merged`, `lost` | the rows, the scheduled investigations, alerts that met an existing row, alerts whose handling failed |
| `scorer`, `space`, `spaceOf` | the scorer's model, `score_space` of the reference, and the space each transaction was scored in |
| `waiting` | a batch that was scored before it has the lock |
| `life` | which detector this is: `reset`, re-prime and restart make a new one |

Lift, Poisson tail and thresholds are a verdict: quiet, suspicious or extreme, free for
every window with enough transactions. The alert id is the date and the sequence
number, so an alert of a later life may meet the row of an earlier one (`FindIncident`).

`ingest` scores under the lock, `ingest_batch` before it. When another call makes the
scorer fall back in between, the batch finds a detector in another space, primes it once
more, which costs the windows of the stream so far, and is refused with a `RuntimeError`
(`ReprimeForBatch`; `RefuseBatch` of `TransactionIngest`). `ScoresAreComparable` shows that
nothing is compared across spaces; that the second reference is wasted breaks no property.

### PolicyLifecycle

| State | Code |
| --- | --- |
| `status`, `gateResult`, `active` | `policy_versions`, and `policies.active_version` |
| `audit`, `log` | audit entries by idempotency key, and the history of activations |
| `intact`, `cache` | artifact files that load and verify, models in memory |
| `call`, `score` | what each `promote`, `rollback` or `score` call has read |

A change reads the version, reads the active one, verifies artifacts, passes the gate
and only then takes the row lock, where the active version is compared again. Reading the
active version is two statements without a lock: `ReadPointer` (the policy row) and
`ReadRow` (the version it points to). The session's identity map keeps the rows of the
versions as it first read them, since the caller refers to them, and `held` is the status it
has of the replaced one; the policy row it reads afresh under the lock, as nobody refers to
the first copy by then. `Retired` follows from that: assigning "retired" to a row that is
held as retired writes nothing. The resolver reads the same two statements in one step
(`StartScore`), because it uses nothing of the row that ever changes.

A version that came and went (`1 -> 2 -> 1`) in between is not noticed, and
`ChangesAreJustified` shows that the evidence is still about what is replaced. What does
go wrong is the status of the replaced version, when it was read in the middle of such a
detour: see `policy_production_finding`. `ChangesFormOneChain` says what remains: the
pointer, the history and the status of the active version agree. The audit key of a
promotion is its version, that of a rollback the pair, so a change that repeats an earlier
one leaves no entry of its own: see `policy_audit_finding`. `AuditIsTrue` is about what is
in the trail: only changes that were made, every promoted version and every pair of a
restored and a replaced one.

### PolicyEngine and DeterministicEvidence

Pure operators. Amounts are thousands of rupees, scores percent, ratios fractions, so
nothing is rounded. `SafetyV2` is `infrastructure/policies.yaml`. The rules bounds of
the Pydantic schema are `RulesAssumption`. A set of facts is what the tools find about
an incident; `FactOf` builds it from the transactions of a window the detector had seen
and those that were stored late, by amount, with the band labels that the
segmentation prints and the tools read back. `Consistent` says how the counts of a set of
facts hang together: a segment is part of its window, has at least five transactions
(`transaction_service.py:410`), and what matches it is what it had and what joined it.

### LLMGateway and Investigation

| State | Code |
| --- | --- |
| `breakers`, `others`, `llm` | the circuit breaker of each tier, calls of other investigations in flight there, the health of `llm` in the degradation registry |
| `setting` | what one run of the process finds: facts, key, checkpointer, automatic start, production policy, traffic |
| `auto`, `review` | where the background task and a request of the review service stand |
| `next`, `state` | the checkpoint: the node it runs next and the part of `InvestigationState` later steps read |
| `call`, `draft` | the request the running node has made to `generate`; the synthesis `finalize` holds during its second one |
| `status`, `outputs`, `audit` | `Incident.status`, the degraded `agent_outputs`, gate decisions in the audit trail |
| `completed`, `dropped`, `unrecorded`, `overtaken` | history: a finished persist, a crash under the task, a failure that could not be stored, a review that did not wait for the task |

One incident is followed; other investigations are calls that open and reset the
shared breakers. `Ask`, `NoKey`, `CacheHit`, `Admit`, `Refuse`, `Succeed` and `FailCall`
are `generate`; an answer ends the node and its update is checkpointed, or that write
fails and `ainvoke` raises (`EndNode`). Everything a model writes is free: citations,
verdicts, ranking, confidence. One claim stands for all in the run: claims are treated
one by one, and `HypothesisSet` refuses duplicates; the proofs hold for any set.
Requests before the review cannot repeat (their cache key holds the evidence), so
`cached` remembers `finalize` only. Provenance is kept by stage.

`Shutdown` waits for the tasks there are; one that the consumer still schedules after
that ends as in a `Crash`. What an analyst's request does in detail, with leases and
several workers, is `ReviewDecision`; here it resumes, continues or reconciles. A
behaviour has one durability: a restart that finds the checkpoint store unreachable
falls back to memory, which is the volatile setting from that point on. A schedule by
an operator's script over incidents that exist already is not modelled.

`evaluate` ends with "require_approval" for an action that needs approval even when
`determine_escalation` said "escalate"; the model does the same, and no property calls
the escalation of an approval monotone.

## 3. Runs

| Run | Asks | Instance |
| --- | --- | --- |
| `review` | do row, audit, outbox, checkpoint and incident agree; is what completed executed; does the row implement `DecisionLifecycle`; does every call end, and is an accepted decision completed | 2 workers, 3 tokens, 3 requests of 2 analysts, 2 outcomes, 2 failures, durable and volatile checkpointer, fairness |
| `review_replay_finding` | does repeating a decision always succeed (no) | 1 worker, no failure |
| `outbox` | is every published event in the topic, with its content, in how many copies; who holds a row; does the outbox implement `DurableDelivery`; is every event published | 2 dispatchers, 2 events, 2 contents, batches of 2, 2 failures, the first of them possibly of all tries of a send, fairness |
| `pipeline_safety` | does a commit pass an unhandled message, does one overtake, is an outcome lost, does a reward change | 2 consumers, 2 partitions of 2 and 1 messages, 2 decisions, 3 settings, 2 failures |
| `pipeline_liveness` | is every message handled and every outcome learned from | 2 consumers, 2 topics with a partition of 2 and of 1 messages, 2 decisions, 1 setting, 3 failures, fairness; no restart of a loop that has ended is assumed |
| `pipeline_duplicate_finding` | is a duplicate always a replay (no) | 2 consumers, 1 decision, 1 failure |
| `ingest` | is a transaction counted once and never silently missed, are the answers true, do claims exclude | an API call, a batch and a consumer in two processes, 2 transactions, 1 failure or crash, any losses of claims |
| `detector` | are the windows exact and complete, does the detector alert when the windows ask for it and learn only from quiet, are all scores of one space, does each alert end in its own incident | 3 transactions at any of 13 minutes, windows of 4 every 2, up to 3 lives, one fallback |
| `policy` | do the changes form one chain, are they justified, is the audit trail true, do candidates only observe | 2 administrators, 1 investigation, 4 versions, 3 changes |
| `policy_production_finding` | is only the active version in production (no) | 2 administrators, 3 versions, 3 changes |
| `policy_audit_finding` | has every change an audit entry of its own (no) | 1 administrator, 3 versions, 4 changes |
| `investigation` | is the gate sound, are claims earned, degradation told, nobody forgotten, the breakers bounded | 10 sets of facts, 6 recommended actions, with and without models, policy, durable checkpoints and traffic, up to 3 failures |

`TypeOK` is a theorem of every module with behaviour, so no run spends a property on it.

### Bounds

Every failure bound (`MaxFailures`, `MaxTrouble`) counts failed steps, crashes,
leases that expire under a live owner and, in the pipeline, rebalances nobody
needs. The expiry of a lease whose owner is gone is not counted, nor is anything
that belongs to normal work.

Review: two workers are enough for a takeover and a race on every session; three
tokens let a decision be claimed by one, taken over by the other and claimed
again; two failures let a crash be followed by an overrun lease or a failing
recovery. Three requests hold two analysts who disagree and one who changes her
mind.

Outbox: two dispatchers race for two rows; with batches of two, a lease can run
out on the row that waits while the other is sent. Two contents let an event come to say
something else. Two failures let a lost lease be followed by a crash or a timeout of the
second holder; the first may be an outage that fails all three tries of a send (`Again`),
as otherwise no claim would ever use them up. Attempts are bounded by the failures, copies
by the attempts. All safety properties of both runs are also theorems, without any
bound.

Pipeline: two members and two partitions are what a commit for all partitions, or
a partition that moves while its message is handled, takes. `MaxEnd` bounds the
duplicates the outbox delivers: two messages are two decisions, or one decision
twice. In the liveness run three failures can end both loops, or end one and crash or fail
the other twice. The settings hold a change of weights under the same version and a change of
the version.

Ingest: `MaxTrouble` is 1, because every further failure multiplies a state space that
three calls with free expiries already fill; expiries and evictions are not counted.
One failure is what separates a stored row from the detector, or a claim from its
holder; crashes of both processes in one behaviour are not explored. Two transactions
in event-time order are a batch and a late arrival.

Detector: slides of 2 in windows of 4 put transactions on both ends of overlapping
windows; 13 minutes hold a confirming run, the two quiet windows that close the alert, a
cooldown of 3 and the next alert; a day of 8 minutes lets ids change with the date and
repeat within it; a support of 1 leaves windows without traffic unsupported. `MCSpikeDetector` starts a stream
within two slides, leaves out batches scored in a fallback, which arrive like any
transaction, and allows one reset or restart; a third life is that of a refused batch.
One fallback is enough: a process never changes from one fallback to another.

Policy: version 3 is the built-in policy of version 1 registered again, 2 was measured
against both, 4 fails the gate; three changes return to a version that was left, before or
while another call replaces it. The audit finding takes a fourth, the same rollback again.

Investigation: three failures fall into the task, its handler and a restart; with models
two, with traffic on two tiers one. A threshold of 2 with one call of another
investigation in flight opens a breaker and lets the other call fail after it. The facts
differ from a harmless set where one rule may bite each: value and breadth on either
side of a ceiling, a late transaction in the segment, in the window or in the next band.

Administrators are symmetric in the policy run, consumers and decisions in
`pipeline_safety`. With fairness symmetry is unsound, so the other runs use none; where
tokens, events and contents are interchangeable, the `MC` module takes one of
their orders (`InOrder`), which leaves out only behaviours that differ in names.

### Fairness

Review. `Serve(w)` is weakly fair for every worker: the event loop runs a call
that can go on, and every session or node ends (or fails, which `Fail` does
without any fairness). `LeaseExpires` is weakly fair when nobody works under the
lease: time passes. `AcceptedIsCompleted` also assumes that the analyst repeats the
accepted request while the decision is in flight, strongly fair because a worker
is not always idle: nothing in the code recovers a decision by itself. It is
claimed of a durable checkpoint only; a crash of a process with an in-memory
checkpointer strands the decision. `Answered` needs neither.

Outbox. `Drain(d)` is weakly fair: the run loop of `OutboxDispatcher` polls for
ever and catches what `drain_once` raises. An abandoned lease expires and a backoff
elapses. Nothing is assumed of stray copies or of writers.

Pipeline. A recorded outcome is delivered, which is `EventuallyPublished` of the
outbox. The loops run, and a process that is down is started. The group gives
a partition without a live member to one of those there are: a loop that has ended polls
no more, and aiokafka gives up its membership after `max_poll_interval_ms`. All processes
have one setting: a refused replay is retried for ever in front of its partition, which
is the second disagreement below.

`run` ends its task when the iterator or `seek` raises, and `main.py:284` does not start it
again. Neither does any fairness: a stopped process is replaced only by an unfair `Crash`
within `MaxTrouble`. So all loops may end, and then nothing is handled; `Forsaken` is that
case, and `EventuallyHandled` and `OutcomesAreLearned` except it. Both say: when failures
are finitely many, either every loop has ended for good, or every message of both topics is
handled and every recorded outcome learned from. An operator who restarts processes whose
loop has ended may do so for ever: a restart makes the group rebalance, a
rebalance that takes a partition away while its message is handled ends that
member's loop (`seek` raises, `consumer.py:138`), and its restart is the next one. In that
cycle a message can be handled again and again without a commit, and what follows it in its
partition, a later outcome too, is never handled. Neither property is claimed
under unboundedly many restarts; ruling the cycle out takes an assignor that leaves live
members their partitions, which the code does not configure.

No liveness is claimed of the runs from `ingest` on. Ingestion gives up on the first error by
design and leaves the rest to its caller, so what must eventually happen is up to who
calls again; nothing restarts a lost investigation, which `NobodyIsForgotten` states as a
condition instead; a policy change and a window are done when their call is.

### Deadlock

Checked in the review and outbox runs: a worker can always accept a request, a
dispatcher can always poll. The pipeline runs say `CHECK_DEADLOCK FALSE`: when the
bounds are used up and no message is left, consumers wait for the next. The four runs
from ingest to investigation and the two findings of the policy lifecycle say so too:
their inputs are finite, and when the calls have returned, the changes are used up or the
process is down, nothing is left to do.

### Disagreements found

* `review_replay_finding`: `review_service.py:111` replays the decision event with
  a payload built from the current row. After `record_outcome` the status and the
  outcome are part of that payload, `enqueue_once` finds other content under the
  same id and raises, and the repeated request ends in a 500 although
  `README.md:254` promises idempotent handling.
* `pipeline_duplicate_finding`: the settings take part in the check of a replayed
  reward. A duplicate of a handled outcome that reaches a process with other
  weights or costs under the same version is refused at every retry, in front of
  the rest of its partition (with another version it is rewarded again), although
  `README.md:254` and `README.md:256` promise idempotent, deduplicated handling.
* `policy_production_finding`: an administrator's session reads the pointer to version 1,
  then, after another promotion, the row of version 1 as retired; 1 is rolled back into
  production; now the session replaces it, the check of the expected version passes, and
  the assignment at `repositories.py:908` is no change of the row it holds, so nothing is
  written. Two versions are in production, and the one that is not active can
  neither be promoted nor be rolled back to. `semantic-review/2026-08-23-171700-pr-0.md:68`
  says activation "retires the previous version", and
  `semantic-review/2026-08-23-170553-pr-0.md:34` that the expected id closes "the stale-read
  race".
* `policy_audit_finding`: one administrator promotes 2, rolls back to 1, to 2 and to 1
  again. The last rollback has the key of the first (`policy_service.py:311`), `append_once`
  returns the old entry (`repositories.py:614`), and the change is in no audit entry,
  although `README.md:255` says "Every important decision has an audit trail." The same
  happens to a second promotion of a version by a call that read it as a candidate before
  the first one and was overtaken by a rollback.

Not counted as disagreements, because nothing in the repository says otherwise:

* `_persist` writes the incident status without asking for the decision or the ownership.
  A review worker that outlived its lease puts an incident that its outcome completed
  back to `awaiting_outcome`; a background task that a review overtook puts it back to
  `awaiting_human_review`. `overran` and `overtaken` are the conditions under which
  `CompletedIsExecuted` and `NobodyIsForgotten` are claimed.
* `scripts/reset_demo.py` clears the tables of transactions, incidents and decisions and
  leaves `outbox_events` as they are.
* `CacheService.check_rate_limit` has no caller.

## 4. Proofs

Every safety invariant, action property and refinement that a passing run checks is a theorem:
the run shows it on a small instance, the theorem for every value of the constants.

### Assumptions

Each theorem rests on the named assumptions about the constants of its module and on
nothing else.

| Assumption | Says |
| --- | --- |
| `ReviewDecision!Parameters` | requests are well-formed, `None` is none of the values |
| `Outbox!Parameters` | the batch size is positive, the events are finitely many, `None` and `Gone` are no dispatcher |
| `StreamConsumer!Nobody`, `OutcomePipeline!Topics` | `None` is no consumer and no value of a reward; the outcomes topic is a partition |
| `TransactionIngest!IngestParameters` | transactions are numbered from 1; no batch holds one twice; a call is of one kind; there is a bound on failures |
| `SlidingWindow!WindowParameters` | window and slide are positive, the slide is no longer than the window |
| `SpikeDetector!DetectorParameters`, `NoneIsNoAlert`, `FraudScorer!PrimaryIsNoFallback` | the numbers of confirming and closing windows, the support and the span are positive; the names differ |
| `PolicyLifecycle!PolicyParameters` | versions are finitely many numbers, one of them is registered first; evidence is well-formed; built-in policies need no file |
| `PolicyEngine!RulesAssumption` | limits and action rules are within the ranges the schema validates |
| `LLMGateway!GatewayAssumption` | a positive threshold |
| `Investigation!SettingsAssumption` | settings are well-formed, the facts of each are `Consistent`, `None` is no synthesis |

`NothingPassesUngrounded` and `PassedIsGrounded` also assume a grounding floor above zero,
`GateDecidesOnFacts` that the rules are the shipped ones, whose ceilings `GateIsSound` names.

### Review boundary (`ReviewDecisionProofs`)

For any number of workers, tokens, requests and outcomes:

* `Typing`, `RecordsStayTogether`, `GraphRunsAcceptedReview`, `MemoryStaysUsable`:
  `[]TypeOK`, `[]RecordsAgree`, `[]CheckpointAgrees`, `[]CallsAgree`;
* `LifecycleImplemented`: `Spec => ImplementsLifecycle`;
* `DecisionsStayRecoverable`: `[]AuthorizedIsRecoverable`;
* `CompletionIsExecution`: `[]CompletedIsExecuted`.

The inductive invariant is `IInv`, the conjunction of the first four. None of the first
three is inductive alone: completing a decision writes the event of the row's
content, so typing needs `RecordsAgree` (a claimed row has content); a node writes
the review its run carries, so `CheckpointAgrees` needs what `CallsAgree` says of
running graphs; taking ownership only keeps a terminal row terminal because a worker
at its compare-and-set has seen an in-flight one, which is `CallsAgree` again. Two
lemmas carry most steps: the accepted review never changes (`ReviewKept`) and a
terminal row stays terminal (`TerminalKept`); with them a worker that a step does
not touch keeps its part of `CallsAgree` (`BystanderAgrees`). The refinement maps
each action to `Accept`, `Finish`, `Close` or a stutter under the same invariant.

`Recoverable` adds that only a volatile checkpoint is ever lost and that a decision with an
effect on its way to be recorded has passed the check for a durable one. `InTime` adds, as
long as no live worker outran its lease, that one worker at most holds the claim
(`HeldByOne`), that its graph, the checkpoint and the projected incident move together
(`GraphFollows`), and that a terminal row has both at their end (`Executed`). The delicate
part of `HeldByOne` is a second worker at its compare-and-set: it must not have read the
status that the holder wrote, or it could take the claim from a live lease; that it has not
follows because tokens are fresh and a status with a live lease is not claimed.

### Outbox (`OutboxProofs`)

For any number of dispatchers and events and any batch size: `Typing`,
`DeliveredBeforePublished`, `CopiesSayTheRow`, `ClaimsAreExclusive`, `DeliveryImplemented`
and `CopiesArePaidFor`. The invariant ties a dispatcher's place in `drain_once` to its
batch: the row it works on is in its batch, every row of a batch says what the
committed row says (so a mark is about the message that was sent), and, as long as no
batch was overrun, is claimed by that dispatcher. Without the second part a
`sent` message need not be the row that is marked published.

`CopiesArePaidFor` counts over dispatchers that may hold the same row after a lost
lease. The tries that are still open for a message are a finite set of pairs of a dispatcher
and a number (`Left`), and `BudgetIsKept` says that copies and open tries together stay
within three for each claim. A claim opens three (`TryAtHand`, `ClaimKeepsBudget`), a send
turns one into a copy (`TryKeepsBudget`), everything else only drops some
(`QuietKeepsBudget`).

### Consumer and pipeline (`StreamConsumerProofs`, `OutcomePipelineProofs`)

For any number of members and partitions: `Typing`, `CommitsFollowHandling`,
`HandlingIsOrdered`. A commit writes positions, so the
invariant must say that what lies below a live member's position is handled, except
the message it holds (`FetchedIsHandled`, `InHand`), and that handled messages exist
(`HandledExists`); order follows because a message is taken only at a position.

`PipelineTyping`, `NoOutcomeIsLost`, `RewardsStay`: every step
of the pipeline is a step of `StreamConsumer` or leaves its variables alone, so its
invariant is reused; `HandledIsLearned` (a handled outcome has its memory) and
`RewardIsLearned` (a reward has its memory and event) are added, and with
`CommittedIsHandled` give `CommittedIsLearned`.

### Ingestion (`TransactionIngestProofs`)

For any number of processes, calls and transactions, batches of any length and any lost
claims: `NothingIsCountedTwice`, `NothingStoredIsLost`, `AnswersHold` and
`ClaimsExcludeCalls`. Claims play no part in the first three: what counts a transaction
once is that the creator of its row is the only call past its commit. `CallShape` says
where a call of each kind can stand; `RowsAgree` that, past its commit, the rows a call
found missing are its own, the ones behind it counted once and the ones ahead of it not at
all; `NoRowYet` that an API call before its commit has created nothing. `ClaimsAreKept` and
`ClaimsAreSingle` tie the entries in the local cache and in Redis to the calls that hold
them or to the history of lost ones; an entry does not say whose it is, so exclusion is
about entries that were never lost.

### Windows and detector (`SpikeDetectorProofs`)

For a stream of any length, any window, slide and thresholds and any number of lives:
`EmittedWindowsAreExact`, `EveryBoundaryOnce`, `AlertsFollow`, `BaselineStaysQuiet`,
`ScoresStayComparable`, `NoWindowIsDropped` and `NoAlertIsForgotten`. The first two need
that the next boundary is a multiple of the slide that the stream has not passed and that
every transaction a later window can reach is still held (`RecordsSuffice`), and that
emitted windows lie behind both (`WindowsLieBehind`); `WindowInvariant` proves them of the
aggregator alone. `AlertsFollowTheWindows` speaks of the log of verdicts only; what the
detector decides on are counters. `StreakIsCounted` (a maximal run of suspicious
windows at the end of the log), `ActiveIsOpen` (an alert fired that no quiet run has
closed, and how many quiet windows follow) and `LastCloseIsLast` say what they stand for.
Around the detector, `QueueInOrder` and `AlertIsFirst` place the log, the alert in hand and
the waiting windows one behind the other, and `AlertsAreNumbered` makes a number name one
alert of a life: that is why a row found under the id of an alert belongs to an earlier life.

### Policy life cycle (`PolicyLifecycleProofs`)

For any number of administrators, score calls, versions and changes: `ProductionIsOneChain`,
`JustifiedChanges`, `AuditTrailIsTrue` and `CandidatesDecideNothing`. A change is judged in
its first statements and made in its last; `CallsAreJustified` says what a call has
established by the step it is at, in terms that other calls cannot undo: that its target
was measured against `base`, or was in production at some time. The last step compares
`base` under the row lock. What the session holds of the replaced row is any status, so the
invariant says nothing of it: that the active version is "production" follows because the
target's row is always written. `HistoryIsServed` (what left candidacy was once in
production) and `ScoresAreServed` are the same for a resolver that reads versions while they
change. `OneProduction` is no theorem: it is false.

### Gate and investigation (`InvestigationProofs`)

For any rule file and any facts, `ExecutionIsBounded` goes through the
clauses of `evaluate` (an action with an effect that is not denied passed each of them,
and a rule's own ceiling can only lower the global one); `PassedIsGrounded` composes it
with `build_authorization_context`: the grounding score is 100 or 0, so a floor above zero
means the estimate is about the very segment the detector reported.

For any settings, claims, threshold and number of other calls:
`InvestigationInvariant`, and from it `BreakersBoundTrouble`, `GroundedIsVerified`,
`FallbacksAreTold`, `IncidentsAreSettled`, `NothingPassesUngrounded` and, with the shipped
rules, `GateDecidesOnFacts`. The invariant
`IInv` has two halves. `GatewayInv` says that a closed breaker is below its threshold and
that failures and calls in flight together stay within the bound: a success or failure
takes a call out of flight in the step in which it is counted. `GraphInv` has the types,
`Flow` (who drives the graph and at which nodes; a request belongs to the node that runs),
`StateAgrees` (what the state before each node says of the nodes that ran) and
`RowsAgree` (what the rows say of both). None of the properties is inductive alone: the
gate's decision is about the recommended action only because no later node changes it,
the marks of the synthesis depend on a draft that `finalize` holds between two requests,
and a late `_persist` of the background task is harmless only as long as no review has
passed the interrupt. The proof has one lemma per node and per step of the service; all
nodes share `NodeEnds`, which takes a sound update to `GraphInv'`, and `NodeFails`.

`GateDecidesOnFacts` states when the gate lets an action pass, in both directions:
`ValidBasis` reduces the checks of `build_authorization_context` to "nothing joined the
segment and the window is not empty", which holds for `Consistent` facts only, and
`ShippedGate` goes through `evaluate` with the numbers of `SafetyV2`. `CountsHangTogether`
shows where `Consistent` comes from: the facts that `FactOf` builds have
matching, supporting and joining counts that add up, because a transaction fits a printed
band exactly if its amount lies in it (`LabelIsItsBand`).

### Only model-checked

All liveness properties (`Answered`, `AcceptedIsCompleted`, `EventuallyPublished` and those
of the pipeline), as the prover has no ENABLED. Two parts of `Consistent` are assumed of the
facts and evaluated by TLC on those of the run: that a segment is no larger than its window,
which for `FactOf` needs an induction over its folds, and that it has five transactions,
which the caller of `discover_segments` asks for.

## 5. Plan

Done, in order of importance: the review boundary with the outcome; the outbox with
its abstract delivery; the consumer and the pipeline to the reward; ingestion and its
claims; windows, detector and incidents; the policy life cycle; the policy engine, the
evidence, the gateway and the investigation; proofs of every safety property of all of
them.

What would add most next:

1. Abstract specifications of ingestion (a transaction is accepted once and counted once)
   and of the incident (opened, investigated, decided, closed) with their refinements.
2. The composition of `ReviewDecision` and `Outbox` with `OutcomePipeline` as refinements
   instead of the correspondence described in section 2.
3. A second failure in the ingest run, with fewer calls.
4. The claim of the demo stream, which is not given back when its start fails.

## 6. Not modelled, and why

* The arithmetic of the fraud, anomaly and learning models, the statistics of the detector, drift,
  metrics, reward arithmetic and counterfactuals: numerical code without control state; TLC has no floating point.
* Prompts, parsing and wording of the agents: what an agent says is any value.
* The demo stream: it replays a recorded file into the transactions topic of a local
  environment; the consumer is modelled with any messages.
* Rate limiting, which nothing calls, and the cached copies (incidents, metrics) that no
  decision is based on; the marks of dependencies other than `llm`; the virtual clock.
* HTTP routes, websocket, authentication and configuration: wiring in front of the
  services above.
* Frontend, scripts, offline training and evaluation: not part of the running
  backend's state.
* Table definitions: `app/db/models.py` is not in the repository; the constraints the
  models use (unique keys, checks on statuses) are read from the migrations and appear
  in the actions that meet them.
* The wording of reasons and payloads, lag gauges, log throttling and traces.
