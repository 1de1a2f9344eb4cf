---------------------------- MODULE ReviewDecision ----------------------------
(***************************************************************************)
(* The analyst-review boundary of one incident: ReviewService.decide run   *)
(* by several API processes over one decision row, the durable LangGraph   *)
(* checkpoint it resumes, the incident projection, the audit trail and the *)
(* outbox rows, and FeedbackService.record_outcome.                        *)
(*                                                                         *)
(* A worker is one API process: its per-decision asyncio lock lets it run  *)
(* one decide call at a time.  Every database session and every graph node *)
(* is one step, so what a worker read in one session may be stale in the   *)
(* next.  There is exactly one decision per incident (_decision_id hashes  *)
(* the incident), so one incident is enough.                               *)
(***************************************************************************)
EXTENDS FiniteSets, Naturals

CONSTANTS
    Workers,            \* API processes
    Tokens,             \* resume-ownership tokens (secrets.token_hex plus expiry)
    Requests,           \* decide requests: [actor, decision, modified]
    Actors,             \* analysts
    Actions,            \* allow-listed actions
    Recommended,        \* the action the investigation recommends
    Outcomes,           \* outcome payloads an analyst may report
    None                \* absence of a value

Choices == {"approve", "modify", "reject", "escalate"}

VARIABLES
    status,     \* AnalystDecision.status; the owner's token is kept apart
    owner,      \* token inside a "resuming:<token>:<expiry>" status
    expired,    \* the lease inside that status has run out
    content,    \* the immutable part of the row: who decided what
    outcome,    \* AnalystDecision.outcome
    audit,      \* number of audit events per idempotency key
    decisionEvent, outcomeEvent,  \* outbox rows decision:<id>, outcome:<id>
    incident,   \* Incident.status
    checkpoint, \* the graph's durable checkpoint: [stage, review]
    pc,         \* where each worker stands in _decide_locked
    request,    \* the request it serves
    seen,       \* the row it read last: [status, owner, outcome]
    tries,      \* lost races of its _claim_resume loop
    token,      \* its owner_status
    local,      \* the graph state of its running invocation
    durable,    \* InvestigationService.checkpoint_durable
    overran     \* history: a live worker has held its claim beyond the lease

row == <<status, owner, expired, content, outcome>>
events == <<decisionEvent, outcomeEvent>>
private == <<pc, request, seen, tries, token, local>>
frame == <<request, seen, tries, token, local>>  \* everything of private but pc
vars == <<row, audit, events, incident, checkpoint, private, durable, overran>>

-----------------------------------------------------------------------------
(* Requests, the row they create and the graph they resume *)

Verdicts == {"allow", "require_approval", "deny"}

\* resolve_final_action
ResolveFinalAction(r) ==
    CASE r.decision = "approve"  -> Recommended
      [] r.decision = "modify"   -> r.modified
      [] r.decision = "reject"   -> "no_action"
      [] r.decision = "escalate" -> "human_escalation"

Executing(r) == r.decision \in {"approve", "modify"}

Review == [actor: Actors, decision: Choices, action: Actions, authorized: BOOLEAN]

\* The row _record_decision writes under a policy verdict
ReviewOf(r, verdict) ==
    [actor |-> r.actor, decision |-> r.decision, action |-> ResolveFinalAction(r),
     authorized |-> Executing(r) /\ verdict \in {"allow", "require_approval"}]

SameRequest(c, r) ==
    /\ c.actor = r.actor
    /\ c.decision = r.decision
    /\ c.action = ResolveFinalAction(r)

InFlight(s) == s \in {"resume_pending", "resuming"}
Terminal == {"completed", "outcome_recorded"}

\* Graph stages from the human_review interrupt to the end of the graph
Stages == {"awaiting_human_review", "human_review_recorded",
           "investigation_complete", "awaiting_outcome"}
\* Mutated form: finalize is wired back to the node after the review
NextStageLoops == [s \in Stages |-> "human_review_recorded"]

NextStage == [s \in Stages |->
    CASE s = "awaiting_human_review" -> "human_review_recorded"
      [] s = "human_review_recorded" -> "investigation_complete"
      [] OTHER -> "awaiting_outcome"]
Snapshot == [stage: Stages, review: Review \cup {None}]
Lost == [stage |-> "lost", review |-> None]  \* an in-memory saver after a restart

\* The payload decision_dict builds from a row
EventOf(c, s, o) == [content |-> c, status |-> s, outcome |-> o]
Event == [content: Review, status: Terminal, outcome: Outcomes \cup {None}]

ASSUME Parameters ==
    /\ Requests \subseteq [actor: Actors, decision: Choices, modified: Actions]
    /\ {Recommended, "no_action", "human_escalation"} \subseteq Actions
    /\ None \notin Tokens \cup Outcomes \cup Review \cup Event \cup Requests \cup Snapshot

Steps == {"load", "replay", "check", "record", "claim", "cas", "reload",
          "resume", "continue", "run", "persist", "complete", "release"}
Statuses == {"none", "resume_pending", "resuming"} \cup Terminal
Row == [status: Statuses, owner: Tokens \cup {None}, outcome: Outcomes \cup {None}]
NoRow == [status |-> "none", owner |-> None, outcome |-> None]
CurrentRow == [status |-> status, owner |-> owner, outcome |-> outcome]

ClaimTries == 3  \* attempts of _claim_resume

\* The graph invocation and the sessions that follow it hold the claim
Owning == {"reload", "resume", "continue", "run", "persist", "complete", "release"}

TypeOK ==
    /\ status \in Statuses
    /\ owner \in Tokens \cup {None}
    /\ expired \in BOOLEAN
    /\ content \in Review \cup {None}
    /\ outcome \in Outcomes \cup {None}
    /\ audit \in [{"recorded", "resumed", "outcome"} -> Nat]
    /\ decisionEvent \in Event \cup {None}
    /\ outcomeEvent \in Event \cup {None}
    /\ incident \in Stages \cup {"completed"}
    /\ checkpoint \in Snapshot \cup {Lost}
    /\ pc \in [Workers -> Steps \cup {"idle", "conflict"}]
    /\ request \in [Workers -> Requests \cup {None}]
    /\ seen \in [Workers -> Row]
    /\ tries \in [Workers -> 0..ClaimTries - 1]
    /\ token \in [Workers -> Tokens \cup {None}]
    /\ local \in [Workers -> Snapshot \cup {None}]
    /\ durable \in BOOLEAN /\ overran \in BOOLEAN

Init ==
    /\ status = "none" /\ owner = None /\ expired = FALSE
    /\ content = None /\ outcome = None
    /\ audit = [k \in {"recorded", "resumed", "outcome"} |-> 0]
    /\ decisionEvent = None /\ outcomeEvent = None
    /\ incident = "awaiting_human_review"
    /\ checkpoint = [stage |-> "awaiting_human_review", review |-> None]
    /\ pc = [w \in Workers |-> "idle"]
    /\ request = [w \in Workers |-> None]
    /\ seen = [w \in Workers |-> NoRow]
    /\ tries = [w \in Workers |-> 0]
    /\ token = [w \in Workers |-> None]
    /\ local = [w \in Workers |-> None]
    /\ durable \in BOOLEAN /\ overran = FALSE

-----------------------------------------------------------------------------
(* Control of one decide call *)

Goto(w, step) == pc' = [pc EXCEPT ![w] = step]

\* The call returns or raises with no claim held: the lock and the frame go
Finish(w) ==
    /\ Goto(w, "idle")
    /\ request' = [request EXCEPT ![w] = None]
    /\ seen' = [seen EXCEPT ![w] = NoRow]
    /\ tries' = [tries EXCEPT ![w] = 0]
    /\ token' = [token EXCEPT ![w] = None]
    /\ local' = [local EXCEPT ![w] = None]

Submit(w, r) ==
    /\ pc[w] = "idle"
    /\ Goto(w, "load")
    /\ request' = [request EXCEPT ![w] = r]
    /\ UNCHANGED <<row, audit, events, incident, checkpoint, seen, tries, token, local,
                   durable, overran>>

\* Reads the decision; a terminal one is answered without the graph
Load(w) ==
    /\ pc[w] = "load"
    /\ IF status \in Terminal
       THEN IF SameRequest(content, request[w])
            THEN /\ Goto(w, "replay")
                 /\ seen' = [seen EXCEPT ![w] = CurrentRow]
                 /\ UNCHANGED <<request, tries, token, local>>
            ELSE Finish(w)
       ELSE /\ Goto(w, "check")
            /\ seen' = [seen EXCEPT ![w] = CurrentRow]
            /\ UNCHANGED <<request, tries, token, local>>
    /\ UNCHANGED <<row, audit, events, incident, checkpoint, durable, overran>>

\* _ensure_decision_outbox with the row read in the earlier session; a stored
\* event of different content makes enqueue_once raise
ReplayTerminal(w) ==
    LET payload == EventOf(content, seen[w].status, seen[w].outcome) IN
    /\ pc[w] = "replay"
    /\ decisionEvent' = IF decisionEvent = None THEN payload ELSE decisionEvent
    /\ IF decisionEvent \in {None, payload}
       THEN Finish(w)
       ELSE /\ Goto(w, "conflict")
            /\ UNCHANGED frame
    /\ UNCHANGED <<row, audit, outcomeEvent, incident, checkpoint, durable, overran>>

\* The ValueError surfaces as an HTTP 500
ReplayRaises(w) ==
    /\ pc[w] = "conflict"
    /\ Finish(w)
    /\ UNCHANGED <<row, audit, events, incident, checkpoint, durable, overran>>

\* Mutated form: the durability of the checkpoint is not asked for
MayRecordAnyway(w) == checkpoint.stage = "awaiting_human_review" /\ pc[w] = "check"

\* _review_state, then the durability check or the same-request check
MayRecord(w) ==
    /\ checkpoint.stage = "awaiting_human_review"
    /\ Executing(request[w]) => durable
MayRecover(w) ==
    /\ checkpoint # Lost
    /\ SameRequest(content, request[w])

Check(w) ==
    /\ pc[w] = "check"
    /\ IF seen[w].status = "none"
       THEN IF MayRecord(w)
            THEN Goto(w, "record") /\ UNCHANGED frame
            ELSE Finish(w)
       ELSE IF MayRecover(w)
            THEN Goto(w, "claim") /\ UNCHANGED frame
            ELSE Finish(w)
    /\ UNCHANGED <<row, audit, events, incident, checkpoint, durable, overran>>

\* Mutated form: trusts the row read before the checkpoint was checked
RowAbsentWhenRead(w) == seen[w].status = "none"

\* record_analyst_feedback inserts once, whatever this worker read before
RowAbsent(w) == status = "none"

\* _record_decision: the policy verdict, the insert-once and its audit entry.
\* The verdict is any: rules and roles may differ between two processes.
Denied(r, verdict) == Executing(r) /\ verdict = "deny"

RecordUnder(w, verdict) ==
    /\ pc[w] = "record"
    /\ IF Denied(request[w], verdict)
       THEN Finish(w) /\ UNCHANGED <<status, content, audit>>
       ELSE IF RowAbsent(w)
       THEN /\ status' = "resume_pending"
            /\ content' = ReviewOf(request[w], verdict)
            /\ audit' = [audit EXCEPT !["recorded"] = @ + 1]
            /\ Goto(w, "claim")
            /\ UNCHANGED frame
       ELSE /\ IF SameRequest(content, request[w])
               THEN Goto(w, "claim") /\ UNCHANGED frame
               ELSE Finish(w)
            /\ UNCHANGED <<status, content, audit>>
    /\ UNCHANGED <<owner, expired, outcome, events, incident, checkpoint,
                   durable, overran>>

Record(w) == \E verdict \in Verdicts : RecordUnder(w, verdict)

-----------------------------------------------------------------------------
(* Ownership of the resume *)

\* Mutated forms: any in-flight decision may be claimed; any without a running
\* lease, finished ones too; an expired lease never
ClaimableAnyTime == InFlight(status)
ClaimableWhenIdle == status # "resuming" \/ expired
ClaimableOnlyPending == status = "resume_pending"

\* A claim is refused while another owner's lease runs
Claimable == status = "resume_pending" \/ (status = "resuming" /\ expired)

\* _claim_resume, first half: read the row
ReadClaim(w) ==
    /\ pc[w] = "claim"
    /\ IF Claimable /\ SameRequest(content, request[w])
       THEN /\ Goto(w, "cas")
            /\ seen' = [seen EXCEPT ![w] = CurrentRow]
            /\ UNCHANGED <<request, tries, token, local>>
       ELSE Finish(w)
    /\ UNCHANGED <<row, audit, events, incident, checkpoint, durable, overran>>

\* Second half: compare_and_set_status on the status string that was read.
\* A lost race goes back to the read until its tries are spent.
Unchanged(w) == status = seen[w].status /\ owner = seen[w].owner

TriesLeft(w) == tries[w] + 1 < ClaimTries
Fresh == Tokens \ ({owner} \cup {token[v] : v \in Workers}
                           \cup {seen[v].owner : v \in Workers})

TakeOwnership(w, t) ==
    /\ pc[w] = "cas" /\ Unchanged(w)
    /\ status' = "resuming" /\ owner' = t /\ expired' = FALSE
    /\ token' = [token EXCEPT ![w] = t]
    /\ seen' = [seen EXCEPT ![w] = NoRow]
    /\ Goto(w, "reload")
    /\ UNCHANGED <<content, outcome, audit, events, incident, checkpoint,
                   request, tries, local, durable, overran>>

LoseRace(w) ==
    /\ pc[w] = "cas" /\ ~Unchanged(w)
    /\ IF TriesLeft(w)
       THEN /\ Goto(w, "claim")
            /\ tries' = [tries EXCEPT ![w] = @ + 1]
            /\ UNCHANGED <<request, seen, token, local>>
       ELSE Finish(w)
    /\ UNCHANGED <<row, audit, events, incident, checkpoint, durable, overran>>

CasClaim(w) == (\E t \in Fresh : TakeOwnership(w, t)) \/ LoseRace(w)

\* The 900 seconds of _RESUME_LEASE_SECONDS pass
Holds(w) == pc[w] \in Owning /\ token[w] = owner
LeaseExpires ==
    /\ status = "resuming" /\ ~expired
    /\ overran' = (overran \/ \E w \in Workers : Holds(w))
    /\ expired' = TRUE
    /\ UNCHANGED <<status, owner, content, outcome, audit, events, incident,
                   checkpoint, private, durable>>

\* Mutated form: completion checks only that the row was claimed
OwnedByAnyone(w) == status \in {"resuming", "completed"}

\* compare_and_set_status(decision, owner_status, s)
Owned(w) == status = "resuming" /\ owner = token[w]

\* _release_claim, shielded, after any exception of the claimed part
Release(w) ==
    /\ pc[w] = "release"
    /\ IF Owned(w)
       THEN status' = "resume_pending" /\ owner' = None /\ expired' = FALSE
       ELSE UNCHANGED <<status, owner, expired>>
    /\ Finish(w)
    /\ UNCHANGED <<content, outcome, audit, events, incident, checkpoint,
                   durable, overran>>

-----------------------------------------------------------------------------
(* The claimed part: resume the graph, project its state, complete the row *)

\* Re-reads the checkpoint and picks resume, reconcile or continue
Reload(w) ==
    /\ pc[w] = "reload"
    /\ CASE checkpoint = Lost -> Goto(w, "release") /\ UNCHANGED local
         [] checkpoint.stage = "awaiting_human_review" ->
                Goto(w, "resume") /\ UNCHANGED local
         [] OTHER ->
                IF checkpoint.review # content
                THEN Goto(w, "release") /\ UNCHANGED local
                ELSE IF checkpoint.stage = "awaiting_outcome"
                THEN Goto(w, "persist") /\ local' = [local EXCEPT ![w] = checkpoint]
                ELSE Goto(w, "continue") /\ UNCHANGED local
    /\ UNCHANGED <<row, audit, events, incident, checkpoint, request, seen, tries, token,
                   durable, overran>>

\* graph.ainvoke loads the checkpoint again.  Command(resume=review) answers
\* the pending interrupt; past it, the graph goes on from the checkpoint.
Invoke(w) ==
    /\ pc[w] \in {"resume", "continue"}
    /\ IF checkpoint = Lost
       THEN Goto(w, "release") /\ UNCHANGED local
       ELSE /\ local' = [local EXCEPT ![w] =
                    IF pc[w] = "resume" /\ checkpoint.stage = "awaiting_human_review"
                    THEN [checkpoint EXCEPT !.review = content] ELSE checkpoint]
            /\ Goto(w, "run")
    /\ UNCHANGED <<row, audit, events, incident, checkpoint, request, seen, tries, token,
                   durable, overran>>

\* human_review, finalize and capture_outcome, each followed by a checkpoint
RunNode(w) ==
    /\ pc[w] = "run"
    /\ IF local[w].stage = "awaiting_outcome"
       THEN Goto(w, "persist") /\ UNCHANGED <<local, checkpoint>>
       ELSE /\ local' = [local EXCEPT ![w].stage = NextStage[@]]
            /\ checkpoint' = local'[w]
            /\ UNCHANGED pc
    /\ UNCHANGED <<row, audit, events, incident, request, seen, tries, token,
                   durable, overran>>

\* InvestigationService._persist: one transaction, the status overwritten
Persist(w) ==
    /\ pc[w] = "persist"
    /\ incident' = local[w].stage
    /\ Goto(w, "complete")
    /\ UNCHANGED <<row, audit, events, checkpoint, frame, durable, overran>>

\* _complete_resume: status, audit and outbox row in one transaction
Complete(w) ==
    /\ pc[w] = "complete"
    /\ IF Owned(w)
       THEN /\ status' = "completed" /\ owner' = None /\ expired' = FALSE
            /\ audit' = [audit EXCEPT !["resumed"] = @ + 1]
            /\ decisionEvent' = IF decisionEvent = None
                                THEN EventOf(content, "completed", None)
                                ELSE decisionEvent
            /\ Finish(w)
       ELSE /\ Goto(w, "release")
            /\ UNCHANGED <<status, owner, expired, audit, decisionEvent,
                           frame>>
    /\ UNCHANGED <<content, outcome, outcomeEvent, incident, checkpoint,
                   durable, overran>>

\* A node, a session or the websocket publisher of _persist raises; outside the
\* claimed part, and in the release itself, the call just ends
Fail(w) ==
    /\ pc[w] \notin {"idle", "conflict"}
    /\ IF pc[w] \in Owning \ {"release"}
       THEN Goto(w, "release") /\ UNCHANGED frame
       ELSE Finish(w)
    /\ UNCHANGED <<row, audit, events, incident, checkpoint, durable, overran>>

\* The process dies: nothing is released, an in-memory checkpoint is gone
Crash(w) ==
    /\ pc[w] # "idle"
    /\ Finish(w)
    /\ checkpoint' = IF durable THEN checkpoint ELSE Lost
    /\ UNCHANGED <<row, audit, events, incident, durable, overran>>

-----------------------------------------------------------------------------
(* FeedbackService.record_outcome: one transaction *)

\* Mutated form: an outcome may precede the completion
OutcomeOpenEarly == InFlight(status) \/ status = "completed"

\* The compare-and-set of compare_and_set_outcome
OutcomeOpen == status = "completed" /\ outcome = None

RecordOutcome(o) ==
    /\ OutcomeOpen
    /\ status' = "outcome_recorded" /\ outcome' = o
    /\ incident' = "completed"
    /\ audit' = [audit EXCEPT !["outcome"] = @ + 1]
    /\ outcomeEvent' = EventOf(content, "outcome_recorded", o)
    /\ UNCHANGED <<owner, expired, content, decisionEvent, checkpoint, private,
                   durable, overran>>

Serve(w) ==
    \/ Load(w) \/ ReplayTerminal(w) \/ ReplayRaises(w) \/ Check(w) \/ Record(w)
    \/ ReadClaim(w) \/ CasClaim(w) \/ Release(w) \/ Reload(w) \/ Invoke(w)
    \/ RunNode(w) \/ Persist(w) \/ Complete(w)

Next ==
    \/ \E w \in Workers :
        \/ \E r \in Requests : Submit(w, r)
        \/ Serve(w) \/ Fail(w) \/ Crash(w)
    \/ LeaseExpires
    \/ \E o \in Outcomes : RecordOutcome(o)

Spec == Init /\ [][Next]_vars

-----------------------------------------------------------------------------
(* Properties *)

\* The row, its audit trail and its outbox rows never come apart, whichever
\* worker crashes, loses its lease or retries: a decision is audited once, it
\* has a decision event exactly when it is completed and an outcome event
\* exactly when its outcome is recorded, and both events carry the decision
\* that was accepted.
RecordsAgree ==
    /\ (content = None) = (status = "none")
    /\ audit["recorded"] = IF status = "none" THEN 0 ELSE 1
    /\ audit["resumed"] = IF status \in Terminal THEN 1 ELSE 0
    /\ audit["outcome"] = IF status = "outcome_recorded" THEN 1 ELSE 0
    /\ decisionEvent = IF status \in Terminal
                       THEN EventOf(content, "completed", None) ELSE None
    /\ outcomeEvent = IF status = "outcome_recorded"
                      THEN EventOf(content, "outcome_recorded", outcome) ELSE None

\* The graph is never resumed with a review other than the one recorded in the
\* decision row, although several workers record, claim and resume at once.
CheckpointAgrees == checkpoint.review # None => checkpoint.review = content

\* What a worker remembers across its sessions stays true of the row: a replay
\* answers a terminal decision, a claim is only tried on an in-flight one, and a
\* running graph carries the accepted review.
CallAgrees(w) ==
    /\ (request[w] = None) = (pc[w] = "idle")
    /\ pc[w] = "replay" => status \in Terminal /\ seen[w].status \in Terminal
    /\ pc[w] = "check" /\ seen[w].status # "none" => content # None
    /\ pc[w] \in {"claim", "cas"} \cup Owning => content # None
    /\ pc[w] = "cas" => InFlight(seen[w].status)
    /\ pc[w] \in {"run", "persist"} =>
           local[w] # None /\ local[w].review \in {None, content}
CallsAgree == \A w \in Workers : CallAgrees(w)

\* As long as no live worker outran its lease, a completed decision on a durable
\* checkpoint has a graph at its end and an incident projected to match, also after
\* crashes and takeovers; and an incident whose outcome is recorded stays completed.
\* With an overrun lease the projection of a slow worker undoes the completed status
\* (investigation_service.py:273).
CompletedIsExecuted ==
    ~overran =>
        /\ status \in Terminal /\ durable =>
            /\ checkpoint.stage = "awaiting_outcome"
            /\ incident = IF status = "completed" THEN "awaiting_outcome" ELSE "completed"
        /\ status = "outcome_recorded" => incident = "completed"

\* A decision that executes an action is only accepted on a checkpoint that no
\* restart can lose.
AuthorizedIsRecoverable ==
    content # None /\ Executing(content) => checkpoint # Lost

\* Repeating a decision that is already terminal never fails on its event.
TerminalReplaySucceeds == \A w \in Workers : pc[w] # "conflict"

\* The row implements the life of a decision: every step of the workers is a
\* step of DecisionLifecycle or leaves the decision alone.
Announced ==
    (IF decisionEvent = None THEN {} ELSE {<<"decision", decisionEvent.content>>})
    \cup (IF outcomeEvent = None THEN {}
          ELSE {<<"outcome", outcomeEvent.content, outcomeEvent.outcome>>})
Lifecycle == INSTANCE DecisionLifecycle WITH
    Reviews <- Review,
    review <- content,
    announced <- Announced,
    phase <- CASE status = "none" -> "open"
               [] InFlight(status) -> "accepted"
               [] status = "completed" -> "completed"
               [] status = "outcome_recorded" -> "closed"
ImplementsLifecycle == Lifecycle!Spec

\* Every decide call ends: no worker waits for another one or retries forever.
Answered == \A w \in Workers : pc[w] # "idle" ~> pc[w] = "idle"
===============================================================================
