------------------------ MODULE ReviewDecisionProofs ------------------------
(***************************************************************************)
(* Theorems about ReviewDecision for any number of workers, tokens,        *)
(* requests and outcomes: typing, the agreement of row, audit trail,       *)
(* outbox and checkpoint, the refinement of DecisionLifecycle, the         *)
(* recoverability of what is accepted, and completion only of what has run.*)
(***************************************************************************)
EXTENDS ReviewDecision, TLAPS

IInv == TypeOK /\ RecordsAgree /\ CheckpointAgrees /\ CallsAgree

\* A row built from a request is a review, never the absent value.
LEMMA ReviewTyped ==
    ASSUME NEW r \in Requests, NEW v
    PROVE  ReviewOf(r, v) \in Review /\ ReviewOf(r, v) # None
  <1>1. r \in [actor : Actors, decision : Choices, modified : Actions]
    BY Parameters
  <1>2. ResolveFinalAction(r) \in Actions
    BY <1>1, Parameters DEF ResolveFinalAction, Choices
  <1>3. ReviewOf(r, v) \in Review
    BY <1>1, <1>2 DEF ReviewOf, Review, Executing
  <1> QED BY <1>3, Parameters

LEMMA TypeInit == Init => TypeOK
  <1> SUFFICES ASSUME Init PROVE TypeOK
    OBVIOUS
  <1> USE DEF Init
  <1>1. NoRow \in Row
    BY DEF NoRow, Row, Statuses
  <1>2. seen \in [Workers -> Row]
    BY <1>1
  <1>3. checkpoint \in Snapshot \cup {Lost}
    BY DEF Snapshot, Stages
  <1>4. tries \in [Workers -> 0..ClaimTries - 1]
    BY DEF ClaimTries
  <1>5. audit \in [{"recorded", "resumed", "outcome"} -> Nat]
    OBVIOUS
  <1>6. pc \in [Workers -> Steps \cup {"idle", "conflict"}]
    OBVIOUS
  <1>7. status \in Statuses /\ incident \in Stages \cup {"completed"}
    BY DEF Statuses, Stages
  <1> QED
    BY <1>2, <1>3, <1>4, <1>5, <1>6, <1>7 DEF TypeOK

LEMMA TypeFinish ==
    ASSUME TypeOK, NEW w \in Workers, Finish(w)
    PROVE  /\ pc' \in [Workers -> Steps \cup {"idle", "conflict"}]
           /\ request' \in [Workers -> Requests \cup {None}]
           /\ seen' \in [Workers -> Row]
           /\ tries' \in [Workers -> 0..ClaimTries - 1]
           /\ token' \in [Workers -> Tokens \cup {None}]
           /\ local' \in [Workers -> Snapshot \cup {None}]
  BY DEF TypeOK, Finish, Goto, NoRow, Row, Statuses, ClaimTries

\* What CurrentRow reads is a row.
LEMMA CurrentRowTyped == TypeOK => CurrentRow \in Row
  BY DEF TypeOK, CurrentRow, Row

\* Every step keeps every variable in its type.
LEMMA TypeStep == IInv /\ [Next]_vars => TypeOK'
  <1> SUFFICES ASSUME IInv, [Next]_vars PROVE TypeOK'
    OBVIOUS
  <1> USE DEF row, events, private, frame
  <1>0. TypeOK /\ RecordsAgree /\ CallsAgree
    BY DEF IInv
  <1>1. ASSUME NEW w \in Workers, NEW r \in Requests, Submit(w, r) PROVE TypeOK'
    BY <1>0, <1>1 DEF Submit, Goto, TypeOK, Steps
  <1>2. ASSUME NEW w \in Workers, Load(w) PROVE TypeOK'
    BY <1>0, <1>2, TypeFinish, CurrentRowTyped DEF Load, Goto, TypeOK, Steps
  <1>3. ASSUME NEW w \in Workers, ReplayTerminal(w) PROVE TypeOK'
    <2>1. content \in Review /\ seen[w] \in Row /\ seen[w].status \in Terminal
      BY <1>0, <1>3 DEF ReplayTerminal, TypeOK, CallsAgree, CallAgrees, RecordsAgree, Terminal
    <2>2. EventOf(content, seen[w].status, seen[w].outcome) \in Event
      BY <2>1 DEF EventOf, Event, Row
    <2>3. decisionEvent' \in Event \cup {None}
      BY <1>0, <1>3, <2>2 DEF ReplayTerminal, TypeOK
    <2> QED
      BY <1>0, <1>3, <2>3, TypeFinish DEF ReplayTerminal, Goto, TypeOK
  <1>4. ASSUME NEW w \in Workers, ReplayRaises(w) PROVE TypeOK'
    BY <1>0, <1>4, TypeFinish DEF ReplayRaises, TypeOK
  <1>5. ASSUME NEW w \in Workers, Check(w) PROVE TypeOK'
    BY <1>0, <1>5, TypeFinish DEF Check, Goto, TypeOK, Steps
  <1>6. ASSUME NEW w \in Workers, Record(w) PROVE TypeOK'
    <2> SUFFICES ASSUME NEW v \in Verdicts, RecordUnder(w, v) PROVE TypeOK'
      BY <1>0, <1>6 DEF Record
    <2>1. request[w] \in Requests
      BY <1>0 DEF RecordUnder, TypeOK, CallsAgree, CallAgrees
    <2>2. CASE Denied(request[w], v)
      BY <1>0, <2>2, TypeFinish DEF RecordUnder, TypeOK
    <2>3. CASE ~Denied(request[w], v) /\ RowAbsent(w)
      BY <1>0, <2>1, <2>3, ReviewTyped DEF RecordUnder, Goto, TypeOK, Steps, Statuses
    <2>4. CASE ~Denied(request[w], v) /\ ~RowAbsent(w)
      BY <1>0, <2>4, TypeFinish DEF RecordUnder, Goto, TypeOK, Steps
    <2> QED
      BY <2>2, <2>3, <2>4
  <1>7. ASSUME NEW w \in Workers, ReadClaim(w) PROVE TypeOK'
    BY <1>0, <1>7, TypeFinish, CurrentRowTyped DEF ReadClaim, Goto, TypeOK, Steps
  <1>8. ASSUME NEW w \in Workers, CasClaim(w) PROVE TypeOK'
    <2>1. ASSUME NEW t \in Fresh, TakeOwnership(w, t) PROVE TypeOK'
      <3>1. t \in Tokens
        BY DEF Fresh
      <3>2. NoRow \in Row
        BY DEF NoRow, Row, Statuses
      <3> QED
        BY <1>0, <2>1, <3>1, <3>2 DEF TakeOwnership, Goto, TypeOK, Steps, Statuses
    <2>2. CASE LoseRace(w)
      <3>1. CASE TriesLeft(w)
        BY <1>0, <2>2, <3>1 DEF LoseRace, Goto, TypeOK, Steps, TriesLeft, ClaimTries
      <3>2. CASE ~TriesLeft(w)
        BY <1>0, <2>2, <3>2, TypeFinish DEF LoseRace, TypeOK
      <3> QED
        BY <3>1, <3>2
    <2> QED
      BY <1>8, <2>1, <2>2 DEF CasClaim
  <1>9. ASSUME NEW w \in Workers, Release(w) PROVE TypeOK'
    BY <1>0, <1>9, TypeFinish DEF Release, TypeOK, Statuses
  <1>10. ASSUME NEW w \in Workers, Reload(w) PROVE TypeOK'
    BY <1>0, <1>10 DEF Reload, Goto, TypeOK, Steps
  <1>11. ASSUME NEW w \in Workers, Invoke(w) PROVE TypeOK'
    BY <1>0, <1>11 DEF Invoke, Goto, TypeOK, Steps, Snapshot
  <1>12. ASSUME NEW w \in Workers, RunNode(w) PROVE TypeOK'
    <2>1. local[w] \in Snapshot
      BY <1>0, <1>12 DEF RunNode, CallsAgree, CallAgrees, TypeOK
    <2>2. [local[w] EXCEPT !.stage = NextStage[local[w].stage]] \in Snapshot
      BY <2>1 DEF Snapshot, NextStage, Stages
    <2> QED
      BY <1>0, <1>12, <2>1, <2>2 DEF RunNode, Goto, TypeOK, Steps
  <1>13. ASSUME NEW w \in Workers, Persist(w) PROVE TypeOK'
    <2>1. local[w] \in Snapshot
      BY <1>0, <1>13 DEF Persist, CallsAgree, CallAgrees, TypeOK
    <2> QED
      BY <1>0, <1>13, <2>1 DEF Persist, Goto, TypeOK, Steps, Snapshot
  <1>14. ASSUME NEW w \in Workers, Complete(w) PROVE TypeOK'
    <2>1. CASE Owned(w)
      <3>1. content \in Review
        BY <1>0, <2>1 DEF Owned, TypeOK, RecordsAgree
      <3>2. EventOf(content, "completed", None) \in Event
        BY <3>1 DEF EventOf, Event, Terminal
      <3>3. Finish(w) /\ status' \in Statuses
        BY <1>14, <2>1 DEF Complete, Statuses, Terminal
      <3>4. audit' \in [{"recorded", "resumed", "outcome"} -> Nat]
        BY <1>0, <1>14, <2>1 DEF Complete, TypeOK
      <3>5. decisionEvent' \in Event \cup {None}
        BY <1>0, <1>14, <2>1, <3>2 DEF Complete, TypeOK
      <3> QED
        BY <1>0, <1>14, <2>1, <3>3, <3>4, <3>5, TypeFinish DEF Complete, TypeOK
    <2>2. CASE ~Owned(w)
      BY <1>0, <1>14, <2>2 DEF Complete, Goto, TypeOK, Steps
    <2> QED
      BY <2>1, <2>2
  <1>15. ASSUME NEW w \in Workers, Fail(w) PROVE TypeOK'
    BY <1>0, <1>15, TypeFinish DEF Fail, Goto, TypeOK, Steps
  <1>16. ASSUME NEW w \in Workers, Crash(w) PROVE TypeOK'
    BY <1>0, <1>16, TypeFinish DEF Crash, TypeOK
  <1>17. CASE LeaseExpires
    BY <1>0, <1>17 DEF LeaseExpires, TypeOK
  <1>18. ASSUME NEW o \in Outcomes, RecordOutcome(o) PROVE TypeOK'
    <2>1. content \in Review
      BY <1>0, <1>18 DEF RecordOutcome, OutcomeOpen, TypeOK, RecordsAgree
    <2>2. EventOf(content, "outcome_recorded", o) \in Event
      BY <2>1 DEF EventOf, Event, Terminal
    <2> QED
      BY <1>0, <1>18, <2>2 DEF RecordOutcome, TypeOK, Statuses, Terminal
  <1>19. CASE UNCHANGED vars
    BY <1>0, <1>19 DEF vars, TypeOK
  <1> QED
    BY <1>1, <1>2, <1>3, <1>4, <1>5, <1>6, <1>7, <1>8, <1>9, <1>10, <1>11, <1>12,
       <1>13, <1>14, <1>15, <1>16, <1>17, <1>18, <1>19 DEF Next, Serve

LEMMA InvInit == Init => IInv
  <1> SUFFICES ASSUME Init PROVE IInv
    OBVIOUS
  <1>1. TypeOK
    BY TypeInit
  <1>2. RecordsAgree
    BY DEF Init, RecordsAgree, Terminal
  <1>3. CheckpointAgrees /\ CallsAgree
    BY DEF Init, CheckpointAgrees, CallsAgree, CallAgrees, Owning
  <1> QED
    BY <1>1, <1>2, <1>3 DEF IInv

\* The row, its audit trail and its events change together, or not at all.
LEMMA RecordsStep == IInv /\ [Next]_vars => RecordsAgree'
  <1> SUFFICES ASSUME IInv, [Next]_vars PROVE RecordsAgree'
    OBVIOUS
  <1> USE DEF row, events, private, frame
  <1>0. TypeOK /\ RecordsAgree /\ CallsAgree
    BY DEF IInv
  <1>1. CASE UNCHANGED <<row, audit, events>>
    BY <1>0, <1>1 DEF RecordsAgree
  <1>2. ASSUME NEW w \in Workers, ReplayTerminal(w) PROVE RecordsAgree'
    <2>1. status \in Terminal /\ content \in Review
      BY <1>0, <1>2 DEF ReplayTerminal, CallsAgree, CallAgrees, RecordsAgree, TypeOK, Terminal
    <2>2. EventOf(content, "completed", None) \in Event
      BY <2>1 DEF EventOf, Event, Terminal
    <2>3. decisionEvent # None
      BY <1>0, <2>1, <2>2, Parameters DEF RecordsAgree
    <2> QED
      BY <1>0, <1>2, <2>1, <2>3 DEF ReplayTerminal, RecordsAgree
  <1>3. ASSUME NEW w \in Workers, Record(w) PROVE RecordsAgree'
    <2> SUFFICES ASSUME NEW v \in Verdicts, RecordUnder(w, v) PROVE RecordsAgree'
      BY <1>3 DEF Record
    <2>1. request[w] \in Requests
      BY <1>0 DEF RecordUnder, TypeOK, CallsAgree, CallAgrees
    <2>2. CASE UNCHANGED <<status, content, audit>>
      BY <1>0, <2>2 DEF RecordUnder, RecordsAgree
    <2>3. CASE ~Denied(request[w], v) /\ RowAbsent(w)
      BY <1>0, <2>1, <2>3, ReviewTyped DEF RecordUnder, RowAbsent, RecordsAgree, TypeOK, Terminal
    <2> QED
      BY <2>2, <2>3 DEF RecordUnder
  <1>4. ASSUME NEW w \in Workers, CasClaim(w) PROVE RecordsAgree'
    <2>1. ASSUME NEW t \in Fresh, TakeOwnership(w, t) PROVE RecordsAgree'
      BY <1>0, <2>1 DEF TakeOwnership, Unchanged, RecordsAgree, CallsAgree, CallAgrees, InFlight, Terminal
    <2>2. CASE LoseRace(w)
      BY <1>0, <2>2 DEF LoseRace, RecordsAgree
    <2> QED
      BY <1>4, <2>1, <2>2 DEF CasClaim
  <1>5. ASSUME NEW w \in Workers, Release(w) PROVE RecordsAgree'
    BY <1>0, <1>5 DEF Release, Owned, RecordsAgree, Terminal
  <1>6. ASSUME NEW w \in Workers, Complete(w) PROVE RecordsAgree'
    BY <1>0, <1>6 DEF Complete, Owned, RecordsAgree, TypeOK, Terminal
  <1>7. CASE LeaseExpires
    BY <1>0, <1>7 DEF LeaseExpires, RecordsAgree
  <1>8. ASSUME NEW o \in Outcomes, RecordOutcome(o) PROVE RecordsAgree'
    BY <1>0, <1>8 DEF RecordOutcome, OutcomeOpen, RecordsAgree, TypeOK, Terminal
  <1>9. ASSUME NEW w \in Workers,
               \/ \E r \in Requests : Submit(w, r)
               \/ Load(w) \/ ReplayRaises(w) \/ Check(w) \/ ReadClaim(w) \/ Reload(w)
               \/ Invoke(w) \/ RunNode(w) \/ Persist(w) \/ Fail(w) \/ Crash(w)
        PROVE  UNCHANGED <<row, audit, events>>
    BY <1>9 DEF Submit, Load, ReplayRaises, Check, ReadClaim, Reload, Invoke, RunNode,
                Persist, Fail, Crash
  <1>10. CASE UNCHANGED vars
    BY <1>1, <1>10 DEF vars
  <1> QED
    BY <1>1, <1>2, <1>3, <1>4, <1>5, <1>6, <1>7, <1>8, <1>9, <1>10 DEF Next, Serve

\* A graph is only ever given the accepted review, which never changes.
LEMMA ReviewKept ==
    ASSUME IInv, [Next]_vars, content # None
    PROVE  content' = content
  <1> USE DEF row, events, private, frame
  <1>1. ASSUME NEW w \in Workers, Record(w) PROVE content' = content
    BY <1>1 DEF Record, RecordUnder, RowAbsent, IInv, RecordsAgree
  <1> QED
    BY <1>1 DEF Next, Serve, Submit, Load, ReplayTerminal, ReplayRaises, Check, ReadClaim,
        CasClaim, TakeOwnership, LoseRace, Release, Reload, Invoke, RunNode, Persist,
        Complete, Fail, Crash, LeaseExpires, RecordOutcome, vars

LEMMA CheckpointStep == IInv /\ [Next]_vars => CheckpointAgrees'
  <1> SUFFICES ASSUME IInv, [Next]_vars PROVE CheckpointAgrees'
    OBVIOUS
  <1> USE DEF row, events, private, frame
  <1>0. TypeOK /\ RecordsAgree /\ CheckpointAgrees /\ CallsAgree
    BY DEF IInv
  <1>1. CASE UNCHANGED checkpoint
    <2>1. checkpoint.review # None => content # None
      BY <1>0 DEF CheckpointAgrees
    <2> QED
      BY <1>0, <1>1, <2>1, ReviewKept DEF CheckpointAgrees
  <1>2. ASSUME NEW w \in Workers, RunNode(w) PROVE CheckpointAgrees'
    <2>1. content # None /\ content' = content
      BY <1>0, <1>2, ReviewKept DEF RunNode, CallsAgree, CallAgrees, Owning
    <2>2. CASE local[w].stage = "awaiting_outcome"
      BY <1>0, <1>2, <2>1, <2>2 DEF RunNode, CheckpointAgrees
    <2>3. CASE local[w].stage # "awaiting_outcome"
      <3>1. local[w] \in Snapshot /\ local[w].review \in {None, content}
        BY <1>0, <1>2 DEF RunNode, CallsAgree, CallAgrees, TypeOK
      <3>2. checkpoint'.review = local[w].review
        BY <1>0, <1>2, <2>3, <3>1 DEF RunNode, TypeOK, Snapshot
      <3> QED
        BY <2>1, <3>1, <3>2 DEF CheckpointAgrees
    <2> QED
      BY <2>2, <2>3
  <1>3. ASSUME NEW w \in Workers, Crash(w) PROVE CheckpointAgrees'
    BY <1>0, <1>1, <1>3 DEF Crash, Lost, CheckpointAgrees
  <1> QED
    BY <1>1, <1>2, <1>3 DEF Next, Serve, Submit, Load, ReplayTerminal, ReplayRaises, Check,
        Record, RecordUnder, ReadClaim, CasClaim, TakeOwnership, LoseRace, Release, Reload,
        Invoke, Persist, Complete, Fail, LeaseExpires, RecordOutcome, vars

LEMMA TerminalKept ==
    ASSUME IInv, [Next]_vars, status \in Terminal
    PROVE  status' \in Terminal
  <1> USE DEF row, events, private, frame
  <1>0. RecordsAgree /\ CallsAgree
    BY DEF IInv
  <1>1. ASSUME NEW w \in Workers, Record(w) PROVE status' = status
    BY <1>1 DEF Record, RecordUnder, RowAbsent, Terminal
  <1>2. ASSUME NEW w \in Workers, CasClaim(w) PROVE status' = status
    BY <1>0, <1>2 DEF CasClaim, TakeOwnership, LoseRace, Unchanged, CallsAgree, CallAgrees,
                      InFlight, Terminal
  <1>3. ASSUME NEW w \in Workers, Release(w) \/ Complete(w) PROVE status' = status
    BY <1>3 DEF Release, Complete, Owned, Terminal
  <1>4. ASSUME NEW o \in Outcomes, RecordOutcome(o) PROVE status' \in Terminal
    BY <1>4 DEF RecordOutcome, Terminal
  <1> QED
    BY <1>1, <1>2, <1>3, <1>4 DEF Next, Serve, Submit, Load, ReplayTerminal, ReplayRaises,
        Check, ReadClaim, Reload, Invoke, RunNode, Persist, Fail, Crash, LeaseExpires, vars

\* A worker whose frame a step leaves alone still agrees with the row.
LEMMA BystanderAgrees ==
    ASSUME IInv, [Next]_vars, NEW v \in Workers,
           UNCHANGED <<pc[v], request[v], seen[v], local[v]>>
    PROVE  CallAgrees(v)'
  <1>1. CallAgrees(v)
    BY DEF IInv, CallsAgree
  <1>2. content # None => content' = content
    BY ReviewKept
  <1>3. status \in Terminal => status' \in Terminal
    BY TerminalKept
  <1> QED
    BY <1>1, <1>2, <1>3 DEF CallAgrees, Owning

LEMMA CallsStep == IInv /\ [Next]_vars => CallsAgree'
  <1> SUFFICES ASSUME IInv, [Next]_vars, NEW v \in Workers PROVE CallAgrees(v)'
    BY DEF CallsAgree
  <1> USE DEF row, events, private, frame
  <1>0. TypeOK /\ RecordsAgree /\ CheckpointAgrees /\ CallAgrees(v)
    BY DEF IInv, CallsAgree
  <1>1. CASE UNCHANGED <<pc[v], request[v], seen[v], local[v]>>
    BY <1>1, BystanderAgrees
  <1>2. ASSUME NEW w \in Workers, w # v,
               Serve(w) \/ Fail(w) \/ Crash(w) \/ \E r \in Requests : Submit(w, r)
        PROVE  UNCHANGED <<pc[v], request[v], seen[v], local[v]>>
    BY <1>0, <1>2 DEF TypeOK, Serve, Submit, Load, ReplayTerminal, ReplayRaises, Check, Record,
        RecordUnder, ReadClaim, CasClaim, TakeOwnership, LoseRace, Release, Reload, Invoke,
        RunNode, Persist, Complete, Fail, Crash, Finish, Goto
  <1>3. CASE Finish(v)
    BY <1>0, <1>3 DEF Finish, Goto, TypeOK, CallAgrees, Owning
  <1>4. ASSUME NEW r \in Requests, Submit(v, r) PROVE CallAgrees(v)'
    BY <1>0, <1>4, Parameters DEF Submit, Goto, TypeOK, CallAgrees, Owning
  <1>5. CASE Load(v)
    BY <1>0, <1>3, <1>5 DEF Load, Goto, TypeOK, CallAgrees, Owning, CurrentRow, RecordsAgree
  <1>6. CASE ReplayTerminal(v)
    BY <1>0, <1>3, <1>6 DEF ReplayTerminal, Goto, TypeOK, CallAgrees, Owning
  <1>7. CASE Check(v)
    BY <1>0, <1>3, <1>7 DEF Check, MayRecover, Goto, TypeOK, CallAgrees, Owning, RecordsAgree
  <1>8. CASE Record(v)
    <2> SUFFICES ASSUME NEW verdict \in Verdicts, RecordUnder(v, verdict), ~Finish(v)
                 PROVE  CallAgrees(v)'
      BY <1>3, <1>8 DEF Record
    <2>1. pc'[v] = "claim" /\ request'[v] = request[v] /\ request[v] \in Requests
      BY <1>0 DEF RecordUnder, Goto, TypeOK, CallAgrees
    <2>2. content' # None
      BY <1>0, <2>1, ReviewTyped DEF RecordUnder, RowAbsent, RecordsAgree
    <2> QED
      BY <2>1, <2>2, Parameters DEF CallAgrees, Owning
  <1>9. CASE ReadClaim(v)
    BY <1>0, <1>3, <1>9 DEF ReadClaim, Claimable, Goto, TypeOK, CallAgrees, Owning,
        CurrentRow, InFlight
  <1>10. CASE CasClaim(v)
    BY <1>0, <1>3, <1>10 DEF CasClaim, TakeOwnership, LoseRace, Goto, TypeOK, CallAgrees, Owning
  <1>11. CASE Release(v) \/ ReplayRaises(v) \/ Crash(v)
    BY <1>3, <1>11 DEF Release, ReplayRaises, Crash
  <1>12. CASE Reload(v)
    <2>1. content # None /\ UNCHANGED <<content, request>>
      BY <1>0, <1>12 DEF Reload, CallAgrees, Owning
    <2>2. CASE pc'[v] # "persist"
      BY <1>0, <1>12, <2>1, <2>2 DEF Reload, Goto, TypeOK, CallAgrees, Owning
    <2>3. CASE pc'[v] = "persist"
      <3>1. checkpoint # Lost /\ local'[v] = checkpoint /\ checkpoint.review = content
        BY <1>0, <1>12, <2>3 DEF Reload, Goto, TypeOK
      <3>2. checkpoint # None
        BY <1>0, <3>1, Parameters DEF TypeOK
      <3>3. request[v] # None
        BY <1>0, <1>12 DEF Reload, CallAgrees
      <3> QED
        BY <2>1, <2>3, <3>1, <3>2, <3>3 DEF CallAgrees, Owning
    <2> QED
      BY <2>2, <2>3
  <1>13. CASE Invoke(v)
    <2>1. content # None /\ UNCHANGED <<content, request>>
      BY <1>0, <1>13 DEF Invoke, CallAgrees, Owning
    <2>2. CASE checkpoint = Lost
      BY <1>0, <1>13, <2>1, <2>2 DEF Invoke, Goto, TypeOK, CallAgrees, Owning
    <2>3. CASE checkpoint # Lost
      <3>1. checkpoint \in Snapshot /\ checkpoint.review \in {None, content}
        BY <1>0, <2>3 DEF TypeOK, CheckpointAgrees
      <3>2. pc'[v] = "run" /\ local'[v].review \in {None, content}
        BY <1>0, <1>13, <2>3, <3>1 DEF Invoke, Goto, TypeOK, Snapshot
      <3>3. local'[v] \in Snapshot
        BY <1>0, <1>13, <2>1, <2>3, <3>1 DEF Invoke, TypeOK, Snapshot
      <3> QED
        BY <1>0, <1>13, <2>1, <3>2, <3>3, Parameters DEF Invoke, CallAgrees, Owning, TypeOK
    <2> QED
      BY <2>2, <2>3
  <1>14. CASE RunNode(v)
    <2>1. content # None /\ UNCHANGED <<content, request>>
      BY <1>0, <1>14 DEF RunNode, CallAgrees, Owning
    <2>2. CASE UNCHANGED local
      BY <1>0, <1>14, <2>1, <2>2 DEF RunNode, Goto, TypeOK, CallAgrees, Owning
    <2>3. CASE ~UNCHANGED local
      <3>1. local[v] \in Snapshot /\ local[v].review \in {None, content}
        BY <1>0, <1>14 DEF RunNode, CallAgrees, TypeOK
      <3>2. pc'[v] = "run" /\ local'[v] = [local[v] EXCEPT !.stage = NextStage[local[v].stage]]
        BY <1>0, <1>14, <2>3 DEF RunNode, TypeOK
      <3>3. local'[v] \in Snapshot /\ local'[v].review = local[v].review
        BY <3>1, <3>2 DEF Snapshot, NextStage, Stages
      <3> QED
        BY <1>0, <1>14, <2>1, <3>1, <3>2, <3>3, Parameters DEF RunNode, CallAgrees, Owning
    <2> QED
      BY <2>2, <2>3
  <1>15. CASE Persist(v) \/ Fail(v)
    BY <1>0, <1>3, <1>15 DEF Persist, Fail, Goto, TypeOK, CallAgrees, Owning
  <1>16. CASE Complete(v)
    BY <1>0, <1>3, <1>16 DEF Complete, Goto, TypeOK, CallAgrees, Owning
  <1>17. CASE LeaseExpires \/ (\E o \in Outcomes : RecordOutcome(o)) \/ UNCHANGED vars
    BY <1>1, <1>17 DEF LeaseExpires, RecordOutcome, vars
  <1> QED
    BY <1>1, <1>2, <1>4, <1>5, <1>6, <1>7, <1>8, <1>9, <1>10, <1>11, <1>12, <1>13, <1>14,
       <1>15, <1>16, <1>17 DEF Next, Serve

-----------------------------------------------------------------------------
(* Theorems *)

\* IInv is inductive: typing, the three agreements and what the workers
\* remember need each other and are kept by every step.
THEOREM Inductive == Spec => []IInv
  <1>1. IInv /\ [Next]_vars => IInv'
    BY TypeStep, RecordsStep, CheckpointStep, CallsStep DEF IInv
  <1> QED
    BY InvInit, <1>1, PTL DEF Spec

\* Every variable of the review boundary keeps its type, for any number of
\* API processes, ownership tokens, requests and outcomes.
THEOREM Typing == Spec => []TypeOK
  <1>1. IInv => TypeOK
    BY DEF IInv
  <1> QED
    BY Inductive, <1>1, PTL

\* A decision row, its audit entries and its outbox events never come apart,
\* whichever process crashes, is taken over or retries.
THEOREM RecordsStayTogether == Spec => []RecordsAgree
  <1>1. IInv => RecordsAgree
    BY DEF IInv
  <1> QED
    BY Inductive, <1>1, PTL

\* The durable checkpoint only ever holds the review accepted in the row.
THEOREM GraphRunsAcceptedReview == Spec => []CheckpointAgrees
  <1>1. IInv => CheckpointAgrees
    BY DEF IInv
  <1> QED
    BY Inductive, <1>1, PTL

\* What a worker remembers of the row between its sessions stays usable.
THEOREM MemoryStaysUsable == Spec => []CallsAgree
  <1>1. IInv => CallsAgree
    BY DEF IInv
  <1> QED
    BY Inductive, <1>1, PTL

\* Every step of the workers is a step of the lifecycle, or leaves it alone.
LEMMA LifecycleStep ==
    ASSUME IInv, IInv', [Next]_vars
    PROVE  [Lifecycle!Next]_(Lifecycle!vars)
  <1> USE DEF row, events, private, frame
  <1>0. TypeOK /\ RecordsAgree /\ CallsAgree
    BY DEF IInv
  <1>1. CASE UNCHANGED <<status, content, outcome, events>>
    BY <1>1 DEF Lifecycle!vars, Announced, InFlight
  <1>2. ASSUME NEW w \in Workers, ReplayTerminal(w)
        PROVE  UNCHANGED <<status, content, outcome, events>>
    <2>1. status \in Terminal /\ status' = status /\ UNCHANGED <<content, outcome>>
      BY <1>0, <1>2 DEF ReplayTerminal, CallsAgree, CallAgrees
    <2>2. decisionEvent' = decisionEvent
      BY <1>0, <2>1 DEF IInv, RecordsAgree
    <2> QED
      BY <1>2, <2>1, <2>2 DEF ReplayTerminal
  <1>3. ASSUME NEW w \in Workers, Record(w) PROVE [Lifecycle!Next]_(Lifecycle!vars)
    <2> SUFFICES ASSUME NEW v \in Verdicts, RecordUnder(w, v)
                 PROVE  [Lifecycle!Next]_(Lifecycle!vars)
      BY <1>3 DEF Record
    <2>1. CASE UNCHANGED <<status, content, audit>>
      BY <1>1, <2>1 DEF RecordUnder
    <2>2. CASE ~Denied(request[w], v) /\ RowAbsent(w)
      <3>1. request[w] \in Requests
        BY <1>0 DEF RecordUnder, TypeOK, CallsAgree, CallAgrees
      <3>2. content' = ReviewOf(request[w], v) /\ content' \in Review
        BY <2>2, <3>1, ReviewTyped DEF RecordUnder
      <3>3. status = "none" /\ status' = "resume_pending" /\ UNCHANGED <<outcome, events>>
        BY <2>2 DEF RecordUnder, RowAbsent
      <3>4. Lifecycle!Accept(content')
        BY <3>3 DEF Lifecycle!Accept, Announced, InFlight
      <3> QED
        BY <3>2, <3>4 DEF Lifecycle!Next
    <2> QED
      BY <2>1, <2>2 DEF RecordUnder
  <1>4. ASSUME NEW w \in Workers, CasClaim(w) PROVE [Lifecycle!Next]_(Lifecycle!vars)
    <2>1. ASSUME NEW t \in Fresh, TakeOwnership(w, t)
          PROVE  [Lifecycle!Next]_(Lifecycle!vars)
      <3>1. InFlight(status) /\ InFlight(status')
        BY <1>0, <2>1 DEF TakeOwnership, Unchanged, CallsAgree, CallAgrees, InFlight
      <3> QED
        BY <2>1, <3>1 DEF TakeOwnership, Lifecycle!vars, Announced, InFlight
    <2>2. CASE LoseRace(w)
      BY <1>1, <2>2 DEF LoseRace
    <2> QED
      BY <1>4, <2>1, <2>2 DEF CasClaim
  <1>5. ASSUME NEW w \in Workers, Release(w) PROVE [Lifecycle!Next]_(Lifecycle!vars)
    <2>1. CASE Owned(w)
      BY <1>5, <2>1 DEF Release, Owned, Lifecycle!vars, Announced, InFlight
    <2>2. CASE ~Owned(w)
      BY <1>1, <1>5, <2>2 DEF Release
    <2> QED
      BY <2>1, <2>2
  <1>6. ASSUME NEW w \in Workers, Complete(w) PROVE [Lifecycle!Next]_(Lifecycle!vars)
    <2>1. CASE Owned(w)
      <3>1. status = "resuming" /\ status' = "completed" /\ UNCHANGED <<content, outcome, outcomeEvent>>
        BY <1>6, <2>1 DEF Complete, Owned
      <3>2. content \in Review /\ decisionEvent = None /\ outcomeEvent = None
        BY <1>0, <3>1 DEF RecordsAgree, TypeOK, Terminal
      <3>3. decisionEvent' = EventOf(content, "completed", None)
        BY <1>6, <2>1, <3>2 DEF Complete
      <3>4. decisionEvent' # None
        BY <3>2, <3>3, Parameters DEF EventOf, Event, Terminal
      <3>5. Announced' = Announced \cup {<<"decision", content>>}
        BY <3>1, <3>2, <3>3, <3>4 DEF Announced, EventOf
      <3>6. Lifecycle!Finish
        BY <3>1, <3>5 DEF Lifecycle!Finish, InFlight
      <3> QED
        BY <3>6 DEF Lifecycle!Next
    <2>2. CASE ~Owned(w)
      BY <1>1, <1>6, <2>2 DEF Complete
    <2> QED
      BY <2>1, <2>2
  <1>7. ASSUME NEW o \in Outcomes, RecordOutcome(o) PROVE [Lifecycle!Next]_(Lifecycle!vars)
    <2>1. status = "completed" /\ status' = "outcome_recorded" /\ outcome' = o
            /\ UNCHANGED <<content, decisionEvent>>
      BY <1>7 DEF RecordOutcome, OutcomeOpen
    <2>2. content \in Review /\ outcomeEvent = None
      BY <1>0, <2>1 DEF RecordsAgree, TypeOK, Terminal
    <2>3. outcomeEvent' = EventOf(content, "outcome_recorded", o)
      BY <1>7 DEF RecordOutcome
    <2>4. outcomeEvent' # None
      BY <2>2, <2>3, Parameters DEF EventOf, Event, Terminal
    <2>5. Announced' = Announced \cup {<<"outcome", content, o>>}
      BY <2>1, <2>2, <2>3, <2>4 DEF Announced, EventOf
    <2>6. Lifecycle!Close(o)
      BY <2>1, <2>5 DEF Lifecycle!Close, InFlight
    <2> QED
      BY <2>6 DEF Lifecycle!Next
  <1>8. CASE LeaseExpires \/ UNCHANGED vars
    BY <1>1, <1>8 DEF LeaseExpires, vars
  <1>9. ASSUME NEW w \in Workers,
               \/ \E r \in Requests : Submit(w, r)
               \/ Load(w) \/ ReplayRaises(w) \/ Check(w) \/ ReadClaim(w) \/ Reload(w)
               \/ Invoke(w) \/ RunNode(w) \/ Persist(w) \/ Fail(w) \/ Crash(w)
        PROVE  UNCHANGED <<status, content, outcome, events>>
    BY <1>9 DEF Submit, Load, ReplayRaises, Check, ReadClaim, Reload, Invoke, RunNode,
                Persist, Fail, Crash
  <1> QED
    BY <1>1, <1>2, <1>3, <1>4, <1>5, <1>6, <1>7, <1>8, <1>9 DEF Next, Serve

\* The decision row implements DecisionLifecycle: one review is accepted and
\* kept, completed and announced at most once in one step, and closed by one
\* outcome after that, however the workers interleave.
THEOREM LifecycleImplemented == Spec => ImplementsLifecycle
  <1>1. Init => Lifecycle!Init
    BY DEF Init, Lifecycle!Init, Announced, InFlight
  <1>2. IInv /\ IInv' /\ [Next]_vars => [Lifecycle!Next]_(Lifecycle!vars)
    BY LifecycleStep
  <1> QED
    BY <1>1, <1>2, Inductive, PTL DEF Spec, ImplementsLifecycle, Lifecycle!Spec

-----------------------------------------------------------------------------
(* The checkpoint outlives the decision it was accepted on *)

\* Only a volatile checkpoint is ever lost, and what may need it is only accepted, and
\* only on its way to be, on a durable one.
Recoverable ==
    /\ checkpoint = Lost => ~durable
    /\ content # None /\ Executing(content) => durable
    /\ \A w \in Workers : pc[w] = "record" /\ Executing(request[w]) => durable

LEMMA RecoverableInit == Init => Recoverable
  <1> SUFFICES ASSUME Init PROVE Recoverable
    OBVIOUS
  <1>1. checkpoint # Lost
    BY DEF Init, Lost
  <1> QED
    BY <1>1 DEF Init, Recoverable

\* A graph writes snapshots of its own: it never brings a lost checkpoint about.
LEMMA NodesLoseNothing ==
    ASSUME IInv, NEW w \in Workers, RunNode(w), checkpoint' = Lost
    PROVE  checkpoint = Lost
  <1>1. CASE local[w].stage = "awaiting_outcome"
    BY <1>1 DEF RunNode
  <1>2. CASE local[w].stage # "awaiting_outcome"
    <2>1. local[w] \in Snapshot
      BY DEF IInv, TypeOK, CallsAgree, CallAgrees, RunNode
    <2>2. local'[w] = [local[w] EXCEPT !.stage = NextStage[local[w].stage]]
      BY <1>2 DEF IInv, TypeOK, RunNode
    <2>3. checkpoint'.stage \in Stages
      BY <1>2, <2>1, <2>2 DEF RunNode, Snapshot, NextStage, Stages
    <2> QED
      BY <2>3 DEF Lost, Stages
  <1> QED
    BY <1>1, <1>2

LEMMA RecoverableStep == IInv /\ Recoverable /\ [Next]_vars => Recoverable'
  <1> SUFFICES ASSUME IInv, Recoverable, [Next]_vars PROVE Recoverable'
    OBVIOUS
  <1> USE DEF row, events, private, frame
  <1>0. TypeOK /\ RecordsAgree /\ CallsAgree
    BY DEF IInv
  <1>1. UNCHANGED durable
    BY DEF Next, Serve, Submit, Load, ReplayTerminal, ReplayRaises, Check, Record, RecordUnder,
        ReadClaim, CasClaim, TakeOwnership, LoseRace, Release, Reload, Invoke, RunNode, Persist,
        Complete, Fail, Crash, LeaseExpires, RecordOutcome, vars
  <1>2. checkpoint' = Lost => ~durable
    <2>1. CASE UNCHANGED checkpoint
      BY <2>1 DEF Recoverable
    <2>2. ASSUME NEW w \in Workers, RunNode(w) PROVE checkpoint' = Lost => ~durable
      BY <2>2, NodesLoseNothing DEF Recoverable
    <2>3. ASSUME NEW w \in Workers, Crash(w) PROVE checkpoint' = Lost => ~durable
      BY <2>3 DEF Crash, Recoverable
    <2> QED
      BY <2>1, <2>2, <2>3 DEF Next, Serve, Submit, Load, ReplayTerminal, ReplayRaises, Check,
        Record, RecordUnder, ReadClaim, CasClaim, TakeOwnership, LoseRace, Release, Reload,
        Invoke, Persist, Complete, Fail, LeaseExpires, RecordOutcome, vars
  <1>3. content' # None /\ Executing(content') => durable
    <2>1. CASE UNCHANGED content
      BY <2>1 DEF Recoverable
    <2>2. ASSUME NEW w \in Workers, Record(w)
          PROVE  content' # None /\ Executing(content') => durable
      <3>1. CASE \E verdict \in Verdicts : content' = ReviewOf(request[w], verdict)
        BY <2>2, <3>1 DEF Record, RecordUnder, ReviewOf, Executing, Recoverable
      <3> QED
        BY <2>1, <2>2, <3>1 DEF Record, RecordUnder
    <2> QED
      BY <2>1, <2>2 DEF Next, Serve, Submit, Load, ReplayTerminal, ReplayRaises, Check,
        ReadClaim, CasClaim, TakeOwnership, LoseRace, Release, Reload, Invoke, RunNode,
        Persist, Complete, Fail, Crash, LeaseExpires, RecordOutcome, vars
  <1>4. ASSUME NEW v \in Workers, pc'[v] = "record", Executing(request'[v]) PROVE durable
    <2>1. CASE pc[v] = "record" /\ request'[v] = request[v]
      BY <1>4, <2>1 DEF Recoverable
    <2>2. CASE Check(v)
      <3>1. MayRecord(v) /\ request'[v] = request[v]
        BY <1>0, <1>4, <2>2 DEF Check, Goto, Finish, TypeOK
      <3> QED
        BY <1>4, <3>1 DEF MayRecord
    <2>3. Check(v) \/ (pc[v] = "record" /\ request'[v] = request[v])
      BY <1>0, <1>4 DEF Next, Serve, Submit, Load, ReplayTerminal, ReplayRaises, Check, Record,
        RecordUnder, ReadClaim, CasClaim, TakeOwnership, LoseRace, Release, Reload, Invoke,
        RunNode, Persist, Complete, Fail, Crash, LeaseExpires, RecordOutcome, vars, Finish,
        Goto, TypeOK
    <2> QED
      BY <2>1, <2>2, <2>3
  <1> QED
    BY <1>1, <1>2, <1>3, <1>4 DEF Recoverable

\* A decision that executes an action can always be resumed: whatever restarts the
\* processes go through between the check, the record and the resume, the checkpoint it
\* was accepted on is still there.
THEOREM DecisionsStayRecoverable == Spec => []AuthorizedIsRecoverable
  <1>1. Recoverable => AuthorizedIsRecoverable
    BY DEF Recoverable, AuthorizedIsRecoverable
  <1> QED
    BY RecoverableInit, RecoverableStep, Inductive, <1>1, PTL DEF Spec

-----------------------------------------------------------------------------
(* A completed decision has been executed *)

\* While leases last, the claim is held by one worker: the row names it, and no race that
\* is still to be decided can take the claim from it.
HeldByOne ==
    /\ \A w \in Workers : pc[w] \in Owning =>
          status = "resuming" /\ ~expired /\ owner = token[w]
    /\ \A v, w \in Workers : pc[v] \in Owning /\ pc[w] \in Owning => v = w
    /\ \A v, w \in Workers :
          pc[w] = "cas" /\ pc[v] \in Owning =>
              ~(seen[w].status = "resuming" /\ seen[w].owner = token[v])

\* The holder's graph, the checkpoint and the projection move together.
GraphFollows(w) ==
    /\ pc[w] = "run" /\ durable => checkpoint.stage = local[w].stage
    /\ pc[w] = "persist" => local[w].stage = "awaiting_outcome"
    /\ pc[w] = "complete" => incident = "awaiting_outcome"
    /\ pc[w] \in {"persist", "complete"} /\ durable => checkpoint.stage = "awaiting_outcome"

Executed ==
    /\ status \in Terminal /\ durable => checkpoint.stage = "awaiting_outcome"
    /\ status = "completed" => incident = "awaiting_outcome"
    /\ status = "outcome_recorded" => incident = "completed"

InTime == ~overran => HeldByOne /\ Executed /\ \A w \in Workers : GraphFollows(w)

\* A step of one worker leaves the frames of the others alone.
LEMMA OthersRest ==
    ASSUME TypeOK, NEW w \in Workers,
           Serve(w) \/ Fail(w) \/ Crash(w) \/ \E r \in Requests : Submit(w, r),
           NEW v \in Workers, v # w
    PROVE  UNCHANGED <<pc[v], request[v], seen[v], tries[v], token[v], local[v]>>
  BY DEF TypeOK, frame, Serve, Submit, Load, ReplayTerminal, ReplayRaises, Check, Record,
        RecordUnder, ReadClaim, CasClaim, TakeOwnership, LoseRace, Release, Reload, Invoke,
        RunNode, Persist, Complete, Fail, Crash, Finish, Goto

\* Who holds nothing new and races no more than before takes nothing from the holder.
LEMMA HeldQuietly ==
    ASSUME HeldByOne, UNCHANGED <<status, owner, expired>>,
           \A v \in Workers :
              /\ pc'[v] \in Owning => pc[v] \in Owning /\ token'[v] = token[v]
              /\ pc'[v] = "cas" => pc[v] = "cas" /\ seen'[v] = seen[v]
    PROVE  HeldByOne'
  BY DEF HeldByOne, Owning

LEMMA HeldByNone ==
    ASSUME \A v \in Workers : pc'[v] \notin Owning
    PROVE  HeldByOne'
  BY DEF HeldByOne, Owning

\* A read that finds the row claimable finds nobody at work on it.
LEMMA ReadHolds ==
    ASSUME IInv, HeldByOne, NEW w \in Workers, ReadClaim(w)
    PROVE  HeldByOne'
  <1>0. TypeOK
    BY DEF IInv
  <1>1. ASSUME NEW v \in Workers, v # w
        PROVE  UNCHANGED <<pc[v], request[v], seen[v], tries[v], token[v], local[v]>>
    BY <1>0, <1>1, OthersRest DEF Serve
  <1>2. CASE Claimable
    <2>1. \A v \in Workers : pc[v] \notin Owning
      BY <1>2 DEF HeldByOne, Claimable
    <2>2. pc'[w] \notin Owning
      BY <1>0 DEF ReadClaim, Goto, Finish, TypeOK, Owning
    <2> QED
      BY <1>1, <2>1, <2>2, HeldByNone
  <1>3. CASE ~Claimable
    <2>1. pc'[w] = "idle" /\ UNCHANGED <<status, owner, expired>>
      BY <1>0, <1>3 DEF ReadClaim, Finish, Goto, TypeOK, row
    <2>2. ASSUME NEW v \in Workers
          PROVE  /\ pc'[v] \in Owning => pc[v] \in Owning /\ token'[v] = token[v]
                 /\ pc'[v] = "cas" => pc[v] = "cas" /\ seen'[v] = seen[v]
      BY <1>1, <2>1 DEF Owning
    <2> QED
      BY <2>1, <2>2, HeldQuietly
  <1> QED
    BY <1>2, <1>3

\* A won race makes the winner the only holder: its token is nobody's, in the row, in a
\* frame or in a read.
LEMMA TakeHolds ==
    ASSUME IInv, HeldByOne, NEW w \in Workers, NEW t \in Fresh, TakeOwnership(w, t)
    PROVE  HeldByOne'
  <1>0. TypeOK /\ CallAgrees(w)
    BY DEF IInv, CallsAgree
  <1>1. ASSUME NEW v \in Workers, v # w
        PROVE  UNCHANGED <<pc[v], request[v], seen[v], tries[v], token[v], local[v]>>
    BY <1>0, <1>1, OthersRest DEF Serve, CasClaim
  <1>2. \A v \in Workers : pc[v] \notin Owning
    BY DEF HeldByOne, TakeOwnership, Unchanged
  <1>3. /\ status' = "resuming" /\ owner' = t /\ ~expired'
        /\ pc'[w] = "reload" /\ token'[w] = t
    BY <1>0 DEF TakeOwnership, Goto, TypeOK
  <1>4. ASSUME NEW v \in Workers, pc'[v] \in Owning PROVE v = w
    BY <1>1, <1>2, <1>4
  <1>5. ASSUME NEW v \in Workers, pc'[v] = "cas" PROVE seen'[v].owner # t
    <2>1. v # w
      BY <1>3, <1>5
    <2>2. seen'[v] = seen[v]
      BY <1>1, <2>1
    <2> QED
      BY <2>2 DEF Fresh
  <1> QED
    BY <1>3, <1>4, <1>5 DEF HeldByOne

\* The holder is the one whose completion or release is granted.
LEMMA LetGoHolds ==
    ASSUME IInv, HeldByOne, NEW w \in Workers, Release(w) \/ Complete(w)
    PROVE  HeldByOne'
  <1>0. TypeOK
    BY DEF IInv
  <1>1. ASSUME NEW v \in Workers, v # w
        PROVE  UNCHANGED <<pc[v], request[v], seen[v], tries[v], token[v], local[v]>>
    BY <1>0, <1>1, OthersRest DEF Serve
  <1>2. pc[w] \in Owning /\ Owned(w)
    BY DEF Release, Complete, HeldByOne, Owned, Owning
  <1>3. pc'[w] = "idle"
    BY <1>0, <1>2 DEF Release, Complete, Finish, Goto, TypeOK
  <1>4. \A v \in Workers : v # w => pc[v] \notin Owning
    BY <1>2 DEF HeldByOne
  <1>5. \A v \in Workers : pc'[v] \notin Owning
    BY <1>1, <1>3, <1>4 DEF Owning
  <1> QED
    BY <1>5, HeldByNone

LEMMA HeldStep ==
    ASSUME IInv, HeldByOne, [Next]_vars, ~overran'
    PROVE  HeldByOne'
  <1> USE DEF row, events, private, frame
  <1>0. TypeOK /\ RecordsAgree
    BY DEF IInv
  <1>1. ASSUME NEW w \in Workers, NEW v \in Workers, v # w,
               Serve(w) \/ Fail(w) \/ Crash(w) \/ \E r \in Requests : Submit(w, r)
        PROVE  UNCHANGED <<pc[v], request[v], seen[v], tries[v], token[v], local[v]>>
    BY <1>0, <1>1, OthersRest
  <1>2. ASSUME NEW w \in Workers,
               \/ \E r \in Requests : Submit(w, r)
               \/ Load(w) \/ ReplayTerminal(w) \/ ReplayRaises(w) \/ Check(w) \/ LoseRace(w)
               \/ Reload(w) \/ Invoke(w) \/ RunNode(w) \/ Persist(w) \/ Fail(w) \/ Crash(w)
        PROVE  HeldByOne'
    <2>1. UNCHANGED <<status, owner, expired>>
      BY <1>2 DEF Submit, Load, ReplayTerminal, ReplayRaises, Check, LoseRace, Reload, Invoke,
                  RunNode, Persist, Fail, Crash
    <2>2. /\ pc'[w] \in Owning => pc[w] \in Owning /\ token'[w] = token[w]
          /\ pc'[w] # "cas"
      BY <1>0, <1>2 DEF Submit, Load, ReplayTerminal, ReplayRaises, Check, LoseRace, Reload,
              Invoke, RunNode, Persist, Fail, Crash, Finish, Goto, Owning, TypeOK
    <2>3. ASSUME NEW v \in Workers
          PROVE  /\ pc'[v] \in Owning => pc[v] \in Owning /\ token'[v] = token[v]
                 /\ pc'[v] = "cas" => pc[v] = "cas" /\ seen'[v] = seen[v]
      BY <1>1, <1>2, <2>2 DEF Serve, CasClaim
    <2> QED
      BY <2>1, <2>3, HeldQuietly
  <1>3. ASSUME NEW w \in Workers, Record(w) PROVE HeldByOne'
    <2>1. pc'[w] \notin Owning \cup {"cas"}
      BY <1>0, <1>3 DEF Record, RecordUnder, Finish, Goto, Owning, TypeOK
    <2>2. CASE UNCHANGED status
      <3>1. UNCHANGED <<status, owner, expired>>
        BY <1>3, <2>2 DEF Record, RecordUnder
      <3>2. ASSUME NEW v \in Workers
            PROVE  /\ pc'[v] \in Owning => pc[v] \in Owning /\ token'[v] = token[v]
                   /\ pc'[v] = "cas" => pc[v] = "cas" /\ seen'[v] = seen[v]
        BY <1>1, <1>3, <2>1 DEF Serve
      <3> QED
        BY <3>1, <3>2, HeldQuietly
    <2>3. CASE status = "none"
      <3>1. \A v \in Workers : pc[v] \notin Owning
        BY <2>3 DEF HeldByOne
      <3>2. \A v \in Workers : pc'[v] \notin Owning
        BY <1>1, <1>3, <2>1, <3>1 DEF Serve
      <3> QED
        BY <3>2, HeldByNone
    <2> QED
      BY <1>3, <2>2, <2>3 DEF Record, RecordUnder, RowAbsent
  <1>4. ASSUME NEW w \in Workers, ReadClaim(w) PROVE HeldByOne'
    BY <1>4, ReadHolds
  <1>5. ASSUME NEW w \in Workers, NEW t \in Fresh, TakeOwnership(w, t) PROVE HeldByOne'
    BY <1>5, TakeHolds
  <1>6. ASSUME NEW w \in Workers, Release(w) \/ Complete(w) PROVE HeldByOne'
    BY <1>6, LetGoHolds
  <1>7. CASE LeaseExpires
    <2>1. \A v \in Workers : pc[v] \notin Owning
      BY <1>7 DEF LeaseExpires, Holds, HeldByOne
    <2> QED
      BY <1>7, <2>1, HeldByNone DEF LeaseExpires
  <1>8. ASSUME NEW o \in Outcomes, RecordOutcome(o) PROVE HeldByOne'
    <2>1. \A v \in Workers : pc[v] \notin Owning
      BY <1>8 DEF RecordOutcome, OutcomeOpen, HeldByOne
    <2> QED
      BY <1>8, <2>1, HeldByNone DEF RecordOutcome
  <1>9. CASE UNCHANGED vars
    BY <1>9, HeldQuietly DEF vars
  <1> QED
    BY <1>2, <1>3, <1>4, <1>5, <1>6, <1>7, <1>8, <1>9 DEF Next, Serve, CasClaim

\* What completes or closes a decision finds its graph at the end.
LEMMA ExecutedStep ==
    ASSUME IInv, HeldByOne, Executed, \A w \in Workers : GraphFollows(w), [Next]_vars
    PROVE  Executed'
  <1> USE DEF row, events, private, frame
  <1>0. TypeOK /\ RecordsAgree
    BY DEF IInv
  <1>1. CASE UNCHANGED <<status, checkpoint, incident, durable>>
    BY <1>1 DEF Executed
  <1>2. ASSUME NEW w \in Workers, RunNode(w) \/ Persist(w) PROVE Executed'
    <2>1. status = "resuming" /\ status' = status
      BY <1>2 DEF RunNode, Persist, HeldByOne, Owning
    <2> QED
      BY <2>1 DEF Executed, Terminal
  <1>3. ASSUME NEW w \in Workers, Crash(w) PROVE Executed'
    BY <1>3 DEF Crash, Executed
  <1>4. ASSUME NEW w \in Workers, Record(w) \/ CasClaim(w) \/ Release(w) PROVE Executed'
    <2>1. CASE UNCHANGED status
      BY <1>1, <1>4, <2>1 DEF Record, RecordUnder, CasClaim, TakeOwnership, LoseRace, Release
    <2>2. CASE status' \in {"resume_pending", "resuming"}
      BY <2>2 DEF Executed, Terminal
    <2> QED
      BY <1>4, <2>1, <2>2 DEF Record, RecordUnder, CasClaim, TakeOwnership, LoseRace, Release
  <1>5. ASSUME NEW w \in Workers, Complete(w) PROVE Executed'
    <2>1. pc[w] = "complete" /\ UNCHANGED <<checkpoint, incident, durable>>
      BY <1>5 DEF Complete
    <2>2. incident = "awaiting_outcome" /\ (durable => checkpoint.stage = "awaiting_outcome")
      BY <2>1 DEF GraphFollows
    <2>3. status' \in {status, "completed"}
      BY <1>5 DEF Complete
    <2>4. status = "resuming"
      BY <2>1 DEF HeldByOne, Owning
    <2> QED
      BY <2>1, <2>2, <2>3, <2>4 DEF Executed, Terminal
  <1>6. ASSUME NEW o \in Outcomes, RecordOutcome(o) PROVE Executed'
    BY <1>6 DEF RecordOutcome, OutcomeOpen, Executed, Terminal
  <1> QED
    BY <1>1, <1>2, <1>3, <1>4, <1>5, <1>6 DEF Next, Serve, Submit, Load, ReplayTerminal,
        ReplayRaises, Check, ReadClaim, Reload, Invoke, Fail, LeaseExpires, vars

\* The holder's own steps
LEMMA FollowsOwn ==
    ASSUME IInv, NEW v \in Workers, GraphFollows(v),
           Reload(v) \/ Invoke(v) \/ RunNode(v) \/ Persist(v)
    PROVE  GraphFollows(v)'
  <1> USE DEF frame
  <1>0. TypeOK /\ CheckpointAgrees /\ CallAgrees(v)
    BY DEF IInv, CallsAgree
  <1>1. CASE Reload(v)
    <2>1. UNCHANGED <<checkpoint, incident, durable>> /\ pc'[v] \notin {"run", "complete"}
      BY <1>0, <1>1 DEF Reload, Goto, TypeOK
    <2>2. pc'[v] = "persist" => local'[v] = checkpoint /\ checkpoint.stage = "awaiting_outcome"
      BY <1>0, <1>1 DEF Reload, Goto, TypeOK
    <2> QED
      BY <2>1, <2>2 DEF GraphFollows
  <1>2. CASE Invoke(v)
    <2>1. UNCHANGED <<checkpoint, durable>> /\ pc'[v] \in {"release", "run"}
      BY <1>0, <1>2 DEF Invoke, Goto, TypeOK
    <2>2. ASSUME pc'[v] = "run" PROVE local'[v].stage = checkpoint.stage
      <3>1. checkpoint \in Snapshot
        BY <1>0, <1>2, <2>2 DEF Invoke, Goto, TypeOK
      <3> QED
        BY <1>0, <1>2, <2>2, <3>1 DEF Invoke, Goto, TypeOK, Snapshot
    <2> QED
      BY <2>1, <2>2 DEF GraphFollows
  <1>3. CASE RunNode(v)
    <2>1. UNCHANGED durable /\ pc[v] = "run"
      BY <1>3 DEF RunNode
    <2>2. CASE local[v].stage = "awaiting_outcome"
      <3>1. UNCHANGED <<local, checkpoint>> /\ pc'[v] = "persist"
        BY <1>0, <1>3, <2>2 DEF RunNode, Goto, TypeOK
      <3> QED
        BY <2>1, <2>2, <3>1 DEF GraphFollows
    <2>3. CASE local[v].stage # "awaiting_outcome"
      <3>1. pc'[v] = "run" /\ checkpoint' = local'[v]
        BY <1>3, <2>3 DEF RunNode
      <3> QED
        BY <3>1 DEF GraphFollows
    <2> QED
      BY <2>2, <2>3
  <1>4. CASE Persist(v)
    <2>1. /\ UNCHANGED <<checkpoint, durable>> /\ pc[v] = "persist" /\ pc'[v] = "complete"
          /\ incident' = local[v].stage
      BY <1>0, <1>4 DEF Persist, Goto, TypeOK
    <2> QED
      BY <2>1 DEF GraphFollows
  <1> QED
    BY <1>1, <1>2, <1>3, <1>4

\* The steps of others: no second graph runs and no outcome is recorded beside a holder.
LEMMA FollowsBesideOthers ==
    ASSUME IInv, HeldByOne, NEW v \in Workers, GraphFollows(v), [Next]_vars,
           UNCHANGED <<pc[v], local[v]>>, pc[v] \in Owning,
           ~(RunNode(v) \/ Persist(v))
    PROVE  GraphFollows(v)'
  <1> USE DEF row, events, private, frame
  <1>1. status = "resuming"
    BY DEF HeldByOne
  <1>2. \A o \in Outcomes : ~RecordOutcome(o)
    BY <1>1 DEF RecordOutcome, OutcomeOpen
  <1>3. \A w \in Workers : ~(RunNode(w) \/ Persist(w))
    BY DEF HeldByOne, RunNode, Persist, Owning
  <1>4. UNCHANGED <<incident, durable>> /\ (durable => UNCHANGED checkpoint)
    BY <1>2, <1>3 DEF Next, Serve, Submit, Load, ReplayTerminal, ReplayRaises, Check, Record,
        RecordUnder, ReadClaim, CasClaim, TakeOwnership, LoseRace, Release, Reload, Invoke,
        Complete, Fail, Crash, LeaseExpires, vars
  <1> QED
    BY <1>4 DEF GraphFollows

LEMMA FollowsStep ==
    ASSUME IInv, HeldByOne, \A w \in Workers : GraphFollows(w), [Next]_vars, NEW v \in Workers
    PROVE  GraphFollows(v)'
  <1> USE DEF row, events, private, frame
  <1>0. TypeOK
    BY DEF IInv
  <1>1. CASE Reload(v) \/ Invoke(v) \/ RunNode(v) \/ Persist(v)
    BY <1>1, FollowsOwn
  <1>2. CASE pc'[v] \notin {"run", "persist", "complete"}
    BY <1>2 DEF GraphFollows
  <1>3. CASE UNCHANGED <<pc[v], local[v]>>
    <2>1. CASE pc[v] \in Owning
      BY <1>1, <1>3, <2>1, FollowsBesideOthers
    <2>2. CASE pc[v] \notin Owning
      BY <1>2, <1>3, <2>2 DEF Owning
    <2> QED
      BY <2>1, <2>2
  <1>4. ASSUME NEW w \in Workers, w # v,
               Serve(w) \/ Fail(w) \/ Crash(w) \/ \E r \in Requests : Submit(w, r)
        PROVE  UNCHANGED <<pc[v], local[v]>>
    BY <1>0, <1>4, OthersRest
  <1>5. ASSUME \/ \E r \in Requests : Submit(v, r)
               \/ Load(v) \/ ReplayTerminal(v) \/ ReplayRaises(v) \/ Check(v) \/ Record(v)
               \/ ReadClaim(v) \/ CasClaim(v) \/ Release(v) \/ Complete(v) \/ Fail(v) \/ Crash(v)
        PROVE  pc'[v] \notin {"run", "persist", "complete"}
    BY <1>0, <1>5 DEF Submit, Load, ReplayTerminal, ReplayRaises, Check, Record, RecordUnder,
        ReadClaim, CasClaim, TakeOwnership, LoseRace, Release, Complete, Fail, Crash, Finish,
        Goto, TypeOK
  <1>6. CASE LeaseExpires \/ (\E o \in Outcomes : RecordOutcome(o)) \/ UNCHANGED vars
    BY <1>3, <1>6 DEF LeaseExpires, RecordOutcome, vars
  <1> QED
    BY <1>1, <1>2, <1>3, <1>4, <1>5, <1>6 DEF Next, Serve

LEMMA InTimeStep == IInv /\ InTime /\ [Next]_vars => InTime'
  <1> SUFFICES ASSUME IInv, InTime, [Next]_vars, ~overran'
               PROVE  HeldByOne' /\ Executed' /\ \A w \in Workers : GraphFollows(w)'
    BY DEF InTime
  <1> USE DEF row, events, private, frame
  <1>1. ~overran
    BY DEF Next, Serve, Submit, Load, ReplayTerminal, ReplayRaises, Check, Record, RecordUnder,
        ReadClaim, CasClaim, TakeOwnership, LoseRace, Release, Reload, Invoke, RunNode, Persist,
        Complete, Fail, Crash, LeaseExpires, RecordOutcome, vars
  <1>2. HeldByOne /\ Executed /\ \A w \in Workers : GraphFollows(w)
    BY <1>1 DEF InTime
  <1>3. HeldByOne'
    BY <1>2, HeldStep
  <1>4. Executed'
    BY <1>2, ExecutedStep
  <1>5. ASSUME NEW w \in Workers PROVE GraphFollows(w)'
    BY <1>2, <1>5, FollowsStep
  <1> QED
    BY <1>3, <1>4, <1>5

LEMMA InTimeInit == Init => InTime
  BY DEF Init, InTime, HeldByOne, Executed, GraphFollows, Owning, Terminal

\* Until a live worker outruns its lease, a decision that the row calls completed has been
\* carried out: its graph has run to the end and the incident shows it, whichever workers
\* crashed, failed, lost a race or took the claim over on the way.
THEOREM CompletionIsExecution == Spec => []CompletedIsExecuted
  <1>1. InTime => CompletedIsExecuted
    BY DEF InTime, Executed, Terminal, CompletedIsExecuted
  <1> QED
    BY InTimeInit, InTimeStep, Inductive, <1>1, PTL DEF Spec
=============================================================================
