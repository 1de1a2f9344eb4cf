------------------------ MODULE PolicyLifecycleProofs ------------------------
(***************************************************************************)
(* What PolicyLifecycle guarantees for any number of administrators,       *)
(* score calls, versions and changes.                                      *)
(***************************************************************************)
EXTENDS PolicyLifecycle, TLAPS

-----------------------------------------------------------------------------
(* The inductive invariant *)

\* The version was in production at some time: before the i-th change, for an i in 1..n.
Served(v, n) == \E i \in 1..n : v = Predecessor(i)
EverServed(v) == Served(v, Len(log) + 1)

\* What left candidacy was in production.
LeftCandidacy(v) == status[v] \in {"production", "retired"}
HistoryIsServed == \A v \in Versions : LeftCandidacy(v) => EverServed(v)

\* What a call of an administrator has established by the step it is at.
Justified(c) ==
    /\ c.step # "pointer" => c.base \in Versions
    /\ c.kind = "promote" =>
         /\ c.step \notin {"pointer", "row"} => Measured(c.target, c.base)
         /\ c.step = "activate" => Evidence[c.target].passes
    /\ c.kind = "rollback" => EverServed(c.target)
CallsAreJustified == \A a \in Admins : call[a] # None => Justified(call[a])

\* What a score call has read is a version that was active, and another one beside it.
ScoreServed(s) ==
    /\ LeftCandidacy(s.seen)
    /\ s.step = "load" => s.shadow # s.seen
ScoresAreServed == \A i \in Investigations : score[i] \in ScoreCall => ScoreServed(score[i])

IInv ==
    /\ TypeOK /\ ChangesFormOneChain /\ ChangesAreJustified /\ AuditIsTrue
    /\ CandidatesOnlyObserve /\ HistoryIsServed /\ CallsAreJustified /\ ScoresAreServed

-----------------------------------------------------------------------------
(* Lemmas about the definitions *)

LEMMA NewestTyped ==
  ASSUME NEW S \in SUBSET Versions
  PROVE  Newest(S) \in S \cup {None}
BY PolicyParameters DEF Newest

\* A call in progress is no ranking.
LEMMA ScoreStates ==
  /\ \A r \in Ranking : r \notin ScoreCall
  /\ None \notin Ranking \cup ScoreCall
<1>1. ASSUME NEW r \in Ranking, NEW c \in ScoreCall
      PROVE  r # c
  <2>1. "step" \in DOMAIN c /\ "step" \notin DOMAIN r
    BY <1>1 DEF Ranking, ScoreCall
  <2> QED
    BY <2>1
<1> QED
  BY <1>1, PolicyParameters

\* The chain of changes grows at its end and keeps what it was.
LEMMA LogGrows ==
  ASSUME log \in Seq(Change), NEW c \in Change, log' = Append(log, c)
  PROVE  /\ log' \in Seq(Change) /\ Len(log') = Len(log) + 1
         /\ DOMAIN log' = 1..(Len(log) + 1) /\ DOMAIN log = 1..Len(log)
         /\ \A i \in 1..Len(log) : log'[i] = log[i]
         /\ log'[Len(log) + 1] = c
         /\ Len(log) \in Nat
OBVIOUS

LEMMA PredecessorKept ==
  ASSUME log \in Seq(Change), NEW c \in Change, log' = Append(log, c)
  PROVE  /\ \A i \in 1..(Len(log) + 1) : Predecessor(i)' = Predecessor(i)
         /\ \A i \in {Len(log) + 2} : Predecessor(i)' = c.target
<1>1. ASSUME NEW i \in 1..(Len(log) + 1)
      PROVE  Predecessor(i)' = Predecessor(i)
  <2>1. i = 1 \/ i - 1 \in 1..Len(log)
    BY LogGrows
  <2> QED
    BY <2>1, LogGrows DEF Predecessor
<1>2. ASSUME NEW i \in {Len(log) + 2}
      PROVE  Predecessor(i)' = c.target
  <2>1. i # 1 /\ i - 1 = Len(log) + 1
    BY LogGrows
  <2> QED
    BY <2>1, LogGrows DEF Predecessor
<1> QED
  BY <1>1, <1>2

LEMMA ServedKept ==
  ASSUME log \in Seq(Change), NEW c \in Change, log' = Append(log, c)
  PROVE  /\ \A v : EverServed(v) => EverServed(v)'
         /\ EverServed(c.target)'
<1>1. Len(log) \in Nat /\ Len(log') = Len(log) + 1
  BY LogGrows
<1>2. ASSUME NEW v, EverServed(v)
      PROVE  EverServed(v)'
  <2>1. PICK i \in 1..(Len(log) + 1) : v = Predecessor(i)
    BY <1>2 DEF EverServed, Served
  <2>2. i \in 1..(Len(log') + 1) /\ v = Predecessor(i)'
    BY <1>1, <2>1, PredecessorKept
  <2> QED
    BY <2>2 DEF EverServed, Served
<1>3. EverServed(c.target)'
  <2>1. Len(log) + 2 \in 1..(Len(log') + 1)
    BY <1>1
  <2> QED
    BY <2>1, PredecessorKept DEF EverServed, Served
<1> QED
  BY <1>2, <1>3

-----------------------------------------------------------------------------
(* Steps that leave the registry alone *)

LEMMA RegistryKept ==
  ASSUME IInv, UNCHANGED <<registry, log>>
  PROVE  ChangesFormOneChain' /\ ChangesAreJustified' /\ AuditIsTrue' /\ HistoryIsServed'
BY DEF IInv, registry, ChangesFormOneChain, ChangesAreJustified, AuditIsTrue, HistoryIsServed,
       LeftCandidacy, EverServed, Served, Predecessor, Measured

LEMMA CallsKept ==
  ASSUME IInv, UNCHANGED <<call, log>>
  PROVE  CallsAreJustified'
BY DEF IInv, CallsAreJustified, Justified, EverServed, Served, Predecessor, Measured

LEMMA ScoresKept ==
  ASSUME IInv, UNCHANGED <<registry, score, log>>
  PROVE  CandidatesOnlyObserve' /\ ScoresAreServed'
BY DEF IInv, registry, CandidatesOnlyObserve, ScoresAreServed, ScoreServed, LeftCandidacy, Predecessor

LEMMA InitInv == Init => IInv
<1> SUFFICES ASSUME Init PROVE IInv
  OBVIOUS
<1>1. TypeOK
  BY PolicyParameters DEF Init, TypeOK, Statuses
<1>2. log = <<>> /\ Len(log) = 0 /\ DOMAIN log = {}
  BY DEF Init
<1>3. Predecessor(1) = First
  BY DEF Predecessor
<1>4. ChangesFormOneChain
  BY <1>2, <1>3, PolicyParameters DEF Init, ChangesFormOneChain
<1>5. ChangesAreJustified /\ AuditIsTrue
  BY <1>2 DEF Init, ChangesAreJustified, AuditIsTrue
<1>6. HistoryIsServed
  <2>1. Served(First, 1)
    BY <1>3 DEF Served
  <2> QED
    BY <1>2, <2>1 DEF Init, HistoryIsServed, LeftCandidacy, EverServed
<1>7. CallsAreJustified
  BY DEF Init, CallsAreJustified
<1>8. CandidatesOnlyObserve
  BY ScoreStates DEF Init, CandidatesOnlyObserve
<1>9. ScoresAreServed
  BY ScoreStates DEF Init, ScoresAreServed
<1> QED
  BY <1>1, <1>4, <1>5, <1>6, <1>7, <1>8, <1>9 DEF IInv

-----------------------------------------------------------------------------
(* Steps of administrators *)

\* A call that moves on, or ends, with what its new place asks for.
LEMMA CallMoves ==
  ASSUME IInv, NEW a \in Admins, NEW c \in AdminCall \cup {None}, c # None => Justified(c),
         call' = [call EXCEPT ![a] = c], UNCHANGED <<registry, intact, scoring, log>>
  PROVE  IInv'
<1>1. TypeOK'
  BY DEF IInv, TypeOK, registry, scoring
<1>2. CallsAreJustified'
  <2>1. \A b \in Admins : call'[b] # None => Justified(call'[b])
    BY DEF IInv, CallsAreJustified, TypeOK
  <2>2. \A d : Justified(d) => Justified(d)'
    BY DEF Justified, EverServed, Served, Predecessor, Measured
  <2> QED
    BY <2>1, <2>2 DEF CallsAreJustified
<1> QED
  BY <1>1, <1>2, RegistryKept, ScoresKept DEF IInv, scoring

LEMMA Refused ==
  ASSUME IInv, NEW a \in Admins, Refuse(a)
  PROVE  IInv'
BY CallMoves DEF Refuse, Done

LEMMA CallStarts ==
  ASSUME IInv, NEW a \in Admins, NEW k \in Kinds, NEW v \in Versions, Call(a, k, v)
  PROVE  IInv'
<1> DEFINE c == [step |-> "pointer", kind |-> k, target |-> v, base |-> None, held |-> None]
<1>1. c \in AdminCall
  BY DEF AdminCall
<1>2. k = "rollback" => EverServed(v)
  BY DEF Call, Eligible, StatusFor, Kinds, IInv, HistoryIsServed, LeftCandidacy
<1>3. Justified(c)
  BY <1>2 DEF Justified
<1> QED
  BY <1>1, <1>3, CallMoves DEF Call

LEMMA CallProceeds ==
  ASSUME IInv, NEW a \in Admins,
         ReadPointer(a) \/ ReadRow(a) \/ Verify(a) \/ GatePasses(a)
  PROVE  IInv'
<1>1. call[a] \in AdminCall /\ Justified(call[a]) /\ active \in Versions
  BY DEF IInv, TypeOK, CallsAreJustified, ReadPointer, ReadRow, Verify, GatePasses, At
<1>2. CASE ReadPointer(a)
  <2> DEFINE c == [call[a] EXCEPT !.base = active, !.step = "row"]
  <2>1. c \in AdminCall
    BY <1>1 DEF AdminCall
  <2>2. Justified(c)
    BY <1>1, <1>2 DEF Justified, ReadPointer, AdminCall
  <2>3. call' = [call EXCEPT ![a] = c]
    BY <1>2 DEF ReadPointer, IInv, TypeOK
  <2> QED
    BY <1>2, <2>1, <2>2, <2>3, CallMoves DEF ReadPointer
<1>3. CASE ReadRow(a)
  <2> DEFINE c == [call[a] EXCEPT !.held = Held(a), !.step = "verify"]
  <2>1. c \in AdminCall
    <3>1. call[a].base \in Versions
      BY <1>1, <1>3 DEF Justified, ReadRow, At
    <3>2. Held(a) \in Statuses
      BY <1>1, <3>1 DEF Held, StatusFor, Statuses, IInv, TypeOK
    <3> QED
      BY <1>1, <3>2 DEF AdminCall
  <2>2. Justified(c)
    BY <1>1, <1>3 DEF Justified, ReadRow, At, Promotes, AdminCall
  <2>3. call' = [call EXCEPT ![a] = c]
    BY <1>3 DEF ReadRow, IInv, TypeOK
  <2> QED
    BY <1>3, <2>1, <2>2, <2>3, CallMoves DEF ReadRow
<1>4. CASE Verify(a)
  <2> DEFINE c == [call[a] EXCEPT !.step = IF Promotes(a) THEN "gate" ELSE "activate"]
  <2>1. c \in AdminCall
    BY <1>1 DEF AdminCall
  <2>2. Justified(c)
    BY <1>1, <1>4 DEF Justified, Verify, At, Promotes, AdminCall
  <2>3. call' = [call EXCEPT ![a] = c]
    BY <1>4 DEF Verify, Go, IInv, TypeOK
  <2> QED
    BY <1>4, <2>1, <2>2, <2>3, CallMoves DEF Verify
<1>5. CASE GatePasses(a)
  <2> DEFINE c == [call[a] EXCEPT !.step = "activate"]
  <2>1. c \in AdminCall
    BY <1>1 DEF AdminCall
  <2>2. Justified(c)
    BY <1>1, <1>5 DEF Justified, GatePasses, At, AdminCall
  <2>3. call' = [call EXCEPT ![a] = c]
    BY <1>5 DEF GatePasses, Go, IInv, TypeOK
  <2> QED
    BY <1>5, <2>1, <2>2, <2>3, CallMoves DEF GatePasses
<1> QED
  BY <1>2, <1>3, <1>4, <1>5

LEMMA GateRecordsFailure ==
  ASSUME IInv, NEW a \in Admins, GateFails(a)
  PROVE  IInv'
<1> DEFINE Others == <<status, active, audit, intact, scoring, log>>
<1>1. UNCHANGED Others /\ call' = [call EXCEPT ![a] = None]
  BY DEF GateFails, Done
<1>2. TypeOK'
  BY <1>1 DEF IInv, TypeOK, GateFails, scoring
<1>3. ChangesFormOneChain' /\ ChangesAreJustified' /\ AuditIsTrue' /\ HistoryIsServed'
  BY <1>1 DEF IInv, ChangesFormOneChain, ChangesAreJustified, AuditIsTrue, HistoryIsServed,
              LeftCandidacy, EverServed, Served, Predecessor, Measured
<1>4. CandidatesOnlyObserve' /\ ScoresAreServed'
  BY <1>1 DEF IInv, scoring, CandidatesOnlyObserve, ScoresAreServed, ScoreServed, LeftCandidacy,
              Predecessor
<1>5. CallsAreJustified'
  <2>1. \A b \in Admins : call'[b] # None => Justified(call[b]) /\ call'[b] = call[b]
    BY <1>1 DEF IInv, TypeOK, CallsAreJustified
  <2>2. \A d : Justified(d) => Justified(d)'
    BY <1>1 DEF Justified, EverServed, Served, Predecessor, Measured
  <2> QED
    BY <2>1, <2>2 DEF CallsAreJustified
<1> QED
  BY <1>2, <1>3, <1>4, <1>5 DEF IInv

-----------------------------------------------------------------------------
(* The change itself *)

LEMMA Activates ==
  ASSUME IInv, NEW a \in Admins, Activate(a)
  PROVE  IInv'
<1> DEFINE change == [kind |-> call[a].kind, target |-> call[a].target, previous |-> active]
<1>1. call[a] \in AdminCall /\ call[a].step = "activate" /\ Justified(call[a])
        /\ active = call[a].base /\ active \in Versions
  BY DEF Activate, Ready, At, IInv, TypeOK, CallsAreJustified
<1>2. change \in Change /\ change.kind \in Kinds /\ change.target \in Versions
  BY <1>1 DEF AdminCall, Change
<1>3. log' = Append(log, change) /\ audit' = Recorded(change) /\ active' = change.target
  BY DEF Activate, Swap
<1>4. status' = [status EXCEPT ![active] = Retired(a, active), ![change.target] = "production"]
        /\ Retired(a, active) \in {status[active], "retired"}
  BY DEF Activate, Swap, Retired
<1>5. log \in Seq(Change) /\ audit \subseteq Change
  BY DEF IInv, TypeOK
<1> HIDE DEF change
<1>6. Len(log) \in Nat /\ Len(log') = Len(log) + 1
        /\ DOMAIN log' = 1..(Len(log) + 1) /\ DOMAIN log = 1..Len(log)
        /\ (\A i \in 1..Len(log) : log'[i] = log[i]) /\ log'[Len(log) + 1] = change
  BY <1>2, <1>3, <1>5, LogGrows
<1>7. /\ \A i \in 1..(Len(log) + 1) : Predecessor(i)' = Predecessor(i)
      /\ \A i \in {Len(log) + 2} : Predecessor(i)' = change.target
  BY <1>2, <1>3, <1>5, PredecessorKept
<1>8. /\ \A v : EverServed(v) => EverServed(v)'
      /\ \A v \in {change.target} : EverServed(v)'
  BY <1>2, <1>3, <1>5, ServedKept
<1>9. TypeOK'
  <2>1. log' \in Seq(Change) /\ audit' \in SUBSET Change /\ active' \in Versions
    BY <1>2, <1>3, <1>5, LogGrows DEF Recorded
  <2>2. status' \in [Versions -> Statuses]
    BY <1>1, <1>2, <1>4 DEF IInv, TypeOK, Statuses
  <2>3. gateResult' \in [Versions -> {"none", "passed", "failed"}]
    BY DEF Activate, Swap, IInv, TypeOK
  <2>4. call' \in [Admins -> AdminCall \cup {None}]
    BY DEF Activate, Ready, Done, IInv, TypeOK
  <2> QED
    BY <2>1, <2>2, <2>3, <2>4 DEF Activate, Swap, scoring, IInv, TypeOK
<1>10. ChangesFormOneChain'
  <2>1. status'[active'] = "production"
    BY <1>2, <1>3, <1>4 DEF IInv, TypeOK
  <2>2. active = Predecessor(Len(log) + 1) /\ \A i \in DOMAIN log : log[i].previous = Predecessor(i)
    BY DEF IInv, ChangesFormOneChain
  <2>3. change.previous = active
    BY DEF change
  <2>4. ASSUME NEW i \in DOMAIN log'
        PROVE  log'[i].previous = Predecessor(i)'
    <3>1. CASE i \in 1..Len(log)
      BY <1>6, <1>7, <2>2, <3>1
    <3>2. CASE i = Len(log) + 1
      BY <1>6, <1>7, <2>2, <2>3, <3>2
    <3> QED
      BY <1>6, <2>4, <3>1, <3>2
  <2>5. active' = Predecessor(Len(log) + 1)'
    <3>1. Len(log') + 1 \in {Len(log) + 2}
      BY <1>6
    <3> QED
      BY <1>3, <1>7, <3>1
  <2> QED
    BY <2>1, <2>4, <2>5 DEF ChangesFormOneChain
<1>11. ChangesAreJustified'
  <2>1. change.kind = call[a].kind /\ change.target = call[a].target /\ change.previous = active
    BY DEF change
  <2>2. ASSUME NEW i \in DOMAIN log'
        PROVE  IF log'[i].kind = "promote"
               THEN Measured(log'[i].target, log'[i].previous) /\ Evidence[log'[i].target].passes
               ELSE \E j \in 1..i : log'[i].target = Predecessor(j)'
    <3>1. CASE i \in 1..Len(log)
      <4>1. IF log[i].kind = "promote"
            THEN Measured(log[i].target, log[i].previous) /\ Evidence[log[i].target].passes
            ELSE \E j \in 1..i : log[i].target = Predecessor(j)
        BY <1>6, <3>1 DEF IInv, ChangesAreJustified
      <4>2. \A j \in 1..i : Predecessor(j)' = Predecessor(j)
        BY <1>6, <1>7, <3>1
      <4> QED
        BY <1>6, <3>1, <4>1, <4>2
    <3>2. CASE i = Len(log) + 1
      <4>1. CASE change.kind = "promote"
        BY <1>1, <1>6, <2>1, <3>2, <4>1 DEF Justified
      <4>2. CASE change.kind # "promote"
        <5>1. EverServed(change.target)
          BY <1>1, <1>2, <2>1, <4>2 DEF Justified, Kinds
        <5> QED
          BY <1>6, <1>7, <3>2, <4>2, <5>1 DEF EverServed, Served
      <4> QED
        BY <4>1, <4>2
    <3> QED
      BY <1>6, <2>2, <3>1, <3>2
  <2> QED
    BY <2>2 DEF ChangesAreJustified, Measured
<1>12. AuditIsTrue'
  <2> DEFINE Entry(c, A) == \E d \in A : /\ d.kind = c.kind /\ d.target = c.target
                                         /\ d.kind = "rollback" => d = c
  <2>1. audit \subseteq audit' /\ audit' \subseteq audit \cup {change}
    BY <1>3 DEF Recorded
  <2>2. Entry(change, audit')
    <3>1. CASE \E d \in audit : SameKey(change, d)
      <4>1. PICK d \in audit : SameKey(change, d)
        BY <3>1
      <4>2. d \in Change
        BY <1>5
      <4>3. d.kind = "rollback" => d = change
        BY <1>2, <4>1, <4>2 DEF SameKey, Change
      <4> QED
        BY <2>1, <4>1, <4>3 DEF SameKey
    <3>2. CASE ~\E d \in audit : SameKey(change, d)
      BY <1>3, <3>2 DEF Recorded
    <3> QED
      BY <3>1, <3>2
  <2>3. ASSUME NEW i \in DOMAIN log'
        PROVE  Entry(log'[i], audit')
    <3>1. CASE i \in 1..Len(log)
      <4>1. Entry(log[i], audit)
        BY <1>6, <3>1 DEF IInv, AuditIsTrue
      <4> QED
        BY <1>6, <2>1, <3>1, <4>1
    <3>2. CASE i = Len(log) + 1
      BY <1>6, <2>2, <3>2
    <3> QED
      BY <1>6, <2>3, <3>1, <3>2
  <2>4. ASSUME NEW c \in audit'
        PROVE  \E i \in DOMAIN log' : c = log'[i]
    <3>1. CASE c \in audit
      BY <1>6, <3>1 DEF IInv, AuditIsTrue
    <3>2. CASE c = change
      BY <1>6, <3>2
    <3> QED
      BY <2>1, <2>4, <3>1, <3>2
  <2> QED
    BY <2>3, <2>4 DEF AuditIsTrue
<1>13. HistoryIsServed'
  <2>1. ASSUME NEW v \in Versions, LeftCandidacy(v)'
        PROVE  EverServed(v)'
    <3>1. v = change.target \/ v = active \/ LeftCandidacy(v)
      BY <1>4, <2>1 DEF LeftCandidacy, IInv, TypeOK
    <3>2. LeftCandidacy(active)
      BY <1>1 DEF IInv, ChangesFormOneChain, LeftCandidacy
    <3> QED
      BY <1>1, <1>8, <3>1, <3>2 DEF IInv, HistoryIsServed
  <2> QED
    BY <2>1 DEF HistoryIsServed
<1>14. CallsAreJustified'
  <2>1. \A b \in Admins : call'[b] # None => Justified(call[b]) /\ call'[b] = call[b]
    BY DEF Activate, Ready, Done, IInv, TypeOK, CallsAreJustified
  <2>2. \A d : Justified(d) => Justified(d)'
    BY <1>8 DEF Justified, Measured
  <2> QED
    BY <2>1, <2>2 DEF CallsAreJustified
<1>15. score' = score /\ \A v \in Versions : LeftCandidacy(v) => LeftCandidacy(v)'
  BY <1>1, <1>4 DEF LeftCandidacy, IInv, TypeOK, Activate, Swap, scoring
<1>16. ScoresAreServed'
  <2>1. \A r \in ScoreCall : r.seen \in Versions
    BY DEF ScoreCall
  <2> QED
    BY <1>15, <2>1 DEF IInv, ScoresAreServed, ScoreServed
<1>17. CandidatesOnlyObserve'
  <2>1. ASSUME NEW r, r # None, \E j \in 1..(Len(log) + 1) : r = Predecessor(j)
        PROVE  \E j \in 1..(Len(log') + 1) : r = Predecessor(j)'
    BY <1>6, <1>7, <2>1
  <2> QED
    BY <1>15, <2>1 DEF IInv, CandidatesOnlyObserve
<1> QED
  BY <1>9, <1>10, <1>11, <1>12, <1>13, <1>14, <1>16, <1>17 DEF IInv

-----------------------------------------------------------------------------
(* Steps of score calls, and of the registry's surroundings *)

\* What an answered call shows is a version that served, and no candidate in its place.
Observes(r) ==
    /\ r.operative # None => r.operative = r.label /\ r.operative # r.shadow
    /\ r.label # None => EverServed(r.label)

LEMMA ScoreMoves ==
  ASSUME IInv, NEW i \in Investigations, NEW r \in ScoreCall \cup Ranking \cup {None},
         r \in ScoreCall => ScoreServed(r), r \in Ranking => Observes(r),
         score' = [score EXCEPT ![i] = r], cache' \subseteq Versions,
         UNCHANGED <<registry, intact, call, log>>
  PROVE  IInv'
<1>1. TypeOK'
  BY DEF IInv, TypeOK, registry
<1>2. \A j \in Investigations : score'[j] = IF j = i THEN r ELSE score[j]
  BY DEF IInv, TypeOK
<1>3. CandidatesOnlyObserve'
  BY <1>2 DEF IInv, CandidatesOnlyObserve, Observes, EverServed, Served, Predecessor
<1>4. ScoresAreServed'
  BY <1>2 DEF IInv, ScoresAreServed, ScoreServed, LeftCandidacy, registry
<1> QED
  BY <1>1, <1>3, <1>4, RegistryKept, CallsKept DEF IInv

LEMMA ScoreStarts ==
  ASSUME IInv, NEW i \in Investigations, StartScore(i)
  PROVE  IInv'
<1> DEFINE s == [step |-> "rows", seen |-> active, shadow |-> None]
<1>1. s \in ScoreCall
  BY DEF ScoreCall, IInv, TypeOK
<1>2. ScoreServed(s)
  BY DEF ScoreServed, LeftCandidacy, IInv, TypeOK, ChangesFormOneChain
<1>3. cache' \subseteq Versions
  BY DEF StartScore, IInv, TypeOK
<1> QED
  BY <1>1, <1>2, <1>3, ScoreStates, ScoreMoves DEF StartScore

\* What is read beside the active version is a candidate, and the active version is none.
LEMMA RowsRead ==
  ASSUME IInv, NEW i \in Investigations, ReadRows(i)
  PROVE  IInv'
<1> DEFINE s == [score[i] EXCEPT !.shadow = Newest(Candidates), !.step = "load"]
<1>1. score[i] \in ScoreCall /\ ScoreServed(score[i])
  BY DEF ReadRows, Scoring, IInv, ScoresAreServed
<1>2. Newest(Candidates) \in Candidates \cup {None}
  BY NewestTyped DEF Candidates
<1>3. s \in ScoreCall
  BY <1>1, <1>2 DEF ScoreCall, Candidates
<1>4. score[i].seen \in Versions /\ score[i].seen # None /\ score[i].seen \notin Candidates
  BY <1>1, PolicyParameters DEF ScoreCall, ScoreServed, LeftCandidacy, Candidates
<1>5. ScoreServed(s)
  BY <1>1, <1>2, <1>4 DEF ScoreServed, ScoreCall
<1>6. score' = [score EXCEPT ![i] = s] /\ cache' \subseteq Versions
  BY DEF ReadRows, IInv, TypeOK
<1>7. UNCHANGED <<registry, intact, call, log>>
  BY DEF ReadRows
<1> HIDE DEF s
<1> QED
  BY <1>3, <1>5, <1>6, <1>7, ScoreStates, ScoreMoves

LEMMA Ranked ==
  ASSUME IInv, NEW i \in Investigations, Rank(i) \/ RankFails(i)
  PROVE  IInv'
<1> DEFINE v == score[i].seen
           c == score[i].shadow
<1>1. score[i] \in ScoreCall /\ ScoreServed(score[i]) /\ score[i].step = "load"
  BY DEF Rank, RankFails, Scoring, IInv, ScoresAreServed
<1>2. v \in Versions /\ c \in Versions \cup {None} /\ c # v /\ EverServed(v)
  BY <1>1 DEF ScoreCall, ScoreServed, IInv, HistoryIsServed
<1>3. None \notin Versions
  BY PolicyParameters
<1>4. Loaded(v) \in {v, None} /\ Loaded(c) \in {c, None}
  BY DEF Loaded
<1>5. cache' \subseteq Versions
  BY <1>2, <1>4 DEF Rank, RankFails, LoadBoth, IInv, TypeOK
<1>6. CASE Rank(i)
  <2>0. PICK o \in Observed(i) :
          Reply(i, [label |-> v, operative |-> Operative(i), shadow |-> o,
                    degraded |-> ~Loadable(v) /\ v \notin Builtin])
    BY <1>6 DEF Rank
  <2> DEFINE r == [label |-> v, operative |-> Loaded(v), shadow |-> o,
                   degraded |-> ~Loadable(v) /\ v \notin Builtin]
  <2>4. o \in {c, None}
    BY <1>4 DEF Observed
  <2>1. r \in Ranking
    BY <1>2, <1>4, <2>4 DEF Ranking
  <2>2. Observes(r)
    BY <1>2, <1>3, <1>4, <2>4 DEF Observes
  <2>3. score' = [score EXCEPT ![i] = r] /\ UNCHANGED <<registry, intact, call, log>>
    BY <2>0 DEF Reply, Operative
  <2> HIDE DEF r
  <2> QED
    BY <1>5, <2>1, <2>2, <2>3, ScoreStates, ScoreMoves
<1>7. CASE RankFails(i)
  <2>0. PICK o \in Observed(i) :
          Reply(i, [label |-> v, operative |-> None, shadow |-> o, degraded |-> TRUE])
    BY <1>7 DEF RankFails
  <2> DEFINE r == [label |-> v, operative |-> None, shadow |-> o, degraded |-> TRUE]
  <2>1. r \in Ranking
    BY <1>2, <1>4 DEF Ranking, Observed
  <2>2. Observes(r)
    BY <1>2 DEF Observes
  <2>3. score' = [score EXCEPT ![i] = r] /\ UNCHANGED <<registry, intact, call, log>>
    BY <2>0 DEF Reply
  <2> HIDE DEF r
  <2> QED
    BY <1>5, <2>1, <2>2, <2>3, ScoreStates, ScoreMoves
<1> QED
  BY <1>6, <1>7

LEMMA UnrankedEnds ==
  ASSUME IInv, NEW i \in Investigations, RegistryFails(i) \/ Answered(i)
  PROVE  IInv'
<1>1. cache' \subseteq Versions
  BY DEF RegistryFails, Answered, IInv, TypeOK
<1>2. CASE RegistryFails(i)
  <2> DEFINE r == [label |-> None, operative |-> None, shadow |-> None, degraded |-> TRUE]
  <2>1. r \in Ranking /\ Observes(r)
    BY DEF Ranking, Observes
  <2>2. score' = [score EXCEPT ![i] = r] /\ UNCHANGED <<registry, intact, call, log>>
    BY <1>2 DEF RegistryFails, Reply
  <2> HIDE DEF r
  <2> QED
    BY <1>1, <2>1, <2>2, ScoreStates, ScoreMoves
<1>3. CASE Answered(i)
  BY <1>1, <1>3, ScoreStates, ScoreMoves DEF Answered, Reply
<1> QED
  BY <1>2, <1>3

LEMMA Registers ==
  ASSUME IInv, NEW v \in Versions, Register(v)
  PROVE  IInv'
<1>1. status' = [status EXCEPT ![v] = "candidate"] /\ status[v] = "absent"
        /\ UNCHANGED <<active, gateResult, audit, intact, call, scoring, log>>
  BY DEF Register
<1>2. TypeOK'
  BY <1>1 DEF IInv, TypeOK, Statuses, scoring
<1>3. \A w \in Versions : LeftCandidacy(w)' <=> LeftCandidacy(w)
  BY <1>1 DEF LeftCandidacy, IInv, TypeOK
<1>4. ChangesFormOneChain'
  BY <1>1 DEF IInv, TypeOK, ChangesFormOneChain, Predecessor
<1>5. ChangesAreJustified' /\ AuditIsTrue'
  BY <1>1 DEF IInv, ChangesAreJustified, AuditIsTrue, Predecessor, Measured
<1>6. HistoryIsServed'
  BY <1>1, <1>3 DEF IInv, HistoryIsServed, EverServed, Served, Predecessor
<1>7. CandidatesOnlyObserve'
  BY <1>1 DEF IInv, scoring, CandidatesOnlyObserve, Predecessor
<1>8. ScoresAreServed'
  <2>1. \A s \in ScoreCall : s.seen \in Versions
    BY DEF ScoreCall
  <2> QED
    BY <1>1, <1>3, <2>1 DEF IInv, scoring, ScoresAreServed, ScoreServed
<1> QED
  BY <1>1, <1>2, <1>4, <1>5, <1>6, <1>7, <1>8, CallsKept DEF IInv

LEMMA Surroundings ==
  ASSUME IInv, (\E v \in Versions : ArtifactChanges(v)) \/ UNCHANGED vars
  PROVE  IInv'
<1>1. UNCHANGED <<registry, call, scoring, log>> /\ intact' \subseteq Versions
  BY DEF ArtifactChanges, vars, IInv, TypeOK
<1>2. TypeOK'
  BY <1>1 DEF IInv, TypeOK, registry, scoring
<1> QED
  BY <1>1, <1>2, RegistryKept, CallsKept, ScoresKept DEF IInv, scoring

-----------------------------------------------------------------------------
LEMMA NextInv == IInv /\ [Next]_vars => IInv'
<1> SUFFICES ASSUME IInv, [Next]_vars PROVE IInv'
  OBVIOUS
<1>1. ASSUME NEW a \in Admins, Step(a) PROVE IInv'
  <2>1. ASSUME EvidenceStale(a) \/ ArtifactInvalid(a) \/ ActiveChanged(a) \/ SessionFails(a)
        PROVE  IInv'
    BY <2>1, Refused DEF EvidenceStale, ArtifactInvalid, ActiveChanged, SessionFails
  <2> QED
    BY <1>1, <2>1, CallStarts, CallProceeds, GateRecordsFailure, Activates DEF Step
<1>2. ASSUME NEW i \in Investigations, Score(i) PROVE IInv'
  BY <1>2, ScoreStarts, RowsRead, Ranked, UnrankedEnds DEF Score
<1> QED
  BY <1>1, <1>2, Registers, Surroundings DEF Next

\* The invariant behind the four properties of the policy life cycle.
THEOREM PolicyInvariant == Spec => []IInv
BY InitInv, NextInv, PTL DEF Spec

\* Registry, calls and answers keep their types (policy_service.py, repositories.py).
THEOREM Typing == Spec => []TypeOK
BY PolicyInvariant, PTL DEF IInv

\* The changes form one chain: each replaces what the one before it put there, and the
\* pointer and the status of its end agree, however many administrators promote and roll
\* back at once (repositories.py:876-917).
THEOREM ProductionIsOneChain == Spec => []ChangesFormOneChain
BY PolicyInvariant, PTL DEF IInv

\* A promotion replaced the baseline its evidence was measured against and passed the gate,
\* and a rollback restored a version that had served (policy_service.py:222-290).
THEOREM JustifiedChanges == Spec => []ChangesAreJustified
BY PolicyInvariant, PTL DEF IInv

\* Every audit entry is of a change that was made, every promoted version has one and so
\* has every pair of a restored and a replaced version (repositories.py:597-625).
THEOREM AuditTrailIsTrue == Spec => []AuditIsTrue
BY PolicyInvariant, PTL DEF IInv

\* A ranking comes from the version it names, which served, and never from the candidate
\* that is shown beside it (shadow_policy.py:99-128).
THEOREM CandidatesDecideNothing == Spec => []CandidatesOnlyObserve
BY PolicyInvariant, PTL DEF IInv
=============================================================================
