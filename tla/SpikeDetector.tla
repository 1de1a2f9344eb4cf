---------------------------- MODULE SpikeDetector ----------------------------
(***************************************************************************)
(* TransactionService's path from a stored transaction to an incident:     *)
(* SlidingWindow closes windows, RiskDensitySpikeDetector judges them one  *)
(* after the other, and an alert becomes an incident row, two published    *)
(* events and an investigation.  All of it runs under the service's lock,  *)
(* and detector and aggregator live in memory only.                        *)
(*                                                                         *)
(* The statistics (baseline, lift, Poisson tail) are abstracted to the     *)
(* verdict they lead to: any window with enough transactions may be        *)
(* suspicious, any suspicious one extreme.  Of a score only its space      *)
(* matters: a change of space calls for a new reference.                   *)
(***************************************************************************)
EXTENDS SlidingWindow, FraudScorer, Sequences

CONSTANTS
    MinSupport,         \* detector_min_support
    ConfirmWindows,     \* detector_confirm_windows
    InactiveToClose,    \* detector_inactive_windows_to_close
    Cooldown,           \* detector_cooldown_minutes
    BaselineSpan,       \* detector_baseline_days, in minutes
    Day,                \* minutes of a day
    MaxLives            \* bound: lives of the in-memory state

ASSUME DetectorParameters ==
    /\ MinSupport \in Nat \ {0} /\ ConfirmWindows \in Nat \ {0}
    /\ InactiveToClose \in Nat \ {0} /\ Cooldown \in Nat
    /\ BaselineSpan \in Nat \ {0} /\ Day \in Nat \ {0} /\ MaxLives \in Nat \ {0}

VARIABLES
    consecutive,    \* _consecutive_suspicious
    inactive,       \* _inactive_windows
    active,         \* _active
    lastClose,      \* _last_close
    sequence,       \* _alert_sequence
    history,        \* _history: end times of the windows learnt since prime
    space,          \* score_space: that of the reference
    waiting,        \* the space of a batch that is scored and waits for the lock
    spaceOf,        \* the space each transaction of the stream was scored in
    pending,        \* windows of this call that _process_windows has yet to see
    step,           \* where create_from_alert stands
    alert,          \* the alert it was called with
    incidents,      \* the incident rows, each by the alert that created it
    triggered,      \* alerts whose investigation was scheduled
    life,           \* which life of the in-memory state this is
    log,            \* history: the windows of this life and their verdicts
    fired,          \* history: all alerts
    merged,         \* history: alerts answered with an existing incident
    lost            \* history: alerts whose handling failed or was cut short

detectorVars == <<consecutive, inactive, active, lastClose, sequence, history>>
scoreVars == <<scorer, space, waiting, spaceOf>>
incidentVars == <<step, alert, incidents, triggered, merged, lost>>
vars == <<windowVars, detectorVars, scoreVars, pending, incidentVars, life, log, fired>>

Alert == [end: Nat, seq: Nat, life: 1..MaxLives]
ASSUME NoneIsNoAlert == None \notin Alert
IncidentId(a) == <<a.end \div Day, a.seq>>      \* the date and the sequence number

TypeOK ==
    /\ WindowTypeOK
    /\ consecutive \in Nat /\ inactive \in 0..InactiveToClose - 1
    /\ active \in BOOLEAN /\ lastClose \in Nat \cup {None} /\ sequence \in Nat
    /\ history \subseteq Nat /\ pending \subseteq emitted
    /\ scorer \in Spaces /\ space \in Spaces /\ waiting \in Spaces \cup {None}
    /\ spaceOf \in [Transactions -> Spaces \cup {None}]
    /\ step \in {"ready", "create", "publish", "trigger"}
    /\ (step = "ready" /\ alert = None) \/ (step # "ready" /\ alert \in Alert)
    /\ life \in 1..MaxLives
    /\ \A s \in {incidents, triggered, fired, merged, lost} : s \subseteq Alert
    /\ log \in Seq([end: Nat, supported: BOOLEAN, suspicious: BOOLEAN,
                    extreme: BOOLEAN, fires: BOOLEAN])

(* A new detector, primed: the reference its statistics start from is part *)
(* of what is abstracted, and history counts from here.                    *)
DetectorInit ==
    /\ consecutive = 0 /\ inactive = 0 /\ active = FALSE
    /\ lastClose = None /\ sequence = 0 /\ history = {}

Init ==
    /\ WindowInit /\ DetectorInit
    /\ scorer \in Spaces /\ space = scorer
    /\ waiting = None /\ spaceOf = [x \in Transactions |-> None]
    /\ pending = {} /\ log = <<>>
    /\ step = "ready" /\ alert = None
    /\ incidents = {} /\ triggered = {}
    /\ fired = {} /\ merged = {} /\ lost = {} /\ life = 1

-------------------------------------------------------------------------------
Idle == step = "ready" /\ pending = {}

(* Mutated form: the scorer is compared, not the scores at hand.           *)
ScorerIsComparable(scored) == scorer = space

Comparable(scored) == scored = space

(* A call of the service holds its lock until all windows are processed.   *)
Add(x, t, scored) ==
    /\ Idle
    /\ Comparable(scored)
    /\ FirstAdd(x, t) \/ LaterAdd(x, t)
    /\ spaceOf' = [spaceOf EXCEPT ![x] = scored]
    /\ pending' = emitted' \ emitted
    /\ UNCHANGED <<detectorVars, space, incidentVars, life, log, fired>>

(* ingest scores under the lock.                                           *)
Arrive(x, t) == Score /\ Add(x, t, scorer') /\ UNCHANGED waiting

(* ingest_batch scores before it has the lock.  Its transactions are fed   *)
(* one by one.                                                             *)
ScoreBatch ==
    /\ waiting = None
    /\ Score
    /\ waiting' = scorer'
    /\ UNCHANGED <<windowVars, detectorVars, space, spaceOf, pending, incidentVars,
                   life, log, fired>>

ArriveBatch(x, t) ==
    /\ waiting # None
    /\ Add(x, t, waiting)
    /\ waiting' = None
    /\ UNCHANGED scorer

FlushStream ==
    /\ Idle
    /\ Flush
    /\ pending' = emitted' \ emitted
    /\ UNCHANGED <<detectorVars, scoreVars, incidentVars, life, log, fired>>

\* Mutated form: the windows of a call in the wrong order
LatestWindow == CHOOSE w \in pending : \A v \in pending : w.end >= v.end

NextWindow == CHOOSE w \in pending : \A v \in pending : w.end <= v.end
Supported(w) == Cardinality(w.rows) >= MinSupport

(* What the lift over the weighted baseline, the Poisson tail and the      *)
(* thresholds may come to.                                                 *)
Verdicts(w) == {"quiet"} \cup (IF Supported(w) THEN {"suspicious", "extreme"} ELSE {})

Trim(end) == {e \in history : e >= end - BaselineSpan}

CooldownOver(end) == lastClose = None \/ end - lastClose >= Cooldown
Confirmed(streak, extreme) == streak >= ConfirmWindows \/ extreme
Fires(end, extreme) ==
    Confirmed(consecutive + 1, extreme) /\ ~active /\ CooldownOver(end)

Logged(w, suspicious, extreme, fires) ==
    log' = Append(log, [end |-> w.end, supported |-> Supported(w),
                        suspicious |-> suspicious, extreme |-> extreme, fires |-> fires])

Suspicious(w, extreme) ==
    /\ consecutive' = consecutive + 1
    /\ inactive' = 0
    /\ history' = Trim(w.end)
    /\ Logged(w, TRUE, extreme, Fires(w.end, extreme))
    /\ UNCHANGED lastClose
    /\ IF Fires(w.end, extreme)
       THEN /\ active' = TRUE
            /\ sequence' = sequence + 1
            /\ alert' = [end |-> w.end, seq |-> sequence + 1, life |-> life]
            /\ fired' = fired \cup {alert'}
            /\ step' = "create"
       ELSE UNCHANGED <<active, sequence, alert, fired, step>>

\* Mutated form: the alert stays open one window too long
ClosesLate == inactive >= InactiveToClose

Closes == inactive + 1 >= InactiveToClose
\* Mutated form: quiet windows of an open alert are learnt too
LearntAlways(w) == IF Supported(w) THEN {w.end} ELSE {}

Learnt(w) == IF ~active /\ Supported(w) THEN {w.end} ELSE {}
Quiet(w) ==
    /\ consecutive' = 0
    /\ Logged(w, FALSE, FALSE, FALSE)
    /\ history' = Trim(w.end) \cup Learnt(w)
    /\ IF active
       THEN /\ active' = ~Closes
            /\ inactive' = IF Closes THEN 0 ELSE inactive + 1
            /\ lastClose' = IF Closes THEN w.end ELSE lastClose
       ELSE UNCHANGED <<active, inactive, lastClose>>
    /\ UNCHANGED <<sequence, alert, fired, step>>

(* detector.process on the earliest window, in the loop of _process_windows *)
Process ==
    /\ step = "ready" /\ pending # {}
    /\ \E verdict \in Verdicts(NextWindow) :
          IF verdict = "quiet" THEN Quiet(NextWindow)
          ELSE Suspicious(NextWindow, verdict = "extreme")
    /\ pending' = pending \ {NextWindow}
    /\ UNCHANGED <<windowVars, scoreVars, incidents, triggered, merged, lost, life>>

-------------------------------------------------------------------------------
\* Mutated form: only this life's rows
KnownThisLife(a) == \E i \in incidents : i.life = life /\ IncidentId(i) = IncidentId(a)

Known(a) == \E i \in incidents : IncidentId(i) = IncidentId(a)
Continue == step' = "ready" /\ alert' = None
outside == <<windowVars, detectorVars, scoreVars, life, log, fired>>

(* The transaction of create_from_alert: a new incident, or the one that   *)
(* already has this alert id.                                              *)
CreateIncident ==
    /\ step = "create" /\ ~Known(alert)
    /\ incidents' = incidents \cup {alert}
    /\ step' = "publish"
    /\ UNCHANGED <<alert, triggered, merged, lost, pending, outside>>

FindIncident ==
    /\ step = "create" /\ Known(alert)
    /\ merged' = merged \cup {alert}
    /\ Continue
    /\ UNCHANGED <<incidents, triggered, lost, pending, outside>>

Published ==
    /\ step = "publish"
    /\ step' = "trigger"
    /\ UNCHANGED <<alert, incidents, triggered, merged, lost, pending, outside>>

Trigger ==
    /\ step = "trigger"
    /\ triggered' = triggered \cup {alert}
    /\ Continue
    /\ UNCHANGED <<incidents, merged, lost, pending, outside>>

(* An error of the transaction, whose commit may have happened, or of one  *)
(* of the two sends: the exception ends the call with its other windows.   *)
HandlingFails ==
    /\ step \in {"create", "publish"}
    /\ \/ UNCHANGED incidents
       \/ step = "create" /\ ~Known(alert) /\ incidents' = incidents \cup {alert}
    /\ lost' = lost \cup {alert}
    /\ pending' = {}
    /\ Continue
    /\ UNCHANGED <<triggered, merged, outside>>

(* _prime_reference: the reference is scored, detector and aggregator are  *)
(* new.                                                                    *)
Prime ==
    /\ life < MaxLives
    /\ life' = life + 1
    /\ Renew
    /\ consecutive' = 0 /\ inactive' = 0 /\ active' = FALSE
    /\ lastClose' = None /\ sequence' = 0 /\ history' = {}
    /\ space' = scorer'
    /\ spaceOf' = [x \in Transactions |-> None]
    /\ pending' = {} /\ log' = <<>>
    /\ Continue
    /\ UNCHANGED <<incidents, triggered, fired, merged>>

(* A reset, or a transaction scored in another space, which is fed         *)
(* afterwards unless the database refuses it.                              *)
Reset ==
    /\ Idle
    /\ Score /\ Prime
    /\ UNCHANGED <<waiting, lost>>

(* A batch scored in another space.  When the new reference still is not   *)
(* in the space of the batch, ingest_batch raises and the batch is gone.   *)
ReprimeForBatch ==
    /\ Idle /\ waiting # None /\ ~Comparable(waiting)
    /\ Score /\ Prime
    /\ waiting' = IF scorer' = waiting THEN waiting ELSE None
    /\ UNCHANGED lost

(* A restart of the process, also in the middle of a call.                 *)
Restart ==
    /\ Load /\ Prime
    /\ waiting' = None
    /\ lost' = lost \cup ({alert} \ {None})

Handle == Process \/ CreateIncident \/ FindIncident \/ Published \/ Trigger
Next ==
    \/ \E x \in Transactions, t \in Times : Arrive(x, t) \/ ArriveBatch(x, t)
    \/ ScoreBatch
    \/ FlushStream
    \/ Handle
    \/ HandlingFails
    \/ Reset \/ ReprimeForBatch \/ Restart

Spec == Init /\ [][Next]_vars

-------------------------------------------------------------------------------
(* Whether an alert fired before window i of the log is still open at i:   *)
(* it was not followed by InactiveToClose quiet windows in a row.          *)
QuietRun(k) == \A m \in (k - InactiveToClose + 1)..k : ~log[m].suspicious
ClosedBy(j, k) == k - InactiveToClose >= j /\ QuietRun(k)
OpenAt(i) == \E j \in 1..(i - 1) :
    log[j].fires /\ \A k \in j..(i - 1) : ~ClosedBy(j, k)
(* The first window that closed the alert of window j.                     *)
CloseOf(j, k) == ClosedBy(j, k) /\ \A m \in j..(k - 1) : ~ClosedBy(j, m)
Cooling(i) == \E j, k \in 1..(i - 1) :
    log[j].fires /\ CloseOf(j, k) /\ log[i].end < log[k].end + Cooldown
Streak(i) == i >= ConfirmWindows /\ \A m \in (i - ConfirmWindows + 1)..i : log[m].suspicious

(* The detector alerts on a window exactly when the windows so far ask for *)
(* it: a suspicious one, extreme or the last of a confirming run, with no  *)
(* alert open and the cooldown of the last one over (detector.py:200-247). *)
AlertsFollowTheWindows ==
    \A i \in DOMAIN log :
        log[i].fires <=> /\ log[i].suspicious
                         /\ log[i].extreme \/ Streak(i)
                         /\ ~OpenAt(i) /\ ~Cooling(i)

(* The baseline is learnt only from supported quiet windows outside every  *)
(* alert, so an ongoing spike cannot raise the bar it is measured against, *)
(* and from no window older than its span (detector.py:151-153, 240-250).  *)
BaselineIsQuiet ==
    \A e \in history : \E i \in DOMAIN log :
        /\ log[i].end = e /\ log[i].supported /\ ~log[i].suspicious /\ ~OpenAt(i)
        /\ log[Len(log)].end - e <= BaselineSpan

(* Whatever the windows and their baseline compare was scored in one       *)
(* space, although a batch may be scored before another call makes the     *)
(* scorer fall back (transaction_service.py:176-184, 318-323).             *)
ScoresAreComparable == \A x \in OnStream : spaceOf[x] = space

(* Windows reach the detector in order, and one that was emitted and is    *)
(* not waiting any more was judged, unless the handling of an earlier      *)
(* alert of the same life failed (transaction_service.py:393-419).         *)
OnlyFailuresDropWindows ==
    /\ \A i, j \in DOMAIN log : i < j => log[i].end < log[j].end
    /\ \A w \in emitted \ pending :
         \/ \E i \in DOMAIN log : log[i].end = w.end
         \/ \E a \in lost : a.life = life /\ a.end < w.end

(* Every alert ends in its own incident and investigation, or its handling *)
(* failed, or it was taken for an alert of an earlier life of the process: *)
(* same day, same sequence number (detector.py:222, incident_service.py).  *)
(* No incident is investigated for two of them, however often the process  *)
(* restarts and its sequence starts again.                                 *)
AlertsAreAccountedFor ==
    /\ \A a \in fired : a \in triggered \cup merged \cup lost \cup {alert}
    /\ \A a \in merged : \E i \in incidents : IncidentId(i) = IncidentId(a) /\ i.life < a.life
    /\ triggered \subseteq incidents
    /\ incidents \subseteq triggered \cup lost \cup {alert}
    /\ \A a, b \in incidents : IncidentId(a) = IncidentId(b) => a = b
===============================================================================
