---------------------------- MODULE SlidingWindow ----------------------------
(***************************************************************************)
(* SlidingWindowAggregator: transactions arrive in event-time order and    *)
(* every slide boundary they pass closes one window.  The aggregator keeps *)
(* only the records a later window can still need.  A timestamp is a       *)
(* natural number of minutes; what a record says beside it is left to the  *)
(* modules that extend this one.                                           *)
(***************************************************************************)
EXTENDS Integers, FiniteSets

CONSTANTS
    Transactions,   \* the transactions of one stream
    Window,         \* detector_window_minutes
    Slide,          \* detector_slide_minutes
    MaxTime,        \* bound: the latest event time
    None            \* an attribute that is not set yet

ASSUME WindowParameters ==
    /\ Window \in Nat \ {0} /\ Slide \in Nat \ {0} /\ Slide <= Window
    /\ MaxTime \in Nat
    /\ None \notin Int

VARIABLES
    time,           \* the event time of each transaction of the stream
    records,        \* _records, the transactions still held
    streamStart,    \* _stream_start
    nextEmit,       \* _next_emit
    last,           \* _last_timestamp
    emitted         \* history: the windows returned so far

windowVars == <<time, records, streamStart, nextEmit, last, emitted>>

Times == 0..MaxTime
OnStream == {x \in Transactions : time[x] # None}

WindowTypeOK ==
    /\ time \in [Transactions -> Times \cup {None}]
    /\ records \subseteq OnStream
    /\ streamStart \in Times \cup {None}
    /\ nextEmit \in Nat \cup {None}
    /\ last \in Times \cup {None}
    /\ \A w \in emitted : w \in
         [end: Nat, rows: SUBSET Transactions, flushed: BOOLEAN]

WindowInit ==
    /\ time = [x \in Transactions |-> None]
    /\ records = {}
    /\ streamStart = None
    /\ nextEmit = None
    /\ last = None
    /\ emitted = {}

-------------------------------------------------------------------------------
(* The first slide boundary at or after t, counted from boundary b.        *)
BoundaryFrom(b, t) ==
    IF t <= b THEN b ELSE b + Slide * ((t - b + Slide - 1) \div Slide)

Between(t, end) == end - Window < t /\ t <= end

Snapshot(end, flush) ==
    [end |-> end, rows |-> {x \in records : Between(time[x], end)}, flushed |-> flush]

\* Mutated form: the loop of add also emits a boundary at the arrival itself
PassedAndAt(limit) == {e \in nextEmit..limit : (e - nextEmit) % Slide = 0}

(* The boundaries the loops of add and flush run over, and those of them   *)
(* that lie a full window after the start of the stream.                   *)
Passed(limit) == {e \in nextEmit..(limit - 1) : (e - nextEmit) % Slide = 0}
FullWindow(end) == end - streamStart >= Window
Emit(limit, flush) ==
    /\ emitted' = emitted \cup {Snapshot(e, flush) : e \in {p \in Passed(limit) : FullWindow(p)}}
    /\ nextEmit' = BoundaryFrom(nextEmit, limit)

InOrder(t) == last # None => t >= last
\* Mutated form: only one slide of records is kept
PruneToSlide(t) == {x \in records : time[x] > t - Slide}

Prune(t) == {x \in records : time[x] > t - Window}

Record(x, t) ==
    /\ time[x] = None /\ InOrder(t)
    /\ time' = [time EXCEPT ![x] = t]
    /\ records' = Prune(t) \cup {x}
    /\ last' = t

FirstAdd(x, t) ==
    /\ streamStart = None
    /\ Record(x, t)
    /\ streamStart' = t
    /\ nextEmit' = BoundaryFrom(0, t)
    /\ UNCHANGED emitted

LaterAdd(x, t) ==
    /\ streamStart # None
    /\ Record(x, t)
    /\ Emit(t, FALSE)
    /\ UNCHANGED streamStart

Flush ==
    /\ last # None
    /\ Emit(last + 1, TRUE)
    /\ UNCHANGED <<time, records, streamStart, last>>

(* A fresh aggregator: a reset, a change of score space, or a restart.     *)
Renew ==
    /\ time' = [x \in Transactions |-> None]
    /\ records' = {}
    /\ streamStart' = None
    /\ nextEmit' = None
    /\ last' = None
    /\ emitted' = {}

WindowNext ==
    \/ \E x \in Transactions, t \in Times : FirstAdd(x, t) \/ LaterAdd(x, t)
    \/ Flush
    \/ Renew

WindowSpec == WindowInit /\ [][WindowNext]_windowVars

-------------------------------------------------------------------------------
(* A window holds exactly the transactions of its period, whatever arrives *)
(* after it was emitted and although old records have been dropped.  Only  *)
(* a window flushed before a transaction with its very end time arrived    *)
(* misses that transaction (windows.py:101-108, 128-131).                  *)
WindowsAreExact ==
    \A w \in emitted :
        /\ \A x \in w.rows : x \in OnStream /\ Between(time[x], w.end)
        /\ \A x \in OnStream : Between(time[x], w.end) =>
               x \in w.rows \/ (w.flushed /\ time[x] = w.end)

(* Every slide boundary the stream has passed, from one full window after  *)
(* its start on, was emitted exactly once, and no other window was         *)
(* (windows.py:97-104).                                                    *)
GridIsCovered ==
    /\ \A v, w \in emitted : v.end = w.end => v = w
    /\ streamStart # None =>
         {w.end : w \in emitted} =
             {e \in 0..(nextEmit - 1) : e % Slide = 0 /\ FullWindow(e)}
===============================================================================
