------------------------ MODULE SpikeDetectorProofs ------------------------
(***************************************************************************)
(* Proofs about the sliding windows and the spike detector.  A stream of   *)
(* any length, any window, slide and thresholds: the windows are exact and *)
(* lie on the grid of slide boundaries, they are judged in order, the      *)
(* alerts are those the windows ask for, and every alert is accounted for. *)
(***************************************************************************)
EXTENDS SpikeDetector, WellFoundedInduction, TLAPS

-------------------------------------------------------------------------------
(* The slide boundaries are the multiples of Slide.                        *)

LEMMA DivisionIsExact ==
  ASSUME NEW s \in Nat \ {0}, NEW a \in Int
  PROVE  /\ a \div s \in Int /\ a % s \in 0..(s - 1)
         /\ a = s * (a \div s) + (a % s)
BY SMT

LEMMA MultiplesHaveNoRest ==
  ASSUME NEW s \in Nat \ {0}, NEW k \in Int
  PROVE  (s * k) % s = 0
BY SMT

LEMMA SumsOfMultiples ==
  ASSUME NEW s \in Nat \ {0}, NEW a \in Int, NEW b \in Int, a % s = 0, b % s = 0
  PROVE  (a + b) % s = 0 /\ (a - b) % s = 0
<1>1. a = s * (a \div s) /\ b = s * (b \div s) /\ a \div s \in Int /\ b \div s \in Int
  BY DivisionIsExact, SMT
<1>2. a + b = s * ((a \div s) + (b \div s)) /\ a - b = s * ((a \div s) - (b \div s))
  BY <1>1, SMT
<1>3. /\ (s * ((a \div s) + (b \div s))) % s = 0
      /\ (s * ((a \div s) - (b \div s))) % s = 0
  <2>1. \A k \in Int : (s * k) % s = 0
    BY MultiplesHaveNoRest
  <2>2. (a \div s) + (b \div s) \in Int /\ (a \div s) - (b \div s) \in Int
    BY <1>1, SMT
  <2> QED BY <2>1, <2>2, Zenon
<1> QED BY <1>2, <1>3, Zenon

LEMMA DistanceToMultiple ==
  ASSUME NEW s \in Nat \ {0}, NEW a \in Int, NEW b \in Int, b % s = 0
  PROVE  (a - b) % s = 0 <=> a % s = 0
<1>1. a % s = 0 => (a - b) % s = 0
  BY SumsOfMultiples, Zenon
<1>2. ASSUME NEW d \in Int, d % s = 0, d + b = a PROVE a % s = 0
  BY <1>2, SumsOfMultiples
<1>3. (a - b) \in Int /\ (a - b) + b = a
  OBVIOUS
<1> QED BY <1>1, <1>2, <1>3

LEMMA MultiplesAreApart ==
  ASSUME NEW s \in Nat \ {0}, NEW a \in Int, a % s = 0, a > 0
  PROVE  a >= s
BY DivisionIsExact, SMT

(* The boundary after t is the least one that t has not passed.            *)
LEMMA BoundaryIsNext ==
  ASSUME NEW b \in Nat, NEW t \in Nat, b % Slide = 0
  PROVE  /\ BoundaryFrom(b, t) \in Nat
         /\ BoundaryFrom(b, t) % Slide = 0
         /\ BoundaryFrom(b, t) >= t /\ BoundaryFrom(b, t) >= b
         /\ \A e \in Nat : e >= b /\ e % Slide = 0 /\ e < BoundaryFrom(b, t) => e < t
<1>s. Slide \in Nat \ {0} BY WindowParameters
<1>1. CASE t <= b
  BY <1>1 DEF BoundaryFrom
<1>2. CASE t > b
  <2> DEFINE q == (t - b + Slide - 1) \div Slide
             n == BoundaryFrom(b, t)
  <2>1. n = b + Slide * q
    BY <1>2 DEF BoundaryFrom
  <2>2. q \in Int /\ Slide * q <= t - b + Slide - 1 /\ t - b + Slide - 1 < Slide * q + Slide
    BY <1>s, DivisionIsExact, SMT
  <2>3. Slide * q \in Int /\ (Slide * q) % Slide = 0
    BY <1>s, <2>2, MultiplesHaveNoRest
  <2>4. n \in Nat /\ n >= t /\ n >= b /\ n < t + Slide
    BY <1>s, <1>2, <2>1, <2>2, <2>3
  <2>5. n % Slide = 0
    <3>1. (b + Slide * q) % Slide = 0
      <4> HIDE DEF q
      <4> QED BY <1>s, <2>3, SumsOfMultiples
    <3> QED BY <2>1, <3>1, Zenon
  <2>6. ASSUME NEW e \in Nat, e % Slide = 0, e < n PROVE e < t
    <3>1. (n - e) % Slide = 0
      BY <1>s, <2>4, <2>5, <2>6, SumsOfMultiples
    <3>2. n - e >= Slide
      BY <1>s, <2>4, <2>6, <3>1, MultiplesAreApart
    <3> QED BY <1>s, <2>4, <3>2
  <2> QED BY <2>4, <2>5, <2>6
<1> QED BY <1>1, <1>2

-------------------------------------------------------------------------------
(* The aggregator.  What WindowsAreExact and GridIsCovered need beside     *)
(* themselves: the state begins with the first transaction, the next       *)
(* boundary is a multiple of Slide that the stream has not passed, every   *)
(* record a later window can reach is held, and windows lie behind both    *)
(* the stream and the next boundary.                                       *)
Begun ==
    /\ streamStart = None <=> last = None
    /\ nextEmit = None <=> last = None
    /\ last = None => OnStream = {} /\ emitted = {}

RecordsSuffice ==
    last # None =>
        /\ nextEmit % Slide = 0 /\ nextEmit >= last
        /\ \A x \in OnStream : time[x] <= last
        /\ \A x \in OnStream : time[x] > last - Window => x \in records

WindowsLieBehind ==
    \A w \in emitted :
        /\ last # None /\ w.end <= last /\ w.end < nextEmit
        /\ ~w.flushed => w.end < last

WindowIInv ==
    /\ WindowTypeOK /\ Begun /\ RecordsSuffice /\ WindowsLieBehind
    /\ WindowsAreExact /\ GridIsCovered

AWindow == [end: Nat, rows: SUBSET Transactions, flushed: BOOLEAN]

LEMMA TimesAreNumbers == Times \subseteq Nat /\ None \notin Times /\ None \notin Nat
BY WindowParameters DEF Times

LEMMA WindowInitHolds == WindowInit => WindowIInv
BY TimesAreNumbers DEF WindowInit, WindowIInv, WindowTypeOK, Begun, RecordsSuffice,
   WindowsLieBehind, WindowsAreExact, GridIsCovered, OnStream

(* The numbers of a stream that has begun.                                 *)
LEMMA StreamHasBegun ==
  ASSUME WindowIInv, last # None
  PROVE  /\ last \in Nat /\ streamStart \in Nat /\ nextEmit \in Nat
         /\ nextEmit % Slide = 0 /\ nextEmit >= last
         /\ Slide \in Nat \ {0} /\ Window \in Nat \ {0}
BY WindowParameters, TimesAreNumbers DEF WindowIInv, WindowTypeOK, Begun, RecordsSuffice

LEMMA TransactionsOnStream ==
  ASSUME WindowIInv
  PROVE  \A x \in OnStream : x \in Transactions /\ time[x] \in Nat /\ time[x] \in Times
BY TimesAreNumbers DEF WindowIInv, WindowTypeOK, OnStream

LEMMA SnapshotIsAWindow ==
  ASSUME WindowIInv, NEW e \in Nat, NEW flush \in BOOLEAN
  PROVE  Snapshot(e, flush) \in AWindow
BY DEF WindowIInv, WindowTypeOK, OnStream, Snapshot, AWindow

(* The boundaries a loop runs over are the multiples of Slide between the  *)
(* next boundary and its limit.                                            *)
LEMMA PassedBoundaries ==
  ASSUME WindowIInv, last # None, NEW limit \in Nat
  PROVE  Passed(limit) = {e \in Nat : e >= nextEmit /\ e < limit /\ e % Slide = 0}
<1>1. nextEmit \in Nat /\ nextEmit % Slide = 0 /\ Slide \in Nat \ {0}
  BY StreamHasBegun
<1>2. ASSUME NEW e \in Nat PROVE (e - nextEmit) % Slide = 0 <=> e % Slide = 0
  <2>1. e \in Int /\ nextEmit \in Int
    BY <1>1
  <2> QED BY <1>1, <2>1, DistanceToMultiple, Zenon
<1>3. \A e : e \in nextEmit..(limit - 1) <=> e \in Nat /\ e >= nextEmit /\ e < limit
  BY <1>1
<1> QED BY <1>2, <1>3, Zenon DEF Passed

LEMMA EmittedWindows ==
  ASSUME WindowIInv, last # None, NEW limit \in Nat, NEW flush \in BOOLEAN,
         Emit(limit, flush)
  PROVE  /\ \A w : w \in emitted' <=>
              \/ w \in emitted
              \/ \E e \in Nat : /\ e >= nextEmit /\ e < limit /\ e % Slide = 0
                                /\ FullWindow(e) /\ w = Snapshot(e, flush)
         /\ nextEmit' \in Nat /\ nextEmit' % Slide = 0
         /\ nextEmit' >= nextEmit /\ nextEmit' >= limit
         /\ \A e \in Nat : e >= nextEmit /\ e % Slide = 0 /\ e < nextEmit' => e < limit
<1>1. nextEmit \in Nat /\ nextEmit % Slide = 0 BY StreamHasBegun
<1>2. nextEmit' = BoundaryFrom(nextEmit, limit) BY DEF Emit
<1>3. \A w : w \in emitted' <=> w \in emitted \/ \E e \in Passed(limit) :
         FullWindow(e) /\ w = Snapshot(e, flush)
  BY DEF Emit
<1>4. \A e : e \in Passed(limit) <=>
         e \in Nat /\ e >= nextEmit /\ e < limit /\ e % Slide = 0
  BY PassedBoundaries
<1> HIDE DEF Passed, FullWindow, Snapshot
<1>5. \A w : w \in emitted' <=>
        \/ w \in emitted
        \/ \E e \in Nat : /\ e >= nextEmit /\ e < limit /\ e % Slide = 0
                          /\ FullWindow(e) /\ w = Snapshot(e, flush)
  BY <1>3, <1>4, Zenon
<1> QED BY <1>1, <1>2, <1>5, BoundaryIsNext

(* The grid after a loop.                                                  *)
LEMMA EmitKeepsTheGrid ==
  ASSUME WindowIInv, last # None, NEW limit \in Nat, NEW flush \in BOOLEAN,
         Emit(limit, flush), streamStart' = streamStart
  PROVE  GridIsCovered'
<1>n. /\ nextEmit \in Nat /\ nextEmit' \in Nat /\ streamStart \in Nat /\ Window \in Nat
      /\ streamStart # None
  BY StreamHasBegun, EmittedWindows DEF WindowIInv, Begun
<1>e. \A w : w \in emitted' <=>
        \/ w \in emitted
        \/ \E e \in Nat : /\ e >= nextEmit /\ e < limit /\ e % Slide = 0
                          /\ FullWindow(e) /\ w = Snapshot(e, flush)
  BY EmittedWindows
<1>b. /\ nextEmit' >= nextEmit /\ nextEmit' >= limit
      /\ \A e \in Nat : e >= nextEmit /\ e % Slide = 0 /\ e < nextEmit' => e < limit
  BY EmittedWindows
<1>s. \A e : Snapshot(e, flush).end = e
  BY DEF Snapshot
<1>o. \A w \in emitted : w.end \in Nat /\ w.end < nextEmit
  BY DEF WindowIInv, WindowTypeOK, WindowsLieBehind
<1>g. /\ \A v, w \in emitted : v.end = w.end => v = w
      /\ {w.end : w \in emitted} = {e \in 0..(nextEmit - 1) : e % Slide = 0 /\ FullWindow(e)}
  BY <1>n DEF WindowIInv, GridIsCovered
<1> HIDE DEF Snapshot, FullWindow
<1>1. ASSUME NEW v \in emitted', NEW w \in emitted', v.end = w.end PROVE v = w
  BY <1>1, <1>e, <1>s, <1>o, <1>g, <1>n
<1>f. \A e : FullWindow(e)' <=> FullWindow(e)
  BY DEF FullWindow
<1>2. ASSUME NEW e PROVE
        e \in {w.end : w \in emitted'} <=>
        e \in 0..(nextEmit' - 1) /\ e % Slide = 0 /\ FullWindow(e)
  <2>1. e \in {w.end : w \in emitted'} <=>
          \/ e \in {w.end : w \in emitted}
          \/ e \in Nat /\ e >= nextEmit /\ e < limit /\ e % Slide = 0 /\ FullWindow(e)
    <3>1. ASSUME NEW w \in emitted', e = w.end
          PROVE  \/ e \in {v.end : v \in emitted}
                 \/ e \in Nat /\ e >= nextEmit /\ e < limit /\ e % Slide = 0 /\ FullWindow(e)
      BY <1>e, <1>s, <3>1, Zenon
    <3>2. ASSUME e \in Nat, e >= nextEmit, e < limit, e % Slide = 0, FullWindow(e)
          PROVE  \E w \in emitted' : e = w.end
      <4>1. Snapshot(e, flush) \in emitted'
        BY <1>e, <3>2, Zenon
      <4> QED BY <4>1, <1>s, Zenon
    <3>3. \A w \in emitted : w \in emitted'
      BY <1>e, Zenon
    <3> QED BY <3>1, <3>2, <3>3, Zenon
  <2>2. e \in {w.end : w \in emitted} <=>
          e \in 0..(nextEmit - 1) /\ e % Slide = 0 /\ FullWindow(e)
    BY <1>g, Zenon
  <2> QED BY <2>1, <2>2, <1>n, <1>b
<1>3. {w.end : w \in emitted'} =
        {e \in 0..(nextEmit' - 1) : e % Slide = 0 /\ FullWindow(e)'}
  BY <1>2, <1>f, Zenon
<1> QED BY <1>1, <1>3 DEF GridIsCovered

(* The aggregator's steps preserve its invariant.                          *)
LEMMA FirstAddKeepsWindows ==
  ASSUME WindowIInv, NEW x \in Transactions, NEW t \in Times, FirstAdd(x, t)
  PROVE  WindowIInv'
<1>1. /\ last = None /\ OnStream = {} /\ emitted = {} /\ emitted' = {}
      /\ last' = t /\ streamStart' = t /\ nextEmit' = BoundaryFrom(0, t)
      /\ time' = [time EXCEPT ![x] = t] /\ records' = Prune(t) \cup {x}
  BY DEF WindowIInv, Begun, FirstAdd, Record
<1>2. t \in Nat /\ t # None /\ Slide \in Nat \ {0} /\ Window \in Nat \ {0}
  BY TimesAreNumbers, WindowParameters
<1>3. 0 % Slide = 0
  BY <1>2, MultiplesHaveNoRest
<1>4. /\ nextEmit' \in Nat /\ nextEmit' % Slide = 0 /\ nextEmit' >= t
      /\ \A e \in Nat : e >= 0 /\ e % Slide = 0 /\ e < nextEmit' => e < t
  BY <1>1, <1>2, <1>3, BoundaryIsNext
<1>5. records = {} /\ Prune(t) = {} /\ records' = {x}
  BY <1>1 DEF WindowIInv, WindowTypeOK, Prune
<1>6. time \in [Transactions -> Times \cup {None}]
  BY DEF WindowIInv, WindowTypeOK
<1>7. time'[x] = t /\ OnStream' = {x}
  BY <1>1, <1>2, <1>6 DEF OnStream
<1>8. WindowTypeOK'
  BY <1>1, <1>2, <1>4, <1>5, <1>6, <1>7 DEF WindowTypeOK
<1>9. Begun'
  BY <1>1, <1>2, <1>4, TimesAreNumbers DEF Begun
<1>10. RecordsSuffice' /\ WindowsLieBehind' /\ WindowsAreExact'
  BY <1>1, <1>2, <1>4, <1>5, <1>7 DEF RecordsSuffice, WindowsLieBehind, WindowsAreExact
<1>11. \A e \in 0..(nextEmit' - 1) : ~(e % Slide = 0 /\ FullWindow(e)')
  BY <1>1, <1>2, <1>4 DEF FullWindow
<1>12. GridIsCovered'
  BY <1>1, <1>11 DEF GridIsCovered
<1> QED BY <1>8, <1>9, <1>10, <1>12 DEF WindowIInv

LEMMA LaterAddKeepsWindows ==
  ASSUME WindowIInv, NEW x \in Transactions, NEW t \in Times, LaterAdd(x, t)
  PROVE  WindowIInv'
<1>1. /\ streamStart # None /\ last # None /\ time[x] = None /\ t >= last
      /\ last' = t /\ streamStart' = streamStart /\ Emit(t, FALSE)
      /\ time' = [time EXCEPT ![x] = t] /\ records' = Prune(t) \cup {x}
  BY DEF WindowIInv, Begun, LaterAdd, Record, InOrder
<1>2. t \in Nat /\ t # None BY TimesAreNumbers
<1>3. /\ last \in Nat /\ streamStart \in Nat /\ nextEmit \in Nat
      /\ nextEmit % Slide = 0 /\ nextEmit >= last
      /\ Slide \in Nat \ {0} /\ Window \in Nat \ {0}
  BY <1>1, StreamHasBegun
<1>4. /\ \A w : w \in emitted' <=>
              \/ w \in emitted
              \/ \E e \in Nat : /\ e >= nextEmit /\ e < t /\ e % Slide = 0
                                /\ FullWindow(e) /\ w = Snapshot(e, FALSE)
      /\ nextEmit' \in Nat /\ nextEmit' % Slide = 0
      /\ nextEmit' >= nextEmit /\ nextEmit' >= t
  BY <1>1, <1>2, EmittedWindows
<1>5. /\ time \in [Transactions -> Times \cup {None}] /\ records \subseteq OnStream
      /\ last \in Times /\ streamStart \in Times
      /\ \A w \in emitted : w \in AWindow
  BY <1>1 DEF WindowIInv, WindowTypeOK, AWindow
<1>6. /\ time'[x] = t /\ x \notin OnStream
      /\ \A y \in OnStream : time'[y] = time[y] /\ time[y] \in Nat /\ time[y] <= last
      /\ \A y : y \in OnStream' <=> y \in OnStream \/ y = x
  BY <1>1, <1>2, <1>5, TransactionsOnStream DEF OnStream, WindowIInv, RecordsSuffice
<1>7. \A e \in Nat : Snapshot(e, FALSE) \in AWindow
  BY SnapshotIsAWindow
<1>8. \A e : Snapshot(e, FALSE).end = e /\ Snapshot(e, FALSE).flushed = FALSE
  BY DEF Snapshot
<1>9. WindowTypeOK'
  <2>1. time' \in [Transactions -> Times \cup {None}]
    BY <1>1, <1>5
  <2>2. records' \subseteq OnStream'
    BY <1>1, <1>5, <1>6 DEF Prune
  <2>3. \A w \in emitted' : w \in AWindow
    BY <1>4, <1>5, <1>7, Zenon
  <2> QED BY <1>1, <1>4, <1>5, <2>1, <2>2, <2>3 DEF WindowTypeOK, AWindow
<1>10. Begun'
  BY <1>1, <1>2, <1>3, <1>4, TimesAreNumbers DEF Begun
<1>11. RecordsSuffice'
  <2>1. ASSUME NEW y \in OnStream', time'[y] > t - Window PROVE y \in records'
    BY <1>1, <1>2, <1>3, <1>6, <2>1 DEF Prune, WindowIInv, RecordsSuffice
  <2>2. \A y \in OnStream' : time'[y] <= t
    BY <1>1, <1>2, <1>3, <1>6
  <2> QED BY <1>1, <1>4, <2>1, <2>2 DEF RecordsSuffice
<1>12. WindowsLieBehind'
  <2>1. ASSUME NEW w \in emitted
        PROVE  w.end \in Nat /\ w.end <= t /\ w.end < nextEmit' /\ (~w.flushed => w.end < t)
    BY <1>1, <1>2, <1>3, <1>4, <1>5 DEF WindowIInv, WindowsLieBehind, AWindow
  <2>2. ASSUME NEW w \in emitted', w \notin emitted
        PROVE  w.end \in Nat /\ w.end <= t /\ w.end < nextEmit' /\ (~w.flushed => w.end < t)
    <3>1. PICK e \in Nat : e < t /\ w = Snapshot(e, FALSE)
      BY <1>4, <2>2, Zenon
    <3>2. w.end = e /\ w.flushed = FALSE
      BY <1>8, <3>1, Zenon
    <3>3. nextEmit' \in Nat /\ nextEmit' >= t
      BY <1>4, Zenon
    <3>4. e \in Nat /\ e < t
      BY <3>1, Zenon
    <3> QED BY <1>2, <3>2, <3>3, <3>4
  <2> QED BY <1>1, <1>2, <2>1, <2>2 DEF WindowsLieBehind
<1>13. WindowsAreExact'
  <2> SUFFICES ASSUME NEW w \in emitted'
        PROVE  /\ \A y \in w.rows : y \in OnStream' /\ Between(time'[y], w.end)
               /\ \A y \in OnStream' : Between(time'[y], w.end) =>
                      y \in w.rows \/ (w.flushed /\ time'[y] = w.end)
    BY DEF WindowsAreExact, Between
  <2>1. CASE w \in emitted
    <3>1. /\ \A y \in w.rows : y \in OnStream /\ Between(time[y], w.end)
          /\ \A y \in OnStream : Between(time[y], w.end) =>
                 y \in w.rows \/ (w.flushed /\ time[y] = w.end)
      BY <2>1 DEF WindowIInv, WindowsAreExact
    <3>2. w.end \in Nat /\ w.end <= last /\ (~w.flushed => w.end < last)
      BY <2>1, <1>5 DEF WindowIInv, WindowsLieBehind, AWindow
    <3>3. w.flushed \in BOOLEAN
      BY <2>1, <1>5 DEF AWindow
    <3>4. Between(t, w.end) => w.flushed /\ t = w.end
      BY <1>1, <1>2, <1>3, <3>2, <3>3 DEF Between
    <3>5. ASSUME NEW y \in w.rows PROVE y \in OnStream' /\ Between(time'[y], w.end)
      <4>1. y \in OnStream /\ Between(time[y], w.end)
        BY <3>1, <3>5
      <4>2. time'[y] = time[y] /\ y \in OnStream'
        BY <1>6, <4>1
      <4> QED BY <4>1, <4>2, Zenon
    <3>6. ASSUME NEW y \in OnStream', Between(time'[y], w.end)
          PROVE  y \in w.rows \/ (w.flushed /\ time'[y] = w.end)
      <4>1. CASE y = x
        BY <1>6, <3>4, <3>6, <4>1, Zenon
      <4>2. CASE y # x
        <5>1. y \in OnStream /\ time'[y] = time[y]
          BY <1>6, <4>2
        <5> QED BY <3>1, <3>6, <5>1, Zenon
      <4> QED BY <4>1, <4>2
    <3> QED BY <3>5, <3>6
  <2>2. CASE w \notin emitted
    <3>1. PICK e \in Nat : e >= nextEmit /\ e < t /\ w = Snapshot(e, FALSE)
      BY <1>4, <2>2, Zenon
    <3>2. w.end = e /\ w.rows = {y \in records : Between(time[y], e)}
      BY <3>1 DEF Snapshot
    <3>3. \A y \in w.rows : y \in OnStream' /\ Between(time'[y], e)
      BY <1>5, <1>6, <3>2, Zenon
    <3>4. ASSUME NEW y \in OnStream', Between(time'[y], e) PROVE y \in w.rows
      <4>1. y # x
        BY <1>2, <1>6, <3>1, <3>4 DEF Between
      <4>2. y \in OnStream /\ time[y] > last - Window /\ Between(time[y], e)
        BY <1>3, <1>6, <3>1, <3>4, <4>1 DEF Between
      <4> QED BY <1>1, <3>2, <4>2 DEF WindowIInv, RecordsSuffice
    <3> QED BY <3>2, <3>3, <3>4
  <2> QED BY <2>1, <2>2
<1>14. GridIsCovered'
  BY <1>1, <1>2, EmitKeepsTheGrid
<1> QED BY <1>9, <1>10, <1>11, <1>12, <1>13, <1>14 DEF WindowIInv

LEMMA FlushKeepsWindows ==
  ASSUME WindowIInv, Flush
  PROVE  WindowIInv'
<1>1. /\ last # None /\ Emit(last + 1, TRUE) /\ last' = last /\ streamStart' = streamStart
      /\ time' = time /\ records' = records
  BY DEF Flush
<1>3. /\ last \in Nat /\ streamStart \in Nat /\ nextEmit \in Nat /\ last + 1 \in Nat
      /\ nextEmit % Slide = 0 /\ nextEmit >= last
      /\ Slide \in Nat \ {0} /\ Window \in Nat \ {0}
  BY <1>1, StreamHasBegun
<1>4. /\ \A w : w \in emitted' <=>
              \/ w \in emitted
              \/ \E e \in Nat : /\ e >= nextEmit /\ e < last + 1 /\ e % Slide = 0
                                /\ FullWindow(e) /\ w = Snapshot(e, TRUE)
      /\ nextEmit' \in Nat /\ nextEmit' % Slide = 0
      /\ nextEmit' >= nextEmit /\ nextEmit' >= last + 1
  BY <1>1, <1>3, EmittedWindows
<1>5. records \subseteq OnStream /\ (\A w \in emitted : w \in AWindow)
  BY DEF WindowIInv, WindowTypeOK, AWindow
<1>6. OnStream' = OnStream
  BY <1>1 DEF OnStream
<1>7. \A e \in Nat : Snapshot(e, TRUE) \in AWindow
  BY SnapshotIsAWindow
<1>8. \A e : Snapshot(e, TRUE).end = e /\ Snapshot(e, TRUE).flushed = TRUE
  BY DEF Snapshot
<1>9. WindowTypeOK'
  <2>1. \A w \in emitted' : w \in AWindow
    BY <1>4, <1>5, <1>7, Zenon
  <2> QED BY <1>1, <1>4, <1>6, <2>1 DEF WindowTypeOK, AWindow, WindowIInv
<1>10. Begun'
  BY <1>1, <1>3, <1>4, TimesAreNumbers DEF Begun, WindowIInv
<1>11. RecordsSuffice'
  <2>1. /\ \A x \in OnStream : time[x] <= last
        /\ \A x \in OnStream : time[x] > last - Window => x \in records
    BY <1>1 DEF RecordsSuffice, WindowIInv
  <2>2. nextEmit' >= last
    BY <1>3, <1>4
  <2> QED BY <1>1, <1>4, <1>6, <2>1, <2>2 DEF RecordsSuffice
<1>12. WindowsLieBehind'
  <2>1. ASSUME NEW w \in emitted
        PROVE  w.end \in Nat /\ w.end <= last /\ w.end < nextEmit' /\ (~w.flushed => w.end < last)
    BY <1>1, <1>3, <1>4, <1>5 DEF WindowIInv, WindowsLieBehind, AWindow
  <2>2. ASSUME NEW w \in emitted', w \notin emitted
        PROVE  w.end \in Nat /\ w.end <= last /\ w.end < nextEmit' /\ w.flushed
    <3>1. PICK e \in Nat : e < last + 1 /\ w = Snapshot(e, TRUE)
      BY <1>4, <2>2, Zenon
    <3>2. w.end = e /\ w.flushed = TRUE
      BY <1>8, <3>1, Zenon
    <3>3. nextEmit' \in Nat /\ nextEmit' >= last + 1
      BY <1>4, Zenon
    <3>4. e \in Nat /\ e < last + 1
      BY <3>1, Zenon
    <3> QED BY <1>3, <3>2, <3>3, <3>4
  <2> QED BY <1>1, <2>1, <2>2 DEF WindowsLieBehind
<1>13. WindowsAreExact'
  <2> SUFFICES ASSUME NEW w \in emitted'
        PROVE  /\ \A y \in w.rows : y \in OnStream /\ Between(time[y], w.end)
               /\ \A y \in OnStream : Between(time[y], w.end) =>
                      y \in w.rows \/ (w.flushed /\ time[y] = w.end)
    BY <1>1, <1>6 DEF WindowsAreExact
  <2>1. CASE w \in emitted
    BY <2>1 DEF WindowIInv, WindowsAreExact
  <2>2. CASE w \notin emitted
    <3>1. PICK e \in Nat : e >= nextEmit /\ w = Snapshot(e, TRUE)
      BY <1>4, <2>2, Zenon
    <3>2. w.end = e /\ w.rows = {y \in records : Between(time[y], e)}
      BY <3>1 DEF Snapshot
    <3>3. \A y \in w.rows : y \in OnStream /\ Between(time[y], e)
      BY <1>5, <3>2, Zenon
    <3>4. ASSUME NEW y \in OnStream, Between(time[y], e) PROVE y \in w.rows
      <4>1. time[y] > last - Window
        BY <1>3, <3>1, <3>4, TransactionsOnStream DEF Between
      <4> QED BY <1>1, <3>2, <3>4, <4>1 DEF WindowIInv, RecordsSuffice
    <3> QED BY <3>2, <3>3, <3>4
  <2> QED BY <2>1, <2>2
<1>14. GridIsCovered'
  BY <1>1, <1>3, EmitKeepsTheGrid
<1> QED BY <1>9, <1>10, <1>11, <1>12, <1>13, <1>14 DEF WindowIInv

LEMMA RenewKeepsWindows == Renew => WindowIInv'
BY TimesAreNumbers DEF Renew, WindowIInv, WindowTypeOK, Begun, RecordsSuffice,
   WindowsLieBehind, WindowsAreExact, GridIsCovered, OnStream

LEMMA StutterKeepsWindows == WindowIInv /\ UNCHANGED windowVars => WindowIInv'
BY DEF windowVars, WindowIInv, WindowTypeOK, Begun, RecordsSuffice, WindowsLieBehind,
   WindowsAreExact, GridIsCovered, OnStream, Between, FullWindow

LEMMA WindowStep == WindowIInv /\ [WindowNext]_windowVars => WindowIInv'
BY FirstAddKeepsWindows, LaterAddKeepsWindows, FlushKeepsWindows, RenewKeepsWindows,
   StutterKeepsWindows, Zenon DEF WindowNext

(* On its own too, the aggregator keeps its windows exact and on the grid  *)
(* (windows.py:84-131).                                                    *)
THEOREM WindowInvariant == WindowSpec => [](WindowsAreExact /\ GridIsCovered)
<1>1. WindowInit => WindowIInv
  BY WindowInitHolds
<1>2. WindowIInv /\ [WindowNext]_windowVars => WindowIInv'
  BY WindowStep
<1>3. WindowIInv => WindowsAreExact /\ GridIsCovered
  BY DEF WindowIInv
<1> QED BY <1>1, <1>2, <1>3, PTL DEF WindowSpec

-------------------------------------------------------------------------------
(* The log.  Judging a window appends to it, and nothing that is said      *)
(* about the earlier windows changes.                                      *)
Judged == [end: Nat, supported: BOOLEAN, suspicious: BOOLEAN, extreme: BOOLEAN, fires: BOOLEAN]

LEMMA LogGrows ==
  ASSUME log \in Seq(Judged), NEW r \in Judged, log' = Append(log, r)
  PROVE  /\ log' \in Seq(Judged) /\ Len(log') = Len(log) + 1 /\ Len(log) \in Nat
         /\ DOMAIN log = 1..Len(log) /\ DOMAIN log' = 1..(Len(log) + 1)
         /\ \A i \in 1..Len(log) : log'[i] = log[i]
         /\ log'[Len(log) + 1] = r
OBVIOUS

LEMMA LogEntries ==
  ASSUME log \in Seq(Judged)
  PROVE  /\ Len(log) \in Nat /\ DOMAIN log = 1..Len(log)
         /\ \A i \in 1..Len(log) : /\ log[i] \in Judged /\ log[i].end \in Nat
                                   /\ log[i].suspicious \in BOOLEAN /\ log[i].fires \in BOOLEAN
<1>1. Len(log) \in Nat /\ DOMAIN log = 1..Len(log) /\ \A i \in 1..Len(log) : log[i] \in Judged
  OBVIOUS
<1>2. \A e \in Judged : e.end \in Nat /\ e.suspicious \in BOOLEAN /\ e.fires \in BOOLEAN
  BY DEF Judged
<1> QED BY <1>1, <1>2, Zenon

LEMMA Thresholds ==
  /\ MinSupport \in Nat \ {0} /\ ConfirmWindows \in Nat \ {0}
  /\ InactiveToClose \in Nat \ {0} /\ Cooldown \in Nat
  /\ BaselineSpan \in Nat \ {0} /\ Day \in Nat \ {0} /\ MaxLives \in Nat \ {0}
BY DetectorParameters

LEMMA ClosingIsSettled ==
  ASSUME log \in Seq(Judged), NEW r \in Judged, log' = Append(log, r),
         NEW j \in Nat \ {0}, NEW k \in 0..Len(log)
  PROVE  ClosedBy(j, k)' <=> ClosedBy(j, k)
<1>1. Len(log) \in Nat /\ \A i \in 1..Len(log) : log'[i] = log[i]
  BY LogGrows
<1>2. ASSUME k - InactiveToClose >= j, NEW m \in (k - InactiveToClose + 1)..k
      PROVE  log'[m] = log[m]
  BY <1>1, <1>2, Thresholds
<1> QED BY <1>2, Zenon DEF ClosedBy, QuietRun

LEMMA OpeningIsSettled ==
  ASSUME log \in Seq(Judged), NEW r \in Judged, log' = Append(log, r),
         NEW i \in 1..(Len(log) + 1)
  PROVE  OpenAt(i)' <=> OpenAt(i)
<1>1. Len(log) \in Nat /\ \A m \in 1..Len(log) : log'[m] = log[m]
  BY LogGrows
<1>2. ASSUME NEW j \in 1..(i - 1)
      PROVE  log'[j] = log[j] /\ \A k \in j..(i - 1) : ClosedBy(j, k)' <=> ClosedBy(j, k)
  <2>1. j \in Nat \ {0} /\ log'[j] = log[j]
    BY <1>1
  <2>2. \A k \in j..(i - 1) : k \in 0..Len(log)
    BY <1>1
  <2> QED BY <2>1, <2>2, ClosingIsSettled
<1> HIDE DEF ClosedBy
<1>3. ASSUME NEW j \in 1..(i - 1)
      PROVE  (log'[j].fires /\ \A k \in j..(i - 1) : ~ClosedBy(j, k)')
             <=> (log[j].fires /\ \A k \in j..(i - 1) : ~ClosedBy(j, k))
  BY <1>2, Zenon
<1> QED BY <1>3, Zenon DEF OpenAt

LEMMA FirstCloseIsSettled ==
  ASSUME log \in Seq(Judged), NEW r \in Judged, log' = Append(log, r),
         NEW j \in 1..Len(log), NEW k \in 1..Len(log)
  PROVE  CloseOf(j, k)' <=> CloseOf(j, k)
<1>1. Len(log) \in Nat BY LogGrows
<1>2. j \in Nat \ {0} /\ k \in 0..Len(log) /\ \A m \in j..(k - 1) : m \in 0..Len(log)
  BY <1>1
<1>3. /\ ClosedBy(j, k)' <=> ClosedBy(j, k)
      /\ \A m \in j..(k - 1) : ClosedBy(j, m)' <=> ClosedBy(j, m)
  BY <1>2, ClosingIsSettled
<1> QED BY <1>3, Zenon DEF CloseOf

LEMMA CoolingIsSettled ==
  ASSUME log \in Seq(Judged), NEW r \in Judged, log' = Append(log, r),
         NEW i \in 1..Len(log)
  PROVE  Cooling(i)' <=> Cooling(i)
<1>1. Len(log) \in Nat /\ \A m \in 1..Len(log) : log'[m] = log[m]
  BY LogGrows
<1>2. \A j \in 1..(i - 1) : j \in 1..Len(log)
  BY <1>1
<1>3. ASSUME NEW j \in 1..(i - 1), NEW k \in 1..(i - 1)
      PROVE  /\ log'[j] = log[j] /\ log'[k] = log[k] /\ log'[i] = log[i]
             /\ CloseOf(j, k)' <=> CloseOf(j, k)
  BY <1>1, <1>2, FirstCloseIsSettled
<1>4. ASSUME NEW j \in 1..(i - 1), NEW k \in 1..(i - 1)
      PROVE  (log[j].fires /\ CloseOf(j, k) /\ log[i].end < log[k].end + Cooldown)'
             <=> (log[j].fires /\ CloseOf(j, k) /\ log[i].end < log[k].end + Cooldown)
  BY <1>3, Zenon
<1> QED BY <1>4, Zenon DEF Cooling

LEMMA StreakIsSettled ==
  ASSUME log \in Seq(Judged), NEW r \in Judged, log' = Append(log, r),
         NEW i \in 1..Len(log)
  PROVE  Streak(i)' <=> Streak(i)
<1>1. Len(log) \in Nat /\ \A m \in 1..Len(log) : log'[m] = log[m]
  BY LogGrows
<1>2. ASSUME i >= ConfirmWindows, NEW m \in (i - ConfirmWindows + 1)..i
      PROVE  log'[m] = log[m]
  BY <1>1, <1>2, Thresholds
<1> QED BY <1>2, Zenon DEF Streak

-------------------------------------------------------------------------------
(* What the detector's variables stand for in the log.  _consecutive is    *)
(* the length of the run of suspicious windows at its end.                 *)
StreakIsCounted ==
    /\ consecutive <= Len(log)
    /\ \A m \in (Len(log) - consecutive + 1)..Len(log) : log[m].suspicious
    /\ consecutive < Len(log) => ~log[Len(log) - consecutive].suspicious

(* _active says that an alert is open after the last window; the windows   *)
(* after Rest are the quiet ones that _inactive counts.                    *)
Rest == Len(log) - inactive
OpenSince(j) ==
    /\ log[j].fires /\ log[Rest].suspicious
    /\ \A m \in (Rest + 1)..Len(log) : ~log[m].suspicious
    /\ \A k \in j..Len(log) : ~ClosedBy(j, k)
ActiveIsOpen ==
    /\ active => \E j \in 1..Rest : OpenSince(j)
    /\ ~active => inactive = 0 /\ \A j \in 1..Len(log) :
                     log[j].fires => \E k \in j..Len(log) : ClosedBy(j, k)

(* _last_close is the end of the last window that closed an alert.         *)
Closing(j, k) == log[j].fires /\ CloseOf(j, k)
LastCloseIsLast ==
    /\ lastClose = None => \A j, k \in 1..Len(log) : ~Closing(j, k)
    /\ lastClose # None =>
         /\ \E j, k \in 1..Len(log) : Closing(j, k) /\ log[k].end = lastClose
         /\ \A j, k \in 1..Len(log) : Closing(j, k) => log[k].end <= lastClose

WindowsInOrder == \A i, j \in 1..Len(log) : i < j => log[i].end < log[j].end

DetectorTypeOK ==
    /\ consecutive \in Nat /\ inactive \in 0..(InactiveToClose - 1)
    /\ active \in BOOLEAN /\ lastClose \in Nat \cup {None} /\ sequence \in Nat
    /\ history \subseteq Nat /\ log \in Seq(Judged)

LEMMA StreakStep ==
  ASSUME DetectorTypeOK, StreakIsCounted, NEW n \in Nat, n = Len(log), NEW p \in Nat, p = n + 1,
         NEW r \in Judged, log' = Append(log, r),
         consecutive' = IF r.suspicious THEN consecutive + 1 ELSE 0
  PROVE  /\ StreakIsCounted'
         /\ r.suspicious => (Streak(p)' <=> consecutive + 1 >= ConfirmWindows)
<1>1. /\ n \in Nat /\ Len(log') = n + 1 /\ consecutive \in Nat
      /\ (\A i \in 1..n : log'[i] = log[i]) /\ log'[n + 1] = r
  BY LogGrows DEF DetectorTypeOK
<1>2. /\ consecutive <= n
      /\ \A m \in (n - consecutive + 1)..n : log[m].suspicious
      /\ consecutive < n => ~log[n - consecutive].suspicious
  BY DEF StreakIsCounted
<1>3. r.suspicious \in BOOLEAN
  BY DEF Judged
<1>4. CASE r.suspicious
  <2>1. consecutive' = consecutive + 1
    BY <1>4
  <2>2. \A m \in (n - consecutive + 1)..(n + 1) : log'[m].suspicious
    BY <1>1, <1>2, <1>4
  <2>3. consecutive < n => ~log'[n - consecutive].suspicious
    BY <1>1, <1>2
  <2>4. StreakIsCounted'
    <3>1. (n + 1) - (consecutive + 1) = n - consecutive
      BY <1>1
    <3>2. consecutive + 1 <= n + 1 /\ (consecutive + 1 < n + 1 <=> consecutive < n)
      BY <1>1, <1>2
    <3> QED BY <1>1, <2>1, <2>2, <2>3, <3>1, <3>2, Zenon DEF StreakIsCounted
  <2>5. Streak(p)' <=>
          p >= ConfirmWindows /\ \A m \in (p - ConfirmWindows + 1)..p : log'[m].suspicious
    BY Zenon DEF Streak
  <2>6. ASSUME consecutive + 1 >= ConfirmWindows,
               NEW m \in (p - ConfirmWindows + 1)..p
        PROVE  log'[m].suspicious
    <3>1. m \in (n - consecutive + 1)..(n + 1)
      BY <1>1, <2>6, Thresholds
    <3> QED BY <2>2, <3>1, Zenon
  <2>7. ASSUME consecutive + 1 < ConfirmWindows, p >= ConfirmWindows
        PROVE  n - consecutive \in (p - ConfirmWindows + 1)..p /\ consecutive < n
    BY <1>1, <2>7, Thresholds
  <2>8. consecutive + 1 >= ConfirmWindows => p >= ConfirmWindows
    BY <1>1, <1>2, Thresholds
  <2>9. ConfirmWindows \in Nat /\ (~(consecutive + 1 >= ConfirmWindows) => consecutive + 1 < ConfirmWindows)
    BY <1>1, Thresholds
  <2>10. Streak(p)' <=> consecutive + 1 >= ConfirmWindows
    BY <2>3, <2>5, <2>6, <2>7, <2>8, <2>9, Zenon
  <2> QED BY <2>4, <2>10
<1>5. CASE ~r.suspicious
  BY <1>1, <1>5 DEF StreakIsCounted
<1> QED BY <1>3, <1>4, <1>5

(* An alert is open after the last window exactly when _active says so.    *)
LEMMA ActiveMeansOpen ==
  ASSUME DetectorTypeOK, ActiveIsOpen
  PROVE  active <=> OpenAt(Len(log) + 1)
<1>1. Len(log) \in Nat /\ inactive \in Nat /\ active \in BOOLEAN /\ (Len(log) + 1) - 1 = Len(log)
  BY LogEntries, Thresholds DEF DetectorTypeOK
<1>2. Rest <= Len(log) /\ \A j \in 1..Rest : j \in 1..Len(log)
  BY <1>1 DEF Rest
<1>3. OpenAt(Len(log) + 1) <=>
        \E j \in 1..Len(log) : log[j].fires /\ \A k \in j..Len(log) : ~ClosedBy(j, k)
  BY <1>1, Zenon DEF OpenAt
<1> QED BY <1>1, <1>2, <1>3, Zenon DEF ActiveIsOpen, OpenSince

(* A quiet window closes the open alert or adds to its quiet ones.         *)
LEMMA QuietIsClosing ==
  ASSUME DetectorTypeOK, ActiveIsOpen, active, NEW n \in Nat, n = Len(log), NEW p \in Nat, p = n + 1,
         NEW r \in Judged, log' = Append(log, r),
         ~r.suspicious, AlertsFollowTheWindows
  PROVE  /\ Closes => /\ \E j \in 1..n : /\ log[j].fires /\ ClosedBy(j, p)'
                                               /\ \A k \in j..n : ~ClosedBy(j, k)
                      /\ \A j \in 1..n : log[j].fires => ClosedBy(j, p)'
         /\ ~Closes => \A j \in 1..n : ~ClosedBy(j, p)'
<1>1. /\ n \in Nat /\ (\A i \in 1..n : log'[i] = log[i]) /\ log'[n + 1] = r
      /\ inactive \in 0..(InactiveToClose - 1) /\ inactive \in Nat /\ DOMAIN log = 1..n
  BY LogGrows, Thresholds DEF DetectorTypeOK
<1>2. PICK j \in 1..Rest : OpenSince(j)
  BY DEF ActiveIsOpen
<1>3. /\ log[Rest].suspicious /\ \A m \in (Rest + 1)..n : ~log[m].suspicious
      /\ log[j].fires /\ \A k \in j..n : ~ClosedBy(j, k)
  BY <1>2 DEF OpenSince
<1>4. Rest = n - inactive /\ Rest \in 1..n
  BY <1>1, <1>2 DEF Rest
<1>5. \A i \in 1..n : log[i].fires => log[i].suspicious /\ i <= Rest
  <2>1. \A i \in 1..n : log[i].fires => log[i].suspicious
    BY <1>1, Zenon DEF AlertsFollowTheWindows
  <2> QED BY <1>1, <1>3, <1>4, <2>1
<1> HIDE DEF Rest
<1>6. ASSUME Closes, NEW i \in 1..Rest
      PROVE  ClosedBy(i, p)'
  <2>1. inactive = InactiveToClose - 1 /\ p - InactiveToClose >= i
    BY <1>1, <1>4, <1>6, Thresholds DEF Closes
  <2>2. ASSUME NEW m \in (p - InactiveToClose + 1)..p
        PROVE  ~log'[m].suspicious
    BY <1>1, <1>3, <1>4, <2>1, Thresholds
  <2> QED BY <2>1, <2>2, Zenon DEF ClosedBy, QuietRun
<1>7. ASSUME ~Closes, NEW i \in 1..n
      PROVE  ~ClosedBy(i, p)'
  <2>1. Rest \in (p - InactiveToClose + 1)..p /\ log'[Rest].suspicious
    BY <1>1, <1>3, <1>4, <1>7, Thresholds DEF Closes
  <2> QED BY <2>1, Zenon DEF ClosedBy, QuietRun
<1>8. j \in 1..n /\ \A i \in 1..n : i <= Rest => i \in 1..Rest
  BY <1>1, <1>4
<1>9. Closes => \A i \in 1..n : log[i].fires => ClosedBy(i, p)'
  BY <1>5, <1>6, <1>8, Zenon
<1> QED BY <1>3, <1>7, <1>8, <1>9, Zenon

LEMMA SuspiciousClosesNothing ==
  ASSUME log \in Seq(Judged), NEW n \in Nat, n = Len(log), NEW p \in Nat, p = n + 1,
         NEW r \in Judged, log' = Append(log, r), r.suspicious, NEW j
  PROVE  ~ClosedBy(j, p)'
<1>1. p \in (p - InactiveToClose + 1)..p /\ log'[p].suspicious
  BY LogGrows, Thresholds
<1> QED BY <1>1, Zenon DEF ClosedBy, QuietRun

LEMMA AlertsCloseLater ==
  ASSUME NEW j \in Nat, NEW k \in Nat, k <= j
  PROVE  ~ClosedBy(j, k) /\ ~ClosedBy(j, k)'
BY Thresholds DEF ClosedBy

(* The alert of window j before and after the next window.                 *)
LEMMA AlertBeforeAndAfter ==
  ASSUME log \in Seq(Judged), NEW n \in Nat, n = Len(log), NEW p \in Nat, p = n + 1,
         NEW r \in Judged, log' = Append(log, r), NEW j \in 1..n
  PROVE  /\ j \in 1..p /\ log'[j] = log[j]
         /\ (\E k \in j..n : ClosedBy(j, k)) => \E k \in j..p : ClosedBy(j, k)'
         /\ (\A k \in j..n : ~ClosedBy(j, k)) /\ ~ClosedBy(j, p)' =>
              \A k \in j..p : ~ClosedBy(j, k)'
         /\ CloseOf(j, p)' <=> ClosedBy(j, p)' /\ \A k \in j..n : ~ClosedBy(j, k)
<1>1. j \in Nat \ {0} /\ j \in 1..p /\ log'[j] = log[j]
  BY LogGrows
<1>2. /\ \A k \in j..n : k \in 0..n /\ k \in j..p
      /\ \A k \in j..p : k \in j..n \/ k = p
      /\ p - 1 = n
  OBVIOUS
<1>3. \A k \in j..n : ClosedBy(j, k)' <=> ClosedBy(j, k)
  BY <1>1, <1>2, ClosingIsSettled
<1>4. CloseOf(j, p)' <=> ClosedBy(j, p)' /\ \A k \in j..n : ~ClosedBy(j, k)'
  BY <1>2, Zenon DEF CloseOf
<1> QED BY <1>1, <1>2, <1>3, <1>4, Zenon

(* A window that fires opens an alert, and a suspicious one keeps an open  *)
(* alert open.                                                             *)
LEMMA ActiveAfterSuspicious ==
  ASSUME DetectorTypeOK, ActiveIsOpen,
         NEW n \in Nat, n = Len(log), NEW p \in Nat, p = n + 1,
         NEW r \in Judged, log' = Append(log, r), r.suspicious,
         active' <=> (active \/ r.fires), inactive' = 0
  PROVE  ActiveIsOpen'
<1>1. /\ log \in Seq(Judged) /\ active \in BOOLEAN /\ r.fires \in BOOLEAN
      /\ inactive \in Nat /\ Len(log') = p /\ log'[p] = r /\ p \in 1..p
      /\ (\A j \in 1..p : j \in 1..n \/ j = p)
  BY LogGrows, Thresholds DEF DetectorTypeOK, Judged
<1>2. Rest' = p /\ (Rest + 1)' = p + 1 /\ \A m \in (p + 1)..p : FALSE
  BY <1>1 DEF Rest
<1>3. \A j \in 1..p : ~ClosedBy(j, p)'
  BY <1>1, SuspiciousClosesNothing
<1>4. \A j \in p..p : j = p
  OBVIOUS
<1>5. ASSUME NEW j \in 1..p, log'[j].fires, \A k \in j..p : ~ClosedBy(j, k)'
      PROVE  OpenSince(j)'
  BY <1>1, <1>2, <1>5, Zenon DEF OpenSince
<1>6. CASE r.fires
  <2>1. OpenSince(p)'
    BY <1>1, <1>3, <1>4, <1>5, <1>6, Zenon
  <2> QED BY <1>1, <1>2, <1>6, <2>1, Zenon DEF ActiveIsOpen
<1>7. CASE ~r.fires /\ active
  <2>1. PICK j \in 1..Rest : OpenSince(j)
    BY <1>7 DEF ActiveIsOpen
  <2>2. j \in 1..n
    BY <1>1, <2>1 DEF Rest
  <2>3. log[j].fires /\ \A k \in j..n : ~ClosedBy(j, k)
    BY <2>1 DEF OpenSince
  <2>4. log'[j].fires /\ j \in 1..p /\ \A k \in j..p : ~ClosedBy(j, k)'
    <3>1. /\ j \in 1..p /\ log'[j] = log[j]
          /\ (\A k \in j..n : ~ClosedBy(j, k)) /\ ~ClosedBy(j, p)' =>
               \A k \in j..p : ~ClosedBy(j, k)'
      BY <1>1, <2>2, AlertBeforeAndAfter, Zenon
    <3> HIDE DEF ClosedBy
    <3> QED BY <1>3, <2>3, <3>1, Zenon
  <2> QED BY <1>2, <1>5, <1>7, <2>4, Zenon DEF ActiveIsOpen
<1>8. CASE ~r.fires /\ ~active
  <2>1. ASSUME NEW j \in 1..p, log'[j].fires
        PROVE  \E k \in j..p : ClosedBy(j, k)'
    <3>1. j \in 1..n
      BY <1>1, <1>8, <2>1, Zenon
    <3>2. log[j].fires
      BY <2>1, <3>1, LogGrows, <1>1
    <3>3. \E k \in j..n : ClosedBy(j, k)
      BY <1>8, <3>1, <3>2, Zenon DEF ActiveIsOpen
    <3> QED BY <1>1, <3>1, <3>3, AlertBeforeAndAfter, Zenon
  <2> QED BY <1>1, <1>8, <2>1, Zenon DEF ActiveIsOpen
<1> QED BY <1>1, <1>6, <1>7, <1>8

LEMMA ActiveAfterQuiet ==
  ASSUME DetectorTypeOK, ActiveIsOpen, AlertsFollowTheWindows,
         NEW n \in Nat, n = Len(log), NEW p \in Nat, p = n + 1,
         NEW r \in Judged, log' = Append(log, r), ~r.suspicious, ~r.fires,
         active' = (active /\ ~Closes),
         inactive' = IF active /\ ~Closes THEN inactive + 1 ELSE 0
  PROVE  ActiveIsOpen'
<1>1. /\ log \in Seq(Judged) /\ active \in BOOLEAN
      /\ inactive \in Nat /\ Len(log') = p /\ log'[p] = r /\ p \in 1..p
      /\ (\A j \in 1..p : j \in 1..n \/ j = p)
      /\ (\A i \in 1..n : log'[i] = log[i])
  BY LogGrows, Thresholds DEF DetectorTypeOK
<1>2. CASE active /\ ~Closes
  <2>1. PICK j \in 1..Rest : OpenSince(j)
    BY <1>2 DEF ActiveIsOpen
  <2>2. Rest' = Rest /\ j \in 1..n /\ Rest \in 1..n
    BY <1>1, <1>2, <2>1 DEF Rest
  <2>3. ~ClosedBy(j, p)'
    BY <1>1, <1>2, <2>2, QuietIsClosing
  <2>4. /\ log[j].fires /\ log[Rest].suspicious
        /\ \A m \in (Rest + 1)..n : ~log[m].suspicious
        /\ \A k \in j..n : ~ClosedBy(j, k)
    BY <2>1 DEF OpenSince
  <2>5. log'[j].fires /\ \A k \in j..p : ~ClosedBy(j, k)'
    <3>1. /\ j \in 1..p /\ log'[j] = log[j]
          /\ (\A k \in j..n : ~ClosedBy(j, k)) /\ ~ClosedBy(j, p)' =>
               \A k \in j..p : ~ClosedBy(j, k)'
      BY <1>1, <2>2, AlertBeforeAndAfter, Zenon
    <3> HIDE DEF ClosedBy
    <3> QED BY <2>3, <2>4, <3>1, Zenon
  <2>6. log'[Rest].suspicious
    BY <1>1, <2>2, <2>4
  <2>7. \A m \in (Rest + 1)..p : ~log'[m].suspicious
    <3>1. \A m \in (Rest + 1)..p : m = p \/ (m \in (Rest + 1)..n /\ m \in 1..n)
      BY <2>2
    <3> QED BY <1>1, <2>4, <3>1
  <2>8. OpenSince(j)'
    BY <1>1, <2>2, <2>5, <2>6, <2>7, Zenon DEF OpenSince
  <2> QED BY <1>1, <1>2, <2>1, <2>2, <2>8, Zenon DEF ActiveIsOpen
<1>3. CASE ~(active /\ ~Closes)
  <2>1. ASSUME NEW j \in 1..p, log'[j].fires
        PROVE  \E k \in j..p : ClosedBy(j, k)'
    <3>1. j \in 1..n /\ log[j].fires
      BY <1>1, <2>1
    <3>2. CASE active
      <4>1. ClosedBy(j, p)'
        BY <1>1, <1>3, <3>1, <3>2, QuietIsClosing
      <4>2. p \in j..p
        BY <3>1
      <4> QED BY <4>1, <4>2, Zenon
    <3>3. CASE ~active
      <4>1. \E k \in j..n : ClosedBy(j, k)
        BY <3>1, <3>3, Zenon DEF ActiveIsOpen
      <4> QED BY <1>1, <3>1, <4>1, AlertBeforeAndAfter, Zenon
    <3> QED BY <1>1, <3>2, <3>3
  <2>2. active' = FALSE /\ inactive' = 0
    BY <1>1, <1>3
  <2> QED BY <1>1, <2>1, <2>2, Zenon DEF ActiveIsOpen
<1> QED BY <1>2, <1>3

(* Window p, the one the step judges, closes the alert of window j.        *)
ClosesNow(j, p) ==
    log[j].fires /\ ClosedBy(j, p)' /\ \A k \in j..(p - 1) : ~ClosedBy(j, k)

LEMMA ClosingsAfter ==
  ASSUME log \in Seq(Judged), NEW n \in Nat, n = Len(log), NEW p \in Nat, p = n + 1,
         NEW r \in Judged, log' = Append(log, r), NEW j \in 1..p, NEW k \in 1..p
  PROVE  Closing(j, k)' <=> \/ j \in 1..n /\ k \in 1..n /\ Closing(j, k)
                            \/ j \in 1..n /\ k = p /\ ClosesNow(j, p)
<1>1. /\ \A i \in 1..n : log'[i] = log[i]
      /\ p - 1 = n /\ p \notin 1..n
  BY LogGrows
<1>2. CASE j \in 1..n /\ k \in 1..n
  <2>1. CloseOf(j, k)' <=> CloseOf(j, k)
    BY <1>2, FirstCloseIsSettled
  <2>2. log'[j] = log[j]
    BY <1>1, <1>2
  <2>3. k # p
    BY <1>1, <1>2
  <2> QED BY <1>2, <2>1, <2>2, <2>3, Zenon DEF Closing
<1>3. CASE j \in 1..n /\ k = p
  <2>1. CloseOf(j, p)' <=> ClosedBy(j, p)' /\ \A m \in j..n : ~ClosedBy(j, m)
    BY <1>3, AlertBeforeAndAfter
  <2>2. log'[j] = log[j]
    BY <1>1, <1>3
  <2>3. CloseOf(j, k)' <=> CloseOf(j, p)'
    BY <1>3, Zenon DEF CloseOf, ClosedBy, QuietRun
  <2> QED BY <1>1, <1>3, <2>1, <2>2, <2>3, Zenon DEF Closing, ClosesNow
<1>4. CASE j \notin 1..n
  <2>1. ~ClosedBy(j, k)'
    BY <1>4, AlertsCloseLater
  <2> QED BY <1>4, <2>1, Zenon DEF Closing, CloseOf
<1>5. k \in 1..n \/ k = p
  OBVIOUS
<1> QED BY <1>2, <1>3, <1>4, <1>5

LEMMA LastCloseIsKept ==
  ASSUME DetectorTypeOK, LastCloseIsLast,
         NEW n \in Nat, n = Len(log), NEW p \in Nat, p = n + 1,
         NEW r \in Judged, log' = Append(log, r), lastClose' = lastClose,
         \A j \in 1..n : ~ClosesNow(j, p)
  PROVE  LastCloseIsLast'
<1>1. /\ log \in Seq(Judged) /\ Len(log') = p
      /\ \A i \in 1..n : log'[i] = log[i] /\ i \in 1..p
  BY LogGrows DEF DetectorTypeOK
<1>2. \A j, k \in 1..p : Closing(j, k)' <=> j \in 1..n /\ k \in 1..n /\ Closing(j, k)
  BY <1>1, ClosingsAfter, Zenon
<1>3. CASE lastClose = None
  <2>1. \A j, k \in 1..n : ~Closing(j, k)
    BY <1>3 DEF LastCloseIsLast
  <2> QED BY <1>1, <1>2, <1>3, <2>1, Zenon DEF LastCloseIsLast
<1>4. CASE lastClose # None
  <2>1. /\ \E j, k \in 1..n : Closing(j, k) /\ log[k].end = lastClose
        /\ \A j, k \in 1..n : Closing(j, k) => log[k].end <= lastClose
    BY <1>4 DEF LastCloseIsLast
  <2>2. PICK j \in 1..n, k \in 1..n : Closing(j, k) /\ log[k].end = lastClose
    BY <2>1
  <2>3. Closing(j, k)' /\ log'[k].end = lastClose /\ j \in 1..p /\ k \in 1..p
    <3>1. log'[k] = log[k]
      BY <1>1, <2>2
    <3>2. j \in 1..p /\ k \in 1..p
      BY <1>1, <2>2
    <3> QED BY <1>2, <2>2, <3>1, <3>2, Zenon
  <2>4. ASSUME NEW i \in 1..p, NEW m \in 1..p, Closing(i, m)'
        PROVE  log'[m].end <= lastClose
    <3>1. i \in 1..n /\ m \in 1..n /\ Closing(i, m)
      BY <1>2, <2>4, Zenon
    <3> QED BY <1>1, <2>1, <3>1
  <2> QED BY <1>1, <1>4, <2>3, <2>4, Zenon DEF LastCloseIsLast
<1> QED BY <1>3, <1>4

LEMMA LastCloseIsSet ==
  ASSUME DetectorTypeOK, LastCloseIsLast,
         NEW n \in Nat, n = Len(log), NEW p \in Nat, p = n + 1,
         NEW r \in Judged, log' = Append(log, r), lastClose' = r.end,
         \A i \in 1..n : log[i].end < r.end,
         \E j \in 1..n : ClosesNow(j, p)
  PROVE  LastCloseIsLast'
<1>1. /\ log \in Seq(Judged) /\ Len(log') = p /\ log'[p] = r /\ p \in 1..p
      /\ \A i \in 1..n : log'[i] = log[i] /\ i \in 1..p
  BY LogGrows DEF DetectorTypeOK
<1>2. r.end \in Nat /\ r.end # None
  BY TimesAreNumbers DEF Judged
<1>3. PICK j \in 1..n : ClosesNow(j, p)
  OBVIOUS
<1>4. Closing(j, p)' /\ j \in 1..p
  BY <1>1, <1>3, ClosingsAfter, Zenon
<1>5. ASSUME NEW m \in 1..p PROVE log'[m].end <= r.end
  <2>1. CASE m \in 1..n
    <3>1. log[m].end \in Nat /\ log[m].end < r.end /\ log'[m] = log[m]
      BY <1>1, <2>1, LogEntries
    <3> QED BY <1>2, <3>1
  <2>2. CASE m = p
    BY <1>1, <1>2, <2>2
  <2> QED BY <2>1, <2>2
<1> QED BY <1>1, <1>2, <1>4, <1>5, Zenon DEF LastCloseIsLast

(* The cooldown that a window is in is that of the last close.             *)
LEMMA CoolingIsCooldown ==
  ASSUME DetectorTypeOK, LastCloseIsLast,
         NEW n \in Nat, n = Len(log), NEW p \in Nat, p = n + 1,
         NEW r \in Judged, log' = Append(log, r)
  PROVE  ~Cooling(p)' <=> CooldownOver(r.end)
<1>1. /\ log \in Seq(Judged) /\ log'[p] = r /\ p - 1 = n
      /\ \A i \in 1..n : log'[i] = log[i] /\ log[i].end \in Nat
  BY LogGrows, LogEntries DEF DetectorTypeOK
<1>2. r.end \in Nat /\ Cooldown \in Nat /\ lastClose \in Nat \cup {None} /\ None \notin Nat
  BY TimesAreNumbers, Thresholds DEF Judged, DetectorTypeOK
<1>3. Cooling(p)' <=> \E j, k \in 1..n : Closing(j, k) /\ r.end < log[k].end + Cooldown
  <2>1. ASSUME NEW j \in 1..n, NEW k \in 1..n
        PROVE  /\ CloseOf(j, k)' <=> CloseOf(j, k)
               /\ log'[j] = log[j] /\ log'[k] = log[k]
    BY <1>1, FirstCloseIsSettled
  <2>2. Cooling(p)' <=> \E j, k \in 1..n :
          log'[j].fires /\ CloseOf(j, k)' /\ r.end < log'[k].end + Cooldown
    BY <1>1, Zenon DEF Cooling
  <2>3. ASSUME NEW j \in 1..n, NEW k \in 1..n
        PROVE  (log'[j].fires /\ CloseOf(j, k)' /\ r.end < log'[k].end + Cooldown)
               <=> (Closing(j, k) /\ r.end < log[k].end + Cooldown)
    BY <2>1, Zenon DEF Closing
  <2> QED BY <2>2, <2>3, Zenon
<1>4. CASE lastClose = None
  BY <1>3, <1>4, Zenon DEF LastCloseIsLast, CooldownOver
<1>5. CASE lastClose # None
  <2>1. lastClose \in Nat
    BY <1>2, <1>5
  <2>2. PICK j \in 1..n, k \in 1..n : Closing(j, k) /\ log[k].end = lastClose
    BY <1>5 DEF LastCloseIsLast
  <2>3. \A i, m \in 1..n : Closing(i, m) => log[m].end <= lastClose
    BY <1>5 DEF LastCloseIsLast
  <2>4. CooldownOver(r.end) <=> ~(r.end < lastClose + Cooldown)
    BY <1>2, <1>5, <2>1 DEF CooldownOver
  <2>5. r.end < lastClose + Cooldown => Cooling(p)'
    BY <1>3, <2>2
  <2>6. ASSUME NEW i \in 1..n, NEW m \in 1..n, Closing(i, m), r.end < log[m].end + Cooldown
        PROVE  r.end < lastClose + Cooldown
    <3>1. log[m].end \in Nat /\ log[m].end <= lastClose
      BY <1>1, <2>3, <2>6
    <3> QED BY <1>2, <2>1, <2>6, <3>1
  <2> QED BY <1>3, <2>4, <2>5, <2>6, Zenon
<1> QED BY <1>4, <1>5

(* The detector's invariant.  AlertsFollowTheWindows and BaselineIsQuiet   *)
(* speak of the log only; the conjuncts before them tie the counters to it.*)
DetectorIInv ==
    /\ DetectorTypeOK /\ StreakIsCounted /\ ActiveIsOpen /\ LastCloseIsLast
    /\ WindowsInOrder /\ AlertsFollowTheWindows /\ BaselineIsQuiet

LEMMA DetectorStarts == DetectorInit /\ log = <<>> => DetectorIInv
<1> SUFFICES ASSUME DetectorInit, log = <<>> PROVE DetectorIInv
  OBVIOUS
<1>1. Len(log) = 0 /\ log \in Seq(Judged) /\ DOMAIN log = {} /\ \A i \in 1..Len(log) : FALSE
  OBVIOUS
<1>2. DetectorTypeOK
  <2>1. 0 \in 0..(InactiveToClose - 1)
    BY Thresholds
  <2> QED BY <1>1, <2>1 DEF DetectorTypeOK, DetectorInit
<1>3. StreakIsCounted /\ WindowsInOrder
  BY <1>1 DEF StreakIsCounted, WindowsInOrder, DetectorInit
<1>4. ActiveIsOpen /\ LastCloseIsLast /\ AlertsFollowTheWindows /\ BaselineIsQuiet
  BY <1>1, Zenon DEF ActiveIsOpen, LastCloseIsLast, AlertsFollowTheWindows, BaselineIsQuiet,
     DetectorInit
<1> QED BY <1>2, <1>3, <1>4 DEF DetectorIInv

LEMMA DetectorRestarts == (DetectorInit /\ log = <<>>)' => DetectorIInv'
BY DetectorStarts, PTL

LEMMA OrderAfter ==
  ASSUME log \in Seq(Judged), WindowsInOrder, NEW r \in Judged, log' = Append(log, r),
         \A i \in 1..Len(log) : log[i].end < r.end
  PROVE  WindowsInOrder'
BY LogGrows DEF WindowsInOrder

LEMMA AlertsFollowAfter ==
  ASSUME log \in Seq(Judged), AlertsFollowTheWindows,
         NEW n \in Nat, n = Len(log), NEW p \in Nat, p = n + 1,
         NEW r \in Judged, log' = Append(log, r),
         r.fires <=> /\ r.suspicious /\ (r.extreme \/ Streak(p)')
                     /\ ~OpenAt(p) /\ ~Cooling(p)'
  PROVE  AlertsFollowTheWindows'
<1>1. /\ DOMAIN log = 1..n /\ DOMAIN log' = 1..p /\ log'[p] = r
      /\ \A i \in 1..p : i \in 1..n \/ i = p
      /\ p \in 1..(Len(log) + 1) /\ \A i \in 1..n : i \in 1..(Len(log) + 1)
  BY LogGrows
<1>2. ASSUME NEW i \in 1..n
      PROVE  /\ log'[i] = log[i]
             /\ Streak(i)' <=> Streak(i)
             /\ OpenAt(i)' <=> OpenAt(i)
             /\ Cooling(i)' <=> Cooling(i)
  <2>1. log'[i] = log[i]
    BY LogGrows
  <2> QED BY <1>1, <2>1, StreakIsSettled, OpeningIsSettled, CoolingIsSettled, Zenon
<1>3. OpenAt(p)' <=> OpenAt(p)
  BY <1>1, OpeningIsSettled, Zenon
<1>4. ASSUME NEW i \in 1..p
      PROVE  log'[i].fires <=> /\ log'[i].suspicious
                               /\ log'[i].extreme \/ Streak(i)'
                               /\ ~OpenAt(i)' /\ ~Cooling(i)'
  <2>1. CASE i \in 1..n
    <3>1. log[i].fires <=> /\ log[i].suspicious
                           /\ log[i].extreme \/ Streak(i)
                           /\ ~OpenAt(i) /\ ~Cooling(i)
      BY <1>1, <2>1, Zenon DEF AlertsFollowTheWindows
    <3>2. /\ log'[i] = log[i]
          /\ Streak(i)' <=> Streak(i)
          /\ OpenAt(i)' <=> OpenAt(i)
          /\ Cooling(i)' <=> Cooling(i)
      BY <1>2, <2>1, Zenon
    <3> HIDE DEF Streak, OpenAt, Cooling
    <3> QED BY <3>1, <3>2, Zenon
  <2>2. ASSUME i = p PROVE log'[p].fires <=> /\ log'[p].suspicious
                                             /\ log'[p].extreme \/ Streak(p)'
                                             /\ ~OpenAt(p)' /\ ~Cooling(p)'
    BY <1>1, <1>3, Zenon
  <2>3. i = p => (/\ Streak(i)' <=> Streak(p)'
                  /\ OpenAt(i)' <=> OpenAt(p)'
                  /\ Cooling(i)' <=> Cooling(p)')
    BY Zenon DEF Streak, OpenAt, Cooling
  <2> QED BY <1>1, <2>1, <2>2, <2>3, Zenon
<1> QED BY <1>1, <1>4, Zenon DEF AlertsFollowTheWindows

LEMMA BaselineAfter ==
  ASSUME log \in Seq(Judged), BaselineIsQuiet, history \subseteq Nat,
         NEW n \in Nat, n = Len(log), NEW p \in Nat, p = n + 1,
         NEW r \in Judged, log' = Append(log, r),
         NEW L, history' = Trim(r.end) \cup L,
         \A e \in L : e = r.end /\ r.supported /\ ~r.suspicious /\ ~OpenAt(p)
  PROVE  BaselineIsQuiet' /\ history' \subseteq Nat
<1>1. /\ DOMAIN log = 1..n /\ DOMAIN log' = 1..p /\ log'[p] = r /\ Len(log') = p
      /\ (\A i \in 1..n : i \in 1..p) /\ p \in 1..p /\ r.end \in Nat
      /\ (\A i \in 1..p : i \in 1..(Len(log) + 1))
  BY LogGrows DEF Judged
<1>2. ASSUME NEW i \in 1..p PROVE OpenAt(i)' <=> OpenAt(i)
  BY <1>1, OpeningIsSettled, Zenon
<1>3. ASSUME NEW e \in Trim(r.end)
      PROVE  /\ e \in Nat /\ r.end - e <= BaselineSpan
             /\ \E i \in 1..p : /\ log'[i].end = e /\ log'[i].supported /\ ~log'[i].suspicious
                                /\ ~OpenAt(i)'
  <2>1. e \in history /\ e \in Nat /\ e >= r.end - BaselineSpan
    BY DEF Trim
  <2>2. PICK i \in 1..n : /\ log[i].end = e /\ log[i].supported /\ ~log[i].suspicious
                          /\ ~OpenAt(i)
    BY <1>1, <2>1, Zenon DEF BaselineIsQuiet
  <2>3. log'[i] = log[i] /\ i \in 1..p
    BY <1>1, LogGrows
  <2>4. ~OpenAt(i)'
    BY <1>2, <2>2, <2>3, Zenon
  <2>5. r.end - e <= BaselineSpan
    BY <1>1, <2>1, Thresholds
  <2> QED BY <2>1, <2>2, <2>3, <2>4, <2>5, Zenon
<1>4. ASSUME NEW e \in L
      PROVE  /\ e \in Nat /\ r.end - e <= BaselineSpan
             /\ \E i \in 1..p : /\ log'[i].end = e /\ log'[i].supported /\ ~log'[i].suspicious
                                /\ ~OpenAt(i)'
  <2>1. e = r.end /\ r.supported /\ ~r.suspicious /\ ~OpenAt(p)'
    BY <1>1, <1>2, Zenon
  <2>2. r.end - e <= BaselineSpan
    BY <1>1, <2>1, Thresholds
  <2> QED BY <1>1, <2>1, <2>2, Zenon
<1>5. \A e \in history' : /\ e \in Nat /\ r.end - e <= BaselineSpan
         /\ \E i \in 1..p : /\ log'[i].end = e /\ log'[i].supported /\ ~log'[i].suspicious
                            /\ ~OpenAt(i)'
  BY <1>3, <1>4, Zenon
<1>6. log'[Len(log')] = r
  BY <1>1
<1> QED BY <1>1, <1>5, <1>6, Zenon DEF BaselineIsQuiet

(* The two outcomes of RiskDensitySpikeDetector.process.                   *)
LEMMA SuspiciousKeepsDetector ==
  ASSUME DetectorIInv, NEW w, w.end \in Nat, \A i \in 1..Len(log) : log[i].end < w.end,
         NEW extreme \in BOOLEAN, Suspicious(w, extreme)
  PROVE  DetectorIInv'
<1> DEFINE r == [end |-> w.end, supported |-> Supported(w), suspicious |-> TRUE,
                 extreme |-> extreme, fires |-> Fires(w.end, extreme)]
<1>n. PICK n \in Nat, p \in Nat : n = Len(log) /\ p = n + 1
  <2>1. Len(log) \in Nat /\ Len(log) + 1 \in Nat
    BY LogEntries DEF DetectorIInv, DetectorTypeOK
  <2> QED BY <2>1, Zenon
<1>t. DetectorTypeOK /\ log \in Seq(Judged)
  BY DEF DetectorIInv, DetectorTypeOK
<1>1. /\ r \in Judged /\ log' = Append(log, r)
  <2>1. Supported(w) \in BOOLEAN /\ Fires(w.end, extreme) \in BOOLEAN
    BY DEF Supported, Fires, Confirmed, CooldownOver
  <2> QED BY <2>1 DEF Judged, Suspicious, Logged
<1>2. /\ r.end = w.end /\ r.suspicious = TRUE /\ r.extreme = extreme
      /\ r.fires = Fires(w.end, extreme)
  OBVIOUS
<1>3. /\ consecutive' = consecutive + 1 /\ inactive' = 0 /\ lastClose' = lastClose
      /\ history' = Trim(w.end)
      /\ active' <=> (active \/ Fires(w.end, extreme))
      /\ active' \in BOOLEAN
      /\ sequence' \in Nat
  <2>1. active \in BOOLEAN /\ sequence \in Nat
    BY <1>t DEF DetectorTypeOK
  <2>2. /\ Fires(w.end, extreme) => active' = TRUE /\ sequence' = sequence + 1
        /\ ~Fires(w.end, extreme) => active' = active /\ sequence' = sequence
        /\ consecutive' = consecutive + 1 /\ inactive' = 0 /\ lastClose' = lastClose
        /\ history' = Trim(w.end)
    BY DEF Suspicious
  <2> HIDE DEF Fires
  <2>3. CASE Fires(w.end, extreme)
    BY <2>1, <2>2, <2>3
  <2>4. CASE ~Fires(w.end, extreme)
    BY <2>1, <2>2, <2>4
  <2> QED BY <2>3, <2>4, Zenon
<1> HIDE DEF r
<1>4. /\ StreakIsCounted'
      /\ Streak(p)' <=> consecutive + 1 >= ConfirmWindows
  BY <1>n, <1>t, <1>1, <1>2, <1>3, StreakStep DEF DetectorIInv
<1>5. ActiveIsOpen'
  BY <1>n, <1>t, <1>1, <1>2, <1>3, ActiveAfterSuspicious DEF DetectorIInv
<1>6. LastCloseIsLast'
  <2>1. \A j \in 1..n : ~ClosesNow(j, p)
    BY <1>n, <1>t, <1>1, <1>2, SuspiciousClosesNothing, Zenon DEF ClosesNow
  <2> QED BY <1>n, <1>t, <1>1, <1>3, <2>1, LastCloseIsKept DEF DetectorIInv
<1>7. WindowsInOrder'
  BY <1>t, <1>1, <1>2, OrderAfter DEF DetectorIInv
<1>8. AlertsFollowTheWindows'
  <2>1. active <=> OpenAt(p)
    <3>1. active <=> OpenAt(Len(log) + 1)
      BY ActiveMeansOpen DEF DetectorIInv
    <3> QED BY <1>n, <3>1, Zenon
  <2>2. ~Cooling(p)' <=> CooldownOver(w.end)
    BY <1>n, <1>t, <1>1, <1>2, CoolingIsCooldown DEF DetectorIInv
  <2>3. r.fires <=> /\ r.suspicious /\ (r.extreme \/ Streak(p)')
                    /\ ~OpenAt(p) /\ ~Cooling(p)'
    BY <1>2, <1>4, <2>1, <2>2, Zenon DEF Fires, Confirmed
  <2> QED BY <1>n, <1>t, <1>1, <2>3, AlertsFollowAfter DEF DetectorIInv
<1>9. BaselineIsQuiet' /\ history' \subseteq Nat
  <2>1. PICK L : L = {}
    OBVIOUS
  <2>2. history' = Trim(r.end) \cup L /\ history \subseteq Nat
    BY <1>2, <1>3, <1>t, <2>1 DEF DetectorTypeOK
  <2>3. \A e \in L : e = r.end /\ r.supported /\ ~r.suspicious /\ ~OpenAt(p)
    BY <2>1
  <2> QED BY <1>n, <1>t, <1>1, <2>2, <2>3, BaselineAfter DEF DetectorIInv
<1>10. DetectorTypeOK'
  <2>1. 0 \in 0..(InactiveToClose - 1)
    BY Thresholds
  <2>2. log' \in Seq(Judged)
    BY <1>t, <1>1
  <2>3. active' \in BOOLEAN
    BY <1>3
  <2> QED BY <1>t, <1>3, <1>9, <2>1, <2>2, <2>3 DEF DetectorTypeOK
<1> QED BY <1>4, <1>5, <1>6, <1>7, <1>8, <1>9, <1>10 DEF DetectorIInv

LEMMA QuietKeepsDetector ==
  ASSUME DetectorIInv, NEW w, w.end \in Nat, \A i \in 1..Len(log) : log[i].end < w.end,
         Quiet(w)
  PROVE  DetectorIInv'
<1> DEFINE r == [end |-> w.end, supported |-> Supported(w), suspicious |-> FALSE,
                 extreme |-> FALSE, fires |-> FALSE]
<1>n. PICK n \in Nat, p \in Nat : n = Len(log) /\ p = n + 1
  <2>1. Len(log) \in Nat /\ Len(log) + 1 \in Nat
    BY LogEntries DEF DetectorIInv, DetectorTypeOK
  <2> QED BY <2>1, Zenon
<1>t. DetectorTypeOK /\ log \in Seq(Judged)
  BY DEF DetectorIInv, DetectorTypeOK
<1>1. /\ r \in Judged /\ log' = Append(log, r)
  BY DEF Judged, Quiet, Logged, Supported
<1>2. /\ r.end = w.end /\ r.suspicious = FALSE /\ r.fires = FALSE
      /\ r.supported = Supported(w)
  OBVIOUS
<1>3. /\ consecutive' = 0 /\ sequence' = sequence
      /\ history' = Trim(w.end) \cup Learnt(w)
  BY DEF Quiet
<1>c. /\ active => /\ active' = ~Closes
                   /\ inactive' = IF Closes THEN 0 ELSE inactive + 1
                   /\ lastClose' = IF Closes THEN w.end ELSE lastClose
      /\ ~active => active' = active /\ inactive' = inactive /\ lastClose' = lastClose
      /\ active \in BOOLEAN /\ Closes \in BOOLEAN
  BY <1>t DEF Quiet, DetectorTypeOK, Closes
<1>d. ~active => inactive = 0
  BY DEF DetectorIInv, ActiveIsOpen
<1>4. /\ active' = (active /\ ~Closes)
      /\ inactive' = IF active /\ ~Closes THEN inactive + 1 ELSE 0
      /\ lastClose' = IF active /\ Closes THEN w.end ELSE lastClose
  <2> HIDE DEF Closes
  <2> QED BY <1>c, <1>d
<1> HIDE DEF r
<1>5. StreakIsCounted'
  BY <1>n, <1>t, <1>1, <1>2, <1>3, StreakStep DEF DetectorIInv
<1>6. ActiveIsOpen'
  BY <1>n, <1>t, <1>1, <1>2, <1>4, ActiveAfterQuiet DEF DetectorIInv
<1>7. LastCloseIsLast'
  <2>1. CASE active /\ Closes
    <3>1. \E j \in 1..n : /\ log[j].fires /\ ClosedBy(j, p)'
                          /\ \A k \in j..n : ~ClosedBy(j, k)
      BY <1>n, <1>t, <1>1, <1>2, <2>1, QuietIsClosing DEF DetectorIInv
    <3>2. p - 1 = n
      BY <1>n
    <3>3. \E j \in 1..n : ClosesNow(j, p)
      BY <3>1, <3>2, Zenon DEF ClosesNow
    <3>4. lastClose' = r.end /\ \A i \in 1..n : log[i].end < r.end
      BY <1>n, <1>2, <1>4, <2>1
    <3> QED BY <1>n, <1>t, <1>1, <3>3, <3>4, LastCloseIsSet DEF DetectorIInv
  <2>2. CASE ~(active /\ Closes)
    <3>1. p - 1 = n
      BY <1>n
    <3>2. ASSUME NEW j \in 1..n PROVE ~ClosesNow(j, p)
      <4>1. CASE active
        <5>1. ~ClosedBy(j, p)'
          BY <1>n, <1>t, <1>1, <1>2, <2>2, <4>1, QuietIsClosing DEF DetectorIInv
        <5> QED BY <5>1, Zenon DEF ClosesNow
      <4>2. CASE ~active
        <5>1. log[j].fires => \E k \in j..n : ClosedBy(j, k)
          BY <1>n, <4>2, Zenon DEF DetectorIInv, ActiveIsOpen
        <5> QED BY <3>1, <5>1, Zenon DEF ClosesNow
      <4> QED BY <4>1, <4>2
    <3>3. lastClose' = lastClose
      BY <1>4, <2>2
    <3> QED BY <1>n, <1>t, <1>1, <3>2, <3>3, LastCloseIsKept DEF DetectorIInv
  <2> QED BY <2>1, <2>2
<1>8. WindowsInOrder'
  BY <1>t, <1>1, <1>2, OrderAfter DEF DetectorIInv
<1>9. AlertsFollowTheWindows'
  BY <1>n, <1>t, <1>1, <1>2, AlertsFollowAfter DEF DetectorIInv
<1>10. BaselineIsQuiet' /\ history' \subseteq Nat
  <2>1. active <=> OpenAt(p)
    <3>1. active <=> OpenAt(Len(log) + 1)
      BY ActiveMeansOpen DEF DetectorIInv
    <3> QED BY <1>n, <3>1, Zenon
  <2>2. history' = Trim(r.end) \cup Learnt(w) /\ history \subseteq Nat
    BY <1>2, <1>3, <1>t DEF DetectorTypeOK
  <2>3. \A e \in Learnt(w) : e = r.end /\ r.supported /\ ~r.suspicious /\ ~OpenAt(p)
    BY <1>2, <2>1 DEF Learnt
  <2> QED BY <1>n, <1>t, <1>1, <2>2, <2>3, BaselineAfter DEF DetectorIInv
<1>11. DetectorTypeOK'
  <2>1. inactive' \in 0..(InactiveToClose - 1)
    BY <1>4, <1>t, Thresholds DEF DetectorTypeOK, Closes
  <2>2. log' \in Seq(Judged) /\ active' \in BOOLEAN
    BY <1>t, <1>1, <1>4
  <2>3. lastClose' \in Nat \cup {None} /\ consecutive' \in Nat /\ sequence' \in Nat
    BY <1>3, <1>4, <1>t DEF DetectorTypeOK
  <2> QED BY <1>10, <2>1, <2>2, <2>3 DEF DetectorTypeOK
<1> QED BY <1>5, <1>6, <1>7, <1>8, <1>9, <1>10, <1>11 DEF DetectorIInv

-------------------------------------------------------------------------------
(* The service around the detector.  Windows that wait lie behind the ones *)
(* that were judged, the alert being handled is of this life and lies      *)
(* before the windows that wait for it, and an alert is known by its life  *)
(* and its number.                                                         *)
ServiceTypeOK ==
    /\ pending \subseteq emitted
    /\ scorer \in Spaces /\ space \in Spaces /\ waiting \in Spaces \cup {None}
    /\ spaceOf \in [Transactions -> Spaces \cup {None}]
    /\ step \in {"ready", "create", "publish", "trigger"}
    /\ (step = "ready" /\ alert = None) \/ (step # "ready" /\ alert \in Alert)
    /\ life \in 1..MaxLives
    /\ incidents \subseteq Alert /\ triggered \subseteq Alert /\ fired \subseteq Alert
    /\ merged \subseteq Alert /\ lost \subseteq Alert

QueueInOrder ==
    /\ \A i \in 1..Len(log) : last # None /\ log[i].end < nextEmit
    /\ \A i \in 1..Len(log), w \in pending : log[i].end < w.end

AlertIsFirst ==
    alert # None => alert.life = life /\ \A w \in pending : alert.end < w.end

AlertsAreNumbered ==
    /\ \A a \in fired : a.life <= life /\ (a.life = life => a.seq <= sequence)
    /\ \A a, b \in fired : a.life = b.life /\ a.seq = b.seq => a = b
    /\ incidents \subseteq fired
    /\ step # "ready" => alert \in fired
    /\ step = "create" => alert \notin incidents
    /\ step \in {"publish", "trigger"} => alert \in incidents

IInv ==
    /\ ServiceTypeOK /\ WindowIInv /\ DetectorIInv
    /\ QueueInOrder /\ AlertIsFirst /\ AlertsAreNumbered
    /\ ScoresAreComparable /\ OnlyFailuresDropWindows /\ AlertsAreAccountedFor

LEMMA TypesTogether == IInv => TypeOK
BY DEF IInv, ServiceTypeOK, WindowIInv, DetectorIInv, DetectorTypeOK, Judged, TypeOK

(* Of the windows that wait one is the earliest.                           *)
LEMMA LeastNumber ==
  ASSUME NEW S \in SUBSET Nat, S # {}
  PROVE  \E x \in S : \A y \in S : x <= y
<1>1. IsWellFoundedOn(OpToRel(<, Nat), Nat)
  BY NatLessThanWellFounded
<1>2. PICK x \in S : \A y \in S : ~(<<y, x>> \in OpToRel(<, Nat))
  BY <1>1, WFMin
<1>3. \A y \in S : y \in Nat /\ (<<y, x>> \in OpToRel(<, Nat) <=> y < x)
  BY DEF OpToRel
<1>4. \A y \in S : ~(y < x)
  BY <1>2, <1>3, Zenon
<1>5. x \in S /\ \A y \in S : y \in Nat
  BY <1>2
<1>6. ASSUME NEW y \in S PROVE x <= y
  <2>1. x \in Nat /\ y \in Nat /\ ~(y < x)
    BY <1>4, <1>5, <1>6, Zenon
  <2> QED BY <2>1
<1> QED BY <1>5, <1>6, Zenon

LEMMA EarliestWindow ==
  ASSUME IInv, pending # {}
  PROVE  /\ NextWindow \in pending /\ NextWindow.end \in Nat
         /\ \A v \in pending : v # NextWindow => NextWindow.end < v.end
<1>1. pending \subseteq emitted /\ \A w \in emitted : w.end \in Nat
  BY DEF IInv, ServiceTypeOK, WindowIInv, WindowTypeOK
<1>2. {w.end : w \in pending} \in SUBSET Nat /\ {w.end : w \in pending} # {}
  BY <1>1
<1>3. PICK e \in {w.end : w \in pending} : \A y \in {w.end : w \in pending} : e <= y
  BY <1>2, LeastNumber
<1>4. \E w \in pending : \A v \in pending : w.end <= v.end
  BY <1>3
<1>5. NextWindow \in pending /\ \A v \in pending : NextWindow.end <= v.end
  BY <1>4 DEF NextWindow
<1>6. \A v, w \in emitted : v.end = w.end => v = w
  BY DEF IInv, WindowIInv, GridIsCovered
<1> HIDE DEF NextWindow
<1> QED BY <1>1, <1>5, <1>6

LEMMA InitHolds == Init => IInv
<1> SUFFICES ASSUME Init PROVE IInv
  OBVIOUS
<1>1. WindowIInv
  BY WindowInitHolds DEF Init
<1>2. DetectorIInv
  BY DetectorStarts DEF Init
<1>3. Len(log) = 0 /\ DOMAIN log = {} /\ \A i \in 1..Len(log) : FALSE
  BY DEF Init
<1>4. ServiceTypeOK
  BY Thresholds DEF Init, WindowInit, ServiceTypeOK
<1>5. QueueInOrder /\ AlertIsFirst /\ AlertsAreNumbered
  BY <1>3, Zenon DEF Init, QueueInOrder, AlertIsFirst, AlertsAreNumbered
<1>6. ScoresAreComparable
  BY DEF Init, WindowInit, ScoresAreComparable, OnStream
<1>7. OnlyFailuresDropWindows
  BY <1>3, Zenon DEF Init, WindowInit, OnlyFailuresDropWindows
<1>8. AlertsAreAccountedFor
  BY DEF Init, AlertsAreAccountedFor
<1> QED BY <1>1, <1>2, <1>4, <1>5, <1>6, <1>7, <1>8 DEF IInv

LEMMA DetectorUnchanged ==
  DetectorIInv /\ UNCHANGED <<detectorVars, log>> => DetectorIInv'
BY DEF detectorVars, DetectorIInv, DetectorTypeOK, StreakIsCounted, ActiveIsOpen, OpenSince,
   Rest, LastCloseIsLast, Closing, WindowsInOrder, AlertsFollowTheWindows, BaselineIsQuiet,
   Streak, OpenAt, Cooling, CloseOf, ClosedBy, QuietRun

(* A call that feeds the aggregator: what it returns lies behind all that  *)
(* it returned before.                                                     *)
LEMMA FeedingAddsWindows ==
  ASSUME WindowIInv,
         \/ \E x \in Transactions, t \in Times : FirstAdd(x, t) \/ LaterAdd(x, t)
         \/ Flush
  PROVE  /\ WindowIInv' /\ last' # None
         /\ emitted \subseteq emitted'
         /\ last # None => nextEmit' >= nextEmit
         /\ last = None => emitted' = emitted
         /\ \A w \in emitted' \ emitted : w.end \in Nat /\ w.end >= nextEmit
<1>1. CASE \E x \in Transactions, t \in Times : FirstAdd(x, t)
  <2>1. PICK x \in Transactions, t \in Times : FirstAdd(x, t)
    BY <1>1
  <2>2. last = None /\ emitted' = emitted /\ last' = t /\ t # None
    BY <2>1, TimesAreNumbers DEF FirstAdd, Record, WindowIInv, Begun
  <2>3. WindowIInv'
    BY <2>1, FirstAddKeepsWindows
  <2> QED BY <2>2, <2>3
<1>2. ASSUME NEW limit \in Nat, NEW flush \in BOOLEAN, Emit(limit, flush), last # None
      PROVE  /\ emitted \subseteq emitted' /\ nextEmit' >= nextEmit
             /\ \A w \in emitted' \ emitted : w.end \in Nat /\ w.end >= nextEmit
  <2>1. /\ \A w : w \in emitted' <=>
              \/ w \in emitted
              \/ \E e \in Nat : /\ e >= nextEmit /\ e < limit /\ e % Slide = 0
                                /\ FullWindow(e) /\ w = Snapshot(e, flush)
        /\ nextEmit' >= nextEmit
    BY <1>2, EmittedWindows
  <2>2. \A e : Snapshot(e, flush).end = e
    BY DEF Snapshot
  <2>3. ASSUME NEW w \in emitted', w \notin emitted
        PROVE  w.end \in Nat /\ w.end >= nextEmit
    <3>1. PICK e \in Nat : e >= nextEmit /\ w = Snapshot(e, flush)
      BY <2>1, <2>3, Zenon
    <3>2. w.end = e
      BY <2>2, <3>1, Zenon
    <3> HIDE DEF Snapshot
    <3> QED BY <3>1, <3>2
  <2>4. emitted \subseteq emitted'
    BY <2>1
  <2> QED BY <2>1, <2>3, <2>4
<1>3. CASE \E x \in Transactions, t \in Times : LaterAdd(x, t)
  <2>1. PICK x \in Transactions, t \in Times : LaterAdd(x, t)
    BY <1>3
  <2>2. last # None /\ last' = t /\ Emit(t, FALSE) /\ t \in Nat /\ t # None
    BY <2>1, TimesAreNumbers DEF LaterAdd, Record, WindowIInv, Begun
  <2>3. WindowIInv'
    BY <2>1, LaterAddKeepsWindows
  <2> QED BY <1>2, <2>2, <2>3
<1>4. CASE Flush
  <2>1. last # None /\ last' = last /\ Emit(last + 1, TRUE) /\ last + 1 \in Nat
    <3>1. last # None /\ last' = last /\ Emit(last + 1, TRUE)
      BY <1>4 DEF Flush
    <3>2. last \in Nat
      BY <3>1, StreamHasBegun
    <3>3. last + 1 \in Nat
      BY <3>2
    <3> QED BY <3>1, <3>3
  <2>2. WindowIInv'
    BY <1>4, FlushKeepsWindows
  <2> QED BY <1>2, <2>1, <2>2
<1> QED BY <1>1, <1>3, <1>4, Zenon

LEMMA FeedingKeepsIInv ==
  ASSUME IInv, Idle,
         \/ \E x \in Transactions, t \in Times : FirstAdd(x, t) \/ LaterAdd(x, t)
         \/ Flush,
         pending' = emitted' \ emitted,
         UNCHANGED <<detectorVars, space, incidentVars, life, log, fired>>,
         scorer' \in Spaces, waiting' \in Spaces \cup {None},
         spaceOf' \in [Transactions -> Spaces \cup {None}],
         ScoresAreComparable'
  PROVE  IInv'
<1>1. /\ WindowIInv' /\ last' # None
      /\ emitted \subseteq emitted'
      /\ last # None => nextEmit' >= nextEmit
      /\ last = None => emitted' = emitted
      /\ \A w \in emitted' \ emitted : w.end \in Nat /\ w.end >= nextEmit
  BY FeedingAddsWindows DEF IInv
<1>2. /\ log' = log /\ life' = life /\ fired' = fired /\ space' = space
      /\ step' = step /\ alert' = alert /\ incidents' = incidents /\ lost' = lost
      /\ triggered' = triggered /\ merged' = merged /\ sequence' = sequence
  BY DEF incidentVars, detectorVars
<1>3. pending = {} /\ step = "ready" /\ alert = None
  BY DEF Idle, IInv, ServiceTypeOK
<1>4. ServiceTypeOK'
  BY <1>2 DEF IInv, ServiceTypeOK
<1>5. DetectorIInv'
  BY DetectorUnchanged DEF IInv
<1>6. QueueInOrder'
  <2>1. Len(log) \in Nat /\ \A i \in 1..Len(log) : log[i].end \in Nat
    BY LogEntries DEF IInv, DetectorIInv, DetectorTypeOK
  <2>2. \A i \in 1..Len(log) : last # None /\ log[i].end < nextEmit
    BY DEF IInv, QueueInOrder
  <2>3. last # None => nextEmit \in Nat /\ nextEmit' \in Nat
    BY <1>1, StreamHasBegun DEF IInv, WindowIInv, WindowTypeOK, Begun
  <2>4. ASSUME NEW i \in 1..Len(log) PROVE log[i].end < nextEmit'
    BY <1>1, <2>1, <2>2, <2>3
  <2>5. ASSUME NEW i \in 1..Len(log), NEW w \in emitted' \ emitted PROVE log[i].end < w.end
    BY <1>1, <2>1, <2>2, <2>3
  <2> QED BY <1>1, <1>2, <2>4, <2>5, Zenon DEF QueueInOrder
<1>7. AlertIsFirst' /\ AlertsAreNumbered' /\ AlertsAreAccountedFor'
  BY <1>2, <1>3 DEF IInv, AlertIsFirst, AlertsAreNumbered, AlertsAreAccountedFor
<1>8. OnlyFailuresDropWindows'
  <2>1. emitted' \ pending' = emitted
    BY <1>1
  <2>2. emitted \ pending = emitted
    BY <1>3
  <2> QED BY <1>2, <2>1, <2>2, Zenon DEF IInv, OnlyFailuresDropWindows
<1> QED BY <1>1, <1>4, <1>5, <1>6, <1>7, <1>8 DEF IInv

LEMMA ScoringStaysInSpaces == scorer \in Spaces /\ Score => scorer' \in Spaces
BY DEF Score, ActivateFallback, Spaces

LEMMA AddKeepsIInv ==
  ASSUME IInv, NEW x \in Transactions, NEW t \in Times, NEW scored \in Spaces,
         Add(x, t, scored), scorer' \in Spaces, waiting' \in Spaces \cup {None}
  PROVE  IInv'
<1>1. /\ Idle /\ scored = space /\ (FirstAdd(x, t) \/ LaterAdd(x, t))
      /\ spaceOf' = [spaceOf EXCEPT ![x] = scored]
      /\ pending' = emitted' \ emitted
      /\ UNCHANGED <<detectorVars, space, incidentVars, life, log, fired>>
  BY DEF Add, Comparable
<1>2. time' = [time EXCEPT ![x] = t]
  BY <1>1 DEF FirstAdd, LaterAdd, Record
<1>3. spaceOf \in [Transactions -> Spaces \cup {None}] /\ space' = space
  BY <1>1 DEF IInv, ServiceTypeOK
<1>4. \A y \in OnStream' : y \in Transactions /\ (y = x \/ y \in OnStream)
  BY <1>2 DEF OnStream, IInv, WindowIInv, WindowTypeOK
<1>5. ScoresAreComparable'
  <2>1. spaceOf'[x] = space
    BY <1>1, <1>3
  <2>2. ASSUME NEW y \in OnStream, y # x PROVE spaceOf'[y] = space
    BY <1>1, <1>3, <2>2, TransactionsOnStream DEF ScoresAreComparable, IInv
  <2> QED BY <1>3, <1>4, <2>1, <2>2, Zenon DEF ScoresAreComparable
<1>6. spaceOf' \in [Transactions -> Spaces \cup {None}]
  BY <1>1, <1>3
<1>7. \/ \E y \in Transactions, u \in Times : FirstAdd(y, u) \/ LaterAdd(y, u)
      \/ Flush
  BY <1>1, Zenon
<1> HIDE DEF Idle
<1> QED BY <1>1, <1>5, <1>6, <1>7, FeedingKeepsIInv

LEMMA ArriveKeepsIInv ==
  ASSUME IInv, NEW x \in Transactions, NEW t \in Times, Arrive(x, t) \/ ArriveBatch(x, t)
  PROVE  IInv'
<1>1. scorer \in Spaces /\ waiting \in Spaces \cup {None}
  BY DEF IInv, ServiceTypeOK
<1>2. CASE Arrive(x, t)
  BY <1>1, <1>2, ScoringStaysInSpaces, AddKeepsIInv DEF Arrive
<1>3. CASE ArriveBatch(x, t)
  BY <1>1, <1>3, AddKeepsIInv DEF ArriveBatch
<1> QED BY <1>2, <1>3

LEMMA FlushStreamKeepsIInv ==
  ASSUME IInv, FlushStream
  PROVE  IInv'
<1>1. /\ Idle /\ Flush /\ pending' = emitted' \ emitted
      /\ UNCHANGED <<detectorVars, space, incidentVars, life, log, fired>>
      /\ scorer' = scorer /\ waiting' = waiting /\ spaceOf' = spaceOf /\ space' = space
      /\ time' = time
  BY DEF FlushStream, scoreVars, Flush
<1>2. /\ scorer' \in Spaces /\ waiting' \in Spaces \cup {None}
      /\ spaceOf' \in [Transactions -> Spaces \cup {None}]
  BY <1>1 DEF IInv, ServiceTypeOK
<1>3. ScoresAreComparable'
  BY <1>1 DEF ScoresAreComparable, OnStream, IInv
<1> QED BY <1>1, <1>2, <1>3, FeedingKeepsIInv, Zenon

LEMMA ScoreBatchKeepsIInv ==
  ASSUME IInv, ScoreBatch
  PROVE  IInv'
<1>1. /\ UNCHANGED windowVars /\ UNCHANGED <<detectorVars, log>>
      /\ UNCHANGED <<space, spaceOf, pending, incidentVars, life, fired, time, emitted>>
      /\ sequence' = sequence /\ last' = last /\ nextEmit' = nextEmit /\ log' = log
      /\ Score /\ waiting' = scorer'
  BY DEF ScoreBatch, detectorVars, windowVars
<1>2. scorer' \in Spaces
  BY <1>1, ScoringStaysInSpaces DEF IInv, ServiceTypeOK
<1>3. WindowIInv' /\ DetectorIInv'
  BY <1>1, StutterKeepsWindows, DetectorUnchanged, Zenon DEF IInv
<1>4. ServiceTypeOK'
  BY <1>1, <1>2 DEF IInv, ServiceTypeOK, incidentVars
<1>5. QueueInOrder' /\ AlertIsFirst' /\ AlertsAreNumbered'
  BY <1>1 DEF IInv, QueueInOrder, AlertIsFirst, AlertsAreNumbered, incidentVars
<1>6. ScoresAreComparable' /\ OnlyFailuresDropWindows' /\ AlertsAreAccountedFor'
  BY <1>1 DEF IInv, ScoresAreComparable, OnStream, OnlyFailuresDropWindows,
     AlertsAreAccountedFor, incidentVars
<1> QED BY <1>3, <1>4, <1>5, <1>6 DEF IInv

-------------------------------------------------------------------------------
(* A window is judged.                                                     *)
LEMMA ProcessKeepsOrder ==
  ASSUME IInv, Process
  PROVE  /\ WindowIInv' /\ DetectorIInv'
         /\ QueueInOrder' /\ OnlyFailuresDropWindows' /\ ScoresAreComparable'
<1> DEFINE w == NextWindow
<1>1. /\ pending # {} /\ pending' = pending \ {w}
      /\ UNCHANGED windowVars
      /\ emitted' = emitted /\ time' = time /\ last' = last /\ nextEmit' = nextEmit
      /\ spaceOf' = spaceOf /\ space' = space /\ lost' = lost /\ life' = life
  BY DEF Process, windowVars, scoreVars
<1>2. \/ Quiet(w)
      \/ \E extreme \in BOOLEAN : Suspicious(w, extreme)
  BY DEF Process
<1>3. /\ w \in pending /\ w.end \in Nat
      /\ \A v \in pending : v # w => w.end < v.end
  BY <1>1, EarliestWindow
<1> HIDE DEF w
<1>4. /\ Len(log) \in Nat /\ log \in Seq(Judged) /\ DOMAIN log = 1..Len(log)
      /\ \A i \in 1..Len(log) : log[i].end < w.end
  BY <1>3, LogEntries DEF IInv, QueueInOrder, DetectorIInv, DetectorTypeOK
<1>5. WindowIInv'
  BY <1>1, StutterKeepsWindows DEF IInv
<1>6. DetectorIInv'
  BY <1>2, <1>3, <1>4, SuspiciousKeepsDetector, QuietKeepsDetector DEF IInv
<1>7. PICK r \in Judged : r.end = w.end /\ log' = Append(log, r)
  <2>1. CASE Quiet(w)
    <3> DEFINE r == [end |-> w.end, supported |-> Supported(w), suspicious |-> FALSE,
                     extreme |-> FALSE, fires |-> FALSE]
    <3>1. r \in Judged /\ r.end = w.end /\ log' = Append(log, r)
      BY <1>3, <2>1 DEF Judged, Quiet, Logged, Supported
    <3> QED BY <3>1, Zenon
  <2>2. ASSUME NEW extreme \in BOOLEAN, Suspicious(w, extreme)
        PROVE  \E r \in Judged : r.end = w.end /\ log' = Append(log, r)
    <3> DEFINE r == [end |-> w.end, supported |-> Supported(w), suspicious |-> TRUE,
                     extreme |-> extreme, fires |-> Fires(w.end, extreme)]
    <3>1. r \in Judged /\ r.end = w.end /\ log' = Append(log, r)
      BY <1>3, <2>2 DEF Judged, Suspicious, Logged, Supported, Fires, Confirmed, CooldownOver
    <3> QED BY <3>1, Zenon
  <2> QED BY <1>2, <2>1, <2>2
<1>8. /\ Len(log') = Len(log) + 1 /\ log'[Len(log) + 1] = r
      /\ DOMAIN log' = 1..(Len(log) + 1)
      /\ \A i \in 1..Len(log) : log'[i] = log[i]
      /\ \A i \in 1..(Len(log) + 1) : i \in 1..Len(log) \/ i = Len(log) + 1
  BY <1>4, <1>7, LogGrows
<1>9. QueueInOrder'
  <2>1. w \in emitted
    BY <1>3 DEF IInv, ServiceTypeOK
  <2>2. last # None /\ w.end < nextEmit
    BY <2>1 DEF IInv, WindowIInv, WindowsLieBehind
  <2>3. ASSUME NEW i \in 1..Len(log')
        PROVE  /\ last # None /\ log'[i].end < nextEmit
               /\ \A v \in pending' : log'[i].end < v.end
    <3>1. CASE i \in 1..Len(log)
      <4>1. log'[i] = log[i]
        BY <1>8, <3>1
      <4> QED BY <1>1, <3>1, <4>1 DEF IInv, QueueInOrder
    <3>2. CASE i = Len(log) + 1
      BY <1>1, <1>3, <1>7, <1>8, <2>2, <3>2
    <3> QED BY <1>8, <3>1, <3>2
  <2> QED BY <1>1, <2>3, Zenon DEF QueueInOrder
<1>10. OnlyFailuresDropWindows'
  <2>1. \A i, j \in DOMAIN log' : i < j => log'[i].end < log'[j].end
    <3>1. WindowsInOrder' /\ DOMAIN log' = 1..Len(log')
      BY <1>6, <1>8 DEF DetectorIInv
    <3> QED BY <3>1, Zenon DEF WindowsInOrder
  <2>2. ASSUME NEW v \in emitted' \ pending'
        PROVE  \/ \E i \in DOMAIN log' : log'[i].end = v.end
               \/ \E a \in lost' : a.life = life' /\ a.end < v.end
    <3>1. CASE v = w
      <4>1. Len(log) + 1 \in DOMAIN log' /\ log'[Len(log) + 1].end = v.end
        BY <1>4, <1>7, <1>8, <3>1
      <4> QED BY <4>1, Zenon
    <3>2. CASE v # w
      <4>1. v \in emitted \ pending
        BY <1>1, <2>2, <3>2
      <4>2. \/ \E i \in DOMAIN log : log[i].end = v.end
            \/ \E a \in lost : a.life = life /\ a.end < v.end
        BY <4>1 DEF IInv, OnlyFailuresDropWindows
      <4>3. ASSUME NEW i \in DOMAIN log, log[i].end = v.end
            PROVE  i \in DOMAIN log' /\ log'[i].end = v.end
        BY <1>4, <1>8, <4>3
      <4> QED BY <1>1, <4>2, <4>3, Zenon
    <3> QED BY <3>1, <3>2
  <2> QED BY <2>1, <2>2, Zenon DEF OnlyFailuresDropWindows
<1>11. ScoresAreComparable'
  BY <1>1 DEF IInv, ScoresAreComparable, OnStream
<1> QED BY <1>5, <1>6, <1>9, <1>10, <1>11

LEMMA ProcessKeepsAlerts ==
  ASSUME IInv, Process
  PROVE  /\ ServiceTypeOK' /\ AlertIsFirst' /\ AlertsAreNumbered'
         /\ AlertsAreAccountedFor'
<1> DEFINE w == NextWindow
<1>1. /\ pending # {} /\ step = "ready" /\ pending' = pending \ {w}
      /\ emitted' = emitted /\ life' = life
      /\ UNCHANGED scoreVars
      /\ incidents' = incidents /\ triggered' = triggered /\ merged' = merged /\ lost' = lost
  BY DEF Process, windowVars
<1>2. \/ UNCHANGED <<sequence, alert, fired, step>>
      \/ /\ sequence' = sequence + 1
         /\ alert' = [end |-> w.end, seq |-> sequence + 1, life |-> life]
         /\ fired' = fired \cup {alert'} /\ step' = "create"
  BY DEF Process, Quiet, Suspicious
<1>3. /\ w \in pending /\ w.end \in Nat
      /\ \A v \in pending : v # w => w.end < v.end
  BY <1>1, EarliestWindow
<1> HIDE DEF w
<1>4. alert = None /\ sequence \in Nat /\ life \in 1..MaxLives
  BY <1>1 DEF IInv, ServiceTypeOK, DetectorIInv, DetectorTypeOK
<1>5. CASE UNCHANGED <<sequence, alert, fired, step>>
  <2>1. ServiceTypeOK'
    BY <1>1, <1>5 DEF IInv, ServiceTypeOK, scoreVars
  <2>2. AlertIsFirst' /\ AlertsAreNumbered' /\ AlertsAreAccountedFor'
    BY <1>1, <1>4, <1>5 DEF IInv, AlertIsFirst, AlertsAreNumbered, AlertsAreAccountedFor
  <2> QED BY <2>1, <2>2
<1>6. CASE /\ sequence' = sequence + 1
           /\ alert' = [end |-> w.end, seq |-> sequence + 1, life |-> life]
           /\ fired' = fired \cup {alert'} /\ step' = "create"
  <2>1. alert' \in Alert /\ alert'.end = w.end /\ alert'.seq = sequence + 1 /\ alert'.life = life
    BY <1>3, <1>4, <1>6 DEF Alert
  <2>2. ServiceTypeOK'
    BY <1>1, <1>6, <2>1 DEF IInv, ServiceTypeOK, scoreVars
  <2>3. AlertIsFirst'
    BY <1>1, <1>3, <2>1 DEF AlertIsFirst
  <2>4. \A a \in fired : /\ a \in Alert /\ a.life \in Nat /\ a.seq \in Nat
                         /\ a.life <= life /\ (a.life = life => a.seq <= sequence)
    BY DEF IInv, ServiceTypeOK, AlertsAreNumbered, Alert
  <2>5. \A a \in fired : ~(a.life = life /\ a.seq = sequence + 1)
    BY <1>4, <2>4
  <2>6. AlertsAreNumbered'
    <3>1. \A a \in fired' : a.life <= life' /\ (a.life = life' => a.seq <= sequence')
      BY <1>1, <1>4, <1>6, <2>1, <2>4
    <3>2. ASSUME NEW a \in fired', NEW b \in fired', a.life = b.life, a.seq = b.seq
          PROVE  a = b
      <4>1. a \in fired \/ a = alert'
        BY <1>6
      <4>2. b \in fired \/ b = alert'
        BY <1>6
      <4>3. a \in fired /\ b \in fired => a = b
        BY <3>2 DEF IInv, AlertsAreNumbered
      <4> QED BY <2>1, <2>5, <3>2, <4>1, <4>2, <4>3, Zenon
    <3>3. incidents' \subseteq fired' /\ alert' \in fired'
      BY <1>1, <1>6 DEF IInv, AlertsAreNumbered
    <3>4. alert' \notin incidents'
      BY <1>1, <2>1, <2>5 DEF IInv, AlertsAreNumbered
    <3> QED BY <1>6, <3>1, <3>2, <3>3, <3>4 DEF AlertsAreNumbered
  <2>7. AlertsAreAccountedFor'
    <3>1. None \notin fired /\ None \notin incidents
      BY NoneIsNoAlert DEF IInv, ServiceTypeOK
    <3>2. \A a \in fired' : a \in triggered \cup merged \cup lost \cup {alert'}
      BY <1>4, <1>6, <3>1 DEF IInv, AlertsAreAccountedFor
    <3>3. incidents \subseteq triggered \cup lost \cup {alert'}
      BY <1>4, <3>1 DEF IInv, AlertsAreAccountedFor
    <3> QED BY <1>1, <3>2, <3>3 DEF IInv, AlertsAreAccountedFor
  <2> QED BY <2>2, <2>3, <2>6, <2>7
<1> QED BY <1>2, <1>5, <1>6

LEMMA ProcessKeepsIInv ==
  ASSUME IInv, Process
  PROVE  IInv'
BY ProcessKeepsOrder, ProcessKeepsAlerts DEF IInv

-------------------------------------------------------------------------------
(* An alert is handled: windows, detector and log stay as they are.        *)
LEMMA OutsideIsKept ==
  ASSUME IInv, UNCHANGED outside
  PROVE  /\ WindowIInv' /\ DetectorIInv' /\ ScoresAreComparable'
         /\ emitted' = emitted /\ log' = log /\ life' = life /\ fired' = fired
         /\ last' = last /\ nextEmit' = nextEmit /\ sequence' = sequence
         /\ scorer' = scorer /\ space' = space /\ waiting' = waiting /\ spaceOf' = spaceOf
<1>1. UNCHANGED windowVars /\ UNCHANGED <<detectorVars, log>>
  BY DEF outside
<1>2. WindowIInv' /\ DetectorIInv'
  BY <1>1, StutterKeepsWindows, DetectorUnchanged DEF IInv
<1>3. /\ emitted' = emitted /\ log' = log /\ life' = life /\ fired' = fired
      /\ last' = last /\ nextEmit' = nextEmit /\ sequence' = sequence /\ time' = time
      /\ scorer' = scorer /\ space' = space /\ waiting' = waiting /\ spaceOf' = spaceOf
  BY DEF outside, windowVars, detectorVars, scoreVars
<1>4. ScoresAreComparable'
  BY <1>3 DEF IInv, ScoresAreComparable, OnStream
<1> QED BY <1>2, <1>3, <1>4

(* The alert at hand.                                                      *)
LEMMA AlertAtHand ==
  ASSUME IInv, step # "ready"
  PROVE  /\ alert \in Alert /\ alert # None /\ alert \in fired /\ alert.life = life
         /\ \A w \in pending : alert.end < w.end
BY NoneIsNoAlert DEF IInv, ServiceTypeOK, AlertsAreNumbered, AlertIsFirst

LEMMA CreateIncidentKeepsIInv ==
  ASSUME IInv, CreateIncident
  PROVE  IInv'
<1>1. /\ step = "create" /\ ~Known(alert) /\ incidents' = incidents \cup {alert}
      /\ step' = "publish" /\ UNCHANGED outside
      /\ alert' = alert /\ triggered' = triggered /\ merged' = merged /\ lost' = lost
      /\ pending' = pending
  BY DEF CreateIncident
<1>2. /\ WindowIInv' /\ DetectorIInv' /\ ScoresAreComparable'
      /\ emitted' = emitted /\ log' = log /\ life' = life /\ fired' = fired
      /\ last' = last /\ nextEmit' = nextEmit /\ sequence' = sequence
      /\ scorer' = scorer /\ space' = space /\ waiting' = waiting /\ spaceOf' = spaceOf
  BY <1>1, OutsideIsKept
<1>3. alert \in Alert /\ alert \in fired
  BY <1>1, AlertAtHand
<1>4. ServiceTypeOK'
  BY <1>1, <1>2, <1>3 DEF IInv, ServiceTypeOK
<1>5. QueueInOrder' /\ AlertIsFirst' /\ OnlyFailuresDropWindows'
  BY <1>1, <1>2 DEF IInv, QueueInOrder, AlertIsFirst, OnlyFailuresDropWindows
<1>6. AlertsAreNumbered'
  BY <1>1, <1>2, <1>3 DEF IInv, AlertsAreNumbered
<1>7. AlertsAreAccountedFor'
  <2>1. /\ \A a \in fired' : a \in triggered' \cup merged' \cup lost' \cup {alert'}
        /\ triggered' \subseteq incidents'
        /\ incidents' \subseteq triggered' \cup lost' \cup {alert'}
    BY <1>1, <1>2 DEF IInv, AlertsAreAccountedFor
  <2>2. \A a \in merged' : \E i \in incidents' : IncidentId(i) = IncidentId(a) /\ i.life < a.life
    BY <1>1 DEF IInv, AlertsAreAccountedFor
  <2>3. \A a, b \in incidents' : IncidentId(a) = IncidentId(b) => a = b
    BY <1>1, Zenon DEF IInv, AlertsAreAccountedFor, Known
  <2> QED BY <2>1, <2>2, <2>3, Zenon DEF AlertsAreAccountedFor
<1> QED BY <1>2, <1>4, <1>5, <1>6, <1>7 DEF IInv

LEMMA FindIncidentKeepsIInv ==
  ASSUME IInv, FindIncident
  PROVE  IInv'
<1>1. /\ step = "create" /\ Known(alert) /\ merged' = merged \cup {alert}
      /\ step' = "ready" /\ alert' = None /\ UNCHANGED outside
      /\ incidents' = incidents /\ triggered' = triggered /\ lost' = lost
      /\ pending' = pending
  BY DEF FindIncident, Continue
<1>2. /\ WindowIInv' /\ DetectorIInv' /\ ScoresAreComparable'
      /\ emitted' = emitted /\ log' = log /\ life' = life /\ fired' = fired
      /\ last' = last /\ nextEmit' = nextEmit /\ sequence' = sequence
      /\ scorer' = scorer /\ space' = space /\ waiting' = waiting /\ spaceOf' = spaceOf
  BY <1>1, OutsideIsKept
<1>3. alert \in Alert /\ alert \in fired /\ alert.life = life /\ alert \notin incidents
  BY <1>1, AlertAtHand DEF IInv, AlertsAreNumbered
<1>4. ServiceTypeOK'
  BY <1>1, <1>2, <1>3 DEF IInv, ServiceTypeOK
<1>5. QueueInOrder' /\ AlertIsFirst' /\ OnlyFailuresDropWindows' /\ AlertsAreNumbered'
  BY <1>1, <1>2 DEF IInv, QueueInOrder, AlertIsFirst, OnlyFailuresDropWindows,
     AlertsAreNumbered
<1>6. \E i \in incidents : IncidentId(i) = IncidentId(alert) /\ i.life < alert.life
  <2>1. PICK i \in incidents : IncidentId(i) = IncidentId(alert)
    BY <1>1 DEF Known
  <2>2. i \in fired /\ i \in Alert /\ i.life \in Nat /\ i.life <= life /\ life \in Nat
    BY DEF IInv, AlertsAreNumbered, ServiceTypeOK, Alert
  <2>3. i.seq = alert.seq
    BY <2>1 DEF IncidentId
  <2>4. i.life # life
    BY <1>3, <2>2, <2>3 DEF IInv, AlertsAreNumbered
  <2>5. i.life < alert.life
    BY <1>3, <2>2, <2>4
  <2> QED BY <2>1, <2>5
<1>7. AlertsAreAccountedFor'
  <2>1. \A a \in fired' : a \in triggered' \cup merged' \cup lost' \cup {alert'}
    BY <1>1, <1>2 DEF IInv, AlertsAreAccountedFor
  <2>2. \A a \in merged' : \E i \in incidents' : IncidentId(i) = IncidentId(a) /\ i.life < a.life
    BY <1>1, <1>6 DEF IInv, AlertsAreAccountedFor
  <2>3. /\ triggered' \subseteq incidents'
        /\ incidents' \subseteq triggered' \cup lost' \cup {alert'}
        /\ \A a, b \in incidents' : IncidentId(a) = IncidentId(b) => a = b
    BY <1>1, <1>3 DEF IInv, AlertsAreAccountedFor
  <2> QED BY <2>1, <2>2, <2>3, Zenon DEF AlertsAreAccountedFor
<1> QED BY <1>2, <1>4, <1>5, <1>7 DEF IInv

LEMMA PublishedKeepsIInv ==
  ASSUME IInv, Published
  PROVE  IInv'
<1>1. /\ step = "publish" /\ step' = "trigger" /\ UNCHANGED outside
      /\ alert' = alert /\ incidents' = incidents /\ triggered' = triggered
      /\ merged' = merged /\ lost' = lost /\ pending' = pending
  BY DEF Published
<1>2. /\ WindowIInv' /\ DetectorIInv' /\ ScoresAreComparable'
      /\ emitted' = emitted /\ log' = log /\ life' = life /\ fired' = fired
      /\ last' = last /\ nextEmit' = nextEmit /\ sequence' = sequence
      /\ scorer' = scorer /\ space' = space /\ waiting' = waiting /\ spaceOf' = spaceOf
  BY <1>1, OutsideIsKept
<1>3. ServiceTypeOK'
  BY <1>1, <1>2 DEF IInv, ServiceTypeOK
<1>4. QueueInOrder' /\ AlertIsFirst' /\ AlertsAreNumbered'
  BY <1>1, <1>2 DEF IInv, QueueInOrder, AlertIsFirst, AlertsAreNumbered
<1>5. OnlyFailuresDropWindows' /\ AlertsAreAccountedFor'
  BY <1>1, <1>2 DEF IInv, OnlyFailuresDropWindows, AlertsAreAccountedFor
<1> QED BY <1>2, <1>3, <1>4, <1>5 DEF IInv

LEMMA TriggerKeepsIInv ==
  ASSUME IInv, Trigger
  PROVE  IInv'
<1>1. /\ step = "trigger" /\ triggered' = triggered \cup {alert}
      /\ step' = "ready" /\ alert' = None /\ UNCHANGED outside
      /\ incidents' = incidents /\ merged' = merged /\ lost' = lost /\ pending' = pending
  BY DEF Trigger, Continue
<1>2. /\ WindowIInv' /\ DetectorIInv' /\ ScoresAreComparable'
      /\ emitted' = emitted /\ log' = log /\ life' = life /\ fired' = fired
      /\ last' = last /\ nextEmit' = nextEmit /\ sequence' = sequence
      /\ scorer' = scorer /\ space' = space /\ waiting' = waiting /\ spaceOf' = spaceOf
  BY <1>1, OutsideIsKept
<1>3. alert \in Alert /\ alert \in incidents
  BY <1>1, AlertAtHand DEF IInv, AlertsAreNumbered
<1>4. ServiceTypeOK'
  BY <1>1, <1>2, <1>3 DEF IInv, ServiceTypeOK
<1>5. QueueInOrder' /\ AlertIsFirst' /\ AlertsAreNumbered' /\ OnlyFailuresDropWindows'
  BY <1>1, <1>2 DEF IInv, QueueInOrder, AlertIsFirst, AlertsAreNumbered,
     OnlyFailuresDropWindows
<1>6. AlertsAreAccountedFor'
  BY <1>1, <1>2, <1>3 DEF IInv, AlertsAreAccountedFor
<1> QED BY <1>2, <1>4, <1>5, <1>6 DEF IInv

(* A failure ends the call: the windows that waited lie behind its alert.  *)
LEMMA HandlingFailsKeepsIInv ==
  ASSUME IInv, HandlingFails
  PROVE  IInv'
<1>1. /\ step \in {"create", "publish"} /\ lost' = lost \cup {alert} /\ pending' = {}
      /\ step' = "ready" /\ alert' = None /\ UNCHANGED outside
      /\ triggered' = triggered /\ merged' = merged
      /\ \/ incidents' = incidents
         \/ ~Known(alert) /\ incidents' = incidents \cup {alert}
  BY DEF HandlingFails, Continue
<1>2. /\ WindowIInv' /\ DetectorIInv' /\ ScoresAreComparable'
      /\ emitted' = emitted /\ log' = log /\ life' = life /\ fired' = fired
      /\ last' = last /\ nextEmit' = nextEmit /\ sequence' = sequence
      /\ scorer' = scorer /\ space' = space /\ waiting' = waiting /\ spaceOf' = spaceOf
  BY <1>1, OutsideIsKept
<1>3. /\ alert \in Alert /\ alert \in fired /\ alert.life = life
      /\ \A w \in pending : alert.end < w.end
  BY <1>1, AlertAtHand
<1>4. ServiceTypeOK'
  BY <1>1, <1>2, <1>3 DEF IInv, ServiceTypeOK
<1>5. QueueInOrder' /\ AlertIsFirst' /\ AlertsAreNumbered'
  BY <1>1, <1>2, <1>3 DEF IInv, QueueInOrder, AlertIsFirst, AlertsAreNumbered
<1>6. OnlyFailuresDropWindows'
  <2>1. ASSUME NEW w \in emitted
        PROVE  \/ \E i \in DOMAIN log : log[i].end = w.end
               \/ \E a \in lost' : a.life = life /\ a.end < w.end
    <3>1. CASE w \in pending
      BY <1>1, <1>3, <3>1
    <3>2. CASE w \notin pending
      BY <1>1, <2>1, <3>2 DEF IInv, OnlyFailuresDropWindows
    <3> QED BY <3>1, <3>2
  <2>2. \A i, j \in DOMAIN log : i < j => log[i].end < log[j].end
    BY DEF IInv, OnlyFailuresDropWindows
  <2> QED BY <1>1, <1>2, <2>1, <2>2, Zenon DEF OnlyFailuresDropWindows
<1>7. AlertsAreAccountedFor'
  <2>1. /\ \A a \in fired' : a \in triggered' \cup merged' \cup lost' \cup {alert'}
        /\ triggered' \subseteq incidents'
        /\ incidents' \subseteq triggered' \cup lost' \cup {alert'}
    BY <1>1, <1>2 DEF IInv, AlertsAreAccountedFor
  <2>2. \A a \in merged' : \E i \in incidents' : IncidentId(i) = IncidentId(a) /\ i.life < a.life
    BY <1>1 DEF IInv, AlertsAreAccountedFor
  <2>3. \A a, b \in incidents' : IncidentId(a) = IncidentId(b) => a = b
    BY <1>1, Zenon DEF IInv, AlertsAreAccountedFor, Known
  <2> QED BY <2>1, <2>2, <2>3, Zenon DEF AlertsAreAccountedFor
<1> QED BY <1>2, <1>4, <1>5, <1>6, <1>7 DEF IInv

LEMMA HandleKeepsIInv ==
  ASSUME IInv, Handle
  PROVE  IInv'
BY ProcessKeepsIInv, CreateIncidentKeepsIInv, FindIncidentKeepsIInv, PublishedKeepsIInv,
   TriggerKeepsIInv, Zenon DEF Handle

-------------------------------------------------------------------------------
(* A new life: the alerts of the earlier ones are older.                   *)
LEMMA PrimeKeepsIInv ==
  ASSUME IInv, Prime, scorer' \in Spaces, waiting' \in Spaces \cup {None},
         lost' = lost \cup ({alert} \ {None})
  PROVE  IInv'
<1>1. /\ life < MaxLives /\ life' = life + 1
      /\ emitted' = {} /\ pending' = {} /\ log' = <<>> /\ sequence' = 0
      /\ space' = scorer' /\ spaceOf' = [x \in Transactions |-> None]
      /\ step' = "ready" /\ alert' = None
      /\ time' = [x \in Transactions |-> None]
      /\ incidents' = incidents /\ triggered' = triggered /\ fired' = fired
      /\ merged' = merged
  BY DEF Prime, Renew, Continue
<1>2. WindowIInv'
  BY RenewKeepsWindows DEF Prime
<1>3. DetectorIInv'
  <2>1. (DetectorInit /\ log = <<>>)'
    BY DEF Prime, DetectorInit
  <2> QED BY <2>1, DetectorRestarts
<1>4. Len(log') = 0 /\ DOMAIN log' = {} /\ \A i \in 1..Len(log') : FALSE
  BY <1>1
<1>5. ServiceTypeOK'
  <2>1. lost' \subseteq Alert
    BY DEF IInv, ServiceTypeOK
  <2>2. life' \in 1..MaxLives
    BY <1>1, Thresholds DEF IInv, ServiceTypeOK
  <2>3. spaceOf' \in [Transactions -> Spaces \cup {None}]
    BY <1>1
  <2> QED BY <1>1, <2>1, <2>2, <2>3 DEF IInv, ServiceTypeOK
<1>6. QueueInOrder' /\ AlertIsFirst'
  BY <1>1, <1>4, Zenon DEF QueueInOrder, AlertIsFirst
<1>7. AlertsAreNumbered'
  <2>1. \A a \in fired : a.life \in Nat /\ a.life <= life /\ life \in Nat
    BY DEF IInv, ServiceTypeOK, AlertsAreNumbered, Alert
  <2>2. \A a \in fired' : a.life <= life' /\ a.life # life'
    BY <1>1, <2>1
  <2> QED BY <1>1, <2>2 DEF IInv, AlertsAreNumbered
<1>8. ScoresAreComparable'
  BY <1>1 DEF ScoresAreComparable, OnStream
<1>9. OnlyFailuresDropWindows'
  BY <1>1, <1>4, Zenon DEF OnlyFailuresDropWindows
<1>10. AlertsAreAccountedFor'
  <2>1. None \notin fired /\ None \notin incidents
    BY NoneIsNoAlert DEF IInv, ServiceTypeOK
  <2> QED BY <1>1, <2>1 DEF IInv, AlertsAreAccountedFor
<1> QED BY <1>2, <1>3, <1>5, <1>6, <1>7, <1>8, <1>9, <1>10 DEF IInv

LEMMA NewLifeKeepsIInv ==
  ASSUME IInv, Reset \/ ReprimeForBatch \/ Restart
  PROVE  IInv'
<1>1. scorer \in Spaces /\ waiting \in Spaces \cup {None}
  BY DEF IInv, ServiceTypeOK
<1>2. Idle => alert = None
  BY DEF Idle, IInv, ServiceTypeOK
<1>3. CASE Reset
  BY <1>1, <1>2, <1>3, ScoringStaysInSpaces, PrimeKeepsIInv DEF Reset
<1>4. CASE ReprimeForBatch
  BY <1>1, <1>2, <1>4, ScoringStaysInSpaces, PrimeKeepsIInv DEF ReprimeForBatch
<1>5. CASE Restart
  BY <1>1, <1>5, PrimeKeepsIInv DEF Restart, Load
<1> QED BY <1>3, <1>4, <1>5

LEMMA StutterKeepsIInv ==
  ASSUME IInv, UNCHANGED vars
  PROVE  IInv'
<1>1. /\ UNCHANGED outside
      /\ pending' = pending /\ step' = step /\ alert' = alert /\ incidents' = incidents
      /\ triggered' = triggered /\ merged' = merged /\ lost' = lost
  BY DEF vars, outside, incidentVars
<1>2. /\ WindowIInv' /\ DetectorIInv' /\ ScoresAreComparable'
      /\ emitted' = emitted /\ log' = log /\ life' = life /\ fired' = fired
      /\ last' = last /\ nextEmit' = nextEmit /\ sequence' = sequence
      /\ scorer' = scorer /\ space' = space /\ waiting' = waiting /\ spaceOf' = spaceOf
  BY <1>1, OutsideIsKept
<1>3. ServiceTypeOK'
  BY <1>1, <1>2 DEF IInv, ServiceTypeOK
<1>4. QueueInOrder' /\ AlertIsFirst' /\ AlertsAreNumbered'
  BY <1>1, <1>2 DEF IInv, QueueInOrder, AlertIsFirst, AlertsAreNumbered
<1>5. OnlyFailuresDropWindows' /\ AlertsAreAccountedFor'
  BY <1>1, <1>2 DEF IInv, OnlyFailuresDropWindows, AlertsAreAccountedFor
<1> QED BY <1>2, <1>3, <1>4, <1>5 DEF IInv

-------------------------------------------------------------------------------
LEMMA NextKeepsIInv == IInv /\ [Next]_vars => IInv'
<1> SUFFICES ASSUME IInv, [Next]_vars PROVE IInv'
  OBVIOUS
<1>1. CASE \E x \in Transactions, t \in Times : Arrive(x, t) \/ ArriveBatch(x, t)
  BY <1>1, ArriveKeepsIInv, Zenon
<1>2. CASE ScoreBatch BY <1>2, ScoreBatchKeepsIInv
<1>3. CASE FlushStream BY <1>3, FlushStreamKeepsIInv
<1>4. CASE Handle BY <1>4, HandleKeepsIInv
<1>5. CASE HandlingFails BY <1>5, HandlingFailsKeepsIInv
<1>6. CASE Reset \/ ReprimeForBatch \/ Restart BY <1>6, NewLifeKeepsIInv
<1>7. CASE UNCHANGED vars BY <1>7, StutterKeepsIInv
<1> QED BY <1>1, <1>2, <1>3, <1>4, <1>5, <1>6, <1>7, Zenon DEF Next

(* The inductive invariant holds throughout.                               *)
THEOREM DetectorInvariant == Spec => []IInv
BY InitHolds, NextKeepsIInv, PTL DEF Spec

(* Every variable keeps its type.                                          *)
THEOREM Typing == Spec => []TypeOK
BY DetectorInvariant, TypesTogether, PTL

(* Emitted windows are exact, for every window length, every slide and     *)
(* every stream in event-time order (windows.py:101-108, 128-131).         *)
THEOREM EmittedWindowsAreExact == Spec => []WindowsAreExact
<1>1. IInv => WindowsAreExact BY DEF IInv, WindowIInv
<1> QED BY <1>1, DetectorInvariant, PTL

(* One window for each slide boundary the stream has passed, from one full *)
(* window after its start on, and no other (windows.py:97-104).            *)
THEOREM EveryBoundaryOnce == Spec => []GridIsCovered
<1>1. IInv => GridIsCovered BY DEF IInv, WindowIInv
<1> QED BY <1>1, DetectorInvariant, PTL

(* The counters of the detector amount to what the log of windows says:    *)
(* it alerts on exactly the windows that ask for it (detector.py:200-247). *)
THEOREM AlertsFollow == Spec => []AlertsFollowTheWindows
<1>1. IInv => AlertsFollowTheWindows BY DEF IInv, DetectorIInv
<1> QED BY <1>1, DetectorInvariant, PTL

(* No window of an alert is learnt (detector.py:151-153, 240-250).         *)
THEOREM BaselineStaysQuiet == Spec => []BaselineIsQuiet
<1>1. IInv => BaselineIsQuiet BY DEF IInv, DetectorIInv
<1> QED BY <1>1, DetectorInvariant, PTL

(* All scores of a stream are in the space of its reference                *)
(* (transaction_service.py:176-184, 318-323).                              *)
THEOREM ScoresStayComparable == Spec => []ScoresAreComparable
<1>1. IInv => ScoresAreComparable BY DEF IInv
<1> QED BY <1>1, DetectorInvariant, PTL

(* Windows are judged in order, and only a failed handling drops some      *)
(* (transaction_service.py:393-419).                                       *)
THEOREM NoWindowIsDropped == Spec => []OnlyFailuresDropWindows
<1>1. IInv => OnlyFailuresDropWindows BY DEF IInv
<1> QED BY <1>1, DetectorInvariant, PTL

(* Every alert has its own incident and investigation, failed, or was      *)
(* taken for one of an earlier life (detector.py:222, incident_service.py).*)
THEOREM NoAlertIsForgotten == Spec => []AlertsAreAccountedFor
<1>1. IInv => AlertsAreAccountedFor BY DEF IInv
<1> QED BY <1>1, DetectorInvariant, PTL
=============================================================================
