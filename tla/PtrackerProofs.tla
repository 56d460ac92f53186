--------------------------- MODULE PtrackerProofs ---------------------------
(***************************************************************************)
(* The phase a tracker publishes is right for every width of the counters, *)
(* every phase, jitter up to an eighth of the circle and number of samples *)
(* averaged.                                                               *)
(***************************************************************************)
EXTENDS Ptracker, TLAPS

(* A sample j away from the true phase, corrected for a window whose first *)
(* sample was in the quarter first.                                        *)
Sample(ph, j) == (ph + j) % Scale
Corrected(ph, j, first) == Sample(ph, j) + Adj(Sample(ph, j) \div Quarter, first)

(***************************************************************************)
(* A window is sound when its samples lie about one of the numbers, a      *)
(* whole turn apart, that stand for the phase, and all that may come do.   *)
(***************************************************************************)
Turns(ph) == {ph - Scale, ph, ph + Scale}

About(c, ph) == c \in Turns(ph) /\ c >= -Jitter /\ c <= Scale - 1 + Jitter

Windowed(p, ph) ==
    \E c \in Turns(ph) :
      /\ About(c, ph)
      /\ \A j \in -Jitter .. Jitter : Corrected(ph, j, p.preserve_sign) = c + j
      /\ p.avg_count * (c - Jitter) <= p.acc /\ p.acc <= p.avg_count * (c + Jitter)

Averaged(p, ph) ==
    \E c \in Turns(ph) :
      About(c, ph) /\ c - Jitter <= p.phase_val /\ p.phase_val <= c + Jitter

(* The inductive invariant.                                                *)
TrackInv ==
    /\ TypeOK
    /\ fresh => tag_ref = base
    /\ clean /\ ~starting /\ pt.avg_count > 0 => Windowed(pt, phase)
    /\ pt.ready /\ published => Averaged(pt, phase)
-----------------------------------------------------------------------------
(* Arithmetic on the circle.                                               *)
LEMMA Circle ==
    /\ Scale \in Nat /\ Scale > 0 /\ Quarter \in Nat /\ Quarter > 0
    /\ Scale = 4 * Quarter
    /\ Jitter \in Nat /\ 2 * Jitter <= Quarter
    /\ Samples \in Nat /\ Samples >= 2
BY PtrackerAssumption DEF Quarter

LEMMA DivMod ==
    ASSUME NEW x \in Int
    PROVE  /\ x \div Scale \in Int /\ x % Scale \in 0 .. Scale - 1
           /\ x = Scale * (x \div Scale) + (x % Scale)
<1>1. Scale \in Int /\ Scale > 0
  BY Circle
<1>2. x % Scale \in 0 .. Scale - 1
  BY ONLY <1>1
<1>3. x \div Scale \in Int
  BY ONLY <1>1
<1>4. x = Scale * (x \div Scale) + (x % Scale)
  BY ONLY <1>1
<1>5. QED
  BY <1>2, <1>3, <1>4

LEMMA ModIs ==
    ASSUME NEW x \in Int, NEW m \in Int, NEW r \in 0 .. Scale - 1, x = Scale * m + r
    PROVE  x % Scale = r
BY Circle

LEMMA QuarterOf ==
    ASSUME NEW x \in 0 .. Scale - 1
    PROVE  /\ x \div Quarter \in 0 .. 3
           /\ x \div Quarter = 0 <=> x < Quarter
           /\ x \div Quarter = 3 <=> x >= 3 * Quarter
<1> DEFINE k == x \div Quarter
           r == x % Quarter
<1>1. k \in Int /\ r \in 0 .. Quarter - 1 /\ x = Quarter * k + r
  BY Circle
<1> HIDE DEF k, r
<1>2. k >= 0
  BY <1>1, Circle
<1>3. k <= 3
  BY <1>1, Circle
<1>4. k \in {0, 1, 2, 3}
  BY <1>1, <1>2, <1>3
<1>5. QED
  BY <1>1, <1>4, Circle DEF k

LEMMA SampleIs ==
    ASSUME NEW ph \in 0 .. Scale - 1, NEW j \in -Jitter .. Jitter
    PROVE  /\ Sample(ph, j) = IF ph + j < 0 THEN ph + j + Scale
                              ELSE IF ph + j >= Scale THEN ph + j - Scale ELSE ph + j
           /\ Sample(ph, j) \in 0 .. Scale - 1
<1> USE Circle DEF Sample
<1>1. CASE ph + j < 0
  <2>1. ph + j = Scale * (-1) + (ph + j + Scale) /\ ph + j + Scale \in 0 .. Scale - 1
    BY <1>1
  <2>2. QED
    BY <1>1, <2>1, ModIs
<1>2. CASE ph + j >= Scale
  <2>1. ph + j = Scale * 1 + (ph + j - Scale) /\ ph + j - Scale \in 0 .. Scale - 1
    BY <1>2
  <2>2. QED
    BY <1>2, <2>1, ModIs
<1>3. CASE ph + j \in 0 .. Scale - 1
  <2>1. ph + j = Scale * 0 + (ph + j)
    OBVIOUS
  <2>2. QED
    BY <1>3, <2>1, ModIs
<1>4. QED
  BY <1>1, <1>2, <1>3

(* The first sample of a window decides where its others are put: the      *)
(* table brings those across the wrap to its side.                         *)
LEMMA WindowBegins ==
    ASSUME NEW ph \in 0 .. Scale - 1, NEW j0 \in -Jitter .. Jitter
    PROVE  LET s == Sample(ph, j0)
               c == s - j0
           IN  /\ About(c, ph) /\ s \div Quarter \in 0 .. 3
               /\ \A j \in -Jitter .. Jitter : Corrected(ph, j, s \div Quarter) = c + j
<1> DEFINE s == Sample(ph, j0)
           c == s - j0
           first == s \div Quarter
<1>1. /\ s = IF ph + j0 < 0 THEN ph + j0 + Scale
             ELSE IF ph + j0 >= Scale THEN ph + j0 - Scale ELSE ph + j0
      /\ s \in 0 .. Scale - 1
  BY SampleIs
<1>2. first \in 0 .. 3 /\ (first = 0 <=> s < Quarter) /\ (first = 3 <=> s >= 3 * Quarter)
  BY <1>1, QuarterOf
<1> HIDE DEF s, first
<1>3. About(c, ph)
  BY <1>1, Circle DEF About, Turns
<1>4. ASSUME NEW j \in -Jitter .. Jitter
      PROVE  Corrected(ph, j, first) = c + j
  <2> DEFINE t == Sample(ph, j)
             q == t \div Quarter
  <2>1. /\ t = IF ph + j < 0 THEN ph + j + Scale
               ELSE IF ph + j >= Scale THEN ph + j - Scale ELSE ph + j
        /\ t \in 0 .. Scale - 1
    BY SampleIs
  <2>2. q \in 0 .. 3 /\ (q = 0 <=> t < Quarter) /\ (q = 3 <=> t >= 3 * Quarter)
    BY <2>1, QuarterOf
  <2>3. Corrected(ph, j, first) = t + Adj(q, first)
    BY DEF Corrected
  <2> HIDE DEF t, q
  <2>4. Adj(q, first) = IF first = 0 /\ q = 3 THEN -Scale
                        ELSE IF first = 3 /\ q = 0 THEN Scale ELSE 0
    BY DEF Adj
  <2>5. t + Adj(q, first) = s - j0 + j
    BY <1>1, <1>2, <2>1, <2>2, <2>4, Circle
  <2>6. QED
    BY <2>3, <2>5
<1>5. QED
  BY <1>2, <1>3, <1>4 DEF s, first

(* The truncated mean of numbers between lo and hi is between them.        *)
LEMMA Multiply ==
    ASSUME NEW n \in Nat, NEW a \in Int, NEW b \in Int, a <= b
    PROVE  n * a <= n * b
<1>1. b - a \in Nat /\ n * (b - a) >= 0 /\ n * b = n * a + n * (b - a)
  OBVIOUS
<1>2. QED
  BY <1>1

LEMMA MeanBetween ==
    ASSUME NEW n \in Nat, n > 0, NEW acc \in Int, NEW lo \in Int, NEW hi \in Int,
           n * lo <= acc, acc <= n * hi
    PROVE  Trunc(acc, n) \in Int /\ lo <= Trunc(acc, n) /\ Trunc(acc, n) <= hi
<1>1. ASSUME NEW x \in Int, NEW l \in Int, NEW h \in Int, n * l <= x, x <= n * h
      PROVE  x \div n \in Int /\ l <= x \div n /\ x \div n <= h
  <2> DEFINE k == x \div n
             r == x % n
  <2>1. k \in Int /\ r \in 0 .. n - 1 /\ x = n * k + r
    OBVIOUS
  <2> HIDE DEF k, r
  <2>2. CASE k < l
    <3>1. n * (k + 1) <= n * l /\ n * (k + 1) = n * k + n
      BY <2>1, <2>2, Multiply
    <3>2. QED
      BY <1>1, <2>1, <3>1
  <2>3. CASE h < k
    <3>1. n * (h + 1) <= n * k /\ n * (h + 1) = n * h + n
      BY <2>1, <2>3, Multiply
    <3>2. QED
      BY <1>1, <2>1, <3>1
  <2>4. QED
    BY <2>1, <2>2, <2>3 DEF k
<1>2. CASE acc >= 0
  BY <1>1, <1>2 DEF Trunc
<1>3. CASE acc < 0
  <2>1. n * (-hi) <= -acc /\ -acc <= n * (-lo) /\ -acc \in Int
    OBVIOUS
  <2>2. (-acc) \div n \in Int /\ -hi <= (-acc) \div n /\ (-acc) \div n <= -lo
    BY <1>1, <2>1
  <2>3. QED
    BY <1>3, <2>2 DEF Trunc
<1>4. QED
  BY <1>2, <1>3

(* Two numbers that are e apart, but for whole turns, are close.           *)
LEMMA Close ==
    ASSUME NEW a \in Int, NEW b \in Int, NEW e \in Int, NEW m \in Int,
           a - b = Scale * m + e, NEW bound \in Nat, -bound <= e, e <= bound,
           bound < Scale
    PROVE  Distance(a, b) <= bound
<1> DEFINE d == (a - b) % Scale
<1>1. CASE e >= 0
  <2>1. d = e
    BY <1>1, ModIs, Circle
  <2>2. QED
    BY <1>1, <2>1, Circle DEF Distance
<1>2. CASE e < 0
  <2>1. a - b = Scale * (m - 1) + (e + Scale) /\ e + Scale \in 0 .. Scale - 1
    BY <1>2, Circle
  <2>2. d = e + Scale
    <3>1. a - b \in Int /\ m - 1 \in Int
      OBVIOUS
    <3>2. QED
      BY ONLY <2>1, <3>1, ModIs
  <2>3. QED
    BY <1>2, <2>2, Circle DEF Distance
<1>3. QED
  BY <1>1, <1>2

(* spll_read_ptracker brings the mean back to the circle, and doubles it   *)
(* where the clocks are divided by two.                                    *)
LEMMA ReadIsAccurate ==
    ASSUME NEW p, NEW ph \in 0 .. Scale - 1, p.phase_val \in Int, Averaged(p, ph)
    PROVE  Distance(ReadPtracker(p), Factor * ph) <= Factor * Jitter
<1> DEFINE v == p.phase_val
           w == IF v < 0 THEN v + Scale ELSE IF v >= Scale THEN v - Scale ELSE v
<1>1. PICK c \in Turns(ph) : About(c, ph) /\ c - Jitter <= v /\ v <= c + Jitter
  BY DEF Averaged
<1>2. ReadPtracker(p) = IF DivideBy2 THEN (2 * w) % Scale ELSE w
  BY Circle DEF ReadPtracker
<1>3. PICK k \in {-1, 0, 1} : c = ph + Scale * k
  BY <1>1, Circle DEF Turns
<1>4. c \in Int /\ v \in Int
  BY <1>1, Circle DEF Turns
<1>5. PICK m \in {-1, 0, 1} : w = v + Scale * m
  BY <1>4, Circle
<1> DEFINE e == v - c
<1>6. e \in Int /\ -Jitter <= e /\ e <= Jitter
  BY <1>1, <1>4, Circle
<1> HIDE DEF v, w, e
<1>7. w - ph = Scale * (k + m) + e /\ w \in Int
  BY <1>3, <1>4, <1>5, Circle DEF e
<1>8. CASE ~DivideBy2
  <2>1. ReadPtracker(p) = w /\ Factor = 1
    BY <1>2, <1>8 DEF Factor
  <2>2. Distance(w, ph) <= Jitter
    <3>1. k + m \in Int /\ Jitter < Scale /\ Jitter \in Nat /\ ph \in Int
      BY Circle
    <3>2. QED
      BY <1>6, <1>7, <3>1, Close
  <2>3. QED
    BY <2>1, <2>2, Circle
<1>9. CASE DivideBy2
  <2> DEFINE x == (2 * w) % Scale
             n == (2 * w) \div Scale
  <2>1. ReadPtracker(p) = x /\ Factor = 2
    BY <1>2, <1>9 DEF Factor
  <2>2. x \in Int /\ n \in Int /\ 2 * w = Scale * n + x
    <3> DEFINE a == 2 * w
    <3>1. a \in Int
      BY <1>7
    <3> HIDE DEF a
    <3>2. a % Scale \in Int /\ a \div Scale \in Int /\ a = Scale * (a \div Scale) + (a % Scale)
      BY <3>1, DivMod
    <3>3. QED
      BY <3>2, Zenon DEF a
  <2> HIDE DEF x, n
  <2>3. x - 2 * ph = Scale * (2 * (k + m) - n) + 2 * e
    BY <1>6, <1>7, <2>2, Circle
  <2>4. /\ 2 * (k + m) - n \in Int /\ 2 * e \in Int /\ 2 * ph \in Int
        /\ -(2 * Jitter) <= 2 * e /\ 2 * e <= 2 * Jitter /\ 2 * Jitter < Scale
        /\ 2 * Jitter \in Nat
    BY <1>6, <2>2, Circle
  <2>5. Distance(x, 2 * ph) <= 2 * Jitter
    BY <2>2, <2>3, <2>4, Close
  <2>6. QED
    BY <2>1, <2>5
<1>10. QED
  BY <1>8, <1>9
-----------------------------------------------------------------------------
(* The steps.                                                              *)

(* The fields a change of the tracker's record writes; the counter may     *)
(* reach Samples while they are written.                                   *)
Trackers(k) == [enabled : BOOLEAN, ready : BOOLEAN, preserve_sign : 0 .. 3,
                acc : Int, avg_count : 0 .. k, phase_val : Int]

Tracker(e, r, s, a, c, v) ==
    [enabled |-> e, ready |-> r, preserve_sign |-> s, acc |-> a,
     avg_count |-> c, phase_val |-> v]

LEMMA TrackerFields ==
    ASSUME NEW k, NEW q \in Trackers(k)
    PROVE  q = Tracker(q.enabled, q.ready, q.preserve_sign, q.acc, q.avg_count,
                       q.phase_val)
BY DEF Tracker, Trackers

Begun(p, s, a, c) == [p EXCEPT !.preserve_sign = s, !.acc = a, !.avg_count = c]

LEMMA FirstSample ==
    ASSUME NEW k, NEW p \in Trackers(k), NEW s \in 0 .. 3, NEW a \in Int,
           NEW c \in 0 .. k
    PROVE  Begun(p, s, a, c) = Tracker(p.enabled, p.ready, s, a, c, p.phase_val)
<1> DEFINE q == [p EXCEPT !.preserve_sign = s, !.acc = a, !.avg_count = c]
<1>1. /\ q \in Trackers(k) /\ q.enabled = p.enabled /\ q.ready = p.ready
      /\ q.preserve_sign = s /\ q.acc = a /\ q.avg_count = c
      /\ q.phase_val = p.phase_val
  BY DEF Trackers
<1> HIDE DEF q
<1>2. q = Tracker(p.enabled, p.ready, s, a, c, p.phase_val)
  BY <1>1, TrackerFields
<1>3. QED
  BY <1>2 DEF q, Begun

LEMMA NextSample ==
    ASSUME NEW k, NEW p \in Trackers(k), NEW a \in Int, NEW c \in 0 .. k
    PROVE  [p EXCEPT !.acc = a, !.avg_count = c]
             = Tracker(p.enabled, p.ready, p.preserve_sign, a, c, p.phase_val)
<1> DEFINE q == [p EXCEPT !.acc = a, !.avg_count = c]
<1>1. /\ q \in Trackers(k) /\ q.enabled = p.enabled /\ q.ready = p.ready
      /\ q.preserve_sign = p.preserve_sign /\ q.acc = a /\ q.avg_count = c
      /\ q.phase_val = p.phase_val
  BY DEF Trackers
<1> HIDE DEF q
<1>2. q = Tracker(p.enabled, p.ready, p.preserve_sign, a, c, p.phase_val)
  BY <1>1, TrackerFields
<1>3. QED
  BY <1>2 DEF q

LEMMA Started ==
    ASSUME NEW k, NEW p \in Trackers(k), NEW e \in BOOLEAN, NEW r \in BOOLEAN,
           NEW s \in 0 .. 3, NEW a \in Int
    PROVE  [p EXCEPT !.preserve_sign = s, !.enabled = e, !.ready = r, !.acc = a]
             = Tracker(e, r, s, a, p.avg_count, p.phase_val)
<1> DEFINE q == [p EXCEPT !.preserve_sign = s, !.enabled = e, !.ready = r, !.acc = a]
<1>1. /\ q \in Trackers(k) /\ q.enabled = e /\ q.ready = r
      /\ q.preserve_sign = s /\ q.acc = a /\ q.avg_count = p.avg_count
      /\ q.phase_val = p.phase_val
  BY DEF Trackers
<1> HIDE DEF q
<1>2. q = Tracker(e, r, s, a, p.avg_count, p.phase_val)
  BY <1>1, TrackerFields
<1>3. QED
  BY <1>2 DEF q

LEMMA StartFields ==
    ASSUME NEW k \in Nat, NEW p \in Trackers(k)
    PROVE  /\ PtrackerStart1(p) = Tracker(TRUE, FALSE, 0, 0, p.avg_count, p.phase_val)
           /\ PtrackerStart2(PtrackerStart1(p))
                = Tracker(TRUE, FALSE, 0, 0, 0, p.phase_val)
<1> DEFINE q == PtrackerStart1(p)
           r == PtrackerStart2(q)
<1>0. TRUE \in BOOLEAN /\ FALSE \in BOOLEAN /\ 0 \in 0 .. 3 /\ 0 \in Int
  OBVIOUS
<1>5. q = Tracker(TRUE, FALSE, 0, 0, p.avg_count, p.phase_val)
  BY <1>0, Started, Zenon DEF PtrackerStart1
<1>1. /\ q \in Trackers(k) /\ q.enabled = TRUE /\ q.ready = FALSE
      /\ q.preserve_sign = 0 /\ q.acc = 0 /\ q.avg_count = p.avg_count
      /\ q.phase_val = p.phase_val
  <2> HIDE DEF q
  <2>1. QED
    BY <1>5 DEF Trackers, Tracker
<1> HIDE DEF q
<1>2. /\ r \in Trackers(k) /\ r.enabled = q.enabled /\ r.ready = q.ready
      /\ r.acc = q.acc /\ r.preserve_sign = q.preserve_sign /\ r.avg_count = 0
      /\ r.phase_val = q.phase_val
  BY <1>1 DEF Trackers, PtrackerStart2
<1> HIDE DEF r
<1>4. r = Tracker(r.enabled, r.ready, r.preserve_sign, r.acc, r.avg_count, r.phase_val)
  BY <1>2, TrackerFields, Zenon
<1>6. r = Tracker(TRUE, FALSE, 0, 0, 0, p.phase_val)
  BY ONLY <1>1, <1>2, <1>4, Zenon
<1>7. QED
  BY <1>5, <1>6 DEF q, r

LEMMA PtInit == Init => TrackInv
<1> SUFFICES ASSUME Init PROVE TrackInv
  OBVIOUS
<1>1. TypeOK
  <2>1. locked \in BOOLEAN /\ fresh \in BOOLEAN
    BY PtrackerAssumption, Zenon DEF Init
  <2>2. /\ tag_ref \in -1 .. Scale - 1 /\ base \in 0 .. Scale - 1
        /\ 0 \in 0 .. Samples - 1
    BY Circle DEF Init
  <2>3. pt \in [enabled : BOOLEAN, ready : BOOLEAN, preserve_sign : 0 .. 3,
                acc : Int, avg_count : 0 .. Samples - 1, phase_val : Int]
    BY <2>2 DEF Init
  <2>4. QED
    BY <2>1, <2>2, <2>3 DEF Init, TypeOK
<1>2. QED
  BY <1>1 DEF Init, TrackInv

(* Another state with the same window, or with none, is as sound.          *)
LEMMA WindowKept ==
    ASSUME NEW p, NEW p1, NEW ph, p1.acc = p.acc, p1.avg_count = p.avg_count,
           p1.preserve_sign = p.preserve_sign, Windowed(p, ph)
    PROVE  Windowed(p1, ph)
BY DEF Windowed

(* Every step but a tag of the reference.                                  *)
LEMMA OtherSteps ==
    ASSUME TrackInv,
           \/ Lock \/ Delock \/ SpllInit \/ OutTag \/ StartBegin \/ StartEnd
           \/ UNCHANGED vars
    PROVE  TrackInv'
<1> USE Circle, PtrackerAssumption
<1>0. /\ TypeOK /\ (fresh => tag_ref = base)
      /\ clean /\ ~starting /\ pt.avg_count > 0 => Windowed(pt, phase)
      /\ pt.ready /\ published => Averaged(pt, phase)
  BY DEF TrackInv
<1> DEFINE p == pt
           begun   == Tracker(TRUE, FALSE, 0, 0, p.avg_count, p.phase_val)
           started == Tracker(TRUE, FALSE, 0, 0, 0, p.phase_val)
           n    == p.avg_count
           Recs == [enabled : BOOLEAN, ready : BOOLEAN, preserve_sign : 0 .. 3,
                    acc : Int, avg_count : 0 .. Samples - 1, phase_val : Int]
<1>t. /\ p \in Recs /\ n \in 0 .. Samples - 1 /\ 0 \in 0 .. Samples - 1
      /\ p.phase_val \in Int
  BY <1>0 DEF TypeOK
<1>1. PtrackerStart1(p) = begun /\ PtrackerStart2(PtrackerStart1(p)) = started
  <2>1. p \in Trackers(Samples - 1) /\ Samples - 1 \in Nat
    BY <1>t DEF Trackers
  <2>2. QED
    BY <2>1, StartFields, Zenon
<1>r. begun \in Recs /\ started \in Recs
  BY <1>t DEF Tracker
<1>2. CASE Lock
  <2>1. pt' \in {p, started}
    BY <1>1, <1>2 DEF Lock
  <2>2. TypeOK'
    <3>1. pt' \in Recs
      BY <1>t, <1>r, <2>1
    <3>2. QED
      BY <1>0, <1>2, <3>1 DEF Lock, TypeOK
  <2>3. QED
    BY <1>0, <1>2, <2>1, <2>2 DEF Lock, TrackInv, Tracker
<1>3. CASE Delock
  <2>1. TypeOK'
    BY <1>0, <1>3 DEF Delock, TypeOK, histVars
  <2>2. QED
    BY <1>0, <1>3, <2>1 DEF Delock, histVars, TrackInv
<1>4. CASE SpllInit
  <2>1. pt' = [enabled |-> FALSE, ready |-> FALSE, preserve_sign |-> p.preserve_sign,
               acc |-> 0, avg_count |-> 0, phase_val |-> p.phase_val]
    BY <1>t, <1>4 DEF SpllInit, PtrackerInit
  <2>2. TypeOK'
    <3>1. pt' \in Recs
      BY <1>t, <2>1
    <3>2. QED
      BY <1>0, <1>4, <3>1 DEF SpllInit, TypeOK, histVars
  <2>3. QED
    BY <1>0, <1>4, <2>1, <2>2 DEF SpllInit, histVars, TrackInv
<1>5. CASE OutTag
  <2>1. TypeOK'
    BY <1>0, <1>5 DEF OutTag, TypeOK
  <2>2. QED
    BY <1>0, <1>5, <2>1 DEF OutTag, TrackInv
<1>6. CASE StartBegin
  <2>1. pt' = begun
    BY <1>1, <1>6 DEF StartBegin
  <2>2. TypeOK'
    BY <1>0, <1>r, <1>6, <2>1 DEF StartBegin, TypeOK, histVars
  <2>3. QED
    BY <1>0, <1>6, <2>1, <2>2 DEF StartBegin, histVars, TrackInv, Tracker
<1>7. CASE StartEnd
  <2>1. pt' = [enabled |-> p.enabled, ready |-> p.ready, preserve_sign |-> p.preserve_sign,
               acc |-> p.acc, avg_count |-> 0, phase_val |-> p.phase_val]
    BY <1>t, <1>7 DEF StartEnd, PtrackerStart2
  <2>2. TypeOK'
    <3>1. pt' \in Recs
      BY <1>t, <2>1
    <3>2. QED
      BY <1>0, <1>7, <3>1 DEF StartEnd, TypeOK, histVars
  <2>3. pt'.ready /\ published => Averaged(pt', phase)
    BY <1>0, <2>1 DEF Averaged
  <2>4. QED
    BY <1>0, <1>7, <2>1, <2>2, <2>3 DEF StartEnd, histVars, TrackInv
<1>8. CASE UNCHANGED vars
  <2>1. TypeOK'
    BY <1>0, <1>8 DEF vars, histVars, TypeOK
  <2>2. QED
    BY <1>0, <1>8, <2>1 DEF vars, histVars, TrackInv
<1>9. QED
  BY <1>2, <1>3, <1>4, <1>5, <1>6, <1>7, <1>8

LEMMA RefTagStep ==
    ASSUME TrackInv, NEW j \in -Jitter .. Jitter, RefTag(j)
    PROVE  TrackInv'
<1> USE Circle
<1> DEFINE p     == pt
           n     == p.avg_count
           delta == (tag_ref - (base - phase - j)) % Scale
           index == delta \div Quarter
           more  == p.acc + delta + Adj(index, p.preserve_sign)
           Ready(a, c, v, s) == [enabled |-> p.enabled, ready |-> TRUE,
                                 preserve_sign |-> s, acc |-> a,
                                 avg_count |-> c, phase_val |-> v]
           Going(a, c, s) == [enabled |-> p.enabled, ready |-> p.ready,
                              preserve_sign |-> s, acc |-> a,
                              avg_count |-> c, phase_val |-> p.phase_val]
<1>0. /\ TypeOK /\ (fresh => tag_ref = base)
      /\ clean /\ ~starting /\ n > 0 => Windowed(p, phase)
      /\ p.ready /\ published => Averaged(p, phase)
  BY DEF TrackInv
<1>1. /\ UNCHANGED <<phase, locked, base, tag_ref, starting, fresh>>
      /\ last' = "ref" /\ pt' = PtrackersUpdate(p, base - phase - j)
      /\ clean' = IF n = 0 THEN fresh /\ ~starting ELSE clean /\ fresh /\ ~starting
      /\ published' = IF pt'.ready /\ p.enabled /\ pt'.avg_count = 0
                      THEN clean' ELSE published
  BY DEF RefTag
<1>2. /\ p \in [enabled : BOOLEAN, ready : BOOLEAN, preserve_sign : 0 .. 3,
                acc : Int, avg_count : 0 .. Samples - 1, phase_val : Int]
      /\ n \in 0 .. Samples - 1 /\ phase \in 0 .. Scale - 1
      /\ base \in 0 .. Scale - 1 /\ tag_ref \in -1 .. Scale - 1
  BY <1>0, PtrackerAssumption DEF TypeOK
<1>3. delta \in 0 .. Scale - 1 /\ index \in 0 .. 3
  <2>1. tag_ref - (base - phase - j) \in Int
    BY <1>2
  <2>2. delta \in 0 .. Scale - 1
    BY <2>1
  <2> HIDE DEF delta
  <2>3. QED
    BY <2>2, QuarterOf
<1>4. fresh => delta = Sample(phase, j)
  <2>1. fresh => tag_ref - (base - phase - j) = phase + j
    BY <1>0, <1>2
  <2>2. QED
    BY <2>1 DEF Sample
<1>5. more \in Int
  <2>1. Adj(index, p.preserve_sign) \in Int
    BY DEF Adj
  <2>2. QED
    BY <1>2, <1>3, <2>1
<1>6. pt' = IF ~p.enabled THEN p
            ELSE IF n = 0 THEN Going(delta, 1, index)
            ELSE IF n + 1 # Samples THEN Going(more, n + 1, p.preserve_sign)
            ELSE Ready(0, 0, Trunc(more, Samples), p.preserve_sign)
  <2> HIDE DEF delta, index, more
  <2>1. PtrackersUpdate(p, base - phase - j)
          = CASE ~p.enabled -> p
              [] p.enabled /\ n = 0 ->
                   [p EXCEPT !.preserve_sign = index, !.acc = delta, !.avg_count = 1]
              [] p.enabled /\ n # 0 /\ n + 1 # Samples ->
                   [p EXCEPT !.acc = more, !.avg_count = @ + 1]
              [] OTHER -> WindowDone(p, more)
    BY DEF PtrackersUpdate, delta, index, more
  <2>2. /\ [p EXCEPT !.preserve_sign = index, !.acc = delta, !.avg_count = 1]
              = Going(delta, 1, index)
        /\ [p EXCEPT !.acc = more, !.avg_count = @ + 1]
              = Going(more, n + 1, p.preserve_sign)
        /\ WindowDone(p, more) = Ready(0, 0, Trunc(more, Samples), p.preserve_sign)
    <3>1. WindowDone(p, more) = [p EXCEPT !.phase_val = Trunc(more, Samples),
                                          !.ready = TRUE, !.acc = 0, !.avg_count = 0]
      BY DEF WindowDone
    <3>2. p \in Trackers(Samples)
      BY <1>2, PtrackerAssumption DEF Trackers
    <3>3. /\ [p EXCEPT !.acc = more, !.avg_count = @ + 1]
              = Going(more, n + 1, p.preserve_sign)
          /\ [p EXCEPT !.preserve_sign = index, !.acc = delta, !.avg_count = 1]
              = Going(delta, 1, index)
      <4>1. /\ index \in 0 .. 3 /\ delta \in Int /\ more \in Int
            /\ 1 \in 0 .. Samples /\ n + 1 \in 0 .. Samples
        BY <1>2, <1>3, <1>5, PtrackerAssumption
      <4>2. [p EXCEPT !.acc = more, !.avg_count = @ + 1]
              = [p EXCEPT !.acc = more, !.avg_count = n + 1]
        OBVIOUS
      <4>3. [p EXCEPT !.acc = more, !.avg_count = n + 1]
              = Tracker(p.enabled, p.ready, p.preserve_sign, more, n + 1, p.phase_val)
        <5> HIDE DEF n
        <5>1. QED
          BY <3>2, <4>1, NextSample
      <4>4. [p EXCEPT !.preserve_sign = index, !.acc = delta, !.avg_count = 1]
              = Tracker(p.enabled, p.ready, index, delta, 1, p.phase_val)
        <5> HIDE DEF n
        <5>1. Begun(p, index, delta, 1)
                = Tracker(p.enabled, p.ready, index, delta, 1, p.phase_val)
          BY <3>2, <4>1, FirstSample
        <5>2. QED
          BY <5>1 DEF Begun
      <4>5. QED
        BY <4>2, <4>3, <4>4 DEF Tracker
    <3>4. WindowDone(p, more) = Ready(0, 0, Trunc(more, Samples), p.preserve_sign)
      BY <1>2, <3>1
    <3>5. QED
      BY <3>3, <3>4
  <2> HIDE DEF Going, Ready
  <2>3. p.enabled \in BOOLEAN
    BY <1>2
  <2>4. QED
    BY <1>1, <2>1, <2>2, <2>3
<1> HIDE DEF delta, index, more
<1>7. ASSUME clean', ~starting, n # 0, p.enabled
      PROVE  \E c \in Turns(phase) :
               /\ About(c, phase)
               /\ \A i \in -Jitter .. Jitter : Corrected(phase, i, p.preserve_sign) = c + i
               /\ (n + 1) * (c - Jitter) <= more /\ more <= (n + 1) * (c + Jitter)
  <2>1. clean /\ fresh
    BY <1>1, <1>7
  <2>2. PICK c \in Turns(phase) :
          /\ About(c, phase)
          /\ \A i \in -Jitter .. Jitter : Corrected(phase, i, p.preserve_sign) = c + i
          /\ n * (c - Jitter) <= p.acc /\ p.acc <= n * (c + Jitter)
    BY <1>0, <1>2, <1>7, <2>1 DEF Windowed
  <2>3. more = p.acc + Corrected(phase, j, p.preserve_sign)
    <3>1. delta + Adj(index, p.preserve_sign) = Corrected(phase, j, p.preserve_sign)
      BY <1>4, <2>1 DEF Corrected, index
    <3>2. Adj(index, p.preserve_sign) \in Int
      BY DEF Adj
    <3>3. QED
      BY <1>2, <1>3, <3>1, <3>2 DEF more
  <2>4. more = p.acc + (c + j) /\ c \in Int
    BY <1>2, <2>2, <2>3 DEF Turns
  <2>5. /\ (n + 1) * (c - Jitter) = n * (c - Jitter) + (c - Jitter)
        /\ (n + 1) * (c + Jitter) = n * (c + Jitter) + (c + Jitter)
    BY <1>2, <2>4
  <2>6. /\ n * (c - Jitter) \in Int /\ n * (c + Jitter) \in Int
        /\ c - Jitter <= c + j /\ c + j <= c + Jitter
    BY <1>2, <2>4
  <2>7. (n + 1) * (c - Jitter) <= more /\ more <= (n + 1) * (c + Jitter)
    BY <1>2, <2>2, <2>4, <2>5, <2>6
  <2>8. QED
    BY <2>2, <2>7
<1>8. TypeOK'
  <2>1. Trunc(more, Samples) \in Int
    BY <1>5 DEF Trunc
  <2>2. pt' \in [enabled : BOOLEAN, ready : BOOLEAN, preserve_sign : 0 .. 3,
                 acc : Int, avg_count : 0 .. Samples - 1, phase_val : Int]
    BY <1>2, <1>3, <1>5, <1>6, <2>1
  <2>3. clean' \in BOOLEAN /\ published' \in BOOLEAN
    BY <1>0, <1>1, Zenon DEF TypeOK
  <2>4. QED
    BY <1>0, <1>1, <2>2, <2>3 DEF TypeOK
<1>9. ASSUME clean', ~starting, pt'.avg_count > 0
      PROVE  Windowed(pt', phase)
  <2>1. CASE ~p.enabled
    <3>1. pt' = p
      BY <1>6, <2>1
    <3>2. n > 0 /\ n # 0
      BY <1>2, <1>9, <3>1
    <3>3. clean
      BY <1>1, <1>9, <3>2
    <3>4. QED
      BY <1>0, <1>9, <3>1, <3>2, <3>3
  <2>2. CASE p.enabled /\ n = 0
    <3>f. fresh
      BY <1>1, <1>9, <2>2
    <3>g. pt' = Going(delta, 1, index)
      BY <1>6, <2>2
    <3>1. /\ pt'.acc = delta /\ pt'.avg_count = 1 /\ pt'.preserve_sign = index /\ fresh
      BY <3>f, <3>g
    <3>2. delta = Sample(phase, j) /\ index = Sample(phase, j) \div Quarter
      BY <1>4, <3>1 DEF index
    <3> DEFINE c == Sample(phase, j) - j
    <3>3. /\ About(c, phase)
          /\ \A i \in -Jitter .. Jitter : Corrected(phase, i, index) = c + i
      BY <1>2, <3>2, WindowBegins
    <3>4. c \in Turns(phase) /\ c \in Int /\ delta = c + j
      BY <1>2, <1>3, <3>2, <3>3 DEF About
    <3> HIDE DEF c
    <3>5. 1 * (c - Jitter) <= delta /\ delta <= 1 * (c + Jitter)
      BY <3>4
    <3>6. QED
      BY <3>1, <3>3, <3>4, <3>5 DEF Windowed
  <2>3. CASE p.enabled /\ n # 0 /\ n + 1 # Samples
    <3>1. pt'.acc = more /\ pt'.avg_count = n + 1 /\ pt'.preserve_sign = p.preserve_sign
      BY <1>6, <2>3
    <3>2. QED
      BY <1>7, <1>9, <2>3, <3>1 DEF Windowed
  <2>4. CASE p.enabled /\ n # 0 /\ n + 1 = Samples
    BY <1>6, <1>9, <2>4
  <2>5. QED
    BY <1>2, <2>1, <2>2, <2>3, <2>4
<1>10. ASSUME pt'.ready, published'
       PROVE  Averaged(pt', phase)
  <2>1. CASE p.enabled /\ n # 0 /\ n + 1 = Samples
    <3>1. pt'.phase_val = Trunc(more, Samples) /\ pt'.avg_count = 0
      BY <1>6, <2>1
    <3>2. clean'
      BY <1>1, <1>10, <2>1, <3>1
    <3>3. ~starting
      BY <1>1, <2>1, <3>2
    <3>4. PICK c \in Turns(phase) :
            /\ About(c, phase)
            /\ Samples * (c - Jitter) <= more /\ more <= Samples * (c + Jitter)
      BY <1>7, <2>1, <3>2, <3>3
    <3>5. c \in Int
      BY <1>2 DEF Turns
    <3>6. c - Jitter <= Trunc(more, Samples) /\ Trunc(more, Samples) <= c + Jitter
      BY <1>5, <3>4, <3>5, MeanBetween
    <3>7. QED
      BY <3>1, <3>4, <3>6 DEF Averaged
  <2>2. CASE ~(p.enabled /\ n # 0 /\ n + 1 = Samples)
    <3>1. pt'.phase_val = p.phase_val /\ pt'.ready = p.ready
      BY <1>2, <1>6, <2>2
    <3>2. ~(p.enabled /\ pt'.avg_count = 0)
      BY <1>2, <1>6, <2>2
    <3>3. published
      BY <1>1, <1>10, <3>2
    <3>4. QED
      BY <1>0, <1>10, <3>1, <3>3 DEF Averaged
  <2>3. QED
    BY <2>1, <2>2
<1>11. QED
  BY <1>0, <1>1, <1>8, <1>9, <1>10 DEF TrackInv

LEMMA TrackAlways == Spec => []TrackInv
<1>1. TrackInv /\ [Next]_vars => TrackInv'
  BY OtherSteps, RefTagStep DEF Next
<1>2. QED
  BY PtInit, <1>1, PTL DEF Spec

(***************************************************************************)
(* Types of a tracker, whatever order tags, restarts and relocks come in.  *)
(***************************************************************************)
THEOREM PtrackerTypes == Spec => []TypeOK
<1>1. TrackInv => TypeOK
  BY DEF TrackInv
<1>2. QED
  BY TrackAlways, <1>1, PTL

(***************************************************************************)
(* CleanWindowsAccurate for every width of the counters, number of samples *)
(* and jitter of up to an eighth of the circle, with and without divided   *)
(* clocks.                                                                 *)
(***************************************************************************)
THEOREM WindowsAlwaysAccurate == Spec => []CleanWindowsAccurate
<1>1. TrackInv => CleanWindowsAccurate
  <2> SUFFICES ASSUME TrackInv, pt.ready, published PROVE Accurate
    BY DEF CleanWindowsAccurate
  <2>1. phase \in 0 .. Scale - 1 /\ pt.phase_val \in Int /\ Averaged(pt, phase)
    BY PtrackerAssumption DEF TrackInv, TypeOK
  <2>2. QED
    BY <2>1, ReadIsAccurate DEF Accurate
<1>2. QED
  BY TrackAlways, <1>1, PTL
=============================================================================
