---------------------------- MODULE RxPathProofs ----------------------------
(***************************************************************************)
(* Proofs about a frame's way from the wire to a socket's user: the        *)
(* timestamp put together from what the hardware captured is exact, the    *)
(* byte queue of a socket is a queue of packets, and so what recvfrom      *)
(* returns is the oldest frame and the time at which it arrived.           *)
(***************************************************************************)
EXTENDS RxPath, SequenceTheorems, WellFoundedInduction, TLAPS

-----------------------------------------------------------------------------
(* The timestamp.                                                          *)

(* The phase of the tracker, less the transition, is the fraction of the   *)
(* cycle at which the frame arrived.                                       *)
LEMMA PhaseRExact ==
    ASSUME NEW phi \in Fracs, NEW trans \in Fracs
    PROVE  PhaseR(RawPhase(phi, trans), trans) = phi
<1> USE RxTimestampAssumption DEF Fracs, PhaseR
<1>1. RawPhase(phi, trans) = IF phi + trans < Period
                                   THEN phi + trans
                                   ELSE phi + trans - Period
  BY DEF RawPhase
<1>2. QED
  BY <1>1

(* ... and half a cycle more is the fraction for the falling edge.         *)
LEMMA PhaseFExact ==
    ASSUME NEW phi \in Fracs, NEW trans \in Fracs
    PROVE  PhaseF(RawPhase(phi, trans), trans)
             = IF phi < Period \div 2 THEN phi + Period \div 2
                                       ELSE phi - Period \div 2
<1> USE RxTimestampAssumption DEF Fracs, PhaseF
<1>1. RawPhase(phi, trans) = IF phi + trans < Period
                                   THEN phi + trans
                                   ELSE phi + trans - Period
  BY DEF RawPhase
<1>2. QED
  BY <1>1

(* The four low bits tell whether the counters agree or the rising one is  *)
(* ahead, across the end of the second as well.                            *)
LEMMA AheadExact ==
    ASSUME NEW r \in Ticks, NEW f \in Int, NEW k \in {0, 1},
           r = (f + k) % Second, f + k \in -1 .. Second
    PROVE  Ahead(r, f % 16) <=> k = 1
<1> USE RxTimestampAssumption DEF Ticks, F_COUNTER_MASK
<1>1. r = f + k \/ r = f + k - Second \/ r = f + k + Second
  OBVIOUS
<1>2. r % 16 = (f + k) % 16
  BY <1>1
<1>3. QED
  BY <1>2 DEF Ahead

(***************************************************************************)
(* The timestamp ptpd_netif_recvfrom returns is exact: seconds, cycle and  *)
(* phase are those of the arrival, for every clock period that four        *)
(* divides, every phase and every calibrated transition point, whatever    *)
(* the counters captured within a quarter of a period of their edges,      *)
(* provided that minic_rx_frame looks at the frame within a quarter of a   *)
(* second.                                                                 *)
(***************************************************************************)
THEOREM TimestampExact ==
    ASSUME NEW sec \in Nat, NEW tick \in Ticks, NEW phi \in Fracs,
           NEW trans \in Fracs,
           NEW latency \in 1 .. Second \div 4 - 2,
           NEW sec1 \in Nat, NEW ppsg \in Ticks,
           \/ sec1 = sec /\ ppsg = tick + latency
           \/ sec1 = sec + 1 /\ ppsg = tick + latency - Second,
           NEW counter_r \in Rising(tick, phi),
           NEW counter_f \in Falling(tick, phi)
    PROVE  Exact(Linearize(HwTimestamp(sec1, ppsg, counter_r, counter_f),
                           RawPhase(phi, trans), trans),
                 sec, tick, phi)
<1> USE RxTimestampAssumption DEF F_COUNTER_MASK
<1> DEFINE raw  == RawPhase(phi, trans)
           hwts == HwTimestamp(sec1, ppsg, counter_r, counter_f)
           half == Period \div 2
<1>1. PhaseR(raw, trans) = phi
  BY PhaseRExact
<1>2. PhaseF(raw, trans) = IF phi < half THEN phi + half ELSE phi - half
  BY PhaseFExact
<1>3. /\ hwts.sec = RxSeconds(sec1, ppsg, counter_r)
      /\ hwts.nsec = counter_r
      /\ hwts.ahead = Ahead(counter_r, counter_f)
  BY DEF HwTimestamp
<1>h. half \in Nat /\ Period = 2 * half /\ 2 * (Period \div 4) = half
  OBVIOUS
<1> HIDE DEF raw, hwts
<1> DEFINE SecondOf(captured) ==
             /\ captured \in Ticks =>
                   captured % Second = captured
                   /\ RxSeconds(sec1, ppsg, captured % Second) = sec
             /\ captured = -1 =>
                   captured % Second = Second - 1
                   /\ RxSeconds(sec1, ppsg, captured % Second) = sec - 1
             /\ captured = Second =>
                   captured % Second = 0
                   /\ RxSeconds(sec1, ppsg, captured % Second) = sec + 1
<1>s. ASSUME NEW captured \in {tick - 1, tick, tick + 1}
      PROVE  SecondOf(captured)
  <2> USE DEF Ticks
  <2>1. captured \in Ticks => captured % Second = captured
    OBVIOUS
  <2>2. captured = -1 => captured % Second = Second - 1
    OBVIOUS
  <2>3. captured = Second => captured % Second = 0
    OBVIOUS
  <2>4. Second >= 16
    OBVIOUS
  <2>5. CASE captured \in Ticks
    BY <2>1, <2>4, <2>5 DEF RxSeconds
  <2>6. CASE captured = -1
    BY <2>2, <2>4, <2>6 DEF RxSeconds
  <2>7. CASE captured = Second
    BY <2>3, <2>4, <2>7 DEF RxSeconds
  <2>8. QED
    BY <2>5, <2>6, <2>7
<1>4. CASE ~NearRising(phi)
  <2>1. counter_r = tick % Second
    BY <1>4 DEF Rising, NearRising
  <2>2. counter_r = tick /\ RxSeconds(sec1, ppsg, counter_r) = sec
    BY <1>s, <2>1
  <2>3. Linearize(hwts, raw, trans) = [sec |-> sec, nsec |-> tick, phase |-> phi]
    BY <1>1, <1>3, <1>4, <2>2 DEF Linearize, Ticks
  <2>4. QED
    BY <2>3 DEF Exact, raw, hwts
<1>5. CASE NearRising(phi)
  <2>1. PICK f \in Int : /\ f = (IF phi < half THEN tick - 1 ELSE tick)
                         /\ counter_f = f % 16
    BY <1>5, <1>h DEF NearRising, Falling, FallingTicks, Fracs, Ticks
  <2>2. PICK c \in {tick - 1, tick, tick + 1} : c - f \in {0, 1} /\ counter_r = c % Second
    <3>1. CASE phi < half
      <4>1. counter_r \in {tick % Second, (tick - 1) % Second}
        BY <3>1, <1>h DEF Rising, Fracs
      <4>2. QED
        BY <2>1, <3>1, <4>1 DEF Ticks
    <3>2. CASE ~(phi < half)
      <4>1. counter_r \in {tick % Second, (tick + 1) % Second}
        BY <3>2, <1>h DEF Rising, Fracs
      <4>2. QED
        BY <2>1, <3>2, <4>1 DEF Ticks
    <3>3. QED
      BY <3>1, <3>2
  <2>3. counter_r \in Ticks /\ c \in -1 .. Second /\ c \in Int
    BY <2>2 DEF Ticks
  <2>4. PICK k \in {0, 1} : k = c - f /\ c = f + k
    BY <2>1, <2>2, <2>3
  <2>5. Ahead(counter_r, counter_f) <=> k = 1
    <3>1. counter_r = (f + k) % Second /\ f + k \in -1 .. Second
      BY <2>2, <2>3, <2>4
    <3>2. Ahead(counter_r, f % 16) <=> k = 1
      BY <2>3, <3>1, AheadExact
    <3>3. QED
      BY <2>1, <3>2
  <2>6. /\ c \in Ticks => counter_r = c /\ hwts.sec = sec
        /\ c = -1 => counter_r = Second - 1 /\ hwts.sec = sec - 1
        /\ c = Second => counter_r = 0 /\ hwts.sec = sec + 1
    BY <1>3, <1>s, <2>2
  <2>7. (IF hwts.ahead THEN hwts.nsec - 1 ELSE hwts.nsec) = counter_r - k
    BY <1>3, <2>3, <2>5 DEF Ticks
  <2> DEFINE n == IF phi < half THEN counter_r - k + 1 ELSE counter_r - k
  <2>8. FromFalling(hwts, PhaseF(raw, trans))
          = [sec |-> hwts.sec, nsec |-> n, phase |-> phi]
    BY <1>2, <1>h, <2>3, <2>7 DEF FromFalling, Fracs, Ticks
  <2>n. n \in Int
    BY <2>3 DEF Ticks
  <2> HIDE DEF n
  <2>9. Linearize(hwts, raw, trans)
          = IF n >= Second
            THEN [sec |-> hwts.sec + 1, nsec |-> n - Second, phase |-> phi]
            ELSE [sec |-> hwts.sec, nsec |-> n, phase |-> phi]
    <3> DEFINE ts == [sec |-> hwts.sec, nsec |-> n, phase |-> phi]
    <3>1. Linearize(hwts, raw, trans)
            = IF ts.nsec >= Second
              THEN [ts EXCEPT !.nsec = ts.nsec - Second, !.sec = ts.sec + 1]
              ELSE ts
      BY <1>1, <1>5, <2>8 DEF Linearize
    <3>2. QED
      BY <3>1
  <2>10. \/ ~(n >= Second) /\ hwts.sec = sec /\ n = tick
         \/ ~(n >= Second) /\ hwts.sec = sec + 1 /\ n = -1 /\ tick = Second - 1
         \/ n >= Second /\ hwts.sec + 1 = sec /\ n - Second = tick
    <3>1. CASE c \in Ticks
      BY <2>1, <2>4, <2>6, <3>1 DEF n, Ticks
    <3>2. CASE c = -1
      <4>1. tick = 0 /\ f = -1 /\ k = 0 /\ phi < half
        BY <2>1, <2>2, <2>4, <3>2 DEF Ticks
      <4>2. counter_r = Second - 1 /\ hwts.sec = sec - 1 /\ n = Second
        BY <2>6, <3>2, <4>1 DEF n
      <4>3. QED
        BY <4>1, <4>2
    <3>3. CASE c = Second
      BY <2>1, <2>2, <2>4, <2>6, <3>3 DEF n, Ticks
    <3>4. QED
      BY <2>3, <3>1, <3>2, <3>3 DEF Ticks
  <2>11. Exact(Linearize(hwts, raw, trans), sec, tick, phi)
    BY <2>9, <2>10 DEF Exact
  <2>12. QED
    BY <2>11 DEF raw, hwts
<1>6. QED
  BY <1>4, <1>5

-----------------------------------------------------------------------------
(* Positions in the buffer of a queue, which wrap around at its end.       *)
LEMMA Room == NetSkbufSize \in Nat \ {0}
BY RxPathAssumption

LEMMA WrapAdd ==
    ASSUME NEW t \in 0 .. NetSkbufSize - 1, NEW x \in 0 .. NetSkbufSize
    PROVE  /\ (t + x) % NetSkbufSize = IF t + x < NetSkbufSize THEN t + x
                                       ELSE t + x - NetSkbufSize
           /\ (t + x) % NetSkbufSize \in 0 .. NetSkbufSize - 1
BY Room

LEMMA WrapSub ==
    ASSUME NEW i \in 0 .. NetSkbufSize - 1, NEW h \in 0 .. NetSkbufSize - 1
    PROVE  (i - h) % NetSkbufSize = IF i >= h THEN i - h ELSE i - h + NetSkbufSize
BY Room

(* Two additions are one.                                                  *)
LEMMA WrapTwice ==
    ASSUME NEW t \in 0 .. NetSkbufSize - 1, NEW x \in Nat, NEW y \in Nat,
           x + y <= NetSkbufSize
    PROVE  (((t + x) % NetSkbufSize) + y) % NetSkbufSize = (t + (x + y)) % NetSkbufSize
<1> DEFINE u == (t + x) % NetSkbufSize
<1> USE Room
<1>0. x \in 0 .. NetSkbufSize /\ y \in 0 .. NetSkbufSize /\ x + y \in 0 .. NetSkbufSize
  OBVIOUS
<1>1. /\ u = IF t + x < NetSkbufSize THEN t + x ELSE t + x - NetSkbufSize
      /\ u \in 0 .. NetSkbufSize - 1
  BY <1>0, WrapAdd
<1> HIDE DEF u
<1>2. (u + y) % NetSkbufSize = IF u + y < NetSkbufSize THEN u + y
                                                       ELSE u + y - NetSkbufSize
  BY <1>0, <1>1, WrapAdd
<1>3. (t + (x + y)) % NetSkbufSize = IF t + (x + y) < NetSkbufSize THEN t + (x + y)
                                     ELSE t + (x + y) - NetSkbufSize
  BY <1>0, WrapAdd
<1>4. QED
  BY <1>0, <1>1, <1>2, <1>3 DEF u

(* How far the x-th cell of a queue is from where its head is.             *)
LEMMA WrapOffset ==
    ASSUME NEW t \in 0 .. NetSkbufSize - 1, NEW used \in 0 .. NetSkbufSize,
           NEW x \in 0 .. NetSkbufSize - 1, NEW h, h = (t + used) % NetSkbufSize
    PROVE  (((t + x) % NetSkbufSize) - h) % NetSkbufSize
             = IF x >= used THEN x - used ELSE x - used + NetSkbufSize
<1> DEFINE u == (t + x) % NetSkbufSize
<1> USE Room
<1>1. /\ u = IF t + x < NetSkbufSize THEN t + x ELSE t + x - NetSkbufSize
      /\ u \in 0 .. NetSkbufSize - 1
  BY WrapAdd
<1>2. /\ h = IF t + used < NetSkbufSize THEN t + used ELSE t + used - NetSkbufSize
      /\ h \in 0 .. NetSkbufSize - 1
  BY WrapAdd
<1> HIDE DEF u
<1>3. (u - h) % NetSkbufSize = IF u >= h THEN u - h ELSE u - h + NetSkbufSize
  BY <1>1, <1>2, WrapSub
<1>4. (u - h) % NetSkbufSize = IF x >= used THEN x - used ELSE x - used + NetSkbufSize
  BY <1>1, <1>2, <1>3
<1>5. QED
  BY <1>4 DEF u
-----------------------------------------------------------------------------
(* A queue, whatever its cells hold.                                       *)
IsQueue(q) ==
    /\ q \in [buf : {q.buf}, head : 0 .. NetSkbufSize - 1, tail : 0 .. NetSkbufSize - 1,
              avail : 0 .. NetSkbufSize, n : Nat]
    /\ DOMAIN q.buf = 0 .. NetSkbufSize - 1

Used(q) == NetSkbufSize - q.avail

(* wrap_copy_out into a queue with the room adds the cells at the end and  *)
(* leaves those that are queued alone.                                     *)
LEMMA CopyOut ==
    ASSUME NEW q, IsQueue(q), NEW cells, NEW len \in Nat, Len(cells) = len,
           len <= q.avail, q.head = (q.tail + Used(q)) % NetSkbufSize
    PROVE  LET out == WrapCopyOut(q, cells)
           IN  /\ IsQueue(out) /\ out.tail = q.tail /\ out.avail = q.avail - len
               /\ out.n = q.n
               /\ out.head = (out.tail + Used(out)) % NetSkbufSize
               /\ \A x \in 0 .. NetSkbufSize - 1 :
                    x < Used(q) => Cell(out, x) = Cell(q, x)
               /\ \A y \in 0 .. NetSkbufSize - 1 :
                    y < len => Cell(out, Used(q) + y) = cells[y + 1]
<1> USE Room
<1> DEFINE N    == NetSkbufSize
           used == Used(q)
           Stored(i) == LET offset == (i - q.head) % N
                        IN  IF offset < Len(cells) THEN cells[offset + 1] ELSE q.buf[i]
           buf == [i \in DOMAIN q.buf |-> Stored(i)]
           out == [buf |-> buf, head |-> (q.head + len) % N, tail |-> q.tail,
                   avail |-> q.avail - len, n |-> q.n]
<1>1. WrapCopyOut(q, cells) = out
  <2>1. WrapCopyOut(q, cells) = [q EXCEPT !.buf = buf, !.head = (@ + Len(cells)) % N,
                                          !.avail = @ - Len(cells)]
    BY DEF WrapCopyOut
  <2> HIDE DEF buf
  <2>2. QED
    BY <2>1 DEF IsQueue
<1>2. /\ used \in 0 .. N /\ used + len <= N /\ used + len \in 0 .. N
      /\ used \in Nat
      /\ q.tail \in 0 .. N - 1 /\ q.head \in 0 .. N - 1
      /\ q.avail - len \in 0 .. N /\ N - (q.avail - len) = used + len
      /\ q.head = (q.tail + used) % N
  BY DEF IsQueue, Used
<1> HIDE DEF used
<1>3. (q.head + len) % N = (q.tail + (used + len)) % N
  <2>1. (((q.tail + used) % N) + len) % N = (q.tail + (used + len)) % N
    BY <1>2, WrapTwice
  <2>2. QED
    BY <1>2, <2>1
<1>4. /\ out.head = (q.tail + (used + len)) % N /\ out.tail = q.tail
      /\ out.avail = q.avail - len /\ out.n = q.n
      /\ Used(out) = used + len
      /\ out.buf = buf /\ DOMAIN q.buf = 0 .. N - 1
  BY <1>2, <1>3 DEF Used, IsQueue
<1>5. out.head \in 0 .. N - 1
  BY <1>2, <1>4, WrapAdd
<1>6. IsQueue(out)
  BY <1>2, <1>4, <1>5 DEF IsQueue
<1>7. ASSUME NEW x \in 0 .. N - 1
      PROVE  /\ (q.tail + x) % N \in 0 .. N - 1
             /\ (((q.tail + x) % N) - q.head) % N
                  = IF x >= used THEN x - used ELSE x - used + N
             /\ Cell(out, x) = Stored((q.tail + x) % N)
  <2>0. x \in 0 .. N
    OBVIOUS
  <2>1. (q.tail + x) % N \in 0 .. N - 1
    BY <1>2, <2>0, WrapAdd
  <2>2. (((q.tail + x) % N) - q.head) % N
                  = IF x >= used THEN x - used ELSE x - used + N
    BY <1>2, WrapOffset
  <2> DEFINE i == (q.tail + x) % N
  <2>3. out.buf[i] = Stored(i)
    <3> HIDE DEF i
    <3>1. i \in DOMAIN q.buf
      BY <1>4, <2>1 DEF i
    <3>2. QED
      BY <3>1
  <2>4. Cell(out, x) = out.buf[i]
    BY <1>4 DEF Cell
  <2> HIDE DEF out, Stored
  <2>5. Cell(out, x) = Stored((q.tail + x) % N)
    BY <2>3, <2>4
  <2>6. QED
    BY <2>1, <2>2, <2>5
<1> HIDE DEF out
<1>8. ASSUME NEW x \in 0 .. N - 1, x < used PROVE Cell(out, x) = Cell(q, x)
  <2>1. ~(x - used + N < len) /\ ~(x >= used)
    BY <1>2, <1>8
  <2>2. ~((((q.tail + x) % N) - q.head) % N < Len(cells))
    BY <1>7, <2>1
  <2>3. Cell(out, x) = q.buf[(q.tail + x) % N]
    BY <1>7, <2>2
  <2>4. QED
    BY <2>3 DEF Cell
<1>9. ASSUME NEW y \in 0 .. N - 1, y < len
      PROVE  Cell(out, used + y) = cells[y + 1]
  <2>1. used + y \in 0 .. N - 1 /\ (used + y) - used = y /\ used + y >= used
    BY <1>2, <1>9
  <2>2. QED
    BY <1>7, <1>9, <2>1
<1>10. QED
  BY <1>1, <1>2, <1>4, <1>6, <1>8, <1>9 DEF used

(* wrap_copy_in takes the first cells away.                                *)
LEMMA CopyIn ==
    ASSUME NEW q, IsQueue(q), NEW len \in Nat, len <= Used(q),
           q.head = (q.tail + Used(q)) % NetSkbufSize
    PROVE  LET in == WrapCopyIn(q, len)
           IN  /\ IsQueue(in) /\ Used(in) = Used(q) - len /\ in.n = q.n
               /\ in.head = (in.tail + Used(in)) % NetSkbufSize
               /\ \A x \in Nat : len + x <= Used(q) => Cell(in, x) = Cell(q, len + x)
<1> USE Room
<1> DEFINE N == NetSkbufSize
           used == Used(q)
           in == [buf |-> q.buf, head |-> q.head, tail |-> (q.tail + len) % N,
                  avail |-> q.avail + len, n |-> q.n]
<1>1. WrapCopyIn(q, len) = in
  <2>1. WrapCopyIn(q, len) = [q EXCEPT !.tail = (@ + len) % N, !.avail = @ + len]
    BY DEF WrapCopyIn
  <2>2. QED
    BY <2>1 DEF IsQueue
<1>2. /\ used \in 0 .. N /\ len \in 0 .. N /\ len + (used - len) = used
      /\ used - len \in Nat
      /\ q.tail \in 0 .. N - 1 /\ q.avail + len \in 0 .. N
      /\ N - (q.avail + len) = used - len
  BY DEF IsQueue, Used
<1>3. (q.tail + len) % N \in 0 .. N - 1
  BY <1>2, WrapAdd
<1>4. (((q.tail + len) % N) + (used - len)) % N = (q.tail + used) % N
  BY <1>2, WrapTwice
<1>5. IsQueue(in) /\ Used(in) = used - len
  BY <1>2, <1>3 DEF IsQueue, Used
<1>6. ASSUME NEW x \in Nat, len + x <= used
      PROVE  Cell(in, x) = Cell(q, len + x)
  <2>1. (((q.tail + len) % N) + x) % N = (q.tail + (len + x)) % N
    BY <1>2, <1>6, WrapTwice
  <2>2. QED
    BY <2>1 DEF Cell
<1>7. QED
  BY <1>1, <1>4, <1>5, <1>6

-----------------------------------------------------------------------------
(***************************************************************************)
(* A queue holds the packets acc, in order, when there are offsets at      *)
(* which each of them begins, one behind the other up to what is used.     *)
(***************************************************************************)
Slot(p)  == Packet(p[1], Hwts(p[1], p[2]))
Width(p) == Recvd(p[1]) + 3

HoldsAt(q, acc, off) ==
    /\ off[1] = 0 /\ off[Len(acc) + 1] = Used(q)
    /\ \A j, k \in 1 .. Len(acc) + 1 : j <= k => off[j] <= off[k]
    /\ \A k \in 1 .. Len(acc) :
         /\ off[k + 1] = off[k] + Width(acc[k])
         /\ \A j \in 0 .. NetSkbufSize - 1 :
              j < Width(acc[k]) => Cell(q, off[k] + j) = Slot(acc[k])[j + 1]

QueueHolds(q, acc) ==
    /\ IsQueue(q) /\ q.n = Len(acc)
    /\ q.head = (q.tail + Used(q)) % NetSkbufSize
    /\ \E off \in [1 .. Len(acc) + 1 -> Nat] : HoldsAt(q, acc, off)

(* The cells of a packet.                                                  *)
LEMMA PacketCells ==
    ASSUME NEW frame, Recvd(frame) \in Nat \ {0}, NEW hwts
    PROVE  /\ Len(Packet(frame, hwts)) = Recvd(frame) + 3
           /\ Packet(frame, hwts)[1] = <<"size", Recvd(frame)>>
           /\ Packet(frame, hwts)[2] = <<"hdr", frame.id>>
           /\ Packet(frame, hwts)[3] = <<"hwts", hwts>>
           /\ \A j \in 1 .. Recvd(frame) - 1 :
                Packet(frame, hwts)[j + 3] = <<"data", frame.id, j>>
<1> DEFINE r == Recvd(frame)
           a == <<<<"size", r>>, <<"hdr", frame.id>>, <<"hwts", hwts>>>>
           d == Payload(frame)
           z == <<<<"left over">>>>
           S == {<<"size", r>>, <<"hdr", frame.id>>, <<"hwts", hwts>>, <<"left over">>}
                  \cup {<<"data", frame.id, j>> : j \in Nat}
<1>1. a \in Seq(S) /\ z \in Seq(S) /\ Len(a) = 3 /\ Len(z) = 1
  OBVIOUS
<1>2. d = [j \in 1 .. r - 1 |-> <<"data", frame.id, j>>] /\ r - 1 \in Nat
  BY DEF Payload
<1>3. \A j \in 1 .. r - 1 : <<"data", frame.id, j>> \in S
  OBVIOUS
<1>a. /\ a[1] = <<"size", r>> /\ a[2] = <<"hdr", frame.id>> /\ a[3] = <<"hwts", hwts>>
  OBVIOUS
<1>b. Packet(frame, hwts) = a \o d \o z
  BY DEF Packet
<1>7. r \in Nat \ {0}
  OBVIOUS
<1> HIDE DEF S, a, z, d, r
<1>4. d \in Seq(S) /\ Len(d) = r - 1
  <2>1. d \in [1 .. r - 1 -> S]
    BY <1>2, <1>3
  <2>2. d \in Seq(S)
    BY <1>2, <2>1, SeqDef
  <2>3. QED
    BY <1>2, <2>1, <2>2, LenProperties
<1>5. /\ a \o d \in Seq(S) /\ Len(a \o d) = r + 2
      /\ \A i \in 1 .. r + 2 : (a \o d)[i] = IF i <= 3 THEN a[i] ELSE d[i - 3]
  <2>1. /\ a \o d \in Seq(S) /\ Len(a \o d) = Len(a) + Len(d)
        /\ \A i \in 1 .. Len(a) + Len(d) :
             (a \o d)[i] = IF i <= Len(a) THEN a[i] ELSE d[i - Len(a)]
    BY <1>1, <1>4, ConcatProperties
  <2>2. Len(a) + Len(d) = r + 2
    BY <1>1, <1>4, <1>7
  <2>3. QED
    BY <1>1, <2>1, <2>2
<1> DEFINE ad == a \o d
<1>e. ad \in Seq(S) /\ Len(ad) = r + 2
  BY <1>5
<1> HIDE DEF ad
<1>6. /\ Len(ad \o z) = r + 3
      /\ \A i \in 1 .. r + 2 : (ad \o z)[i] = ad[i]
  <2>1. /\ Len(ad \o z) = Len(ad) + Len(z)
        /\ \A i \in 1 .. Len(ad) + Len(z) :
             (ad \o z)[i] = IF i <= Len(ad) THEN ad[i] ELSE z[i - Len(ad)]
    BY <1>1, <1>e, ConcatProperties
  <2>2. Len(ad) + Len(z) = r + 3 /\ Len(ad) = r + 2
    BY <1>1, <1>e, <1>7
  <2>3. QED
    BY <1>7, <2>1, <2>2
<1>8. ASSUME NEW j \in 1 .. r - 1
      PROVE  (ad \o z)[j + 3] = <<"data", frame.id, j>>
  <2>1. j + 3 \in 1 .. r + 2 /\ ~(j + 3 <= 3) /\ (j + 3) - 3 = j
    BY <1>7
  <2>2. ad[j + 3] = d[j]
    BY <1>5, <2>1 DEF ad
  <2>3. QED
    BY <1>2, <1>6, <2>1, <2>2
<1>9. /\ (ad \o z)[1] = a[1] /\ (ad \o z)[2] = a[2] /\ (ad \o z)[3] = a[3]
  <2>1. 1 \in 1 .. r + 2 /\ 2 \in 1 .. r + 2 /\ 3 \in 1 .. r + 2
    BY <1>7
  <2>2. ad[1] = a[1] /\ ad[2] = a[2] /\ ad[3] = a[3]
    BY <1>5, <2>1 DEF ad
  <2>3. QED
    BY <1>6, <2>1, <2>2
<1>10. Packet(frame, hwts) = ad \o z
  BY <1>b DEF ad
<1>11. QED
  BY <1>6, <1>8, <1>9, <1>10, <1>a DEF r

(* An empty queue holds nothing.                                           *)
LEMMA HoldsNothing ==
    ASSUME NEW q, IsQueue(q), q.avail = NetSkbufSize, q.head = q.tail, q.n = 0
    PROVE  QueueHolds(q, <<>>)
<1> USE Room
<1>1. Used(q) = 0 /\ q.tail \in 0 .. NetSkbufSize - 1
  BY DEF IsQueue, Used
<1>2. (q.tail + 0) % NetSkbufSize = q.tail
  BY <1>1, WrapAdd
<1>3. HoldsAt(q, <<>>, [k \in {1} |-> 0])
  BY <1>1 DEF HoldsAt
<1>4. Len(<<>>) = 0 /\ 1 .. Len(<<>>) + 1 = {1}
  OBVIOUS
<1>5. [k \in {1} |-> 0] \in [1 .. Len(<<>>) + 1 -> Nat]
  BY <1>4
<1>6. QED
  BY <1>1, <1>2, <1>3, <1>4, <1>5 DEF QueueHolds

(* update_rx_queues puts a packet behind those that wait.                  *)
LEMMA HoldsAppend ==
    ASSUME NEW q, NEW P, NEW acc \in Seq(P), NEW p \in P, QueueHolds(q, acc),
           \A x \in P : Recvd(x[1]) \in Nat \ {0},
           Width(p) <= q.avail
    PROVE  QueueHolds([WrapCopyOut(q, Slot(p)) EXCEPT !.n = @ + 1], Append(acc, p))
<1> USE Room
<1> DEFINE n   == Len(acc)
           w   == Width(p)
           new == Append(acc, p)
           out == WrapCopyOut(q, Slot(p))
           res == [out EXCEPT !.n = @ + 1]
<1>1. PICK off \in [1 .. n + 1 -> Nat] : HoldsAt(q, acc, off)
  BY DEF QueueHolds
<1>2. /\ n \in Nat /\ Len(new) = n + 1 /\ new[n + 1] = p
      /\ \A k \in 1 .. n : new[k] = acc[k] /\ acc[k] \in P
  BY AppendProperties, LenProperties
<1>3. w \in Nat /\ w > 0 /\ Len(Slot(p)) = w
  BY PacketCells DEF Width, Slot
<1>4. IsQueue(q) /\ q.n = n /\ q.head = (q.tail + Used(q)) % NetSkbufSize
  BY DEF QueueHolds
<1>5. /\ IsQueue(out) /\ out.tail = q.tail /\ out.avail = q.avail - w
      /\ out.n = q.n
      /\ out.head = (out.tail + Used(out)) % NetSkbufSize
      /\ \A x \in 0 .. NetSkbufSize - 1 :
                    x < Used(q) => Cell(out, x) = Cell(q, x)
      /\ \A y \in 0 .. NetSkbufSize - 1 :
                    y < w => Cell(out, Used(q) + y) = Slot(p)[y + 1]
  BY <1>3, <1>4, CopyOut
<1> HIDE DEF out
<1>6. /\ res.buf = out.buf /\ res.head = out.head /\ res.tail = out.tail
      /\ res.avail = out.avail /\ res.n = n + 1
      /\ IsQueue(res)
  <2>1. res = [buf |-> out.buf, head |-> out.head, tail |-> out.tail,
               avail |-> out.avail, n |-> n + 1]
    <3>1. IsQueue(out) /\ out.n = n
      BY <1>4, <1>5
    <3> HIDE DEF n
    <3>2. QED
      BY ONLY <3>1 DEF IsQueue, res
  <2> HIDE DEF res
  <2>2. QED
    BY <1>2, <1>5, <2>1 DEF IsQueue
<1> HIDE DEF res
<1>7. /\ Used(res) = Used(out) /\ Used(out) = Used(q) + w
      /\ Used(q) \in 0 .. NetSkbufSize /\ Used(q) + w <= NetSkbufSize
      /\ \A x : Cell(res, x) = Cell(out, x)
  <2>1. \A x : Cell(res, x) = Cell(out, x)
    BY <1>6 DEF Cell
  <2>2. /\ q.avail \in 0 .. NetSkbufSize /\ w \in Nat /\ w <= q.avail
        /\ out.avail = q.avail - w /\ res.avail = out.avail
    BY <1>3, <1>4, <1>5, <1>6 DEF IsQueue
  <2>3. QED
    BY <2>1, <2>2 DEF Used
<1> HIDE DEF n, w, new
<1> DEFINE off1 == [k \in 1 .. n + 2 |-> IF k = n + 2 THEN Used(q) + w ELSE off[k]]
<1>8. /\ off1[n + 2] = Used(q) + w
      /\ \A k \in 1 .. n + 1 : off1[k] = off[k] /\ off[k] \in Nat /\ off[k] <= Used(q)
      /\ off[n + 1] = Used(q) /\ off[1] = 0
  BY <1>1, <1>2 DEF HoldsAt, n
<1>9. off1 \in [1 .. Len(new) + 1 -> Nat]
  BY <1>2, <1>3, <1>7, <1>8
<1> HIDE DEF off1
<1>10. \A j, k \in 1 .. n + 2 : j <= k => off1[j] <= off1[k]
  <2>1. \A j, k \in 1 .. n + 1 : j <= k => off[j] <= off[k]
    BY <1>1 DEF HoldsAt, n
  <2>2. QED
    BY <1>2, <1>3, <1>7, <1>8, <2>1
<1>11. ASSUME NEW k \in 1 .. n + 1
       PROVE  /\ off1[k + 1] = off1[k] + Width(new[k])
              /\ \A j \in 0 .. NetSkbufSize - 1 :
                   j < Width(new[k]) => Cell(res, off1[k] + j) = Slot(new[k])[j + 1]
  <2>1. CASE k = n + 1
    <3>1. new[k] = p /\ off1[k] = Used(q) /\ off1[k + 1] = Used(q) + w
      BY <1>2, <1>8, <2>1
    <3>2. QED
      BY <1>5, <1>7, <3>1 DEF w
  <2>2. CASE k # n + 1
    <3>1. /\ k \in 1 .. n /\ k + 1 \in 1 .. n + 1 /\ new[k] = acc[k] /\ acc[k] \in P
          /\ off1[k] = off[k] /\ off1[k + 1] = off[k + 1]
      BY <1>2, <1>8, <2>2
    <3>2. /\ off[k + 1] = off[k] + Width(acc[k])
          /\ \A j \in 0 .. NetSkbufSize - 1 :
               j < Width(acc[k]) => Cell(q, off[k] + j) = Slot(acc[k])[j + 1]
      BY <1>1, <3>1 DEF HoldsAt, n
    <3>3. ASSUME NEW j \in 0 .. NetSkbufSize - 1, j < Width(acc[k])
          PROVE  Cell(res, off[k] + j) = Slot(acc[k])[j + 1]
      <4>1. /\ off[k + 1] <= Used(q) /\ off[k] \in Nat
            /\ Width(acc[k]) \in Nat
        <5>1. Recvd(acc[k][1]) \in Nat
          BY <3>1
        <5>2. Width(acc[k]) \in Nat
          BY <5>1 DEF Width
        <5>3. off[k + 1] <= Used(q) /\ off[k] \in Nat
          BY <1>8, <3>1
        <5>4. QED
          BY <5>2, <5>3
      <4>2. off[k] + j \in 0 .. NetSkbufSize - 1 /\ off[k] + j < Used(q)
        <5> DEFINE x == off[k]
                   u == Used(q)
                   v == Width(acc[k])
        <5>1. /\ x \in Nat /\ v \in Nat /\ x + v <= u /\ j < v
              /\ u \in 0 .. NetSkbufSize
          BY <1>7, <3>2, <3>3, <4>1
        <5> HIDE DEF x, u, v
        <5>2. x + j \in 0 .. NetSkbufSize - 1 /\ x + j < u
          BY <5>1
        <5>3. QED
          BY <5>2 DEF x, u
      <4>3. QED
        BY <1>5, <1>7, <3>2, <3>3, <4>2
    <3>4. QED
      BY <3>1, <3>2, <3>3
  <2>3. QED
    BY <2>1, <2>2
<1>12. HoldsAt(res, new, off1)
  <2>1. off1[1] = 0 /\ Len(new) = n + 1 /\ off1[(n + 1) + 1] = Used(res)
    BY <1>2, <1>7, <1>8
  <2>2. (n + 1) + 1 = n + 2
    BY <1>2
  <2>3. QED
    BY <1>10, <1>11, <2>1, <2>2 DEF HoldsAt
<1>13. QueueHolds(res, new)
  BY <1>2, <1>5, <1>6, <1>7, <1>9, <1>12 DEF QueueHolds
<1>14. QED
  BY <1>13 DEF res, new, out

(* ptpd_netif_recvfrom finds the fields of the oldest packet where it      *)
(* looks for them, and takes exactly that packet away.                     *)
LEMMA HoldsTail ==
    ASSUME NEW q, NEW P, NEW acc \in Seq(P), acc # <<>>, QueueHolds(q, acc),
           \A x \in P : Recvd(x[1]) \in Nat \ {0}
    PROVE  LET p == Head(acc)
               r == Recvd(p[1])
           IN  /\ p \in P
               /\ Cell(q, 0) = <<"size", r>> /\ Cell(q, 1) = <<"hdr", p[1].id>>
               /\ Cell(q, 2) = <<"hwts", Hwts(p[1], p[2])>>
               /\ \A j \in 1 .. r - 1 : Cell(q, 3 + j - 1) = <<"data", p[1].id, j>>
               /\ QueueHolds(WrapCopyIn([q EXCEPT !.n = @ - 1], 3 + r), Tail(acc))
<1> USE Room
<1> DEFINE n == Len(acc)
           p == Head(acc)
           r == Recvd(p[1])
           m == [q EXCEPT !.n = @ - 1]
           in == WrapCopyIn(m, 3 + r)
           new == Tail(acc)
<1>1. PICK off \in [1 .. n + 1 -> Nat] : HoldsAt(q, acc, off)
  BY DEF QueueHolds
<1>2. /\ n \in Nat /\ n > 0 /\ p = acc[1] /\ p \in P
      /\ new \in Seq(P) /\ Len(new) = n - 1
      /\ \A k \in 1 .. n - 1 : new[k] = acc[k + 1]
      /\ \A k \in 1 .. n : acc[k] \in P
  BY HeadTailProperties, LenProperties, EmptySeq
<1>3. r \in Nat \ {0} /\ Width(p) = r + 3
  BY <1>2 DEF Width
<1>4. /\ IsQueue(q) /\ q.n = n /\ q.head = (q.tail + Used(q)) % NetSkbufSize
      /\ Used(q) \in 0 .. NetSkbufSize
  BY DEF QueueHolds, IsQueue, Used
<1>5. /\ off[1] = 0 /\ off[2] = r + 3 /\ off[n + 1] = Used(q)
      /\ \A j, k \in 1 .. n + 1 : j <= k => off[j] <= off[k]
      /\ \A j \in 0 .. NetSkbufSize - 1 :
           j < r + 3 => Cell(q, j) = Slot(p)[j + 1]
  <2>1. 1 \in 1 .. n /\ 1 + 1 = 2
    BY <1>2
  <2>2. /\ off[1 + 1] = off[1] + Width(acc[1])
        /\ \A j \in 0 .. NetSkbufSize - 1 :
              j < Width(acc[1]) => Cell(q, off[1] + j) = Slot(acc[1])[j + 1]
        /\ off[1] = 0 /\ off[n + 1] = Used(q)
        /\ \A j, k \in 1 .. n + 1 : j <= k => off[j] <= off[k]
    BY <1>1, <2>1 DEF HoldsAt
  <2> HIDE DEF p, n, r
  <2>3. \A j \in 0 .. NetSkbufSize - 1 : 0 + j = j
    OBVIOUS
  <2>4. QED
    BY <1>2, <1>3, <2>1, <2>2, <2>3
<1> HIDE DEF n, r, p
<1>6. r + 3 <= Used(q) /\ r + 3 <= NetSkbufSize
  <2>1. 2 \in 1 .. n + 1 /\ n + 1 \in 1 .. n + 1 /\ 2 <= n + 1
    BY <1>2
  <2>2. QED
    BY <1>3, <1>4, <1>5, <2>1
<1>7. \A j \in 0 .. r + 2 : Cell(q, j) = Slot(p)[j + 1]
  BY <1>3, <1>5, <1>6
<1>8. /\ Slot(p)[1] = <<"size", r>>
      /\ Slot(p)[2] = <<"hdr", p[1].id>>
      /\ Slot(p)[3] = <<"hwts", Hwts(p[1], p[2])>>
      /\ \A j \in 1 .. r - 1 : Slot(p)[j + 3] = <<"data", p[1].id, j>>
  <2>1. Recvd(p[1]) \in Nat \ {0}
    BY <1>3 DEF r
  <2> DEFINE frame == p[1]
             hwts == Hwts(p[1], p[2])
  <2>2. Slot(p) = Packet(frame, hwts) /\ r = Recvd(frame)
    BY DEF Slot, r
  <2> HIDE DEF frame, hwts
  <2>3. /\ Packet(frame, hwts)[1] = <<"size", r>>
        /\ Packet(frame, hwts)[2] = <<"hdr", frame.id>>
        /\ Packet(frame, hwts)[3] = <<"hwts", hwts>>
        /\ \A j \in 1 .. r - 1 : Packet(frame, hwts)[j + 3] = <<"data", frame.id, j>>
    BY <2>1, <2>2, PacketCells DEF frame
  <2>4. QED
    BY <2>2, <2>3 DEF frame, hwts
<1>9. /\ Cell(q, 0) = <<"size", r>> /\ Cell(q, 1) = <<"hdr", p[1].id>>
      /\ Cell(q, 2) = <<"hwts", Hwts(p[1], p[2])>>
      /\ \A j \in 1 .. r - 1 : Cell(q, 3 + j - 1) = <<"data", p[1].id, j>>
  <2>1. 0 \in 0 .. r + 2 /\ 1 \in 0 .. r + 2 /\ 2 \in 0 .. r + 2
    BY <1>3
  <2>2. ASSUME NEW j \in 1 .. r - 1 PROVE Cell(q, 3 + j - 1) = <<"data", p[1].id, j>>
    <3>1. 3 + j - 1 \in 0 .. r + 2 /\ (3 + j - 1) + 1 = j + 3
      BY <1>3
    <3>2. QED
      BY <1>7, <1>8, <3>1
  <2>3. 0 + 1 = 1 /\ 1 + 1 = 2 /\ 2 + 1 = 3
    OBVIOUS
  <2>4. /\ Cell(q, 0) = Slot(p)[1] /\ Cell(q, 1) = Slot(p)[2]
        /\ Cell(q, 2) = Slot(p)[3]
    BY <1>7, <2>1, <2>3
  <2>5. QED
    BY <1>8, <2>2, <2>4
<1>10. /\ m.buf = q.buf /\ m.head = q.head /\ m.tail = q.tail
       /\ m.avail = q.avail /\ m.n = n - 1 /\ IsQueue(m)
  <2>1. m = [buf |-> q.buf, head |-> q.head, tail |-> q.tail,
             avail |-> q.avail, n |-> n - 1]
    BY ONLY <1>4 DEF IsQueue, m
  <2> HIDE DEF m
  <2>2. n - 1 \in Nat
    BY <1>2
  <2>3. QED
    BY ONLY <1>4, <2>1, <2>2 DEF IsQueue
<1> HIDE DEF m
<1>11. /\ Used(m) = Used(q) /\ \A x : Cell(m, x) = Cell(q, x)
       /\ m.head = (m.tail + Used(m)) % NetSkbufSize
  BY <1>4, <1>10 DEF Used, Cell
<1>12. /\ IsQueue(in) /\ Used(in) = Used(q) - (3 + r) /\ in.n = n - 1
       /\ in.head = (in.tail + Used(in)) % NetSkbufSize
       /\ \A x \in Nat : (3 + r) + x <= Used(q) => Cell(in, x) = Cell(q, (3 + r) + x)
  <2>1. 3 + r \in Nat /\ 3 + r <= Used(m)
    BY <1>3, <1>4, <1>6, <1>11
  <2>2. /\ IsQueue(in) /\ Used(in) = Used(m) - (3 + r) /\ in.n = m.n
        /\ in.head = (in.tail + Used(in)) % NetSkbufSize
        /\ \A x \in Nat : (3 + r) + x <= Used(m) => Cell(in, x) = Cell(m, (3 + r) + x)
    BY <1>10, <1>11, <2>1, CopyIn
  <2>3. QED
    BY <1>10, <1>11, <2>2
<1> HIDE DEF in, new
<1> DEFINE off1 == [k \in 1 .. n |-> off[k + 1] - (r + 3)]
<1>13. \A k \in 1 .. n : /\ k + 1 \in 1 .. n + 1 /\ 2 <= k + 1 /\ 2 \in 1 .. n + 1
                         /\ off[k + 1] \in Nat /\ off[k + 1] >= r + 3
                         /\ off1[k] = off[k + 1] - (r + 3)
  BY <1>2, <1>5
<1>14. off1 \in [1 .. Len(new) + 1 -> Nat]
  BY <1>2, <1>3, <1>13
<1> HIDE DEF off1
<1>15. \A j, k \in 1 .. n : j <= k => off1[j] <= off1[k]
  <2> SUFFICES ASSUME NEW j \in 1 .. n, NEW k \in 1 .. n, j <= k
               PROVE  off1[j] <= off1[k]
    OBVIOUS
  <2>1. off[j + 1] <= off[k + 1]
    BY <1>2, <1>5, <1>13
  <2>2. QED
    BY <1>3, <1>13, <2>1
<1>16. ASSUME NEW k \in 1 .. n - 1
       PROVE  /\ off1[k + 1] = off1[k] + Width(new[k])
              /\ \A j \in 0 .. NetSkbufSize - 1 :
                   j < Width(new[k]) => Cell(in, off1[k] + j) = Slot(new[k])[j + 1]
  <2>1. /\ k \in 1 .. n /\ k + 1 \in 1 .. n /\ new[k] = acc[k + 1] /\ acc[k + 1] \in P
        /\ off1[k] = off[k + 1] - (r + 3) /\ off1[k + 1] = off[(k + 1) + 1] - (r + 3)
    <3>1. k \in 1 .. n /\ k + 1 \in 1 .. n
      BY <1>2
    <3>2. new[k] = acc[k + 1] /\ acc[k + 1] \in P
      BY <1>2, <3>1
    <3>3. QED
      BY <1>13, <3>1, <3>2
  <2>2. /\ off[(k + 1) + 1] = off[k + 1] + Width(acc[k + 1])
        /\ \A j \in 0 .. NetSkbufSize - 1 :
             j < Width(acc[k + 1]) => Cell(q, off[k + 1] + j) = Slot(acc[k + 1])[j + 1]
    BY <1>1, <2>1 DEF HoldsAt, n
  <2>3. /\ off[k + 1] \in Nat /\ off[k + 1] >= r + 3
        /\ off[(k + 1) + 1] \in Nat /\ off[(k + 1) + 1] <= Used(q)
        /\ Width(acc[k + 1]) \in Nat
    <3>1. Width(acc[k + 1]) \in Nat
      BY <2>1 DEF Width
    <3>2. (k + 1) + 1 \in 1 .. n + 1 /\ n + 1 \in 1 .. n + 1 /\ (k + 1) + 1 <= n + 1
      BY <1>2, <2>1
    <3>3. QED
      BY <1>5, <1>13, <2>1, <3>1, <3>2
  <2>4. ASSUME NEW j \in 0 .. NetSkbufSize - 1, j < Width(acc[k + 1])
        PROVE  Cell(in, off1[k] + j) = Slot(acc[k + 1])[j + 1]
    <3> DEFINE x == off[k + 1]
               y == off[(k + 1) + 1]
               v == Width(acc[k + 1])
    <3>a. /\ x \in Nat /\ x >= r + 3 /\ y \in Nat /\ y <= Used(q) /\ v \in Nat
          /\ y = x + v /\ j < v /\ off1[k] = x - (r + 3)
      BY <2>1, <2>2, <2>3, <2>4
    <3> HIDE DEF x, y, v
    <3>b. /\ off1[k] + j \in Nat /\ (3 + r) + (off1[k] + j) = x + j
          /\ x + j <= Used(q)
      BY <1>3, <1>4, <3>a
    <3>1. /\ off1[k] + j \in Nat /\ (3 + r) + (off1[k] + j) = off[k + 1] + j
          /\ off[k + 1] + j <= Used(q)
      BY <3>b DEF x
    <3>2. QED
      BY <1>12, <2>2, <2>4, <3>1
  <2>5. off1[k + 1] = off1[k] + Width(acc[k + 1])
    BY <1>3, <2>1, <2>2, <2>3
  <2>6. QED
    BY <2>1, <2>4, <2>5
<1>17. HoldsAt(in, new, off1)
  <2>1. /\ off1[1] = 0 /\ Len(new) = n - 1 /\ (n - 1) + 1 = n
        /\ off1[n] = Used(in)
    <3>1. 1 \in 1 .. n /\ n \in 1 .. n /\ 1 + 1 = 2
      BY <1>2
    <3>2. off1[1] = off[2] - (r + 3) /\ off1[n] = off[n + 1] - (r + 3)
      BY <1>13, <3>1
    <3>3. QED
      BY <1>2, <1>3, <1>4, <1>5, <1>12, <3>2
  <2>2. QED
    BY <1>15, <1>16, <2>1 DEF HoldsAt
<1>18. QueueHolds(in, new)
  BY <1>2, <1>12, <1>14, <1>17 DEF QueueHolds
<1>19. QED
  BY <1>2, <1>9, <1>18 DEF in, m, new, r, p

-----------------------------------------------------------------------------
(***************************************************************************)
(* The inductive invariant.  Every frame in the ring, in the driver's      *)
(* hands or in a queue carries what the counters captured when it arrived; *)
(* a socket in use has the present calibration and holds the packets that  *)
(* were accepted for it.                                                   *)
(***************************************************************************)
Stored(t, f) ==
    {frame \in Frames : /\ frame.at < t
                        /\ frame.counter_r \in Rising(frame.at % Second, f)
                        /\ frame.counter_f \in Falling(frame.at % Second, f)}
Seen(t, f) == {p \in Stored(t, f) \X Nat : p[1].at < p[2] /\ p[2] <= t}

IsSocket(s, trans) ==
    /\ s \in [in_use : BOOLEAN, addr : Addrs, phase_transition : {0, Default, trans},
              queue : {s.queue}]
    /\ IsQueue(s.queue)

SocketHolds(s, acc, t, f, trans, calibration) ==
    /\ IsSocket(s, trans)
    /\ acc \in Seq(Seen(t, f)) /\ s.queue.n = Len(acc)
    /\ s.in_use => s.phase_transition = calibration /\ QueueHolds(s.queue, acc)

PathTypes ==
    /\ now \in FirstTick .. LastTick
    /\ frac \in Fracs /\ transition \in Transitions /\ cal \in {Default, transition}
    /\ ring \in Seq(Stored(now, frac)) /\ Len(ring) <= RingSize
    /\ isr \in BOOLEAN /\ full \in BOOLEAN
    /\ \/ pc = "idle" /\ rx = <<>>
       \/ pc \in {"clear", "return"} /\ rx \in Seen(now, frac)
    /\ sent \in 0 .. MaxFrames
    /\ DOMAIN socks = SockIds /\ DOMAIN accepted = SockIds

PathInv ==
    /\ PathTypes
    /\ \A i \in SockIds : SocketHolds(socks[i], accepted[i], now, frac, transition, cal)

(* The users of the sockets pass buffers that are no shorter than what     *)
(* minic_rx_frame hands over.                                              *)
NoShortBuffer == \A size \in Sizes : Lesser(RxBufSize, size) <= DataLength

(* A set of numbers that is not empty has a least one.                     *)
LEMMA LeastNatural ==
    ASSUME NEW T \in SUBSET Nat, T # {}
    PROVE  First(T) \in T
<1>1. IsWellFoundedOn(OpToRel(<, Nat), Nat)
  BY NatLessThanWellFounded
<1>2. PICK x \in T : \A y \in T : ~(<<y, x>> \in OpToRel(<, Nat))
  BY <1>1, WFMin
<1>3. ASSUME NEW y \in T PROVE x <= y
  <2>1. <<y, x>> \notin OpToRel(<, Nat)
    BY <1>2, Zenon
  <2>2. <<y, x>> \in Nat \X Nat
    OBVIOUS
  <2>3. ~(y < x)
    BY <2>1, <2>2 DEF OpToRel
  <2>4. QED
    BY <2>3
<1>4. \E i \in T : \A j \in T : i <= j
  BY <1>3
<1>5. QED
  BY <1>4 DEF First

(* What the driver hands over of a frame is not empty.                     *)
LEMMA RecvdSome ==
    ASSUME NEW frame \in Frames
    PROVE  Recvd(frame) \in Nat \ {0}
<1>1. frame.size \in Nat \ {0} /\ RxBufSize \in Nat \ {0}
  BY RxPathAssumption DEF Frames, Sizes
<1>2. QED
  BY <1>1 DEF Recvd, Lesser

LEMMA SeenRecvd ==
    ASSUME NEW t, NEW f, NEW p \in Seen(t, f)
    PROVE  /\ p[1] \in Frames /\ Recvd(p[1]) \in Nat \ {0}
           /\ p[1].at \in Nat /\ p[2] \in Nat /\ p[1].at < p[2]
           /\ p[1].counter_r \in Rising(p[1].at % Second, f)
           /\ p[1].counter_f \in Falling(p[1].at % Second, f)
<1>1. /\ p[1] \in Stored(t, f) /\ p[2] \in Nat /\ p[1].at < p[2]
  BY DEF Seen
<1>2. /\ p[1] \in Frames /\ p[1].counter_r \in Rising(p[1].at % Second, f)
      /\ p[1].counter_f \in Falling(p[1].at % Second, f)
  BY <1>1 DEF Stored
<1>3. p[1].at \in Nat
  BY <1>2 DEF Frames
<1>4. QED
  BY <1>1, <1>2, <1>3, RecvdSome

(* What was stored and seen stays so.                                      *)
LEMMA SeenLater ==
    ASSUME NEW t \in Nat, NEW t1 \in Nat, t <= t1, NEW f
    PROVE  /\ Stored(t, f) \subseteq Stored(t1, f) /\ Seen(t, f) \subseteq Seen(t1, f)
           /\ Seq(Stored(t, f)) \subseteq Seq(Stored(t1, f))
           /\ Seq(Seen(t, f)) \subseteq Seq(Seen(t1, f))
<1>1. Stored(t, f) \subseteq Stored(t1, f)
  BY DEF Stored, Frames
<1>2. Seen(t, f) \subseteq Seen(t1, f)
  BY <1>1 DEF Seen
<1> HIDE DEF Stored, Seen
<1>3. ASSUME NEW S, NEW T, S \subseteq T PROVE Seq(S) \subseteq Seq(T)
  BY <1>3, SeqDef
<1>4. QED
  BY <1>1, <1>2, <1>3

LEMMA SocketLater ==
    ASSUME NEW s, NEW acc, NEW t \in Nat, NEW t1 \in Nat, t <= t1, NEW f, NEW trans, NEW c,
           SocketHolds(s, acc, t, f, trans, c)
    PROVE  SocketHolds(s, acc, t1, f, trans, c)
BY SeenLater DEF SocketHolds

(* Another queue in a socket.                                              *)
LEMMA QueuePut ==
    ASSUME NEW s, NEW trans, IsSocket(s, trans), NEW x, IsQueue(x)
    PROVE  LET s1 == [s EXCEPT !.queue = x]
           IN  /\ IsSocket(s1, trans) /\ s1.queue = x /\ s1.in_use = s.in_use
               /\ s1.phase_transition = s.phase_transition
<1> DEFINE s1 == [in_use |-> s.in_use, addr |-> s.addr,
                  phase_transition |-> s.phase_transition, queue |-> x]
<1>1. [s EXCEPT !.queue = x] = s1
  BY DEF IsSocket
<1>2. /\ s.in_use \in BOOLEAN /\ s.addr \in Addrs
      /\ s.phase_transition \in {0, Default, trans}
  BY DEF IsSocket
<1>3. IsSocket(s1, trans)
  BY <1>2 DEF IsSocket
<1>4. QED
  BY <1>1, <1>3

(* The arrival of a frame seen within a quarter of a second of it.         *)
LEMMA ArrivalTime ==
    ASSUME NEW at \in Nat, NEW seen \in Nat, at < seen, seen - at <= Second \div 4 - 2
    PROVE  /\ at \div Second \in Nat /\ at % Second \in Ticks
           /\ seen \div Second \in Nat /\ seen % Second \in Ticks
           /\ seen - at \in 1 .. Second \div 4 - 2
           /\ \/ /\ seen \div Second = at \div Second
                 /\ seen % Second = (at % Second) + (seen - at)
              \/ /\ seen \div Second = (at \div Second) + 1
                 /\ seen % Second = (at % Second) + (seen - at) - Second
<1> DEFINE a == at \div Second
           t == at % Second
           latency == seen - at
<1>1. Second \in Nat \ {0} /\ Second \div 4 \in Nat /\ Second \div 4 <= Second
  BY RxTimestampAssumption
<1>2. a \in Nat /\ t \in 0 .. Second - 1 /\ at = Second * a + t
  BY <1>1
<1>3. latency \in 1 .. Second \div 4 - 2 /\ latency <= Second /\ latency \in Nat
  BY <1>1
<1> HIDE DEF a, t, latency
<1>4. seen = Second * a + t + latency
  BY <1>2, <1>3 DEF latency
<1>5. CASE t + latency < Second
  <2>1. seen \div Second = a /\ seen % Second = t + latency
    BY <1>1, <1>2, <1>3, <1>4, <1>5
  <2> DEFINE rest == t + latency
  <2>r. rest \in 0 .. Second - 1
    BY <1>1, <1>2, <1>3, <1>5
  <2> HIDE DEF rest
  <2>2. seen \div Second \in Nat /\ seen % Second \in Ticks
    BY <1>2, <2>1, <2>r DEF Ticks, rest
  <2>3. QED
    BY <1>2, <1>3, <2>1, <2>2 DEF Ticks, a, t, latency
<1>6. CASE ~(t + latency < Second)
  <2> DEFINE rest == t + latency - Second
             b    == a + 1
  <2>1. rest \in 0 .. Second - 1 /\ b \in Nat
    BY <1>1, <1>2, <1>3, <1>6
  <2>2. Second * b = Second * a + Second
    BY <1>1, <1>2
  <2>3. seen = Second * b + rest
    BY <1>1, <1>2, <1>3, <1>4, <2>2
  <2> HIDE DEF rest, b
  <2>4. seen \div Second = b /\ seen % Second = rest
    BY <1>1, <2>1, <2>3
  <2>5. QED
    BY <1>2, <1>3, <2>1, <2>4 DEF Ticks, a, t, latency, rest, b
<1>7. QED
  BY <1>5, <1>6

-----------------------------------------------------------------------------
(* The actions, one by one.                                                *)

GotRight == GotIntact /\ TimestampTrue

LEMMA PathInit == Init => PathInv /\ GotRight
<1> SUFFICES ASSUME Init PROVE PathInv /\ GotRight
  OBVIOUS
<1> USE Room
<1>1. PathTypes
  <2>1. /\ now \in FirstTick .. LastTick /\ sent \in 0 .. MaxFrames
        /\ frac \in Fracs /\ transition \in Transitions
    BY RxPathAssumption DEF Init
  <2>2. ring \in Seq(Stored(now, frac)) /\ Len(ring) <= RingSize
    BY RxPathAssumption DEF Init
  <2>3. DOMAIN socks = SockIds /\ DOMAIN accepted = SockIds
    BY DEF Init
  <2>4. QED
    BY <2>1, <2>2, <2>3 DEF Init, PathTypes
<1>2. ASSUME NEW i \in SockIds
      PROVE  SocketHolds(socks[i], accepted[i], now, frac, transition, cal)
  <2> DEFINE s == socks[i]
             addr == CHOOSE addr \in Addrs : TRUE
  <2>1. s = [in_use |-> FALSE, addr |-> addr, phase_transition |-> 0,
             queue |-> [EmptyQueue EXCEPT !.avail = 0]]
    BY DEF Init
  <2>2. [EmptyQueue EXCEPT !.avail = 0]
          = [buf |-> EmptyBuf, head |-> 0, tail |-> 0, avail |-> 0, n |-> 0]
    BY DEF EmptyQueue
  <2>3. addr \in Addrs
    BY RxPathAssumption
  <2>4. IsQueue(s.queue) /\ s.queue.n = 0
    BY <2>1, <2>2 DEF IsQueue, EmptyBuf
  <2> HIDE DEF addr
  <2>5. IsSocket(s, transition) /\ s.in_use = FALSE
    BY <2>1, <2>3, <2>4 DEF IsSocket
  <2>6. accepted[i] = <<>> /\ <<>> \in Seq(Seen(now, frac)) /\ Len(<<>>) = 0
    BY DEF Init
  <2>7. QED
    BY <2>4, <2>5, <2>6 DEF SocketHolds
<1>3. got = <<>>
  BY DEF Init
<1>4. QED
  BY <1>1, <1>2, <1>3 DEF PathInv, GotRight, GotIntact, TimestampTrue

(* The wire and the clock touch no socket.                                 *)
LEMMA SocketsAlone ==
    ASSUME PathInv, now' \in FirstTick .. LastTick, now <= now',
           UNCHANGED <<frac, transition, cal, socks, accepted>>
    PROVE  \A i \in SockIds : SocketHolds(socks[i], accepted[i], now, frac, transition, cal)'
<1>1. now \in Nat /\ now' \in Nat
  BY RxPathAssumption DEF PathInv, PathTypes
<1>2. ASSUME NEW i \in SockIds
      PROVE  SocketHolds(socks[i], accepted[i], now', frac, transition, cal)
  BY <1>1, SocketLater DEF PathInv
<1>3. QED
  BY <1>2

LEMMA TickStep == ASSUME PathInv, Tick PROVE PathInv' /\ GotRight'
<1>1. /\ now \in FirstTick .. LastTick /\ now < LastTick /\ now' = now + 1
      /\ UNCHANGED <<frac, transition, cal, ring, isr, full, pc, rx, sent, socks, accepted>>
  BY DEF Tick, PathInv, PathTypes, hardware, driver
<1>2. now \in Nat /\ now' \in Nat /\ now <= now' /\ now' \in FirstTick .. LastTick
  BY <1>1, RxPathAssumption
<1>3. PathTypes'
  <2>1. /\ Seq(Stored(now, frac)) \subseteq Seq(Stored(now', frac))
        /\ Seen(now, frac) \subseteq Seen(now', frac)
    BY <1>2, SeenLater
  <2>2. QED
    BY <1>1, <1>2, <2>1 DEF PathInv, PathTypes
<1>4. QED
  BY <1>1, <1>2, <1>3, SocketsAlone DEF PathInv, Tick, GotRight, GotIntact, TimestampTrue

LEMMA ArriveStep == ASSUME PathInv, Arrive PROVE PathInv' /\ GotRight'
<1>1. /\ now \in FirstTick .. LastTick /\ now < LastTick /\ now' = now + 1
      /\ sent < MaxFrames /\ sent' = sent + 1
      /\ UNCHANGED <<frac, transition, cal, pc, rx, socks, accepted>>
  BY DEF Arrive, PathInv, PathTypes, driver
<1>2. now \in Nat /\ now' \in Nat /\ now <= now' /\ now' \in FirstTick .. LastTick
  BY <1>1, RxPathAssumption
<1>3. /\ Seq(Stored(now, frac)) \subseteq Seq(Stored(now', frac))
      /\ Seen(now, frac) \subseteq Seen(now', frac)
  BY <1>2, SeenLater
<1>4. ring' \in Seq(Stored(now', frac)) /\ Len(ring') <= RingSize
  <2>1. PICK kind \in Wire, counter_r \in Rising(now % Second, frac),
             counter_f \in Falling(now % Second, frac) :
          LET frame == [id |-> sent + 1, dst |-> kind.dst, size |-> kind.size,
                        err |-> kind.err, at |-> now, counter_r |-> counter_r,
                        counter_f |-> counter_f]
          IN  ring' = IF full \/ Len(ring) = RingSize THEN ring ELSE Append(ring, frame)
    BY DEF Arrive
  <2> DEFINE frame == [id |-> sent + 1, dst |-> kind.dst, size |-> kind.size,
                       err |-> kind.err, at |-> now, counter_r |-> counter_r,
                       counter_f |-> counter_f]
  <2>2. /\ kind.dst \in Addrs /\ kind.size \in Sizes /\ kind.err \in BOOLEAN
        /\ sent + 1 \in 1 .. MaxFrames
    BY <1>1, RxPathAssumption DEF Sizes, PathInv, PathTypes
  <2>3. counter_r \in Ticks /\ counter_f \in 0 .. F_COUNTER_MASK
    <3>1. now % Second \in Ticks
      BY <1>2, RxTimestampAssumption DEF Ticks
    <3>2. PICK f \in FallingTicks(now % Second, frac) : counter_f = f % (F_COUNTER_MASK + 1)
      BY DEF Falling
    <3>3. f \in Int
      BY <3>1 DEF FallingTicks, Ticks
    <3>4. counter_r \in Ticks
      <4>1. \A x \in Int : x % Second \in Ticks
        BY RxTimestampAssumption DEF Ticks
      <4>2. \E x \in Int : counter_r = x % Second
        BY <3>1 DEF Rising, Ticks
      <4>3. QED
        BY <4>1, <4>2
    <3>5. QED
      BY <3>2, <3>3, <3>4 DEF F_COUNTER_MASK
  <2>4. frame \in Frames
    BY <1>2, <2>2, <2>3 DEF Frames
  <2>5. frame \in Stored(now', frac)
    BY <1>1, <1>2, <2>4 DEF Stored
  <2> HIDE DEF frame
  <2>6. ring \in Seq(Stored(now', frac)) /\ Len(ring) <= RingSize
    BY <1>3 DEF PathInv, PathTypes
  <2>7. ring' = ring \/ (ring' = Append(ring, frame) /\ Len(ring) # RingSize)
    BY <2>1 DEF frame
  <2>8. CASE ring' = ring
    BY <2>6, <2>8
  <2>9. CASE ring' = Append(ring, frame) /\ Len(ring) # RingSize
    <3>1. /\ Append(ring, frame) \in Seq(Stored(now', frac))
          /\ Len(Append(ring, frame)) = Len(ring) + 1
      BY <2>5, <2>6, AppendProperties
    <3>2. Len(ring) \in Nat
      BY <2>6, LenProperties
    <3>3. QED
      BY <2>6, <2>9, <3>1, <3>2, RxPathAssumption
  <2>10. QED
    BY <2>7, <2>8, <2>9
<1>5. PathTypes'
  <2>1. full' \in BOOLEAN /\ isr' \in BOOLEAN /\ sent' \in 0 .. MaxFrames
    BY <1>1, RxPathAssumption DEF Arrive, PathInv, PathTypes
  <2>2. QED
    BY <1>1, <1>2, <1>3, <1>4, <2>1 DEF PathInv, PathTypes
<1>6. QED
  BY <1>1, <1>2, <1>5, SocketsAlone DEF PathInv, Arrive, GotRight, GotIntact, TimestampTrue

LEMMA SpoiledStep == ASSUME PathInv, Spoiled PROVE PathInv' /\ GotRight'
<1>1. /\ now \in FirstTick .. LastTick /\ now < LastTick /\ now' = now + 1
      /\ sent < MaxFrames /\ sent' = sent + 1
      /\ UNCHANGED <<frac, transition, cal, ring, pc, rx, socks, accepted>>
  BY DEF Spoiled, PathInv, PathTypes, driver
<1>2. now \in Nat /\ now' \in Nat /\ now <= now' /\ now' \in FirstTick .. LastTick
  BY <1>1, RxPathAssumption
<1>3. PathTypes'
  <2>1. /\ Seq(Stored(now, frac)) \subseteq Seq(Stored(now', frac))
        /\ Seen(now, frac) \subseteq Seen(now', frac)
    BY <1>2, SeenLater
  <2>2. full' \in BOOLEAN /\ isr' \in BOOLEAN /\ sent' \in 0 .. MaxFrames
    <3>1. full \in BOOLEAN /\ sent \in 0 .. MaxFrames
      BY DEF PathInv, PathTypes
    <3>2. full' \in {full, TRUE} /\ isr' = TRUE
      BY DEF Spoiled
    <3>3. full' \in BOOLEAN /\ isr' \in BOOLEAN
      BY <3>1, <3>2
    <3>4. QED
      BY <1>1, <3>1, <3>3, RxPathAssumption
  <2>3. QED
    BY <1>1, <1>2, <2>1, <2>2 DEF PathInv, PathTypes
<1>4. QED
  BY <1>1, <1>2, <1>3, SocketsAlone DEF PathInv, Spoiled, GotRight, GotIntact, TimestampTrue

(* The driver takes the oldest frame of the ring, or clears it.            *)
LEMMA RingSteps ==
    ASSUME PathInv, MinicRxFrame \/ MinicRxInvalid \/ ClearIsr
    PROVE  PathInv' /\ GotRight'
<1>1. /\ now \in Nat /\ now' = now
      /\ UNCHANGED <<frac, transition, cal, sent, socks, accepted>>
  BY RxPathAssumption
     DEF MinicRxFrame, MinicRxInvalid, ClearIsr, PathInv, PathTypes, driver
<1>2. now' \in FirstTick .. LastTick /\ now <= now'
  BY <1>1 DEF PathInv, PathTypes
<1>3. <<>> \in Seq(Stored(now, frac)) /\ Len(<<>>) <= RingSize
  BY RxPathAssumption
<1>4. CASE MinicRxFrame
  <2>1. /\ ring \in Seq(Stored(now, frac)) /\ ring # <<>> /\ Len(ring) <= RingSize
    BY <1>4 DEF MinicRxFrame, PathInv, PathTypes
  <2>2. /\ Head(ring) \in Stored(now, frac) /\ Tail(ring) \in Seq(Stored(now, frac))
        /\ Len(Tail(ring)) = Len(ring) - 1 /\ Len(ring) \in Nat
    BY <2>1, HeadTailProperties, LenProperties
  <2>3. <<Head(ring), now>> \in Seen(now, frac)
    BY <1>1, <2>2 DEF Seen, Stored
  <2>4. Len(Tail(ring)) <= RingSize
    BY <2>1, <2>2, RxPathAssumption
  <2>5. PathTypes'
    BY <1>1, <1>2, <1>4, <2>2, <2>3, <2>4 DEF MinicRxFrame, PathInv, PathTypes
  <2>6. QED
    BY <1>1, <1>2, <1>4, <2>5, SocketsAlone
       DEF PathInv, MinicRxFrame, GotRight, GotIntact, TimestampTrue
<1>5. CASE MinicRxInvalid
  <2>1. PathTypes'
    BY <1>1, <1>3, <1>5 DEF MinicRxInvalid, MinicNewRxBuffer, driver, PathInv, PathTypes
  <2>2. QED
    BY <1>1, <1>2, <1>5, <2>1, SocketsAlone
       DEF PathInv, MinicRxInvalid, GotRight, GotIntact, TimestampTrue
<1>6. CASE ClearIsr
  <2>1. PathTypes'
    BY <1>1, <1>3, <1>6 DEF ClearIsr, MinicNewRxBuffer, PathInv, PathTypes
  <2>2. QED
    BY <1>1, <1>2, <1>6, <2>1, SocketsAlone
       DEF PathInv, ClearIsr, GotRight, GotIntact, TimestampTrue
<1>7. QED
  BY <1>4, <1>5, <1>6

(* A step of the main loop: nothing but the sockets and the driver's frame *)
(* changes.                                                                *)
LEMMA LoopTypes ==
    ASSUME PathInv, UNCHANGED <<now, frac, transition, ring, isr, full, sent>>,
           cal' \in {Default, transition},
           (pc' = pc /\ rx' = rx) \/ (pc' = "idle" /\ rx' = <<>>),
           DOMAIN socks' = SockIds, DOMAIN accepted' = SockIds
    PROVE  PathTypes'
BY DEF PathInv, PathTypes

LEMMA SocketKept ==
    ASSUME PathInv, UNCHANGED <<now, frac, transition, cal>>, NEW i \in SockIds,
           socks'[i] = socks[i], accepted'[i] = accepted[i]
    PROVE  SocketHolds(socks[i], accepted[i], now, frac, transition, cal)'
<1>1. SocketHolds(socks[i], accepted[i], now, frac, transition, cal)
  BY DEF PathInv
<1>2. SocketHolds(socks'[i], accepted'[i], now', frac', transition', cal')
  BY <1>1
<1>3. QED
  BY <1>2

LEMMA SocketChosen ==
    ASSUME NEW T, T \subseteq SockIds, T # {}
    PROVE  First(T) \in T /\ First(T) \in SockIds
<1>1. T \in SUBSET Nat
  BY RxPathAssumption DEF SockIds
<1>2. QED
  BY <1>1, LeastNatural

LEMMA UpdateStep == ASSUME PathInv, UpdateRxQueues PROVE PathInv' /\ GotRight'
<1> DEFINE frame == rx[1]
           Put(q) == [WrapCopyOut(q, Packet(frame, Hwts(frame, rx[2]))) EXCEPT !.n = @ + 1]
<1>1. /\ pc = "return" /\ rx \in Seen(now, frac)
      /\ UNCHANGED <<now, frac, transition, cal, ring, isr, full, sent>>
      /\ pc' = "idle" /\ rx' = <<>> /\ got' = <<>>
      /\ DOMAIN socks = SockIds /\ DOMAIN accepted = SockIds
      /\ cal \in {Default, transition}
  BY DEF UpdateRxQueues, PathInv, PathTypes, hardware
<1>2. CASE UNCHANGED <<socks, accepted>>
  <2>1. PathTypes'
    BY <1>1, <1>2, LoopTypes
  <2>2. \A j \in SockIds : SocketHolds(socks[j], accepted[j], now, frac, transition, cal)'
    BY <1>1, <1>2, SocketKept
  <2>3. QED
    BY <1>1, <2>1, <2>2 DEF PathInv, GotRight, GotIntact, TimestampTrue
<1>3. CASE ~UNCHANGED <<socks, accepted>>
  <2>1. PICK i \in SockIds :
          /\ i \in Matching(frame) /\ Fits(socks[i].queue, frame)
          /\ socks' = [socks EXCEPT ![i].queue = Put(socks[i].queue)]
          /\ accepted' = [accepted EXCEPT ![i] = Append(@, rx)]
    <3> DEFINE f == First(Matching(frame))
    <3>1. /\ Matching(frame) # {} /\ Fits(socks[f].queue, frame)
          /\ socks' = [socks EXCEPT ![f].queue = Put(socks[f].queue)]
          /\ accepted' = [accepted EXCEPT ![f] = Append(@, rx)]
      BY <1>3 DEF UpdateRxQueues
    <3>2. f \in Matching(frame) /\ f \in SockIds
      BY <3>1, SocketChosen DEF Matching
    <3> HIDE DEF f
    <3>3. QED
      BY <3>1, <3>2
  <2>3. socks[i].in_use
    BY <2>1 DEF Matching
  <2> DEFINE q   == socks[i].queue
             out == Put(q)
  <2>4. /\ SocketHolds(socks[i], accepted[i], now, frac, transition, cal)
        /\ QueueHolds(q, accepted[i]) /\ accepted[i] \in Seq(Seen(now, frac))
        /\ socks[i].phase_transition = cal /\ IsSocket(socks[i], transition)
    BY <2>3 DEF PathInv, SocketHolds
  <2>5. Width(rx) <= q.avail
    BY <2>1 DEF Fits, Width
  <2>6. QueueHolds(out, Append(accepted[i], rx))
    <3>1. \A x \in Seen(now, frac) : Recvd(x[1]) \in Nat \ {0}
      BY SeenRecvd
    <3>2. QueueHolds([WrapCopyOut(q, Slot(rx)) EXCEPT !.n = @ + 1], Append(accepted[i], rx))
      BY <1>1, <2>4, <2>5, <3>1, HoldsAppend
    <3>3. QED
      BY <3>2 DEF Slot
  <2> HIDE DEF out, Put
  <2>7. IsQueue(out) /\ out.n = Len(Append(accepted[i], rx))
    BY <2>6 DEF QueueHolds
  <2>8. /\ socks'[i] = [socks[i] EXCEPT !.queue = out]
        /\ accepted'[i] = Append(accepted[i], rx)
        /\ \A j \in SockIds : j # i => socks'[j] = socks[j] /\ accepted'[j] = accepted[j]
        /\ DOMAIN socks' = SockIds /\ DOMAIN accepted' = SockIds
    BY <1>1, <2>1 DEF out
  <2>9. /\ IsSocket(socks'[i], transition) /\ socks'[i].queue = out
        /\ socks'[i].phase_transition = cal
    BY <2>4, <2>7, <2>8, QueuePut
  <2>10. accepted'[i] \in Seq(Seen(now, frac))
    BY <1>1, <2>4, <2>8, AppendProperties
  <2>11. SocketHolds(socks'[i], accepted'[i], now, frac, transition, cal)
    BY <2>6, <2>7, <2>8, <2>9, <2>10 DEF SocketHolds
  <2>12. SocketHolds(socks[i], accepted[i], now, frac, transition, cal)'
    BY <1>1, <2>11
  <2>13. \A j \in SockIds : j # i =>
           SocketHolds(socks[j], accepted[j], now, frac, transition, cal)'
    BY <1>1, <2>8, SocketKept
  <2>14. PathTypes'
    BY <1>1, <2>8, LoopTypes
  <2>15. QED
    BY <1>1, <2>12, <2>13, <2>14 DEF PathInv, GotRight, GotIntact, TimestampTrue
<1>4. QED
  BY <1>2, <1>3

LEMMA CreateStep ==
    ASSUME PathInv, NEW addr \in Addrs, CreateSocket(addr)
    PROVE  PathInv' /\ GotRight'
<1> DEFINE Cleared(i) == [EmptyQueue EXCEPT !.buf = socks[i].queue.buf]
<1>1. /\ UNCHANGED <<now, frac, transition, cal, ring, isr, full, sent, pc, rx>>
      /\ got' = <<>>
      /\ DOMAIN socks = SockIds /\ DOMAIN accepted = SockIds
      /\ cal \in {Default, transition}
  BY DEF CreateSocket, PathInv, PathTypes, hardware, driver
<1>2. PICK i \in SockIds :
      /\ socks' = [socks EXCEPT ![i] = [@ EXCEPT !.in_use = TRUE, !.addr = addr,
                                                 !.phase_transition = cal,
                                                 !.queue = Cleared(i)]]
      /\ accepted' = [accepted EXCEPT ![i] = <<>>]
  <2> DEFINE free == {j \in SockIds : ~socks[j].in_use}
  <2>1. First(free) \in SockIds
    <3>1. free # {} /\ free \subseteq SockIds
      BY DEF CreateSocket
    <3>2. QED
      BY <3>1, SocketChosen
  <2>2. QED
    BY <2>1 DEF CreateSocket
<1>3. IsSocket(socks[i], transition)
  BY DEF PathInv, SocketHolds
<1> DEFINE q == Cleared(i)
<1>4. /\ IsQueue(q) /\ q.avail = NetSkbufSize /\ q.head = q.tail /\ q.n = 0
  <2>1. q = [buf |-> socks[i].queue.buf, head |-> 0, tail |-> 0,
             avail |-> NetSkbufSize, n |-> 0]
    BY DEF EmptyQueue
  <2>2. DOMAIN socks[i].queue.buf = 0 .. NetSkbufSize - 1
    BY <1>3 DEF IsSocket, IsQueue
  <2> HIDE DEF q
  <2>3. QED
    BY <2>1, <2>2, Room DEF IsQueue
<1> HIDE DEF q
<1>5. QueueHolds(q, <<>>)
  BY <1>4, HoldsNothing
<1>6. /\ socks'[i] = [in_use |-> TRUE, addr |-> addr, phase_transition |-> cal, queue |-> q]
      /\ accepted'[i] = <<>>
      /\ \A j \in SockIds : j # i => socks'[j] = socks[j] /\ accepted'[j] = accepted[j]
      /\ DOMAIN socks' = SockIds /\ DOMAIN accepted' = SockIds
  <2>1. socks'[i] = [socks[i] EXCEPT !.in_use = TRUE, !.addr = addr,
                                     !.phase_transition = cal, !.queue = q]
    BY <1>1, <1>2 DEF q
  <2>2. socks'[i] = [in_use |-> TRUE, addr |-> addr, phase_transition |-> cal, queue |-> q]
    BY <1>3, <2>1 DEF IsSocket
  <2>3. QED
    BY <1>1, <1>2, <2>2
<1>7. SocketHolds(socks'[i], accepted'[i], now, frac, transition, cal)
  <2>1. IsSocket(socks'[i], transition)
    <3>1. cal \in {0, Default, transition}
      BY <1>1
    <3>2. QED
      BY <1>4, <1>6, <3>1 DEF IsSocket
  <2>2. <<>> \in Seq(Seen(now, frac)) /\ Len(<<>>) = 0
    OBVIOUS
  <2>3. QED
    BY <1>4, <1>5, <1>6, <2>1, <2>2 DEF SocketHolds
<1>8. SocketHolds(socks[i], accepted[i], now, frac, transition, cal)'
  BY <1>1, <1>7
<1>9. \A j \in SockIds : j # i =>
        SocketHolds(socks[j], accepted[j], now, frac, transition, cal)'
  BY <1>1, <1>6, SocketKept
<1>10. PathTypes'
  <2>1. /\ UNCHANGED <<now, frac, transition, ring, isr, full, sent>>
        /\ pc' = pc /\ rx' = rx
        /\ cal' \in {Default, transition}
        /\ DOMAIN socks' = SockIds /\ DOMAIN accepted' = SockIds
    BY <1>1, <1>6
  <2>2. QED
    BY <2>1, LoopTypes
<1>11. QED
  BY <1>1, <1>8, <1>9, <1>10 DEF PathInv, GotRight, GotIntact, TimestampTrue

LEMMA CloseStep ==
    ASSUME PathInv, NEW i \in SockIds, CloseSocket(i)
    PROVE  PathInv' /\ GotRight'
<1>1. /\ UNCHANGED <<now, frac, transition, cal, ring, isr, full, sent, pc, rx, accepted>>
      /\ got' = <<>>
      /\ DOMAIN socks = SockIds /\ DOMAIN accepted = SockIds
      /\ cal \in {Default, transition}
      /\ socks' = [socks EXCEPT ![i].in_use = FALSE]
  BY DEF CloseSocket, PathInv, PathTypes, hardware, driver
<1>2. /\ IsSocket(socks[i], transition) /\ accepted[i] \in Seq(Seen(now, frac))
      /\ socks[i].queue.n = Len(accepted[i])
  BY DEF PathInv, SocketHolds
<1>3. /\ socks'[i] = [in_use |-> FALSE, addr |-> socks[i].addr,
                      phase_transition |-> socks[i].phase_transition,
                      queue |-> socks[i].queue]
      /\ \A j \in SockIds : j # i => socks'[j] = socks[j]
      /\ DOMAIN socks' = SockIds
  <2>1. socks'[i] = [socks[i] EXCEPT !.in_use = FALSE]
    BY <1>1
  <2>2. QED
    BY <1>1, <1>2, <2>1 DEF IsSocket
<1>4. SocketHolds(socks'[i], accepted[i], now, frac, transition, cal)
  <2>1. IsSocket(socks'[i], transition)
    BY <1>2, <1>3 DEF IsSocket
  <2>2. QED
    BY <1>2, <1>3, <2>1 DEF SocketHolds
<1>5. SocketHolds(socks[i], accepted[i], now, frac, transition, cal)'
  BY <1>1, <1>4
<1>6. \A j \in SockIds : j # i =>
        SocketHolds(socks[j], accepted[j], now, frac, transition, cal)'
  BY <1>1, <1>3, SocketKept
<1>7. PathTypes'
  <2>1. /\ UNCHANGED <<now, frac, transition, ring, isr, full, sent>>
        /\ pc' = pc /\ rx' = rx
        /\ cal' \in {Default, transition}
        /\ DOMAIN socks' = SockIds /\ DOMAIN accepted' = SockIds
    BY <1>1, <1>3
  <2>2. QED
    BY <2>1, LoopTypes
<1>8. QED
  BY <1>1, <1>5, <1>6, <1>7 DEF PathInv, GotRight, GotIntact, TimestampTrue

(* Calibration reaches the sockets that are open.                          *)
LEMMA CalibrateStep == ASSUME PathInv, Calibrate PROVE PathInv' /\ GotRight'
<1>1. /\ UNCHANGED <<now, frac, transition, ring, isr, full, sent, pc, rx, accepted>>
      /\ got' = <<>> /\ cal' = transition
      /\ DOMAIN socks = SockIds /\ DOMAIN accepted = SockIds
      /\ socks' = [i \in SockIds |-> [socks[i] EXCEPT !.phase_transition = transition]]
  BY DEF Calibrate, SetPhaseTransition, PathInv, PathTypes, hardware, driver
<1>2. ASSUME NEW i \in SockIds
      PROVE  SocketHolds(socks[i], accepted[i], now, frac, transition, cal)'
  <2>1. SocketHolds(socks[i], accepted[i], now, frac, transition, cal)
    BY DEF PathInv
  <2>2. IsSocket(socks[i], transition)
    BY <2>1 DEF SocketHolds
  <2>3. socks'[i] = [in_use |-> socks[i].in_use, addr |-> socks[i].addr,
                     phase_transition |-> transition, queue |-> socks[i].queue]
    <3>1. socks'[i] = [socks[i] EXCEPT !.phase_transition = transition]
      BY <1>1
    <3>2. QED
      BY <2>2, <3>1 DEF IsSocket
  <2>4. IsSocket(socks'[i], transition)
    BY <2>2, <2>3 DEF IsSocket
  <2>5. SocketHolds(socks'[i], accepted[i], now, frac, transition, transition)
    BY <2>1, <2>3, <2>4 DEF SocketHolds
  <2>6. QED
    BY <1>1, <2>5
<1>3. PathTypes'
  <2>1. /\ UNCHANGED <<now, frac, transition, ring, isr, full, sent>>
        /\ pc' = pc /\ rx' = rx
        /\ cal' \in {Default, transition}
        /\ DOMAIN socks' = SockIds /\ DOMAIN accepted' = SockIds
    BY <1>1
  <2>2. QED
    BY <2>1, LoopTypes
<1>4. QED
  BY <1>1, <1>2, <1>3 DEF PathInv, GotRight, GotIntact, TimestampTrue

(* What recvfrom hands over is the oldest packet, whole, with the time of  *)
(* its arrival.                                                            *)
LEMMA RecvStep ==
    ASSUME NoShortBuffer, PathInv, NEW i \in SockIds, RecvFrom(i)
    PROVE  PathInv' /\ GotRight'
<1> DEFINE q   == socks[i].queue
           acc == accepted[i]
           P   == Seen(now, frac)
           p   == Head(acc)
           r   == Recvd(p[1])
           Left(n) == WrapCopyIn([q EXCEPT !.n = @ - 1], n)
           left == Left(3 + r)
<1>1. /\ UNCHANGED <<now, frac, transition, cal, ring, isr, full, sent>>
      /\ pc' = pc /\ rx' = rx
      /\ DOMAIN socks = SockIds /\ DOMAIN accepted = SockIds
      /\ cal \in {Default, transition}
      /\ accepted' = [accepted EXCEPT ![i] = Tail(@)]
      /\ socks[i].in_use /\ q.n > 0
  BY DEF RecvFrom, PathInv, PathTypes, hardware, driver
<1>2. /\ QueueHolds(q, acc) /\ acc \in Seq(P) /\ q.n = Len(acc)
      /\ IsSocket(socks[i], transition) /\ socks[i].phase_transition = cal
  BY <1>1 DEF PathInv, SocketHolds
<1>3. acc # <<>>
  BY <1>1, <1>2
<1>4. \A x \in P : Recvd(x[1]) \in Nat \ {0}
  BY SeenRecvd
<1>5. /\ p \in P
      /\ Cell(q, 0) = <<"size", r>> /\ Cell(q, 1) = <<"hdr", p[1].id>>
      /\ Cell(q, 2) = <<"hwts", Hwts(p[1], p[2])>>
      /\ \A j \in 1 .. r - 1 : Cell(q, 3 + j - 1) = <<"data", p[1].id, j>>
      /\ QueueHolds(left, Tail(acc))
  <2> HIDE DEF q, acc, P
  <2> DEFINE Taken(pp, rr) ==
               /\ pp \in P
               /\ Cell(q, 0) = <<"size", rr>> /\ Cell(q, 1) = <<"hdr", pp[1].id>>
               /\ Cell(q, 2) = <<"hwts", Hwts(pp[1], pp[2])>>
               /\ \A j \in 1 .. rr - 1 : Cell(q, 3 + j - 1) = <<"data", pp[1].id, j>>
               /\ QueueHolds(WrapCopyIn([q EXCEPT !.n = @ - 1], 3 + rr), Tail(acc))
  <2>1. Taken(Head(acc), Recvd(Head(acc)[1]))
    BY ONLY <1>2, <1>3, <1>4, HoldsTail
  <2>2. QED
    BY ONLY <2>1 DEF p, r, Left, left
<1>6. Lesser(r, DataLength) = r /\ r \in Nat \ {0}
  <2>1. p[1] \in Frames /\ r \in Nat \ {0}
    BY <1>5, SeenRecvd
  <2>2. p[1].size \in Sizes
    BY <2>1 DEF Frames
  <2>3. r <= DataLength
    BY <2>2 DEF NoShortBuffer, Recvd
  <2>4. QED
    BY <2>1, <2>3, RxPathAssumption DEF Lesser
<1>7. PICK size \in (IF Cell(q, 0)[1] = "size" THEN {Cell(q, 0)[2]} ELSE Sizes) :
        LET copied == Lesser(size, DataLength)
            hwts   == IF Cell(q, 2)[1] = "hwts" THEN Cell(q, 2)[2]
                      ELSE [sec |-> 0, nsec |-> 0, ahead |-> FALSE]
        IN  /\ socks' = [socks EXCEPT ![i].queue = Left(3 + copied)]
            /\ got' = [want |-> p, calibrated |-> cal = transition,
                       hdr |-> Cell(q, 1),
                       data |-> Cells(q, 3, Lesser(size - 1, DataLength)),
                       ts |-> Linearize(hwts, RawPhase(frac, transition),
                                        socks[i].phase_transition)]
  BY DEF RecvFrom
<1> HIDE DEF q, acc, P, p, r, Left
<1>8. size = r
  BY <1>5, <1>7
<1>9. /\ socks' = [socks EXCEPT ![i].queue = left]
      /\ got' = [want |-> p, calibrated |-> cal = transition,
                 hdr |-> <<"hdr", p[1].id>>,
                 data |-> Cells(q, 3, Lesser(r - 1, DataLength)),
                 ts |-> Linearize(Hwts(p[1], p[2]), RawPhase(frac, transition), cal)]
  BY <1>2, <1>5, <1>6, <1>7, <1>8
<1> HIDE DEF left
<1>10. PathInv'
  <2>1. IsQueue(left) /\ left.n = Len(Tail(acc))
    BY <1>5 DEF QueueHolds
  <2>2. /\ socks'[i] = [socks[i] EXCEPT !.queue = left]
        /\ accepted'[i] = Tail(acc)
        /\ \A j \in SockIds : j # i => socks'[j] = socks[j] /\ accepted'[j] = accepted[j]
        /\ DOMAIN socks' = SockIds /\ DOMAIN accepted' = SockIds
    BY <1>1, <1>9 DEF acc
  <2>3. /\ IsSocket(socks'[i], transition) /\ socks'[i].queue = left
        /\ socks'[i].phase_transition = cal
    BY <1>2, <2>1, <2>2, QueuePut
  <2>4. Tail(acc) \in Seq(P)
    BY <1>2, <1>3, HeadTailProperties
  <2>5. SocketHolds(socks'[i], accepted'[i], now, frac, transition, cal)
    BY <1>5, <2>1, <2>2, <2>3, <2>4 DEF SocketHolds, P
  <2>6. SocketHolds(socks[i], accepted[i], now, frac, transition, cal)'
    BY <1>1, <2>5
  <2>7. \A j \in SockIds : j # i =>
          SocketHolds(socks[j], accepted[j], now, frac, transition, cal)'
    BY <1>1, <2>2, SocketKept
  <2>8. PathTypes'
    <3>1. /\ UNCHANGED <<now, frac, transition, ring, isr, full, sent>>
          /\ pc' = pc /\ rx' = rx
          /\ cal' \in {Default, transition}
          /\ DOMAIN socks' = SockIds /\ DOMAIN accepted' = SockIds
      BY <1>1, <2>2
    <3>2. QED
      BY <3>1, LoopTypes
  <2>9. QED
    BY <2>6, <2>7, <2>8 DEF PathInv
<1>11. GotIntact'
  <2> DEFINE n == Lesser(r - 1, DataLength)
             f == p[1]
  <2>1. n \in 0 .. r - 1
    BY <1>6, RxPathAssumption DEF Lesser
  <2>2. Payload(f) = [j \in 1 .. r - 1 |-> <<"data", f.id, j>>]
    BY DEF Payload, r
  <2>3. Len(Payload(f)) = r - 1
    BY <1>6, <2>2
  <2>4. SubSeq(Payload(f), 1, n) = [j \in 1 .. n |-> Payload(f)[j]]
    <3> DEFINE s == Payload(f)
               S == {s[j] : j \in Int}
               t == SubSeq(s, 1, n)
    <3>1. n \in Nat /\ n \in Int /\ n <= r - 1
      BY <1>6, <2>1
    <3> HIDE DEF n, s
    <3>2. \A j \in 1 .. n : s[j] \in S
      OBVIOUS
    <3> HIDE DEF S
    <3>3. /\ t \in Seq(S) /\ Len(t) = IF 1 <= n THEN n - 1 + 1 ELSE 0
          /\ \A j \in 1 .. n - 1 + 1 : t[j] = s[1 + j - 1]
      BY <3>1, <3>2, SubSeqProperties
    <3> HIDE DEF t
    <3>4. Len(t) = n /\ n - 1 + 1 = n /\ \A j \in 1 .. n : 1 + j - 1 = j
      BY <3>1, <3>3
    <3>5. t = [j \in 1 .. n |-> t[j]]
      BY <3>3, <3>4, LenProperties
    <3>6. \A j \in 1 .. n : t[j] = s[j]
      BY <3>3, <3>4
    <3>7. QED
      BY <3>5, <3>6 DEF t, s
  <2>5. Cells(q, 3, n) = [j \in 1 .. n |-> Cell(q, 3 + j - 1)]
    BY DEF Cells
  <2>6. ASSUME NEW j \in 1 .. n PROVE Cell(q, 3 + j - 1) = Payload(f)[j]
    <3>1. j \in 1 .. r - 1
      BY <1>6, <2>1
    <3>2. QED
      BY <1>5, <2>2, <3>1
  <2> HIDE DEF n, f
  <2>7. Cells(q, 3, n) = SubSeq(Payload(f), 1, n)
    BY <2>4, <2>5, <2>6
  <2>8. /\ got'.want[1] = f /\ got'.hdr = <<"hdr", f.id>>
        /\ got'.data = SubSeq(Payload(f), 1, Lesser(Len(Payload(f)), DataLength))
    BY <1>9, <2>3, <2>7 DEF n, f
  <2>9. QED
    BY <2>8 DEF GotIntact
<1>12. TimestampTrue'
  <2> DEFINE f    == p[1]
             seen == p[2]
  <2>1. /\ f.at \in Nat /\ seen \in Nat /\ f.at < seen
        /\ f.counter_r \in Rising(f.at % Second, frac)
        /\ f.counter_f \in Falling(f.at % Second, frac)
    BY <1>5, SeenRecvd DEF P
  <2>2. frac \in Fracs /\ transition \in Fracs
    BY RxPathAssumption DEF PathInv, PathTypes
  <2>3. /\ got'.want[1] = f /\ got'.want[2] = seen
        /\ got'.calibrated = (cal = transition)
        /\ got'.ts = Linearize(Hwts(f, seen), RawPhase(frac, transition), cal)
    BY <1>9
  <2> HIDE DEF f, seen
  <2>4. ASSUME cal = transition, seen - f.at <= Second \div 4 - 2
        PROVE  Exact(got'.ts, f.at \div Second, f.at % Second, frac)
    <3>1. /\ f.at \div Second \in Nat /\ f.at % Second \in Ticks
          /\ seen \div Second \in Nat /\ seen % Second \in Ticks
          /\ seen - f.at \in 1 .. Second \div 4 - 2
          /\ \/ /\ seen \div Second = f.at \div Second
                /\ seen % Second = (f.at % Second) + (seen - f.at)
             \/ /\ seen \div Second = (f.at \div Second) + 1
                /\ seen % Second = (f.at % Second) + (seen - f.at) - Second
      BY <2>1, <2>4, ArrivalTime
    <3> DEFINE sec == f.at \div Second
               tick == f.at % Second
               sec1 == seen \div Second
               ppsg == seen % Second
               latency == seen - f.at
    <3>2. /\ sec \in Nat /\ tick \in Ticks /\ sec1 \in Nat /\ ppsg \in Ticks
          /\ latency \in 1 .. Second \div 4 - 2
          /\ \/ sec1 = sec /\ ppsg = tick + latency
             \/ sec1 = sec + 1 /\ ppsg = tick + latency - Second
          /\ f.counter_r \in Rising(tick, frac) /\ f.counter_f \in Falling(tick, frac)
      BY <2>1, <3>1
    <3>3. Hwts(f, seen) = HwTimestamp(sec1, ppsg, f.counter_r, f.counter_f)
      BY DEF Hwts
    <3> HIDE DEF sec, tick, sec1, ppsg, latency
    <3>4. Exact(Linearize(HwTimestamp(sec1, ppsg, f.counter_r, f.counter_f),
                          RawPhase(frac, transition), transition), sec, tick, frac)
      BY <2>2, <3>2, TimestampExact
    <3>5. QED
      BY <2>3, <2>4, <3>3, <3>4 DEF sec, tick
  <2>5. QED
    BY <1>1, <2>3, <2>4 DEF TimestampTrue
<1>13. QED
  BY <1>10, <1>11, <1>12 DEF GotRight
-----------------------------------------------------------------------------
LEMMA PathInductive ==
    ASSUME NoShortBuffer, PathInv, GotRight, [Next]_vars
    PROVE  PathInv' /\ GotRight'
<1>1. CASE Tick
  BY <1>1, TickStep
<1>2. CASE Arrive
  BY <1>2, ArriveStep
<1>3. CASE Spoiled
  BY <1>3, SpoiledStep
<1>4. CASE MinicRxFrame \/ MinicRxInvalid \/ ClearIsr
  BY <1>4, RingSteps
<1>5. CASE UpdateRxQueues
  BY <1>5, UpdateStep
<1>6. CASE Calibrate
  BY <1>6, CalibrateStep
<1>7. CASE \E addr \in Addrs : CreateSocket(addr)
  BY <1>7, CreateStep
<1>8. CASE \E i \in SockIds : CloseSocket(i) \/ RecvFrom(i)
  BY <1>8, CloseStep, RecvStep
<1>9. CASE UNCHANGED vars
  <2>1. UNCHANGED <<now, frac, transition, ring, isr, full, sent, cal, pc, rx, socks,
                    accepted, got>>
    BY <1>9 DEF vars, hardware, driver
  <2>2. PathInv'
    BY <2>1 DEF PathInv, PathTypes
  <2>3. GotIntact' /\ TimestampTrue'
    BY <2>1 DEF GotRight, GotIntact, TimestampTrue
  <2>4. QED
    BY <2>2, <2>3 DEF GotRight
<1>10. QED
  BY <1>1, <1>2, <1>3, <1>4, <1>5, <1>6, <1>7, <1>8, <1>9 DEF Next, Driver

(* The types, and the room of an empty queue, follow.                      *)
LEMMA PathSound == ASSUME PathInv PROVE TypeOK /\ RoomRecovered
<1> USE Room
<1>1. ASSUME NEW i \in SockIds
      PROVE  /\ socks[i].in_use \in BOOLEAN /\ socks[i].addr \in Addrs
             /\ socks[i].phase_transition \in {0, Default, transition}
             /\ IsQueue(socks[i].queue) /\ socks[i].queue.n = Len(accepted[i])
             /\ socks[i].in_use => QueueHolds(socks[i].queue, accepted[i])
  BY DEF PathInv, SocketHolds, IsSocket
<1>2. ring \in Seq(Frames)
  <2>1. ring \in Seq(Stored(now, frac)) /\ Stored(now, frac) \subseteq Frames
    BY DEF PathInv, PathTypes, Stored
  <2>2. QED
    BY <2>1, SeqDef
<1>3. pc \in {"idle", "clear", "return"} /\ (pc = "idle" <=> rx = <<>>)
  <2>1. \A p \in Seen(now, frac) : p # <<>>
    <3>1. \A S, T : \A p \in S \X T : p # <<>>
      OBVIOUS
    <3>2. Seen(now, frac) \subseteq Stored(now, frac) \X Nat
      BY DEF Seen
    <3>3. QED
      BY <3>1, <3>2
  <2>2. QED
    BY <2>1 DEF PathInv, PathTypes
<1>4. TypeOK
  BY <1>1, <1>2, <1>3 DEF TypeOK, PathInv, PathTypes, IsQueue
<1>5. ASSUME NEW i \in SockIds, socks[i].in_use, accepted[i] = <<>>
      PROVE  /\ socks[i].queue.avail = NetSkbufSize
             /\ socks[i].queue.head = socks[i].queue.tail
  <2> DEFINE q == socks[i].queue
  <2>1. IsQueue(q) /\ QueueHolds(q, <<>>)
    BY <1>1, <1>5
  <2> HIDE DEF q
  <2>2. PICK off \in [1 .. Len(<<>>) + 1 -> Nat] : HoldsAt(q, <<>>, off)
    BY <2>1 DEF QueueHolds
  <2>3. Used(q) = 0
    <3>1. Len(<<>>) + 1 = 1
      OBVIOUS
    <3>2. QED
      BY <2>2, <3>1 DEF HoldsAt
  <2>4. q.avail = NetSkbufSize /\ q.tail \in 0 .. NetSkbufSize - 1
    BY <2>1, <2>3 DEF IsQueue, Used
  <2>5. q.head = (q.tail + 0) % NetSkbufSize
    BY <2>1, <2>3 DEF QueueHolds
  <2>6. q.head = q.tail
    BY <2>4, <2>5, WrapAdd
  <2>7. QED
    BY <2>4, <2>6 DEF q
<1>6. QED
  BY <1>4, <1>5 DEF RoomRecovered

LEMMA PathAlways == ASSUME NoShortBuffer PROVE Spec => [](PathInv /\ GotRight)
<1>1. PathInv /\ GotRight /\ [Next]_vars => (PathInv /\ GotRight)'
  BY PathInductive
<1>2. QED
  BY PathInit, <1>1, PTL DEF Spec

(***************************************************************************)
(* QueueSound for every number and size of sockets, packets, addresses and *)
(* ring entries: ptpd_netif_recvfrom returns the packets update_rx_queues  *)
(* accepted for the socket, oldest first, whole and unmixed, and a queue   *)
(* that was emptied has all its room again, as long as no user passes a    *)
(* buffer shorter than what the driver hands over.                         *)
(***************************************************************************)
THEOREM QueueAlwaysSound == ASSUME NoShortBuffer PROVE Spec => []QueueSound
<1>1. PathInv /\ GotRight => QueueSound
  BY PathSound DEF QueueSound, GotRight
<1>2. QED
  BY PathAlways, <1>1, PTL

(***************************************************************************)
(* TimestampTrue for every clock period, phase, transition point and order *)
(* of arrivals, polls, calibration and receptions: what recvfrom of a      *)
(* calibrated node returns is the time of arrival.                         *)
(***************************************************************************)
THEOREM TimestampAlwaysTrue == ASSUME NoShortBuffer PROVE Spec => []TimestampTrue
<1>1. PathInv /\ GotRight => TimestampTrue
  BY DEF GotRight
<1>2. QED
  BY PathAlways, <1>1, PTL
=============================================================================
