---------------------------- MODULE RxTimestamp ----------------------------
(***************************************************************************)
(* The time at which a frame arrived, as the hardware captures it and as   *)
(* the software puts it together (minic_rx_frame in dev/minic.c,           *)
(* ptpd_netif_linearize_rx_timestamp in lib/net.c).                        *)
(*                                                                         *)
(* The unit of time is the reference clock cycle; the nsec field of a      *)
(* timestamp, a multiple of the 8 ns of a cycle, is counted in cycles.  A  *)
(* frame arrives frac / Period of a cycle after the tick-th cycle of a     *)
(* second began.                                                           *)
(***************************************************************************)
EXTENDS Integers

CONSTANTS Period,   \* REF_CLOCK_PERIOD_PS, units of phase in a cycle
          Second    \* REF_CLOCK_FREQ_HZ, cycles in a second

F_COUNTER_MASK == 15

ASSUME RxTimestampAssumption ==
    /\ Period \in Nat \ {0} /\ Period % 4 = 0
    /\ Second \in Nat \ {0} /\ Second % (F_COUNTER_MASK + 1) = 0

Fracs == 0 .. Period - 1
Ticks == 0 .. Second - 1
-----------------------------------------------------------------------------
(* The hardware.                                                           *)

\* The value of the rising edge counter.  Within a quarter of a period of the
\* edge either the old or the new value may be captured.
Rising(tick, frac) ==
    {tick % Second}
      \cup (IF frac < Period \div 4 THEN {(tick - 1) % Second} ELSE {})
      \cup (IF frac > (3 * Period) \div 4 THEN {(tick + 1) % Second} ELSE {})

\* The falling edge counter, half a period behind, has four bits.
FallingTicks(tick, frac) ==
    {IF frac >= Period \div 2 THEN tick ELSE tick - 1}
      \cup (IF frac >= Period \div 4 /\ frac <= (3 * Period) \div 4
            THEN {tick - 1, tick} ELSE {})
Falling(tick, frac) ==
    {t % (F_COUNTER_MASK + 1) : t \in FallingTicks(tick, frac)}

\* What the phase tracker measures.
RawPhase(frac, transition) == (frac + transition) % Period
-----------------------------------------------------------------------------
(* The software.                                                           *)

\* minic_rx_frame, at second sec and cycle ppsg: a frame captured late in a
\* second and looked at early in the next belongs to the one before.  (Mutated:
\* without that.)
RxSecondsOfNow(sec, ppsg, counter_r) == sec
RxSeconds(sec, ppsg, counter_r) ==
    IF counter_r > (3 * Second) \div 4 /\ ppsg < Second \div 4 THEN sec - 1 ELSE sec

\* ... and whether the rising edge counter is one ahead of the other.
Ahead(counter_r, counter_f) ==
    LET cntr_diff == (counter_r % (F_COUNTER_MASK + 1)) - counter_f
    IN  cntr_diff = 1 \/ cntr_diff = -F_COUNTER_MASK

HwTimestamp(sec, ppsg, counter_r, counter_f) ==
    [sec |-> RxSeconds(sec, ppsg, counter_r), nsec |-> counter_r,
     ahead |-> Ahead(counter_r, counter_f)]

\* phase_r and phase_f of ptpd_netif_linearize_rx_timestamp.
PhaseR(raw, transition) ==
    LET p == raw - transition IN IF p < 0 THEN p + Period ELSE p
PhaseF(raw, transition) ==
    LET p == raw - transition + Period \div 2
    IN  IF p < 0 THEN p + Period ELSE IF p >= Period THEN p - Period ELSE p

\* Near the transition of the rising edge counter the falling one is used.
NearRising(phase_r) == phase_r > (3 * Period) \div 4 \/ phase_r < Period \div 4

\* The falling edge counter's timestamp, with the half cycle that it lags.
FromFalling(hwts, phase_f) ==
    LET nsec_f == IF hwts.ahead THEN hwts.nsec - 1 ELSE hwts.nsec
        phase  == phase_f + Period \div 2
    IN  IF phase >= Period
        THEN [sec |-> hwts.sec, nsec |-> nsec_f + 1, phase |-> phase - Period]
        ELSE [sec |-> hwts.sec, nsec |-> nsec_f, phase |-> phase]

Linearize(hwts, raw, transition) ==
    LET phase_r == PhaseR(raw, transition)
        ts == IF NearRising(phase_r)
              THEN FromFalling(hwts, PhaseF(raw, transition))
              ELSE [sec |-> hwts.sec, nsec |-> hwts.nsec, phase |-> phase_r]
    IN  IF ts.nsec >= Second
        THEN [ts EXCEPT !.nsec = @ - Second, !.sec = @ + 1]
        ELSE ts
-----------------------------------------------------------------------------
(***************************************************************************)
(* A timestamp is exact when it names the moment of arrival.  The code     *)
(* brings an nsec of a full second back, but not one of -1 cycle: the last *)
(* cycle of a second may be written as cycle -1 of the next.               *)
(***************************************************************************)
Exact(ts, sec, tick, frac) ==
    /\ ts.phase = frac
    /\ \/ ts.sec = sec /\ ts.nsec = tick
       \/ ts.sec = sec + 1 /\ ts.nsec = -1 /\ tick = Second - 1
=============================================================================
