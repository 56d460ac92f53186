---------------------------- MODULE Timekeeping -----------------------------
(***************************************************************************)
(* Reading the time and waiting.  The PPS generator (dev/pps_gen.c) counts *)
(* seconds in two words and cycles, and runs on while it is read word by   *)
(* word; the seconds of a TX timestamp (dev/minic.c) are read after the    *)
(* frame has left.  Waiting is the comparison of times on a timer that     *)
(* wraps around (include/syscon.h), timer_delay (dev/syscon.c) and usleep  *)
(* with the calibration of its delay loop (lib/usleep.c).                  *)
(***************************************************************************)
EXTENDS Integers, Sequences, FiniteSets, FiniteSetsExt

CONSTANTS
    CyclesPerSec,  \* REF_CLOCK_FREQ_HZ
    LowBase,       \* 2^32: values of CNTR_UTCLO
    HighBase       \* 2^8: values of CNTR_UTCHI

\* The registers at an instant, which is a number of cycles.
UTC(t) == (t \div CyclesPerSec) % (LowBase * HighBase)
CNTR_UTCLO(t) == UTC(t) % LowBase
CNTR_UTCHI(t) == UTC(t) \div LowBase
CNTR_NSEC(t) == t % CyclesPerSec

\* pps_get_utc, its two reads at two instants
pps_get_utc(t1, t2) == CNTR_UTCLO(t1) + LowBase * CNTR_UTCHI(t2)

\* Mutated: the time is not read again.
EndsLoopAny(ts, k) == TRUE

\* shw_pps_gen_get_time: ts holds the instants of the five reads of each
\* attempt.  The attempt that ends the loop, or 0 if none of these does.
EndsLoop(ts, k) ==
    pps_get_utc(ts[k][1], ts[k][2]) = pps_get_utc(ts[k][4], ts[k][5])

LastAttempt(ts) ==
    IF \E k \in DOMAIN ts : EndsLoop(ts, k)
    THEN CHOOSE k \in DOMAIN ts : EndsLoop(ts, k) /\ \A j \in 1..(k - 1) : ~EndsLoop(ts, j)
    ELSE 0

shw_pps_gen_get_time(ts) ==
    LET r == ts[LastAttempt(ts)]
    IN  [sec |-> pps_get_utc(r[4], r[5]), cycles |-> CNTR_NSEC(r[3])]

-----------------------------------------------------------------------------
\* shw_pps_gen_adjust of the seconds: the difference, possibly negative, in
\* two words that the hardware adds to the counter.
AdjustWords(how_much) ==
    [lo |-> how_much % LowBase, hi |-> (how_much \div LowBase) % HighBase]

AdjustSec(sec, how_much) ==
    LET w == AdjustWords(how_much)
    IN  (sec + w.lo + LowBase * w.hi) % (LowBase * HighBase)

-----------------------------------------------------------------------------
\* minic_tx_frame: the cycle counter was latched when the frame left; the
\* seconds are the ones of a later reading of the time, corrected if the
\* second has changed since.
TxSeconds(counter_r, now) ==
    IF counter_r > (3 * CyclesPerSec) \div 4 /\ now.cycles < CyclesPerSec \div 4
    THEN now.sec - 1 ELSE now.sec

-----------------------------------------------------------------------------
CONSTANTS
    TicMod,       \* 2^32: values of the timer, and of a long
    LpjStart,     \* 1024, where the search for the loop count begins
    UsecStep,     \* 10000: microseconds slept at a time
    UsecPerJiffy, \* 1000
    IntMod        \* 2^32: a product of two ints is taken modulo this

\* The difference is looked at as a signed number.
time_before(a, b) == (a - b) % TicMod >= TicMod \div 2

\* timer_delay: the tics from the start until the loop ends.
timer_delay(start, tics) ==
    Min({k \in 0..TicMod : ~time_before((start + k) % TicMod, (start + tics) % TicMod)})

-----------------------------------------------------------------------------
\* verify_lpj: a delay of lpj loops, begun with a tic, takes a tic or more.
TicPassed(lpj, loopsPerTic) == lpj >= loopsPerTic

\* usleep_init: doubling steps until a tic has passed, then half the count and
\* a binary search with the remaining steps.
RECURSIVE SearchUp(_, _, _)
SearchUp(lpj, step, loopsPerTic) ==
    IF TicPassed(lpj, loopsPerTic) THEN [lpj |-> lpj \div 2, step |-> step \div 4]
    ELSE SearchUp(lpj + step, 2 * step, loopsPerTic)

RECURSIVE SearchDown(_, _, _)
SearchDown(lpj, step, loopsPerTic) ==
    IF step = 0 THEN lpj
    ELSE SearchDown(IF TicPassed(lpj + step, loopsPerTic) THEN lpj ELSE lpj + step,
                    step \div 2, loopsPerTic)

usleep_init(loopsPerTic) ==
    LET up == SearchUp(LpjStart, LpjStart, loopsPerTic)
    IN  SearchDown(up.lpj, up.step, loopsPerTic)

\* usleep: the loops of all the delays.  The product is an int; the sleep goes
\* in steps so that it does not overflow.
LoopCount(usec, lpj) == ((usec * lpj) % IntMod) \div UsecPerJiffy

RECURSIVE usleep(_, _)
usleep(usec, lpj) ==
    IF usec > UsecStep THEN LoopCount(UsecStep, lpj) + usleep(usec - UsecStep, lpj)
    ELSE LoopCount(usec, lpj)
=============================================================================
