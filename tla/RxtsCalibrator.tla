--------------------------- MODULE RxtsCalibrator ---------------------------
(***************************************************************************)
(* The calibrator of the RX timestamper (dev/rxts_calibrator.c): sweep the *)
(* phase shifter over a little more than a clock period, sample a bit that *)
(* says which edge of the clock is ahead, find its two transitions behind  *)
(* a deglitcher, and take the middle as the transition phase t24p.  The    *)
(* value is kept in the EEPROM for the runs in master mode.                *)
(***************************************************************************)
EXTENDS Integers, Sequences, FiniteSets, Folds

CONSTANTS
    CAL_SCAN_STEP,           \* 100 ps in the code
    CAL_DEGLITCH_THRESHOLD,  \* 5 samples
    REF_CLOCK_PERIOD_PS,     \* 8000 ps
    Margin                   \* the 200 ps within which a stored value is kept

CAL_SCAN_RANGE == REF_CLOCK_PERIOD_PS + 3 * CAL_DEGLITCH_THRESHOLD * CAL_SCAN_STEP

\* The sample taken at phase (i - 1) * CAL_SCAN_STEP is number i; the sweep
\* ends with the first phase that is not below CAL_SCAN_RANGE.
NumSamples == ((CAL_SCAN_RANGE + CAL_SCAN_STEP - 1) \div CAL_SCAN_STEP) + 1
PhaseOf(i) == (i - 1) * CAL_SCAN_STEP

\* rxts_calibration_start
NewDetector == [state |-> "wait_inactive", sample_count |-> 0, trans_phase |-> 0]

\* One sample for a detector of transitions to the given polarity, with the
\* number of samples that count as a level and not as a glitch.
LookupWith(d, flip, phase, polarity, threshold) ==
    LET active == flip = polarity
    IN  CASE d.state = "wait_inactive" ->
               LET n == IF active THEN 0 ELSE d.sample_count + 1
               IN  IF n >= threshold
                   THEN [d EXCEPT !.state = "got_transition", !.sample_count = 0]
                   ELSE [d EXCEPT !.sample_count = n]
          [] d.state = "got_transition" ->
               LET n == IF active THEN d.sample_count + 1 ELSE 0
               IN  IF n >= threshold
                   THEN [state |-> "done", sample_count |-> n,
                         trans_phase |-> phase - threshold * CAL_SCAN_STEP]
                   ELSE [d EXCEPT !.sample_count = n]
          [] d.state = "done" -> d

lookup_transition(d, flip, phase, polarity) ==
    LookupWith(d, flip, phase, polarity, CAL_DEGLITCH_THRESHOLD)

Detect(flips, polarity) ==
    LET Step(i, d) == lookup_transition(d, flips[i], PhaseOf(i), polarity)
        D[i \in 0..NumSamples] == IF i = 0 THEN NewDetector ELSE Step(i, D[i - 1])
    IN  D[NumSamples]

\* C's division rounds towards zero.
Half(x) == IF x < 0 THEN -((-x) \div 2) ELSE x \div 2

\* The middle between the rising edge and the falling edge moved by half a
\* period.
Middle(rising, falling) ==
    LET P == REF_CLOCK_PERIOD_PS
        moved == IF falling > rising THEN falling - (P \div 2)
                 ELSE IF falling < rising THEN falling + (P \div 2) ELSE 0
        ttrans == Half(moved + rising)
    IN  IF ttrans < 0 THEN ttrans + P ELSE IF ttrans >= P THEN ttrans - P ELSE ttrans

\* rxts_calibration_update until it returns non-zero: t24p, or -1.
rxts_calibration(flips) ==
    LET r == Detect(flips, 1)
        f == Detect(flips, 0)
    IN  IF r.state = "done" /\ f.state = "done"
        THEN Middle(r.trans_phase % REF_CLOCK_PERIOD_PS,
                    f.trans_phase % REF_CLOCK_PERIOD_PS)
        ELSE -1

-----------------------------------------------------------------------------
\* The EEPROM word as it is after power-up: [ok, valid, val]; ok = FALSE is a
\* chip that does not answer.  A measurement of -1 is a calibration that failed.

\* eeprom_phtrans, reading: -1, 0 (no validity bit; the value is handed out
\* all the same) or 1.
ReadPhtrans(ee) == IF ~ee.ok THEN -1 ELSE IF ee.valid THEN 1 ELSE 0

\* Unsigned 32-bit arithmetic: below Margin the lower bound wraps and is
\* above every value.
TooLow(prev, value) == IF value < Margin THEN TRUE ELSE prev < value - Margin

SlaveKeeps(ee, value) ==
    /\ ReadPhtrans(ee) >= 0
    /\ ~TooLow(ee.val, value) /\ ~(ee.val > value + Margin)

\* calib_t24p_slave and calib_t24p_master: result, value handed to the
\* sockets ("garbage" when nothing was read) and the EEPROM afterwards.
calib_t24p(mode, ee, measured) ==
    LET stored == [rv |-> ReadPhtrans(ee), ee |-> ee,
                   value |-> IF ee.ok THEN ee.val ELSE "garbage"]
    IN  CASE mode # "slave" \/ measured = -1 -> stored
          [] mode = "slave" /\ measured # -1 /\ SlaveKeeps(ee, measured) ->
               [rv |-> ReadPhtrans(ee), ee |-> ee, value |-> measured]
          [] OTHER ->
               [rv |-> IF ee.ok THEN 1 ELSE -1, value |-> measured,
                ee |-> IF ee.ok THEN [ee EXCEPT !.valid = TRUE, !.val = measured] ELSE ee]
=============================================================================
