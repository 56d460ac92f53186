------------------------------ MODULE Ptracker ------------------------------
(***************************************************************************)
(* A phase tracker of the SoftPLL (softpll/spll_ptracker.c and             *)
(* spll_read_ptracker): it averages the phase between the tags of the main *)
(* output and of one reference channel, which wraps at Scale, in the       *)
(* interrupt handler, while the main program may restart it.               *)
(*                                                                         *)
(* The clocks: while the PLL is ready, every tag of the main output is     *)
(* base modulo Scale and a tag of the reference lies phase behind it,      *)
(* give or take Jitter; the two alternate.  Each time the PLL locks, base  *)
(* is a new value and either may come first.                               *)
(***************************************************************************)
EXTENDS Integers

CONSTANTS Scale,        \* 2^HPLL_N
          Phases,       \* the true phases of the reference to look at
          Jitter,       \* how far a tag may be from it
          Samples,      \* PTRACKER_AVERAGE_SAMPLES (n_avg)
          DivideBy2,    \* DIVIDE_DMTD_CLOCKS_BY_2
          Restarts,     \* whether the main program restarts a running tracker
          Relocks       \* whether the PLL may lose lock and lock again

Quarter == Scale \div 4

ASSUME PtrackerAssumption ==
    /\ Scale \in Nat \ {0} /\ Scale % 4 = 0
    /\ Phases \subseteq 0 .. Scale - 1
    /\ Jitter \in Nat /\ 2 * Jitter <= Quarter
    /\ Samples \in Nat /\ Samples >= 2
    /\ DivideBy2 \in BOOLEAN /\ Restarts \in BOOLEAN /\ Relocks \in BOOLEAN

VARIABLES phase,      \* how far the reference is behind the main output
          locked,     \* SEQ_READY: the handler calls ptrackers_update
          base,       \* main output's tag, modulo 2^HPLL_N
          last,       \* which of the two was tagged last, "none" after a lock
          tag_ref,    \* the static variable of spll_ptracker.c
          pt,         \* struct spll_ptracker_state
          starting,   \* the main program is inside ptracker_start
          fresh,      \* history: tag_ref is of the present lock
          clean,      \* history: the present window has only fresh samples
          published   \* history: phase_val comes from a clean window

histVars == <<fresh, clean, published>>
vars == <<phase, locked, base, last, tag_ref, pt, starting, histVars>>

TypeOK ==
    /\ phase \in Phases
    /\ locked \in BOOLEAN
    /\ base \in 0 .. Scale - 1
    /\ last \in {"none", "out", "ref"}
    /\ tag_ref \in -1 .. Scale - 1
    /\ pt \in [enabled : BOOLEAN, ready : BOOLEAN, preserve_sign : 0 .. 3,
               acc : Int, avg_count : 0 .. Samples - 1, phase_val : Int]
    /\ starting \in BOOLEAN
    /\ fresh \in BOOLEAN /\ clean \in BOOLEAN /\ published \in BOOLEAN

\* C's integer division truncates towards zero.
Trunc(a, n) == IF a >= 0 THEN a \div n ELSE -((-a) \div n)

\* ptracker_init, from spll_init.
PtrackerInit(p) == [p EXCEPT !.ready = FALSE, !.acc = 0, !.avg_count = 0,
                             !.enabled = FALSE]

\* ptracker_start but for its last store; and the last store.
PtrackerStart1(p) == [p EXCEPT !.preserve_sign = 0, !.enabled = TRUE,
                               !.ready = FALSE, !.acc = 0]
PtrackerStart2(p) == [p EXCEPT !.avg_count = 0]

\* adj_tab: the correction of a sample in quarter q of a window whose first
\* sample was in quarter first.  (Mutated: without it.)
NoAdj(q, first) == 0
Adj(q, first) == CASE first = 0 /\ q = 3 -> -Scale
                   [] first = 3 /\ q = 0 -> Scale
                   [] OTHER              -> 0

\* A full window is averaged, published and the next one begun.  (Mutated: the
\* sample counter is not reset.)
WindowDoneNoReset(p, acc) ==
    [p EXCEPT !.phase_val = Trunc(acc, Samples), !.ready = TRUE, !.acc = 0,
              !.avg_count = @ + 1]
WindowDone(p, acc) ==
    [p EXCEPT !.phase_val = Trunc(acc, Samples), !.ready = TRUE, !.acc = 0,
              !.avg_count = 0]

\* The branch of ptrackers_update for a tag of a reference channel.
PtrackersUpdate(p, tag) ==
    LET delta == (tag_ref - tag) % Scale
        index == delta \div Quarter
        acc   == p.acc + delta + Adj(index, p.preserve_sign)
    IN  CASE ~p.enabled -> p
          [] p.enabled /\ p.avg_count = 0 ->
               [p EXCEPT !.preserve_sign = index, !.acc = delta,
                         !.avg_count = 1]
          [] p.enabled /\ p.avg_count # 0 /\ p.avg_count + 1 # Samples ->
               [p EXCEPT !.acc = acc, !.avg_count = @ + 1]
          [] OTHER -> WindowDone(p, acc)

\* The phase spll_read_ptracker hands to to_picos.
ReadPtracker(p) ==
    LET ph == CASE p.phase_val < 0      -> p.phase_val + Scale
                [] p.phase_val >= Scale -> p.phase_val - Scale
                [] OTHER                -> p.phase_val
    IN  IF DivideBy2 THEN (2 * ph) % Scale ELSE ph
-----------------------------------------------------------------------------
Init ==
    /\ phase \in Phases
    /\ base \in 0 .. Scale - 1
    /\ locked = ~Relocks
    /\ last = "none"
    /\ tag_ref = IF Relocks THEN -1 ELSE base
    /\ pt = [enabled |-> FALSE, ready |-> FALSE, preserve_sign |-> 0, acc |-> 0,
             avg_count |-> 0, phase_val |-> 0]
    /\ starting = FALSE
    /\ fresh = ~Relocks /\ clean = FALSE /\ published = FALSE

\* The sequencer enters SEQ_READY and starts the tracker if its bit of
\* ptracker_mask is set.
Lock ==
    /\ ~locked /\ ~starting
    /\ locked' = TRUE
    /\ base' \in 0 .. Scale - 1
    /\ last' = "none"
    /\ pt' \in {pt, PtrackerStart2(PtrackerStart1(pt))}
    /\ fresh' = FALSE
    /\ UNCHANGED <<phase, tag_ref, starting, clean, published>>

\* The sequencer leaves SEQ_READY: no tag reaches the trackers any more.
Delock ==
    /\ locked /\ Relocks
    /\ locked' = FALSE
    /\ UNCHANGED <<phase, base, last, tag_ref, pt, starting, histVars>>

\* spll_init: trackers off, PLL not ready.
SpllInit ==
    /\ Relocks /\ ~starting
    /\ locked' = FALSE
    /\ pt' = PtrackerInit(pt)
    /\ UNCHANGED <<phase, base, last, tag_ref, starting, histVars>>

\* A tag of the main output (source == spll_n_chan_ref).
OutTag ==
    /\ locked /\ last # "out"
    /\ last' = "out"
    /\ tag_ref' = base
    /\ fresh' = TRUE
    /\ UNCHANGED <<phase, locked, base, pt, starting, clean, published>>

\* A tag of the reference channel.
RefTag(j) ==
    /\ locked /\ last # "ref"
    /\ last' = "ref"
    /\ pt' = PtrackersUpdate(pt, base - phase - j)
    /\ clean' = IF pt.avg_count = 0 THEN fresh /\ ~starting
                                    ELSE clean /\ fresh /\ ~starting
    /\ published' = IF pt'.ready /\ pt.enabled /\ pt'.avg_count = 0
                    THEN clean' ELSE published
    /\ UNCHANGED <<phase, locked, base, tag_ref, starting, fresh>>

\* spll_enable_ptracker(channel, 1) from the main program.
StartBegin ==
    /\ ~starting
    /\ Restarts \/ ~pt.enabled
    /\ starting' = TRUE
    /\ pt' = PtrackerStart1(pt)
    /\ UNCHANGED <<phase, locked, base, last, tag_ref, histVars>>

StartEnd ==
    /\ starting
    /\ starting' = FALSE
    /\ pt' = PtrackerStart2(pt)
    /\ UNCHANGED <<phase, locked, base, last, tag_ref, histVars>>

Next == \/ Lock \/ Delock \/ SpllInit \/ OutTag
        \/ \E j \in -Jitter .. Jitter : RefTag(j)
        \/ StartBegin \/ StartEnd

Spec == Init /\ [][Next]_vars
-----------------------------------------------------------------------------
\* Distance on the circle of Scale units.
Distance(a, b) == LET d == (a - b) % Scale 
                  IN  IF d <= Scale - d THEN d ELSE Scale - d

Factor == IF DivideBy2 THEN 2 ELSE 1

Accurate == Distance(ReadPtracker(pt), Factor * phase) <= Factor * Jitter

(***************************************************************************)
(* A window of samples taken with a tag_ref of the present lock, and not   *)
(* restarted half way, is averaged correctly across the wrap of the phase: *)
(* what spll_read_ptracker returns is within the jitter of the true phase, *)
(* wherever on the circle that lies; truncating the mean adds nothing.     *)
(***************************************************************************)
CleanWindowsAccurate == pt.ready /\ published => Accurate
=============================================================================
