------------------------------ MODULE SoftPll ------------------------------
(***************************************************************************)
(* The SoftPLL of the White Rabbit core (softpll/): the sequencer and the  *)
(* loops that run in the interrupt handler for every tag of the DDMTD      *)
(* phase detectors, and the API that the main program calls while that     *)
(* interrupt may fire between any two of its instructions.                 *)
(*                                                                         *)
(* Abstracted: the value of a tag (a sample is only in or out of its lock  *)
(* detector's range), the PI controllers and DACs, and time (a timeout is  *)
(* running or expired).  Kept: every state change of the sequencer, the    *)
(* lock detectors, the realignment FSM, the auxiliary channel FSM, the     *)
(* tag-enable and status registers, and the order of the main program's    *)
(* register accesses.                                                      *)
(***************************************************************************)
EXTENDS LockDet, Sequences, FiniteSets

CONSTANTS NRef,           \* spll_n_chan_ref
          NOut,           \* spll_n_chan_out
          HelperLock, HelperDelock,  \* lock detector marks of each loop
          MainLock, MainDelock,
          ExtLock, ExtDelock,
          ExtSupported,   \* SPLL_ECCR_EXT_SUPPORTED: grandmaster hardware
          Modes,          \* the modes spll_init is called with
          Refs,           \* the slave_ref_channel values it is called with
          ShiftsPs,       \* phase setpoints, in picoseconds
          PsPerUnit,      \* picoseconds in a unit of phase_shift_target
          FifoDepth,      \* bound: tags waiting in the hardware FIFO
          MaxDelock,      \* bound: delocks before the clocks settle for good
          MaySettle,      \* whether the environment ever settles (liveness)
          PtrackerCalls,  \* whether spll_enable_ptracker is called
          ShellChannels   \* whether the shell's pll start/stop are used

GM    == "GRAND_MASTER"
FREE  == "FREE_RUNNING_MASTER"
SLAVE == "SLAVE"
OFF   == "DISABLED"

RefChans == 0 .. NRef - 1
Main     == NRef                          \* MAIN_CHANNEL
OutChans == NRef .. NRef + NOut - 1
AuxChans == 1 .. NOut - 1
AuxOut(ch) == NRef + ch                   \* id_out of aux[ch - 1]
Ext      == NRef + NOut                   \* ref_src of the external PLL
Channels == 0 .. NRef + NOut

ASSUME SoftPllAssumption ==
    /\ NRef \in Nat \ {0} /\ NOut \in Nat \ {0}
    /\ HelperLock \in Nat /\ HelperDelock \in Nat /\ HelperDelock < HelperLock
    /\ MainLock \in Nat /\ MainDelock \in Nat /\ MainDelock < MainLock
    /\ ExtLock \in Nat /\ ExtDelock \in Nat /\ ExtDelock < ExtLock
    /\ ExtSupported \in BOOLEAN
    /\ Modes \subseteq {GM, FREE, SLAVE, OFF}
    /\ Refs \subseteq RefChans
    /\ ShiftsPs \subseteq Nat
    /\ PsPerUnit \in Nat \ {0}
    /\ FifoDepth \in Nat \ {0}
    /\ MaxDelock \in Nat
    /\ MaySettle \in BOOLEAN
    /\ PtrackerCalls \in BOOLEAN
    /\ ShellChannels \in BOOLEAN

VARIABLES
    mode, seq_state, delock_count,  \* softpll.mode, .seq_state, .delock_count
    dac_timer,      \* softpll.dac_timeout: "running" or "expired"
    helper,         \* softpll.helper
    mpll,           \* softpll.mpll
    aux,            \* softpll.aux[ch - 1].pll.dmtd
    aux_seq,        \* softpll.aux[ch - 1].seq_state
    ext_ld,         \* softpll.ext.ld
    align,          \* softpll.ext.realign_clocks
    realign,        \* softpll.ext.realign_state
    realign_timer,  \* softpll.ext.realign_timer
    mpll_shift_ps,  \* softpll.mpll_shift_ps
    pt_mask,        \* ptracker_mask
    rcer, ocer,     \* channels whose tags are enabled in RCER and OCER
    eccr, escr,     \* bits set in SPLL->ECCR and PPSG->ESCR
    out_en,         \* OCCR.OUT_EN: aux channels the hardware asks to lock
    out_lock,       \* OCCR.OUT_LOCK: aux channels reported as locked
    irq,            \* interrupt enabled
    fifo,           \* tags waiting in the FIFO, by channel
    irq_pc, tag,    \* the handler: "idle", "seq", "loops"; its tag
    todo,           \* the main program: what is left of the call it is in
    loaded, reg,    \* ... a tag-enable register it has read but not written yet
    quiet           \* the environment has settled (see Settle)

loopVars == <<helper, mpll, aux, ext_ld>>
seqVars  == <<mode, seq_state, delock_count, dac_timer>>
extVars  == <<align, realign, realign_timer>>
regVars  == <<rcer, ocer, eccr, escr, out_lock>>
irqVars  == <<irq, fifo, irq_pc, tag>>
mainVars == <<todo, loaded, reg>>
vars == <<seqVars, loopVars, extVars, regVars, irqVars, mainVars,
          aux_seq, mpll_shift_ps, pt_mask, out_en, quiet>>
-----------------------------------------------------------------------------
SeqStates == {"NONE", "DISABLED", "CLEAR_DACS", "WAIT_CLEAR_DACS",
              "START_EXT", "WAIT_EXT", "START_HELPER", "WAIT_HELPER",
              "START_MAIN", "WAIT_MAIN", "READY"}

AuxStates == {"NONE", "DISABLED", "LOCK_PLL", "ALIGN_PHASE", "READY"}

RealignStates == {"NONE", "STAGE1", "STAGE1_WAIT", "STAGE2", "STAGE2_WAIT",
                  "PPS_INVALID", "DISABLED", "DONE"}

Timers == {"running", "expired"}

\* from_picos(ps) / div: a phase setpoint in units of the shifter, truncated.
Units(ps) == ps \div PsPerUnit

\* A main (DDMTD) PLL: whether it holds a tag of either side, its phase shifter
\* and its lock detector.
MainPlls == [id_ref : RefChans, ref : {0, 1}, out : {0, 1},
             target : Nat, current : Nat, ld : LdStates(MainLock)]

\* The helper PLL: its reference and whether it has seen a first tag of it.
HelperPlls == [ref_src : RefChans \cup {Main}, primed : {0, 1},
               ld : LdStates(HelperLock)]

\* Steps of a call the main program is in the middle of.
RegOps  == [op : {"set"}, c : RefChans \cup OutChans] \cup
           [op : {"clear"}, c : RefChans \cup {AuxOut(ch) : ch \in AuxChans}]
AuxOps  == [op : {"aux_check", "aux_fsm", "aux_disable", "aux_lock_pll",
                  "start_channel", "mpll_reset", "ld_reset"}, c : AuxChans]
MaskOps == [op : {"mask"}, c : RefChans]
Ops     == RegOps \cup AuxOps \cup MaskOps
Op(name, chan) == [op |-> name, c |-> chan]

SeqTypeOK ==
    /\ mode \in {"NONE", GM, FREE, SLAVE, OFF}
    /\ seq_state \in SeqStates
    /\ delock_count \in Nat
    /\ dac_timer \in Timers

LoopTypeOK ==
    /\ helper \in HelperPlls
    /\ mpll \in MainPlls
    /\ aux \in [AuxChans -> MainPlls]
    /\ ext_ld \in LdStates(ExtLock)

ExtTypeOK ==
    /\ align \in BOOLEAN
    /\ realign \in RealignStates
    /\ realign_timer \in Timers

RegTypeOK ==
    /\ rcer \subseteq RefChans
    /\ ocer \subseteq OutChans
    /\ eccr \subseteq {"EXT_EN", "ALIGN_EN"}
    /\ escr \subseteq {"SYNC", "PPS_VALID", "TM_VALID"}
    /\ out_lock \subseteq AuxChans

IrqTypeOK ==
    /\ irq \in BOOLEAN
    /\ fifo \in Seq(Channels)
    /\ irq_pc \in {"idle", "seq", "loops"}
    /\ tag \in Channels

\* A register read but not written back is the one the first step in todo is
\* about.
MainTypeOK ==
    /\ todo \in Seq(Ops)
    /\ loaded \in BOOLEAN
    /\ IF loaded
       THEN /\ todo # <<>> /\ Head(todo) \in RegOps
            /\ reg \subseteq IF Head(todo).c \in RefChans THEN RefChans ELSE OutChans
       ELSE reg = {}

RestTypeOK ==
    /\ aux_seq \in [AuxChans -> AuxStates]
    /\ mpll_shift_ps \in {0} \cup ShiftsPs
    /\ pt_mask \subseteq RefChans
    /\ out_en \subseteq AuxChans
    /\ quiet \in BOOLEAN

TypeOK == /\ SeqTypeOK /\ LoopTypeOK /\ ExtTypeOK /\ RegTypeOK
          /\ IrqTypeOK /\ MainTypeOK /\ RestTypeOK

\* A PLL in static memory: tags of zero, so tag_ref >= 0 and tag_out >= 0.
MainZero == [id_ref |-> 0, ref |-> 1, out |-> 1,
             target |-> 0, current |-> 0, ld |-> LdInit]

\* The program before its first spll_init: static variables are zero.
Init ==
    /\ mode = "NONE" /\ seq_state = "NONE" /\ delock_count = 0
    /\ dac_timer = "expired"
    /\ helper = [ref_src |-> 0, primed |-> 1, ld |-> LdInit]
    /\ mpll = MainZero
    /\ aux = [ch \in AuxChans |-> MainZero]
    /\ aux_seq = [ch \in AuxChans |-> "NONE"]
    /\ ext_ld = LdInit
    /\ align = FALSE /\ realign = "NONE" /\ realign_timer = "expired"
    /\ mpll_shift_ps = 0
    /\ pt_mask = {}
    /\ rcer = {} /\ ocer = {} /\ eccr = {} /\ escr = {}
    /\ out_en = {} /\ out_lock = {}
    /\ irq = FALSE /\ fifo = <<>> /\ irq_pc = "idle" /\ tag = 0
    /\ todo = <<>> /\ loaded = FALSE /\ reg = {}
    /\ quiet = FALSE
-----------------------------------------------------------------------------
(* The hardware and the environment.                                       *)

\* The channels whose detectors produce tags.
Tagging == rcer \cup ocer \cup IF "EXT_EN" \in eccr THEN {Ext} ELSE {}

TagArrives(c) ==
    /\ c \in Tagging
    /\ Len(fifo) < FifoDepth
    /\ fifo' = Append(fifo, c)
    /\ UNCHANGED <<seqVars, loopVars, extVars, regVars, irq, irq_pc, tag,
                   mainVars, aux_seq, mpll_shift_ps, pt_mask, out_en, quiet>>

\* timer_get_tics() passes dac_timeout (while somebody looks at it).
DacTimeout ==
    /\ dac_timer = "running" /\ seq_state = "WAIT_CLEAR_DACS"
    /\ dac_timer' = "expired"
    /\ UNCHANGED <<mode, seq_state, delock_count, loopVars, extVars, regVars,
                   irqVars, mainVars, aux_seq, mpll_shift_ps, pt_mask,
                   out_en, quiet>>

\* timer_get_tics() passes realign_timer.
RealignTimeout ==
    /\ realign_timer = "running" /\ realign \in {"STAGE1_WAIT", "STAGE2_WAIT"}
    /\ realign_timer' = "expired"
    /\ UNCHANGED <<seqVars, loopVars, align, realign, regVars, irqVars,
                   mainVars, aux_seq, mpll_shift_ps, pt_mask, out_en, quiet>>

\* The user of an auxiliary clock asks for it to be locked, or released.
RequestAux(ch) ==
    /\ ~quiet
    /\ out_en' = IF ch \in out_en THEN out_en \ {ch} ELSE out_en \cup {ch}
    /\ UNCHANGED <<seqVars, loopVars, extVars, regVars, irqVars, mainVars,
                   aux_seq, mpll_shift_ps, pt_mask, quiet>>

\* From here on the clocks are stable and nobody reconfigures the PLL.
Settle ==
    /\ MaySettle /\ ~quiet /\ mode # "NONE"
    /\ quiet' = TRUE
    /\ UNCHANGED <<seqVars, loopVars, extVars, regVars, irqVars, mainVars,
                   aux_seq, mpll_shift_ps, pt_mask, out_en>>

\* Whether an error sample may be inside its range (settled clocks: always).
Outcomes == IF quiet \/ delock_count >= MaxDelock THEN {TRUE} ELSE BOOLEAN
-----------------------------------------------------------------------------
(* The interrupt handler: sequencing_fsm, then update_loops, for every tag *)
(* in the FIFO.                                                            *)

IrqEnter ==
    /\ irq /\ irq_pc = "idle" /\ fifo # <<>>
    /\ irq_pc' = "seq"
    /\ tag' = Head(fifo)
    /\ fifo' = Tail(fifo)
    /\ UNCHANGED <<irq, seqVars, loopVars, extVars, regVars, mainVars,
                   aux_seq, mpll_shift_ps, pt_mask, out_en, quiet>>

\* What no step of the sequencer changes.
SeqStep(state) ==
    /\ irq_pc = "seq" /\ seq_state = state
    /\ irq_pc' = "loops"
    /\ UNCHANGED <<mode, aux, aux_seq, ext_ld, align, realign_timer, escr,
                   out_lock, irq, fifo, tag, mainVars, mpll_shift_ps,
                   pt_mask, out_en, quiet>>

\* spll_enable_tagger(c, 1), executed in the handler.
EnableTaggers(cs) ==
    /\ rcer' = rcer \cup (cs \cap RefChans)
    /\ ocer' = ocer \cup (cs \cap OutChans)

\* The channels start_ptrackers enables.
PtrackerChans == pt_mask \cup IF pt_mask = {} THEN {} ELSE {Main}

SeqClearDacs ==
    /\ SeqStep("CLEAR_DACS")
    /\ seq_state' = "WAIT_CLEAR_DACS"
    /\ dac_timer' = "running"
    /\ EnableTaggers({Main})
    /\ UNCHANGED <<delock_count, helper, mpll, realign, eccr>>

SeqWaitClearDacs ==
    /\ SeqStep("WAIT_CLEAR_DACS")
    /\ seq_state' = CASE dac_timer # "expired" -> seq_state
                      [] mode = GM             -> "START_EXT"
                      [] OTHER                 -> "START_HELPER"
    /\ UNCHANGED <<delock_count, dac_timer, helper, mpll, realign, rcer,
                   ocer, eccr>>

SeqDisabled ==
    /\ SeqStep("DISABLED")
    /\ UNCHANGED <<seq_state, delock_count, dac_timer, helper, mpll, realign,
                   rcer, ocer, eccr>>

\* realign_clocks ? REALIGN_STAGE1 : REALIGN_DISABLED
FirstStage(a) == IF a THEN "STAGE1" ELSE "DISABLED"

\* SEQ_START_EXT with external_start.
SeqStartExt ==
    /\ SeqStep("START_EXT")
    /\ seq_state' = "WAIT_EXT"
    /\ ocer' = ocer \ {Main}
    /\ eccr' = {"EXT_EN"}
    /\ realign' = FirstStage(align)
    /\ UNCHANGED <<delock_count, dac_timer, helper, mpll, rcer>>

\* Mutated: the realignment is not waited for.
external_locked_any == ext_ld.locked = 1

external_locked == ext_ld.locked = 1 /\ (align => realign = "DONE")

SeqWaitExt ==
    /\ SeqStep("WAIT_EXT")
    /\ seq_state' = IF external_locked THEN "START_HELPER" ELSE seq_state
    /\ UNCHANGED <<delock_count, dac_timer, helper, mpll, realign, rcer,
                   ocer, eccr>>

\* SEQ_START_HELPER with helper_start.
SeqStartHelper ==
    /\ SeqStep("START_HELPER")
    /\ seq_state' = "WAIT_HELPER"
    /\ helper' = [helper EXCEPT !.primed = 0, !.ld = LdInit]
    /\ EnableTaggers({helper.ref_src})
    /\ UNCHANGED <<delock_count, dac_timer, mpll, realign, eccr>>

SeqWaitHelper ==
    /\ SeqStep("WAIT_HELPER")
    /\ \/ /\ ~(helper.ld.locked = 1 /\ helper.ld.changed = 1)
          /\ UNCHANGED <<seq_state, rcer, ocer>>
       \/ /\ helper.ld.locked = 1 /\ helper.ld.changed = 1 /\ mode = SLAVE
          /\ seq_state' = "START_MAIN"
          /\ UNCHANGED <<rcer, ocer>>
       \/ /\ helper.ld.locked = 1 /\ helper.ld.changed = 1 /\ mode # SLAVE
          /\ seq_state' = "READY"
          /\ EnableTaggers(PtrackerChans)
    /\ UNCHANGED <<delock_count, dac_timer, helper, mpll, realign, eccr>>

\* mpll_start of PLL p, up to its detector.
MpllStarted(p, detector) ==
    [id_ref |-> p.id_ref, ref |-> 0, out |-> 0, target |-> 0, current |-> 0,
     ld |-> detector]

SeqStartMain ==
    /\ SeqStep("START_MAIN")
    /\ seq_state' = "WAIT_MAIN"
    /\ mpll' = MpllStarted(mpll, LdInit)
    /\ EnableTaggers({mpll.id_ref, Main})
    /\ UNCHANGED <<delock_count, dac_timer, helper, realign, eccr>>

SeqWaitMain ==
    /\ SeqStep("WAIT_MAIN")
    /\ \/ /\ mpll.ld.locked = 0
          /\ UNCHANGED <<seq_state, rcer, ocer>>
       \/ /\ mpll.ld.locked = 1
          /\ seq_state' = "READY"
          /\ EnableTaggers(PtrackerChans)
    /\ UNCHANGED <<delock_count, dac_timer, helper, mpll, realign, eccr>>

\* Mutated: the loss of the main PLL's lock is not counted.
SeqReadyUncounted ==
    /\ SeqStep("READY")
    /\ seq_state' = IF helper.ld.locked = 1 /\ (mode = SLAVE => mpll.ld.locked = 1)
                    THEN "READY" ELSE "CLEAR_DACS"
    /\ delock_count' = IF helper.ld.locked = 1 THEN delock_count
                                           ELSE delock_count + 1
    /\ UNCHANGED <<dac_timer, helper, mpll, realign, rcer, ocer, eccr>>

SeqReady ==
    /\ SeqStep("READY")
    /\ seq_state' = CASE helper.ld.locked = 0                -> "CLEAR_DACS"
                      [] mode = GM /\ ~external_locked         -> "START_EXT"
                      [] mode = SLAVE /\ mpll.ld.locked = 0    -> "CLEAR_DACS"
                      [] OTHER                                 -> "READY"
    /\ delock_count' = IF seq_state' = "READY" THEN delock_count
                                               ELSE delock_count + 1
    /\ UNCHANGED <<dac_timer, helper, mpll, realign, rcer, ocer, eccr>>

Sequencer == \/ SeqClearDacs \/ SeqWaitClearDacs \/ SeqDisabled
             \/ SeqStartExt \/ SeqWaitExt \/ SeqStartHelper \/ SeqWaitHelper
             \/ SeqStartMain \/ SeqWaitMain \/ SeqReady
-----------------------------------------------------------------------------
(* update_loops.                                                           *)

\* realign_fsm: alignment of the local clock to the external PPS.
RealignStage1 ==
    /\ realign = "STAGE1"
    /\ realign' = "STAGE1_WAIT"
    /\ realign_timer' = "running"
    /\ eccr' = eccr \cup {"ALIGN_EN"}
    /\ escr' = escr

\* Mutated: a missing PPS is waited for without a timeout.
RealignStage1Forever ==
    /\ realign = "STAGE1_WAIT"
    /\ realign' \in {"STAGE1_WAIT", "STAGE2"}
    /\ UNCHANGED <<realign_timer, eccr, escr>>

RealignStage1Wait ==
    /\ realign = "STAGE1_WAIT"
    /\ \/ realign' = "STAGE2" /\ eccr' = eccr          \* ECCR.ALIGN_DONE read
       \/ /\ realign_timer = "expired"
          /\ realign' = "PPS_INVALID"
          /\ eccr' = eccr \ {"ALIGN_EN"}
       \/ realign_timer = "running" /\ UNCHANGED <<realign, eccr>>
    /\ UNCHANGED <<realign_timer, escr>>

RealignStage2 ==
    /\ realign = "STAGE2"
    /\ IF ext_ld.locked = 1
       THEN /\ realign' = "STAGE2_WAIT"
            /\ realign_timer' = "running"
            /\ escr' = {"SYNC"}
       ELSE UNCHANGED <<realign, realign_timer, escr>>
    /\ eccr' = eccr

RealignStage2Wait ==
    /\ realign = "STAGE2_WAIT"
    /\ \/ /\ realign' = "DONE"                         \* ESCR.SYNC read back
          /\ escr' = {"PPS_VALID", "TM_VALID"}
       \/ /\ realign_timer = "expired"
          /\ realign' = "PPS_INVALID"
          /\ escr' = {}
       \/ realign_timer = "running" /\ UNCHANGED <<realign, escr>>
    /\ UNCHANGED <<realign_timer, eccr>>

RealignIdle ==
    /\ realign \in {"PPS_INVALID", "DISABLED", "DONE"}
    /\ UNCHANGED <<realign, realign_timer, eccr, escr>>

RealignFsm == \/ RealignStage1 \/ RealignStage1Wait \/ RealignStage2
              \/ RealignStage2Wait \/ RealignIdle

\* external_update; without EXT_REF_PRESENT the detector is cleared first.
ExternalUpdate ==
    IF /\ mode = GM /\ tag = Ext
       /\ seq_state \in {"WAIT_EXT", "START_HELPER", "WAIT_HELPER",
                         "START_MAIN", "WAIT_MAIN", "READY"}
    THEN /\ RealignFsm
         /\ \E ok \in Outcomes, present \in Outcomes :
              ext_ld' = LdUpdate(IF present THEN ext_ld ELSE LdInit, ok,
                                 ExtLock, ExtDelock)
    ELSE UNCHANGED <<realign, realign_timer, eccr, escr, ext_ld>>

\* Mutated: the first tag is not remembered.
HelperUpdateForgets ==
    IF /\ helper.primed = 1 /\ tag = helper.ref_src
       /\ seq_state \in {"WAIT_HELPER", "START_MAIN", "WAIT_MAIN", "READY"}
    THEN \E ok \in Outcomes :
           helper' = [helper EXCEPT
               !.ld = LdUpdate(@, ok, HelperLock, HelperDelock)]
    ELSE UNCHANGED helper

\* helper_update: the first tag only gives the set point.
HelperUpdate ==
    IF /\ seq_state \in {"WAIT_HELPER", "START_MAIN", "WAIT_MAIN", "READY"}
       /\ tag = helper.ref_src
    THEN IF helper.primed = 1
         THEN \E ok \in Outcomes :
                helper' = [helper EXCEPT
                    !.ld = LdUpdate(@, ok, HelperLock, HelperDelock)]
         ELSE helper' = [helper EXCEPT !.primed = 1]
    ELSE UNCHANGED helper

\* One unit towards the target.
Shifted(p) == CASE p.current < p.target -> p.current + 1
                [] p.current > p.target -> p.current - 1
                [] OTHER                -> p.current

\* mpll_update of PLL p with output channel out: a sample is taken when a tag
\* of either side is there, and the shifter moves only when locked.
MpllUpdate(p, out, ok) ==
    LET q == [p EXCEPT !.ref = IF tag = p.id_ref THEN 1 ELSE @,
                      !.out = IF tag = out THEN 1 ELSE @]
    IN  IF q.ref = 1 /\ q.out = 1
        THEN [q EXCEPT !.ref = 0, !.out = 0,
                       !.current = IF p.ld.locked = 1 THEN Shifted(p) ELSE @,
                       !.ld = LdUpdate(@, ok, MainLock, MainDelock)]
        ELSE q

UpdateLoops ==
    /\ irq_pc = "loops"
    /\ ExternalUpdate
    /\ HelperUpdate
    /\ IF seq_state = "WAIT_MAIN" \/ (seq_state = "READY" /\ mode = SLAVE)
       THEN \E ok \in Outcomes : mpll' = MpllUpdate(mpll, Main, ok)
       ELSE mpll' = mpll
    /\ IF seq_state = "READY" /\ mode = SLAVE
       THEN \E ok \in [AuxChans -> Outcomes] :
              aux' = [ch \in AuxChans |->
                        MpllUpdate(aux[ch], AuxOut(ch), ok[ch])]
       ELSE aux' = aux
    /\ \/ fifo = <<>> /\ irq_pc' = "idle" /\ fifo' = fifo /\ tag' = 0
       \/ /\ fifo # <<>>
          /\ irq_pc' = "seq"
          /\ tag' = Head(fifo)
          /\ fifo' = Tail(fifo)
    /\ UNCHANGED <<seqVars, align, rcer, ocer, out_lock, irq, mainVars,
                   aux_seq, mpll_shift_ps, pt_mask, out_en, quiet>>
-----------------------------------------------------------------------------
(* The main program.  A call is a list of steps (todo); the interrupt may  *)
(* fire before each of them.                                               *)

MainRuns == irq_pc = "idle"
Idle     == MainRuns /\ todo = <<>> /\ ~quiet

\* spll_enable_tagger(c, 0 or 1) from the main program.
EnableTagger(c)  == <<Op("set", c)>>
DisableTaggerBelow(c) == <<Op("clear", c - 1)>>   \* mutated: wrong bit
DisableTagger(c) == <<Op("clear", c)>>

UnlessMain == <<seqVars, loopVars, extVars, regVars, irqVars, aux_seq,
                mpll_shift_ps, pt_mask, out_en, quiet>>

\* spll_init, with the interrupt disabled from its first statement to its last.
SpllInit(m, r, a) ==
    /\ Idle
    /\ mode' = m
    /\ delock_count' = 0
    /\ out_lock' = {}
    /\ IF m = GM /\ ~ExtSupported
       THEN /\ rcer' = {} /\ ocer' = {} /\ eccr' = {} /\ escr' = {}
            /\ irq' = FALSE
            /\ UNCHANGED <<seq_state, loopVars, extVars, aux_seq, fifo>>
       ELSE /\ seq_state' = IF m = OFF THEN "DISABLED" ELSE "CLEAR_DACS"
            /\ helper' = [helper EXCEPT
                             !.ref_src = IF m = SLAVE THEN r ELSE Main]
            /\ mpll' = [mpll EXCEPT !.id_ref = r, !.ld = LdInit]
            /\ aux' = [ch \in AuxChans |->
                         [aux[ch] EXCEPT !.id_ref = r, !.ld = LdInit]]
            /\ aux_seq' = [ch \in AuxChans |-> "DISABLED"]
            /\ IF m = GM
               THEN /\ align' = a
                    /\ realign' = FirstStage(a)
                    /\ ext_ld' = LdInit
               ELSE UNCHANGED <<align, realign, ext_ld>>
            /\ realign_timer' = realign_timer
            /\ rcer' = {} /\ ocer' = {Main} /\ eccr' = {}
            /\ escr' = IF m = FREE THEN {"PPS_VALID", "TM_VALID"} ELSE {}
            /\ fifo' = <<>>
            /\ irq' = TRUE
    /\ UNCHANGED <<dac_timer, irq_pc, tag, mainVars, mpll_shift_ps, pt_mask,
                   out_en, quiet>>

\* spll_set_phase_shift, on one output channel.
SetPhaseShift(ch, ps) ==
    /\ Idle /\ mode # "NONE"
    /\ mpll_shift_ps' = ps
    /\ mpll' = IF ch = 0 THEN [mpll EXCEPT !.target = Units(ps)] ELSE mpll
    /\ aux' = IF ch = 0 THEN aux ELSE [aux EXCEPT ![ch].target = Units(ps)]
    /\ UNCHANGED <<seqVars, helper, ext_ld, extVars, regVars, irqVars,
                   mainVars, aux_seq, pt_mask, out_en, quiet>>

\* spll_set_phase_shift(SPLL_ALL_CHANNELS, ps).
SetPhaseShiftAll(ps) ==
    /\ Idle /\ mode # "NONE"
    /\ mpll_shift_ps' = ps
    /\ mpll' = [mpll EXCEPT !.target = Units(ps)]
    /\ aux' = [ch \in AuxChans |->
                 IF aux_seq[ch] = "READY"
                 THEN [aux[ch] EXCEPT !.target = Units(ps)] ELSE aux[ch]]
    /\ UNCHANGED <<seqVars, helper, ext_ld, extVars, regVars, irqVars,
                   mainVars, aux_seq, pt_mask, out_en, quiet>>

\* spll_enable_ptracker(r, 1): the tagger, ptracker_start, then the mask.
CallEnablePtracker(r) ==
    /\ Idle /\ mode # "NONE" /\ PtrackerCalls
    /\ todo' = EnableTagger(r) \o EnableTagger(r) \o EnableTagger(Main)
                 \o <<Op("mask", r)>>
    /\ UNCHANGED <<loaded, reg>>
    /\ UNCHANGED UnlessMain

\* Mutated: the main PLL's reference is not spared.
CallDisablePtrackerAny(r) ==
    /\ Idle /\ mode # "NONE" /\ PtrackerCalls
    /\ pt_mask' = pt_mask \ {r}
    /\ todo' = DisableTagger(r)
    /\ UNCHANGED <<loaded, reg, seqVars, loopVars, extVars, regVars, irqVars,
                   aux_seq, mpll_shift_ps, out_en, quiet>>

\* spll_enable_ptracker(r, 0).
CallDisablePtracker(r) ==
    /\ Idle /\ mode # "NONE" /\ PtrackerCalls
    /\ pt_mask' = pt_mask \ {r}
    /\ todo' = IF r # mpll.id_ref THEN DisableTagger(r) ELSE <<>>
    /\ UNCHANGED <<loaded, reg, seqVars, loopVars, extVars, regVars, irqVars,
                   aux_seq, mpll_shift_ps, out_en, quiet>>

\* The shell's "pll start ch" and "pll stop ch".
CallStartChannel(ch) ==
    /\ Idle /\ mode # "NONE" /\ ShellChannels
    /\ todo' = <<Op("start_channel", ch)>>
    /\ UNCHANGED <<loaded, reg>>
    /\ UNCHANGED UnlessMain

CallStopChannel(ch) ==
    /\ Idle /\ mode # "NONE" /\ ShellChannels
    /\ todo' = DisableTagger(AuxOut(ch))
    /\ UNCHANGED <<loaded, reg>>
    /\ UNCHANGED UnlessMain

\* spll_update_aux_clocks, once per turn of the main loop.
CallUpdateAux ==
    /\ MainRuns /\ todo = <<>> /\ mode # "NONE"
    /\ todo' = [ch \in AuxChans |-> Op("aux_check", ch)]
    /\ UNCHANGED <<loaded, reg>>
    /\ UNCHANGED UnlessMain
-----------------------------------------------------------------------------
(* The steps of those calls.                                               *)

Doing(name) == MainRuns /\ todo # <<>> /\ Head(todo).op = name
Chan == Head(todo).c
Continue == todo' = Tail(todo)

\* |= and &= on a volatile register: it is read ...
StepRead ==
    /\ Doing("set") \/ Doing("clear")
    /\ ~loaded
    /\ loaded' = TRUE
    /\ reg' = IF Chan \in RefChans THEN rcer ELSE ocer
    /\ todo' = todo
    /\ UNCHANGED UnlessMain

\* ... and the modified value is written back by another access.
WriteBack(value) ==
    /\ loaded
    /\ loaded' = FALSE
    /\ rcer' = IF Chan \in RefChans THEN value ELSE rcer
    /\ ocer' = IF Chan \in RefChans THEN ocer ELSE value
    /\ reg' = {}
    /\ Continue
    /\ UNCHANGED <<seqVars, loopVars, extVars, eccr, escr, out_lock, irqVars,
                   aux_seq, mpll_shift_ps, pt_mask, out_en, quiet>>

StepSet   == Doing("set")   /\ WriteBack(reg \cup {Chan})
StepClear == Doing("clear") /\ WriteBack(reg \ {Chan})

StepMask ==
    /\ Doing("mask")
    /\ pt_mask' = pt_mask \cup {Chan}
    /\ Continue
    /\ UNCHANGED <<loaded, reg, seqVars, loopVars, extVars, regVars, irqVars,
                   aux_seq, mpll_shift_ps, out_en, quiet>>

\* The channel is not to be locked any more: stop it and report it unlocked.
StepAuxCheck ==
    /\ Doing("aux_check")
    /\ todo' = (IF aux_seq[Chan] # "DISABLED" /\ Chan \notin out_en
                THEN DisableTagger(AuxOut(Chan)) \o <<Op("aux_disable", Chan)>>
                ELSE <<>>)
               \o <<Op("aux_fsm", Chan)>> \o Tail(todo)
    /\ UNCHANGED <<loaded, reg>>
    /\ UNCHANGED UnlessMain

StepAuxDisable ==
    /\ Doing("aux_disable")
    /\ out_lock' = out_lock \ {Chan}
    /\ aux_seq' = [aux_seq EXCEPT ![Chan] = "DISABLED"]
    /\ Continue
    /\ UNCHANGED <<loaded, reg, seqVars, loopVars, extVars, rcer, ocer, eccr,
                   escr, irqVars, mpll_shift_ps, pt_mask, out_en, quiet>>

AuxFsmIn(state) == Doing("aux_fsm") /\ aux_seq[Chan] = state

\* An FSM that was never initialised (its seq_state is still zero) does nothing.
AuxFsmNone ==
    /\ AuxFsmIn("NONE")
    /\ Continue
    /\ UNCHANGED <<loaded, reg>>
    /\ UNCHANGED UnlessMain

\* Channel 0's detector and the request are looked at; spll_start_channel
\* looks at the sequencer afterwards.
AuxFsmDisabled ==
    /\ AuxFsmIn("DISABLED")
    /\ todo' = (IF mpll.ld.locked = 1 /\ Chan \in out_en
                THEN <<Op("start_channel", Chan), Op("aux_lock_pll", Chan)>>
                ELSE <<>>) \o Tail(todo)
    /\ UNCHANGED <<loaded, reg>>
    /\ UNCHANGED UnlessMain

AuxFsmLockPll ==
    /\ AuxFsmIn("LOCK_PLL")
    /\ IF aux[Chan].ld.locked = 1
       THEN /\ aux' = [aux EXCEPT ![Chan].target = Units(mpll_shift_ps)]
            /\ aux_seq' = [aux_seq EXCEPT ![Chan] = "ALIGN_PHASE"]
       ELSE UNCHANGED <<aux, aux_seq>>
    /\ Continue
    /\ UNCHANGED <<loaded, reg, seqVars, helper, mpll, ext_ld, extVars,
                   regVars, irqVars, mpll_shift_ps, pt_mask, out_en, quiet>>

AuxFsmAlignPhase ==
    /\ AuxFsmIn("ALIGN_PHASE")
    /\ IF aux[Chan].target = aux[Chan].current
       THEN /\ out_lock' = out_lock \cup {Chan}
            /\ aux_seq' = [aux_seq EXCEPT ![Chan] = "READY"]
       ELSE UNCHANGED <<out_lock, aux_seq>>
    /\ Continue
    /\ UNCHANGED <<loaded, reg, seqVars, loopVars, extVars, rcer, ocer, eccr,
                   escr, irqVars, mpll_shift_ps, pt_mask, out_en, quiet>>

\* Mutated: OUT_LOCK is not cleared when the lock is lost.
AuxFsmReadyKeepsBit ==
    /\ AuxFsmIn("READY")
    /\ aux_seq' = IF mpll.ld.locked = 1 /\ aux[Chan].ld.locked = 1
                  THEN aux_seq ELSE [aux_seq EXCEPT ![Chan] = "DISABLED"]
    /\ Continue
    /\ UNCHANGED <<loaded, reg, seqVars, loopVars, extVars, regVars, irqVars,
                   mpll_shift_ps, pt_mask, out_en, quiet>>

AuxFsmReady ==
    /\ AuxFsmIn("READY")
    /\ IF mpll.ld.locked = 1 /\ aux[Chan].ld.locked = 1
       THEN UNCHANGED <<out_lock, aux_seq>>
       ELSE /\ out_lock' = out_lock \ {Chan}
            /\ aux_seq' = [aux_seq EXCEPT ![Chan] = "DISABLED"]
    /\ Continue
    /\ UNCHANGED <<loaded, reg, seqVars, loopVars, extVars, rcer, ocer, eccr,
                   escr, irqVars, mpll_shift_ps, pt_mask, out_en, quiet>>

\* spll_start_channel: refused unless the PLL is ready; else mpll_start.
StepStartChannel ==
    /\ Doing("start_channel")
    /\ todo' = (IF seq_state = "READY"
                THEN <<Op("mpll_reset", Chan), Op("ld_reset", Chan)>>
                       \o EnableTagger(aux[Chan].id_ref)
                       \o EnableTagger(AuxOut(Chan))
                ELSE <<>>) \o Tail(todo)
    /\ UNCHANGED <<loaded, reg>>
    /\ UNCHANGED UnlessMain

\* mpll_start up to the first store of ld_init (ld->locked = 0) ...
StepMpllReset ==
    /\ Doing("mpll_reset")
    /\ aux' = [aux EXCEPT ![Chan] = MpllStarted(@, [@.ld EXCEPT !.locked = 0])]
    /\ Continue
    /\ UNCHANGED <<loaded, reg, seqVars, helper, mpll, ext_ld, extVars,
                   regVars, irqVars, aux_seq, mpll_shift_ps, pt_mask, out_en,
                   quiet>>

\* ... and the other two (lock_cnt, lock_changed).
StepLdReset ==
    /\ Doing("ld_reset")
    /\ aux' = [aux EXCEPT ![Chan].ld = [@ EXCEPT !.cnt = 0, !.changed = 0]]
    /\ Continue
    /\ UNCHANGED <<loaded, reg, seqVars, helper, mpll, ext_ld, extVars,
                   regVars, irqVars, aux_seq, mpll_shift_ps, pt_mask, out_en,
                   quiet>>

StepAuxLockPll ==
    /\ Doing("aux_lock_pll")
    /\ aux_seq' = [aux_seq EXCEPT ![Chan] = "LOCK_PLL"]
    /\ Continue
    /\ UNCHANGED <<loaded, reg, seqVars, loopVars, extVars, regVars, irqVars,
                   mpll_shift_ps, pt_mask, out_en, quiet>>

MainCall ==
    \/ \E m \in Modes, r \in Refs, a \in BOOLEAN :
         (m # GM => a) /\ SpllInit(m, r, a)
    \/ \E ps \in ShiftsPs : SetPhaseShiftAll(ps)
    \/ \E ps \in ShiftsPs, ch \in {0} \cup AuxChans :
         ShellChannels /\ SetPhaseShift(ch, ps)
    \/ \E r \in Refs : CallEnablePtracker(r) \/ CallDisablePtracker(r)
    \/ \E ch \in AuxChans : CallStartChannel(ch) \/ CallStopChannel(ch)

MainStep ==
    \/ StepRead \/ StepSet \/ StepClear \/ StepMask
    \/ StepAuxCheck \/ StepAuxDisable
    \/ AuxFsmNone \/ AuxFsmDisabled \/ AuxFsmLockPll \/ AuxFsmAlignPhase
    \/ AuxFsmReady
    \/ StepStartChannel \/ StepMpllReset \/ StepLdReset \/ StepAuxLockPll

Handler == IrqEnter \/ Sequencer \/ UpdateLoops

Next ==
    \/ \E c \in Channels : TagArrives(c)
    \/ DacTimeout \/ RealignTimeout
    \/ \E ch \in AuxChans : RequestAux(ch)
    \/ Settle
    \/ Handler
    \/ MainCall \/ CallUpdateAux \/ MainStep

Spec == Init /\ [][Next]_vars

(***************************************************************************)
(* Enabled taggers keep producing tags (a full FIFO delays them, hence     *)
(* strong fairness), the interrupt is served, the timers run and the main  *)
(* loop goes round.                                                        *)
(***************************************************************************)
Fairness ==
    /\ \A c \in Channels : SF_vars(TagArrives(c))
    /\ WF_vars(Handler)
    /\ WF_vars(DacTimeout)
    /\ WF_vars(RealignTimeout)
    /\ WF_vars(MainStep)
    /\ WF_vars(CallUpdateAux)

FairSpec == Spec /\ Fairness
-----------------------------------------------------------------------------
(***************************************************************************)
(* The sequencer only advances when the interrupt fires, and the interrupt *)
(* only fires on a tag ("we need tags from at least one channel, so that   *)
(* the IRQ that calls this function gets called again"): while the         *)
(* interrupt is on, the main output or the external clock is tagged,       *)
(* whatever read-modify-write of OCER the main program is in the middle of.*)
(***************************************************************************)
NeverStarved == irq => Main \in ocer \/ "EXT_EN" \in eccr

(***************************************************************************)
(* The detectors of the helper, main and external loops stay coherent: a   *)
(* locked one can still be brought down by bad samples.                    *)
(***************************************************************************)
LocksCoherent ==
    /\ LdCoherent(helper.ld, HelperLock, HelperDelock)
    /\ LdCoherent(mpll.ld, MainLock, MainDelock)
    /\ LdCoherent(ext_ld, ExtLock, ExtDelock)

(***************************************************************************)
(* Every loop the sequencer waits for gets its tags: from SEQ_WAIT_HELPER  *)
(* on the helper's reference is tagged, from SEQ_WAIT_MAIN on the main     *)
(* PLL's reference and output are.  spll_enable_tagger in the handler and  *)
(* in the main program must not undo each other.                           *)
(***************************************************************************)
LoopsFed ==
    irq =>
    /\ seq_state \in {"WAIT_HELPER", "START_MAIN", "WAIT_MAIN", "READY"}
         => helper.ref_src \in rcer \cup ocer
    /\ mode = SLAVE /\ seq_state \in {"WAIT_MAIN", "READY"}
         => mpll.id_ref \in rcer /\ Main \in ocer

(***************************************************************************)
(* Between two calls the OCCR.OUT_LOCK bits, which tell the hardware which *)
(* auxiliary clocks are locked, agree with the channels' FSMs, which       *)
(* spll_get_aux_status reports.                                            *)
(***************************************************************************)
OutLockMatches ==
    irq /\ todo = <<>> => out_lock = {ch \in AuxChans : aux_seq[ch] = "READY"}

(***************************************************************************)
(* A grandmaster asked to align its PPS goes past SEQ_WAIT_EXT, and so     *)
(* reports lock, only with the alignment done and the PPS marked valid.    *)
(***************************************************************************)
GmReadyAligned ==
    irq /\ mode = GM /\ align
      /\ seq_state \in {"START_HELPER", "WAIT_HELPER", "READY"}
    => realign = "DONE" /\ escr = {"PPS_VALID", "TM_VALID"}

(***************************************************************************)
(* Once the clocks are stable and nobody touches the PLL, it locks - from  *)
(* every state, every interrupted main-program call included.  A           *)
(* grandmaster may instead end in REALIGN_PPS_INVALID, which only another  *)
(* spll_init leaves.                                                       *)
(***************************************************************************)
SettledReady ==
    (quiet /\ irq /\ mode \in {FREE, SLAVE, GM})
        ~> (seq_state = "READY" \/ (mode = GM /\ realign = "PPS_INVALID"))

\* The SoftPLL as its users see it.
Service == INSTANCE SpllService WITH
    delocks <- delock_count,
    state   <- CASE ~irq \/ seq_state \in {"NONE", "DISABLED"} -> "off"
                 [] irq /\ seq_state = "READY"                 -> "locked"
                 [] OTHER                                      -> "acquiring"

(***************************************************************************)
(* The sequencer implements the abstract service: lock is announced only   *)
(* from the acquiring state, each loss of it is counted once, and          *)
(* spll_init always ends it.                                               *)
(***************************************************************************)
ServiceSpec == Service!SSpec
=============================================================================
