--------------------------- MODULE SoftPllProofs ---------------------------
(* Proofs about the SoftPLL, for every number of channels and every mark.  *)
EXTENDS SoftPll, SequenceTheorems, TLAPS

(* ld_update keeps a detector in its type: the counter never passes        *)
(* lock_samples, even from a state that ld_init was interrupted in.        *)
LEMMA LdUpdateType ==
    ASSUME NEW lock \in Nat, NEW delock \in Nat,
           NEW l \in LdStates(lock), NEW ok \in BOOLEAN
    PROVE  LdUpdate(l, ok, lock, delock) \in LdStates(lock)
<1>1. /\ l.locked \in {0, 1} /\ l.cnt \in 0 .. lock /\ l.changed \in {0, 1}
  BY DEF LdStates
<1>2. CASE ok
  BY <1>1, <1>2 DEF LdUpdate, LdCount, LdStates
<1>3. CASE ~ok
  BY <1>1, <1>3 DEF LdUpdate, LdCount, LdStates
<1>4. QED
  BY <1>2, <1>3

(***************************************************************************)
(* ld_update keeps a detector in its type and coherent: the counter never  *)
(* passes lock_samples, a locked detector stays above delock_samples.      *)
(* Every loop of the SoftPLL relies on this.                               *)
(***************************************************************************)
LEMMA LdUpdatePreserves ==
    ASSUME NEW lock \in Nat, NEW delock \in Nat, delock < lock,
           NEW l \in LdStates(lock), LdCoherent(l, lock, delock),
           NEW ok \in BOOLEAN
    PROVE  /\ LdUpdate(l, ok, lock, delock) \in LdStates(lock)
           /\ LdCoherent(LdUpdate(l, ok, lock, delock), lock, delock)
<1>1. /\ l.locked \in {0, 1} /\ l.cnt \in 0 .. lock /\ l.changed \in {0, 1}
  BY DEF LdStates
<1>2. CASE ok
  BY <1>1, <1>2 DEF LdUpdate, LdCount, LdStates, LdCoherent
<1>3. CASE ~ok
  BY <1>1, <1>3 DEF LdUpdate, LdCount, LdStates, LdCoherent
<1>4. QED
  BY <1>2, <1>3

(* ld_init leaves a detector that is coherent.                             *)
LEMMA LdInitCoherent ==
    ASSUME NEW lock \in Nat, NEW delock \in Nat, delock < lock
    PROVE  LdInit \in LdStates(lock) /\ LdCoherent(LdInit, lock, delock)
BY DEF LdInit, LdStates, LdCoherent

(* ld_init gives every loop's detector a value of its type, coherent.      *)
LEMMA LdInits ==
    /\ LdInit \in LdStates(HelperLock) /\ LdCoherent(LdInit, HelperLock, HelperDelock)
    /\ LdInit \in LdStates(MainLock) /\ LdCoherent(LdInit, MainLock, MainDelock)
    /\ LdInit \in LdStates(ExtLock) /\ LdCoherent(LdInit, ExtLock, ExtDelock)
BY SoftPllAssumption, LdInitCoherent

(* mpll_start: the PLL stays a PLL, whatever detector of its type it gets. *)
LEMMA MpllStartedType ==
    ASSUME NEW p \in MainPlls, NEW l \in LdStates(MainLock)
    PROVE  MpllStarted(p, l) \in MainPlls
BY DEF MpllStarted, MainPlls

(* The sequencer keeps the types.                                          *)
LEMMA SeqTypes == TypeOK /\ Sequencer => TypeOK'
<1> USE SoftPllAssumption
<1> SUFFICES ASSUME TypeOK, Sequencer PROVE TypeOK'
  OBVIOUS
<1>1. /\ irq_pc = "seq" /\ irq_pc' = "loops"
      /\ UNCHANGED <<mode, aux, aux_seq, ext_ld, align, realign_timer, escr,
                   out_lock, irq, fifo, tag, mainVars, mpll_shift_ps,
                   pt_mask, out_en, quiet>>
  BY DEF Sequencer, SeqStep, SeqClearDacs, SeqWaitClearDacs, SeqDisabled,
         SeqStartExt, SeqWaitExt, SeqStartHelper, SeqWaitHelper,
         SeqStartMain, SeqWaitMain, SeqReady
<1>2. IrqTypeOK' /\ MainTypeOK' /\ RestTypeOK'
  BY <1>1 DEF TypeOK, IrqTypeOK, MainTypeOK, RestTypeOK, mainVars
<1>3. SeqTypeOK'
  BY <1>1 DEF TypeOK, SeqTypeOK, SeqStates, Timers, GM, FREE, SLAVE, OFF,
         Sequencer, SeqClearDacs, SeqWaitClearDacs, SeqDisabled,
         SeqStartExt, SeqWaitExt, SeqStartHelper, SeqWaitHelper,
         SeqStartMain, SeqWaitMain, SeqReady
<1>4. ExtTypeOK'
  BY <1>1 DEF TypeOK, ExtTypeOK, RealignStates, FirstStage,
         Sequencer, SeqClearDacs, SeqWaitClearDacs, SeqDisabled,
         SeqStartExt, SeqWaitExt, SeqStartHelper, SeqWaitHelper,
         SeqStartMain, SeqWaitMain, SeqReady
<1>5. RegTypeOK'
  BY <1>1 DEF TypeOK, RegTypeOK, EnableTaggers,
         Sequencer, SeqClearDacs, SeqWaitClearDacs, SeqDisabled,
         SeqStartExt, SeqWaitExt, SeqStartHelper, SeqWaitHelper,
         SeqStartMain, SeqWaitMain, SeqReady
<1>6. LoopTypeOK'
  <2>1. helper' = helper \/ helper' = [helper EXCEPT !.primed = 0, !.ld = LdInit]
    BY DEF Sequencer, SeqClearDacs, SeqWaitClearDacs, SeqDisabled,
         SeqStartExt, SeqWaitExt, SeqStartHelper, SeqWaitHelper,
         SeqStartMain, SeqWaitMain, SeqReady
  <2>2. mpll' = mpll \/ mpll' = MpllStarted(mpll, LdInit)
    BY DEF Sequencer, SeqClearDacs, SeqWaitClearDacs, SeqDisabled,
         SeqStartExt, SeqWaitExt, SeqStartHelper, SeqWaitHelper,
         SeqStartMain, SeqWaitMain, SeqReady
  <2>3. helper' \in HelperPlls
    BY <2>1, LdInits DEF TypeOK, LoopTypeOK, HelperPlls
  <2>4. mpll' \in MainPlls
    BY <2>2, LdInits, MpllStartedType DEF TypeOK, LoopTypeOK
  <2>5. QED
    BY <1>1, <2>3, <2>4 DEF TypeOK, LoopTypeOK
<1>7. QED
  BY <1>2, <1>3, <1>4, <1>5, <1>6 DEF TypeOK

(* One step of the phase shifter.                                          *)
LEMMA ShiftedType ==
    ASSUME NEW p \in MainPlls PROVE Shifted(p) \in Nat
<1>1. p.current \in Nat /\ p.target \in Nat
  BY DEF MainPlls
<1>2. QED
  BY <1>1 DEF Shifted

(* mpll_update keeps a PLL a PLL.                                          *)
LEMMA MpllUpdateType ==
    ASSUME NEW p \in MainPlls, NEW out, NEW ok \in BOOLEAN
    PROVE  MpllUpdate(p, out, ok) \in MainPlls
<1> DEFINE q == [p EXCEPT !.ref = IF tag = p.id_ref THEN 1 ELSE @,
                          !.out = IF tag = out THEN 1 ELSE @]
           l == LdUpdate(q.ld, ok, MainLock, MainDelock)
           c == IF p.ld.locked = 1 THEN Shifted(p) ELSE q.current
<1>1. q \in MainPlls
  BY DEF MainPlls
<1>2. q.ld \in LdStates(MainLock) /\ q.current \in Nat
  BY <1>1 DEF MainPlls
<1>3. l \in LdStates(MainLock) /\ c \in Nat
  BY <1>2, ShiftedType, LdUpdateType, SoftPllAssumption
<1>4. [q EXCEPT !.ref = 0, !.out = 0, !.current = c, !.ld = l] \in MainPlls
  BY <1>1, <1>3 DEF MainPlls
<1>5. QED
  BY <1>1, <1>4 DEF MpllUpdate

(* An error is in range or it is not, whatever the clocks do.              *)
LEMMA OutcomesType == Outcomes \subseteq BOOLEAN
BY DEF Outcomes

(* update_loops keeps the types.                                           *)
LEMMA LoopsTypes == TypeOK /\ UpdateLoops => TypeOK'
<1> USE SoftPllAssumption
<1> SUFFICES ASSUME TypeOK, UpdateLoops PROVE TypeOK'
  OBVIOUS
<1>1. UNCHANGED <<seqVars, align, rcer, ocer, out_lock, irq, mainVars,
                   aux_seq, mpll_shift_ps, pt_mask, out_en, quiet>>
  BY DEF UpdateLoops
<1>2. SeqTypeOK' /\ MainTypeOK' /\ RestTypeOK'
  BY <1>1 DEF TypeOK, SeqTypeOK, MainTypeOK, RestTypeOK, mainVars, seqVars
<1>3. ExternalUpdate /\ HelperUpdate
  BY DEF UpdateLoops
<1>4. ExtTypeOK'
  BY <1>1, <1>3 DEF TypeOK, ExtTypeOK, RealignStates, Timers, ExternalUpdate,
     RealignFsm, RealignStage1, RealignStage1Wait, RealignStage2,
     RealignStage2Wait, RealignIdle
<1>5. RegTypeOK'
  BY <1>1, <1>3 DEF TypeOK, RegTypeOK, ExternalUpdate,
     RealignFsm, RealignStage1, RealignStage1Wait, RealignStage2,
     RealignStage2Wait, RealignIdle
<1>6. IrqTypeOK'
  <2>1. CASE fifo = <<>> /\ irq_pc' = "idle" /\ fifo' = fifo /\ tag' = 0
    BY <1>1, <2>1 DEF TypeOK, IrqTypeOK, Channels
  <2>2. CASE /\ fifo # <<>>
             /\ irq_pc' = "seq"
             /\ tag' = Head(fifo)
             /\ fifo' = Tail(fifo)
    BY <1>1, <2>2 DEF TypeOK, IrqTypeOK
  <2>3. QED
    BY <2>1, <2>2 DEF UpdateLoops
<1>7. ext_ld' \in LdStates(ExtLock)
  <2>1. CASE ext_ld' = ext_ld
    BY <2>1 DEF TypeOK, LoopTypeOK
  <2>2. CASE \E ok \in Outcomes, present \in Outcomes :
              ext_ld' = LdUpdate(IF present THEN ext_ld ELSE LdInit, ok,
                                 ExtLock, ExtDelock)
    <3>1. PICK ok \in Outcomes, present \in Outcomes :
              ext_ld' = LdUpdate(IF present THEN ext_ld ELSE LdInit, ok,
                                 ExtLock, ExtDelock)
      BY <2>2
    <3>2. ok \in BOOLEAN
      BY OutcomesType
    <3>3. (IF present THEN ext_ld ELSE LdInit) \in LdStates(ExtLock)
      BY LdInits DEF TypeOK, LoopTypeOK
    <3>4. QED
      BY <3>1, <3>2, <3>3, LdUpdateType
  <2>3. QED
    BY <1>3, <2>1, <2>2 DEF ExternalUpdate
<1>8. helper' \in HelperPlls
  <2>1. CASE helper' = helper
    BY <2>1 DEF TypeOK, LoopTypeOK
  <2>2. CASE helper' = [helper EXCEPT !.primed = 1]
    BY <2>2 DEF TypeOK, LoopTypeOK, HelperPlls
  <2>3. ASSUME NEW ok \in Outcomes,
               helper' = [helper EXCEPT
                    !.ld = LdUpdate(@, ok, HelperLock, HelperDelock)]
        PROVE  helper' \in HelperPlls
    <3>1. LdUpdate(helper.ld, ok, HelperLock, HelperDelock) \in LdStates(HelperLock)
      BY LdUpdateType, OutcomesType DEF TypeOK, LoopTypeOK, HelperPlls
    <3>2. QED
      BY <2>3, <3>1 DEF TypeOK, LoopTypeOK, HelperPlls
  <2>4. QED
    BY <1>3, <2>1, <2>2, <2>3 DEF HelperUpdate
<1>9. mpll' \in MainPlls
  <2>1. mpll' = mpll \/ \E ok \in Outcomes : mpll' = MpllUpdate(mpll, Main, ok)
    BY DEF UpdateLoops
  <2>2. QED
    BY <2>1, MpllUpdateType, OutcomesType DEF TypeOK, LoopTypeOK
<1>10. aux' \in [AuxChans -> MainPlls]
  <2>1. CASE aux' = aux
    BY <2>1 DEF TypeOK, LoopTypeOK
  <2>2. ASSUME NEW ok \in [AuxChans -> Outcomes],
               aux' = [ch \in AuxChans |->
                         MpllUpdate(aux[ch], AuxOut(ch), ok[ch])]
        PROVE  aux' \in [AuxChans -> MainPlls]
    <3>1. \A ch \in AuxChans : MpllUpdate(aux[ch], AuxOut(ch), ok[ch]) \in MainPlls
      BY MpllUpdateType, OutcomesType DEF TypeOK, LoopTypeOK
    <3>2. QED
      BY <2>2, <3>1
  <2>3. QED
    BY <2>1, <2>2 DEF UpdateLoops
<1>11. QED
  BY <1>2, <1>4, <1>5, <1>6, <1>7, <1>8, <1>9, <1>10 DEF TypeOK, LoopTypeOK

(* Tags, timers, requests and the entry of the handler keep the types.     *)
LEMMA EnvTypes ==
    ASSUME TypeOK,
           \/ \E c \in Channels : TagArrives(c)
           \/ DacTimeout \/ RealignTimeout
           \/ \E ch \in AuxChans : RequestAux(ch)
           \/ Settle \/ IrqEnter
    PROVE  TypeOK'
<1> USE DEF TypeOK, SeqTypeOK, LoopTypeOK, ExtTypeOK, RegTypeOK, IrqTypeOK,
            MainTypeOK, RestTypeOK, seqVars, loopVars, extVars, regVars,
            irqVars, mainVars
<1>1. CASE \E c \in Channels : TagArrives(c)
  BY <1>1 DEF TagArrives
<1>2. CASE DacTimeout
  BY <1>2 DEF DacTimeout, Timers
<1>3. CASE RealignTimeout
  BY <1>3 DEF RealignTimeout, Timers
<1>4. CASE \E ch \in AuxChans : RequestAux(ch)
  BY <1>4 DEF RequestAux
<1>5. CASE Settle
  BY <1>5 DEF Settle
<1>6. CASE IrqEnter
  BY <1>6 DEF IrqEnter
<1>7. QED
  BY <1>1, <1>2, <1>3, <1>4, <1>5, <1>6

-----------------------------------------------------------------------------
(* The channel of a step is of the kind the step is about.                 *)
LEMMA OpChannel ==
    ASSUME NEW o \in Ops
    PROVE  /\ o.op \in {"set", "clear"} => o \in RegOps
           /\ o.op = "mask" => o.c \in RefChans
           /\ o.op \notin {"set", "clear", "mask"} => o.c \in AuxChans
BY DEF Ops, RegOps, AuxOps, MaskOps

(* A register access of the main program names an existing channel.        *)
LEMMA RegChannel ==
    ASSUME NEW o \in RegOps
    PROVE  /\ o.op \in {"set", "clear"}
           /\ o.c \in RefChans \cup OutChans
           /\ o.op = "clear" => o.c # Main
BY SoftPllAssumption DEF RegOps, RefChans, OutChans, AuxChans, AuxOut, Main

(* Between two register accesses nothing is loaded.                        *)
LEMMA NotLoaded ==
    ASSUME TypeOK, todo = <<>> \/ Head(todo).op \notin {"set", "clear"}
    PROVE  loaded = FALSE /\ reg = {}
BY RegChannel DEF TypeOK, MainTypeOK

(* The pieces calls are made of are steps.                                 *)
LEMMA PieceTypes ==
    /\ \A ch \in AuxChans : /\ DisableTagger(AuxOut(ch)) \in Seq(Ops)
                            /\ EnableTagger(AuxOut(ch)) \in Seq(Ops)
    /\ \A r \in RefChans : /\ DisableTagger(r) \in Seq(Ops)
                           /\ EnableTagger(r) \in Seq(Ops)
                           /\ <<Op("mask", r)>> \in Seq(Ops)
    /\ EnableTagger(Main) \in Seq(Ops)
    /\ \A ch \in AuxChans, name \in {"aux_check", "aux_fsm", "aux_disable",
          "aux_lock_pll", "start_channel", "mpll_reset", "ld_reset"} :
          Op(name, ch) \in Ops /\ <<Op(name, ch)>> \in Seq(Ops)
    /\ <<>> \in Seq(Ops)
<1>1. \A ch \in AuxChans : AuxOut(ch) \in OutChans
  BY SoftPllAssumption DEF AuxChans, AuxOut, OutChans
<1>2. Main \in OutChans
  BY SoftPllAssumption DEF Main, OutChans
<1>3. \A ch \in AuxChans : /\ Op("set", AuxOut(ch)) \in Ops
                           /\ Op("clear", AuxOut(ch)) \in Ops
  BY <1>1 DEF Op, Ops, RegOps
<1>4. \A r \in RefChans : /\ Op("set", r) \in Ops
                          /\ Op("clear", r) \in Ops
                          /\ Op("mask", r) \in Ops
  BY DEF Op, Ops, RegOps, MaskOps
<1>5. Op("set", Main) \in Ops
  BY <1>2 DEF Op, Ops, RegOps
<1>6. \A ch \in AuxChans, name \in {"aux_check", "aux_fsm", "aux_disable",
          "aux_lock_pll", "start_channel", "mpll_reset", "ld_reset"} :
          Op(name, ch) \in Ops
  BY DEF Op, Ops, AuxOps
<1>7. QED
  BY <1>3, <1>4, <1>5, <1>6 DEF DisableTagger, EnableTagger

(* The steps of the main program keep the types.                           *)
LEMMA StepTypes == TypeOK /\ MainStep => TypeOK'
<1> USE SoftPllAssumption
<1> SUFFICES ASSUME TypeOK, MainStep PROVE TypeOK'
  OBVIOUS
<1>1. /\ todo # <<>> /\ Head(todo) \in Ops /\ Tail(todo) \in Seq(Ops)
  BY HeadTailProperties
     DEF TypeOK, MainTypeOK, MainStep, StepRead, StepSet, StepClear, StepMask,
         StepAuxCheck, StepAuxDisable, AuxFsmNone, AuxFsmDisabled,
         AuxFsmLockPll, AuxFsmAlignPhase, AuxFsmReady, AuxFsmIn,
         StepStartChannel, StepMpllReset, StepLdReset, StepAuxLockPll, Doing
<1>2. CASE StepRead
  <2>1. Head(todo) \in RegOps
    BY <1>1, <1>2, OpChannel DEF StepRead, Doing
  <2>2. MainTypeOK'
    BY <1>1, <1>2, <2>1
       DEF StepRead, Chan, UnlessMain, TypeOK, MainTypeOK, RegTypeOK
  <2>3. QED
    BY <1>2, <2>2 DEF StepRead, UnlessMain, TypeOK, SeqTypeOK, LoopTypeOK,
       ExtTypeOK, RegTypeOK, IrqTypeOK, RestTypeOK, seqVars, loopVars, extVars,
       regVars, irqVars
<1>3. CASE StepSet \/ StepClear
  <2>1. PICK value : WriteBack(value) /\ value \in {reg \cup {Chan}, reg \ {Chan}}
    BY <1>3 DEF StepSet, StepClear
  <2>2. Head(todo) \in RegOps /\ Chan \in RefChans \cup OutChans
    BY <2>1, RegChannel DEF WriteBack, TypeOK, MainTypeOK, Chan
  <2>3. IF Chan \in RefChans THEN value \subseteq RefChans ELSE value \subseteq OutChans
    BY <2>1, <2>2 DEF WriteBack, TypeOK, MainTypeOK, Chan
  <2>4. RegTypeOK'
    BY <2>1, <2>3 DEF WriteBack, TypeOK, RegTypeOK
  <2>5. MainTypeOK'
    BY <1>1, <2>1 DEF WriteBack, Continue, TypeOK, MainTypeOK
  <2>6. QED
    BY <2>1, <2>4, <2>5 DEF WriteBack, TypeOK, SeqTypeOK, LoopTypeOK,
       ExtTypeOK, IrqTypeOK, RestTypeOK, seqVars, loopVars, extVars, irqVars
<1>4. CASE ~(StepRead \/ StepSet \/ StepClear)
  <2>1. Head(todo).op \notin {"set", "clear"}
    BY <1>4
     DEF MainStep, StepRead, StepSet, StepClear, StepMask,
         StepAuxCheck, StepAuxDisable, AuxFsmNone, AuxFsmDisabled,
         AuxFsmLockPll, AuxFsmAlignPhase, AuxFsmReady, AuxFsmIn,
         StepStartChannel, StepMpllReset, StepLdReset, StepAuxLockPll, Doing
  <2>2. /\ loaded = FALSE /\ reg = {}
        /\ Head(todo).op = "mask" => Chan \in RefChans
        /\ Head(todo).op # "mask" => Chan \in AuxChans
    BY <1>1, <2>1, NotLoaded, OpChannel DEF Chan
  <2>3. loaded' = FALSE /\ reg' = {}
    BY <1>4, <2>2
     DEF MainStep, StepMask,
         StepAuxCheck, StepAuxDisable, AuxFsmNone, AuxFsmDisabled,
         AuxFsmLockPll, AuxFsmAlignPhase, AuxFsmReady,
         StepStartChannel, StepMpllReset, StepLdReset, StepAuxLockPll
  <2> USE DEF UnlessMain, TypeOK, SeqTypeOK, LoopTypeOK, ExtTypeOK,
              RegTypeOK, IrqTypeOK, MainTypeOK, RestTypeOK, seqVars, loopVars,
              extVars, regVars, irqVars, Continue
  <2>4. CASE StepMask
    BY <1>1, <2>2, <2>3, <2>4 DEF StepMask, Doing
  <2>5. CASE StepAuxCheck
    <3>1. Chan \in AuxChans
      BY <2>2, <2>5 DEF StepAuxCheck, Doing
    <3>2. todo' \in Seq(Ops)
      BY <1>1, <2>5, <3>1, PieceTypes, ConcatProperties DEF StepAuxCheck
    <3>3. QED
      BY <2>3, <2>5, <3>2 DEF StepAuxCheck
  <2>6. CASE StepAuxDisable
    BY <1>1, <2>2, <2>3, <2>6 DEF StepAuxDisable, Doing, AuxStates
  <2>7. CASE AuxFsmNone
    BY <1>1, <2>3, <2>7 DEF AuxFsmNone
  <2>8. CASE AuxFsmDisabled
    <3>1. Chan \in AuxChans
      BY <2>2, <2>8 DEF AuxFsmDisabled, AuxFsmIn, Doing
    <3>2. <<Op("start_channel", Chan), Op("aux_lock_pll", Chan)>> \in Seq(Ops)
      BY <3>1, PieceTypes
    <3>3. todo' \in Seq(Ops)
      BY <1>1, <2>8, <3>2, PieceTypes, ConcatProperties DEF AuxFsmDisabled
    <3>4. QED
      BY <2>3, <2>8, <3>3 DEF AuxFsmDisabled
  <2>9. CASE AuxFsmLockPll
    <3>1. Chan \in AuxChans
      BY <2>2, <2>9 DEF AuxFsmLockPll, AuxFsmIn, Doing
    <3>2. Units(mpll_shift_ps) \in Nat
      BY DEF Units
    <3>3. aux' \in [AuxChans -> MainPlls]
      <4>1. [aux[Chan] EXCEPT !.target = Units(mpll_shift_ps)] \in MainPlls
        BY <3>1, <3>2 DEF MainPlls
      <4>2. aux' = aux \/ aux' = [aux EXCEPT ![Chan] =
                                    [aux[Chan] EXCEPT !.target = Units(mpll_shift_ps)]]
        BY <2>9 DEF AuxFsmLockPll
      <4>3. QED
        BY <3>1, <4>1, <4>2
    <3>4. QED
      BY <1>1, <2>3, <2>9, <3>3 DEF AuxFsmLockPll, AuxStates
  <2>10. CASE AuxFsmAlignPhase
    BY <1>1, <2>2, <2>3, <2>10 DEF AuxFsmAlignPhase, AuxFsmIn, Doing, AuxStates
  <2>11. CASE AuxFsmReady
    BY <1>1, <2>2, <2>3, <2>11 DEF AuxFsmReady, AuxStates
  <2>12. CASE StepStartChannel
    <3>1. Chan \in AuxChans /\ aux[Chan].id_ref \in RefChans
      BY <2>2, <2>12 DEF StepStartChannel, Doing, MainPlls
    <3>2. <<Op("mpll_reset", Chan), Op("ld_reset", Chan)>> \in Seq(Ops)
      BY <3>1, PieceTypes
    <3>3. /\ EnableTagger(aux[Chan].id_ref) \in Seq(Ops)
          /\ EnableTagger(AuxOut(Chan)) \in Seq(Ops)
      BY <3>1, PieceTypes
    <3>4. todo' \in Seq(Ops)
      BY <1>1, <2>12, <3>2, <3>3, PieceTypes, ConcatProperties DEF StepStartChannel
    <3>5. QED
      BY <2>3, <2>12, <3>4 DEF StepStartChannel
  <2>13. CASE StepMpllReset
    <3>1. Chan \in AuxChans
      BY <2>2, <2>13 DEF StepMpllReset, Doing
    <3>2. [aux[Chan].ld EXCEPT !.locked = 0] \in LdStates(MainLock)
      BY <3>1 DEF MainPlls, LdStates
    <3>3. MpllStarted(aux[Chan], [aux[Chan].ld EXCEPT !.locked = 0]) \in MainPlls
      BY <3>1, <3>2, MpllStartedType
    <3>4. QED
      BY <1>1, <2>3, <2>13, <3>1, <3>3 DEF StepMpllReset
  <2>14. CASE StepLdReset
    <3>1. Chan \in AuxChans
      BY <2>2, <2>14 DEF StepLdReset, Doing
    <3>2. aux' \in [AuxChans -> MainPlls]
      <4> DEFINE l == [aux[Chan].ld EXCEPT !.cnt = 0, !.changed = 0]
      <4>1. l \in LdStates(MainLock)
        <5>1. aux[Chan].ld \in LdStates(MainLock)
          BY <3>1 DEF MainPlls
        <5>2. 0 \in 0 .. MainLock
          OBVIOUS
        <5>3. QED
          BY ONLY <5>1, <5>2 DEF LdStates
      <4>2. [aux[Chan] EXCEPT !.ld = l] \in MainPlls
        BY <3>1, <4>1 DEF MainPlls
      <4>3. aux' = [aux EXCEPT ![Chan] = [aux[Chan] EXCEPT !.ld = l]]
        BY <2>14 DEF StepLdReset
      <4>4. QED
        BY <3>1, <4>2, <4>3
    <3>3. QED
      BY <1>1, <2>3, <2>14, <3>2 DEF StepLdReset
  <2>15. CASE StepAuxLockPll
    BY <1>1, <2>2, <2>3, <2>15 DEF StepAuxLockPll, AuxStates
  <2>16. QED
    BY <1>4, <2>4, <2>5, <2>6, <2>7, <2>8, <2>9, <2>10, <2>11, <2>12, <2>13,
       <2>14, <2>15 DEF MainStep
<1>5. QED
  BY <1>2, <1>3, <1>4

(* spll_init keeps the types, in every mode.                               *)
LEMMA InitCallTypes ==
    ASSUME TypeOK, NEW m \in Modes, NEW r \in Refs, NEW a \in BOOLEAN,
           SpllInit(m, r, a)
    PROVE  TypeOK'
<1> USE SoftPllAssumption
<1>1. /\ UNCHANGED <<dac_timer, irq_pc, tag, mainVars, mpll_shift_ps, pt_mask,
                     out_en, quiet>>
      /\ mode' = m /\ delock_count' = 0 /\ out_lock' = {} /\ rcer' = {}
      /\ r \in RefChans
  BY DEF SpllInit
<1>2. MainTypeOK'
  BY <1>1 DEF TypeOK, MainTypeOK, mainVars
<1>3. RegTypeOK'
  <2>1. Main \in OutChans
    BY DEF Main, OutChans
  <2>2. QED
    BY <1>1, <2>1 DEF SpllInit, TypeOK, RegTypeOK
<1>4. IrqTypeOK'
  <2>1. irq' \in BOOLEAN /\ (fifo' = fifo \/ fifo' = <<>>)
    BY DEF SpllInit
  <2>2. <<>> \in Seq(Channels)
    BY EmptySeq
  <2>3. QED
    BY <1>1, <2>1, <2>2 DEF TypeOK, IrqTypeOK
<1>5. SeqTypeOK'
  <2>1. seq_state' = seq_state \/ seq_state' = "DISABLED" \/ seq_state' = "CLEAR_DACS"
    BY DEF SpllInit
  <2>2. m \in {"NONE", GM, FREE, SLAVE, OFF}
    OBVIOUS
  <2>3. QED
    BY <1>1, <2>1, <2>2 DEF TypeOK, SeqTypeOK, SeqStates
<1>6. RestTypeOK' /\ ExtTypeOK'
  BY <1>1 DEF SpllInit, TypeOK, RestTypeOK, ExtTypeOK, AuxStates, FirstStage,
              RealignStates, extVars
<1>7. LoopTypeOK'
  <2>1. CASE UNCHANGED loopVars
    BY <2>1 DEF TypeOK, LoopTypeOK, loopVars
  <2>2. CASE /\ helper' = [helper EXCEPT
                             !.ref_src = IF m = SLAVE THEN r ELSE Main]
             /\ mpll' = [mpll EXCEPT !.id_ref = r, !.ld = LdInit]
             /\ aux' = [ch \in AuxChans |->
                         [aux[ch] EXCEPT !.id_ref = r, !.ld = LdInit]]
             /\ ext_ld' \in {ext_ld, LdInit}
    <3>1. \A p \in MainPlls : [p EXCEPT !.id_ref = r, !.ld = LdInit] \in MainPlls
      BY <1>1, LdInits DEF MainPlls
    <3>2. mpll' \in MainPlls /\ aux' \in [AuxChans -> MainPlls]
      BY <2>2, <3>1 DEF TypeOK, LoopTypeOK
    <3>3. helper' \in HelperPlls
      BY <1>1, <2>2 DEF TypeOK, LoopTypeOK, HelperPlls
    <3>4. QED
      BY <2>2, <3>2, <3>3, LdInits DEF TypeOK, LoopTypeOK
  <2>3. QED
    BY <2>1, <2>2 DEF SpllInit
<1>8. QED
  BY <1>2, <1>3, <1>4, <1>5, <1>6, <1>7 DEF TypeOK

(* spll_set_phase_shift keeps the types.                                   *)
LEMMA ShiftCallTypes ==
    ASSUME TypeOK, NEW ps \in ShiftsPs, NEW ch \in {0} \cup AuxChans,
           SetPhaseShift(ch, ps) \/ SetPhaseShiftAll(ps)
    PROVE  TypeOK'
<1> USE SoftPllAssumption
<1>1. UNCHANGED <<seqVars, helper, ext_ld, extVars, regVars, irqVars,
                   mainVars, aux_seq, pt_mask, out_en, quiet>>
      /\ mpll_shift_ps' = ps
  BY DEF SetPhaseShift, SetPhaseShiftAll
<1>2. Units(ps) \in Nat
  BY DEF Units
<1>3. \A p \in MainPlls : [p EXCEPT !.target = Units(ps)] \in MainPlls
  BY <1>2 DEF MainPlls
<1>4. mpll' \in {mpll, [mpll EXCEPT !.target = Units(ps)]}
  BY DEF SetPhaseShift, SetPhaseShiftAll
<1>5. aux' \in [AuxChans -> MainPlls]
  <2>1. CASE SetPhaseShift(ch, ps)
    <3>1. CASE ch = 0
      BY <2>1, <3>1 DEF SetPhaseShift, TypeOK, LoopTypeOK
    <3>2. CASE ch # 0
      <4>1. aux' = [aux EXCEPT ![ch] = [aux[ch] EXCEPT !.target = Units(ps)]]
        BY <2>1, <3>2 DEF SetPhaseShift
      <4>2. QED
        BY <1>3, <3>2, <4>1 DEF TypeOK, LoopTypeOK
    <3>3. QED
      BY <3>1, <3>2
  <2>2. CASE SetPhaseShiftAll(ps)
    BY <1>3, <2>2 DEF SetPhaseShiftAll, TypeOK, LoopTypeOK
  <2>3. QED
    BY <2>1, <2>2
<1>6. LoopTypeOK'
  BY <1>1, <1>3, <1>4, <1>5 DEF TypeOK, LoopTypeOK
<1>7. QED
  BY <1>1, <1>6 DEF TypeOK, SeqTypeOK, ExtTypeOK, RegTypeOK, IrqTypeOK,
     MainTypeOK, RestTypeOK, seqVars, extVars, regVars, irqVars, mainVars

(* The calls that are executed step by step keep the types.                *)
LEMMA StepwiseCallTypes ==
    ASSUME TypeOK,
           \/ \E r \in Refs : CallEnablePtracker(r) \/ CallDisablePtracker(r)
           \/ \E ch \in AuxChans : CallStartChannel(ch) \/ CallStopChannel(ch)
           \/ CallUpdateAux
    PROVE  TypeOK'
<1> USE SoftPllAssumption
<1>1. todo = <<>>
  BY DEF CallEnablePtracker, CallDisablePtracker, CallStartChannel,
         CallStopChannel, CallUpdateAux, Idle
<1>2. /\ loaded = FALSE /\ reg = {}
      /\ loaded' = loaded /\ reg' = reg
  BY <1>1, NotLoaded
     DEF CallEnablePtracker, CallDisablePtracker, CallStartChannel,
         CallStopChannel, CallUpdateAux
<1>3. /\ UNCHANGED <<seqVars, loopVars, extVars, regVars, irqVars, aux_seq,
                     mpll_shift_ps, out_en, quiet>>
      /\ pt_mask' \subseteq pt_mask
  BY DEF CallEnablePtracker, CallDisablePtracker, CallStartChannel,
         CallStopChannel, CallUpdateAux, UnlessMain
<1>4. todo' \in Seq(Ops)
  <2>1. ASSUME NEW r \in Refs, CallEnablePtracker(r)
        PROVE  todo' \in Seq(Ops)
    <3>1. /\ EnableTagger(r) \in Seq(Ops) /\ EnableTagger(Main) \in Seq(Ops)
          /\ <<Op("mask", r)>> \in Seq(Ops)
      BY PieceTypes
    <3>2. QED
      BY <2>1, <3>1, ConcatProperties DEF CallEnablePtracker
  <2>2. ASSUME NEW r \in Refs, CallDisablePtracker(r)
        PROVE  todo' \in Seq(Ops)
    BY <2>2, PieceTypes DEF CallDisablePtracker
  <2>3. ASSUME NEW ch \in AuxChans, CallStartChannel(ch) \/ CallStopChannel(ch)
        PROVE  todo' \in Seq(Ops)
    BY <2>3, PieceTypes DEF CallStartChannel, CallStopChannel
  <2>4. CASE CallUpdateAux
    <3>1. todo' \in [1 .. NOut - 1 -> Ops] /\ NOut - 1 \in Nat
      BY <2>4, PieceTypes DEF CallUpdateAux, AuxChans
    <3>2. QED
      BY <3>1, SeqDef
  <2>5. QED
    BY <2>1, <2>2, <2>3, <2>4
<1>5. MainTypeOK'
  BY <1>2, <1>4 DEF MainTypeOK
<1>6. QED
  BY <1>3, <1>5 DEF TypeOK, SeqTypeOK, LoopTypeOK, ExtTypeOK, RegTypeOK,
     IrqTypeOK, RestTypeOK, seqVars, loopVars, extVars, regVars, irqVars

(* The static variables, zero before the first spll_init, have the types.  *)
LEMMA InitTypes == Init => TypeOK
<1> USE SoftPllAssumption
<1> SUFFICES ASSUME Init PROVE TypeOK
  OBVIOUS
<1>1. MainZero \in MainPlls
  BY LdInits DEF MainZero, MainPlls, RefChans
<1>2. LoopTypeOK
  BY <1>1, LdInits DEF Init, LoopTypeOK, HelperPlls, RefChans
<1>3. SeqTypeOK /\ ExtTypeOK /\ RegTypeOK
  BY DEF Init, SeqTypeOK, ExtTypeOK, RegTypeOK, SeqStates, Timers, RealignStates
<1>4. IrqTypeOK
  <2>1. <<>> \in Seq(Channels)
    BY EmptySeq
  <2>2. 0 \in Channels
    BY DEF Channels
  <2>3. QED
    BY <2>1, <2>2 DEF Init, IrqTypeOK
<1>5. MainTypeOK
  <2>1. <<>> \in Seq(Ops)
    BY EmptySeq
  <2>2. QED
    BY <2>1 DEF Init, MainTypeOK
<1>6. RestTypeOK
  BY DEF Init, RestTypeOK, AuxStates
<1>7. QED
  BY <1>2, <1>3, <1>4, <1>5, <1>6 DEF TypeOK

(* Every step keeps the types.                                             *)
LEMMA NextTypes == TypeOK /\ [Next]_vars => TypeOK'
<1> SUFFICES ASSUME TypeOK, [Next]_vars PROVE TypeOK'
  OBVIOUS
<1>1. CASE MainCall
  BY <1>1, InitCallTypes, ShiftCallTypes, StepwiseCallTypes DEF MainCall
<1>2. CASE MainStep \/ CallUpdateAux
  BY <1>2, StepTypes, StepwiseCallTypes
<1>3. CASE Handler
  BY <1>3, SeqTypes, LoopsTypes, EnvTypes DEF Handler
<1>4. CASE \/ \E c \in Channels : TagArrives(c)
           \/ DacTimeout \/ RealignTimeout
           \/ \E ch \in AuxChans : RequestAux(ch)
           \/ Settle
  BY <1>4, EnvTypes
<1>5. CASE UNCHANGED vars
  BY <1>5 DEF vars, TypeOK, SeqTypeOK, LoopTypeOK, ExtTypeOK, RegTypeOK,
     IrqTypeOK, MainTypeOK, RestTypeOK, seqVars, loopVars, extVars, regVars,
     irqVars, mainVars
<1>6. QED
  BY <1>1, <1>2, <1>3, <1>4, <1>5 DEF Next

(* The SoftPLL's state stays well-formed: detectors within their marks, a  *)
(* half-done register update always belonging to the access being made.    *)
THEOREM SpllTypes == Spec => []TypeOK
<1>1. QED
  BY InitTypes, NextTypes, PTL DEF Spec
-----------------------------------------------------------------------------
(***************************************************************************)
(* Three kinds of step change what the remaining invariants speak of: the  *)
(* sequencer, update_loops and spll_init.  The others are collected here.  *)
(***************************************************************************)
Stepwise ==
    \/ \E r \in Refs : CallEnablePtracker(r) \/ CallDisablePtracker(r)
    \/ \E ch \in AuxChans : CallStartChannel(ch) \/ CallStopChannel(ch)
    \/ CallUpdateAux

Shifts == \E ps \in ShiftsPs, ch \in {0} \cup AuxChans :
              SetPhaseShift(ch, ps) \/ SetPhaseShiftAll(ps)

Environment ==
    \/ \E c \in Channels : TagArrives(c)
    \/ DacTimeout \/ RealignTimeout
    \/ \E ch \in AuxChans : RequestAux(ch)
    \/ Settle \/ IrqEnter

Others == Stepwise \/ Shifts \/ Environment \/ MainStep \/ UNCHANGED vars

(* Every step is one of the handler's two functions, an spll_init or one   *)
(* of the others.                                                          *)
LEMMA NextCases ==
    ASSUME [Next]_vars
    PROVE  \/ Sequencer \/ UpdateLoops \/ Others
           \/ \E m \in Modes, r \in Refs, a \in BOOLEAN : SpllInit(m, r, a)
BY DEF Next, Handler, MainCall, Others, Stepwise, Shifts, Environment

(* The others leave the sequencer, the detectors of the helper, main and   *)
(* external loops and the PPS generator alone; the handler starts only     *)
(* when its interrupt is on.                                               *)
LEMMA OthersFrame ==
    ASSUME TypeOK, Others
    PROVE  /\ UNCHANGED <<mode, seq_state, delock_count, helper, ext_ld, align,
                          realign, eccr, escr, irq>>
           /\ mpll'.ld = mpll.ld
           /\ irq_pc' = irq_pc \/ irq
<1> USE DEF seqVars, loopVars, extVars, regVars, irqVars, mainVars
<1>1. CASE Stepwise
  BY <1>1 DEF Stepwise, CallEnablePtracker, CallDisablePtracker,
     CallStartChannel, CallStopChannel, CallUpdateAux, UnlessMain
<1>2. CASE Shifts
  <2>1. PICK ps \in ShiftsPs, ch \in {0} \cup AuxChans :
            SetPhaseShift(ch, ps) \/ SetPhaseShiftAll(ps)
    BY <1>2 DEF Shifts
  <2>2. mpll' \in {mpll, [mpll EXCEPT !.target = Units(ps)]}
    BY <2>1 DEF SetPhaseShift, SetPhaseShiftAll
  <2>3. mpll'.ld = mpll.ld
    BY <2>2 DEF TypeOK, LoopTypeOK, MainPlls
  <2>4. QED
    BY <2>1, <2>3 DEF SetPhaseShift, SetPhaseShiftAll
<1>3. CASE Environment
  BY <1>3 DEF Environment, TagArrives, DacTimeout, RealignTimeout, RequestAux,
     Settle, IrqEnter
<1>4. CASE MainStep
  BY <1>4 DEF MainStep, StepRead, StepSet, StepClear, WriteBack, StepMask,
     StepAuxCheck, StepAuxDisable, AuxFsmNone, AuxFsmDisabled, AuxFsmLockPll,
     AuxFsmAlignPhase, AuxFsmReady, StepStartChannel, StepMpllReset,
     StepLdReset, StepAuxLockPll, UnlessMain
<1>5. CASE UNCHANGED vars
  BY <1>5 DEF vars
<1>6. QED
  BY <1>1, <1>2, <1>3, <1>4, <1>5 DEF Others

-----------------------------------------------------------------------------
(***************************************************************************)
(* NeverStarved is not inductive: a value of OCER that the main program    *)
(* read before an interrupt is written after it.  RmwFed says that such a  *)
(* value cannot silence the interrupt.                                     *)
(***************************************************************************)
RmwFed == loaded /\ irq /\ Head(todo).c \notin RefChans
            => Main \in reg \/ "EXT_EN" \in eccr

Fed == NeverStarved /\ RmwFed

(* No step takes away the last source of tags, nor lets a pending write-   *)
(* back of OCER or RCER do so.                                             *)
LEMMA FedInductive == TypeOK /\ Fed /\ [Next]_vars => Fed'
<1> SUFFICES ASSUME TypeOK, Fed, [Next]_vars PROVE Fed'
  OBVIOUS
<1>1. CASE Sequencer
  <2>1. /\ irq' = irq /\ todo' = todo /\ loaded' = loaded /\ reg' = reg
        /\ \/ ocer \subseteq ocer' /\ eccr' = eccr
           \/ "EXT_EN" \in eccr'
    BY <1>1 DEF Sequencer, SeqStep, SeqClearDacs, SeqWaitClearDacs, SeqDisabled,
         SeqStartExt, SeqWaitExt, SeqStartHelper, SeqWaitHelper,
         SeqStartMain, SeqWaitMain, SeqReady, EnableTaggers, mainVars
  <2>2. QED
    BY <2>1 DEF Fed, NeverStarved, RmwFed
<1>2. CASE UpdateLoops
  <2>1. /\ irq' = irq /\ todo' = todo /\ loaded' = loaded /\ reg' = reg
        /\ ocer' = ocer /\ ExternalUpdate
    BY <1>2 DEF UpdateLoops, mainVars
  <2>2. "EXT_EN" \in eccr => "EXT_EN" \in eccr'
    BY <2>1 DEF ExternalUpdate, RealignFsm, RealignStage1, RealignStage1Wait,
       RealignStage2, RealignStage2Wait, RealignIdle
  <2>3. QED
    BY <2>1, <2>2 DEF Fed, NeverStarved, RmwFed
<1>3. ASSUME NEW m \in Modes, NEW r \in Refs, NEW a \in BOOLEAN, SpllInit(m, r, a)
      PROVE  Fed'
  <2>1. todo = <<>> /\ loaded' = loaded
    BY <1>3 DEF SpllInit, Idle, mainVars
  <2>2. loaded' = FALSE
    BY <2>1, NotLoaded
  <2>3. irq' = FALSE \/ ocer' = {Main}
    BY <1>3 DEF SpllInit
  <2>4. QED
    BY <2>2, <2>3 DEF Fed, NeverStarved, RmwFed
<1>4. CASE StepRead
  <2>1. /\ irq' = irq /\ ocer' = ocer /\ eccr' = eccr /\ todo' = todo
        /\ Head(todo).c \notin RefChans => reg' = ocer
    BY <1>4 DEF StepRead, Chan, UnlessMain, regVars, irqVars
  <2>2. QED
    BY <2>1 DEF Fed, NeverStarved, RmwFed
<1>5. CASE StepSet \/ StepClear
  <2>1. /\ irq' = irq /\ eccr' = eccr /\ loaded = TRUE /\ loaded' = FALSE
        /\ IF Chan \in RefChans
           THEN ocer' = ocer
           ELSE \/ Head(todo).op = "set" /\ ocer' = reg \cup {Chan}
                \/ Head(todo).op = "clear" /\ ocer' = reg \ {Chan}
    BY <1>5 DEF StepSet, StepClear, WriteBack, Doing, TypeOK, MainTypeOK, irqVars
  <2>2. Head(todo).op = "clear" => Chan # Main
    BY <2>1, RegChannel DEF TypeOK, MainTypeOK, Chan
  <2>3. QED
    BY <2>1, <2>2 DEF Fed, NeverStarved, RmwFed, Chan
<1>6. CASE Others /\ ~StepRead /\ ~StepSet /\ ~StepClear
  <2>1. irq' = irq /\ eccr' = eccr
    BY <1>6, OthersFrame
  <2>2. ocer' = ocer
    BY <1>6 DEF Others, Stepwise, Shifts, Environment, MainStep, vars,
       CallEnablePtracker, CallDisablePtracker, CallStartChannel,
       CallStopChannel, CallUpdateAux, SetPhaseShift, SetPhaseShiftAll,
       TagArrives, DacTimeout, RealignTimeout, RequestAux, Settle, IrqEnter,
       StepMask, StepAuxCheck, StepAuxDisable, AuxFsmNone, AuxFsmDisabled,
       AuxFsmLockPll, AuxFsmAlignPhase, AuxFsmReady, StepStartChannel,
       StepMpllReset, StepLdReset, StepAuxLockPll, UnlessMain, regVars
  <2>3. UNCHANGED mainVars \/ loaded' = FALSE
    <3>1. CASE Shifts \/ Environment \/ UNCHANGED vars
      BY <3>1 DEF Shifts, Environment, vars, SetPhaseShift, SetPhaseShiftAll,
         TagArrives, DacTimeout, RealignTimeout, RequestAux, Settle, IrqEnter
    <3>2. CASE Stepwise
      <4>1. todo = <<>> /\ loaded' = loaded
        BY <3>2 DEF Stepwise, CallEnablePtracker, CallDisablePtracker,
           CallStartChannel, CallStopChannel, CallUpdateAux, Idle
      <4>2. QED
        BY <4>1, NotLoaded
    <3>3. CASE MainStep
      <4>1. Head(todo).op \notin {"set", "clear"} /\ loaded' = loaded
        BY <1>6, <3>3
           DEF MainStep, StepMask, StepAuxCheck, StepAuxDisable, AuxFsmNone,
               AuxFsmDisabled, AuxFsmLockPll, AuxFsmAlignPhase, AuxFsmReady,
               AuxFsmIn, StepStartChannel, StepMpllReset, StepLdReset,
               StepAuxLockPll, Doing
      <4>2. QED
        BY <4>1, NotLoaded
    <3>4. QED
      BY <1>6, <3>1, <3>2, <3>3 DEF Others
  <2>4. QED
    BY <2>1, <2>2, <2>3 DEF Fed, NeverStarved, RmwFed, mainVars
<1>7. QED
  BY <1>1, <1>2, <1>3, <1>4, <1>5, <1>6, NextCases

(* While the interrupt is on something produces tags, so the handler that  *)
(* enables the next tagger runs again - however the |= and &= of           *)
(* spll_enable_tagger in the main program interleave with it.              *)
THEOREM SpllNeverStarved == Spec => []NeverStarved
<1>1. Init => Fed
  BY DEF Init, Fed, NeverStarved, RmwFed
<1>2. QED
  BY <1>1, SpllTypes, FedInductive, PTL DEF Spec, Fed
-----------------------------------------------------------------------------
(* mpll_update touches the detector only through ld_update.                *)
LEMMA MpllUpdateLd ==
    ASSUME NEW p \in MainPlls, NEW out, NEW ok \in BOOLEAN
    PROVE  MpllUpdate(p, out, ok).ld
             \in {p.ld, LdUpdate(p.ld, ok, MainLock, MainDelock)}
<1> DEFINE q == [p EXCEPT !.ref = IF tag = p.id_ref THEN 1 ELSE @,
                          !.out = IF tag = out THEN 1 ELSE @]
           l == LdUpdate(q.ld, ok, MainLock, MainDelock)
           c == IF p.ld.locked = 1 THEN Shifted(p) ELSE q.current
<1>1. q \in MainPlls /\ q.ld = p.ld
  BY DEF MainPlls
<1>2. [q EXCEPT !.ref = 0, !.out = 0, !.current = c, !.ld = l].ld = l
  BY <1>1 DEF MainPlls
<1>3. \/ MpllUpdate(p, out, ok) = q
      \/ MpllUpdate(p, out, ok)
           = [q EXCEPT !.ref = 0, !.out = 0, !.current = c, !.ld = l]
  BY DEF MpllUpdate
<1>4. QED
  BY <1>1, <1>2, <1>3

(* The detectors change only by ld_init and ld_update, which keep them     *)
(* coherent.                                                               *)
LEMMA CoherentInductive == TypeOK /\ LocksCoherent /\ [Next]_vars => LocksCoherent'
<1> USE SoftPllAssumption
<1> SUFFICES ASSUME TypeOK, LocksCoherent, [Next]_vars PROVE LocksCoherent'
  OBVIOUS
<1>1. /\ helper.ld \in LdStates(HelperLock) /\ mpll.ld \in LdStates(MainLock)
      /\ ext_ld \in LdStates(ExtLock)
  BY DEF TypeOK, LoopTypeOK, HelperPlls, MainPlls
<1>2. CASE Sequencer
  <2>1. helper' = helper \/ helper' = [helper EXCEPT !.primed = 0, !.ld = LdInit]
    BY <1>2 DEF Sequencer, SeqClearDacs, SeqWaitClearDacs, SeqDisabled,
         SeqStartExt, SeqWaitExt, SeqStartHelper, SeqWaitHelper,
         SeqStartMain, SeqWaitMain, SeqReady
  <2>2. mpll' = mpll \/ mpll' = MpllStarted(mpll, LdInit)
    BY <1>2 DEF Sequencer, SeqClearDacs, SeqWaitClearDacs, SeqDisabled,
         SeqStartExt, SeqWaitExt, SeqStartHelper, SeqWaitHelper,
         SeqStartMain, SeqWaitMain, SeqReady
  <2>3. ext_ld' = ext_ld
    BY <1>2 DEF Sequencer, SeqStep, SeqClearDacs, SeqWaitClearDacs, SeqDisabled,
         SeqStartExt, SeqWaitExt, SeqStartHelper, SeqWaitHelper,
         SeqStartMain, SeqWaitMain, SeqReady
  <2>4. helper'.ld \in {helper.ld, LdInit}
    BY <2>1 DEF TypeOK, LoopTypeOK, HelperPlls
  <2>5. mpll'.ld \in {mpll.ld, LdInit}
    BY <2>2 DEF MpllStarted
  <2>6. QED
    BY <2>3, <2>4, <2>5, LdInits DEF LocksCoherent
<1>3. CASE UpdateLoops
  <2>1. LdCoherent(helper'.ld, HelperLock, HelperDelock)
    <3>1. HelperUpdate
      BY <1>3 DEF UpdateLoops
    <3>2. CASE helper' = helper
      BY <3>2 DEF LocksCoherent
    <3>3. CASE helper' = [helper EXCEPT !.primed = 1]
      <4>1. helper'.ld = helper.ld
        BY <3>3 DEF TypeOK, LoopTypeOK, HelperPlls
      <4>2. QED
        BY <4>1 DEF LocksCoherent
    <3>4. ASSUME NEW ok \in Outcomes,
                 helper' = [helper EXCEPT
                    !.ld = LdUpdate(@, ok, HelperLock, HelperDelock)]
          PROVE  LdCoherent(helper'.ld, HelperLock, HelperDelock)
      <4>1. helper'.ld = LdUpdate(helper.ld, ok, HelperLock, HelperDelock)
        BY <3>4 DEF TypeOK, LoopTypeOK, HelperPlls
      <4>2. QED
        BY <1>1, <4>1, LdUpdatePreserves, OutcomesType DEF LocksCoherent
    <3>5. QED
      BY <3>1, <3>2, <3>3, <3>4 DEF HelperUpdate
  <2>2. LdCoherent(mpll'.ld, MainLock, MainDelock)
    <3>1. mpll' = mpll \/ \E ok \in Outcomes : mpll' = MpllUpdate(mpll, Main, ok)
      BY <1>3 DEF UpdateLoops
    <3>2. mpll'.ld = mpll.ld \/ \E ok \in BOOLEAN :
              mpll'.ld = LdUpdate(mpll.ld, ok, MainLock, MainDelock)
      BY <3>1, MpllUpdateLd, OutcomesType DEF TypeOK, LoopTypeOK
    <3>3. QED
      BY <1>1, <3>2, LdUpdatePreserves DEF LocksCoherent
  <2>3. LdCoherent(ext_ld', ExtLock, ExtDelock)
    <3>1. \/ ext_ld' = ext_ld
          \/ \E ok \in Outcomes, present \in Outcomes :
              ext_ld' = LdUpdate(IF present THEN ext_ld ELSE LdInit, ok,
                                 ExtLock, ExtDelock)
      BY <1>3 DEF UpdateLoops, ExternalUpdate
    <3>2. CASE ext_ld' = ext_ld
      BY <3>2 DEF LocksCoherent
    <3>3. ASSUME NEW ok \in Outcomes, NEW present \in Outcomes,
              ext_ld' = LdUpdate(IF present THEN ext_ld ELSE LdInit, ok,
                                 ExtLock, ExtDelock)
          PROVE  LdCoherent(ext_ld', ExtLock, ExtDelock)
      <4> DEFINE l == IF present THEN ext_ld ELSE LdInit
      <4>1. ok \in BOOLEAN
        BY OutcomesType
      <4>2. l \in LdStates(ExtLock) /\ LdCoherent(l, ExtLock, ExtDelock)
        BY <1>1, LdInits DEF LocksCoherent
      <4>3. ext_ld' = LdUpdate(l, ok, ExtLock, ExtDelock)
        BY <3>3
      <4> HIDE DEF l
      <4>4. QED
        BY <4>1, <4>2, <4>3, LdUpdatePreserves
    <3>4. QED
      BY <3>1, <3>2, <3>3
  <2>4. QED
    BY <2>1, <2>2, <2>3 DEF LocksCoherent
<1>4. ASSUME NEW m \in Modes, NEW r \in Refs, NEW a \in BOOLEAN, SpllInit(m, r, a)
      PROVE  LocksCoherent'
  <2>1. \/ UNCHANGED loopVars
        \/ /\ helper' = [helper EXCEPT
                             !.ref_src = IF m = SLAVE THEN r ELSE Main]
           /\ mpll' = [mpll EXCEPT !.id_ref = r, !.ld = LdInit]
           /\ ext_ld' \in {ext_ld, LdInit}
    BY <1>4 DEF SpllInit
  <2>2. /\ helper'.ld = helper.ld
        /\ mpll'.ld \in {mpll.ld, LdInit}
        /\ ext_ld' \in {ext_ld, LdInit}
    BY <2>1 DEF TypeOK, LoopTypeOK, HelperPlls, MainPlls, loopVars
  <2>3. QED
    BY <2>2, LdInits DEF LocksCoherent
<1>5. CASE Others
  BY <1>5, OthersFrame DEF LocksCoherent
<1>6. QED
  BY <1>2, <1>3, <1>4, <1>5, NextCases

(* The detectors of the helper, main and external loops can always be      *)
(* unlocked by bad samples, and lock again: no order of starts, samples,   *)
(* restarts and mode changes leaves ld.locked stuck.                       *)
THEOREM SpllLocksCoherent == Spec => []LocksCoherent
<1>1. Init => LocksCoherent
  <2> SUFFICES ASSUME Init PROVE LocksCoherent
    OBVIOUS
  <2>1. helper.ld = LdInit /\ mpll.ld = LdInit /\ ext_ld = LdInit
    BY DEF Init, MainZero
  <2>2. QED
    BY <2>1, LdInits DEF LocksCoherent
<1>2. QED
  BY <1>1, SpllTypes, CoherentInductive, PTL DEF Spec
-----------------------------------------------------------------------------
(***************************************************************************)
(* GmReadyAligned needs to know that the handler only runs with the        *)
(* interrupt on, that an alignment once done stays valid while the mode    *)
(* lasts, and that START_MAIN and WAIT_MAIN are no way round SEQ_WAIT_EXT. *)
(***************************************************************************)
HandlerOn == irq_pc # "idle" => irq

AlignInv ==
    /\ irq /\ mode = GM /\ realign = "DONE" => escr = {"PPS_VALID", "TM_VALID"}
    /\ irq /\ mode = GM /\ align
         /\ seq_state \in {"START_HELPER", "WAIT_HELPER", "START_MAIN",
                           "WAIT_MAIN", "READY"}
       => realign = "DONE"

(* spll_init runs in the main program with the handler idle, so the        *)
(* handler never runs with its interrupt off.                              *)
LEMMA HandlerOnInductive == TypeOK /\ HandlerOn /\ [Next]_vars => HandlerOn'
<1> SUFFICES ASSUME TypeOK, HandlerOn, [Next]_vars PROVE HandlerOn'
  OBVIOUS
<1>1. CASE Sequencer
  BY <1>1 DEF HandlerOn, Sequencer, SeqStep, SeqClearDacs, SeqWaitClearDacs,
         SeqDisabled, SeqStartExt, SeqWaitExt, SeqStartHelper, SeqWaitHelper,
         SeqStartMain, SeqWaitMain, SeqReady
<1>2. CASE UpdateLoops
  BY <1>2 DEF HandlerOn, UpdateLoops
<1>3. CASE \E m \in Modes, r \in Refs, a \in BOOLEAN : SpllInit(m, r, a)
  BY <1>3 DEF HandlerOn, SpllInit, Idle, MainRuns
<1>4. CASE Others
  BY <1>4, OthersFrame DEF HandlerOn
<1>5. QED
  BY <1>1, <1>2, <1>3, <1>4, NextCases

(* A grandmaster's sequencer gets past external_locked only with the       *)
(* alignment done, and only external_start, which takes it back, begins a  *)
(* new one.                                                                *)
LEMMA AlignInductive == TypeOK /\ AlignInv /\ [Next]_vars => AlignInv'
<1> SUFFICES ASSUME TypeOK, AlignInv, [Next]_vars PROVE AlignInv'
  OBVIOUS
<1>1. CASE Sequencer
  <2>1. UNCHANGED <<irq, mode, align, escr>>
    BY <1>1 DEF Sequencer, SeqStep, SeqClearDacs, SeqWaitClearDacs,
         SeqDisabled, SeqStartExt, SeqWaitExt, SeqStartHelper, SeqWaitHelper,
         SeqStartMain, SeqWaitMain, SeqReady
  <2>2. \/ /\ realign' = realign
           /\ \/ seq_state' = seq_state
              \/ /\ seq_state' \in {"START_HELPER", "WAIT_HELPER",
                                    "START_MAIN", "WAIT_MAIN", "READY"}
                 /\ \/ seq_state \in {"START_HELPER", "WAIT_HELPER",
                                    "START_MAIN", "WAIT_MAIN"}
                    \/ mode # GM
                    \/ align => realign = "DONE"
              \/ seq_state' \in {"WAIT_CLEAR_DACS", "CLEAR_DACS", "START_EXT"}
        \/ realign' = FirstStage(align) /\ seq_state' = "WAIT_EXT"
    BY <1>1 DEF Sequencer, SeqStep, SeqClearDacs, SeqWaitClearDacs,
         SeqDisabled, SeqStartExt, SeqWaitExt, SeqStartHelper, SeqWaitHelper,
         SeqStartMain, SeqWaitMain, SeqReady, external_locked
  <2>3. QED
    BY <2>1, <2>2 DEF AlignInv, FirstStage
<1>2. CASE UpdateLoops
  <2>1. UNCHANGED <<irq, mode, align, seq_state>> /\ ExternalUpdate
    BY <1>2 DEF UpdateLoops, seqVars
  <2>2. /\ realign' = "DONE" => \/ realign = "DONE" /\ escr' = escr
                                \/ escr' = {"PPS_VALID", "TM_VALID"}
        /\ realign = "DONE" => realign' = "DONE"
    BY <2>1 DEF ExternalUpdate, RealignFsm, RealignStage1, RealignStage1Wait,
       RealignStage2, RealignStage2Wait, RealignIdle
  <2>3. QED
    BY <2>1, <2>2 DEF AlignInv
<1>3. ASSUME NEW m \in Modes, NEW r \in Refs, NEW a \in BOOLEAN, SpllInit(m, r, a)
      PROVE  AlignInv'
  <2>1. \/ irq' = FALSE
        \/ /\ seq_state' \in {"DISABLED", "CLEAR_DACS"}
           /\ mode' = GM => realign' = FirstStage(a)
    BY <1>3 DEF SpllInit
  <2>2. QED
    BY <2>1 DEF AlignInv, FirstStage
<1>4. CASE Others
  BY <1>4, OthersFrame DEF AlignInv
<1>5. QED
  BY <1>1, <1>2, <1>3, <1>4, NextCases

(* A grandmaster told to align its PPS is past SEQ_WAIT_EXT only with the  *)
(* alignment done and PPS and time marked valid in the PPS generator.      *)
THEOREM SpllGmReadyAligned == Spec => []GmReadyAligned
<1>1. Init => AlignInv
  BY DEF Init, AlignInv
<1>2. AlignInv => GmReadyAligned
  BY DEF AlignInv, GmReadyAligned
<1>3. QED
  BY <1>1, <1>2, SpllTypes, AlignInductive, PTL DEF Spec

-----------------------------------------------------------------------------
(* What the users see of the state (the substitution of Service).          *)
Seen == CASE ~irq \/ seq_state \in {"NONE", "DISABLED"} -> "off"
          [] irq /\ seq_state = "READY"                 -> "locked"
          [] OTHER                                      -> "acquiring"

(* Every step of the SoftPLL is a step of the service, or changes nothing  *)
(* its users see.                                                          *)
LEMMA StepRefines ==
    ASSUME TypeOK, HandlerOn, [Next]_vars
    PROVE  \/ Seen' \in {"off", "acquiring"} /\ delock_count' = 0
           \/ Seen = "acquiring" /\ Seen' = "locked" /\ delock_count' = delock_count
           \/ Seen = "locked" /\ Seen' = "acquiring"
                /\ delock_count' = delock_count + 1
           \/ Seen' = Seen /\ delock_count' = delock_count
<1>1. CASE Sequencer
  <2>1. irq /\ irq'
    BY <1>1 DEF HandlerOn, Sequencer, SeqStep, SeqClearDacs, SeqWaitClearDacs,
         SeqDisabled, SeqStartExt, SeqWaitExt, SeqStartHelper, SeqWaitHelper,
         SeqStartMain, SeqWaitMain, SeqReady, TypeOK, IrqTypeOK
  <2>2. \/ /\ seq_state = "READY" /\ seq_state' \in {"CLEAR_DACS", "START_EXT"}
           /\ delock_count' = delock_count + 1
        \/ seq_state' = seq_state /\ delock_count' = delock_count
        \/ /\ seq_state \notin {"NONE", "DISABLED", "READY"}
           /\ seq_state' \notin {"NONE", "DISABLED"}
           /\ delock_count' = delock_count
    BY <1>1 DEF Sequencer, SeqStep, SeqClearDacs, SeqWaitClearDacs,
         SeqDisabled, SeqStartExt, SeqWaitExt, SeqStartHelper, SeqWaitHelper,
         SeqStartMain, SeqWaitMain, SeqReady
  <2>3. QED
    BY <2>1, <2>2 DEF Seen
<1>2. CASE UpdateLoops
  BY <1>2 DEF UpdateLoops, Seen, seqVars
<1>3. ASSUME NEW m \in Modes, NEW r \in Refs, NEW a \in BOOLEAN, SpllInit(m, r, a)
      PROVE  Seen' \in {"off", "acquiring"} /\ delock_count' = 0
  <2>1. /\ delock_count' = 0
        /\ irq' = FALSE \/ seq_state' \in {"DISABLED", "CLEAR_DACS"}
    BY <1>3 DEF SpllInit
  <2>2. QED
    BY <2>1 DEF Seen
<1>4. CASE Others
  BY <1>4, OthersFrame DEF Seen
<1>5. QED
  BY <1>1, <1>2, <1>3, <1>4, NextCases

(* The SoftPLL implements the lock service: lock is announced only while   *)
(* acquiring, every loss is counted exactly once, spll_init ends it.       *)
THEOREM SpllImplementsService == Spec => ServiceSpec
<1>1. Init => Service!SInit /\ HandlerOn
  BY DEF Init, Service!SInit, HandlerOn
<1>2. TypeOK /\ HandlerOn /\ [Next]_vars => [Service!SNext]_(Service!svars)
  BY StepRefines DEF Seen, Service!SNext, Service!svars, Service!Configure,
     Service!Acquire, Service!Lose
<1>3. QED
  BY <1>1, <1>2, SpllTypes, HandlerOnInductive, PTL
     DEF Spec, ServiceSpec, Service!SSpec
-----------------------------------------------------------------------------
(***************************************************************************)
(* OutLockMatches holds during the calls too, but it is not inductive:     *)
(* aux_lock_pll takes a channel out of any state, READY included.  Such a  *)
(* step is only ever pending for a channel that is DISABLED, behind the    *)
(* register accesses of its own spll_start_channel and nothing else.       *)
(***************************************************************************)
StartOps == {"start_channel", "mpll_reset", "ld_reset", "set"}

NoLock(s) == \A i \in DOMAIN s : s[i].op # "aux_lock_pll"

LockNext(s, seq) ==
    \A i \in DOMAIN s : s[i].op = "aux_lock_pll" =>
        /\ seq[s[i].c] = "DISABLED"
        /\ \A j \in 1 .. i - 1 : s[j].op \in StartOps

OutLockInv ==
    /\ irq => out_lock = {ch \in AuxChans : aux_seq[ch] = "READY"}
    /\ LockNext(todo, aux_seq)

(* Without such a step there is nothing to ask of the channels.            *)
LEMMA NoLockNext == ASSUME NEW s, NEW seq, NoLock(s) PROVE LockNext(s, seq)
BY DEF NoLock, LockNext

(* What is left of a list of steps once its first one is done.             *)
LEMMA LockNextTail ==
    ASSUME NEW s \in Seq(Ops), s # <<>>, NEW seq, LockNext(s, seq)
    PROVE  /\ LockNext(Tail(s), seq)
           /\ Head(s).op \notin StartOps => NoLock(Tail(s))
<1> DEFINE t == Tail(s)
<1>1. /\ t \in Seq(Ops) /\ Len(s) \in Nat /\ Len(s) > 0 /\ Len(t) = Len(s) - 1
      /\ Head(s) = s[1]
      /\ \A i \in 1 .. Len(t) : t[i] = s[i + 1]
  BY HeadTailProperties, EmptySeq, LenProperties
<1>2. DOMAIN s = 1 .. Len(s) /\ DOMAIN t = 1 .. Len(t)
  BY <1>1, LenProperties
<1> HIDE DEF t
<1>3. ASSUME NEW i \in DOMAIN t, t[i].op = "aux_lock_pll"
      PROVE  /\ seq[t[i].c] = "DISABLED"
             /\ \A j \in 1 .. i - 1 : t[j].op \in StartOps
             /\ Head(s).op \in StartOps
  <2>1. i \in 1 .. Len(t) /\ i + 1 \in DOMAIN s /\ t[i] = s[i + 1]
    BY <1>1, <1>2
  <2>2. seq[t[i].c] = "DISABLED" /\ \A j \in 1 .. i : s[j].op \in StartOps
    <3>1. (i + 1) - 1 = i
      BY <1>1, <2>1
    <3>2. QED
      BY <1>3, <2>1, <3>1 DEF LockNext
  <2>3. \A j \in 1 .. i - 1 : t[j] = s[j + 1] /\ j + 1 \in 1 .. i
    BY <1>1, <2>1
  <2>4. 1 \in 1 .. i
    BY <2>1
  <2>5. QED
    BY <1>1, <2>2, <2>3, <2>4
<1>4. QED
  BY <1>3 DEF LockNext, NoLock, t

(* Starting steps may be put before the others; so may any, if none of     *)
(* both lists is an aux_lock_pll.                                          *)
LEMMA LockNextConcat ==
    ASSUME NEW s \in Seq(Ops), NEW t \in Seq(Ops), NEW seq
    PROVE  /\ (\A i \in DOMAIN s : s[i].op \in StartOps) /\ LockNext(t, seq)
                => LockNext(s \o t, seq)
           /\ NoLock(s) /\ NoLock(t) => NoLock(s \o t)
           /\ LockNext(s, seq) /\ NoLock(t) => LockNext(s \o t, seq)
<1> DEFINE u == s \o t
<1>1. /\ Len(s) \in Nat /\ Len(t) \in Nat
      /\ DOMAIN s = 1 .. Len(s) /\ DOMAIN t = 1 .. Len(t)
  BY LenProperties
<1>2. DOMAIN u = 1 .. Len(s) + Len(t)
  BY ConcatProperties, LenProperties
<1>3. /\ \A i \in 1 .. Len(s) : u[i] = s[i]
      /\ \A i \in 1 .. Len(s) + Len(t) : i > Len(s) => u[i] = t[i - Len(s)]
  BY <1>1, ConcatProperties
<1>4. \A i \in DOMAIN u :
        \/ i \in DOMAIN s /\ u[i] = s[i]
        \/ i > Len(s) /\ i - Len(s) \in DOMAIN t /\ u[i] = t[i - Len(s)]
  BY <1>1, <1>2, <1>3
<1> HIDE DEF u
<1>5. NoLock(s) /\ NoLock(t) => NoLock(u)
  BY <1>4 DEF NoLock
<1>6. ASSUME LockNext(s, seq), NoLock(t) PROVE LockNext(u, seq)
  <2> SUFFICES ASSUME NEW i \in DOMAIN u, u[i].op = "aux_lock_pll"
               PROVE  /\ seq[u[i].c] = "DISABLED"
                      /\ \A j \in 1 .. i - 1 : u[j].op \in StartOps
    BY DEF LockNext
  <2>1. i \in DOMAIN s /\ u[i] = s[i]
    BY <1>4, <1>6 DEF NoLock
  <2>2. \A j \in 1 .. i - 1 : u[j] = s[j]
    BY <1>1, <1>3, <2>1
  <2>3. QED
    BY <1>6, <2>1, <2>2 DEF LockNext
<1>7. ASSUME \A i \in DOMAIN s : s[i].op \in StartOps, LockNext(t, seq)
      PROVE  LockNext(u, seq)
  <2> SUFFICES ASSUME NEW i \in DOMAIN u, u[i].op = "aux_lock_pll"
               PROVE  /\ seq[u[i].c] = "DISABLED"
                      /\ \A j \in 1 .. i - 1 : u[j].op \in StartOps
    BY DEF LockNext
  <2>1. i > Len(s) /\ i - Len(s) \in DOMAIN t /\ u[i] = t[i - Len(s)]
    BY <1>4, <1>7 DEF StartOps
  <2>2. /\ seq[u[i].c] = "DISABLED"
        /\ \A j \in 1 .. (i - Len(s)) - 1 : t[j].op \in StartOps
    BY <1>7, <2>1 DEF LockNext
  <2>3. ASSUME NEW j \in 1 .. i - 1 PROVE u[j].op \in StartOps
    <3>1. CASE j \in 1 .. Len(s)
      BY <1>1, <1>3, <1>7, <3>1
    <3>2. CASE j > Len(s)
      <4>1. j - Len(s) \in 1 .. (i - Len(s)) - 1 /\ u[j] = t[j - Len(s)]
        BY <1>1, <1>2, <1>3, <2>1, <3>2
      <4>2. QED
        BY <2>2, <4>1
    <3>3. QED
      BY <1>1, <1>2, <3>1, <3>2
  <2>4. QED
    BY <2>2, <2>3
<1>8. QED
  BY <1>5, <1>6, <1>7 DEF u

(* Only the auxiliary FSMs and spll_init touch what OutLockInv speaks of.  *)
LEMMA OutLockInductive == TypeOK /\ OutLockInv /\ [Next]_vars => OutLockInv'
<1> USE SoftPllAssumption
<1> SUFFICES ASSUME TypeOK, OutLockInv, [Next]_vars PROVE OutLockInv'
  OBVIOUS
<1>1. CASE Sequencer \/ UpdateLoops
  <2>1. UNCHANGED <<irq, out_lock, aux_seq, todo>>
    BY <1>1 DEF UpdateLoops, Sequencer, SeqStep, SeqClearDacs,
         SeqWaitClearDacs, SeqDisabled, SeqStartExt, SeqWaitExt,
         SeqStartHelper, SeqWaitHelper, SeqStartMain, SeqWaitMain, SeqReady,
         mainVars
  <2>2. QED
    BY <2>1 DEF OutLockInv
<1>2. ASSUME NEW m \in Modes, NEW r \in Refs, NEW a \in BOOLEAN, SpllInit(m, r, a)
      PROVE  OutLockInv'
  <2>1. todo' = <<>>
    BY <1>2 DEF SpllInit, Idle, mainVars
  <2>2. \/ irq' = FALSE
        \/ out_lock' = {} /\ aux_seq' = [ch \in AuxChans |-> "DISABLED"]
    BY <1>2 DEF SpllInit
  <2>3. QED
    BY <2>1, <2>2 DEF OutLockInv, LockNext
<1>3. CASE Shifts \/ Environment \/ UNCHANGED vars
  <2>1. UNCHANGED <<irq, out_lock, aux_seq, todo>>
    BY <1>3 DEF Shifts, Environment, vars, SetPhaseShift, SetPhaseShiftAll,
         TagArrives, DacTimeout, RealignTimeout, RequestAux, Settle, IrqEnter,
         regVars, irqVars, mainVars
  <2>2. QED
    BY <2>1 DEF OutLockInv
<1>4. CASE Stepwise
  <2>1. UNCHANGED <<irq, out_lock, aux_seq>>
    BY <1>4 DEF Stepwise, CallEnablePtracker, CallDisablePtracker,
     CallStartChannel, CallStopChannel, CallUpdateAux, UnlessMain, regVars,
     irqVars
  <2>2. NoLock(todo')
    <3>1. ASSUME NEW r \in Refs, CallEnablePtracker(r)
          PROVE  NoLock(todo')
      <4> DEFINE en == EnableTagger(r)
                 em == EnableTagger(Main)
                 ma == <<Op("mask", r)>>
      <4>0. NoLock(en) /\ NoLock(em) /\ NoLock(ma)
        BY DEF NoLock, EnableTagger, Op
      <4>1. /\ en \in Seq(Ops) /\ em \in Seq(Ops) /\ ma \in Seq(Ops)
            /\ NoLock(en) /\ NoLock(em) /\ NoLock(ma)
        <5> HIDE DEF en, em, ma
        <5>1. r \in RefChans
          OBVIOUS
        <5>2. QED
          BY <4>0, <5>1, PieceTypes DEF en, em, ma
      <4>2. todo' = en \o en \o em \o ma
        BY <3>1 DEF CallEnablePtracker
      <4> HIDE DEF en, em, ma
      <4>3. en \o en \in Seq(Ops) /\ NoLock(en \o en)
        <5>1. en \o en \in Seq(Ops)
          BY <4>1, ConcatProperties
        <5>2. NoLock(en \o en)
          BY <4>1, LockNextConcat
        <5>3. QED
          BY <5>1, <5>2
      <4>4. en \o en \o em \in Seq(Ops) /\ NoLock(en \o en \o em)
        BY <4>1, <4>3, LockNextConcat, ConcatProperties
      <4>5. QED
        BY <4>1, <4>2, <4>4, LockNextConcat
    <3>2. ASSUME NEW r \in Refs, CallDisablePtracker(r)
          PROVE  NoLock(todo')
      BY <3>2 DEF CallDisablePtracker, NoLock, DisableTagger, Op
    <3>3. ASSUME NEW ch \in AuxChans, CallStartChannel(ch) \/ CallStopChannel(ch)
          PROVE  NoLock(todo')
      BY <3>3 DEF CallStartChannel, CallStopChannel, NoLock, DisableTagger, Op
    <3>4. CASE CallUpdateAux
      BY <3>4 DEF CallUpdateAux, NoLock, Op
    <3>5. QED
      BY <1>4, <3>1, <3>2, <3>3, <3>4 DEF Stepwise
  <2>3. QED
    BY <2>1, <2>2, NoLockNext DEF OutLockInv
<1>5. CASE MainStep
  <2>1. /\ todo # <<>> /\ todo \in Seq(Ops)
        /\ Head(todo) \in Ops /\ Tail(todo) \in Seq(Ops)
        /\ LockNext(Tail(todo), aux_seq)
        /\ Head(todo).op \notin StartOps => NoLock(Tail(todo))
        /\ irq' = irq /\ aux_seq \in [AuxChans -> AuxStates]
    BY <1>5, HeadTailProperties, LockNextTail
     DEF TypeOK, MainTypeOK, RestTypeOK, OutLockInv, MainStep, StepRead,
         StepSet, StepClear, WriteBack, StepMask,
         StepAuxCheck, StepAuxDisable, AuxFsmNone, AuxFsmDisabled,
         AuxFsmLockPll, AuxFsmAlignPhase, AuxFsmReady, AuxFsmIn,
         StepStartChannel, StepMpllReset, StepLdReset, StepAuxLockPll, Doing,
         UnlessMain, irqVars
  <2>2. Head(todo).op \notin {"set", "clear", "mask"} => Chan \in AuxChans
    BY <2>1, OpChannel DEF Chan
  <2>3. CASE \/ StepRead \/ StepSet \/ StepClear \/ StepMask
             \/ AuxFsmNone \/ StepMpllReset \/ StepLdReset
    <3>1. UNCHANGED <<out_lock, aux_seq>> /\ todo' \in {todo, Tail(todo)}
      BY <2>3 DEF StepRead, StepSet, StepClear, WriteBack, StepMask,
         AuxFsmNone, StepMpllReset, StepLdReset, Continue, UnlessMain, regVars
    <3>2. QED
      BY <2>1, <3>1 DEF OutLockInv
  <2>4. CASE StepAuxCheck
    <3>1. /\ UNCHANGED <<out_lock, aux_seq>> /\ Head(todo).op = "aux_check"
          /\ Chan \in AuxChans /\ NoLock(Tail(todo))
      BY <2>1, <2>2, <2>4 DEF StepAuxCheck, Doing, UnlessMain, regVars, StartOps
    <3> DEFINE d == DisableTagger(AuxOut(Chan))
               x == <<Op("aux_disable", Chan)>>
               p == IF aux_seq[Chan] # "DISABLED" /\ Chan \notin out_en
                    THEN d \o x ELSE <<>>
               f == <<Op("aux_fsm", Chan)>>
    <3>2. /\ d \in Seq(Ops) /\ x \in Seq(Ops) /\ f \in Seq(Ops)
          /\ <<>> \in Seq(Ops)
      BY <3>1, PieceTypes
    <3>3. NoLock(d) /\ NoLock(x) /\ NoLock(f) /\ NoLock(<<>>)
      BY DEF NoLock, DisableTagger, Op
    <3>4. todo' = p \o f \o Tail(todo)
      BY <2>4 DEF StepAuxCheck
    <3> HIDE DEF d, x, f
    <3>5. p \in Seq(Ops) /\ NoLock(p)
      BY <3>2, <3>3, LockNextConcat, ConcatProperties
    <3> HIDE DEF p
    <3>6. p \o f \in Seq(Ops) /\ NoLock(p \o f)
      BY <3>2, <3>3, <3>5, LockNextConcat, ConcatProperties
    <3>7. NoLock(todo')
      BY <2>1, <3>1, <3>4, <3>6, LockNextConcat
    <3>8. QED
      BY <2>1, <3>1, <3>7, NoLockNext DEF OutLockInv
  <2>5. CASE AuxFsmDisabled
    <3>1. /\ UNCHANGED <<out_lock, aux_seq>> /\ Head(todo).op = "aux_fsm"
          /\ Chan \in AuxChans /\ NoLock(Tail(todo))
          /\ aux_seq[Chan] = "DISABLED"
      BY <2>1, <2>2, <2>5
         DEF AuxFsmDisabled, AuxFsmIn, Doing, UnlessMain, regVars, StartOps
    <3> DEFINE l == <<Op("start_channel", Chan), Op("aux_lock_pll", Chan)>>
    <3>2. l \in Seq(Ops) /\ <<>> \in Seq(Ops)
      BY <3>1, PieceTypes
    <3>3. LockNext(l, aux_seq) /\ LockNext(<<>>, aux_seq)
      BY <3>1 DEF LockNext, Op, StartOps
    <3>4. todo' = l \o Tail(todo) \/ todo' = <<>> \o Tail(todo)
      BY <2>5 DEF AuxFsmDisabled
    <3> HIDE DEF l
    <3>5. LockNext(todo', aux_seq)
      BY <2>1, <3>1, <3>2, <3>3, <3>4, LockNextConcat
    <3>6. QED
      BY <2>1, <3>1, <3>5 DEF OutLockInv
  <2>6. CASE StepStartChannel
    <3>1. /\ UNCHANGED <<out_lock, aux_seq>> /\ Head(todo).op = "start_channel"
          /\ Chan \in AuxChans
      BY <2>2, <2>6 DEF StepStartChannel, Doing, UnlessMain, regVars
    <3> DEFINE r == aux[Chan].id_ref
               rs == <<Op("mpll_reset", Chan), Op("ld_reset", Chan)>>
               er == EnableTagger(r)
               eo == EnableTagger(AuxOut(Chan))
               st == rs \o er \o eo
    <3>2. r \in RefChans
      BY <3>1 DEF TypeOK, LoopTypeOK, MainPlls
    <3>3. /\ rs \in Seq(Ops) /\ er \in Seq(Ops) /\ eo \in Seq(Ops)
          /\ <<>> \in Seq(Ops)
      BY <3>1, <3>2, PieceTypes
    <3>4. todo' = st \o Tail(todo) \/ todo' = <<>> \o Tail(todo)
      BY <2>6 DEF StepStartChannel
    <3>5. \A i \in DOMAIN st : st[i].op \in StartOps
      BY <3>1 DEF StartOps, EnableTagger, Op
    <3>6. st \in Seq(Ops)
      <4> HIDE DEF rs, er, eo
      <4>1. QED
        BY <3>3, ConcatProperties
    <3> HIDE DEF st
    <3>7. LockNext(todo', aux_seq)
      <4>1. LockNext(st \o Tail(todo), aux_seq)
        BY <2>1, <3>5, <3>6, LockNextConcat
      <4>2. <<>> \o Tail(todo) = Tail(todo)
        BY <2>1
      <4>3. QED
        BY <2>1, <3>4, <4>1, <4>2
    <3>8. QED
      BY <2>1, <3>1, <3>7 DEF OutLockInv
  <2>7. CASE \/ StepAuxDisable \/ AuxFsmLockPll \/ AuxFsmAlignPhase
             \/ AuxFsmReady
    <3>1. /\ todo' = Tail(todo) /\ NoLock(Tail(todo)) /\ Chan \in AuxChans
      BY <2>1, <2>2, <2>7 DEF StepAuxDisable, AuxFsmLockPll, AuxFsmAlignPhase,
         AuxFsmReady, AuxFsmIn, Doing, Continue, StartOps
    <3>2. \/ UNCHANGED <<out_lock, aux_seq>>
          \/ \E q \in {"DISABLED", "ALIGN_PHASE"} :
               /\ aux_seq' = [aux_seq EXCEPT ![Chan] = q]
               /\ \/ out_lock' = out_lock \ {Chan}
                  \/ out_lock' = out_lock /\ aux_seq[Chan] = "LOCK_PLL"
          \/ /\ aux_seq' = [aux_seq EXCEPT ![Chan] = "READY"]
             /\ out_lock' = out_lock \cup {Chan}
      BY <2>7 DEF StepAuxDisable, AuxFsmLockPll, AuxFsmAlignPhase,
         AuxFsmReady, AuxFsmIn, regVars
    <3>3. irq => out_lock' = {ch \in AuxChans : aux_seq'[ch] = "READY"}
      BY <2>1, <3>1, <3>2 DEF OutLockInv
    <3>4. QED
      BY <2>1, <3>1, <3>3, NoLockNext DEF OutLockInv
  <2>8. CASE StepAuxLockPll
    <3>1. /\ todo' = Tail(todo) /\ NoLock(Tail(todo)) /\ Chan \in AuxChans
          /\ out_lock' = out_lock
          /\ aux_seq' = [aux_seq EXCEPT ![Chan] = "LOCK_PLL"]
          /\ Head(todo).op = "aux_lock_pll"
      BY <2>1, <2>2, <2>8 DEF StepAuxLockPll, Doing, Continue, StartOps, regVars
    <3>2. aux_seq[Chan] = "DISABLED"
      <4>1. 1 \in DOMAIN todo /\ Head(todo) = todo[1]
        BY <2>1, HeadTailProperties, LenProperties, EmptySeq
      <4>2. QED
        BY <3>1, <4>1 DEF OutLockInv, LockNext, Chan
    <3>3. irq => out_lock' = {ch \in AuxChans : aux_seq'[ch] = "READY"}
      BY <2>1, <3>1, <3>2 DEF OutLockInv
    <3>4. QED
      BY <2>1, <3>1, <3>3, NoLockNext DEF OutLockInv
  <2>9. QED
    BY <1>5, <2>3, <2>4, <2>5, <2>6, <2>7, <2>8 DEF MainStep
<1>6. QED
  BY <1>1, <1>2, <1>3, <1>4, <1>5, NextCases DEF Others

(* The OUT_LOCK bits the hardware sees are the channels that               *)
(* spll_get_aux_status reports as ready, however starts, stops, requests   *)
(* and the interrupt interleave with the auxiliary FSMs.                   *)
THEOREM SpllOutLockMatches == Spec => []OutLockMatches
<1>1. Init => OutLockInv
  BY DEF Init, OutLockInv, LockNext
<1>2. OutLockInv => OutLockMatches
  BY DEF OutLockInv, OutLockMatches
<1>3. QED
  BY <1>1, <1>2, SpllTypes, OutLockInductive, PTL DEF Spec
-----------------------------------------------------------------------------
(***************************************************************************)
(* LoopsFed does not hold of every configuration: with two references a    *)
(* tagger enabled by the handler between the read and the write of RCER in *)
(* spll_enable_tagger is lost (the run softpll_switch), and a grandmaster  *)
(* with auxiliary channels can lose the main output from OCER in the same  *)
(* way.  It holds where every spll_init names the same reference and a     *)
(* grandmaster has only its main output, the configuration of a node.      *)
(***************************************************************************)
OneReference == \A r, s \in Refs : r = s

GmMainOnly == GM \in Modes /\ ExtSupported => NOut = 1

(***************************************************************************)
(* Its inductive invariant: the loops look at the channels spll_init gave  *)
(* them; the main program writes RCER only to enable that reference, so    *)
(* that its write-back of a stale value cannot undo the handler's; and the *)
(* main output, once out of SEQ_START_EXT's reach, stays in OCER and in    *)
(* every copy of it.                                                       *)
(***************************************************************************)
LoopIds ==
    irq => /\ mpll.id_ref \in Refs
           /\ \A ch \in AuxChans : aux[ch].id_ref = mpll.id_ref
           /\ helper.ref_src = IF mode = SLAVE THEN mpll.id_ref ELSE Main

FedOps(r) == {o \in Ops : o \in RegOps /\ o.c \in RefChans => o = Op("set", r)}

RegsFed ==
    irq => /\ todo \in Seq(FedOps(mpll.id_ref))
           /\ mode # GM => /\ Main \in ocer
                           /\ loaded /\ Head(todo).c \notin RefChans => Main \in reg
                           /\ seq_state \notin {"START_EXT", "WAIT_EXT"}
           /\ mode = GM => AuxChans = {}

LoopInv == LoopIds /\ RegsFed /\ LoopsFed

(* The channels of the loops change only in spll_init.                     *)
LEMMA IdsKept ==
    ASSUME TypeOK, Sequencer \/ UpdateLoops \/ Others
    PROVE  /\ mpll'.id_ref = mpll.id_ref
           /\ \A ch \in AuxChans : aux'[ch].id_ref = aux[ch].id_ref
           /\ helper'.ref_src = helper.ref_src
           /\ mode' = mode /\ irq' = irq
<1>1. mpll \in MainPlls /\ aux \in [AuxChans -> MainPlls] /\ helper \in HelperPlls
  BY DEF TypeOK, LoopTypeOK
<1>2. \A p \in MainPlls : \A out, ok : MpllUpdate(p, out, ok).id_ref = p.id_ref
  <2> SUFFICES ASSUME NEW p \in MainPlls, NEW out, NEW ok
               PROVE  MpllUpdate(p, out, ok).id_ref = p.id_ref
    OBVIOUS
  <2> DEFINE q == [p EXCEPT !.ref = IF tag = p.id_ref THEN 1 ELSE @,
                            !.out = IF tag = out THEN 1 ELSE @]
             c == IF p.ld.locked = 1 THEN Shifted(p) ELSE q.current
             l == LdUpdate(q.ld, ok, MainLock, MainDelock)
  <2>1. q \in MainPlls /\ q.id_ref = p.id_ref
    BY DEF MainPlls
  <2>2. \/ MpllUpdate(p, out, ok) = q
        \/ MpllUpdate(p, out, ok)
             = [q EXCEPT !.ref = 0, !.out = 0, !.current = c, !.ld = l]
    BY DEF MpllUpdate
  <2>3. [q EXCEPT !.ref = 0, !.out = 0, !.current = c, !.ld = l].id_ref = q.id_ref
    <3> HIDE DEF q, c, l
    <3>1. QED
      BY <2>1 DEF MainPlls
  <2>4. QED
    BY <2>1, <2>2, <2>3
<1>3. CASE Sequencer
  <2>1. /\ helper' = helper \/ helper' = [helper EXCEPT !.primed = 0, !.ld = LdInit]
        /\ mpll' = mpll \/ mpll' = MpllStarted(mpll, LdInit)
        /\ UNCHANGED <<aux, mode, irq>>
    BY <1>3 DEF Sequencer, SeqStep, SeqClearDacs, SeqWaitClearDacs,
         SeqDisabled, SeqStartExt, SeqWaitExt, SeqStartHelper, SeqWaitHelper,
         SeqStartMain, SeqWaitMain, SeqReady
  <2>2. helper'.ref_src = helper.ref_src
    BY <1>1, <2>1 DEF HelperPlls
  <2>3. mpll'.id_ref = mpll.id_ref
    BY <2>1 DEF MpllStarted
  <2>4. QED
    BY <2>1, <2>2, <2>3
<1>4. CASE UpdateLoops
  <2>1. mpll' = mpll \/ \E ok \in Outcomes : mpll' = MpllUpdate(mpll, Main, ok)
    BY <1>4 DEF UpdateLoops
  <2>2. \/ aux' = aux
        \/ \E ok \in [AuxChans -> Outcomes] :
              aux' = [ch \in AuxChans |->
                        MpllUpdate(aux[ch], AuxOut(ch), ok[ch])]
    BY <1>4 DEF UpdateLoops
  <2>3. \/ helper' = helper \/ helper' = [helper EXCEPT !.primed = 1]
        \/ \E ok \in Outcomes :
             helper' = [helper EXCEPT
                    !.ld = LdUpdate(@, ok, HelperLock, HelperDelock)]
    BY <1>4 DEF UpdateLoops, HelperUpdate
  <2>4. mode' = mode /\ irq' = irq
    BY <1>4 DEF UpdateLoops, seqVars
  <2>5. helper'.ref_src = helper.ref_src
    BY <1>1, <2>3 DEF HelperPlls
  <2>6. mpll'.id_ref = mpll.id_ref
    BY <1>1, <1>2, <2>1
  <2>7. \A ch \in AuxChans : aux'[ch].id_ref = aux[ch].id_ref
    BY <1>1, <1>2, <2>2
  <2>8. QED
    BY <2>4, <2>5, <2>6, <2>7
<1>5. CASE Others
  <2>1. mode' = mode /\ irq' = irq /\ helper' = helper
    BY <1>5, OthersFrame
  <2>2. CASE Shifts
    <3>1. PICK ps \in ShiftsPs, d \in {0} \cup AuxChans :
            SetPhaseShift(d, ps) \/ SetPhaseShiftAll(ps)
      BY <2>2 DEF Shifts
    <3>2. /\ mpll' \in {mpll, [mpll EXCEPT !.target = Units(ps)]}
          /\ \/ aux' = aux
             \/ aux' = [aux EXCEPT ![d].target = Units(ps)]
             \/ aux' = [ch \in AuxChans |->
                         IF aux_seq[ch] = "READY"
                         THEN [aux[ch] EXCEPT !.target = Units(ps)] ELSE aux[ch]]
      BY <3>1 DEF SetPhaseShift, SetPhaseShiftAll
    <3>3. \A p \in MainPlls : [p EXCEPT !.target = Units(ps)].id_ref = p.id_ref
      BY DEF MainPlls
    <3>4. \A ch \in AuxChans : aux'[ch].id_ref = aux[ch].id_ref
      BY <1>1, <3>2, <3>3
    <3>5. QED
      BY <1>1, <2>1, <3>2, <3>3, <3>4
  <2>3. CASE Stepwise \/ Environment \/ UNCHANGED vars
    <3>1. mpll' = mpll /\ aux' = aux
      BY <2>3 DEF Stepwise, CallEnablePtracker, CallDisablePtracker,
       CallStartChannel, CallStopChannel, CallUpdateAux, UnlessMain,
       Environment, TagArrives, DacTimeout, RealignTimeout, RequestAux,
       Settle, IrqEnter, vars, loopVars
    <3>2. QED
      BY <2>1, <3>1
  <2>4. CASE MainStep
    <3>1. /\ mpll' = mpll
          /\ \/ aux' = aux
             \/ aux' = [aux EXCEPT ![Chan].target = Units(mpll_shift_ps)]
             \/ aux' = [aux EXCEPT ![Chan] =
                          MpllStarted(@, [@.ld EXCEPT !.locked = 0])]
             \/ aux' = [aux EXCEPT ![Chan].ld =
                          [@ EXCEPT !.cnt = 0, !.changed = 0]]
      BY <2>4 DEF MainStep, StepRead, StepSet, StepClear, WriteBack, StepMask,
         StepAuxCheck, StepAuxDisable, AuxFsmNone, AuxFsmDisabled,
         AuxFsmLockPll, AuxFsmAlignPhase, AuxFsmReady, StepStartChannel,
         StepMpllReset, StepLdReset, StepAuxLockPll, UnlessMain, loopVars
    <3>2. \A ch \in AuxChans : aux'[ch].id_ref = aux[ch].id_ref
      BY <1>1, <3>1 DEF MainPlls, MpllStarted
    <3>3. QED
      BY <2>1, <3>1, <3>2
  <2>5. QED
    BY <1>5, <2>2, <2>3, <2>4 DEF Others
<1>6. QED
  BY <1>3, <1>4, <1>5

(* The pieces of the calls, for a program that uses reference r only.      *)
LEMMA FedPieces ==
    ASSUME NEW r \in RefChans
    PROVE  /\ EnableTagger(r) \in Seq(FedOps(r))
           /\ EnableTagger(Main) \in Seq(FedOps(r))
           /\ <<Op("mask", r)>> \in Seq(FedOps(r))
           /\ \A ch \in AuxChans : /\ DisableTagger(AuxOut(ch)) \in Seq(FedOps(r))
                                   /\ EnableTagger(AuxOut(ch)) \in Seq(FedOps(r))
           /\ \A ch \in AuxChans, name \in {"aux_check", "aux_fsm",
                "aux_disable", "aux_lock_pll", "start_channel", "mpll_reset",
                "ld_reset"} :
                Op(name, ch) \in FedOps(r) /\ <<Op(name, ch)>> \in Seq(FedOps(r))
           /\ <<>> \in Seq(FedOps(r))
<1>1. /\ Main \notin RefChans /\ Main \in OutChans
      /\ \A ch \in AuxChans : AuxOut(ch) \notin RefChans /\ AuxOut(ch) \in OutChans
  BY SoftPllAssumption DEF Main, RefChans, OutChans, AuxChans, AuxOut
<1>2. Op("set", r) \in FedOps(r)
  BY DEF FedOps, Op, Ops, RegOps
<1>3. Op("set", Main) \in FedOps(r)
  BY <1>1 DEF FedOps, Op, Ops, RegOps
<1>4. Op("mask", r) \in FedOps(r)
  BY DEF FedOps, Op, Ops, RegOps, MaskOps
<1>5. \A ch \in AuxChans : /\ Op("set", AuxOut(ch)) \in FedOps(r)
                           /\ Op("clear", AuxOut(ch)) \in FedOps(r)
  BY <1>1 DEF FedOps, Op, Ops, RegOps
<1>6. \A ch \in AuxChans, name \in {"aux_check", "aux_fsm",
                "aux_disable", "aux_lock_pll", "start_channel", "mpll_reset",
                "ld_reset"} : Op(name, ch) \in FedOps(r)
  BY DEF FedOps, Op, Ops, RegOps, AuxOps
<1>7. QED
  BY <1>2, <1>3, <1>4, <1>5, <1>6 DEF EnableTagger, DisableTagger

(* No step of a node starves a loop that the sequencer waits for.          *)
LEMMA LoopInductive ==
    ASSUME OneReference, GmMainOnly, TypeOK, LoopInv, [Next]_vars
    PROVE  LoopInv'
<1> USE SoftPllAssumption
<1>0. Main \notin RefChans /\ Main \in OutChans
  BY DEF Main, RefChans, OutChans
<1>1. ASSUME NEW m \in Modes, NEW r \in Refs, NEW a \in BOOLEAN, SpllInit(m, r, a)
      PROVE  LoopInv'
  <2>1. CASE irq' = FALSE
    BY <2>1 DEF LoopInv, LoopIds, RegsFed, LoopsFed
  <2>2. CASE irq' # FALSE
    <3>1. /\ mode' = m /\ ~(m = GM /\ ~ExtSupported)
          /\ seq_state' \in {"DISABLED", "CLEAR_DACS"}
          /\ helper' = [helper EXCEPT !.ref_src = IF m = SLAVE THEN r ELSE Main]
          /\ mpll' = [mpll EXCEPT !.id_ref = r, !.ld = LdInit]
          /\ aux' = [ch \in AuxChans |->
                         [aux[ch] EXCEPT !.id_ref = r, !.ld = LdInit]]
          /\ ocer' = {Main}
      BY <1>1, <2>2 DEF SpllInit
    <3>2. todo = <<>> /\ todo' = todo /\ loaded' = loaded
      BY <1>1 DEF SpllInit, Idle, mainVars
    <3>3. loaded' = FALSE
      BY <3>2, NotLoaded
    <3>4. /\ mpll'.id_ref = r /\ helper'.ref_src = IF m = SLAVE THEN r ELSE Main
          /\ \A ch \in AuxChans : aux'[ch].id_ref = r
      <4>1. \A p \in MainPlls : [p EXCEPT !.id_ref = r, !.ld = LdInit].id_ref = r
        BY DEF MainPlls
      <4>2. helper'.ref_src = IF m = SLAVE THEN r ELSE Main
        BY <3>1 DEF TypeOK, LoopTypeOK, HelperPlls
      <4>3. QED
        BY <3>1, <4>1, <4>2 DEF TypeOK, LoopTypeOK
    <3>5. LoopIds'
      BY <3>1, <3>4 DEF LoopIds
    <3>6. m = GM => AuxChans = {}
      <4>1. m = GM => NOut = 1
        BY <3>1, Zenon DEF GmMainOnly
      <4>2. QED
        BY <4>1 DEF AuxChans
    <3>7. todo' \in Seq(FedOps(mpll'.id_ref))
      BY <3>2, EmptySeq
    <3>8. QED
      BY <3>1, <3>3, <3>5, <3>6, <3>7 DEF LoopInv, RegsFed, LoopsFed
  <2>3. QED
    BY <2>1, <2>2
<1> SUFFICES ASSUME Sequencer \/ UpdateLoops \/ Others, irq PROVE LoopInv'
  <2>1. CASE ~irq /\ (Sequencer \/ UpdateLoops \/ Others)
    BY <2>1, IdsKept DEF LoopInv, LoopIds, RegsFed, LoopsFed
  <2>2. QED
    BY <1>1, <2>1, NextCases
<1> DEFINE r == mpll.id_ref
<1>2. /\ r \in Refs /\ r \in RefChans
      /\ \A ch \in AuxChans : aux[ch].id_ref = r
      /\ helper.ref_src = IF mode = SLAVE THEN r ELSE Main
      /\ todo \in Seq(FedOps(r))
      /\ mode # GM => /\ Main \in ocer
                      /\ loaded /\ Head(todo).c \notin RefChans => Main \in reg
                      /\ seq_state \notin {"START_EXT", "WAIT_EXT"}
      /\ mode = GM => AuxChans = {}
  BY DEF LoopInv, LoopIds, RegsFed
<1>3. /\ mpll'.id_ref = r /\ helper'.ref_src = helper.ref_src
      /\ mode' = mode /\ irq' = irq
      /\ LoopIds'
  BY <1>2, IdsKept DEF LoopIds
<1> DEFINE Waiting == {"WAIT_HELPER", "START_MAIN", "WAIT_MAIN", "READY"}
           Kept == seq_state \in Waiting => helper.ref_src \in rcer \cup ocer
           Kept1 == seq_state' \in Waiting => helper.ref_src \in rcer' \cup ocer'
           MainKept == mode # GM => /\ Main \in ocer'
                                    /\ seq_state' \notin {"START_EXT", "WAIT_EXT"}
           CopyKept == mode # GM => (loaded' /\ Head(todo').c \notin RefChans
                                       => Main \in reg')
<1> HIDE DEF r
<1>4. Kept
  BY DEF LoopInv, LoopsFed
<1>5. ASSUME Kept1, MainKept, CopyKept, todo' \in Seq(FedOps(r)) PROVE LoopInv'
  <2>1. rcer' \subseteq RefChans /\ ocer' \subseteq OutChans
    BY NextTypes DEF TypeOK, RegTypeOK
  <2>2. SLAVE # GM /\ r \notin OutChans
    BY <1>2 DEF SLAVE, GM, RefChans, OutChans
  <2>3. RegsFed'
    BY <1>2, <1>3, <1>5 DEF RegsFed
  <2>4. LoopsFed'
    BY <1>2, <1>3, <1>5, <2>1, <2>2 DEF LoopsFed
  <2>5. QED
    BY <1>3, <2>3, <2>4 DEF LoopInv
<1>6. CASE Sequencer
  <2>1. /\ UNCHANGED <<todo, loaded, reg>>
    BY <1>6 DEF Sequencer, SeqStep, SeqClearDacs, SeqWaitClearDacs,
         SeqDisabled, SeqStartExt, SeqWaitExt, SeqStartHelper, SeqWaitHelper,
         SeqStartMain, SeqWaitMain, SeqReady, mainVars
  <2>2. MainKept
    BY <1>2, <1>6 DEF Sequencer, SeqStep, SeqClearDacs, SeqWaitClearDacs,
         SeqDisabled, SeqStartExt, SeqWaitExt, SeqStartHelper, SeqWaitHelper,
         SeqStartMain, SeqWaitMain, SeqReady, EnableTaggers
  <2>3. Kept1
    <3>1. CASE SeqStartHelper
      <4>1. helper.ref_src \in RefChans \cup OutChans
        BY <1>0, <1>2
      <4>2. QED
        BY <3>1, <4>1 DEF SeqStartHelper, EnableTaggers
    <3>2. CASE ~SeqStartHelper
      <4>1. \/ seq_state' \notin Waiting
            \/ seq_state \in Waiting /\ rcer \subseteq rcer' /\ ocer \subseteq ocer'
        BY <1>6, <3>2 DEF Sequencer, SeqStep, SeqClearDacs, SeqWaitClearDacs,
         SeqDisabled, SeqStartExt, SeqWaitExt, SeqWaitHelper,
         SeqStartMain, SeqWaitMain, SeqReady, EnableTaggers
      <4>2. QED
        BY <1>4, <4>1
    <3>3. QED
      BY <3>1, <3>2
  <2>4. QED
    BY <1>2, <1>5, <2>1, <2>2, <2>3
<1>7. CASE UpdateLoops
  <2>1. UNCHANGED <<todo, loaded, reg, seq_state, rcer, ocer>>
    BY <1>7 DEF UpdateLoops, seqVars, mainVars
  <2>2. QED
    BY <1>2, <1>4, <1>5, <2>1
<1>8. CASE Others
  <2>0. seq_state' = seq_state
    BY <1>8, OthersFrame
  <2>1. CASE Shifts \/ Environment \/ UNCHANGED vars
    <3>1. UNCHANGED <<todo, loaded, reg, rcer, ocer>>
      BY <2>1 DEF Shifts, Environment, vars, SetPhaseShift, SetPhaseShiftAll,
         TagArrives, DacTimeout, RealignTimeout, RequestAux, Settle, IrqEnter,
         regVars, mainVars
    <3>2. QED
      BY <1>2, <1>4, <1>5, <2>0, <3>1
  <2>2. CASE Stepwise
    <3>1. UNCHANGED <<rcer, ocer, loaded>> /\ todo = <<>>
      BY <2>2 DEF Stepwise, CallEnablePtracker, CallDisablePtracker,
         CallStartChannel, CallStopChannel, CallUpdateAux, UnlessMain, regVars,
         Idle
    <3>2. loaded' = FALSE
      BY <3>1, NotLoaded
    <3>3. todo' \in Seq(FedOps(r))
      <4>1. ASSUME NEW q \in Refs, CallEnablePtracker(q)
            PROVE  todo' \in Seq(FedOps(r))
        <5>1. q = r
          BY <1>2 DEF OneReference
        <5>2. /\ EnableTagger(r) \in Seq(FedOps(r))
              /\ EnableTagger(Main) \in Seq(FedOps(r))
              /\ <<Op("mask", r)>> \in Seq(FedOps(r))
          BY <1>2, FedPieces
        <5>3. QED
          BY <4>1, <5>1, <5>2, ConcatProperties DEF CallEnablePtracker
      <4>2. ASSUME NEW q \in Refs, CallDisablePtracker(q)
            PROVE  todo' \in Seq(FedOps(r))
        <5>1. q = mpll.id_ref
          BY <1>2 DEF OneReference, r
        <5>2. todo' = <<>>
          BY <4>2, <5>1 DEF CallDisablePtracker
        <5>3. QED
          BY <5>2, EmptySeq
      <4>3. ASSUME NEW ch \in AuxChans, CallStartChannel(ch) \/ CallStopChannel(ch)
            PROVE  todo' \in Seq(FedOps(r))
        BY <1>2, <4>3, FedPieces DEF CallStartChannel, CallStopChannel
      <4>4. CASE CallUpdateAux
        <5>1. todo' \in [1 .. NOut - 1 -> FedOps(r)] /\ NOut - 1 \in Nat
          BY <1>2, <4>4, FedPieces DEF CallUpdateAux, AuxChans
        <5>2. QED
          BY <5>1, SeqDef
      <4>5. QED
        BY <2>2, <4>1, <4>2, <4>3, <4>4 DEF Stepwise
    <3>4. QED
      BY <1>2, <1>4, <1>5, <2>0, <3>1, <3>2, <3>3
  <2>3. CASE StepRead
    <3>1. /\ UNCHANGED <<todo, rcer, ocer>>
          /\ Head(todo).c \notin RefChans => reg' = ocer
      BY <2>3 DEF StepRead, Chan, UnlessMain, regVars
    <3>2. QED
      BY <1>2, <1>4, <1>5, <2>0, <3>1
  <2>4. CASE StepSet \/ StepClear
    <3>1. /\ loaded = TRUE /\ loaded' = FALSE /\ todo' = Tail(todo)
          /\ \/ Head(todo).op = "set" /\ WriteBack(reg \cup {Chan})
             \/ Head(todo).op = "clear" /\ WriteBack(reg \ {Chan})
      BY <2>4 DEF StepSet, StepClear, WriteBack, Continue, Doing, TypeOK, MainTypeOK
    <3>2. todo # <<>> /\ Head(todo) \in RegOps /\ Head(todo) \in FedOps(r)
      BY <1>2, <3>1, HeadTailProperties DEF TypeOK, MainTypeOK
    <3>3. todo' \in Seq(FedOps(r))
      BY <1>2, <3>1, <3>2, HeadTailProperties
    <3>4. /\ Chan \in RefChans => Head(todo).op = "set" /\ Chan = r
          /\ Head(todo).op = "clear" => Chan # Main
      BY <3>2, RegChannel DEF FedOps, Op, Chan
    <3>5. CASE Chan \in RefChans
      <4>1. ocer' = ocer /\ rcer' = reg \cup {r}
        BY <3>1, <3>4, <3>5 DEF WriteBack
      <4>2. rcer \subseteq RefChans /\ r # Main
        BY <1>0, <1>2 DEF TypeOK, RegTypeOK
      <4>3. QED
        BY <1>0, <1>2, <1>4, <1>5, <2>0, <3>1, <3>3, <4>1, <4>2
    <3>6. CASE Chan \notin RefChans
      <4>1. rcer' = rcer /\ (ocer' = reg \cup {Chan} \/ ocer' = reg \ {Chan})
        BY <3>1, <3>6 DEF WriteBack
      <4>2. Main \in ocer'
        <5>1. CASE mode # GM
          <6>1. Main \in reg
            BY <1>2, <3>1, <3>6, <5>1 DEF Chan
          <6>2. QED
            BY <3>1, <3>4, <3>6, <6>1 DEF WriteBack
        <5>2. CASE mode = GM
          <6>1. NOut = 1
            BY <1>2, <5>2 DEF AuxChans
          <6>2. Chan \in OutChans /\ Head(todo).op = "set"
            BY <1>2, <3>2, <3>6, <5>2 DEF RegOps, Chan
          <6>3. Chan = Main
            BY <6>1, <6>2 DEF OutChans, Main
          <6>4. QED
            BY <3>1, <3>6, <6>2, <6>3 DEF WriteBack
        <5>3. QED
          BY <5>1, <5>2
      <4>3. OutChans \cap RefChans = {} /\ ocer \subseteq OutChans
        BY DEF OutChans, RefChans, TypeOK, RegTypeOK
      <4>4. QED
        BY <1>0, <1>2, <1>4, <1>5, <2>0, <3>1, <3>3, <4>1, <4>2, <4>3
    <3>7. QED
      BY <3>5, <3>6
  <2>5. CASE MainStep /\ ~StepRead /\ ~StepSet /\ ~StepClear
    <3>1. /\ todo # <<>> /\ Head(todo).op \notin {"set", "clear"}
          /\ UNCHANGED <<rcer, ocer, loaded>>
      BY <2>5
         DEF MainStep, StepMask, StepAuxCheck, StepAuxDisable, AuxFsmNone,
             AuxFsmDisabled, AuxFsmLockPll, AuxFsmAlignPhase, AuxFsmReady,
             AuxFsmIn, StepStartChannel, StepMpllReset, StepLdReset,
             StepAuxLockPll, Doing, UnlessMain, regVars
    <3>2. loaded' = FALSE /\ Tail(todo) \in Seq(FedOps(r)) /\ Head(todo) \in Ops
      BY <1>2, <3>1, NotLoaded, HeadTailProperties DEF FedOps
    <3>3. todo' \in Seq(FedOps(r))
      <4>1. CASE StepAuxCheck
        <5>1. Chan \in AuxChans
          BY <3>1, <3>2, <4>1, OpChannel DEF StepAuxCheck, Doing, Chan
        <5> DEFINE d == DisableTagger(AuxOut(Chan))
                   x == <<Op("aux_disable", Chan)>>
                   f == <<Op("aux_fsm", Chan)>>
        <5>2. /\ d \in Seq(FedOps(r)) /\ x \in Seq(FedOps(r))
              /\ f \in Seq(FedOps(r)) /\ <<>> \in Seq(FedOps(r))
          BY <1>2, <5>1, FedPieces
        <5>3. \/ todo' = d \o x \o f \o Tail(todo)
              \/ todo' = <<>> \o f \o Tail(todo)
          BY <4>1 DEF StepAuxCheck
        <5> HIDE DEF d, x, f
        <5>4. /\ d \o x \o f \in Seq(FedOps(r)) /\ <<>> \o f \in Seq(FedOps(r))
          BY <5>2, ConcatProperties
        <5>5. QED
          BY <3>2, <5>3, <5>4, ConcatProperties
      <4>2. CASE AuxFsmDisabled
        <5>1. Chan \in AuxChans
          BY <3>1, <3>2, <4>2, OpChannel DEF AuxFsmDisabled, AuxFsmIn, Doing, Chan
        <5> DEFINE l == <<Op("start_channel", Chan), Op("aux_lock_pll", Chan)>>
        <5>2. l \in Seq(FedOps(r)) /\ <<>> \in Seq(FedOps(r))
          BY <1>2, <5>1, FedPieces
        <5>3. todo' = l \o Tail(todo) \/ todo' = <<>> \o Tail(todo)
          BY <4>2 DEF AuxFsmDisabled
        <5> HIDE DEF l
        <5>4. QED
          BY <3>2, <5>2, <5>3, ConcatProperties
      <4>3. CASE StepStartChannel
        <5>1. Chan \in AuxChans
          BY <3>1, <3>2, <4>3, OpChannel DEF StepStartChannel, Doing, Chan
        <5> DEFINE rs == <<Op("mpll_reset", Chan), Op("ld_reset", Chan)>>
                   er == EnableTagger(r)
                   eo == EnableTagger(AuxOut(Chan))
        <5>2. /\ rs \in Seq(FedOps(r)) /\ er \in Seq(FedOps(r))
              /\ eo \in Seq(FedOps(r)) /\ <<>> \in Seq(FedOps(r))
          BY <1>2, <5>1, FedPieces
        <5>3. \/ todo' = rs \o er \o eo \o Tail(todo)
              \/ todo' = <<>> \o Tail(todo)
          BY <1>2, <4>3, <5>1 DEF StepStartChannel
        <5> HIDE DEF rs, er, eo
        <5>4. rs \o er \o eo \in Seq(FedOps(r))
          BY <5>2, ConcatProperties
        <5>5. QED
          BY <3>2, <5>2, <5>3, <5>4, ConcatProperties
      <4>4. CASE todo' = Tail(todo)
        BY <3>2, <4>4
      <4>5. QED
        BY <2>5, <4>1, <4>2, <4>3, <4>4
           DEF MainStep, StepMask, StepAuxDisable, AuxFsmNone,
             AuxFsmLockPll, AuxFsmAlignPhase, AuxFsmReady,
             StepMpllReset, StepLdReset, StepAuxLockPll, Continue
    <3>4. QED
      BY <1>2, <1>4, <1>5, <2>0, <3>1, <3>2, <3>3
  <2>6. QED
    BY <1>8, <2>1, <2>2, <2>3, <2>4, <2>5 DEF Others
<1>9. QED
  BY <1>6, <1>7, <1>8

(* On a node - one reference, a grandmaster with its main output only -    *)
(* every loop the sequencer waits for keeps the tags it needs, whatever    *)
(* spll_enable_tagger does between two interrupts.                         *)
THEOREM SpllLoopsFed ==
    ASSUME OneReference, GmMainOnly PROVE Spec => []LoopsFed
<1>1. Init => LoopInv
  BY DEF Init, LoopInv, LoopIds, RegsFed, LoopsFed
<1>2. LoopInv => LoopsFed
  BY DEF LoopInv
<1>3. TypeOK /\ LoopInv /\ [Next]_vars => LoopInv'
  BY LoopInductive
<1>4. QED
  BY <1>1, <1>2, <1>3, SpllTypes, PTL DEF Spec
=============================================================================
