---------------------------- MODULE LockDetector ----------------------------
(***************************************************************************)
(* One lock detector driven by a stream of error samples, with the history *)
(* needed to say what "locked" is worth: how many good samples it took to  *)
(* lock and how many bad ones to lose the lock.                            *)
(***************************************************************************)
EXTENDS LockDet, TLAPS

CONSTANTS Threshold,      \* ld.threshold
          LockSamples,    \* ld.lock_samples
          DelockSamples,  \* ld.delock_samples
          MaxErr          \* bound: error samples range over -MaxErr .. MaxErr

ASSUME DetectorAssumption ==
    /\ Threshold \in Nat
    /\ LockSamples \in Nat
    /\ DelockSamples \in Nat
    /\ DelockSamples < LockSamples
    /\ MaxErr \in Nat

VARIABLES ld,     \* the detector
          ret,    \* what the last ld_update returned
          last,   \* the last error sample
          good,   \* history: in-range samples since the lock was last lost
          bad     \* history: out-of-range samples since the lock was gained

vars == <<ld, ret, last, good, bad>>

Errors == -MaxErr .. MaxErr
Hysteresis == LockSamples - DelockSamples

TypeOK == /\ ld \in LdStates(LockSamples)
          /\ ret \in -1 .. 1
          /\ last \in Errors
          /\ good \in 0 .. LockSamples
          /\ bad \in 0 .. Hysteresis

Init == /\ ld = LdInit
        /\ ret = 0
        /\ last = 0
        /\ good = 0
        /\ bad = 0

\* n + 1, saturating at the most that a property asks about.
Bump(n, most) == IF n < most THEN n + 1 ELSE n

\* ld_update on the next error sample of the loop.
Sample(y) ==
    LET ok  == InRange(y, Threshold)
        new == LdUpdate(ld, ok, LockSamples, DelockSamples)
    IN  /\ ld' = new
        /\ ret' = LdReturn(ld, ok, LockSamples, DelockSamples)
        /\ last' = y
        /\ good' = IF ld.locked = 1 /\ new.locked = 0 THEN 0
                   ELSE IF ok THEN Bump(good, LockSamples) ELSE good
        /\ bad' = IF ld.locked = 0 /\ new.locked = 1 THEN 0
                  ELSE IF ok THEN bad ELSE Bump(bad, Hysteresis)

\* The loop is started again: helper_start, mpll_start, external_init.
Restart ==
    /\ ld' = LdInit
    /\ ret' = 0
    /\ good' = 0
    /\ bad' = 0
    /\ last' = last

Next == (\E y \in Errors : Sample(y)) \/ Restart

Spec == Init /\ [][Next]_vars

\* Tags, hence samples, never stop on an enabled tagger.
FairSpec == Spec /\ WF_vars(\E y \in Errors : Sample(y))
-----------------------------------------------------------------------------
(***************************************************************************)
(* ld_update never leaves the detector locked at or below the delock mark, *)
(* where its decrement would stop and no number of bad samples would       *)
(* unlock it, nor unlocked at the lock mark.                               *)
(***************************************************************************)
Coherent == LdCoherent(ld, LockSamples, DelockSamples)

(***************************************************************************)
(* The lock is earned: ld_update goes from unlocked to locked only when it *)
(* has been shown lock_samples good samples since it was last unlocked.    *)
(***************************************************************************)
NoEarlyLock == [][ld.locked = 0 /\ ld'.locked = 1 => good' = LockSamples]_vars

(***************************************************************************)
(* The lock is held: ld_update gives it up (returns -1 from locked) only   *)
(* after lock_samples - delock_samples bad samples since it was gained, so *)
(* that one glitch never restarts a PLL.                                   *)
(***************************************************************************)
NoEarlyDelock ==
    [][ld.locked = 1 /\ ret' = -1 => bad' = Hysteresis /\ ld'.locked = 0]_vars

(***************************************************************************)
(* A loop whose error settles inside the range ends up locked, whatever    *)
(* the detector counted before.                                            *)
(***************************************************************************)
SettledLocks ==
    <>[][InRange(last', Threshold) /\ ~(ret' = 0 /\ ld' = LdInit)]_vars
        => <>[](ld.locked = 1)
-----------------------------------------------------------------------------
(***************************************************************************)
(* What the detector guarantees, for every threshold and every pair of     *)
(* marks with delock_samples < lock_samples.                               *)
(***************************************************************************)

(***************************************************************************)
(* The inductive invariant: while the detector is unlocked its counter is  *)
(* covered by the good samples seen, while it is locked the distance it    *)
(* has fallen from the lock mark is covered by the bad ones.               *)
(***************************************************************************)
Covered == IF ld.locked = 1 THEN LockSamples - ld.cnt <= bad
                        ELSE ld.cnt <= good

IInv == TypeOK /\ Coherent /\ Covered

(* One sample preserves the invariant, and earns every change of lock.     *)
LEMMA SampleStep ==
    ASSUME IInv, NEW y \in Errors, Sample(y)
    PROVE  /\ IInv'
           /\ ld.locked = 0 /\ ld'.locked = 1 => good' = LockSamples
           /\ ld.locked = 1 /\ ret' = -1 => bad' = Hysteresis /\ ld'.locked = 0
<1> DEFINE ok == InRange(y, Threshold)
           cnt == LdCount(ld, ok, LockSamples, DelockSamples)
<1> USE DetectorAssumption
<1>1. /\ ld \in LdStates(LockSamples)
      /\ ld.locked \in {0, 1} /\ ld.cnt \in 0 .. LockSamples
      /\ good \in 0 .. LockSamples /\ bad \in 0 .. Hysteresis
      /\ ok \in BOOLEAN
  BY DEF IInv, TypeOK, LdStates, InRange
<1>2. /\ ld' \in LdStates(LockSamples)
      /\ Coherent'
  <2>1. ld' = LdUpdate(ld, ok, LockSamples, DelockSamples)
    BY DEF Sample
  <2>2. LdCoherent(ld, LockSamples, DelockSamples)
    BY DEF IInv, Coherent
  <2>3. CASE ok
    BY <1>1, <2>1, <2>2, <2>3 DEF LdUpdate, LdCount, LdStates, LdCoherent, Coherent
  <2>4. CASE ~ok
    BY <1>1, <2>1, <2>2, <2>4 DEF LdUpdate, LdCount, LdStates, LdCoherent, Coherent
  <2>5. QED
    BY <2>3, <2>4
<1>3. /\ ret' \in -1 .. 1 /\ last' \in Errors
  BY <1>1 DEF Sample, LdReturn
<1>4. CASE ok
  <2>1. /\ ld' = [locked |-> IF cnt = LockSamples THEN 1 ELSE ld.locked,
                  cnt |-> cnt,
                  changed |-> IF cnt = LockSamples THEN 1 ELSE 0]
        /\ cnt = IF ld.cnt < LockSamples THEN ld.cnt + 1 ELSE ld.cnt
        /\ ret' # -1
    BY <1>4, <1>1 DEF Sample, LdUpdate, LdCount, LdReturn
  <2>2. /\ good' = Bump(good, LockSamples)
        /\ bad' = IF ld.locked = 0 /\ ld'.locked = 1 THEN 0 ELSE bad
    <3>1. ~(ld.locked = 1 /\ ld'.locked = 0)
      BY <1>1, <2>1
    <3>2. /\ good' = IF ld.locked = 1 /\ ld'.locked = 0 THEN 0
                     ELSE IF ok THEN Bump(good, LockSamples) ELSE good
          /\ bad' = IF ld.locked = 0 /\ ld'.locked = 1 THEN 0
                    ELSE IF ok THEN bad ELSE Bump(bad, Hysteresis)
      BY DEF Sample
    <3>3. QED
      BY <1>4, <3>1, <3>2
  <2>3. good' \in 0 .. LockSamples /\ bad' \in 0 .. Hysteresis
    BY <1>1, <2>2 DEF Bump, Hysteresis
  <2>4. Covered' /\ (ld.locked = 0 /\ ld'.locked = 1 => good' = LockSamples)
    BY <1>1, <2>1, <2>2 DEF IInv, Covered, Coherent, LdCoherent, Bump
  <2>5. QED
    BY <1>2, <1>3, <2>1, <2>3, <2>4 DEF IInv, TypeOK
<1>5. CASE ~ok
  <2>1. /\ ld' = [locked |-> IF cnt = DelockSamples THEN 0 ELSE ld.locked,
                  cnt |-> IF cnt = DelockSamples THEN 0 ELSE cnt,
                  changed |-> IF cnt = DelockSamples THEN 1 ELSE 0]
        /\ cnt = IF ld.cnt > DelockSamples THEN ld.cnt - 1 ELSE ld.cnt
        /\ ret' = -1 => cnt = DelockSamples
    BY <1>5, <1>1 DEF Sample, LdUpdate, LdCount, LdReturn
  <2>2. /\ good' = IF ld.locked = 1 /\ ld'.locked = 0 THEN 0 ELSE good
        /\ bad' = Bump(bad, Hysteresis)
    BY <1>5, <2>1 DEF Sample
  <2>3. good' \in 0 .. LockSamples /\ bad' \in 0 .. Hysteresis
    BY <1>1, <2>2 DEF Bump, Hysteresis
  <2>4. /\ Covered'
        /\ ld.locked = 1 /\ ret' = -1 => bad' = Hysteresis /\ ld'.locked = 0
    BY <1>1, <2>1, <2>2
       DEF IInv, Covered, Coherent, LdCoherent, Bump, Hysteresis
  <2>5. QED
    BY <1>2, <1>3, <2>1, <2>3, <2>4 DEF IInv, TypeOK
<1>6. QED
  BY <1>1, <1>4, <1>5

(* A restarted loop begins with nothing counted.                           *)
LEMMA RestartStep ==
    ASSUME IInv, Restart
    PROVE  IInv' /\ ret' # -1 /\ ld'.locked = 0
BY DetectorAssumption
   DEF IInv, TypeOK, Coherent, Covered, LdCoherent, Restart, LdInit,
       LdStates, Hysteresis

(* The strengthened invariant holds in every state: of ld_init and after   *)
(* every call of ld_update.                                                *)
LEMMA Inductive == Spec => []IInv
<1>1. Init => IInv
  BY DetectorAssumption
     DEF Init, IInv, TypeOK, Coherent, Covered, LdCoherent, LdInit, LdStates,
         Errors, Hysteresis
<1>2. IInv /\ [Next]_vars => IInv'
  <2> SUFFICES ASSUME IInv, [Next]_vars PROVE IInv'
    OBVIOUS
  <2>1. CASE Next
    BY <2>1, SampleStep, RestartStep DEF Next
  <2>2. CASE UNCHANGED vars
    BY <2>2 DEF vars, IInv, TypeOK, Coherent, Covered
  <2>3. QED
    BY <2>1, <2>2
<1>3. QED
  BY <1>1, <1>2, PTL DEF Spec

(* Every detector is well-formed and coherent at all times: bad samples    *)
(* can always unlock it (ld_update, ld_init).                              *)
THEOREM DetectorCoherent == Spec => [](TypeOK /\ Coherent)
<1>1. IInv => TypeOK /\ Coherent
  BY DEF IInv
<1>2. QED
  BY <1>1, Inductive, PTL

(* ld_update reports lock only after lock_samples good samples since the   *)
(* lock was last lost.                                                     *)
THEOREM LockIsEarned == Spec => NoEarlyLock
<1>1. IInv /\ [Next]_vars => [ld.locked = 0 /\ ld'.locked = 1 => good' = LockSamples]_vars
  <2> SUFFICES ASSUME IInv, Next, ld.locked = 0, ld'.locked = 1
               PROVE  good' = LockSamples
    BY DEF vars
  <2>1. QED
    BY SampleStep, RestartStep DEF Next
<1>2. QED
  BY <1>1, Inductive, PTL DEF Spec, NoEarlyLock

(* ld_update gives a lock up only after lock_samples - delock_samples bad  *)
(* samples since it was gained.                                            *)
THEOREM LockIsHeld == Spec => NoEarlyDelock
<1>1. IInv /\ [Next]_vars
        => [ld.locked = 1 /\ ret' = -1 => bad' = Hysteresis /\ ld'.locked = 0]_vars
  <2> SUFFICES ASSUME IInv, Next, ld.locked = 1, ret' = -1
               PROVE  bad' = Hysteresis /\ ld'.locked = 0
    BY DEF vars
  <2>1. QED
    BY SampleStep, RestartStep DEF Next
<1>2. QED
  BY <1>1, Inductive, PTL DEF Spec, NoEarlyDelock
=============================================================================
