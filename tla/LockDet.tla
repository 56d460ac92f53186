------------------------------ MODULE LockDet ------------------------------
(***************************************************************************)
(* The lock detector shared by every loop of the SoftPLL                   *)
(* (softpll/spll_common.c, ld_init and ld_update) as operators on its      *)
(* state.  An error sample is reduced to the one thing the detector looks  *)
(* at: whether it is inside the range <-threshold, threshold>.             *)
(***************************************************************************)
EXTENDS Integers

\* What spll_lock_det_t keeps between samples (lock_samples = lock).
LdStates(lock) == [locked : {0, 1}, cnt : 0 .. lock, changed : {0, 1}]

LdInit == [locked |-> 0, cnt |-> 0, changed |-> 0]

\* abs(y) <= ld->threshold
InRange(y, threshold) == -threshold <= y /\ y <= threshold

\* Mutated: the increment is two; a bad sample drops straight to the delock mark; a good one never reaches the top.
LdCountByTwo(ld, ok, lock, delock) ==
    IF ok THEN IF ld.cnt + 1 < lock THEN ld.cnt + 2 ELSE lock
          ELSE IF ld.cnt > delock   THEN ld.cnt - 1 ELSE ld.cnt
LdCountDrops(ld, ok, lock, delock) ==
    IF ok THEN IF ld.cnt < lock THEN ld.cnt + 1 ELSE ld.cnt ELSE delock
LdCountStalls(ld, ok, lock, delock) ==
    IF ok THEN IF ld.cnt + 1 < lock THEN ld.cnt + 1 ELSE ld.cnt
          ELSE IF ld.cnt > delock   THEN ld.cnt - 1 ELSE ld.cnt

\* The counter after the increment or the decrement of ld_update, before the
\* comparison with lock_samples or delock_samples.
LdCount(ld, ok, lock, delock) ==
    IF ok THEN IF ld.cnt < lock   THEN ld.cnt + 1 ELSE ld.cnt
          ELSE IF ld.cnt > delock THEN ld.cnt - 1 ELSE ld.cnt

\* Mutated: the lock is never given up.
LdUpdateKeepsLock(ld, ok, lock, delock) ==
    LET cnt == LdCount(ld, ok, lock, delock)
    IN  [locked  |-> IF ok /\ cnt = lock THEN 1 ELSE ld.locked,
         cnt     |-> IF ~ok /\ cnt = delock THEN 0 ELSE cnt,
         changed |-> IF cnt = IF ok THEN lock ELSE delock THEN 1 ELSE 0]

LdUpdate(ld, ok, lock, delock) ==
    LET cnt == LdCount(ld, ok, lock, delock)
    IN  IF ok
        THEN [locked  |-> IF cnt = lock THEN 1 ELSE ld.locked,
              cnt     |-> cnt,
              changed |-> IF cnt = lock THEN 1 ELSE 0]
        ELSE [locked  |-> IF cnt = delock THEN 0 ELSE ld.locked,
              cnt     |-> IF cnt = delock THEN 0 ELSE cnt,
              changed |-> IF cnt = delock THEN 1 ELSE 0]

\* The value ld_update returns.
LdReturn(ld, ok, lock, delock) ==
    LET cnt == LdCount(ld, ok, lock, delock)
    IN  CASE ok /\ cnt = lock      -> 1
          [] ~ok /\ cnt = delock   -> -1
          [] OTHER                 -> ld.locked

(***************************************************************************)
(* The shape every detector that is reached through ld_init and ld_update  *)
(* alone has: a locked detector is above the delock mark (so that bad      *)
(* samples can still bring it down), an unlocked one is below the lock     *)
(* mark.                                                                   *)
(***************************************************************************)
LdCoherent(ld, lock, delock) ==
    IF ld.locked = 1 THEN ld.cnt > delock ELSE ld.cnt < lock
=============================================================================
