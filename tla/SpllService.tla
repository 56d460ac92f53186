---------------------------- MODULE SpllService ----------------------------
(***************************************************************************)
(* What the SoftPLL promises to the programs that use it through           *)
(* softpll_ng.h: it is off, acquiring lock or locked; spll_check_lock(0)   *)
(* tells whether it is locked; and spll_get_delock_count "returns how many *)
(* time the PLL has de-locked since last call of spll_init".               *)
(***************************************************************************)
EXTENDS Naturals

VARIABLES state,    \* "off", "acquiring" or "locked"
          delocks   \* spll_get_delock_count()

svars == <<state, delocks>>

SInit == state = "off" /\ delocks = 0

\* spll_init: whatever was locked is not any more.
Configure == state' \in {"off", "acquiring"} /\ delocks' = 0

Acquire == state = "acquiring" /\ state' = "locked" /\ delocks' = delocks

\* Every loss of lock is counted, once.
Lose == state = "locked" /\ state' = "acquiring" /\ delocks' = delocks + 1

SNext == Configure \/ Acquire \/ Lose

SSpec == SInit /\ [][SNext]_svars
=============================================================================
