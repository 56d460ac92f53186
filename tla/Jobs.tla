-------------------------------- MODULE Jobs --------------------------------
(***************************************************************************)
(* A computation is checked on every input of a bounded set: a state holds *)
(* the input of one of them, and the invariants compare what the code      *)
(* computes with what it is for.                                           *)
(***************************************************************************)
VARIABLE job    \* the input, with the name of the computation

Idle == [alg |-> "none"]

\* Only taken from Idle.
Start(input) == job' = input

Finish == job # Idle /\ job' = Idle
=============================================================================
