----------------------------- MODULE RpcService -----------------------------
(***************************************************************************)
(* What a remote procedure call promises its caller: the procedure runs    *)
(* exactly once between the call and the return, with the arguments of     *)
(* this call, and the value returned is the one that run produced.         *)
(***************************************************************************)
CONSTANTS Requests, Nothing

VARIABLES phase,    \* "idle", "called" or "done"
          call,     \* the request of the call in progress
          result    \* the request whose result is handed back

rvars == <<phase, call, result>>

RInit == phase = "idle" /\ call = Nothing /\ result = Nothing

Invoke == /\ phase = "idle" /\ phase' = "called"
          /\ call' \in Requests /\ result' = Nothing

Run == /\ phase = "called" /\ phase' = "done"
       /\ result' = call /\ call' = call

Deliver == /\ phase = "done" /\ phase' = "idle"
           /\ call' = Nothing /\ result' = Nothing

RNext == Invoke \/ Run \/ Deliver

RSpec == RInit /\ [][RNext]_rvars
=============================================================================
