------------------------------ MODULE MCRxPath ------------------------------
(* RxPath for TLC: a short frame, one for another socket that the driver   *)
(* cuts to its buffer, and one with an error.                              *)
EXTENDS RxPath

CONSTANTS a, b

MCWire == {[dst |-> a, size |-> 2, err |-> FALSE], [dst |-> b, size |-> 4, err |-> FALSE],
           [dst |-> a, size |-> 2, err |-> TRUE]}
=============================================================================
