------------------------- MODULE MCCircuitBreaker -------------------------
(***************************************************************************)
(* Values for the constants of CircuitBreaker that a configuration file    *)
(* cannot write: a function, and numbers below zero.                       *)
(***************************************************************************)
EXTENDS CircuitBreaker

Limits == [hour |-> 1, day |-> 2]
Moves == {-1, 1}
=============================================================================
