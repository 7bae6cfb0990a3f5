-------------------------- MODULE MCCircuitBreaker --------------------------
(* The instances of CircuitBreaker that TLC checks. *)
EXTENDS CircuitBreaker

CONSTANTS c1, c2, c3

ThreeCalls == {c1, c2, c3}
=============================================================================
