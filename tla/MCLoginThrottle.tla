-------------------------- MODULE MCLoginThrottle --------------------------
(* The instances of LoginThrottle that TLC checks. *)
EXTENDS LoginThrottle

CONSTANTS a1, a2, a3

ThreeAttempts == {a1, a2, a3}
=============================================================================
