------------------------------ MODULE MCRedis ------------------------------
(* The instances of the two services that keep their state in Redis, or in  *)
(* a dict of the process without it: a behaviour is one of a single         *)
(* service, the other keeps an initial state.                               *)
EXTENDS Idempotency, MCLoginThrottle

CONSTANTS p1, p2, r1, r2, r3

TwoProcesses == {p1, p2}
ThreeRequests == {r1, r2, r3}

VARIABLE part

MCInit ==
    /\ part \in {"idempotency", "throttle"}
    /\ Init /\ ThrottleInit
    /\ IF part = "idempotency" THEN counter = "local" ELSE backend = "local"

MCNext ==
    /\ UNCHANGED part
    /\ \/ part = "idempotency" /\ Next /\ UNCHANGED throttleVars
       \/ part = "throttle" /\ ThrottleNext /\ UNCHANGED vars

\* Each with the fairness it states for itself.
MCSpec == MCInit /\ [][MCNext]_<<part, vars, throttleVars>> /\ ThrottleFairness
=============================================================================
