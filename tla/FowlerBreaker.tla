--------------------------- MODULE FowlerBreaker ---------------------------
(***************************************************************************)
(* The three-state breaker that the module docstring of                    *)
(* app/core/circuit_breaker.py and docs/operations/circuit-breakers.md     *)
(* promise: CLOSED -> OPEN -> HALF-OPEN -> CLOSED, a failed probe going    *)
(* back to OPEN, and OPEN left only through HALF-OPEN once the recovery    *)
(* timeout has passed since the circuit (re)opened.                        *)
(***************************************************************************)
EXTENDS Naturals

CONSTANT RecoveryTimeout

VARIABLES
    circuit,    \* "closed", "open" or "half-open"
    waited      \* time since the circuit opened, saturating at RecoveryTimeout

fowlerVars == <<circuit, waited>>

FowlerInit ==
    /\ circuit = "closed"
    /\ waited = RecoveryTimeout

\* Enough consecutive failures open the circuit, a failed probe reopens it;
\* a straggler that fails while it is open restarts the recovery timeout.
Trip ==
    /\ circuit' = "open"
    /\ waited' = 0

\* The recovery timeout has elapsed: the next call becomes a probe.
LetProbe ==
    /\ circuit = "open"
    /\ waited = RecoveryTimeout
    /\ circuit' = "half-open"
    /\ UNCHANGED waited

\* A probe succeeded.
Close ==
    /\ circuit = "half-open"
    /\ circuit' = "closed"
    /\ waited' = RecoveryTimeout

Wait ==
    /\ waited < RecoveryTimeout
    /\ waited' = waited + 1
    /\ UNCHANGED circuit

FowlerNext == Trip \/ LetProbe \/ Close \/ Wait

FowlerSpec == FowlerInit /\ [][FowlerNext]_fowlerVars
=============================================================================
