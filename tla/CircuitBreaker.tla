--------------------------- MODULE CircuitBreaker ---------------------------
(***************************************************************************)
(* app/core/circuit_breaker.py: one CircuitBreaker shared by the asyncio   *)
(* tasks of a process.  Each critical section under self._lock contains no *)
(* await, so a section is one atomic step; between the section that admits *)
(* a call and the one that records its outcome the downstream call is in   *)
(* flight and every other task may run.                                    *)
(*                                                                         *)
(* Time is kept as ages that saturate at RecoveryTimeout: the code only    *)
(* ever compares time.monotonic() - opened_at with recovery_timeout.       *)
(***************************************************************************)
EXTENDS Naturals, FiniteSets

CONSTANTS
    Calls,              \* tasks that use the breaker, again and again
    Styles,             \* the entry points in use, a subset of {"call", "with"}
    Outcomes,           \* how a downstream call may end, a subset of Endings
    FailureThreshold,
    RecoveryTimeout,
    HalfOpenMaxCalls,
    CountCap            \* bound: where the failure count stops growing

\* "refused" is a CircuitBreakerOpen raised below, by another breaker;
\* "cancelled" is asyncio.CancelledError, which is not an Exception.
Endings == {"success", "failure", "cancelled", "refused"}

ASSUME ConstantsAssumption ==
    /\ Styles \subseteq {"call", "with"}
    /\ Outcomes \subseteq Endings
    /\ FailureThreshold \in Nat \ {0}
    /\ RecoveryTimeout \in Nat
    /\ HalfOpenMaxCalls \in Nat \ {0}
    /\ CountCap \in Nat /\ CountCap >= FailureThreshold

ASSUME CallsAssumption == IsFiniteSet(Calls)

VARIABLES
    state,              \* self._state
    failure_count,      \* self._failure_count
    open_age,           \* now - self._opened_at; RecoveryTimeout when it is None
    half_open_calls,    \* self._half_open_calls
    flight,             \* what each task has in flight
    style,              \* the entry point each task came through
    failure_age,        \* history: time since the last recorded failure
    streak              \* history: failures recorded since the last success

vars == <<state, failure_count, open_age, half_open_calls, flight, style,
          failure_age, streak>>

\* "probe" is a call let through in the half-open episode that still lasts,
\* "stale" one whose episode is over.
InFlight == {"normal", "probe", "stale"}

TypeOK ==
    /\ state \in {"closed", "open", "half-open"}
    /\ failure_count \in 0..CountCap
    /\ open_age \in 0..RecoveryTimeout
    /\ half_open_calls \in 0..HalfOpenMaxCalls
    /\ flight \in [Calls -> InFlight \cup {"none"}]
    /\ style \in [Calls -> {"call", "with"}]
    /\ failure_age \in 0..RecoveryTimeout
    /\ streak \in 0..CountCap

Init ==
    /\ state = "closed"
    /\ failure_count = 0
    /\ open_age = RecoveryTimeout
    /\ half_open_calls = 0
    /\ flight = [c \in Calls |-> "none"]
    /\ style \in [Calls -> Styles]
    /\ failure_age = RecoveryTimeout
    /\ streak = 0

Count(n) == IF n < CountCap THEN n + 1 ELSE n

-----------------------------------------------------------------------------
(* Admission: _check_and_maybe_transition.                                  *)

AdmitClosed(c) ==
    /\ state = "closed"
    /\ flight' = [flight EXCEPT ![c] = "normal"]
    /\ UNCHANGED <<state, half_open_calls>>

\* Mutant: the comparison is one unit of time too generous.
RecoveryElapsed_early == open_age + 1 >= RecoveryTimeout

RecoveryElapsed == open_age >= RecoveryTimeout

\* Mutant: the first probe of an episode does not reset the slots.
AdmitFirstProbe_noReset(c) ==
    /\ state = "open"
    /\ RecoveryElapsed
    /\ state' = "half-open"
    /\ flight' = [flight EXCEPT ![c] = "probe"]
    /\ UNCHANGED half_open_calls

AdmitFirstProbe(c) ==
    /\ state = "open"
    /\ RecoveryElapsed
    /\ state' = "half-open"
    /\ half_open_calls' = 1
    /\ flight' = [flight EXCEPT ![c] = "probe"]

AdmitNextProbe(c) ==
    /\ state = "half-open"
    /\ half_open_calls < HalfOpenMaxCalls
    /\ half_open_calls' = half_open_calls + 1
    /\ flight' = [flight EXCEPT ![c] = "probe"]
    /\ UNCHANGED state

Admit(c) ==
    /\ flight[c] = "none"
    /\ AdmitClosed(c) \/ AdmitFirstProbe(c) \/ AdmitNextProbe(c)
    /\ \E s \in Styles : style' = [style EXCEPT ![c] = s]
    /\ UNCHANGED <<failure_count, open_age, failure_age, streak>>

\* CircuitBreakerOpen is raised to the caller and nothing changes.
Reject(c) ==
    /\ flight[c] = "none"
    /\ \/ state = "open" /\ ~RecoveryElapsed
       \/ state = "half-open" /\ half_open_calls >= HalfOpenMaxCalls
    /\ UNCHANGED vars

-----------------------------------------------------------------------------
(* Outcomes: record_success, record_failure, and the endings neither sees.  *)

\* Task c is done; if the half-open episode ends, its other probes are stale.
Landed(c, episodeOver) ==
    [d \in Calls |->
        CASE d = c -> "none"
          [] d # c /\ flight[d] = "probe" /\ episodeOver -> "stale"
          [] OTHER -> flight[d]]

\* Mutant: a success does not clear the failure count.
record_success_keepsCount(c) ==
    /\ state' = "closed"
    /\ open_age' = RecoveryTimeout
    /\ half_open_calls' = 0
    /\ flight' = Landed(c, TRUE)
    /\ streak' = 0
    /\ UNCHANGED <<failure_count, failure_age>>

record_success(c) ==
    /\ state' = "closed"
    /\ failure_count' = 0
    /\ open_age' = RecoveryTimeout
    /\ half_open_calls' = 0
    /\ flight' = Landed(c, TRUE)
    /\ streak' = 0
    /\ UNCHANGED failure_age

\* Mutant: a failed probe does not restart the recovery timeout.
ReopenAfterProbe_oldTimer ==
    /\ state = "half-open"
    /\ state' = "open"
    /\ UNCHANGED <<failure_count, open_age>>

\* half_open_calls keeps its value here: only the next episode resets it.
ReopenAfterProbe ==
    /\ state = "half-open"
    /\ state' = "open"
    /\ open_age' = 0
    /\ UNCHANGED failure_count

CountFailure ==
    /\ state # "half-open"
    /\ failure_count' = Count(failure_count)
    /\ IF failure_count + 1 >= FailureThreshold
         THEN state' = "open" /\ open_age' = 0
         ELSE UNCHANGED <<state, open_age>>

record_failure(c) ==
    /\ ReopenAfterProbe \/ CountFailure
    /\ flight' = Landed(c, state = "half-open")
    /\ failure_age' = 0
    /\ streak' = Count(streak)
    /\ UNCHANGED half_open_calls

\* Mutant: __aexit__ ignores a cancellation, as call() does.
CountsAsFailure_exceptionsOnly(c, how) == how = "failure"

\* call() records an Exception only; __aexit__ records whatever is not
\* CircuitBreakerOpen, a cancellation included.
CountsAsFailure(c, how) ==
    \/ how = "failure"
    \/ how = "cancelled" /\ style[c] = "with"

Unrecorded(c) ==
    /\ flight' = Landed(c, FALSE)
    /\ UNCHANGED <<state, failure_count, open_age, half_open_calls,
                   failure_age, streak>>

Finish(c, how) ==
    /\ flight[c] # "none"
    /\ CASE how = "success" -> record_success(c)
         [] CountsAsFailure(c, how) -> record_failure(c)
         [] OTHER -> Unrecorded(c)
    /\ UNCHANGED style

-----------------------------------------------------------------------------
Tick ==
    /\ open_age < RecoveryTimeout \/ failure_age < RecoveryTimeout
    /\ open_age' = IF open_age < RecoveryTimeout THEN open_age + 1 ELSE open_age
    /\ failure_age' = IF failure_age < RecoveryTimeout
                        THEN failure_age + 1 ELSE failure_age
    /\ UNCHANGED <<state, failure_count, half_open_calls, flight, style, streak>>

Next ==
    \/ Tick
    \/ \E c \in Calls : Admit(c) \/ Reject(c)
    \/ \E c \in Calls, how \in Outcomes : Finish(c, how)

Spec == Init /\ [][Next]_vars

\* Time passes, and a downstream call that was let through ends some day.
Fairness ==
    /\ WF_vars(Tick)
    /\ \A c \in Calls : WF_vars(\E how \in Outcomes : Finish(c, how))

FairSpec == Spec /\ Fairness

-----------------------------------------------------------------------------
(* Safety.                                                                  *)

Probing == {c \in Calls : flight[c] = "probe"}

\* The circuit is closed exactly while fewer than failure_threshold failures
\* have been counted: no path, late results included, closes it with a full
\* count or leaves it open with an empty one.
ClosedIffBelowThreshold ==
    (state = "closed") <=> (failure_count < FailureThreshold)

\* The slots a half-open episode hands out are never exceeded, and every
\* probe of the episode that is still running holds one.
ProbeSlots ==
    /\ state # "half-open" => Probing = {}
    /\ Cardinality(Probing) <= half_open_calls

\* While the circuit is not closed, a failure recorded by any call, probe or
\* straggler, keeps the downstream free of new calls for the whole recovery
\* timeout: half-open is entered, and lasts, only when no failure is fresh.
QuietBeforeProbe ==
    [][ \A c \in Calls :
          (flight[c] = "none" /\ flight'[c] = "probe")
             => failure_age >= RecoveryTimeout ]_vars

\* "Consecutive failures to open the circuit": the circuit leaves CLOSED only
\* on a step that completes a run of failure_threshold recorded failures with
\* no recorded success among them.
OpensOnConsecutiveFailures ==
    [][ state = "closed" /\ state' # "closed"
          => state' = "open" /\ streak' >= FailureThreshold ]_vars

-----------------------------------------------------------------------------
(* The documented pattern.                                                  *)

Fowler == INSTANCE FowlerBreaker WITH circuit <- state, waited <- open_age

\* The breaker behaves as the documented three-state machine.
FowlerPattern == Fowler!FowlerSpec

\* A result that belongs to no current episode: its call was let through
\* while the circuit was in a state that has ended since.
LateResult ==
    \E c \in Calls :
        /\ flight'[c] = "none"
        /\ flight[c] = "stale" \/ (flight[c] = "normal" /\ state # "closed")

\* However the tasks interleave, every step of the breaker is a transition of
\* the documented diagram or leaves its state alone, late results excepted:
\* record_success and record_failure do not ask which episode let a call in.
FowlerExceptLate ==
    /\ Fowler!FowlerInit
    /\ [][[Fowler!FowlerNext]_(Fowler!fowlerVars) \/ LateResult]_vars

-----------------------------------------------------------------------------
(* Liveness.                                                                *)

\* A half-open circuit whose probe slots are taken resolves: "success ->
\* CLOSED, failure -> OPEN".
HalfOpenResolves ==
    (state = "half-open" /\ half_open_calls = HalfOpenMaxCalls)
        ~> (state # "half-open")

\* It does when every task comes through the context manager, whose __aexit__
\* records a cancellation too (as long as no inner breaker refuses a call).
HalfOpenResolvesInWith ==
    [](\A c \in Calls : style[c] = "with") => HalfOpenResolves
=============================================================================
