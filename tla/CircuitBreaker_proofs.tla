----------------------- MODULE CircuitBreaker_proofs -----------------------
(* Theorems about CircuitBreaker, for any set of tasks and any thresholds.  *)
EXTENDS CircuitBreaker, FiniteSetTheorems, TLAPS

-----------------------------------------------------------------------------
(* Types.                                                                   *)

\* The types of the next flight table, whoever lands and whether or not the
\* half-open episode ends.
LEMMA LandedType ==
    ASSUME TypeOK, NEW c \in Calls, NEW b \in BOOLEAN
    PROVE  Landed(c, b) \in [Calls -> InFlight \cup {"none"}]
BY DEF Landed, TypeOK, InFlight

\* Counting a failure stays within the cap.
LEMMA CountType ==
    ASSUME NEW n \in 0..CountCap
    PROVE  Count(n) \in 0..CountCap
BY ConstantsAssumption DEF Count

\* Every variable keeps its type, whatever the interleaving of admissions,
\* results and clock ticks.
THEOREM TypeCorrect == Spec => []TypeOK
<1>1. Init => TypeOK
  <2>1. Init => style \in [Calls -> {"call", "with"}]
    BY ConstantsAssumption DEF Init
  <2> QED
    BY <2>1, ConstantsAssumption DEF Init, TypeOK, InFlight
<1>2. TypeOK /\ [Next]_vars => TypeOK'
  <2> SUFFICES ASSUME TypeOK, [Next]_vars PROVE TypeOK'
    OBVIOUS
  <2>1. CASE Tick
    BY <2>1, ConstantsAssumption DEF Tick, TypeOK
  <2>2. ASSUME NEW c \in Calls, Admit(c) PROVE TypeOK'
    <3>1. flight' \in [Calls -> InFlight \cup {"none"}]
      BY <2>2 DEF Admit, AdmitClosed, AdmitFirstProbe, AdmitNextProbe, TypeOK, InFlight
    <3>2. style' \in [Calls -> {"call", "with"}]
      BY <2>2, ConstantsAssumption DEF Admit, TypeOK
    <3>3. state' \in {"closed", "open", "half-open"}
          /\ half_open_calls' \in 0..HalfOpenMaxCalls
      BY <2>2, ConstantsAssumption
      DEF Admit, AdmitClosed, AdmitFirstProbe, AdmitNextProbe, TypeOK
    <3>4. UNCHANGED <<failure_count, open_age, failure_age, streak>>
      BY <2>2 DEF Admit
    <3> QED
      BY <3>1, <3>2, <3>3, <3>4 DEF TypeOK
  <2>3. ASSUME NEW c \in Calls, NEW how \in Outcomes, Finish(c, how) PROVE TypeOK'
    <3>1. CASE record_success(c)
      <4>1. TRUE \in BOOLEAN
        OBVIOUS
      <4>2. flight' \in [Calls -> InFlight \cup {"none"}]
        BY <3>1, <4>1, LandedType DEF record_success
      <4>3. UNCHANGED <<style, failure_age>>
        BY <2>3, <3>1 DEF Finish, record_success
      <4>4. /\ state' = "closed" /\ failure_count' = 0 /\ streak' = 0
            /\ open_age' = RecoveryTimeout /\ half_open_calls' = 0
        BY <3>1 DEF record_success
      <4> QED
        BY <4>2, <4>3, <4>4, ConstantsAssumption DEF TypeOK
    <3>2. CASE record_failure(c)
      <4>1. (state = "half-open") \in BOOLEAN
        OBVIOUS
      <4>2. flight' \in [Calls -> InFlight \cup {"none"}]
        BY <3>2, <4>1, LandedType DEF record_failure
      <4>3. streak' \in 0..CountCap /\ failure_age' \in 0..RecoveryTimeout
        BY <3>2, CountType, ConstantsAssumption DEF record_failure, TypeOK
      <4>4. /\ state' \in {"closed", "open", "half-open"}
            /\ failure_count' \in 0..CountCap
            /\ open_age' \in 0..RecoveryTimeout
        BY <3>2, CountType, ConstantsAssumption
        DEF record_failure, ReopenAfterProbe, CountFailure, TypeOK
      <4> QED
        BY <2>3, <3>2, <4>2, <4>3, <4>4 DEF Finish, record_failure, TypeOK
    <3>3. CASE Unrecorded(c)
      BY <3>3, <2>3, LandedType DEF Finish, Unrecorded, TypeOK
    <3> QED
      BY <2>3, <3>1, <3>2, <3>3 DEF Finish
  <2>4. CASE UNCHANGED vars
    BY <2>4 DEF vars, TypeOK
  <2> QED
    BY <2>1, <2>2, <2>3, <2>4 DEF Next, Reject
<1> QED
  BY <1>1, <1>2, PTL DEF Spec

-----------------------------------------------------------------------------
(* The state and the failure count agree, and a half-open circuit has no     *)
(* fresh failure behind it.                                                  *)

\* Inductive: the count tells the state, the consecutive-failure history tells
\* the count while the circuit is closed, the ages run together while it is
\* open, and both have run out while it is half-open.
CountInv ==
    /\ ClosedIffBelowThreshold
    /\ state = "closed" => streak = failure_count
    /\ state = "open" => open_age <= failure_age
    /\ state = "half-open" => failure_age = RecoveryTimeout

LEMMA CountInvInductive ==
    ASSUME TypeOK, CountInv, [Next]_vars
    PROVE  CountInv'
<1> USE ConstantsAssumption DEF CountInv, ClosedIffBelowThreshold, TypeOK
<1>1. CASE Tick
  BY <1>1 DEF Tick
<1>2. ASSUME NEW c \in Calls, Admit(c) PROVE CountInv'
  BY <1>2 DEF Admit, AdmitClosed, AdmitFirstProbe, AdmitNextProbe, RecoveryElapsed
<1>3. ASSUME NEW c \in Calls, NEW how \in Outcomes, Finish(c, how) PROVE CountInv'
  <2>1. CASE record_success(c)
    BY <2>1 DEF record_success
  <2>2. CASE record_failure(c)
    BY <2>2 DEF record_failure, ReopenAfterProbe, CountFailure, Count
  <2>3. CASE Unrecorded(c)
    BY <2>3 DEF Unrecorded
  <2> QED
    BY <1>3, <2>1, <2>2, <2>3 DEF Finish
<1>4. CASE UNCHANGED vars
  BY <1>4 DEF vars
<1> QED
  BY <1>1, <1>2, <1>3, <1>4 DEF Next, Reject

LEMMA CountInvHolds == Spec => []CountInv
<1>1. Init => CountInv
  BY ConstantsAssumption DEF Init, CountInv, ClosedIffBelowThreshold
<1> QED
  BY <1>1, TypeCorrect, CountInvInductive, PTL DEF Spec

\* The circuit is closed exactly while fewer than failure_threshold failures
\* have been counted (record_success, record_failure).
THEOREM ClosedIffBelowThresholdHolds == Spec => []ClosedIffBelowThreshold
BY CountInvHolds, PTL DEF CountInv

\* A probe is let through only after a whole recovery timeout without any
\* recorded failure (_check_and_maybe_transition against record_failure).
THEOREM QuietBeforeProbeHolds == Spec => QuietBeforeProbe
<1>1. TypeOK /\ CountInv /\ [Next]_vars
        => [\A c \in Calls :
              (flight[c] = "none" /\ flight'[c] = "probe")
                 => failure_age >= RecoveryTimeout]_vars
  <2> SUFFICES ASSUME TypeOK, CountInv, Next,
                      NEW c \in Calls, flight[c] = "none", flight'[c] = "probe"
               PROVE  failure_age >= RecoveryTimeout
    OBVIOUS
  <2> USE ConstantsAssumption DEF CountInv, TypeOK
  <2>1. CASE Tick
    BY <2>1 DEF Tick
  <2>2. ASSUME NEW d \in Calls, Admit(d) PROVE failure_age >= RecoveryTimeout
    <3>1. CASE AdmitClosed(d)
      BY <2>2, <3>1 DEF AdmitClosed
    <3>2. CASE AdmitFirstProbe(d)
      BY <3>2 DEF AdmitFirstProbe, RecoveryElapsed
    <3>3. CASE AdmitNextProbe(d)
      BY <3>3 DEF AdmitNextProbe
    <3> QED
      BY <2>2, <3>1, <3>2, <3>3 DEF Admit
  <2>3. ASSUME NEW d \in Calls, NEW how \in Outcomes, Finish(d, how)
        PROVE  failure_age >= RecoveryTimeout
    <3>1. \E b \in BOOLEAN : flight' = Landed(d, b)
      BY <2>3 DEF Finish, record_success, record_failure, Unrecorded
    <3> QED
      BY <3>1 DEF Landed
  <2>4. CASE UNCHANGED vars
    BY <2>4 DEF vars
  <2> QED
    BY <2>1, <2>2, <2>3, <2>4 DEF Next, Reject
<1> QED
  BY <1>1, TypeCorrect, CountInvHolds, PTL DEF Spec, QuietBeforeProbe

\* The circuit opens only when failure_threshold failures in a row have been
\* recorded (record_failure, and record_success resetting the count).
THEOREM OpensOnConsecutiveFailuresHolds == Spec => OpensOnConsecutiveFailures
<1>1. TypeOK /\ CountInv /\ [Next]_vars
        => [state = "closed" /\ state' # "closed"
              => state' = "open" /\ streak' >= FailureThreshold]_vars
  <2> SUFFICES ASSUME TypeOK, CountInv, Next, state = "closed", state' # "closed"
               PROVE  state' = "open" /\ streak' >= FailureThreshold
    OBVIOUS
  <2> USE ConstantsAssumption DEF CountInv, TypeOK
  <2>1. CASE Tick
    BY <2>1 DEF Tick
  <2>2. ASSUME NEW c \in Calls, Admit(c) PROVE FALSE
    <3>1. AdmitClosed(c) \/ AdmitFirstProbe(c) \/ AdmitNextProbe(c)
      BY <2>2 DEF Admit
    <3> QED
      BY <3>1 DEF AdmitClosed, AdmitFirstProbe, AdmitNextProbe
  <2>3. ASSUME NEW c \in Calls, NEW how \in Outcomes, Finish(c, how)
        PROVE  state' = "open" /\ streak' >= FailureThreshold
    <3>1. CASE record_success(c)
      BY <3>1 DEF record_success
    <3>2. CASE record_failure(c)
      BY <3>2 DEF record_failure, ReopenAfterProbe, CountFailure, Count
    <3>3. CASE Unrecorded(c)
      BY <3>3 DEF Unrecorded
    <3> QED
      BY <2>3, <3>1, <3>2, <3>3 DEF Finish
  <2>4. CASE UNCHANGED vars
    BY <2>4 DEF vars
  <2> QED
    BY <2>1, <2>2, <2>3, <2>4 DEF Next, Reject
<1> QED
  BY <1>1, TypeCorrect, CountInvHolds, PTL DEF Spec, OpensOnConsecutiveFailures

-----------------------------------------------------------------------------
(* Used by one caller at a time, the breaker is the documented one.          *)

\* Inductive: a lone task's call was let through in the state that lasts.
LoneCallFresh ==
    \A c \in Calls :
        /\ flight[c] = "normal" => state = "closed"
        /\ flight[c] = "probe" => state = "half-open"
        /\ flight[c] # "stale"

\* Also inductive: the recovery timeout matters to an open circuit only.
AgeInv == state # "open" => open_age = RecoveryTimeout

LEMMA SequentialInvInductive ==
    ASSUME \A c, d \in Calls : c = d,
           TypeOK, LoneCallFresh, AgeInv, [Next]_vars
    PROVE  LoneCallFresh' /\ AgeInv'
<1> USE DEF LoneCallFresh, AgeInv, TypeOK, InFlight
<1>1. CASE Tick
  BY <1>1, ConstantsAssumption DEF Tick
<1>2. ASSUME NEW c \in Calls, Admit(c) PROVE LoneCallFresh' /\ AgeInv'
  <2>1. AgeInv'
    BY <1>2, ConstantsAssumption
    DEF Admit, AdmitClosed, AdmitFirstProbe, AdmitNextProbe, RecoveryElapsed
  <2>2. CASE AdmitClosed(c)
    BY <2>1, <2>2 DEF AdmitClosed
  <2>3. CASE AdmitFirstProbe(c)
    BY <2>1, <2>3 DEF AdmitFirstProbe
  <2>4. CASE AdmitNextProbe(c)
    BY <2>1, <2>4 DEF AdmitNextProbe
  <2> QED
    BY <1>2, <2>2, <2>3, <2>4 DEF Admit
<1>3. ASSUME NEW c \in Calls, NEW how \in Outcomes, Finish(c, how)
      PROVE LoneCallFresh' /\ AgeInv'
  <2>1. \E b \in BOOLEAN : flight' = Landed(c, b)
    BY <1>3 DEF Finish, record_success, record_failure, Unrecorded
  <2>2. \A d \in Calls : flight'[d] = "none"
    BY <2>1 DEF Landed
  <2>3. AgeInv'
    <3>1. CASE record_success(c)
      BY <3>1 DEF record_success
    <3>2. CASE record_failure(c)
      BY <3>2 DEF record_failure, ReopenAfterProbe, CountFailure
    <3>3. CASE Unrecorded(c)
      BY <3>3 DEF Unrecorded
    <3> QED
      BY <1>3, <3>1, <3>2, <3>3 DEF Finish
  <2> QED
    BY <2>2, <2>3
<1>4. CASE UNCHANGED vars
  BY <1>4 DEF vars
<1> QED
  BY <1>1, <1>2, <1>3, <1>4 DEF Next, Reject

\* With a single caller CircuitBreaker implements FowlerBreaker: every step is
\* a transition of the documented diagram, or leaves its state alone.
THEOREM SequentialIsFowler ==
    ASSUME \A c, d \in Calls : c = d
    PROVE  Spec => FowlerPattern
<1> USE DEF Fowler!Trip, Fowler!LetProbe, Fowler!Close, Fowler!Wait, Fowler!fowlerVars
<1>1. Init => Fowler!FowlerInit
  BY DEF Init, Fowler!FowlerInit
<1>2. Init => LoneCallFresh /\ AgeInv
  BY DEF Init, LoneCallFresh, AgeInv
<1>3. TypeOK /\ LoneCallFresh /\ AgeInv /\ [Next]_vars
        => [Fowler!FowlerNext]_Fowler!fowlerVars
  <2> SUFFICES ASSUME TypeOK, LoneCallFresh, AgeInv, [Next]_vars
               PROVE  [Fowler!FowlerNext]_Fowler!fowlerVars
    OBVIOUS
  <2> USE DEF Fowler!FowlerNext
  <2>1. CASE Tick
    BY <2>1 DEF Tick
  <2>2. ASSUME NEW c \in Calls, Admit(c)
        PROVE  [Fowler!FowlerNext]_Fowler!fowlerVars
    <3>1. CASE AdmitClosed(c)
      BY <2>2, <3>1 DEF Admit, AdmitClosed
    <3>2. CASE AdmitFirstProbe(c)
      BY <2>2, <3>2, ConstantsAssumption
      DEF Admit, AdmitFirstProbe, RecoveryElapsed, TypeOK
    <3>3. CASE AdmitNextProbe(c)
      BY <2>2, <3>3 DEF Admit, AdmitNextProbe
    <3> QED
      BY <2>2, <3>1, <3>2, <3>3 DEF Admit
  <2>3. ASSUME NEW c \in Calls, NEW how \in Outcomes, Finish(c, how)
        PROVE  [Fowler!FowlerNext]_Fowler!fowlerVars
    <3>1. state # "open"
      BY <2>3 DEF Finish, LoneCallFresh, TypeOK, InFlight
    <3>2. CASE record_success(c)
      BY <3>1, <3>2 DEF record_success, AgeInv, TypeOK
    <3>3. CASE record_failure(c)
      BY <3>1, <3>3 DEF record_failure, ReopenAfterProbe, CountFailure
    <3>4. CASE Unrecorded(c)
      BY <3>4 DEF Unrecorded
    <3> QED
      BY <2>3, <3>2, <3>3, <3>4 DEF Finish
  <2>4. CASE UNCHANGED vars
    BY <2>4 DEF vars
  <2> QED
    BY <2>1, <2>2, <2>3, <2>4 DEF Next, Reject
<1>4. TypeOK /\ LoneCallFresh /\ AgeInv /\ [Next]_vars
        => (LoneCallFresh /\ AgeInv)'
  BY SequentialInvInductive
<1> QED
  BY <1>1, <1>2, <1>3, <1>4, TypeCorrect, PTL
  DEF Spec, FowlerPattern, Fowler!FowlerSpec
-----------------------------------------------------------------------------
(* Probe slots.                                                              *)

LEMMA ProbeSlotsInductive ==
    ASSUME TypeOK, ProbeSlots, [Next]_vars
    PROVE  ProbeSlots'
<1>1. IsFiniteSet(Probing) /\ IsFiniteSet(Probing')
  BY CallsAssumption, FS_Subset DEF Probing
<1>2. Cardinality({}) = 0 /\ Cardinality(Probing) \in Nat
  BY <1>1, FS_EmptySet, FS_CardinalityType
<1>3. CASE Tick
  BY <1>3 DEF Tick, ProbeSlots, Probing
<1>4. ASSUME NEW c \in Calls, Admit(c) PROVE ProbeSlots'
  <2>1. c \notin Probing
    BY <1>4 DEF Admit, Probing
  <2>2. CASE AdmitClosed(c)
    <3>1. Probing' = Probing
      BY <1>4, <2>2 DEF Admit, AdmitClosed, Probing, TypeOK
    <3> QED
      BY <3>1, <2>2 DEF AdmitClosed, ProbeSlots
  <2>3. ASSUME AdmitFirstProbe(c) \/ AdmitNextProbe(c)
        PROVE  Probing' = Probing \cup {c} /\ state' = "half-open"
    BY <2>3 DEF AdmitFirstProbe, AdmitNextProbe, Probing, TypeOK
  <2>4. Cardinality(Probing \cup {c}) = Cardinality(Probing) + 1
    BY <1>1, <2>1, FS_AddElement
  <2>5. CASE AdmitFirstProbe(c)
    <3>1. Cardinality(Probing) = 0
      BY <1>2, <2>5 DEF AdmitFirstProbe, ProbeSlots
    <3> QED
      BY <2>3, <2>4, <2>5, <3>1 DEF AdmitFirstProbe, ProbeSlots
  <2>6. CASE AdmitNextProbe(c)
    <3>1. Cardinality(Probing') = Cardinality(Probing) + 1 /\ state' = "half-open"
      BY <2>3, <2>4, <2>6
    <3>2. Cardinality(Probing) <= half_open_calls /\ half_open_calls \in Nat
      BY DEF ProbeSlots, TypeOK
    <3>3. half_open_calls' = half_open_calls + 1
      BY <2>6 DEF AdmitNextProbe
    <3>4. Cardinality(Probing') <= half_open_calls'
      BY <1>2, <3>1, <3>2, <3>3
    <3> QED
      BY <3>1, <3>4 DEF ProbeSlots
  <2> QED
    BY <1>4, <2>2, <2>5, <2>6 DEF Admit
<1>5. ASSUME NEW c \in Calls, NEW how \in Outcomes, Finish(c, how) PROVE ProbeSlots'
  <2>1. ASSUME NEW b \in BOOLEAN, flight' = Landed(c, b)
        PROVE  Probing' \subseteq Probing /\ (b => Probing' = {})
    BY <2>1 DEF Landed, Probing
  <2>2. ASSUME Probing' \subseteq Probing
        PROVE  Cardinality(Probing') \in Nat /\ Cardinality(Probing') <= Cardinality(Probing)
    BY <1>1, <2>2, FS_Subset, FS_CardinalityType
  <2>3. CASE record_success(c)
    <3>1. Probing' = {}
      BY <2>1, <2>3 DEF record_success
    <3> QED
      BY <1>2, <2>3, <3>1 DEF record_success, ProbeSlots
  <2>4. CASE record_failure(c)
    <3>1. Probing' \subseteq Probing /\ (state = "half-open" => Probing' = {})
      <4>1. (state = "half-open") \in BOOLEAN
        OBVIOUS
      <4> QED
        BY <2>1, <2>4, <4>1 DEF record_failure
    <3>2. Probing' = {}
      BY <3>1 DEF ProbeSlots
    <3>3. half_open_calls' = half_open_calls
      BY <2>4 DEF record_failure
    <3> QED
      BY <1>2, <3>2, <3>3 DEF ProbeSlots, TypeOK
  <2>5. CASE Unrecorded(c)
    <3>1. Probing' \subseteq Probing
      BY <2>1, <2>5 DEF Unrecorded
    <3> QED
      BY <1>2, <2>2, <2>5, <3>1 DEF Unrecorded, ProbeSlots, TypeOK
  <2> QED
    BY <1>5, <2>3, <2>4, <2>5 DEF Finish
<1>6. CASE UNCHANGED vars
  BY <1>6 DEF vars, ProbeSlots, Probing
<1> QED
  BY <1>3, <1>4, <1>5, <1>6 DEF Next, Reject

\* No half-open episode lets more than half_open_max_calls probes run at the
\* same time, and none of its probes runs on after it as one of its own
\* (_check_and_maybe_transition against both record methods).
THEOREM ProbeSlotsHold ==
    Spec => [](ProbeSlots /\ Cardinality(Probing) <= HalfOpenMaxCalls)
<1>1. Init => ProbeSlots
  <2>1. Init => Probing = {}
    BY DEF Init, Probing
  <2> QED
    BY <2>1, FS_EmptySet DEF Init, ProbeSlots
<1>2. TypeOK /\ ProbeSlots => Cardinality(Probing) <= HalfOpenMaxCalls
  <2>1. Cardinality(Probing) \in Nat
    BY CallsAssumption, FS_Subset, FS_CardinalityType DEF Probing
  <2> QED
    BY <2>1, ConstantsAssumption DEF TypeOK, ProbeSlots
<1> QED
  BY <1>1, <1>2, TypeCorrect, ProbeSlotsInductive, PTL DEF Spec
-----------------------------------------------------------------------------
(* With any number of callers, only a late result leaves the diagram.        *)

LEMMA AgeInvHolds == Spec => []AgeInv
<1>1. Init => AgeInv
  BY DEF Init, AgeInv
<1>2. TypeOK /\ AgeInv /\ [Next]_vars => AgeInv'
  <2> SUFFICES ASSUME TypeOK, AgeInv, [Next]_vars PROVE AgeInv'
    OBVIOUS
  <2> USE ConstantsAssumption DEF AgeInv, TypeOK
  <2>1. CASE Tick
    BY <2>1 DEF Tick
  <2>2. ASSUME NEW c \in Calls, Admit(c) PROVE AgeInv'
    BY <2>2 DEF Admit, AdmitClosed, AdmitFirstProbe, AdmitNextProbe, RecoveryElapsed
  <2>3. ASSUME NEW c \in Calls, NEW how \in Outcomes, Finish(c, how) PROVE AgeInv'
    BY <2>3 DEF Finish, record_success, record_failure, ReopenAfterProbe,
                CountFailure, Unrecorded
  <2>4. CASE UNCHANGED vars
    BY <2>4 DEF vars
  <2> QED
    BY <2>1, <2>2, <2>3, <2>4 DEF Next, Reject
<1> QED
  BY <1>1, <1>2, TypeCorrect, PTL DEF Spec

\* Every step is a transition of the documented diagram, leaves its state
\* alone, or records a result whose episode is over (record_success and
\* record_failure against _check_and_maybe_transition).
THEOREM FowlerExceptLateHolds == Spec => FowlerExceptLate
<1> USE DEF Fowler!Trip, Fowler!LetProbe, Fowler!Close, Fowler!Wait, Fowler!fowlerVars
<1>1. Init => Fowler!FowlerInit
  BY DEF Init, Fowler!FowlerInit
<1>2. TypeOK /\ ProbeSlots /\ AgeInv /\ [Next]_vars
        => [[Fowler!FowlerNext]_(Fowler!fowlerVars) \/ LateResult]_vars
  <2> SUFFICES ASSUME TypeOK, ProbeSlots, AgeInv, Next, ~LateResult
               PROVE  [Fowler!FowlerNext]_(Fowler!fowlerVars)
    BY DEF vars
  <2> USE DEF Fowler!FowlerNext
  <2>1. CASE Tick
    BY <2>1 DEF Tick
  <2>2. ASSUME NEW c \in Calls, Admit(c)
        PROVE  [Fowler!FowlerNext]_(Fowler!fowlerVars)
    <3>1. CASE AdmitClosed(c)
      BY <2>2, <3>1 DEF Admit, AdmitClosed
    <3>2. CASE AdmitFirstProbe(c)
      BY <2>2, <3>2, ConstantsAssumption
      DEF Admit, AdmitFirstProbe, RecoveryElapsed, TypeOK
    <3>3. CASE AdmitNextProbe(c)
      BY <2>2, <3>3 DEF Admit, AdmitNextProbe
    <3> QED
      BY <2>2, <3>1, <3>2, <3>3 DEF Admit
  <2>3. ASSUME NEW c \in Calls, NEW how \in Outcomes, Finish(c, how)
        PROVE  [Fowler!FowlerNext]_(Fowler!fowlerVars)
    <3>1. flight'[c] = "none"
      BY <2>3 DEF Finish, record_success, record_failure, Unrecorded, Landed
    <3>2. state # "open"
      <4>1. flight[c] \in InFlight
        BY <2>3 DEF Finish, TypeOK
      <4>2. flight[c] # "stale" /\ (flight[c] = "normal" => state = "closed")
        BY <3>1 DEF LateResult
      <4>3. flight[c] = "probe" => state = "half-open"
        BY DEF ProbeSlots, Probing
      <4> QED
        BY <4>1, <4>2, <4>3 DEF InFlight
    <3>3. CASE record_success(c)
      BY <3>2, <3>3 DEF record_success, AgeInv, TypeOK
    <3>4. CASE record_failure(c)
      BY <3>4 DEF record_failure, ReopenAfterProbe, CountFailure
    <3>5. CASE Unrecorded(c)
      BY <3>5 DEF Unrecorded
    <3> QED
      BY <2>3, <3>3, <3>4, <3>5 DEF Finish
  <2>4. CASE UNCHANGED vars
    BY <2>4 DEF vars
  <2> QED
    BY <2>1, <2>2, <2>3, <2>4 DEF Next, Reject
<1> QED
  BY <1>1, <1>2, TypeCorrect, ProbeSlotsHold, AgeInvHolds, PTL
  DEF Spec, FowlerExceptLate
=============================================================================
