SPECIFICATION FairSpec
CONSTANTS
    c1 = c1
    c2 = c2
    c3 = c3
    Calls <- ThreeCalls
    Styles = {"call", "with"}
    Outcomes = {"success", "failure", "cancelled"}
    FailureThreshold = 2
    RecoveryTimeout = 2
    HalfOpenMaxCalls = 2
    CountCap = 3
INVARIANTS
    ProbeSlots
PROPERTIES
    QuietBeforeProbe
    OpensOnConsecutiveFailures
    FowlerExceptLate
    HalfOpenResolvesInWith
