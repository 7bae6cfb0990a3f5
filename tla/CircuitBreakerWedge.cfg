SPECIFICATION FairSpec
CONSTANTS
    c1 = c1
    c2 = c2
    c3 = c3
    Calls <- ThreeCalls
    Styles = {"call"}
    Outcomes = {"success", "failure", "cancelled", "refused"}
    FailureThreshold = 2
    RecoveryTimeout = 2
    HalfOpenMaxCalls = 1
    CountCap = 3
PROPERTY HalfOpenResolves
