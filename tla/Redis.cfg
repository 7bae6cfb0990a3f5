SPECIFICATION MCSpec
CONSTANTS
    a1 = a1
    a2 = a2
    a3 = a3
    p1 = p1
    p2 = p2
    r1 = r1
    r2 = r2
    r3 = r3
    Attempts <- ThreeAttempts
    Counters = {"redis", "local"}
    MaxAttempts = 2
    Lockout = 3
    CountCap = 3
    Processes <- TwoProcesses
    Requests <- ThreeRequests
    Backends = {"redis", "local"}
    Ttl = 3
INVARIANTS
    GuessesBounded
    EveryKeyGetsItsTtl
PROPERTIES
    LockoutEndsUnlessDied
    RetryReplays
    
    ReplayedWithinTtl
