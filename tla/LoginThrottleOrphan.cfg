SPECIFICATION ThrottleFairSpec
CONSTANTS
    a1 = a1
    a2 = a2
    a3 = a3
    Attempts <- ThreeAttempts
    Counters = {"redis"}
    MaxAttempts = 2
    Lockout = 3
    CountCap = 3
PROPERTY LockoutEnds
