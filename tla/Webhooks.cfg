SPECIFICATION Spec
CONSTANTS
    e1 = e1
    e2 = e2
    d1 = d1
    d2 = d2
    j1 = j1
    k1 = k1
    k2 = k2
    Endpoints <- TwoEndpoints
    Deliveries <- TwoDeliveries
    Dispatches <- OneDispatch
    Replays <- TwoReplays
    MaxAttempts = 3
    PostCap = 3
\* The uuids run out and PostCap stops the replays.
CHECK_DEADLOCK FALSE
SYMMETRY Alike
INVARIANTS
    LogIsHonest
    EveryPostLoggedUnlessDeleted
    
