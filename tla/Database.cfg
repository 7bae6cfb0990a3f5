SPECIFICATION MCSpec
CONSTANTS
    p1 = p1
    p2 = p2
    t1 = t1
    t2 = t2
    t3 = t3
    d1 = d1
    d2 = d2
    m1 = m1
    m2 = m2
    NoUrl = NoUrl
    Keys <- FourKeys
    BatchSizes = {1, 2}
    Filters = {TRUE, FALSE}
    Runners <- TwoRunners
    Tasks <- ThreeTasks
    Urls <- TwoUrls
    AutoCreate = TRUE
    SwitchCap = 2
    Migrators <- TwoMigrators
    RunCap = 3
\* RunCap stops the migrations.
CHECK_DEADLOCK FALSE
INVARIANTS
    EveryRowFilled
    ProcessedIsExact
    SchemaFollowsVersion
    SessionHasTables
    AppliedOnce
PROPERTIES
    OwnValuesKept
    Finishes
    NobodyWaitsForEver
