\* The demo: two threads, and a worker that releases; a publish may fail, and
\* the worker may die.
SPECIFICATION FairSpec
CONSTANTS
    Threads = {t1, t2}
    Tenants = {x1}
    MaxPerMinute = 2
    MaxConcurrent = 1
    Window = 2
    MaxCallAge = 1
    MaxRequests = 3
    MaxLost = 2
    WorkerReleases = TRUE
    MayFail = TRUE
INVARIANTS
    TypeOK
    CounterOvershootIsBounded
    NoSlotIsLost
    RateIsKept
PROPERTIES
    NobodyIsLockedOut
