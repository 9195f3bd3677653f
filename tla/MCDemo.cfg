\* One gateway thread, the worker, failures, and a scheduler that may be
\* stopped and started again once.
SPECIFICATION FairSpec
CONSTANTS
    Threads = {t1}
    Requests = {r1, r2}
    Loops = {l1, l2}
    MaxPending = 2
    MaxProcessing = 1
    BatchSize = 2
    LargeBatch = 1
    Buckets = {1, 2}
    AdapterMayFail = TRUE
    MetricsMayFail = TRUE
INVARIANTS
    TypeOK
    TrailTellsTheTruth
    CountersBalance
PROPERTIES
    KeepsPromise
    SchedulerObeys
