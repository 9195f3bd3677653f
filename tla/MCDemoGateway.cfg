\* Two gateway threads and three requests, enough to overshoot a limit of one;
\* the worker takes one at a time and nothing fails.
SPECIFICATION GatewaySpec
CONSTANTS
    Threads = {t1, t2}
    Requests = {r1, r2, r3}
    Loops = {l1}
    MaxPending = 1
    MaxProcessing = 1
    BatchSize = 1
    LargeBatch = 1
    Buckets = {1}
    AdapterMayFail = FALSE
    MetricsMayFail = FALSE
SYMMETRY Symmetry
INVARIANTS
    DemoOvershootIsBounded
