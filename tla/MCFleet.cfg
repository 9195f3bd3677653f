\* Up to two processes, a cooldown of one tick.
SPECIFICATION FairSpec
CONSTANTS
    Workers = {w1, w2}
    MaxRetries = 2
    MinWorkers = 1
    MaxWorkers = 2
    TargetWait = 1
    TargetUtilization = 1
    DeferralThreshold = 2
    IdleLimit = 1
    InitialWorkers = 1
    Cooldown = 1
INVARIANTS
    TypeOK
    SwitchIsObeyed
PROPERTIES
    PoolFollowsLoad
