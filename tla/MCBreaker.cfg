\* Batches may be abandoned and an operator may reset the circuit.
SPECIFICATION FairSpec
CONSTANTS
    FailureThreshold = 3
    RecoveryTimeout = 3
    HalfOpenMaxProbes = 2
    MaxBatch = 4
    MayAbandon = TRUE
    ManualReset = TRUE
INVARIANTS
    TypeOK
    ClosedCountsTheStreak
    HalfOpenIsRested
    ProbeBudget
PROPERTIES
    NoTrialWhileCooling
    ClosesOnlyThroughTrial
    OutageIsProbed
