\* Two tool steps, the default of two recoveries, batches of up to three;
\* caps and usages so that a recovery can grow, is cut, or cannot grow.
SPECIFICATION RequestSpec
CONSTANTS
    MaxSteps = 2
    MaxRecoveries = 2
    MaxBatch = 3
    MaxPosts = 3
    Limits = {0, 3}
    Usages = {0, 2, 3}
INVARIANTS
    TypeOK
    WithinRecursionLimit
    VerifiedIsDelivered
    RecoveryGrows
PROPERTIES
    NoToolAfterAcceptance
    RunEnds
