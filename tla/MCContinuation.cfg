CONSTANTS
    LastRun = 2
    MostPages = 2
    MaxAttempts = 2
    MaxFaults = 0
    Sweepers = {sweeper}
    EffectivePages <- EffectivePagesOf
SPECIFICATION RunSpec
INVARIANTS
    ContinuationKept
CHECK_DEADLOCK FALSE
