CONSTANTS
    j1 = j1
    j2 = j2
    w1 = w1
    w2 = w2
    NoOne = NoOne
    Worker <- TwoWorkers
    Job <- TwoJobs
    RetryJob <- None
    CanaryJob <- None
    EnrichJob <- TwoJobs
    Scope = {"scope"}
    ScopeOf <- OneScope
    GuardEnabled = TRUE
    MaxReopens = 1
    MaxAttempts = 1
    MaxClaims = 2
    MaxGen = 2
    Faults = {"statementFault", "humanReject"}
    Failures = {"transient", "ordinary"}
SPECIFICATION Spec
SYMMETRY Symmetry
INVARIANTS
    ReopensWithinCap
PROPERTIES
    GenerationPerReopen
