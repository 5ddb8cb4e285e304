CONSTANTS
    j1 = j1
    j2 = j2
    w1 = w1
    w2 = w2
    NoOne = NoOne
    Worker <- TwoWorkers
    Job <- OneJob
    RetryJob <- None
    CanaryJob <- OneJob
    EnrichJob <- None
    Scope = {"scope"}
    ScopeOf <- OneScope
    GuardEnabled = FALSE
    MaxReopens = 1
    MaxAttempts = 1
    MaxClaims = 3
    MaxGen = 1
    Faults = {"leaseLoss", "statementFault", "humanReject"}
    Failures = {"transient", "ordinary"}
SPECIFICATION Spec
SYMMETRY Symmetry
INVARIANTS
    LeaseNamesNewestClaim
PROPERTIES
    CanaryCompletedByItsClaim
