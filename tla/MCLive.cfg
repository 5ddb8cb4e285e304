CONSTANTS
    j1 = j1
    j2 = j2
    w1 = w1
    w2 = w2
    NoOne = NoOne
    Worker <- TwoWorkers
    Job <- OneJob
    RetryJob <- OneJob
    CanaryJob <- None
    EnrichJob <- None
    Scope = {"scope"}
    ScopeOf <- OneScope
    GuardEnabled = FALSE
    MaxReopens = 1
    MaxAttempts = 2
    MaxClaims = 3
    MaxGen = 1
    Faults = {"leaseLoss", "statementFault"}
    Failures = {"ordinary"}
SPECIFICATION FairSpec
PROPERTIES
    ClaimsEnd
    MarksNoNewerAttempt
