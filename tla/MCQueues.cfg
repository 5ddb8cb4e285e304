CONSTANTS
    j1 = j1
    j2 = j2
    w1 = w1
    w2 = w2
    NoOne = NoOne
    Worker <- TwoWorkers
    Job <- OneJob
    RetryJob <- OneJob
    CanaryJob <- None
    EnrichJob <- None
    Scope = {"scope"}
    ScopeOf <- OneScope
    GuardEnabled = FALSE
    MaxReopens = 1
    MaxAttempts = 2
    MaxClaims = 3
    MaxGen = 1
    Faults = {}
    Failures = {"terminal", "policy", "probe", "transient", "cooldown", "ordinary"}
    classifier = classifier
    reviewer = reviewer
    diagnostic = diagnostic
    label = label
    Assignments = {invalid}
    Invalid = {invalid}
    Diagnostics = {diagnostic}
    Labels = {label}
    Observers = {classifier, reviewer}
    Subject <- SubjectOf
    Sweepers = {sweeper}
    NoObservation = NoObservation
    MaxMishaps = 1
SPECIFICATION QueuesSpec
INVARIANTS
    QueuesTypeOK
    ExclusiveExecution
    AttemptsWithinRecoveries
    CompletedIsWhole
PROPERTIES
    ImplementsLease
    ObservationsEnd
