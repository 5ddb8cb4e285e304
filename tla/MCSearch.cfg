CONSTANTS
    urgent = urgent
    automatic = automatic
    probe = probe
    classification = classification
    extraction = extraction
    Requests = {urgent, automatic, probe}
    NoRequest = NoRequest
    MaxRetries = 1
    MaxCoolings = 1
    Priority <- PriorityOf
    Lineage <- LineageOf
    LastRun = 2
    MostPages = 2
    EffectivePages <- EffectivePagesOf
    MaxAttempts = 1
    MaxFaults = 1
    Sweepers = {sweeper}
    GeminiCalls = {classification, extraction}
    NoCall = NoCall
    Operation <- OperationOf
    Route <- KeyOf
    Account <- KeyOf
    GlobalMinInterval = 1
    SemanticCooldown = 2
    VocabularySuppression = 3
    VocabularyQuiet = 2
    VocabularyMinInterval = 2
    MaxInlineWait = 1
    Oldest = 3
SPECIFICATION SearchSpec
INVARIANTS
    SearchInvariant
    ProvenanceKept
    ReplaysBounded
PROPERTIES
    AgedNotOvertaken
    EveryRequestSettled
    RunsEnd
    WindowsHeeded
    CapacityFreed
CHECK_DEADLOCK FALSE
