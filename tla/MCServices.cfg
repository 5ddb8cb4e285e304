CONSTANTS
    PoolKeys = {k1, k2}
    Calls = {call1, call2}
    NoKey = NoKey
    MaxFailures = 2
    MaxWrites = 2
    Requests = {plain, probe, bulk}
    Keys = {k1, k2}
    Units <- UnitsOfRequests
    Probe = {probe}
    KeyCap = 2
    ProbeCap = 1
    LastDay = 2
    Operations = {o1, o2}
    Ask <- AskOfOperations
    Budget = 2
    MaxCharges = 1
    plain = plain
    probe = probe
    bulk = bulk
    o1 = o1
    o2 = o2
    c1 = c1
    c2 = c2
    i1 = i1
    i2 = i2
    NoOne = NoOne
    NoRun = NoRun
    a1 = a1
    a2 = a2
    q1 = q1
    e1 = e1
    e2 = e2
    e3 = e3
    NoExtraction = NoExtraction
    Channels = {c1, c2}
    Invites = {i1, i2}
    Runs = {run1, run2}
    Actions = {a1, a2}
    Cycles = {cycle1, cycle2}
    Cost <- CostOfActions
    MaxAssignments = 2
    MaxProviderCost = 2
    AiRequests = {q1, q2}
    Extractions = {e1, e2, e3}
    DailyCalls = 2
    DailyCost = 2
SPECIFICATION ServicesSpec
SYMMETRY Symmetry
INVARIANTS
    ServicesTypeOK
    MemoryMatchesRows
    SpendWithinCaps
    
    DiscoveriesKept
    BorrowedInvitesOwned
    RunWithinBounds
    ServingHasAuthority
PROPERTIES
    OperatorConfigKept
    
CHECK_DEADLOCK FALSE
