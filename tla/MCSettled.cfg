CONSTANTS
    w1 = w1
    w2 = w2
    metadata = metadata
    playlist = playlist
    NoOne = NoOne
    Worker <- TwoWorkers
    Action <- TwoActions
    RootAction = metadata
    MaxAttempts = 1
    MaxSteps = 2
    MaxClaims = 2
    Disturbances = {}
    Failures = {"ordinary"}
SPECIFICATION Spec
PROPERTIES
    SettledIsFinal
