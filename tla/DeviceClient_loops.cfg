SPECIFICATION Spec
CONSTANTS
    MaxConnections = 2
    MaxRestarts = 2
    MaxAttempts = 2
    MaxWedges = 1
    MicMax = 1
    Workers = 2
INVARIANTS StreamOwned MicSurvives
PROPERTIES StallEnds ShutdownCompletes
CHECK_DEADLOCK FALSE
