SPECIFICATION FocusSpec
CONSTANTS
    a = a
    b = b
    i1 = i1
    w1 = w1
    w2 = w2
    None = None
    User <- TwoUsers
    Ip <- OneIp
    Worker <- TwoWorkers
    Counter <- TwoCounters
    RequireMfa = TRUE
    MaxNumber = 3
    MaxVersion = 5
    MaxSessions = 2
    MaxFailuresPair = 2
    MaxFailuresIp = 3
    Window = 2
    MaxBuckets = 1
    MaxClock = 3
SYMMETRY Workers
INVARIANTS
    TypeOK
    CodeUsedOnce
    SessionsCurrent
    GuessesBounded
PROPERTIES
    RevokedForGood
