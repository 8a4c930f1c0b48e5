SPECIFICATION Spec
CONSTANTS
    s1 = s1
    s2 = s2
    None = None
    Server <- TwoServers
    Place <- TwoPlaces
    Sample <- Samples
    Start = 2
    MaxHour = 4
    MaxBackfill = 3
    Keep = 2
    MaxChanges = 1
CHECK_DEADLOCK FALSE
INVARIANTS
    TypeOK
    NoHole
PROPERTIES
    KeepsCounted
