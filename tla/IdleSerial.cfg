SPECIFICATION Spec
CONSTANTS
    s1 = s1
    s2 = s2
    NotIdle = NotIdle
    NotLoaded = NotLoaded
    Server <- OneServer
    Gpu <- TwoGpus
    Host <- HostOf
    MaxSamples = 6
    MaxFaults = 2
INVARIANTS
    TypeOK
    RunsReported
    MemoryCommitted
CHECK_DEADLOCK FALSE
