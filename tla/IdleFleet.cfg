SPECIFICATION Spec
CONSTANTS
    s1 = s1
    s2 = s2
    NotIdle = NotIdle
    NotLoaded = NotLoaded
    Server <- TwoServers
    Gpu <- OneGpuEach
    Host <- HostOf
    MaxSamples = 6
    MaxFaults = 0
INVARIANTS
    DurationExact
CHECK_DEADLOCK FALSE
