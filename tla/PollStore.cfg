SPECIFICATION MCSpec
CONSTANTS
    p1 = p1
    p2 = p2
    g1 = g1
    k1 = k1
    k2 = k2
    k3 = k3
    k4 = k4
    None = None
    Pass <- TwoPasses
    Gpu <- OneGpu
    Line <- KLines
    Oom <- OomLines
    Victim <- Victims
    Machine <- Machines
    Copy <- Copies
    Channel <- Channels
    MaxEvents = 2
    MaxFaults = 1
INVARIANTS
    TypeOK
    MissingTold
PROPERTIES
    RecoveryHeard
    KernelRecorded
    ReturnClears
