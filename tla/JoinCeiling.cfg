SPECIFICATION Spec
CONSTANTS
    s1 = s1
    s2 = s2
    m1 = m1
    NoRunner = NoRunner
    Server <- TwoServers
    Periodic <- NoTier
    Manual <- OneRefresh
    Slot <- TwoSlots
    CYCLE_JOIN_TIMEOUT = 180
INVARIANTS
    JoinCeiling
