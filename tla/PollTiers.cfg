SPECIFICATION FairSpec
CONSTANTS
    s1 = s1
    s2 = s2
    m1 = m1
    NoRunner = NoRunner
    Server <- OneServer
    Periodic <- SlowTier
    Manual <- OneRefresh
    Slot <- TwoSlots
    CYCLE_JOIN_TIMEOUT = 180
INVARIANTS
    TypeOK
    SshExclusive
    BusyOwned
    CycleExclusive
    EvalAfterJoins
PROPERTIES
    ImplementsSessions
    EveryJobServed
