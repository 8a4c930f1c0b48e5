SPECIFICATION Spec
CONSTANTS
    s1 = s1
    a1 = a1
    a2 = a2
    k1 = k1
    k2 = k2
    t1 = t1
    t2 = t2
    None = None
    Server <- OneServer
    Addr <- TwoAddrs
    Target <- OneTarget
    IpOf <- Resolved
    Key <- TwoKeys
    Task <- TwoTasks
SYMMETRY Same
INVARIANTS
    TypeOK
    OneIdentity
    PinFollows
PROPERTIES
    ImplementsTrust
