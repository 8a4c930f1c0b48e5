SPECIFICATION FairFocusSpec
CONSTANTS
    s1 = s1
    s2 = s2
    p1 = p1
    p2 = p2
    f = f
    h = h
    k = k
    b = b
    r = r
    Evaluator = Evaluator
    Server <- TwoServers
    Poller <- TwoPollers
    Fault <- OneFault
    SshFault <- OneSsh
    Point <- OnePoint
    Bmc <- OneBmc
    Rule <- OneRule
    Copy <- ThreeCopies
INVARIANTS
    TypeOK
    DuplicateBound
    SingleAlert
PROPERTIES
    FaultClears
    FaultRaised
    MaintenanceSettles
    RuleClears
    PointCloses
